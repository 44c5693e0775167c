---------------------------- MODULE EthBlockSync ----------------------------
(***************************************************************************)
(* The Ethereum block ingester, src/ingester/eth/eth_block_ingester.py,    *)
(* run by the celery task sync_blocks_eth (QueueOnce: one at a time).      *)
(*                                                                         *)
(* poll_blocks compares the latest non-orphaned ProcessedBlock with the    *)
(* node's block at its height; on a mismatch it marks it orphaned, cleans  *)
(* its ledger rows and calls itself again.  Otherwise process_blocks walks *)
(* heights upwards from the next one: for every block it writes the        *)
(* ledger rows of tracked transactions, publishes the block, and saves a   *)
(* ProcessedBlock (un-orphaning a resurrected one), until the node has no  *)
(* block at the height.                                                    *)
(*                                                                         *)
(* The ledger is one Transaction row per tracked txid holding its          *)
(* block_hash, and the BalanceChange rows of the tracked address Me that   *)
(* EthTransfers computes from what the block transaction moves; the       *)
(* ingester is their only writer here.                                     *)
(***************************************************************************)
EXTENDS ProcessedBlocks, EthTransfers

CONSTANTS
    NoRow,      \* absence of a Transaction row
    MaxFails,   \* bound on failures (node, etherscan, database, worker)
    Contents    \* what a tracked transaction can move (EthTransfers records)

VARIABLES
    rows,       \* rows[t]: block_hash of the Transaction row of t, or NoRow
    pc,         \* the step of the running sync_blocks_eth task
    cur,        \* the block under the uncle check, or being processed
    num,        \* process_blocks: the height it fetches next
    todo,       \* tracked txids of cur still to be saved
    fails,      \* failures so far
    content,    \* content[t]: the transfers of transaction t (fixed)
    bcs         \* bcs[t]: the (lookup key, amount) of the BalanceChange
                \*   rows of Me under the Transaction row of t

vars == <<chainVars, processed, rows, pc, cur, num, todo, fails, content, bcs>>

\* gas_used * gas_price of every transaction
GasFee == 1

Heights == 1..(CHOOSE h \in {Height[b] : b \in Blocks} :
                   \A b \in Blocks : Height[b] <= h) + 1

TypeOK ==
    /\ tip \in Blocks /\ moves \in 0..MaxMoves
    /\ processed \in [Blocks -> BlockStates]
    /\ rows \in [Txids -> Blocks \cup {NoRow}]
    /\ pc \in {"idle", "poll", "clean", "fetch", "txs", "record"}
    /\ cur \in Blocks \cup {NoBlock}
    /\ num \in Heights
    /\ todo \subseteq Txids
    /\ fails \in 0..MaxFails
    /\ content \in [Txids -> Contents]
    /\ DOMAIN bcs = Txids

Init ==
    /\ ChainInit
    /\ processed = [b \in Blocks |-> "none"]
    /\ rows = [t \in Txids |-> NoRow]
    /\ pc = "idle"
    /\ cur = NoBlock
    /\ num = 1
    /\ todo = {}
    /\ fails = 0
    /\ content \in [Txids -> Contents]
    /\ bcs = [t \in Txids |-> {}]

\* the task ends, normally or by an exception
Stop ==
    /\ pc' = "idle"
    /\ cur' = NoBlock
    /\ todo' = {}

\* celery beat starts sync_blocks_eth
SyncBlocksEth ==
    /\ pc = "idle"
    /\ pc' = "poll"
    /\ UNCHANGED <<chainVars, processed, rows, cur, num, todo, fails, content, bcs>>

\* process_blocks(start): getBlock(start) starts the loop
ProcessBlocks(start) ==
    /\ num' = start
    /\ pc' = "fetch"
    /\ UNCHANGED <<processed, cur, todo>>

\* variant: process_blocks(latest_known.block_height), re-reading the
\* latest known height instead of starting above it
PollBlocksFromLatest ==
    /\ pc = "poll"
    /\ IF Latest = {}
       THEN ProcessBlocks(Height[tip])
       ELSE \E l \in Latest :
              LET onNode == BlockAtHeight(Height[l])
              IN CASE onNode = NoBlock ->
                        /\ Stop
                        /\ UNCHANGED <<processed, num>>
                   [] onNode # l ->
                        /\ processed' = [processed EXCEPT ![l] = "orphan"]
                        /\ cur' = l
                        /\ pc' = "clean"
                        /\ UNCHANGED <<num, todo>>
                   [] OTHER ->
                        ProcessBlocks(Height[l])
    /\ UNCHANGED <<chainVars, rows, fails, content, bcs>>

\* poll_blocks.  block_by_height.get('hash') is read before the
\* "block_by_height is None" test, so a node with no block at the latest
\* known height raises instead of taking the orphan branch.
PollBlocks ==
    /\ pc = "poll"
    /\ IF Latest = {}
       THEN ProcessBlocks(Height[tip])
       ELSE \E l \in Latest :
              LET onNode == BlockAtHeight(Height[l])
              IN CASE onNode = NoBlock ->
                        /\ Stop
                        /\ UNCHANGED <<processed, num>>
                   [] onNode # l ->
                        /\ processed' = [processed EXCEPT ![l] = "orphan"]
                        /\ cur' = l
                        /\ pc' = "clean"
                        /\ UNCHANGED <<num, todo>>
                   [] OTHER ->
                        ProcessBlocks(Height[l] + 1)
    /\ UNCHANGED <<chainVars, rows, fails, content, bcs>>

\* ProcessedBlock.cleanUpOrphans(latest_known.id), then the recursive
\* poll_blocks()
CleanUpOrphans ==
    /\ pc = "clean"
    /\ rows' = [t \in Txids |-> IF rows[t] = cur THEN NoRow ELSE rows[t]]
    /\ bcs' = [t \in Txids |-> IF rows[t] = cur THEN {} ELSE bcs[t]]
    /\ pc' = "poll"
    /\ cur' = NoBlock
    /\ UNCHANGED <<chainVars, processed, num, todo, fails, content>>

\* variant: a missing block is skipped and the loop goes on at the next
\* height
FetchBlockSkipMissing ==
    /\ pc = "fetch"
    /\ LET b == BlockAtHeight(num)
       IN IF b = NoBlock
          THEN /\ num' = num + 1
               /\ UNCHANGED <<pc, cur, todo>>
          ELSE /\ cur' = b
               /\ todo' = TxsOf[b]
               /\ pc' = IF TxsOf[b] = {} THEN "record" ELSE "txs"
               /\ UNCHANGED num
    /\ UNCHANGED <<chainVars, processed, rows, fails, content, bcs>>

\* the loop test of process_blocks: web3.eth.getBlock(num); the tracked
\* transactions of the block are those extract_transactions keeps
FetchBlock ==
    /\ pc = "fetch"
    /\ LET b == BlockAtHeight(num)
       IN IF b = NoBlock
          THEN /\ Stop
          ELSE /\ cur' = b
               /\ todo' = TxsOf[b]
               /\ pc' = IF TxsOf[b] = {} THEN "record" ELSE "txs"
    /\ UNCHANGED <<chainVars, processed, rows, num, fails, content, bcs>>

\* process_block of one tracked transaction: extract_transactions, enrich,
\* and save_eth_transactions: Transaction.objects.update_or_create with
\* the block_hash of the block fetched, then BalanceChange.update_or_create
\* of each entry (a row is found again, not duplicated, when its key is)
SaveEthTransaction ==
    /\ pc = "txs"
    /\ \E t \in todo :
         /\ rows' = [rows EXCEPT ![t] = cur]
         /\ bcs' = [bcs EXCEPT ![t] = @ \cup BalanceChanges(content[t], GasFee)]
         /\ todo' = todo \ {t}
         /\ pc' = IF todo = {t} THEN "record" ELSE "txs"
    /\ UNCHANGED <<chainVars, processed, cur, num, fails, content>>

\* the block is published, then ProcessedBlock.get_or_none: a new row is
\* saved, an existing one is un-orphaned; then the next height
RecordBlock ==
    /\ pc = "record"
    /\ processed' = [processed EXCEPT ![cur] = "live"]
    /\ num' = num + 1
    /\ pc' = "fetch"
    /\ UNCHANGED <<chainVars, rows, cur, todo, fails, content, bcs>>

\* an exception anywhere ends the task; nothing committed is undone
Fail ==
    /\ pc # "idle"
    /\ fails < MaxFails
    /\ fails' = fails + 1
    /\ Stop
    /\ UNCHANGED <<chainVars, processed, rows, num, content, bcs>>

Environment ==
    /\ ChainMove
    /\ UNCHANGED <<processed, rows, pc, cur, num, todo, fails, content, bcs>>

Ingester ==
    \/ SyncBlocksEth \/ PollBlocks \/ CleanUpOrphans
    \/ FetchBlock \/ SaveEthTransaction \/ RecordBlock

Next == Ingester \/ Fail \/ Environment

\* celery beat re-runs sync_blocks_eth forever
Spec == Init /\ [][Next]_vars /\ WF_vars(Ingester)

-----------------------------------------------------------------------------
(* Properties *)

\* At most one non-orphaned ProcessedBlock per height (the data-model
\* invariant of the spec); process_blocks only ever records heights above
\* ProcessedBlock.latest.
OneLivePerHeight ==
    \A x, y \in Live : Height[x] = Height[y] => x = y

\* A recorded block that is still canonical has every tracked transaction
\* in the ledger under its hash: save_eth_transactions runs before the
\* ProcessedBlock is saved.
LiveBlocksComplete ==
    \A b \in Live : Canonical(b) => \A t \in TxsOf[b] : rows[t] = b

\* However many ERC20 transfers of a transaction Me sent enrich splits a
\* fee transaction off (one per transfer when no ether is sent with it),
\* the ledger holds one fee BalanceChange for it, across re-ingestion of
\* the transaction in another block too: the copies are taken before the
\* token and erc20_transfer fields are set on the entries they copy, so
\* their Transaction and BalanceChange lookup keys coincide.
Erc20FeeRecordedOnce ==
    \A t \in Txids : Cardinality({bc \in bcs[t] : bc[1].erc20Fee}) <= 1

\* The two writers of an Ethereum account's ledger agree: for every
\* transaction of the address, successful or reverted,
\* sync_ethereum_account, which reads the etherscan lists and saves a
\* transaction that sent ether twice (once as the ERC20 fee, once with the
\* gas zeroed) and honours isError, records per asset the same net
\* BalanceChange amount as enrich and save_eth_transactions do.
HistoryAgreesWithIngester ==
    \A t \in Txids : \A tk \in {Token, NoTx} :
        Net(SyncBalanceChanges(content[t], GasFee), tk)
            = Net(BalanceChanges(content[t], GasFee), tk)

\* Once the node stops reorganising, the ingester records the node's tip.
EventuallyCaughtUp == <>[](processed[tip] = "live")

=============================================================================
