---------------------------- MODULE HeightBlockSync ----------------------------
(***************************************************************************)
(* The block ingesters that walk a chain by height with no fork of their  *)
(* own to resolve: Tendermint (ATOM, RUNE, KAVA, SCRT, OSMO),              *)
(* src/ingester/tendermint/tendermint_block_ingester.py; XRP,              *)
(* src/ingester/xrp/xrp_block_ingester.py; FIO,                            *)
(* src/ingester/fio/fio_block_ingester.py.  Each runs as a QueueOnce      *)
(* celery task of its network; `net`, fixed at Init, says which one the   *)
(* behaviour is about.  The three share the loop of process_blocks and    *)
(* the ledger writes, and differ in poll_blocks and in the node calls.     *)
(*                                                                         *)
(* Tendermint does not fork, but the node behind the REST endpoint can lag *)
(* (tip moves back) and can answer with an error.  Every call goes through *)
(* GaiaTendermintClient.get, which turns a failed request into a JSON      *)
(* error object rather than an exception: get_block_at_height then returns *)
(* None, get_block_hash_at_height returns None, and get_pages stops at the *)
(* first error page and returns the pages it has.                          *)
(*                                                                         *)
(* EOS (src/ingester/eos/eos_block_ingester.py) keeps no ProcessedBlock:  *)
(* every run of ingest_blocks_eos reads the account transactions of the   *)
(* last blocks below the head from dfuse and saves them, writing the       *)
(* BalanceChange only for a Transaction row it created.                    *)
(***************************************************************************)
EXTENDS ProcessedBlocks, Sequences

CONSTANTS
    Networks,   \* a subset of {"tendermint", "xrp", "fio", "bnb"}
    Consumers,  \* the BNB ingest_blocks tasks (alpha, bravo, charlie)
    NoRow,      \* absence of a Transaction row
    MaxErrors,  \* bound on error answers of /blocks/{height}
    MaxPageErrors, \* bound on error pages of /txs?tx.height=
    Lags,       \* TRUE: the node's latest height can go back
    NoHash,     \* the empty block_hash '' of a FIO history transaction
    SyncNetworks, \* the networks an account is registered on
    MaxSyncs,   \* bound on initial_sync_xpub tasks of the account
    EosLow,     \* ingest_txs_over_block_range(-EosLow, -EosHigh): the range
    EosHigh     \*   of heights below the head block

VARIABLES
    net,        \* the network whose ingester runs (fixed)
    rows,       \* rows[t]: block_hash of the Transaction row of t (Pending
                \*   for a null hash), or NoRow
    pc,         \* the step of the running poll
    cur,        \* the block under the uncle check, or being processed
    hash,       \* the hash get_block_hash_at_height returned for cur
    num,        \* process_blocks: the height it fetches next
    todo,       \* txids of cur still to save
    errors,     \* error answers of /blocks/{height} so far
    perrors,    \* error pages so far
    base,       \* history: height of the first block recorded, 0 before
    lagging,    \* this behaviour's node can go back (fixed)
    reg,        \* the account's Address row exists
    spc,        \* the step of the account's initial sync task
    hist,       \* <<txid, block_hash>> pairs of the address history read
    syncs,      \* initial_sync_xpub tasks run so far
    queue,      \* BNB: the Redis list BNB_BLOCK_QUEUE of blocks
    prev,       \* BNB: the block of the websocket's previous message
    bpc,        \* BNB: bpc[c], the step of consumer c
    bcur,       \* BNB: the block consumer c dequeued
    btodo,      \* BNB: txids of bcur[c] consumer c still has to save
    epc,        \* EOS: the step of the running ingest_blocks_eos
    etodo,      \* EOS: txids of the fetched range still to save
    ecur,       \* EOS: the txid whose Transaction row the run just created
    eaddr,      \* EOS: the Address row the run read still exists
    eosbc       \* EOS: the txids with a BalanceChange row

syncVars == <<lagging, reg, spc, hist, syncs>>

bnbVars == <<queue, prev, bpc, bcur, btodo>>

eosVars == <<epc, etodo, ecur, eaddr, eosbc>>

vars == <<chainVars, net, processed, rows, pc, cur, hash, num, todo, errors, perrors,
          base, syncVars, bnbVars, eosVars>>

MaxHeight == CHOOSE h \in {Height[b] : b \in Blocks} : \A b \in Blocks : Height[b] <= h

TypeOK ==
    /\ net \in Networks
    /\ tip \in Blocks /\ moves \in 0..MaxMoves
    /\ processed \in [Blocks -> BlockStates]
    /\ rows \in [Txids -> Blocks \cup {Pending, NoHash, NoRow}]
    /\ pc \in {"idle", "poll", "clean", "fetch", "txs", "record"}
    /\ cur \in Blocks \cup {NoBlock}
    /\ hash \in Blocks \cup {Pending, NoBlock}
    /\ num \in 1..MaxHeight + 1
    /\ todo \subseteq Txids
    /\ errors \in 0..MaxErrors /\ perrors \in 0..MaxPageErrors
    /\ base \in 0..MaxHeight
    /\ lagging \in BOOLEAN /\ reg \in BOOLEAN
    /\ spc \in {"none", "address", "history", "save", "done"}
    /\ hist \subseteq Txids \X (Blocks \cup {NoHash})
    /\ syncs \in 0..MaxSyncs
    /\ queue \in Seq(Blocks) /\ prev \in Blocks \cup {NoBlock}
    /\ bpc \in [Consumers -> {"idle", "txs", "record"}]
    /\ bcur \in [Consumers -> Blocks \cup {NoBlock}]
    /\ btodo \in [Consumers -> SUBSET Txids]
    /\ epc \in {"idle", "address", "tx", "bc"}
    /\ etodo \subseteq Txids /\ ecur \in Txids \cup {NoRow}
    /\ eaddr \in BOOLEAN /\ eosbc \subseteq Txids

Init ==
    /\ ChainInit
    /\ net \in Networks
    /\ processed = [b \in Blocks |-> "none"]
    /\ rows = [t \in Txids |-> NoRow]
    /\ pc = "idle"
    /\ cur = NoBlock
    /\ hash = NoBlock
    /\ num = 1
    /\ todo = {}
    /\ errors = 0
    /\ perrors = 0
    /\ base = 0
    /\ lagging \in IF Lags THEN BOOLEAN ELSE {FALSE}
    /\ \/ reg = FALSE /\ spc = "none"
       \/ reg = TRUE /\ spc = "done"  \* registered and synced before
    /\ hist = {}
    /\ syncs = 0
    /\ queue = <<>>
    /\ prev = NoBlock
    /\ bpc = [c \in Consumers |-> "idle"]
    /\ bcur = [c \in Consumers |-> NoBlock]
    /\ btodo = [c \in Consumers |-> {}]
    /\ epc = "idle" /\ etodo = {} /\ ecur = NoRow
    /\ eaddr = FALSE /\ eosbc = {}

\* an answer of /blocks/{h}: the node's block, or (while errors remain)
\* the error object, read as "no block"
BlockAnswers(h) ==
    {BlockAtHeight(h)} \cup (IF errors < MaxErrors THEN {NoBlock} ELSE {})

\* the subsets of a block's transactions get_pages can return: all of
\* them, or (on an error page) the ones on the pages before it
TxsAnswers(b) ==
    IF perrors < MaxPageErrors THEN SUBSET TxsOf[b] ELSE {TxsOf[b]}

\* the number of error answers a step used
Used(answer, full) == IF answer = full THEN 0 ELSE 1

Stop ==
    /\ pc' = "idle"
    /\ cur' = NoBlock
    /\ hash' = NoBlock
    /\ todo' = {}

SyncBlocks ==
    /\ pc = "idle"
    /\ pc' = "poll"
    /\ UNCHANGED <<chainVars, syncVars, bnbVars, eosVars, net, processed, rows, cur, hash, num, todo, errors, perrors, base>>

\* the first poll: with no live block, tracking starts at the node's latest
\* height (get_latest_block_height: Tendermint's latest block, XRP's last
\* closed ledger, FIO's fork_db_head_block_num)
StartTracking ==
    /\ Latest = {}
    /\ num' = Height[tip]
    /\ pc' = "fetch"
    /\ UNCHANGED <<processed, cur, errors>>

\* TendermintBlockIngester.poll_blocks: the block and its hash at the
\* latest known height are read (two calls, taken here as one step: on a
\* chain without forks only their error answers differ); a missing block or
\* a different hash marks the latest block orphaned.
PollBlocks ==
    /\ pc = "poll" /\ net = "tendermint"
    /\ \/ StartTracking
       \/ \E l \in Latest : \E ans \in BlockAnswers(Height[l]) :
              /\ errors' = errors + Used(ans, BlockAtHeight(Height[l]))
              /\ IF ans = l
                 THEN /\ num' = Height[l] + 1
                      /\ pc' = "fetch"
                      /\ UNCHANGED <<processed, cur>>
                 ELSE /\ processed' = [processed EXCEPT ![l] = "orphan"]
                      /\ cur' = l
                      /\ pc' = "clean"
                      /\ UNCHANGED num
    /\ UNCHANGED <<chainVars, syncVars, bnbVars, eosVars, net, rows, hash, todo, perrors, base>>

\* mutant: a ledger the node does not have makes the ingester resume at the
\* node's latest height instead of polling again
PollBlocksXrpResume ==
    /\ pc = "poll" /\ net = "xrp"
    /\ \/ StartTracking
       \/ \E l \in Latest : \E ans \in BlockAnswers(Height[l]) :
              /\ errors' = errors + Used(ans, BlockAtHeight(Height[l]))
              /\ num' = IF ans = l THEN Height[l] + 1 ELSE Height[tip]
              /\ pc' = "fetch"
              /\ UNCHANGED <<processed, cur>>
    /\ UNCHANGED <<chainVars, syncVars, bnbVars, eosVars, net, rows, hash, todo, perrors, base>>

\* RippleBlockIngester.poll_blocks: the ledger at the latest known height is
\* read again; while the node has none (not validated, or an error) or one
\* with another hash, poll_blocks calls itself with nothing changed, until
\* the interpreter's recursion limit ends the task.
PollBlocksXrp ==
    /\ pc = "poll" /\ net = "xrp"
    /\ \/ StartTracking
       \/ \E l \in Latest : \E ans \in BlockAnswers(Height[l]) :
              /\ errors' = errors + Used(ans, BlockAtHeight(Height[l]))
              /\ \/ ans = l /\ num' = Height[l] + 1 /\ pc' = "fetch"
                 \/ ans # l /\ pc' \in {"poll", "idle"} /\ UNCHANGED num
              /\ UNCHANGED <<processed, cur>>
    /\ UNCHANGED <<chainVars, syncVars, bnbVars, eosVars, net, rows, hash, todo, perrors, base>>

\* mutant: tracking restarts at the node's latest height on every poll
PollBlocksFioFromTip ==
    /\ pc = "poll" /\ net = "fio"
    /\ num' = Height[tip]
    /\ pc' = "fetch"
    /\ UNCHANGED <<chainVars, syncVars, bnbVars, eosVars, net, processed, rows, cur, hash, todo, errors,
                   perrors, base>>

\* FioBlockIngester.poll_blocks: process_blocks from the height above the
\* latest known block, which is never compared with the node's block
PollBlocksFio ==
    /\ pc = "poll" /\ net = "fio"
    /\ \/ StartTracking
       \/ \E l \in Latest :
              /\ num' = Height[l] + 1
              /\ pc' = "fetch"
              /\ UNCHANGED <<processed, cur, errors>>
    /\ UNCHANGED <<chainVars, syncVars, bnbVars, eosVars, net, rows, hash, todo, perrors, base>>

\* ProcessedBlock.cleanUpOrphans, then the recursive poll_blocks()
CleanUpOrphans ==
    /\ pc = "clean"
    /\ rows' = [t \in Txids |-> IF rows[t] = cur THEN NoRow ELSE rows[t]]
    /\ pc' = "poll"
    /\ cur' = NoBlock
    /\ UNCHANGED <<chainVars, syncVars, bnbVars, eosVars, net, processed, hash, num, todo, errors, perrors, base>>

\* process_block of the node's block ans at height num, with one of the
\* hashes and one of the transaction lists the node calls can return; the
\* list is filtered down to the addresses that have an Address row
Fetched(ans, hashes, lists) ==
    \E h \in hashes, txs \in lists :
        /\ errors' = errors + Used(h, ans)
        /\ perrors' = perrors + Used(txs, TxsOf[ans])
        /\ cur' = ans
        /\ hash' = h
        /\ todo' = IF reg THEN txs ELSE {}
        /\ pc' = IF todo' = {} THEN "record" ELSE "txs"
        /\ UNCHANGED num

\* get_block_hash_at_height: the block's hash, or None on an error answer
HashAnswers(b) == {b} \cup (IF errors < MaxErrors THEN {Pending} ELSE {})

\* no block at the height: the loop of process_blocks ends
EndOfBlocks(ans) ==
    /\ ans = NoBlock
    /\ errors' = errors + Used(ans, BlockAtHeight(num))
    /\ Stop
    /\ UNCHANGED <<num, perrors>>

\* mutant: the loop goes on past a height the node has no block for
FetchBlockPastMissing ==
    /\ pc = "fetch" /\ net = "tendermint"
    /\ \/ /\ BlockAtHeight(num) = NoBlock
          /\ num' = num + 1
          /\ UNCHANGED <<cur, hash, todo, errors, perrors, pc>>
       \/ /\ BlockAtHeight(num) # NoBlock
          /\ Fetched(BlockAtHeight(num), HashAnswers(BlockAtHeight(num)),
                     TxsAnswers(BlockAtHeight(num)))
    /\ UNCHANGED <<chainVars, syncVars, bnbVars, eosVars, net, processed, rows, base>>

\* the loop of TendermintBlockIngester.process_blocks:
\* get_block_at_height(num) and get_block_hash_at_height(num); process_block
\* then reads the block's transactions with get_pages (its "txs is None"
\* test can never hold: get_pages returns a list).
FetchBlock ==
    /\ pc = "fetch" /\ net = "tendermint"
    /\ \E ans \in BlockAnswers(num) :
         \/ EndOfBlocks(ans)
         \/ ans # NoBlock /\ Fetched(ans, HashAnswers(ans), TxsAnswers(ans))
    /\ UNCHANGED <<chainVars, syncVars, bnbVars, eosVars, net, processed, rows, base>>

\* get_transactions_at_height of XRP: the ledger's transactions, or none at
\* all when its own get_block_at_height call gets no validated ledger
LedgerTxsAnswers(b) ==
    {TxsOf[b]} \cup (IF perrors < MaxPageErrors THEN {{}} ELSE {})

\* the loop of RippleBlockIngester.process_blocks: get_block_at_height(num)
\* is None for a ledger not validated or an error; the ledger carries its
\* own hash
FetchLedger ==
    /\ pc = "fetch" /\ net = "xrp"
    /\ \E ans \in BlockAnswers(num) :
         \/ EndOfBlocks(ans)
         \/ ans # NoBlock /\ Fetched(ans, {ans}, LedgerTxsAnswers(ans))
    /\ UNCHANGED <<chainVars, syncVars, bnbVars, eosVars, net, processed, rows, base>>

\* the loop of FioBlockIngester.process_blocks: above its head the node
\* answers with an error object, not None, and the loop ends by the
\* KeyError of parse_block_txs on it; the transactions come with the block
FetchBlockFio ==
    /\ pc = "fetch" /\ net = "fio"
    /\ \E ans \in BlockAnswers(num) :
         \/ EndOfBlocks(ans)
         \/ ans # NoBlock /\ Fetched(ans, {ans}, {TxsOf[ans]})
    /\ UNCHANGED <<chainVars, syncVars, bnbVars, eosVars, net, processed, rows, base>>

\* save_transactions: update_or_create with defaults block_hash = the hash
\* read for the height (null if that call failed)
SaveTransaction ==
    /\ pc = "txs"
    /\ \E t \in todo :
         /\ rows' = [rows EXCEPT ![t] = hash]
         /\ todo' = todo \ {t}
         /\ pc' = IF todo = {t} THEN "record" ELSE "txs"
    /\ UNCHANGED <<chainVars, syncVars, bnbVars, eosVars, net, processed, cur, hash, num, errors, perrors, base>>

\* mutant: a nullable block_hash column
RecordBlockNullHash ==
    /\ pc = "record"
    /\ processed' = [processed EXCEPT ![cur] = "live"]
    /\ base' = IF base = 0 THEN Height[cur] ELSE base
    /\ num' = num + 1 /\ pc' = "fetch"
    /\ UNCHANGED <<chainVars, syncVars, bnbVars, eosVars, net, rows, cur, hash, todo, errors, perrors>>

\* get_or_none(block_hash) and save: a new row, or an orphan un-orphaned;
\* a null hash violates the NOT NULL block_hash column and raises
RecordBlock ==
    /\ pc = "record"
    /\ IF hash = Pending
       THEN /\ Stop
            /\ UNCHANGED <<processed, num, base>>
       ELSE /\ processed' = [processed EXCEPT ![cur] = "live"]
            /\ base' = IF base = 0 THEN Height[cur] ELSE base
            /\ num' = num + 1
            /\ pc' = "fetch"
            /\ UNCHANGED <<cur, hash, todo>>
    /\ UNCHANGED <<chainVars, syncVars, bnbVars, eosVars, net, rows, errors, perrors>>

(* BNB: queue_blocks_ws (the bnb_queue_blocks command) pushes blocks onto *)
(* a Redis list; ingest_blocks_bnb_alpha, _bravo and _charlie, each a      *)
(* QueueOnce task, pop one block each and ingest it.                       *)

\* queue_blocks_ws, on a NewBlock message: the previous message's block is
\* queued (_transform_block takes its hash from this message's
\* last_block_id); the first message after connecting only becomes prev
QueueBlockWs ==
    /\ net = "bnb"
    /\ \/ prev = NoBlock /\ prev' = tip /\ UNCHANGED queue
       \/ /\ prev # NoBlock
          /\ BlockAtHeight(Height[prev] + 1) # NoBlock
          /\ queue' = Append(queue, prev)
          /\ prev' = BlockAtHeight(Height[prev] + 1)
    /\ UNCHANGED <<chainVars, syncVars, eosVars, net, processed, rows, pc, cur, hash, num,
                   todo, errors, perrors, base, bpc, bcur, btodo>>

\* the websocket closes (asyncio.run returns or raises) and the command is
\* started again with prev_msg = None
WsReconnect ==
    /\ net = "bnb" /\ prev # NoBlock
    /\ errors < MaxErrors /\ errors' = errors + 1
    /\ prev' = NoBlock
    /\ UNCHANGED <<chainVars, syncVars, eosVars, net, processed, rows, pc, cur, hash, num,
                   todo, perrors, base, queue, bpc, bcur, btodo>>

\* BinanceClient.get_block_txs: the block's transactions, or [] when the
\* amino decoder's output does not parse (the exception is caught)
BlockTxsAnswers(b) ==
    {TxsOf[b]} \cup (IF perrors < MaxPageErrors THEN {{}} ELSE {})

\* ingest_blocks: dequeue_block (lpop; an empty list is None and the task
\* returns), get_block_txs and _filter_txs_by_registered_address
IngestBlocks(c) ==
    /\ net = "bnb" /\ bpc[c] = "idle" /\ queue # <<>>
    /\ \E txs \in BlockTxsAnswers(Head(queue)) :
         LET mine == IF reg THEN txs ELSE {} IN
         /\ perrors' = perrors + Used(txs, TxsOf[Head(queue)])
         /\ queue' = Tail(queue)
         /\ bcur' = [bcur EXCEPT ![c] = Head(queue)]
         /\ btodo' = [btodo EXCEPT ![c] = mine]
         /\ bpc' = [bpc EXCEPT ![c] = IF mine = {} THEN "record" ELSE "txs"]
    /\ UNCHANGED <<chainVars, syncVars, eosVars, net, processed, rows, pc, cur, hash, num,
                   todo, errors, base, prev>>

\* ingest_blocks on an empty list: dequeue_block returns None and
\* _ingest_block returns, the beat running the task again and again
IngestNoBlock(c) ==
    /\ net = "bnb" /\ bpc[c] = "idle" /\ queue = <<>>
    /\ UNCHANGED vars

\* save_bnb_transactions: update_or_create with block_hash = the queued hash
SaveBnbTransaction(c) ==
    /\ bpc[c] = "txs"
    /\ \E t \in btodo[c] :
         /\ rows' = [rows EXCEPT ![t] = bcur[c]]
         /\ btodo' = [btodo EXCEPT ![c] = @ \ {t}]
         /\ bpc' = [bpc EXCEPT ![c] = IF btodo[c] = {t} THEN "record" ELSE "txs"]
    /\ UNCHANGED <<chainVars, syncVars, eosVars, net, processed, pc, cur, hash, num, todo,
                   errors, perrors, base, queue, prev, bcur>>

\* save_bnb_transactions raises (Address.objects.get, the balance sync):
\* it runs outside any try, so the task ends and the popped block is gone
BnbSaveFails(c) ==
    /\ bpc[c] = "txs"
    /\ errors < MaxErrors /\ errors' = errors + 1
    /\ bpc' = [bpc EXCEPT ![c] = "idle"]
    /\ bcur' = [bcur EXCEPT ![c] = NoBlock]
    /\ btodo' = [btodo EXCEPT ![c] = {}]
    /\ UNCHANGED <<chainVars, syncVars, eosVars, net, processed, rows, pc, cur, hash, num,
                   todo, perrors, base, queue, prev>>

\* _ingest_block: get_or_none of the ProcessedBlock and save, a new row or
\* an orphan un-orphaned
RecordBnbBlock(c) ==
    /\ bpc[c] = "record"
    /\ processed' = [processed EXCEPT ![bcur[c]] = "live"]
    /\ base' = IF base = 0 THEN Height[bcur[c]] ELSE base
    /\ bpc' = [bpc EXCEPT ![c] = "idle"]
    /\ bcur' = [bcur EXCEPT ![c] = NoBlock]
    /\ UNCHANGED <<chainVars, syncVars, eosVars, net, rows, pc, cur, hash, num, todo,
                   errors, perrors, queue, prev, btodo>>

(* EOS: ingest_blocks_eos, a QueueOnce task, runs                           *)
(* ingest_txs_over_block_range(-21, -1) on every beat.                    *)

\* the block of a transaction on this chain without forks
BlockOf(t) == CHOOSE b \in Blocks : t \in TxsOf[b]

\* get_block_txs_for_accounts over the heights EosLow to EosHigh below the
\* head: the transactions of the node's blocks in that range
EosRange == UNION {TxsOf[b] : b \in {x \in AncestorsOf(tip) :
                      Height[tip] - EosLow <= Height[x] /\ Height[x] <= Height[tip] - EosHigh}}

\* ingest_txs_over_block_range: the account filter reads the Address rows;
\* with none get_block_txs_for_accounts returns [] and the run saves
\* nothing; otherwise the range's transactions, grouped under the address
\* by _filter_txs_by_registered_address (an error answer raises: no step)
IngestTxsOverBlockRange ==
    /\ net = "eos" /\ epc = "idle"
    /\ LET txs == IF reg THEN EosRange ELSE {} IN
         /\ etodo' = txs
         /\ epc' = IF txs = {} THEN "idle" ELSE "address"
    /\ UNCHANGED <<ecur, eaddr, eosbc>>
    /\ UNCHANGED <<chainVars, syncVars, bnbVars, net, processed, rows, pc, cur, hash, num,
                   todo, errors, perrors, base>>

\* save_eos_transactions: Address.objects.get of the address (DoesNotExist
\* after a hard refresh deleted it ends the run) and its account
GetEosAddress ==
    /\ epc = "address"
    /\ IF reg THEN epc' = "tx" /\ eaddr' = TRUE /\ UNCHANGED etodo
       ELSE epc' = "idle" /\ etodo' = {} /\ UNCHANGED eaddr
    /\ UNCHANGED <<ecur, eosbc>>
    /\ UNCHANGED <<chainVars, syncVars, bnbVars, net, processed, rows, pc, cur, hash, num,
                   todo, errors, perrors, base>>

\* Transaction.objects.update_or_create of one transaction; only when it
\* created the row does the run go on to its BalanceChange
SaveEosTransaction ==
    /\ epc = "tx"
    /\ \E t \in etodo :
         /\ rows' = [rows EXCEPT ![t] = BlockOf(t)]
         /\ etodo' = etodo \ {t}
         /\ IF rows[t] = NoRow THEN epc' = "bc" /\ ecur' = t
            ELSE epc' = (IF etodo = {t} THEN "idle" ELSE "tx") /\ UNCHANGED ecur
    /\ UNCHANGED <<eaddr, eosbc>>
    /\ UNCHANGED <<chainVars, syncVars, bnbVars, net, processed, pc, cur, hash, num,
                   todo, errors, perrors, base>>

\* BalanceChange.objects.update_or_create with the Address row read before;
\* when a hard refresh has deleted it since, the insert fails its foreign
\* key and the exception ends the run
SaveEosBalanceChange ==
    /\ epc = "bc"
    /\ IF eaddr
       THEN /\ eosbc' = eosbc \cup {ecur}
            /\ epc' = IF etodo = {} THEN "idle" ELSE "tx"
            /\ UNCHANGED etodo
       ELSE /\ epc' = "idle" /\ etodo' = {}
            /\ UNCHANGED eosbc
    /\ ecur' = NoRow
    /\ UNCHANGED eaddr
    /\ UNCHANGED <<chainVars, syncVars, bnbVars, net, processed, rows, pc, cur, hash, num,
                   todo, errors, perrors, base>>

(* The account side: initial_sync_xpub and the sync_*_account task of an  *)
(* account-based network, racing the ingester of the same network.         *)

\* initial_sync_xpub, past its SYNCING check (one task at a time): a hard
\* refresh deletes the account's Address and Transaction rows
InitialSyncXpub ==
    /\ net \in SyncNetworks
    /\ spc \in {"none", "done"} /\ syncs < MaxSyncs
    /\ syncs' = syncs + 1
    /\ spc' = "address"
    /\ \/ rows' = [t \in Txids |-> NoRow] /\ reg' = FALSE
          /\ eosbc' = {} /\ eaddr' = FALSE
       \/ UNCHANGED <<rows, reg, eosbc, eaddr>>
    /\ UNCHANGED <<epc, etodo, ecur>>
    /\ UNCHANGED <<chainVars, bnbVars, net, processed, pc, cur, hash, num, todo, errors,
                   perrors, base, lagging, hist>>

\* Account.get_account_address: get_or_create of the Address row, which the
\* ingester's filter sees from now on
GetAccountAddress ==
    /\ spc = "address"
    /\ reg' = TRUE
    /\ spc' = "history"
    /\ UNCHANGED <<chainVars, bnbVars, eosVars, net, processed, rows, pc, cur, hash, num, todo,
                   errors, perrors, base, lagging, hist, syncs>>

\* the node's address history: each tracked transaction of a block of its
\* chain, with that block's hash
NodeHistory == {p \in Txids \X Blocks : p[2] \in AncestorsOf(tip) /\ p[1] \in TxsOf[p[2]]}

\* GaiaTendermintClient.get_transactions: senders', recipients' and swap
\* lists, each read with get_pages, which stops at the first error page
HistoryTendermint ==
    IF perrors < MaxPageErrors THEN SUBSET NodeHistory ELSE {NodeHistory}

\* RippleClient.get_transactions_by_account: account_tx, [] for an error
HistoryXrp == {NodeHistory} \cup (IF perrors < MaxPageErrors THEN {{}} ELSE {})

\* FioClient.get_transactions_by_pubkey: format_action gives every action
\* the block_hash ''
FioHistory == {<<p[1], NoHash>> : p \in NodeHistory}

HistoryFio == {FioHistory}

\* the history read of sync_*_account (after sync_*_account_balances): one
\* of the answers, an error one when it is not the full history
ReadHistory(full, answers) ==
    /\ spc = "history"
    /\ \E h \in answers :
         /\ hist' = h
         /\ perrors' = perrors + Used(h, full)
         /\ spc' = IF h = {} THEN "done" ELSE "save"
    /\ UNCHANGED <<chainVars, bnbVars, eosVars, net, processed, rows, pc, cur, hash, num, todo,
                   errors, base, lagging, reg, syncs>>

SyncTendermintAccount == net = "tendermint" /\ ReadHistory(NodeHistory, HistoryTendermint)

SyncRippleAccount == net = "xrp" /\ ReadHistory(NodeHistory, HistoryXrp)

SyncFioAccount == net = "fio" /\ ReadHistory(FioHistory, HistoryFio)

\* BinanceClient.get_txs_for_address: the dex API's 90 days of history
SyncBinanceAccount == net = "bnb" /\ ReadHistory(NodeHistory, {NodeHistory})

\* EOSClient.get_account_tx: searchTransactionsBackward for the account;
\* an error answer raises, which ends initial_sync_xpub (FAILED)
HistoryEos == {NodeHistory} \cup (IF perrors < MaxPageErrors THEN {{}} ELSE {})

SyncEosAccount == net = "eos" /\ ReadHistory(NodeHistory, HistoryEos)

\* mutant: sync_eos_account's save_tx writes the BalanceChange only for a
\* Transaction row it created, as the EOS ingester does
SaveHistoryTxGated ==
    /\ spc = "save"
    /\ \E p \in hist :
         /\ rows' = [rows EXCEPT ![p[1]] = p[2]]
         /\ eosbc' = IF net = "eos" /\ rows[p[1]] = NoRow THEN eosbc \cup {p[1]} ELSE eosbc
         /\ hist' = hist \ {p}
         /\ spc' = IF hist = {p} THEN "done" ELSE "save"
    /\ UNCHANGED <<epc, etodo, ecur, eaddr>>
    /\ UNCHANGED <<chainVars, bnbVars, net, processed, pc, cur, hash, num, todo, errors,
                   perrors, base, lagging, reg, syncs>>

\* save_tx: update_or_create of the row with defaults block_hash = the
\* history's hash, then (EOS) update_or_create of its BalanceChange; the
\* last one ends the task (sync_status COMPLETE)
SaveHistoryTx ==
    /\ spc = "save"
    /\ \E p \in hist :
         /\ rows' = [rows EXCEPT ![p[1]] = p[2]]
         /\ eosbc' = IF net = "eos" THEN eosbc \cup {p[1]} ELSE eosbc
         /\ hist' = hist \ {p}
         /\ spc' = IF hist = {p} THEN "done" ELSE "save"
    /\ UNCHANGED <<epc, etodo, ecur, eaddr>>
    /\ UNCHANGED <<chainVars, bnbVars, net, processed, pc, cur, hash, num, todo, errors,
                   perrors, base, lagging, reg, syncs>>

\* the node's latest block changes; without Lags it only grows
Environment ==
    /\ ChainMove
    /\ lagging \/ tip \in AncestorsOf(tip')
    /\ UNCHANGED <<syncVars, bnbVars, eosVars, net, processed, rows, pc, cur, hash, num, todo, errors, perrors, base>>

Ingester ==
    \/ SyncBlocks
    \/ PollBlocks \/ PollBlocksXrp \/ PollBlocksFio \/ CleanUpOrphans
    \/ FetchBlock \/ FetchLedger \/ FetchBlockFio
    \/ SaveTransaction \/ RecordBlock
    \/ QueueBlockWs
    \/ IngestTxsOverBlockRange \/ GetEosAddress
    \/ SaveEosTransaction \/ SaveEosBalanceChange
    \/ \E c \in Consumers :
          \/ IngestBlocks(c) \/ IngestNoBlock(c)
          \/ SaveBnbTransaction(c) \/ RecordBnbBlock(c)

SyncSteps ==
    \/ GetAccountAddress
    \/ SyncTendermintAccount \/ SyncRippleAccount \/ SyncFioAccount
    \/ SyncBinanceAccount \/ SyncEosAccount
    \/ SaveHistoryTx

Faults == WsReconnect \/ \E c \in Consumers : BnbSaveFails(c)

Next == Ingester \/ InitialSyncXpub \/ SyncSteps \/ Faults \/ Environment

\* each celery task, once started, runs on: the ingester's beat task and
\* the account's sync task; registrations and the node are not forced
Spec == Init /\ [][Next]_vars /\ WF_vars(Ingester) /\ WF_vars(SyncSteps)

-----------------------------------------------------------------------------
(* Properties *)

\* the block a Transaction row stands for: its block_hash, or for the ''
\* of a FIO history row the block at its block_height, which on a chain
\* without forks is the one block holding t
RowBlock(t) ==
    IF rows[t] = NoHash THEN CHOOSE b \in Blocks : t \in TxsOf[b] ELSE rows[t]

\* the account's initial sync has finished, and (when one ran in this
\* behaviour) the node never went back
Synced == spc = "done" /\ (syncs = 0 \/ ~lagging)

\* Once the account is synced, a recorded block the node still has holds
\* all the account's transactions in the ledger: the blocks the ingester
\* fetched before get_account_address created the Address row, and so
\* filtered out, are covered by the history read that follows it.
LiveBlocksComplete ==
    Synced => \A b \in Live : Canonical(b) => \A t \in TxsOf[b] : RowBlock(t) = b

\* Once the node's tip stops moving and the account is synced, every
\* transaction of a block from the first block ever recorded up to the
\* node's tip is in the ledger under its block: process_blocks never leaves
\* a height behind for good.
EventuallyComplete ==
    <>[](Synced =>
            \A b \in AncestorsOf(tip) :
                base > 0 /\ Height[b] >= base => \A t \in TxsOf[b] : RowBlock(t) = b)

\* Once the account is synced and no ingest_blocks_eos run is in progress,
\* every Transaction row of the EOS account has its BalanceChange row:
\* save_eos_transactions writes it only for a row it created, and when a
\* hard refresh deleted the Address row in between, the failed insert
\* leaves the created row alone until sync_eos_account's save_tx, which
\* writes the BalanceChange whether or not the row existed, covers it.
EosRowsPaired ==
    net = "eos" /\ epc = "idle" /\ Synced => \A t \in Txids : rows[t] # NoRow => t \in eosbc

\* The XRP and FIO ingesters, which never orphan a block of a chain that
\* does not fork, leave no height behind: whatever the node's lag and its
\* error answers, once it stops moving every height from the first block
\* recorded up to its tip has its transactions in the ledger.
NoHeightSkipped == net \in {"xrp", "fio"} => EventuallyComplete

\* The walk as the XRP and FIO ingesters perform it.  Tendermint, which
\* withdraws blocks a lagging node no longer has, is mapped to the walk
\* that records nothing.
WalkRecorded == IF net \in {"xrp", "fio"} THEN Live ELSE {}

Walk == INSTANCE HeightWalk WITH recorded <- WalkRecorded

\* The XRP and FIO ingesters implement the abstract height walk: every
\* step of theirs either leaves the ProcessedBlock rows as they are or
\* records the block at the next height above the latest one, and no
\* recorded block is ever withdrawn; this holds across the many tasks,
\* polls, lagging answers and error answers that the walk of one
\* process_blocks loop is split into.
WalkRefined == Walk!WalkSpec

=============================================================================
