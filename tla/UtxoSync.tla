------------------------------- MODULE UtxoSync -------------------------------
(***************************************************************************)
(* Block sync of a UTXO network (BTC, LTC, DOGE, ...) and the ledger it    *)
(* writes, from src/ingester/tasks.py and src/tracker/models.py.           *)
(*                                                                         *)
(* "tracker" is the celery task sync_blocks(network): invalidate_orphans   *)
(* walks back from the latest non-orphaned ProcessedBlock while the        *)
(* adapter reports negative confirmations, marking each block orphaned and *)
(* running cleanUpOrphans; then it follows nextblockhash, and for every    *)
(* block runs sync_block: save_results upserts one Transaction and one     *)
(* BalanceChange per tracked transaction, then ProcessedBlock.get_or_create*)
(* records the block.                                                      *)
(*                                                                         *)
(* "scanner" stands for the tasks that write the same ledger from an       *)
(* address-history read instead of a block: sync_xpub (registration),      *)
(* watch_addresses and watch_tx all call save_results with the blockhash   *)
(* the adapter reported when they read.                                    *)
(*                                                                         *)
(* Every statement runs in Django autocommit: each ORM call commits on its *)
(* own, so a failure (adapter error, worker crash) between two steps       *)
(* leaves the earlier writes in place.  update_or_create locks an existing *)
(* row (select_for_update) but an insert after an empty lookup is not      *)
(* guarded: neither Transaction nor BalanceChange has a unique constraint. *)
(***************************************************************************)
EXTENDS ProcessedBlocks

CONSTANTS
    NoRow,      \* absence of a ledger row
    MaxFails,   \* bound on failures that abort a task between two steps
    MaxScans    \* bound on address-history syncs (registrations, watches)

Procs == {"tracker", "scanner"}

VARIABLES
    rows,       \* rows[t][q]: Transaction row of t inserted by process q,
                \*   with its block_hash and its number of BalanceChange rows
    pc,         \* pc[p]: the step process p is at
    tcur,       \* tracker: block under orphan check, or block being synced
    todo,       \* todo[p]: <<txid, blockhash>> pairs save_results still has to write
    item,       \* item[p]: the pair being upserted
    row,        \* row[p]: the Transaction row (its inserter) item[p] was written to
    fails,      \* failures so far
    scans,      \* address-history syncs so far
    fixing      \* fix_pending_txs: the <<txid, row, blockhash>> updates it
                \*   still has to run; {} when it is not running

vars == <<chainVars, processed, rows, pc, tcur, todo, item, row, fails, scans,
          fixing>>

RowIds == Procs
Row == [hash : Blocks \cup {Pending}, bc : 0..2]
Item == Txids \X (Blocks \cup {Pending})
NoItem == <<NoRow, NoRow>>

TypeOK ==
    /\ tip \in Blocks /\ moves \in 0..MaxMoves
    /\ processed \in [Blocks -> BlockStates]
    /\ rows \in [Txids -> [RowIds -> Row \cup {NoRow}]]
    /\ pc \in [Procs -> {"idle", "check", "cleanBC", "cleanTx", "head",
                         "txLookup", "txInsert", "bcLookup", "bcInsert",
                         "saveBlock", "next"}]
    /\ tcur \in Blocks \cup {NoBlock}
    /\ todo \in [Procs -> SUBSET Item]
    /\ item \in [Procs -> Item \cup {NoItem}]
    /\ row \in [Procs -> RowIds \cup {NoRow}]
    /\ fails \in 0..MaxFails /\ scans \in 0..MaxScans
    /\ fixing \subseteq Txids \X RowIds \X Blocks

-----------------------------------------------------------------------------
(* Ledger queries *)

\* the Transaction rows of txid t
RowsOf(t) == {q \in RowIds : rows[t][q] # NoRow}

-----------------------------------------------------------------------------
Init ==
    /\ ChainInit
    /\ processed = [b \in Blocks |-> "none"]
    /\ rows = [t \in Txids |-> [q \in RowIds |-> NoRow]]
    /\ pc = [p \in Procs |-> "idle"]
    /\ tcur = NoBlock
    /\ todo = [p \in Procs |-> {}]
    /\ item = [p \in Procs |-> NoItem]
    /\ row = [p \in Procs |-> NoRow]
    /\ fails = 0
    /\ scans = 0
    /\ fixing = {}

\* p drops its save_results and goes on at step s
Leave(p, s) ==
    /\ pc' = [pc EXCEPT ![p] = s]
    /\ todo' = [todo EXCEPT ![p] = {}]
    /\ item' = [item EXCEPT ![p] = NoItem]
    /\ row' = [row EXCEPT ![p] = NoRow]

\* p leaves its task: end of the task, or an exception that ends it
Stop(p) == Leave(p, "idle")

\* the steps of sync_block, all inside its try block
SyncBlockSteps == {"txLookup", "txInsert", "bcLookup", "bcInsert", "saveBlock"}

\* an exception raised inside save_results or ProcessedBlock.get_or_create:
\* sync_block's except clause logs it and re-raises, which ends the task
\* before the block is recorded
Raise(p) == Stop(p)

\* where save_results goes once its last item is written: the tracker's
\* sync_block goes on to ProcessedBlock.get_or_create, the scanner is done
AfterSave(p) == IF p = "tracker" THEN "saveBlock" ELSE "idle"

\* variant: sync_block records the block without calling save_results
SyncBlockWithoutSave(b) ==
    /\ tcur' = b
    /\ todo' = [todo EXCEPT !["tracker"] = {}]
    /\ pc' = [pc EXCEPT !["tracker"] = "saveBlock"]
    /\ UNCHANGED <<item, row>>

\* sync_block(network, b): fetch the block's transactions and start
\* save_results on the tracked ones
SyncBlock(b) ==
    /\ tcur' = b
    /\ todo' = [todo EXCEPT !["tracker"] = {<<t, b>> : t \in TxsOf[b]}]
    /\ pc' = [pc EXCEPT !["tracker"] =
                IF TxsOf[b] = {} THEN "saveBlock" ELSE "txLookup"]
    /\ UNCHANGED <<item, row>>

-----------------------------------------------------------------------------
(* The tracker: sync_blocks and invalidate_orphans *)

\* sync_blocks starts (celery beat); invalidate_orphans takes the latest block
SyncBlocksStart ==
    /\ pc["tracker"] = "idle"
    /\ IF Latest = {}
       THEN /\ pc' = [pc EXCEPT !["tracker"] = "head"]
            /\ UNCHANGED tcur
       ELSE /\ \E l \in Latest : tcur' = l
            /\ pc' = [pc EXCEPT !["tracker"] = "check"]
    /\ UNCHANGED <<chainVars, processed, rows, todo, item, row, fails, scans, fixing>>

\* the confirmations check of invalidate_orphans; a negative count marks
\* the block orphaned (current.save()) before any cleanup
InvalidateOrphansCheck ==
    /\ pc["tracker"] = "check"
    /\ IF Canonical(tcur)
       THEN /\ pc' = [pc EXCEPT !["tracker"] = "head"]
            /\ UNCHANGED processed
       ELSE /\ processed' = [processed EXCEPT ![tcur] = "orphan"]
            /\ pc' = [pc EXCEPT !["tracker"] = "cleanBC"]
    /\ UNCHANGED <<chainVars, rows, tcur, todo, item, row, fails, scans, fixing>>

\* cleanUpOrphans, first statement: delete the BalanceChanges of every
\* Transaction whose block_hash is the orphaned block
CleanUpOrphansBalances ==
    /\ pc["tracker"] = "cleanBC"
    /\ rows' = [t \in Txids |-> [q \in RowIds |->
                  IF rows[t][q] # NoRow /\ rows[t][q].hash = tcur
                     /\ processed[tcur] = "orphan"
                  THEN [rows[t][q] EXCEPT !.bc = 0]
                  ELSE rows[t][q]]]
    /\ pc' = [pc EXCEPT !["tracker"] = "cleanTx"]
    /\ UNCHANGED <<chainVars, processed, tcur, todo, item, row, fails, scans, fixing>>

\* variant: the cleanup runs before current.save() marks the block, so its
\* "is_orphaned = True" join matches nothing and no row is deleted
CleanUpOrphansUnmarked ==
    /\ pc["tracker"] = "cleanTx"
    /\ IF Parent[tcur] # NoBlock /\ processed[Parent[tcur]] # "none"
       THEN /\ tcur' = Parent[tcur]
            /\ pc' = [pc EXCEPT !["tracker"] = "check"]
       ELSE /\ pc' = [pc EXCEPT !["tracker"] = "head"]
            /\ UNCHANGED tcur
    /\ UNCHANGED <<chainVars, processed, rows, todo, item, row, fails, scans, fixing>>

\* cleanUpOrphans, second statement: delete those Transactions; a
\* BalanceChange inserted since the first statement makes the delete fail
\* on its foreign key.  Then the walk moves to the previous_hash row, if any.
CleanUpOrphansTransactions ==
    /\ pc["tracker"] = "cleanTx"
    /\ LET doomed(t, q) == rows[t][q] # NoRow /\ rows[t][q].hash = tcur
                            /\ processed[tcur] = "orphan"
       IN IF \E t \in Txids, q \in RowIds : doomed(t, q) /\ rows[t][q].bc > 0
          THEN /\ Stop("tracker")
               /\ UNCHANGED <<rows, tcur>>
          ELSE /\ rows' = [t \in Txids |-> [q \in RowIds |->
                              IF doomed(t, q) THEN NoRow ELSE rows[t][q]]]
               /\ IF Parent[tcur] # NoBlock /\ processed[Parent[tcur]] # "none"
                  THEN /\ tcur' = Parent[tcur]
                       /\ pc' = [pc EXCEPT !["tracker"] = "check"]
                  ELSE /\ pc' = [pc EXCEPT !["tracker"] = "head"]
                       /\ UNCHANGED tcur
               /\ UNCHANGED <<todo, item, row>>
    /\ UNCHANGED <<chainVars, processed, fails, scans, fixing>>

\* variant: a missing nextblockhash falls back to get_last_block_hash()
SyncBlocksHeadFallback ==
    /\ pc["tracker"] = "head"
    /\ \/ /\ Latest = {}
          /\ SyncBlock(LastBlockHash)
       \/ \E l \in Latest :
            SyncBlock(IF NextHash(l) = NoBlock THEN LastBlockHash ELSE NextHash(l))
    /\ UNCHANGED <<chainVars, processed, rows, fails, scans, fixing>>

\* sync_blocks after invalidate_orphans: the next hash after the latest
\* processed block, or the chain's last block when there is none
SyncBlocksHead ==
    /\ pc["tracker"] = "head"
    /\ \/ /\ Latest = {}
          /\ SyncBlock(LastBlockHash)
       \/ \E l \in Latest :
            IF NextHash(l) = NoBlock
            THEN /\ Stop("tracker")
                 /\ UNCHANGED tcur
            ELSE SyncBlock(NextHash(l))
    /\ UNCHANGED <<chainVars, processed, rows, fails, scans, fixing>>

\* ProcessedBlock.get_or_create(block_hash, network): an existing row, even
\* an orphaned one, is returned unchanged; otherwise a new row is saved
SaveProcessedBlock ==
    /\ pc["tracker"] = "saveBlock"
    /\ processed' = IF processed[tcur] = "none"
                    THEN [processed EXCEPT ![tcur] = "live"]
                    ELSE processed
    /\ pc' = [pc EXCEPT !["tracker"] = "next"]
    /\ UNCHANGED <<chainVars, rows, tcur, todo, item, row, fails, scans, fixing>>

\* the loop of sync_blocks: next_hash = get_next_block_hash(next_hash)
SyncBlocksNext ==
    /\ pc["tracker"] = "next"
    /\ IF NextHash(tcur) = NoBlock
       THEN /\ Stop("tracker")
            /\ UNCHANGED tcur
       ELSE SyncBlock(NextHash(tcur))
    /\ UNCHANGED <<chainVars, processed, rows, fails, scans, fixing>>

-----------------------------------------------------------------------------
(* The scanner: an address-history sync (sync_xpub, watch_addresses,       *)
(* watch_tx) reads every tracked transaction with its current blockhash    *)
(* and hands them to save_results.                                         *)

ScanAddressHistory ==
    /\ pc["scanner"] = "idle"
    /\ scans < MaxScans
    /\ scans' = scans + 1
    /\ todo' = [todo EXCEPT !["scanner"] = {<<t, Location(t)>> : t \in Txids}]
    /\ pc' = [pc EXCEPT !["scanner"] = "txLookup"]
    /\ UNCHANGED <<chainVars, processed, rows, tcur, item, row, fails, fixing>>

-----------------------------------------------------------------------------
(* save_results, per tracked transaction, for process p *)

\* Transaction.objects.update_or_create(txid, account, defaults=...): an
\* existing row is locked and updated in place; two rows make get() raise
\* MultipleObjectsReturned; no row goes on to an insert
TxLookup(p) ==
    /\ pc[p] = "txLookup"
    /\ \E it \in todo[p] :
         LET t == it[1]
             take == /\ todo' = [todo EXCEPT ![p] = @ \ {it}]
                     /\ item' = [item EXCEPT ![p] = it]
         IN \/ /\ Cardinality(RowsOf(t)) >= 2
               /\ Raise(p)
               /\ UNCHANGED rows
            \/ /\ RowsOf(t) = {}
               /\ take
               /\ pc' = [pc EXCEPT ![p] = "txInsert"]
               /\ UNCHANGED <<rows, row>>
            \/ \E q \in RowsOf(t) :
                 /\ RowsOf(t) = {q}
                 /\ take
                 /\ rows' = [rows EXCEPT ![t][q].hash = it[2]]
                 /\ row' = [row EXCEPT ![p] = q]
                 /\ pc' = [pc EXCEPT ![p] = "bcLookup"]
    /\ UNCHANGED <<chainVars, processed, tcur, fails, scans, fixing>>

\* the insert half of update_or_create, after an empty lookup
TxInsert(p) ==
    /\ pc[p] = "txInsert"
    /\ rows' = [rows EXCEPT ![item[p][1]][p] = [hash |-> item[p][2], bc |-> 0]]
    /\ row' = [row EXCEPT ![p] = p]
    /\ pc' = [pc EXCEPT ![p] = "bcLookup"]
    /\ UNCHANGED <<chainVars, processed, tcur, todo, item, fails, scans, fixing>>

\* the next item of save_results, or the step after it
NextItem(p) ==
    pc' = [pc EXCEPT ![p] = IF todo[p] = {} THEN AfterSave(p) ELSE "txLookup"]

\* variant: BalanceChange.objects.create, which inserts whatever exists
BcLookupCreate(p) ==
    /\ pc[p] = "bcLookup"
    /\ pc' = [pc EXCEPT ![p] = "bcInsert"]
    /\ UNCHANGED <<chainVars, processed, rows, tcur, todo, item, row, fails, scans, fixing>>

\* BalanceChange.objects.update_or_create(account, address, transaction,
\* amount): found once, nothing changes; found twice, get() raises
BcLookup(p) ==
    /\ pc[p] = "bcLookup"
    /\ LET r == rows[item[p][1]][row[p]]
       IN CASE r # NoRow /\ r.bc >= 2 ->
                 Raise(p)
            [] r # NoRow /\ r.bc = 1 ->
                 /\ NextItem(p)
                 /\ UNCHANGED <<todo, item, row>>
            [] OTHER ->
                 /\ pc' = [pc EXCEPT ![p] = "bcInsert"]
                 /\ UNCHANGED <<todo, item, row>>
    /\ UNCHANGED <<chainVars, processed, rows, tcur, fails, scans, fixing>>

\* the BalanceChange insert; its Transaction may have been deleted by
\* cleanUpOrphans meanwhile, and then the foreign key makes it fail
BcInsert(p) ==
    /\ pc[p] = "bcInsert"
    /\ LET t == item[p][1]
       IN IF rows[t][row[p]] = NoRow
          THEN /\ Raise(p)
               /\ UNCHANGED rows
          ELSE /\ rows' = [rows EXCEPT ![t][row[p]].bc = @ + 1]
               /\ NextItem(p)
               /\ UNCHANGED <<todo, item, row>>
    /\ UNCHANGED <<chainVars, processed, tcur, fails, scans, fixing>>

-----------------------------------------------------------------------------
(* fix_pending_txs(network): reads the rows still marked unconfirmed, asks *)
(* the adapter for those txids, and for each one that is now in a block    *)
(* runs a raw UPDATE of that row id's block_hash.                          *)

\* fetch_unconfirmed_transactions and get_transactions_for_txids
FixPendingRead ==
    /\ fixing = {}
    /\ fixing' = {<<t, q, Location(t)>> :
                    <<t, q>> \in {<<t, q>> \in Txids \X RowIds :
                                    rows[t][q] # NoRow /\ rows[t][q].hash = Pending
                                    /\ Location(t) # Pending}}
    /\ fixing' # {}
    /\ UNCHANGED <<chainVars, processed, rows, pc, tcur, todo, item, row, fails, scans>>

\* "update tracker_transaction set block_hash = ... where id = ...": no
\* condition on the row's current block_hash; a deleted row is not updated
FixPendingUpdate ==
    /\ \E u \in fixing :
         /\ fixing' = fixing \ {u}
         /\ rows' = IF rows[u[1]][u[2]] = NoRow THEN rows
                    ELSE [rows EXCEPT ![u[1]][u[2]].hash = u[3]]
    /\ UNCHANGED <<chainVars, processed, pc, tcur, todo, item, row, fails, scans>>

FixPending == FixPendingRead \/ FixPendingUpdate

\* an adapter call, a publish or the worker fails between two steps and
\* the task ends; nothing already committed is undone.  Inside sync_block
\* the error passes through its except clause.
Fail(p) ==
    /\ pc[p] # "idle"
    /\ fails < MaxFails
    /\ fails' = fails + 1
    /\ IF p = "tracker" /\ pc[p] \in SyncBlockSteps THEN Raise(p) ELSE Stop(p)
    /\ UNCHANGED <<chainVars, processed, rows, tcur, scans, fixing>>

Environment ==
    /\ ChainMove
    /\ UNCHANGED <<processed, rows, pc, tcur, todo, item, row, fails, scans, fixing>>

Tracker ==
    \/ SyncBlocksStart
    \/ InvalidateOrphansCheck
    \/ CleanUpOrphansBalances
    \/ CleanUpOrphansTransactions
    \/ SyncBlocksHead
    \/ SaveProcessedBlock
    \/ SyncBlocksNext
    \/ TxLookup("tracker") \/ TxInsert("tracker")
    \/ BcLookup("tracker") \/ BcInsert("tracker")

\* save_results of a started address-history sync
ScannerSave ==
    \/ TxLookup("scanner") \/ TxInsert("scanner")
    \/ BcLookup("scanner") \/ BcInsert("scanner")

Scanner == ScanAddressHistory \/ ScannerSave

Next ==
    \/ Tracker
    \/ Scanner
    \/ FixPending
    \/ \E p \in Procs : Fail(p)
    \/ Environment

\* celery beat re-runs sync_blocks forever and a started task keeps making
\* progress; chain changes, registrations and failures are not assumed to
\* happen
Spec == Init /\ [][Next]_vars /\ WF_vars(Tracker) /\ WF_vars(ScannerSave)
                              /\ WF_vars(FixPending)

-----------------------------------------------------------------------------
(* Properties *)

\* A block recorded as processed and still canonical has all its tracked
\* transactions in the ledger under its own hash (sync_block writes them
\* before ProcessedBlock.get_or_create; cleanUpOrphans only deletes rows
\* of orphaned blocks).
LiveBlocksComplete ==
    \A b \in Live : Canonical(b) =>
        \A t \in TxsOf[b] : \E q \in RowsOf(t) : rows[t][q].hash = b

\* update_or_create is idempotent: there is never more than one Transaction
\* row for a (txid, account).
NoDuplicateTxRows ==
    \A t \in Txids : Cardinality(RowsOf(t)) <= 1

\* the ledger agrees with the chain: every Transaction row names the block
\* that holds its transaction now, and every transaction of a canonical
\* block at or above the lowest non-orphaned ProcessedBlock has a row
\* (sync_blocks starts from the chain's last block when none is left)
LedgerMatchesChain ==
    /\ \A t \in Txids : \A q \in RowsOf(t) : rows[t][q].hash = Location(t)
    /\ \A b \in Blocks :
         (Canonical(b) /\ \E c \in Live : Height[c] <= Height[b])
            => \A t \in TxsOf[b] : \E q \in RowsOf(t) : rows[t][q].hash = b

\* Once the chain stops changing, the ledger comes to agree with it for good:
\* orphan cleanup and re-sync repair every reorg.
EventuallyConsistent == <>[]LedgerMatchesChain

\* Once the chain stops changing, the tracker's frontier reaches the chain's
\* tip and stays there (ProcessedBlock.latest is the tip).
EventuallyCaughtUp == <>[](processed[tip] = "live" /\ Latest = {tip})

=============================================================================
