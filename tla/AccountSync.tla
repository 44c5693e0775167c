------------------------------ MODULE AccountSync ------------------------------
(***************************************************************************)
(* Registration, initial synchronisation and address issuance of one HD   *)
(* (UTXO) account: XpubRegistrationPage, XpubUnregistrationPage and        *)
(* ReceiveAddressPage (api/rest/v1/views.py), the celery tasks             *)
(* initial_sync_xpub and sync_xpub (ingester/tasks.py), and                *)
(* Account.update_sync_status, get_receive_addresses and                   *)
(* get_change_address (tracker/models.py), and the unsigned transaction   *)
(* of CreateUnsignedTransactionPage for a UTXO coin: get_change_address,  *)
(* Account.get_utxos and the smallest-value-first coin selection of       *)
(* common/utils/transactions.py.                                          *)
(*                                                                         *)
(* initial_sync_xpub runs under QueueOnce, keyed by all its arguments, so  *)
(* a soft and a hard-refresh registration of the same account are two     *)
(* signatures and can run at the same time.  Their only guard against each *)
(* other is the sync_status they read at get_or_create, checked and        *)
(* written in two separate statements.  get_receive_addresses calls        *)
(* sync_xpub inline, outside QueueOnce, whatever the sync_status.          *)
(***************************************************************************)
EXTENDS Naturals, FiniteSets, Sequences
LOCAL INSTANCE SequencesExt

CONSTANTS
    GapLimit,   \* GAP_LIMIT of common/utils/bip32.py
    Used,       \* <<chain, index>> of the derived addresses with history
    MaxRegs,    \* bound on registration requests
    MaxUnregs,  \* bound on unregistration requests
    MaxFails,   \* bound on adapter failures inside sync_xpub and worker deaths
    MaxAsks,    \* bound on receive- and change-address requests
    MaxPays,    \* bound on payments to issued addresses
    Sats(_),    \* the value of the UTXO an address with history holds
    Requests,   \* the recipients and OP_RETURN size of unsigned-tx requests
    FeePerKb, InputSize, OutputSize, OverheadSize, MinRelayFee
                \* COIN_DEFAULTS of the network, p2pkh script type

\* the two derivation chains: 0 receive (external), 1 change (internal)
Chains == {0, 1}
\* the initial_sync_xpub tasks, identified by their hard_refresh argument
SyncWorkers == {"soft", "hard"}
\* "api": the request thread of ReceiveAddressPage (or of the unsigned
\* transaction builder asking for a change address)
Workers == SyncWorkers \cup {"api"}
Statuses == {"NOT_STARTED", "SYNCING", "FAILED", "COMPLETE"}

ASSUME /\ GapLimit \in Nat \ {0}
       /\ Used \subseteq Chains \X Nat

MaxUsed == IF Used = {} THEN 0
           ELSE CHOOSE i \in {u[2] : u \in Used} : \A u \in Used : u[2] <= i
Indices == 0..MaxUsed + (MaxAsks + MaxPays + 2) * GapLimit
Addresses == Chains \X Indices

VARIABLES
    row,        \* id of the Account row of (xpub, network, script_type), 0 if none
    nextId,     \* the id the next INSERT gets
    status,     \* its sync_status
    old,        \* its updated_at is more than 15 minutes in the past
    addrs,      \* the <<chain, index>> of its Address rows
    bc,         \* the addresses with a BalanceChange row
    hist,       \* the addresses with history on chain
    issued,     \* the addresses handed out by the API so far
    reused,     \* history: those handed out when they already had history
    pc,         \* pc[w]: the step worker w is at, "idle" when not running
    seen,       \* seen[w]: the sync_status read by get_or_create
    stale,      \* stale[w]: the account read was more than 15 minutes old
    created,    \* created[w]: get_or_create inserted the row
    obj,        \* obj[w]: id of the Account object w holds
    start,      \* start[w]: start_index of w's sync_xpub
    from, to, mx, \* sync_xpub's from_index, to_index and max_idx
    found,      \* found[w]: addresses of the window with history, as read
    want,       \* the API request: <<chain, count>>
    breq,       \* the unsigned-transaction request being built, or NoRequest
    bchg,       \* {} or {the change address of its first get_change_address}
    built,      \* the response to the last unsigned-transaction request
    regs, unregs, fails, asks, pays

vars == <<row, nextId, status, old, addrs, bc, hist, issued, reused, pc, seen,
          stale, created, obj, start, from, to, mx, found, want, breq, bchg,
          built, regs, unregs, fails, asks, pays>>

\* a row is created only while none exists, and only an unregistration
\* deletes one
Ids == 1..MaxUnregs + 2

\* no unsigned-transaction request in progress
NoRequest == [to |-> <<>>, opret |-> 0]

\* a response of CreateUnsignedTransactionPage: the inputs selected, the
\* change amount, the fee and the amount of a send_max recipient, or err
Response(rq, ok, err, ins, chg, fee, max) ==
    [rq |-> rq, ok |-> ok, err |-> err, ins |-> ins, chg |-> chg, fee |-> fee,
     max |-> max]
Refused(rq, err) == Response(rq, FALSE, err, {}, 0, 0, 0)

TypeOK ==
    /\ row \in Ids \cup {0} /\ nextId \in Ids /\ status \in Statuses /\ old \in BOOLEAN
    /\ addrs \subseteq Addresses /\ bc \subseteq addrs
    /\ hist \subseteq Addresses /\ issued \subseteq Addresses /\ reused \subseteq issued
    /\ pc \in [Workers -> {"idle", "queued", "lost", "check", "delete", "sync",
                           "window", "save", "finish", "utxos"}]
    /\ seen \in [Workers -> Statuses]
    /\ stale \in [Workers -> BOOLEAN] /\ created \in [Workers -> BOOLEAN]
    /\ obj \in [Workers -> Ids \cup {0}]
    /\ start \in [Workers -> Indices]
    /\ from \in [Workers -> Indices] /\ to \in [Workers -> Indices]
    /\ mx \in [Workers -> Indices] /\ found \in [Workers -> SUBSET Addresses]
    /\ want \in Chains \X (0..GapLimit)
    /\ breq \in Requests \cup {NoRequest}
    /\ bchg \subseteq Addresses /\ Cardinality(bchg) <= 1
    /\ built.rq \in Requests \cup {NoRequest} /\ built.ok \in BOOLEAN
    /\ built.ins \subseteq Addresses
    /\ regs \in 0..MaxRegs /\ unregs \in 0..MaxUnregs /\ fails \in 0..MaxFails
    /\ asks \in 0..MaxAsks /\ pays \in 0..MaxPays

Init ==
    /\ row = 0 /\ nextId = 1 /\ status = "NOT_STARTED" /\ old = FALSE
    /\ addrs = {} /\ bc = {} /\ hist = Used /\ issued = {} /\ reused = {}
    /\ pc = [w \in Workers |-> "idle"]
    /\ seen = [w \in Workers |-> "NOT_STARTED"]
    /\ stale = [w \in Workers |-> FALSE]
    /\ created = [w \in Workers |-> FALSE]
    /\ obj = [w \in Workers |-> 0]
    /\ start = [w \in Workers |-> 0]
    /\ from = [w \in Workers |-> 0] /\ to = [w \in Workers |-> 0]
    /\ mx = [w \in Workers |-> 0] /\ found = [w \in Workers |-> {}]
    /\ want = <<0, 0>>
    /\ breq = NoRequest /\ bchg = {} /\ built = Refused(NoRequest, "none")
    /\ regs = 0 /\ unregs = 0 /\ fails = 0 /\ asks = 0 /\ pays = 0

\* the largest index of a set of addresses, or m when it is empty
MaxIndex(S, m) ==
    LET ix == {a[2] : a \in S} \cup {m}
    IN  CHOOSE i \in ix : \A j \in ix : j <= i

\* the window [lo, hi) of sync_xpub on both chains
Window(lo, hi) == Chains \X (lo..(hi - 1))

\* max_idx after a window: the largest index of the window with history
\* (has_transactions on either chain), or m when there is none
MaxUsedIn(lo, hi, m) == MaxIndex(Window(lo, hi) \cap hist, m)

WorkerVars == <<seen, stale, created, obj, start, from, to, mx, found, breq,
               bchg, built>>
Registry == <<addrs, bc, hist, issued, reused>>
Counters == <<regs, unregs, fails, asks, pays>>

Goto(w, s) == pc' = [pc EXCEPT ![w] = s]

\* the task or request ends, normally or by an exception; QueueOnce
\* releases its lock
Done(w) == Goto(w, "idle")

\* account_object.update_sync_status(s): save() of task w's object.  Django
\* UPDATEs the row by id and, when none matched, INSERTs it with that id;
\* the INSERT fails on unique_together when another row has the key.
SaveStatus(w, s) ==
    /\ row \in {0, obj[w]}
    /\ row' = obj[w]
    /\ status' = s
    /\ old' = FALSE

\* Account.objects.get(...).update_sync_status(s); the get raises
\* DoesNotExist when there is no row
GetAndSaveStatus(s) ==
    IF row # 0 THEN status' = s /\ old' = FALSE
               ELSE UNCHANGED <<status, old>>

\* an account marked SYNCING with no initial_sync_xpub running
Stuck == row # 0 /\ status = "SYNCING" /\ \A w \in SyncWorkers : pc[w] \in {"idle", "lost"}

\* XpubRegistrationPage.post: initial_sync_xpub.s(...).apply_async(); the
\* QueueOnce lock drops it while the same signature is queued, running or
\* still locked.  Beyond MaxRegs a client only registers a stuck account
\* again.
Register(w) ==
    /\ regs < MaxRegs \/ Stuck
    /\ regs' = IF regs < MaxRegs THEN regs + 1 ELSE regs
    /\ pc' = IF pc[w] = "idle" THEN [pc EXCEPT ![w] = "queued"] ELSE pc
    /\ UNCHANGED <<row, nextId, status, old, Registry, WorkerVars, want, unregs,
                   fails, asks, pays>>

\* XpubUnregistrationPage.post: Account delete, cascading to its Address,
\* Transaction and BalanceChange rows
Unregister ==
    /\ unregs < MaxUnregs /\ row # 0
    /\ unregs' = unregs + 1
    /\ row' = 0
    /\ addrs' = {} /\ bc' = {}
    /\ UNCHANGED <<nextId, status, old, hist, issued, reused, pc, WorkerVars,
                   want, regs, fails, asks, pays>>

\* initial_sync_xpub: Account.objects.get_or_create and the age of the row
InitialSyncRead(w) ==
    /\ pc[w] = "queued"
    /\ IF row = 0
       THEN /\ row' = nextId /\ nextId' = nextId + 1
            /\ status' = "NOT_STARTED" /\ old' = FALSE
            /\ obj' = [obj EXCEPT ![w] = nextId]
            /\ seen' = [seen EXCEPT ![w] = "NOT_STARTED"]
            /\ stale' = [stale EXCEPT ![w] = FALSE]
       ELSE /\ obj' = [obj EXCEPT ![w] = row]
            /\ seen' = [seen EXCEPT ![w] = status]
            /\ stale' = [stale EXCEPT ![w] = old]
            /\ UNCHANGED <<row, nextId, status, old>>
    /\ created' = [created EXCEPT ![w] = (row = 0)]
    /\ Goto(w, "check")
    /\ UNCHANGED <<Registry, start, from, to, mx, found, want, breq, bchg, built,
                   Counters>>

\* mutant: a SYNCING account is skipped however old it is
InitialSyncCheckNoTimeout(w) ==
    /\ pc[w] = "check"
    /\ IF seen[w] = "SYNCING" /\ ~created[w]
       THEN Done(w) /\ UNCHANGED <<row, status, old>>
       ELSE \/ SaveStatus(w, "SYNCING")
               /\ Goto(w, IF w = "hard" THEN "delete" ELSE "sync")
            \/ /\ row \notin {0, obj[w]}
               /\ Done(w) /\ UNCHANGED <<row, status, old>>
    /\ UNCHANGED <<nextId, Registry, WorkerVars, want, Counters>>

\* skip if already syncing, unless more than 15 minutes old or just
\* created; otherwise update_sync_status('SYNCING')
InitialSyncCheck(w) ==
    /\ pc[w] = "check"
    /\ IF seen[w] = "SYNCING" /\ ~stale[w] /\ ~created[w]
       THEN Done(w) /\ UNCHANGED <<row, status, old>>
       ELSE \/ SaveStatus(w, "SYNCING")
               /\ Goto(w, IF w = "hard" THEN "delete" ELSE "sync")
            \/ /\ row \notin {0, obj[w]}
               /\ Done(w) /\ UNCHANGED <<row, status, old>>
    /\ UNCHANGED <<nextId, Registry, WorkerVars, want, Counters>>

\* the celery worker running task w dies (killed, out of memory, a
\* deploy): the task ends with no exception handler, and QueueOnce's redis
\* lock of its signature stays until its timeout
WorkerLost(w) ==
    /\ w \in SyncWorkers /\ pc[w] \notin {"idle", "queued", "lost"}
    /\ fails < MaxFails /\ fails' = fails + 1
    /\ Goto(w, "lost")
    /\ UNCHANGED <<row, nextId, status, old, Registry, WorkerVars, want, regs,
                   unregs, asks, pays>>

\* the QueueOnce lock of a lost task times out
LockExpires(w) ==
    /\ pc[w] = "lost"
    /\ Goto(w, "idle")
    /\ UNCHANGED <<row, nextId, status, old, Registry, WorkerVars, want, Counters>>

\* hard refresh: the account's Address and Transaction rows deleted, and
\* their BalanceChange rows with them
HardRefresh(w) ==
    /\ pc[w] = "delete"
    /\ addrs' = IF row = obj[w] THEN {} ELSE addrs
    /\ bc' = IF row = obj[w] THEN {} ELSE bc
    /\ Goto(w, "sync")
    /\ UNCHANGED <<row, nextId, status, old, hist, issued, reused, WorkerVars,
                   want, Counters>>

\* the exception handler of initial_sync_xpub: Account.objects.get and
\* update_sync_status('FAILED') (the get raises again when there is no row)
SyncFailed(w) ==
    /\ GetAndSaveStatus("FAILED")
    /\ Done(w)

\* an exception leaves sync_xpub: initial_sync_xpub's handler runs; in a
\* request it ends the request with a server error and no address
Raise(w) ==
    IF w \in SyncWorkers THEN SyncFailed(w)
    ELSE Done(w) /\ UNCHANGED <<status, old>>

\* sync_xpub: Account.objects.get, then the first window of GAP_LIMIT
\* indices from start_index (max_idx starts at start_index)
SyncXpubStart(w) ==
    /\ pc[w] = "sync"
    /\ IF row = 0
       THEN Raise(w) /\ UNCHANGED <<obj, from, to, mx>>
       ELSE /\ obj' = [obj EXCEPT ![w] = row]
            /\ from' = [from EXCEPT ![w] = start[w]]
            /\ to' = [to EXCEPT ![w] = start[w] + GapLimit]
            /\ mx' = [mx EXCEPT ![w] = start[w]]
            /\ Goto(w, "window")
            /\ UNCHANGED <<status, old>>
    /\ UNCHANGED <<row, nextId, Registry, seen, stale, created, start, found,
                   breq, bchg, built,
                   want, Counters>>

\* mutant: max_idx = from_index set at the top of each pass of the loop
SyncXpubAddressesMaxReset(w) ==
    /\ pc[w] = "window"
    /\ LET window == Window(from[w], to[w])
       IN  /\ row = obj[w]
           /\ addrs' = addrs \cup window
           /\ found' = [found EXCEPT ![w] = window \cap hist]
           /\ mx' = [mx EXCEPT ![w] = MaxUsedIn(from[w], to[w], from[w])]
           /\ Goto(w, "save")
    /\ UNCHANGED <<row, nextId, status, old, bc, hist, issued, reused, seen,
                   breq, bchg, built,
                   stale, created, obj, start, from, to, want, Counters>>

\* the first half of a pass of sync_xpub's loop: derive [from_index,
\* to_index) on both chains, read their histories (get_transactions), then
\* Address.update_or_create each one, a foreign key error when the
\* account's row is gone; max_idx becomes the largest index with history
SyncXpubAddresses(w) ==
    /\ pc[w] = "window"
    /\ LET window == Window(from[w], to[w])
       IN  IF window # {} /\ row # obj[w]
           THEN /\ Raise(w)
                /\ UNCHANGED <<addrs, found, mx>>
           ELSE /\ addrs' = addrs \cup window
                /\ found' = [found EXCEPT ![w] = window \cap hist]
                /\ mx' = [mx EXCEPT ![w] = MaxUsedIn(from[w], to[w], mx[w])]
                /\ Goto(w, "save")
                /\ UNCHANGED <<status, old>>
    /\ UNCHANGED <<row, nextId, bc, hist, issued, reused, seen, stale, created,
                   breq, bchg, built,
                   obj, start, from, to, want, Counters>>

\* the second half: save_results gets every address of the window
\* (Address.objects.get raises if a hard refresh or an unregistration
\* deleted it meanwhile) and writes the Transaction and BalanceChange rows
\* of the histories read; then the loop stops when no index at or above
\* from_index had history, else goes on from to_index to max_idx + GAP_LIMIT
SyncXpubSave(w) ==
    /\ pc[w] = "save"
    /\ IF ~(Window(from[w], to[w]) \subseteq addrs)
       THEN /\ Raise(w)
            /\ UNCHANGED <<bc, from, to>>
       ELSE /\ bc' = bc \cup found[w]
            /\ IF mx[w] < from[w]
               THEN Goto(w, "finish") /\ UNCHANGED <<from, to>>
               ELSE /\ from' = [from EXCEPT ![w] = to[w]]
                    /\ to' = [to EXCEPT ![w] = mx[w] + GapLimit]
                    /\ Goto(w, "window")
            /\ UNCHANGED <<status, old>>
    /\ UNCHANGED <<row, nextId, addrs, hist, issued, reused, seen, stale,
                   breq, bchg, built,
                   created, obj, start, mx, found, want, Counters>>

\* an adapter call of sync_xpub (get_transactions) raises
SyncXpubFail(w) ==
    /\ pc[w] = "window" /\ fails < MaxFails
    /\ fails' = fails + 1
    /\ Raise(w)
    /\ UNCHANGED <<row, nextId, Registry, WorkerVars, want, regs, unregs, asks,
                   pays>>

\* after sync_xpub: Account.objects.get and update_sync_status('COMPLETE')
InitialSyncComplete(w) ==
    /\ pc[w] = "finish" /\ w \in SyncWorkers
    /\ GetAndSaveStatus("COMPLETE")
    /\ Done(w)
    /\ UNCHANGED <<row, nextId, Registry, WorkerVars, want, Counters>>

-----------------------------------------------------------------------------
(* Address issuance *)

\* the Address rows of chain c with no BalanceChange, as seen through
\* the Account object of w: get_addresses().filter(type=...,
\* balancechange__isnull=True)
Unused(w, c) ==
    IF row = obj[w] THEN {a \in addrs \ bc : a[1] = c} ELSE {}

\* .order_by('index')[:n]
Lowest(S, n) == {a \in S : Cardinality({b \in S : b[2] < a[2]}) < n}

\* the addresses S are returned to the client
Issue(S) ==
    /\ issued' = issued \cup S
    /\ reused' = reused \cup (S \cap hist)

\* the counts ReceiveAddressPage accepts: 1 to GAP_LIMIT
Counts == 1..GapLimit

\* ReceiveAddressPage.post: _fetch_xpub_from_db, 400 when the account is
\* not registered; get_receive_addresses returns enough unused receive
\* addresses at once, or syncs the account inline (sync_xpub called
\* directly, outside QueueOnce) from the largest receive index
AskAddresses ==
    /\ pc["api"] = "idle" /\ asks < MaxAsks
    /\ asks' = asks + 1
    /\ breq' = NoRequest /\ bchg' = {}
    /\ \E n \in Counts :
         LET c == 0 IN
         /\ want' = <<c, n>>
         /\ IF row = 0
            THEN UNCHANGED <<issued, reused, pc, obj, start>>
            ELSE /\ obj' = [obj EXCEPT !["api"] = row]
                 /\ LET free == {a \in addrs \ bc : a[1] = c}
                    IN  IF Cardinality(free) >= n
                        THEN /\ Issue(Lowest(free, n))
                             /\ UNCHANGED <<pc, start>>
                        ELSE /\ start' = [start EXCEPT !["api"] =
                                    MaxIndex({a \in addrs : a[1] = c}, 0)]
                             /\ Goto("api", "sync")
                             /\ UNCHANGED <<issued, reused>>
    /\ UNCHANGED <<row, nextId, status, old, addrs, bc, hist, seen, stale,
                   created, from, to, mx, found, built, regs, unregs, fails,
                   pays>>

\* after the inline sync: the unused addresses are read again; too few
\* raises ValueError('Not Enough Addresses')
AskAddressesRecheck ==
    /\ pc["api"] = "finish" /\ breq = NoRequest
    /\ LET free == Unused("api", want[1])
       IN  IF Cardinality(free) >= want[2]
           THEN Issue(Lowest(free, want[2]))
           ELSE UNCHANGED <<issued, reused>>
    /\ Done("api")
    /\ UNCHANGED <<row, nextId, status, old, addrs, bc, hist, WorkerVars, want,
                   Counters>>

-----------------------------------------------------------------------------
(* Unsigned transactions *)

\* Python's round() of n / d, halves to the even neighbour (exact here:
\* d is 1024, so the float quotient has no rounding error)
RoundHalfEven(n, d) ==
    LET q == n \div d
        r == n % d
    IN  IF 2 * r > d \/ (2 * r = d /\ q % 2 = 1) THEN q + 1 ELSE q

\* get_dust_limit: a p2pkh input and a change output at the minimum relay fee
DustLimit == RoundHalfEven((InputSize + OutputSize) * MinRelayFee, 1024)

\* get_estimated_fee: the overhead, every input, every recipient as a
\* p2pkh output and always one change output, plus the OP_RETURN bytes
EstimatedFee(nIn, rq) ==
    RoundHalfEven(FeePerKb * (OverheadSize + nIn * InputSize
                              + (Len(rq.to) + 1) * OutputSize + rq.opret), 1024)

\* get_total_send_amount: `amount or 0`, so a send_max recipient counts 0
SendTotal(rq) ==
    LET RECURSIVE Sum(_)
        Sum(i) == IF i = 0 THEN 0
                  ELSE Sum(i - 1) + (IF rq.to[i].max THEN 0 ELSE rq.to[i].amt)
    IN  Sum(Len(rq.to))

MaxRecipients(rq) == {i \in 1..Len(rq.to) : rq.to[i].max}

\* get_total_utxo_value
UtxoTotal(S) == MapThenSumSet(Sats, S)

\* a UTXO is confirmed when its address had history before the model
\* starts; a payment made meanwhile is still in the mempool
Confirmed(a) == a \in Used

\* sorted(utxos, key=(not confirmations, satoshis))
SpentBefore(a, b) ==
    \/ Confirmed(a) /\ ~Confirmed(b)
    \/ Confirmed(a) = Confirmed(b) /\ Sats(a) < Sats(b)

\* after the loop of select_utxos_by_smallest_value_first: every non-dust
\* UTXO is selected (or the loop ran out); send_max gets what is left
\* when that is above the dust limit
SelectRest(sel, rq) ==
    LET fee == EstimatedFee(Cardinality(sel), rq)
        left == UtxoTotal(sel) - SendTotal(rq) - fee
    IN  IF sel = {} THEN Refused(rq, "NoSpendableUTXOsError")
        ELSE IF MaxRecipients(rq) # {} /\ DustLimit < left
        THEN Response(rq, TRUE, "", sel, 0, fee, left)
        ELSE IF MaxRecipients(rq) = {} /\ left >= 0
        THEN Response(rq, TRUE, "", sel, left, fee, 0)
        ELSE Refused(rq, "InsufficientFundsError")

\* the loop: skip dust, add the next UTXO, and without send_max stop as
\* soon as the selection pays the recipients and the estimated fee
RECURSIVE SelectFrom(_, _, _)
SelectFrom(sel, utxos, rq) ==
    IF utxos = <<>> THEN SelectRest(sel, rq)
    ELSE LET u == Head(utxos)
             more == sel \cup {u}
             change == UtxoTotal(more) - SendTotal(rq)
                       - EstimatedFee(Cardinality(more), rq)
         IN  IF Sats(u) <= DustLimit THEN SelectFrom(sel, Tail(utxos), rq)
             ELSE IF MaxRecipients(rq) = {} /\ change >= 0
             THEN Response(rq, TRUE, "", more, change,
                           EstimatedFee(Cardinality(more), rq), 0)
             ELSE SelectFrom(more, Tail(utxos), rq)

\* Account.get_utxos with change index ci, then select_utxos: the node's
\* UTXOs of the addresses with a non-zero balance in the ledger; those on a
\* change address above ci are spend_required and selected first
SelectUtxos(ci, rq) ==
    LET utxos == IF row = obj["api"] THEN bc ELSE {}
        required == {u \in utxos : u[1] = 1 /\ u[2] > ci}
    IN  SelectFrom(required, SetToSortSeq(utxos \ required, SpentBefore), rq)

\* the response is sent: the change address goes out with a built transaction
Respond(r) ==
    /\ built' = r
    /\ IF r.ok THEN Issue(bchg) ELSE UNCHANGED <<issued, reused>>
    /\ breq' = NoRequest /\ bchg' = {}
    /\ Done("api")

\* get_change_address: the lowest of the unused change addresses
LowestOf(free) == CHOOSE a \in Lowest(free, 1) : TRUE

\* get_change_address with no unused change address: the account syncs
\* inline from the largest change index, then BuildRecheck reads again
SyncForChange ==
    /\ start' = [start EXCEPT !["api"] = MaxIndex({a \in addrs : a[1] = 1}, 0)]
    /\ Goto("api", "sync")
    /\ UNCHANGED <<built, issued, reused>>

\* after the first get_change_address: the request goes on to get_utxos
FirstChange(a) ==
    /\ bchg' = {a} /\ Goto("api", "utxos")
    /\ UNCHANGED <<built, issued, reused>>

\* after the second (inside get_utxos): create_unsigned_utxo_transaction
SecondChange(a) == Respond(SelectUtxos(a[2], breq))

\* mutant: the view lets several recipients be send_max
BuildTxAnyMax ==
    /\ pc["api"] = "idle" /\ asks < MaxAsks
    /\ asks' = asks + 1
    /\ want' = <<1, 1>>
    /\ \E rq \in Requests :
         IF row = 0
         THEN /\ built' = Refused(rq, "XPubNotRegisteredError")
              /\ breq' = NoRequest /\ bchg' = {}
              /\ UNCHANGED <<issued, reused, pc, obj, start>>
         ELSE /\ obj' = [obj EXCEPT !["api"] = row]
              /\ breq' = rq
              /\ LET free == {a \in addrs \ bc : a[1] = 1}
                 IN  IF free # {} THEN FirstChange(LowestOf(free)) /\ UNCHANGED start
                     ELSE SyncForChange /\ bchg' = {}
    /\ UNCHANGED <<row, nextId, status, old, addrs, bc, hist, seen, stale,
                   created, from, to, mx, found, regs, unregs, fails, pays>>

\* CreateUnsignedTransactionPage.post for a UTXO coin: a second send_max
\* recipient is refused, then _fetch_xpub_from_db (400 when the account is
\* not registered), then _handle_utxo_coin's first get_change_address
BuildTx ==
    /\ pc["api"] = "idle" /\ asks < MaxAsks
    /\ asks' = asks + 1
    /\ want' = <<1, 1>>
    /\ \E rq \in Requests :
         IF Cardinality(MaxRecipients(rq)) > 1 \/ row = 0
         THEN /\ built' = Refused(rq, IF row # 0 THEN "Cannot send_max to multiple recipients"
                                      ELSE "XPubNotRegisteredError")
              /\ breq' = NoRequest /\ bchg' = {}
              /\ UNCHANGED <<issued, reused, pc, obj, start>>
         ELSE /\ obj' = [obj EXCEPT !["api"] = row]
              /\ breq' = rq
              /\ LET free == {a \in addrs \ bc : a[1] = 1}
                 IN  IF free # {} THEN FirstChange(LowestOf(free)) /\ UNCHANGED start
                     ELSE SyncForChange /\ bchg' = {}
    /\ UNCHANGED <<row, nextId, status, old, addrs, bc, hist, seen, stale,
                   created, from, to, mx, found, regs, unregs, fails, pays>>

\* _handle_utxo_coin after the first get_change_address: a recipient
\* amount below the dust limit is refused; get_utxos calls
\* get_change_address again for the spend_required index
BuildSelect ==
    /\ pc["api"] = "utxos"
    /\ IF \E i \in 1..Len(breq.to) : ~breq.to[i].max /\ breq.to[i].amt < DustLimit
       THEN Respond(Refused(breq, "dust")) /\ UNCHANGED start
       ELSE IF Unused("api", 1) # {}
       THEN SecondChange(LowestOf(Unused("api", 1))) /\ UNCHANGED start
       ELSE SyncForChange /\ UNCHANGED <<breq, bchg>>
    /\ UNCHANGED <<row, nextId, status, old, addrs, bc, hist, seen, stale,
                   created, obj, from, to, mx, found, want, Counters>>

\* after an inline sync in get_change_address: the unused change addresses
\* are read again; none raises ValueError('Not Enough Addresses'), a
\* server error
BuildRecheck ==
    /\ pc["api"] = "finish" /\ breq # NoRequest
    /\ LET free == Unused("api", 1)
       IN  CASE free = {} -> Respond(Refused(breq, "Not Enough Addresses"))
             [] free # {} /\ bchg = {} -> FirstChange(LowestOf(free)) /\ UNCHANGED breq
             [] free # {} /\ bchg # {} -> SecondChange(LowestOf(free))
    /\ UNCHANGED <<row, nextId, status, old, addrs, bc, hist, seen, stale,
                   created, obj, start, from, to, mx, found, want, Counters>>

-----------------------------------------------------------------------------
(* Environment *)

\* fifteen minutes pass without a save of the account
Age ==
    /\ row # 0 /\ ~old
    /\ old' = TRUE
    /\ UNCHANGED <<row, nextId, status, Registry, pc, WorkerVars, want,
                   Counters>>

\* a payment to an issued address, recorded by the block tracker (or the
\* address watch) when the address has a row
Pay ==
    /\ pays < MaxPays
    /\ \E a \in issued \ hist :
         /\ hist' = hist \cup {a}
         /\ bc' = IF a \in addrs THEN bc \cup {a} ELSE bc
    /\ pays' = pays + 1
    /\ UNCHANGED <<row, nextId, status, old, addrs, issued, reused, pc,
                   WorkerVars, want, regs, unregs, fails, asks>>

Task(w) ==
    \/ InitialSyncRead(w) \/ InitialSyncCheck(w) \/ HardRefresh(w)
    \/ SyncXpubStart(w) \/ SyncXpubAddresses(w) \/ SyncXpubSave(w)
    \/ InitialSyncComplete(w)
    \/ w = "api" /\ AskAddressesRecheck
    \/ w = "api" /\ BuildSelect
    \/ w = "api" /\ BuildRecheck

Next ==
    \/ \E w \in SyncWorkers : Register(w)
    \/ \E w \in Workers : Task(w) \/ SyncXpubFail(w)
    \/ \E w \in SyncWorkers : WorkerLost(w) \/ LockExpires(w)
    \/ AskAddresses \/ BuildTx \/ Unregister \/ Age \/ Pay

\* celery runs every queued task to its end unless its worker dies, a
\* request thread runs its request to its end, redis expires a lock at its
\* timeout, and fifteen minutes pass
Spec == /\ Init /\ [][Next]_vars /\ \A w \in Workers : WF_vars(Task(w))
        /\ \A w \in SyncWorkers : WF_vars(LockExpires(w))
        /\ WF_vars(Age)

-----------------------------------------------------------------------------
(* The gap-limit scan as a function of the histories *)

\* the to_index of the last window sync_xpub scans from from_index with
\* max_idx m: every index below it is derived on both chains
RECURSIVE ScanEnd(_, _, _)
ScanEnd(lo, hi, m) ==
    LET n == MaxUsedIn(lo, hi, m)
    IN  IF n < lo THEN hi ELSE ScanEnd(hi, n + GapLimit, n)

Scanned == Window(0, ScanEnd(0, GapLimit, 0))

Idle == \A w \in Workers : pc[w] = "idle"

-----------------------------------------------------------------------------
(* Properties *)

\* sync_status is stale-recoverable: an account left SYNCING by a task
\* whose worker died is re-entered by a registration once its updated_at is
\* fifteen minutes old.  If clients keep registering, an account marked
\* SYNCING is eventually no longer SYNCING (or deleted).
SyncingRecovers ==
    (\A w \in SyncWorkers : WF_vars(Register(w)))
        => [](row # 0 /\ status = "SYNCING" ~> row = 0 \/ status # "SYNCING")

\* when every task has ended and the account says COMPLETE, all the
\* addresses sync_xpub derives are stored: a concurrent hard refresh
\* cannot leave a COMPLETE account with its addresses deleted
CompleteMeansScanned ==
    Idle /\ row # 0 /\ status = "COMPLETE" => Scanned \subseteq addrs

\* get_receive_addresses and get_change_address hand out only addresses
\* with no history: "balancechange__isnull" stands for "unused"
IssuedAddressesFresh == reused = {}


\* an unsigned transaction the API builds pays its outputs and the fee it
\* reports out of its inputs, and what goes to the miners beyond that fee
\* is the change create_unsigned_utxo_transaction dropped as dust, never
\* more; no output (recipient, send_max or change) is below the dust limit
UnsignedTxBalanced ==
    built.ok =>
        LET rq == built.rq
            amount(i) == IF rq.to[i].max THEN built.max ELSE rq.to[i].amt
            change == IF built.chg > DustLimit THEN built.chg ELSE 0
            spare == UtxoTotal(built.ins) - built.fee - change
                     - SendTotal(rq) - Cardinality(MaxRecipients(rq)) * built.max
        IN  /\ 0 <= spare /\ spare <= DustLimit
            /\ \A i \in 1..Len(rq.to) : amount(i) >= DustLimit

=============================================================================
