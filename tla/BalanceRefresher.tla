-------------------------- MODULE BalanceRefresher --------------------------
(***************************************************************************)
(* The Balance Cache Refresher of an account-based address: the           *)
(* AccountBalance row a sync task writes from the node's balance, the      *)
(* three callers of those tasks, and what BalancePage reads.               *)
(*                                                                         *)
(*  - the block ingesters: Tendermint, XRP, BNB, FIO and EOS call          *)
(*    sync_*_account_balances(address) directly (no QueueOnce lock) while  *)
(*    saving a block's transactions of the address; the ETH ingester       *)
(*    deletes the legacy redis balance key of the asset moved and queues   *)
(*    sync_eth_account_balances(address, False) and, for a token transfer, *)
(*    sync_eth_token_balance;                                              *)
(*  - SyncAccountBasedBalancesPage: unless the redis marker of the address *)
(*    is set (BALANCE_SYNC_TTL) it queues the network's sync task and sets *)
(*    the marker;                                                          *)
(*  - the ETH account task with include_tokens queues the token task of    *)
(*    every supported ERC20 token.                                         *)
(*                                                                         *)
(* Every queued task is a QueueOnce task with graceful = True: a call      *)
(* while a task of the same signature is queued or running is dropped.     *)
(* sync_eth_account_balances(address) and (address, False) are different  *)
(* signatures.  BalancePage reads the AccountBalance rows, or (legacy ETH  *)
(* path) a redis read-through cache with ETH_BALANCE_TTL.                  *)
(*                                                                         *)
(* A balance is a member of the small set Amounts; the node's balance is   *)
(* `chain`, and a read of it is a step of its own, apart from the write.   *)
(***************************************************************************)
EXTENDS Naturals, FiniteSets

CONSTANTS
    Networks,   \* a subset of {"eth", "tendermint", "xrp", "bnb", "fio", "eos"}
    Amounts,    \* balances the node can report (0 among them)
    MaxChanges, \* bound on changes of the node's balances
    MaxFails,   \* bound on failed or error answers of the node
    NoRow,      \* no AccountBalance row / nothing read yet
    Failed,     \* an exception: nothing is written
    NoneAns,    \* a None answer of a client
    NoneStr,    \* what redis holds after setex of None (the string 'None')
    Miss        \* no redis key

Native == "native"
Token == "token"

\* the assets of the address on a network: ETH also has a supported token
AssetsOf(n) == IF n = "eth" THEN {Native, Token} ELSE {Native}

\* QueueOnce signatures: the page's sync task, the ETH ingester's
\* sync_eth_account_balances(address, False), and the token task
Sigs == {"api", "ingest", "token"}

\* BalancePage's ETH paths: UNCHAINED_ACCOUNT_BALANCES on, else
\* LOCAL_ACCOUNT_BALANCES on (the AccountBalance rows), else legacy
EthPaths == {"unchained", "local", "legacy"}

VARIABLES
    net,        \* the network of the address (fixed)
    ethPath,    \* BalancePage's ETH path, from its feature flags (fixed)
    chain,      \* chain[a]: the node's balance of asset a
    changes,    \* changes of the node's balances so far
    pending,    \* assets moved by blocks the ingester has not read yet
    stored,     \* stored[a]: balance of the AccountBalance row, or NoRow
    ipc,        \* the ingester's direct sync call: "idle", "block", "read"
    ival,       \* the balance the direct call read
    tpc,        \* tpc[s]: "idle", "queued", "read", "tokens" (lock held unless idle)
    tval,       \* tval[s]: the answer task s read
    marker,     \* the redis key watchtower:<net>:balances:sync:lock:<address>
    cache,      \* cache[a]: the legacy redis balance key of asset a, or Miss
    cttl,       \* cttl[a]: the key has an expiry
    rpc,        \* rpc[a]: the legacy BalancePage read of asset a: "idle", "read"
    rval,       \* rval[a]: what it read
    fails       \* failed answers so far

vars == <<net, ethPath, chain, changes, pending, stored, ipc, ival, tpc, tval,
          marker, cache, cttl, rpc, rval, fails>>

Answer == Amounts \cup {NoRow, Failed, NoneAns}

TypeOK ==
    /\ net \in Networks /\ ethPath \in EthPaths
    /\ chain \in [{Native, Token} -> Amounts]
    /\ changes \in 0..MaxChanges
    /\ pending \subseteq AssetsOf(net)
    /\ stored \in [{Native, Token} -> Amounts \cup {NoRow}]
    /\ ipc \in {"idle", "block", "read"} /\ ival \in Answer
    /\ tpc \in [Sigs -> {"idle", "queued", "read", "tokens"}]
    /\ tval \in [Sigs -> Answer]
    /\ marker \in BOOLEAN
    /\ cache \in [{Native, Token} -> Amounts \cup {NoneStr, Miss}]
    /\ cttl \in [{Native, Token} -> BOOLEAN]
    /\ rpc \in [{Native, Token} -> {"idle", "read"}]
    /\ rval \in [{Native, Token} -> Answer]
    /\ fails \in 0..MaxFails

Init ==
    /\ net \in Networks
    /\ ethPath \in IF net = "eth" THEN EthPaths ELSE {"local"}
    /\ chain \in {c \in [{Native, Token} -> Amounts] : Token \notin AssetsOf(net) => c[Token] = 0}
    /\ changes = 0
    /\ pending = {}
    /\ stored = [a \in {Native, Token} |-> NoRow]
    \* the account's initial sync (sync_tendermint_account ... sync_eos_account)
    \* calls the network's balance sync directly; ETH's rows are created by
    \* the tasks
    /\ ipc = IF net = "eth" THEN "idle" ELSE "block"
    /\ ival = NoRow
    /\ tpc = [s \in Sigs |-> "idle"] /\ tval = [s \in Sigs |-> NoRow]
    /\ marker = FALSE
    /\ cache = [a \in {Native, Token} |-> Miss]
    /\ cttl = [a \in {Native, Token} |-> FALSE]
    /\ rpc = [a \in {Native, Token} |-> "idle"] /\ rval = [a \in {Native, Token} |-> NoRow]
    /\ fails = 0

\* an error answer is possible while failures remain
Err(S) == IF fails < MaxFails THEN S ELSE {}

\* the number of failures an answer used
Cost(ans, a) == IF ans = chain[a] THEN 0 ELSE 1

-----------------------------------------------------------------------------
(* The node's balance answers, per client *)

\* GaiaTendermintClient.get_balance: an error object has no 'balances'
\* ('result' None for RUNE, OSMO): KeyError or TypeError; a failed request
\* raises as well
GaiaGetBalance == {chain[Native]} \cup Err({Failed})

\* RippleClient.get_balance: an error answer has no account_data: None; a
\* failed request raises
RippleGetBalance == {chain[Native]} \cup Err({NoneAns, Failed})

\* BinanceClient.get_balance: an error answer has no 'balances': the
\* except returns 0; get_account's request itself is outside the try
BinanceGetBalance == {chain[Native]} \cup Err({0, Failed})

\* FioClient.get_balance: response.get('balance', 0) of an error object;
\* a failed request or a body that is not JSON raises
FioGetBalance == {chain[Native]} \cup Err({0, Failed})

\* EosClient.get_account_balance: the GraphQL errors list (or a reply with
\* no EOS balance) ends in "return 0"; a failed gRPC call raises
EosGetAccountBalance == {chain[Native]} \cup Err({0, Failed})

\* sync_account_balances (Tendermint)
SyncAccountBalances == GaiaGetBalance

\* mutant: the None answer is written as it is
SyncXrpAccountBalancesNoneKept == RippleGetBalance

\* sync_xrp_account_balances: "if balance is None: balance = 0"
SyncXrpAccountBalances == {IF x = NoneAns THEN 0 ELSE x : x \in RippleGetBalance}

\* sync_bnb_account_balances
SyncBnbAccountBalances == BinanceGetBalance

\* sync_fio_account_balances
SyncFioAccountBalances == FioGetBalance

\* sync_eos_account_balances
SyncEosAccountBalances == EosGetAccountBalance

\* the networks SyncAccountBasedBalancesPage queues a sync for: its account
\* filters list ETH, ATOM, RUNE, OSMO, BNB, XRP and FIO, and no EOS
PageNetworks == {"eth", "tendermint", "bnb", "xrp", "fio"}

\* what the network's sync task writes (Failed: it raises first)
BalanceAnswers(n) ==
    CASE n = "tendermint" -> SyncAccountBalances
      [] n = "xrp"        -> SyncXrpAccountBalances
      [] n = "bnb"        -> SyncBnbAccountBalances
      [] n = "fio"        -> SyncFioAccountBalances
      [] n = "eos"        -> SyncEosAccountBalances
      [] n = "eth"        -> {chain[Native]} \cup Err({Failed})

-----------------------------------------------------------------------------
(* Callers *)

\* apply_async of a QueueOnce task: queued, or dropped while one of the
\* signature holds the lock
Queue(q, s) == IF q[s] = "idle" THEN [q EXCEPT ![s] = "queued"] ELSE q

\* a block the ingesters read moves asset a of the address; a token
\* transfer the address sends also pays the gas in ether
Transfer ==
    /\ changes < MaxChanges
    /\ \E a \in AssetsOf(net), v \in Amounts, gas \in Amounts :
         /\ v # chain[a]
         /\ chain' = IF a = Token THEN [chain EXCEPT ![Token] = v, ![Native] = gas]
                                  ELSE [chain EXCEPT ![a] = v]
         /\ pending' = pending \cup {a}
    /\ changes' = changes + 1
    /\ UNCHANGED <<net, ethPath, stored, ipc, ival, tpc, tval, marker, cache, cttl, rpc, rval, fails>>

\* a reorganisation (or the node behind a load balancer lagging) changes
\* the balance with no block for the ingesters to read
Revert ==
    /\ changes < MaxChanges
    /\ \E a \in AssetsOf(net), v \in Amounts :
         /\ v # chain[a]
         /\ chain' = [chain EXCEPT ![a] = v]
    /\ changes' = changes + 1
    /\ UNCHANGED <<net, ethPath, pending, stored, ipc, ival, tpc, tval, marker, cache, cttl, rpc, rval, fails>>

\* save_transactions of the Tendermint, XRP, BNB, FIO and EOS ingesters:
\* the address has transactions in the block
IngestBlock ==
    /\ net # "eth" /\ ipc = "idle" /\ pending # {}
    /\ pending' = {}
    /\ ipc' = "block"
    /\ UNCHANGED <<net, ethPath, chain, changes, stored, ival, tpc, tval, marker, cache, cttl, rpc, rval, fails>>

\* the direct call sync_*_account_balances(address) reads the node; an
\* exception ends the ingester's run and the block is read again later
DirectSyncRead ==
    /\ ipc = "block"
    /\ \E ans \in BalanceAnswers(net) :
         /\ fails' = fails + Cost(ans, Native)
         /\ IF ans = Failed
            THEN ipc' = "idle" /\ pending' = AssetsOf(net) /\ UNCHANGED ival
            ELSE ipc' = "read" /\ ival' = ans /\ UNCHANGED pending
    /\ UNCHANGED <<net, ethPath, chain, changes, stored, tpc, tval, marker, cache, cttl, rpc, rval>>

\* AccountBalance.objects.update_or_create(..., defaults={'balance': ...})
DirectSyncWrite ==
    /\ ipc = "read"
    /\ stored' = [stored EXCEPT ![Native] = ival]
    /\ ipc' = "idle" /\ ival' = NoRow
    /\ UNCHANGED <<net, ethPath, chain, changes, pending, tpc, tval, marker, cache, cttl, rpc, rval, fails>>

\* EthBlockIngester.process_block, per saved transaction of the address:
\* redisClient.delete of the legacy key of the asset it moved, then
\* sync_eth_account_balances.s(address, False).apply_async() and, for a
\* token transfer, sync_eth_token_balance.s(...).apply_async()
IngestEthBlock ==
    /\ net = "eth" /\ pending # {}
    /\ cache' = [a \in {Native, Token} |-> IF a \in pending THEN Miss ELSE cache[a]]
    /\ cttl' = [a \in {Native, Token} |-> a \notin pending /\ cttl[a]]
    /\ tpc' = IF Token \in pending THEN Queue(Queue(tpc, "ingest"), "token")
                                   ELSE Queue(tpc, "ingest")
    /\ pending' = {}
    /\ UNCHANGED <<net, ethPath, chain, changes, stored, ipc, ival, tval, marker, rpc, rval, fails>>

\* SyncAccountBasedBalancesPage.post: redisClient.get of the marker; when
\* it is None, the network's sync task is queued and the marker set with
\* setex(BALANCE_SYNC_TTL); when it is set, nothing happens
SyncAccountBasedBalancesPage ==
    /\ net \in PageNetworks /\ ~marker
    /\ tpc' = Queue(tpc, "api")
    /\ marker' = TRUE
    /\ UNCHANGED <<net, ethPath, chain, changes, pending, stored, ipc, ival, tval, cache, cttl, rpc, rval, fails>>

\* the marker's BALANCE_SYNC_TTL runs out
MarkerExpires ==
    /\ marker
    /\ marker' = FALSE
    /\ UNCHANGED <<net, ethPath, chain, changes, pending, stored, ipc, ival, tpc, tval, cache, cttl, rpc, rval, fails>>

-----------------------------------------------------------------------------
(* The queued tasks *)

\* the task reads the node: the network's get_balance (the page's task),
\* or the coinquery balance / tokenbalance request of the ETH tasks.
\* A failure of sync_eth_token_balance's request, or an exception of a
\* non-ETH task, ends the task (the lock is released); the ETH account
\* task catches it and goes on.
TaskRead(s) ==
    /\ tpc[s] = "queued"
    /\ LET a == IF s = "token" THEN Token ELSE Native
           answers == IF s = "token" THEN {chain[Token]} \cup Err({Failed})
                      ELSE BalanceAnswers(net)
       IN \E ans \in answers :
            /\ fails' = fails + Cost(ans, a)
            /\ IF ans = Failed /\ (s = "token" \/ net # "eth")
               THEN tpc' = [tpc EXCEPT ![s] = "idle"] /\ UNCHANGED tval
               ELSE tpc' = [tpc EXCEPT ![s] = "read"] /\ tval' = [tval EXCEPT ![s] = ans]
    /\ UNCHANGED <<net, ethPath, chain, changes, pending, stored, ipc, ival, marker, cache, cttl, rpc, rval>>

\* sync_eth_account_balances and the other networks' tasks:
\* AccountBalance.objects.update_or_create of the account's balance (the
\* ETH task skips it when its request failed); with include_tokens the ETH
\* task goes on to queue the token tasks
SyncEthAccountBalances(s) ==
    /\ s \in {"api", "ingest"} /\ tpc[s] = "read"
    /\ stored' = IF tval[s] = Failed THEN stored ELSE [stored EXCEPT ![Native] = tval[s]]
    /\ tpc' = [tpc EXCEPT ![s] = IF s = "api" /\ net = "eth" THEN "tokens" ELSE "idle"]
    /\ tval' = [tval EXCEPT ![s] = NoRow]
    /\ UNCHANGED <<net, ethPath, chain, changes, pending, ipc, ival, marker, cache, cttl, rpc, rval, fails>>

\* include_tokens: sync_eth_token_balance.s(...).apply_async() for the
\* supported token, then the task returns and releases its lock
QueueTokenTasks ==
    /\ tpc["api"] = "tokens"
    /\ tpc' = [Queue(tpc, "token") EXCEPT !["api"] = "idle"]
    /\ UNCHANGED <<net, ethPath, chain, changes, pending, stored, ipc, ival, tval, marker, cache, cttl, rpc, rval, fails>>

\* mutant: a '0' balance is not written at all
SyncEthTokenBalanceNoZero ==
    /\ tpc["token"] = "read"
    /\ stored' = IF tval["token"] # 0 THEN [stored EXCEPT ![Token] = tval["token"]] ELSE stored
    /\ tpc' = [tpc EXCEPT !["token"] = "idle"] /\ tval' = [tval EXCEPT !["token"] = NoRow]
    /\ UNCHANGED <<net, ethPath, chain, changes, pending, ipc, ival, marker, cache, cttl, rpc, rval, fails>>

\* sync_eth_token_balance: a balance other than '0' is written with
\* update_or_create; '0' only updates an existing row to 0
SyncEthTokenBalance ==
    /\ tpc["token"] = "read"
    /\ stored' = [stored EXCEPT ![Token] =
                    IF tval["token"] # 0 THEN tval["token"]
                    ELSE IF @ = NoRow THEN NoRow ELSE 0]
    /\ tpc' = [tpc EXCEPT !["token"] = "idle"] /\ tval' = [tval EXCEPT !["token"] = NoRow]
    /\ UNCHANGED <<net, ethPath, chain, changes, pending, ipc, ival, marker, cache, cttl, rpc, rval, fails>>

-----------------------------------------------------------------------------
(* BalancePage, legacy ETH path: legacy_eth_balances *)

\* a read of the legacy key of asset a that finds none fetches the node's
\* balance: get_eth_xpub_balances (a failed request raises inside the try;
\* an error answer has 'result' None) or _fetch_token_balances
\* (_get_token_balance catches the failure and returns the None it was
\* given)
LegacyEthBalances(a) ==
    /\ net = "eth" /\ ethPath = "legacy"
    /\ rpc[a] = "idle" /\ cache[a] = Miss
    /\ \E ans \in {chain[a]} \cup Err(IF a = Native THEN {Failed, NoneAns} ELSE {NoneAns}) :
         /\ fails' = fails + Cost(ans, a)
         /\ rval' = [rval EXCEPT ![a] = ans]
         /\ rpc' = [rpc EXCEPT ![a] = "read"]
    /\ UNCHANGED <<net, ethPath, chain, changes, pending, stored, ipc, ival, tpc, tval, marker, cache, cttl>>

\* redisClient.setex(key, ETH_BALANCE_TTL, balance) of the balance read;
\* the ETH request skips it after an exception.  setex of the token's None
\* raises DataError under redis-py 3 and stores the string 'None' under
\* redis-py 2: either may happen.
GetEthXpubBalances(a) ==
    /\ rpc[a] = "read"
    /\ \/ rval[a] = Failed /\ UNCHANGED <<cache, cttl>>
       \/ rval[a] = NoneAns /\ UNCHANGED <<cache, cttl>>
       \/ rval[a] = NoneAns /\ cache' = [cache EXCEPT ![a] = NoneStr]
                           /\ cttl' = [cttl EXCEPT ![a] = TRUE]
       \/ rval[a] \in Amounts /\ cache' = [cache EXCEPT ![a] = rval[a]]
                              /\ cttl' = [cttl EXCEPT ![a] = TRUE]
    /\ rpc' = [rpc EXCEPT ![a] = "idle"] /\ rval' = [rval EXCEPT ![a] = NoRow]
    /\ UNCHANGED <<net, ethPath, chain, changes, pending, stored, ipc, ival, tpc, tval, marker, fails>>

\* a key's ETH_BALANCE_TTL runs out
CacheExpires(a) ==
    /\ cache[a] # Miss /\ cttl[a]
    /\ cache' = [cache EXCEPT ![a] = Miss] /\ cttl' = [cttl EXCEPT ![a] = FALSE]
    /\ UNCHANGED <<net, ethPath, chain, changes, pending, stored, ipc, ival, tpc, tval, marker, rpc, rval, fails>>

-----------------------------------------------------------------------------
(* BalancePage, AccountBalance path *)

\* the balance BalancePage reports for asset a, NoRow for no entry:
\* eth_balances lists the ETH row if there is one, and a token with no row
\* as balance 0; tendermint_account_balances (and the BNB, XRP, EOS and
\* FIO copies) list the rows there are
Reported(a) ==
    IF net = "eth" /\ a = Token /\ stored[a] = NoRow THEN 0 ELSE stored[a]

-----------------------------------------------------------------------------
(* BalancePage, unchained ETH path and the dispatch of BalancePage.post *)

\* UnchainedClient.get_balances: the service's answer for the address; a
\* failed request raises, and a token the address holds none of may be
\* missing from 'tokens' (None).  The WETH lookup through web3 applies to
\* a token named WETH only and is not modelled.
UnchainedGetBalances(a) ==
    {chain[a]} \cup (IF a = Token /\ chain[a] = 0 THEN {NoneAns} ELSE {})
               \cup Err({Failed})

\* unchained_eth_balances: a None balance is reported as '0'; an exception
\* ends the request with an error, so no balance is reported
UnchainedEthBalances(a) ==
    {IF x = NoneAns THEN 0 ELSE x : x \in UnchainedGetBalances(a) \ {Failed}}

\* the balances BalancePage.post can report for asset a, on a request
\* whose node reads succeed: the ETH path its flags select (the legacy
\* path reads the redis key, or the node on a miss), and for every other
\* network that network's AccountBalance reader
PageAnswers(a) ==
    CASE net = "eth" /\ ethPath = "unchained" -> UnchainedEthBalances(a)
      [] net = "eth" /\ ethPath = "legacy" ->
            IF cache[a] = Miss THEN {chain[a]} ELSE {cache[a]}
      [] OTHER -> {Reported(a)}

-----------------------------------------------------------------------------

Environment == Transfer \/ Revert

Ingesters == IngestBlock \/ DirectSyncRead \/ DirectSyncWrite \/ IngestEthBlock

Tasks ==
    \/ \E s \in Sigs : TaskRead(s) \/ SyncEthAccountBalances(s)
    \/ QueueTokenTasks \/ SyncEthTokenBalance

\* requests of client applications
Clients == SyncAccountBasedBalancesPage \/ \E a \in {Native, Token} : LegacyEthBalances(a)

Redis == MarkerExpires \/ \E a \in {Native, Token} : CacheExpires(a)

Next ==
    \/ Environment \/ Ingesters \/ Tasks \/ Clients \/ Redis
    \/ \E a \in {Native, Token} : GetEthXpubBalances(a)

\* celery workers run every queued task to its end, the ingesters' beat
\* tasks run again, a request being served finishes, and redis expires
\* keys at their TTL; client requests and the node are not forced
Spec ==
    /\ Init /\ [][Next]_vars
    /\ WF_vars(IngestBlock) /\ WF_vars(DirectSyncRead) /\ WF_vars(DirectSyncWrite)
    /\ WF_vars(IngestEthBlock) /\ WF_vars(QueueTokenTasks) /\ WF_vars(SyncEthTokenBalance)
    /\ \A s \in Sigs : WF_vars(TaskRead(s)) /\ WF_vars(SyncEthAccountBalances(s))
    /\ WF_vars(MarkerExpires)
    /\ \A a \in {Native, Token} : WF_vars(CacheExpires(a)) /\ WF_vars(GetEthXpubBalances(a))

-----------------------------------------------------------------------------
(* Properties *)

\* Every answer BalancePage can give is the node's balance of every asset
PageFresh == \A a \in AssetsOf(net) : PageAnswers(a) = {chain[a]}

\* The design accepts eventual consistency of the balances BalancePage
\* reports: a node read written after a newer one (the page's task racing
\* the ingester's direct call or its (address, False) task), a call
\* dropped by QueueOnce while a task that read earlier runs, a
\* reorganisation no ingester sees, an error answer written as 0, and a
\* legacy redis key set after the ingester's delete are all repaired by a
\* later sync or the key's TTL.  If client applications keep calling
\* SyncAccountBasedBalancesPage whenever its marker has expired, then once
\* the node's balances stop changing, BalancePage reports them from some
\* point on, on every ETH path and the token's '0' included.
PageConverges == WF_vars(SyncAccountBasedBalancesPage) => <>[]PageFresh

=============================================================================
