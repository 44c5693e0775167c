# Model checking watchtower's synchronisation engine

This directory holds TLA+ models of the watchtower sources under `src/`,
the TLC configurations that check them, and `PROJECT.json`, which lists
the components, runs, mutants, the source lines each definition models,
the findings and the hazards.

## The system

watchtower keeps a ledger of `Transaction` and `BalanceChange` rows for
registered accounts on many chains. Its parts and how they interact:

| Part | Source | Role |
|---|---|---|
| UTXO block tracker | `ingester/tasks.py` `sync_blocks`, `sync_block` | celery task run by beat; walks the chain by `nextblockhash` from the latest `ProcessedBlock` |
| Orphan resolver | `tracker/models.py` `ProcessedBlock.invalidate_orphans`, `cleanUpOrphans` | walks back from the latest block while the adapter reports negative confirmations; marks, then deletes the ledger rows of the orphaned block |
| Ledger writer | `ingester/tasks.py` `save_results` | `update_or_create` of one Transaction and one BalanceChange per (address, txid), then one Rabbit message per (xpub, txid) |
| Address-history sync | `sync_xpub`, `watch_addresses`, `watch_tx` | read an address's history from the adapter and hand it to `save_results` |
| Pending repair | `fix_pending_txs` | rewrites the block hash of rows still marked unconfirmed |
| Per-network ingesters | `ingester/eth`, `tendermint`, `xrp`, `fio`, `eos`, `bnb` | height-indexed block polling with their own orphan checks, and a Redis queue for BNB |
| Account registration | `XpubRegistrationPage`, `initial_sync_xpub`, `sync_xpub`, `Account.get_receive_addresses` | registers an HD account, runs the gap-limit scan, hands out fresh addresses |
| API | `api/rest/v1/views.py` | registration, hard refresh, balance-refresh debounce |
| Chain adapter | `common/services/coinquery.py` and the other services | HTTP clients of the nodes |

Every ORM call runs in Django autocommit: there is no `transaction.atomic`
around a block, so a failure between two statements leaves the earlier
ones committed. `update_or_create` locks an existing row, but the insert
after an empty lookup is not guarded: `Transaction` and `BalanceChange`
have no unique constraint. Celery's `QueueOnce` makes sure that at most
one `sync_blocks(network)` runs at a time. Nothing, however, serialises
`sync_blocks` against `sync_xpub`, `watch_addresses` or `fix_pending_txs`.

## Modules

* `Chain.tla`: the chain as the adapter reports it. The `Blocks` form a
  fixed tree (`Parent`), `tip` is the adapter's best block, and `ChainMove`
  replaces it by any other block at most `MaxMoves` times. This covers
  extensions, reorgs and a load-balanced adapter answering from another
  branch. `Canonical`, `LastBlockHash`, `NextHash` and `Location` are the
  adapter calls `get_block_by_hash` (the sign of `confirmations`),
  `get_last_block_hash`, `get_next_block_hash` and the `blockhash` of a
  transaction in an address history.
* `UtxoSync.tla`: the UTXO block tracker with its orphan resolver, the
  ledger writer, an address-history sync and `fix_pending_txs`, as three
  actors over one database.
  - `processed[b]` is the `ProcessedBlock` row of `b` (none, live or
    orphaned).
  - `rows[t][q]` is the Transaction row of `t` inserted by actor `q`. The
    row holds its `block_hash` and its number of BalanceChange rows. A
    txid can have two rows because the insert is not guarded.
  - `pc`, `tcur`, `todo`, `item` and `row` are the actors' positions in
    their loops.
  - Each action is one database statement or one adapter call of the code,
    in the code's order. For example, `InvalidateOrphansCheck` is the
    confirmations check and the `current.save()` that marks the block.
    `CleanUpOrphansBalances` and `CleanUpOrphansTransactions` are the two
    DELETEs, followed by the step to `previous_hash`. `TxLookup`/`TxInsert`
    and `BcLookup`/`BcInsert` are the two halves of each `update_or_create`.
  - `Fail` is an exception at any step. Inside `sync_block` it passes
    through the `except` clause that logs and re-raises (`Raise`). Either
    way the task ends, and nothing is rolled back.
* `MC_UtxoSync.tla`: the instance TLC checks. It has six blocks: `g-a-b-c`
  and a fork `g-a2-b2`. Transaction `t1` is in both `a` and `b2`, so a reorg
  moves it from one block to another; `t2` is only in `b`.
* `ProcessedBlocks.tla`: the `ProcessedBlock` table shared by the
  height-indexed ingesters (`processed[b]` none, live or orphan),
  `ProcessedBlock.latest` as `Latest`, and `LiveChainLinked`.
* `EthTransfers.tla`: pure operators for what the ETH ingester writes for
  one transaction: `extract_transactions` (standard, internal, ERC20, THOR,
  DEX and multisig entries in the code's order),
  `group_transactions_by_address`, `enrich` (balance change per entry, and
  the fee entries split off ERC20 transfers Me sent) and the lookup keys of
  the two `update_or_create` calls of `save_eth_transactions`. Amounts are
  small integers. A transaction carries its receipt status (`success`):
  a reverted one has no internal transfers, logs or DEX payout, and
  `enrich` does not look at the status. Its second half is the other writer of the same ledger,
  `sync_ethereum_account`: the etherscan lists (`NormalTxs`, `TokenTxs`,
  `InternalTxs`, from `common/utils/ethereum.py`), `save_tx` with the
  `calculate_*_balance_change` helpers (`SaveTx`), and the loop that saves
  a transaction that sent ether a second time with its gas zeroed
  (`SyncBalanceChanges`). `calculate_balance_change` honours `isError`:
  a reverted transaction moves no value, and its sender pays the gas. `Net` sums a writer's BalanceChanges per asset.
* `EthBlockSync.tla`: `sync_blocks_eth` (QueueOnce). `PollBlocks` is the
  hash-at-height uncle check of `poll_blocks` with its recursion through
  `CleanUpOrphans`; `FetchBlock`, `SaveEthTransaction` and `RecordBlock` are
  the loop of `process_blocks` (`get_block_at_height`, the ledger writes,
  then `ProcessedBlock` get-or-create/un-orphan). `bcs[t]` holds the
  BalanceChange rows computed by `EthTransfers`; `content[t]` is fixed at
  Init from `MCContents` (a token swap, a token buy, a 0x sale, a payment).
  `Fail` is an exception at any step.
* `HeightBlockSync.tla`: the ingesters that walk a non-forking chain by
  height: `TendermintBlockIngester` (ATOM, RUNE, KAVA, OSMO, SCRT),
  `RippleBlockIngester` (XRP) and `FioBlockIngester` (FIO). The variable
  `net`, fixed at Init from `Networks`, says which one a behaviour runs; the
  three share the `process_blocks` loop (`SaveTransaction`, `RecordBlock`)
  and differ in the poll and fetch steps:
  - Tendermint (`PollBlocks`, `CleanUpOrphans`, `FetchBlock`): a missing
    block or hash at the latest known height orphans it. The node can
    answer with an error object (`MaxErrors`, `MaxPageErrors`), and then
    `get_block_at_height` and `get_block_hash_at_height` return None and
    `get_pages` returns the pages read so far. `RecordBlock` raises on a
    null hash (NOT NULL `block_hash`).
  - XRP (`PollBlocksXrp`, `FetchLedger`): on a missing ledger `poll_blocks`
    calls itself with nothing changed until the recursion limit ends the
    task; `get_transactions_at_height` returns no transactions when its
    own ledger request fails (`LedgerTxsAnswers`).
  - FIO (`PollBlocksFio`, `FetchBlockFio`): no check of the latest known
    block; the loop ends by a KeyError on the node's error answer.
  The node does not fork but can lag (`Lags`: its tip moves back).
  - BNB (`QueueBlockWs`, `WsReconnect`, and per consumer `IngestBlocks`,
    `IngestNoBlock`, `SaveBnbTransaction`, `BnbSaveFails`,
    `RecordBnbBlock`): `queue_blocks_ws` pushes the previous block to the
    Redis list (`queue`) when the next one arrives and forgets it on a
    reconnect; the `ingest_blocks_bnb_*` consumers `lpop` a block, decode
    its transactions (`BlockTxsAnswers`: `[]` on a decode failure), save
    them and record the block. A failing save loses the popped block.
  - Account-based initial sync (`InitialSyncXpub`, `GetAccountAddress`,
    `SyncTendermintAccount`, `SyncRippleAccount`, `SyncFioAccount`,
    `SyncBinanceAccount`, `SaveHistoryTx`): registration of the one
    account, with hard refresh, racing the ingester. The ingesters keep a
    block's transactions only for an address that has a row when they read
    the block (`reg`); the sync creates that row, then reads the node's
    address history (`hist`), which can be partial on error pages
    (Tendermint), empty on an error (XRP) and carries block hash `''`
    (FIO), and writes it with `update_or_create`.
  - EOS (`IngestTxsOverBlockRange`, `GetEosAddress`, `SaveEosTransaction`,
    `SaveEosBalanceChange`, and `SyncEosAccount` on the account side): the
    beat's `ingest_txs_over_block_range(-21, -1)` re-reads the blocks 21 to
    1 below the head (`EosLow`, `EosHigh`) and records no
    `ProcessedBlock`. For each transaction of a registered address it runs
    `Transaction.update_or_create` and writes the BalanceChange only when
    the row was created. When a hard refresh deleted the `Address` row in
    between, that insert fails its foreign key and the run ends
    (`eaddr`). `eosbc` is the set of txids with a BalanceChange.
    `sync_eos_account` reads the history and writes the BalanceChange
    whatever `update_or_create` returned.
* `HeightWalk.tla`: the abstract specification of a height walk: the
  recorded blocks are consecutive heights from the first one recorded, one
  block per height, never taken back. `HeightBlockSync` implements it for
  XRP and FIO (`WalkRefined`, with `recorded` mapped to the live
  `ProcessedBlock`s of those networks).
* `AccountSync.tla`: registration, unregistration, `initial_sync_xpub`
  (soft and hard refresh as two QueueOnce signatures), the windowed
  gap-limit scan of `sync_xpub` step by step (`ScanEnd` is the same scan as
  a RECURSIVE operator), `update_sync_status` with its 15-minute re-entry,
  and `get_receive_addresses`/`get_change_address` calling `sync_xpub`
  inline. `MC_AccountSync` fixes the used addresses: receive index 0 and
  change index 2. `WorkerLost` is the celery worker of an initial sync
  dying anywhere past its check: the task ends with no handler and its
  QueueOnce lock stays until `LockExpires` (the lock's timeout). A client
  may register an account that is stuck SYNCING again (`Stuck`).
  `get_unsigned_tx` for a UTXO network is several actions of the `api`
  worker, one per read that can interleave with a sync: `BuildTx`
  validates the request and reads the first change address
  (`get_change_address`); when no unused one exists the account syncs
  inline (`SyncForChange`) and `BuildRecheck` reads again; `BuildSelect`
  is `Account.get_utxos`, whose second `get_change_address` marks the
  spend-required UTXOs, and `select_utxos` (spend-required UTXOs first,
  then confirmed before unconfirmed, each smallest value first). It then runs
  `create_unsigned_utxo_transaction`, with its dust rule and send_max
  handling. `EstimatedFee` is `get_estimated_fee` with Python's
  round-half-even. The requests (`MCRequests`) are fixed payments,
  send_max, two send_max and a dust payment, against the BTC constants.
* `UtxoAmounts.tla`: the amounts of the UTXO ledger, as pure operators.
  - `MapTxsByAddress` is `map_txs_by_address`, from its input and output
    steps (`MapTxIn`, `MapTxOut`). `GetFee` is `get_fee`. `ToSatoshis` is
    the `Decimal(...).quantize(...)` conversion of an output's float
    value. Values are kept in units of 10^-9 coin, so a float that is one
    unit off is visible to the conversion.
  - The four callers feed the map in different ways:
    - `SyncBlockLedger`: one block, no filter;
    - `WatchTxLedger`: the watched txids, no filter;
    - `SyncXpubLedger`: the window in chunks of `addr_chunk_size`, each
      chunk reset to `{}` and used as the filter;
    - `WatchAddressesLedger`: one address as the filter.
  - `LedgerOf` is the rows `save_results` writes. `Notify` is its merge
    into one Rabbit message per transaction.
  - The inputs (`Histories`) are a funding transaction with one or two
    outputs and a transaction spending one or both of them. They cover
    every choice of account address, foreign address or no address, 1 or
    2 satoshis, and a float error of 0 or -1 units.
  - `WritersAgreeWithUtxos` and `MessagesAgreeWithFlows` state what
    these operators must compute. They hold no state, so
    `MC_UtxoSync` states them as the invariants
    `LedgerBalanceIsUtxoValue` and `NotifiedOncePerTx` of every state in
    which `save_results` runs. TLC evaluates them once, at startup.

* `BalanceRefresher.tla`: the Balance Cache Refresher, for one address
  on each account-based network (`Networks`).
  - `chain[a]` is the node's balance of asset `a` (ether and one token
    on ETH). `Transfer` changes it in a block the ingester sees
    (`pending`); `Revert` changes it with no block, as a reorganisation
    does.
  - `stored[a]` is the `AccountBalance` row (`NoRow` when none). The
    Tendermint, XRP, BNB, FIO and EOS ingesters call their
    `sync_*_account_balances` directly, with no lock
    (`IngestBlock`, `DirectSyncRead`, `DirectSyncWrite`). The node read and
    the `update_or_create` are two steps. Each client's error answer is
    what the code does with it: Gaia raises, XRP's `None` becomes 0,
    BNB, FIO and EOS answer 0, and a transport error (`Failed`) raises.
  - On ETH, `IngestEthBlock` deletes the legacy redis keys of the moved
    assets. It queues `sync_eth_account_balances(address, False)` and,
    for a token transfer, the token task. `SyncAccountBasedBalancesPage`
    queues `sync_eth_account_balances(address)` and sets its 24-hour
    marker. `Queue` is celery_once: a call with the signature of a
    queued or running task is dropped. `ipc`/`tpc` are the tasks'
    positions, `ival`/`tval` what they read.
  - `SyncEthTokenBalance` writes a nonzero token balance and sets an
    existing row to 0, but creates no row for 0 (the `"0"` branch).
  - `LegacyEthBalances` and `GetEthXpubBalances` are BalancePage's
    legacy ETH path: a cache miss reads the node and `setex`es the
    answer for `ETH_BALANCE_TTL` (`cache`, `cttl`, `rval`). An error
    answer of the token endpoint is cached as the string `None`.
    `Reported` is what the AccountBalance readers return for an asset.
  - `EthPaths` are BalancePage.post's feature flags: unchained, else
    local (the AccountBalance rows), else legacy; `ethPath` is fixed at
    Init. `UnchainedGetBalances` and `UnchainedEthBalances` are the
    unchained path (a missing balance reported as '0'). `PageAnswers` is
    what `BalancePage.post` can report for an asset on the path selected.
  - The network `tendermint` stands for ATOM, RUNE and OSMO. KAVA and
    SCRT accounts are not in BalancePage.post's list of account-based
    networks, so the page reports their `final_balance()` over
    BalanceChange rows: their AccountBalance rows are written and never
    read.

## Runs

| Run | Checks | Result |
|---|---|---|
| `utxo_stranded` | `EventuallyConsistent`; block sync alone, 3 moves, 1 failure | violated: a failure inside `sync_block` after some rows are written and before the block is recorded, then a reorg away from it, strands the rows for good |
| `utxo_scan` | `TypeOK`, `LiveChainLinked`, `LedgerBalanceIsUtxoValue`, `NotifiedOncePerTx`; plus one address-history sync and `fix_pending_txs`, 2 moves, 1 failure | pass (1.4M states) |
| `utxo_dup` | `NoDuplicateTxRows` | violated: a block sync and an address sync insert the same Transaction |
| `eth_safety` | `TypeOK`, `OneLivePerHeight`, `Erc20FeeRecordedOnce`; 4 moves, 2 failures, seven kinds of transaction | pass (2.6M states) |
| `eth_history` | `HistoryAgreesWithIngester` | violated: the ingester debits a reverted ether send its value, `sync_ethereum_account` only its gas |
| `eth_parent` | `LiveChainLinked` | violated: `process_blocks` never compares a new block's `parentHash` with the latest known block |
| `height_safety` | `TypeOK`, `LiveBlocksComplete`, `EosRowsPaired`, `NoHeightSkipped`, `WalkRefined`; Tendermint, XRP, FIO, BNB (2 consumers) and EOS, each with one registration racing the ingester, lagging node, 3 moves, 1 error answer or failure | pass (273k states) |
| `tm_errors` | `EventuallyComplete`; Tendermint alone, 3 moves, 1 error answer | violated: one error answer during `poll_blocks` orphans the latest block and tracking restarts at the node's tip, skipping heights |
| `account` | `TypeOK`, `SyncingRecovers`, `UnsignedTxBalanced`; 1 registration (more for a stuck account), an unregistration, an exception or a worker death, an address request, a payment | pass (635k states) |
| `account_complete` | `CompleteMeansScanned` | violated: a soft and a hard-refresh registration both pass the SYNCING check |
| `account_reuse` | `IssuedAddressesFresh` | violated: an address request during the initial sync hands out an address with history |
| `balance` | `TypeOK`, `PageConverges`; the five networks the page serves, ETH on its three page paths, one chain change, one error answer | pass (278k states) |

`MC_UtxoSync_live.cfg` is kept beside the runs: it checks
`LiveChainLinked`, `LiveBlocksComplete` and `EventuallyConsistent` for
the block sync alone (3 moves, no failures) and passes (5.4k states).
Two more configurations are kept beside the runs, each showing a
property violated:

* `MC_UtxoSync_resurrect.cfg`: `EventuallyCaughtUp` (the tracker's
  frontier reaches the tip for good) fails, because
  `ProcessedBlock.get_or_create` returns an orphaned row unchanged, so a
  block that is canonical again stays orphaned; spec.md says it is
  un-orphaned in place.
* `MC_BalanceRefresher_eos.cfg`: `PageConverges` fails for EOS, because
  `SyncAccountBasedBalancesPage` has no EOS branch: an error answer 0
  written by the initial sync is never repaired.

What the properties say:

* `LiveChainLinked`: the non-orphaned `ProcessedBlock`s form one hash
  chain. `invalidate_orphans` and `poll_blocks` depend on this when they
  check only the latest block.
* `LiveBlocksComplete`: a recorded, canonical block has all its tracked
  transactions in the ledger under its own hash. In `HeightBlockSync` it
  is stated once the account's initial sync is done (`Synced`), for every
  network and both orders of registration and block ingestion.
* `EventuallyConsistent`: once the chain stops moving, every row names the
  block that holds its transaction, and every transaction of a canonical
  block from the lowest live `ProcessedBlock` upwards has a row.
* `OneLivePerHeight`: at most one non-orphaned `ProcessedBlock` per height.
* `Erc20FeeRecordedOnce`: however many fee entries `enrich` splits off a
  token swap, the ledger holds one fee BalanceChange for the transaction,
  also when it is ingested again in another block after a reorg.
* `EventuallyComplete`: once the node stops moving, every height from the
  first recorded block to the tip has its transactions in the ledger.
* `NoHeightSkipped`: the same for the XRP and FIO walks, which never
  orphan a block, under lag and error answers.
* `WalkRefined`: the XRP and FIO ingesters implement `HeightWalk`: no
  step records a block out of height order or takes one back.
* `SyncingRecovers`: sync_status is stale-recoverable (spec.md): if
  clients keep registering, an account marked SYNCING, also by a task
  whose worker died, is eventually no longer SYNCING or deleted. It
  depends on the 15-minute re-entry of `initial_sync_xpub` and on the
  QueueOnce lock's timeout.
* `CompleteMeansScanned`: an idle COMPLETE account stores every address
  the gap-limit scan derives.
* `IssuedAddressesFresh`: the API hands out only addresses without history.
* `UnsignedTxBalanced`: an unsigned transaction pays its outputs and its
  reported fee out of its inputs. Beyond that fee, the miners get only the
  change dropped as dust. No output is below the dust limit.
* `HistoryAgreesWithIngester` (`eth_history`, violated): for each kind
  of Ethereum transaction, successful or reverted,
  `sync_ethereum_account` records the same net per asset as the
  ingester. It holds for the successful kinds, even though the history
  sync saves a transaction that sent ether twice, and fails for a
  reverted send.
* `EosRowsPaired`: once the EOS account is synced and no ingester run is
  in progress, every Transaction row has its BalanceChange.
* `LedgerBalanceIsUtxoValue`: whichever of the four tasks writes a UTXO
  account's ledger, the following hold:
  - each address's BalanceChanges sum to the satoshis it holds unspent;
  - there is a row for exactly the transactions that touch the address;
  - the stored fee is the fee paid, even though inputs (exact `valueSat`)
    and outputs (float `value`) meet only through the rounding.
* `NotifiedOncePerTx`: one `save_results` call of `sync_block` or
  `watch_tx` publishes one message per transaction of the account. The
  message carries the account's net, so a spend with change is one "send"
  of what left.
* `PageConverges`: if clients keep calling
  `SyncAccountBasedBalancesPage`, everything BalancePage can report for
  the address eventually is the node's balance for good (`PageFresh`),
  for each network the page serves (ETH, tendermint, BNB, XRP, FIO),
  whatever races of the page's task, the ingester's task and the direct
  syncs left in the `AccountBalance` rows, on each of the three ETH paths.
  Without the hypothesis it is false: a reorganisation no ingester reads
  leaves the row stale, which spec.md's "eventual consistency" accepts.

The findings of the violation runs, with the source line of each, are in
`PROJECT.json`.

Each property of a passing run has a mutant in `PROJECT.json`: an
operator next to the definition it replaces, modelling a plausible bug,
which TLC must find violating it:

* `BcLookupCreate`: `BalanceChange.objects.create` instead of
  `update_or_create`.
* `SyncBlocksHeadFallback`: falls back to `get_last_block_hash()`.
* `SyncBlockWithoutSave`: `sync_block` records the block without saving
  its transactions.
* `CleanUpOrphansUnmarked`: the cleanup runs before the block is marked.
* `FetchBlockSkipMissing`, `FetchBlockPastMissing`: the fetch loop goes on
  past a height the node has no block for.
* `PollBlocksFromLatest`: `process_blocks` starts at the latest known
  height instead of the one above it.
* `BalanceChangesCreate`: one BalanceChange per entry, created.
* `RecordBlockNullHash`: a nullable `block_hash` column.
* `PollBlocksXrpResume`: on a missing ledger, `poll_blocks` jumps to the
  node's latest height instead of retrying.
* `PollBlocksFioFromTip`: FIO tracking restarts at the node's latest height
  on every poll.
* `SyncXpubAddressesMaxReset`: `max_idx` reset for every window.
* `InitialSyncCheckNoTimeout`: the SYNCING check skips a registration
  however old the status is (no 15-minute re-entry).
* `BuildTxAnyMax`: `send_max` is honoured whatever the number of
  recipients.
* `SaveHistoryTxGated`: `sync_eos_account` writes the BalanceChange only
  for a row it created, like the ingester does.
* `MapTxInOverwrite`: an input's amount overwrites the txid's entry
  instead of being subtracted from it.
* `NotifyFirstOnly`: a second BalanceChange of a transaction is not merged
  into its message.
* `SyncXrpAccountBalancesNoneKept`: XRP's None answer is written as the
  balance.
* `SyncEthTokenBalanceNoZero`: a zero token balance never updates the
  row.

## Bounds and fairness

* **Chain:** three moves are enough for extension, a reorg to the fork and
  a return to the first branch (the resurrection case); the ETH and
  Tendermint runs use four. Runs with the address-history sync use two
  moves to stay within a few minutes.
* **Failures and error answers:** up to two; one already reaches every
  "failed between two statements" state.
* **BNB:** two of the three consumers, enough for two pops to race.
  `height_safety` sets `MaxPageErrors = 0`, so a decode failure is not
  checked there (it records a block with no transactions, listed as a
  hazard).
* **Account initial syncs in `HeightBlockSync`:** one (`MaxSyncs`), plus
  the account already synced at Init.
* **Address-history syncs:** one, because one sync racing the tracker
  already produces duplicate rows.
* **Accounts:** one account, gap limit 2, one registration
  (`MaxRegs`, soft or hard) plus the registrations of a stuck account,
  one of each other request, and one exception or worker death
  (`MaxFails`): every pair of workers can interleave, and the complete
  run uses two registrations.
* **Ingester fairness:** weak fairness on the ingester's steps. Celery beat
  runs the sync tasks again forever and a started task keeps going.
* **Other fairness:** weak fairness on the steps of a started
  account-based initial sync (a QueueOnce task runs to its end); weak fairness on a started address sync's
  `save_results`, on `fix_pending_txs` (its beat schedule is configuration
  and is assumed enabled) and on every started account worker; on a dead
  worker's lock expiring (redis enforces the QueueOnce timeout) and on
  the fifteen minutes passing (`Age`). A worker death is not fair, and
  `SyncingRecovers` states the clients' registrations as its hypothesis.
* **EOS range:** `EosLow = 21` and `EosHigh = 1`, the beat's arguments.
  The blocks of `MC_HeightBlockSync` are within 21 heights of any tip, so
  every beat re-reads every block below the tip. The tip itself is read
  only once a block is mined above it.
* **UTXO amounts:** the account has three addresses and chunks of two, so
  `sync_xpub`'s chunks split it. Outputs of 1 or 2 satoshis, with one or
  two per transaction, are enough to spend two outputs of one address in
  one transaction. That case is where the `setdefault` accumulation
  matters. It also allows a spend with change back to the account. A
  float error of one unit below is where truncation instead of rounding
  loses a satoshi.
* **Balances:** amounts 0 and 1, one chain change (`MaxChanges`) and one
  error answer (`MaxFails`) in all: one change is what a task can read
  before another task writes, and one error answer reaches every
  "written as 0" path. The five networks the page serves run in one
  model; EOS runs alone in `MC_BalanceRefresher_eos.cfg`.
* **Balance fairness:** weak fairness on the celery workers' steps, the
  ingesters and the redis TTLs (a key expires). Client requests
  (`SyncAccountBasedBalancesPage` and the legacy page) are not fair;
  `PageConverges` states the page's fairness as its hypothesis.
* **No fairness:** chain moves, requests and failures are not assumed to
  happen.

## Hazards

`PROJECT.json` lists the hazards of the code, each at its line, with the
properties that cover it. Among those no run checks yet:

* A row written by an address-history sync keeps the `blockhash` it read
  (`save_results`, tasks.py:929). When that block is orphaned before the
  tracker records it, `cleanUpOrphans` never deletes the row and
  `fix_pending_txs` only repairs null hashes. TLC finds
  `EventuallyConsistent` violated in 21 states with one scan under the
  `MC_UtxoSync_live.cfg` bounds.
* A node whose address history lags behind the block it served the
  ingester: a block filtered out before the account's row existed and
  missing from the history read is never written. `Synced` excludes such
  behaviours; without that condition TLC finds `LiveBlocksComplete`
  violated in 11 states.
* A websocket reconnect of `queue_blocks_ws` loses blocks, and a failing
  `save_bnb_transactions` loses the popped block: modelled, but no
  liveness property is stated for BNB.
* The XRP empty-ledger case and the BNB decode failure (checked only with
  `MaxPageErrors = 0`), FIO's reversible head and its `''` history hashes,
  and the unchained consumer.
* `sync_ethereum_account` and the ETH ingester writing the same received
  transaction: their Transaction keys differ in `fee` (the sender's gas
  against None), so the ledger counts it twice. `EthTransfers` shows that
  the two writers' nets agree for a successful transaction (and
  `eth_history` that they differ for a reverted send). The overlap itself needs both writers in
  one behaviour, which `EthBlockSync` does not have.
* An EOS transaction row left without its BalanceChange by a worker killed
  between the two writes, with no sync afterwards.
* The legacy ETH cache: a `setex` of a balance read before a
  transaction lands after the ingester's delete and is served until
  `ETH_BALANCE_TTL`. `BalanceRefresher` models it; no property states
  how long a stale balance is served.
* An EOS balance written as 0 by an error answer: the page never
  resyncs EOS (`MC_BalanceRefresher_eos.cfg`).

## What is not modelled

`PROJECT.json` lists each component with its status and reason:

* **EOS amounts, `_ingest_block`:** EOS amounts are abstracted to the
  presence of a BalanceChange. `_ingest_block` is never called. BNB's
  `queue_blocks` (a REST walk) is never called either, and is not
  modelled.
* **Bare-multisig outputs:** an output whose `scriptPubKey` lists several
  addresses credits each of them its full value. The insight adapter
  reports the input that spends such an output without an `addr`, so no
  address is debited. `Histories` gives an output at most one address,
  because the wallet never builds such outputs to its own keys.
* **The Rabbit key `xpub + txid`:** one account per network is modelled,
  so two accounts that share an xpub under different script types are not
  merged into one message here.
* **Amounts of the XRP, FIO and Tendermint ingesters:** `parse_transactions`
  and `enrich` are abstracted to the set of tracked txids of a block. While
  reading them: FIO's `enrich` reads `tx['value']`, which `format_tx` always
  sets to 0, so every FIO balance change is 0.
* **Unchained consumer:** `ingest_unchained_events` calls
  `unchained_event_ingester.process_events()`, a name the module does not
  define (it is a method of `UnchainedEventIngester`), so the command
  stops with an AttributeError before it consumes anything. Were it
  fixed, `process_one`'s retry after a failed BalanceChange insert would
  insert the Transaction again, and an ack after a reject is refused by
  the broker.
* **Read API beyond balances:** transaction lists, balance history, xpub
  status and assets format rows and change nothing. The WETH fallback of
  `UnchainedClient.get_balances` (a web3 call for a token named WETH) is
  left out.
* **Address-history paging:** a page of an address history read while
  the history changes (`coinquery.get_transactions`) can repeat an item,
  and `map_txs_by_address` then adds its amount twice. `UtxoAmounts`
  reads a history as one snapshot.
* **Thor memo and thorchain lookups of a message, the ingesters' own
  messages, broadcast.**
* Out of reach for a model checker: key derivation, HTTP clients, JSON
  formatting, Django admin, migrations and the Rabbit logger.
