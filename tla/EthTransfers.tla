---------------------------- MODULE EthTransfers ----------------------------
(***************************************************************************)
(* What the Ethereum ingester writes to the ledger for one transaction of *)
(* a block: extract_transactions, group_transactions_by_address, enrich    *)
(* and the update_or_create keys of save_eth_transactions in               *)
(* src/ingester/eth/eth_block_ingester.py, as pure operators.              *)
(*                                                                         *)
(* One tracked address Me and one untracked party Other.  A transaction   *)
(* is a record: the raw block transaction (its sender `origin`, `to` and   *)
(* `value`) with what the other sources report for its txid: `internal`    *)
(* transfers (etherscan), `erc20` Transfer logs, at most one `thor`        *)
(* (get_thor_txs), `dex` (get_dex_eth_txs: a WETH deposit or withdrawal of *)
(* a transaction sent to the 0x proxy) and `multisig` (a BitGo Transacted  *)
(* log, from msg.sender) transfer, NoTx when absent, and `zx`: whether it  *)
(* was sent to the 0x proxy, and `success`: the receipt's status.  A       *)
(* reverted transaction has no internal transfers, logs or DEX payout.     *)
(* Amounts are small integers; gas_used * gas_price is the parameter `fee`.*)
(***************************************************************************)
EXTENDS Integers, Sequences, SequencesExt

CONSTANTS Me, Other, Token, NoTx,
          ZxProxy   \* ZX_PROXY_CONTRACT, the 0x exchange proxy

\* the type strings of the ingester
ETH == "ETH"
ERC20 == "ERC20"
BITGO_MULTISIG == "BITGO_MULTISIG"
DEX_ETH_TXS == "DEX_ETH_TXS"
THOR_ETH_TXS == "THOR_ETH_TXS"

\* one entry of the `transactions` list (token and memo are absent, NoTx,
\* where the code leaves them out)
Row(type, t, dexTrade, memo, tx) ==
    [type |-> type, from |-> t.from, to |-> t.to, value |-> t.value,
     token |-> IF type = ERC20 THEN Token ELSE NoTx,
     dex |-> dexTrade, memo |-> memo, origin |-> tx.origin]

\* extract_transactions for one block transaction, in the order the code
\* appends: standard transfer, internal transfers, ERC20 transfers, THOR,
\* DEX, multisig
ExtractTransactions(tx) ==
    LET plain == tx.dex = NoTx /\ tx.thor = NoTx /\ tx.multisig = NoTx
        std == IF plain /\ ~(tx.value = 0 /\ tx.erc20 # <<>>)
               THEN <<Row(ETH, [from |-> tx.origin, to |-> tx.to,
                                value |-> tx.value], FALSE, NoTx, tx)>>
               ELSE <<>>
        int == IF plain
               THEN [i \in DOMAIN tx.internal |->
                        Row(ETH, tx.internal[i], FALSE, NoTx, tx)]
               ELSE <<>>
        memo == IF tx.thor # NoTx THEN TRUE ELSE NoTx
        erc == [i \in DOMAIN tx.erc20 |-> Row(ERC20, tx.erc20[i], tx.zx, memo, tx)]
        thr == IF tx.thor # NoTx /\ tx.erc20 = <<>>
               THEN <<Row(THOR_ETH_TXS, tx.thor, FALSE, TRUE, tx)>> ELSE <<>>
        dx == IF tx.dex # NoTx THEN <<Row(DEX_ETH_TXS, tx.dex, TRUE, NoTx, tx)>>
              ELSE <<>>
        ms == IF tx.multisig # NoTx
              THEN <<Row(BITGO_MULTISIG, tx.multisig, FALSE, NoTx, tx)>>
              ELSE <<>>
    IN std \o int \o erc \o thr \o dx \o ms

\* the filter on known addresses and group_transactions_by_address: the
\* entries of Me, a self send added once
GroupTransactionsByAddress(txs) ==
    SelectSeq(txs, LAMBDA r : r.from = Me \/ r.to = Me)

\* enrich: the balance change of one row for Me (the fee is charged when Me
\* sent the transaction)
BalanceChangeOf(r, fee) ==
    IF r.origin = Me
    THEN CASE r.type = ERC20 ->
                IF r.from = Me /\ r.to = Me THEN 0
                ELSE IF r.from = Me THEN -r.value
                ELSE IF r.to = Me THEN r.value ELSE 0
           [] r.type \in {ETH, BITGO_MULTISIG} ->
                IF r.from = Me /\ r.to = Me THEN -fee
                ELSE IF r.from = Me THEN -(fee + r.value)
                ELSE IF r.to = Me THEN r.value ELSE 0
           [] r.type = DEX_ETH_TXS ->
                IF r.to = Me THEN r.value
                ELSE IF r.from = Me THEN -(fee + r.value) ELSE 0
           [] r.type = THOR_ETH_TXS -> -(fee + r.value)
    ELSE IF r.to = Me THEN r.value ELSE 0

\* enrich: Me sends ether in this transaction
EthSend(txs) ==
    \E i \in DOMAIN txs :
        txs[i].from = Me /\ txs[i].type \in {ETH, DEX_ETH_TXS} /\ txs[i].value > 0

\* enrich: the fee transactions split off ERC20 transfers Me sent, one per
\* transfer, appended after the entries; a copy of the entry taken before
\* erc20_transfer and the token id are set on it
FeeTxs(txs) ==
    LET sent == SelectSeq(txs, LAMBDA r : r.type = ERC20 /\ r.origin = Me)
    IN IF EthSend(txs) THEN <<>>
       ELSE [i \in DOMAIN sent |->
               [sent[i] EXCEPT !.type = "fee", !.token = NoTx, !.memo = NoTx]]

\* mutant: BalanceChange.objects.create, one row per entry
BalanceChangesCreate(tx, fee) ==
    LET txs == GroupTransactionsByAddress(ExtractTransactions(tx))
        all == txs \o FeeTxs(txs)
    IN {<<[token |-> all[i].token, erc20Fee |-> all[i].type = "fee", entry |-> i],
          IF all[i].type = "fee" THEN -fee ELSE BalanceChangeOf(all[i], fee)>> :
        i \in DOMAIN all}

\* save_eth_transactions: the lookup keys of Transaction.update_or_create
\* (account and txid fixed) and the amount of BalanceChange.update_or_create;
\* the set of pairs is what the two get-or-insert calls leave in the ledger
BalanceChanges(tx, fee) ==
    LET txs == GroupTransactionsByAddress(ExtractTransactions(tx))
        Key(r) == [token |-> r.token, erc20Transfer |-> r.type = ERC20,
                   erc20Fee |-> r.type = "fee", dex |-> r.dex,
                   success |-> tx.success, memo |-> r.memo,
                   fee |-> IF r.origin = Me THEN fee ELSE NoTx]
        Amount(r) == IF r.type = "fee" THEN -fee ELSE BalanceChangeOf(r, fee)
    IN {<<Key(r), Amount(r)>> : r \in ToSet(txs \o FeeTxs(txs))}

-----------------------------------------------------------------------------
(* What sync_ethereum_account (src/ingester/tasks.py) writes for the same  *)
(* transaction when it reads Me's history from etherscan instead: the      *)
(* normal, token and internal transaction lists, each entry saved by       *)
(* save_tx with the balance of common/utils/ethereum.py.  An entry carries *)
(* its fee (gasUsed * gasPrice), its token, the thor memo its receipt or   *)
(* input yields, whether it is an ERC20 fee, `origTo` (the `to` of the     *)
(* normal-list transaction of its hash, NoTx when Me's normal list lacks   *)
(* it), `call` (an input longer than 32 characters: a contract call) and   *)
(* `error`: isError is '1' (only a normal-list entry has the field).      *)

\* calculate_ethereum_transaction_fee
CalculateEthereumTransactionFee(e) == e.fee

\* calculate_balance_change: a failed transaction moves no value, but its
\* sender pays the gas
CalculateBalanceChange(e, isErc20Fee) ==
    IF isErc20Fee THEN -CalculateEthereumTransactionFee(e)
    ELSE (IF e.to = Me /\ ~e.error THEN e.value ELSE 0)
         - (IF e.from = Me /\ ~e.error THEN e.value ELSE 0)
         - (IF e.from = Me /\ e.token = NoTx THEN CalculateEthereumTransactionFee(e) ELSE 0)

\* calculate_dex_balance_change; a token-list entry is Me's, so an erc20
\* dex trade that is not a receive is a send
CalculateDexBalanceChange(e, ercDex, withdraw, deposit, isErc20Fee, success) ==
    IF ~success \/ isErc20Fee THEN -CalculateEthereumTransactionFee(e)
    ELSE IF withdraw THEN e.value
    ELSE IF deposit THEN -e.value
    ELSE IF e.to = Me THEN e.value ELSE -e.value

\* save_tx: the Transaction lookup keys and the BalanceChange amount
SaveTx(e) ==
    LET isToken == e.token # NoTx
        ercDex == isToken /\ e.origTo = ZxProxy
        withdraw == ~isToken /\ e.from = ZxProxy /\ e.to = Me
        deposit == ~isToken /\ e.from = Me /\ e.origTo = ZxProxy /\ e.call
        isDex == ercDex \/ withdraw \/ deposit
        amount == IF isDex THEN CalculateDexBalanceChange(e, ercDex, withdraw, deposit,
                                                          e.erc20Fee, ~e.error)
                  ELSE CalculateBalanceChange(e, e.erc20Fee)
    IN <<[token |-> e.token, erc20Transfer |-> isToken, erc20Fee |-> e.erc20Fee,
          dex |-> isDex, success |-> ~e.error, memo |-> e.memo, fee |-> e.fee], amount>>

Mine(r) == r.from = Me \/ r.to = Me

\* gen_get_all_ethereum_transactions: the transaction itself when Me sent
\* it or is its recipient, with isError
NormalTxs(tx) ==
    IF tx.origin = Me \/ tx.to = Me
    THEN <<[from |-> tx.origin, to |-> tx.to, value |-> tx.value, error |-> ~tx.success]>>
    ELSE <<>>

\* gen_get_all_token_transactions: Me's ERC20 transfers
TokenTxs(tx) == SelectSeq(tx.erc20, Mine)

\* gen_get_all_internal_ethereum_transactions: Me's ether transfers made
\* by contracts: the internal ones, a WETH withdrawal paid out through the
\* 0x proxy, a multisig payout and a THORChain router payout
InternalTxs(tx) ==
    LET opt(x) == IF x # NoTx THEN <<x>> ELSE <<>>
        payout == IF tx.thor # NoTx /\ tx.thor.from # Me THEN <<tx.thor>> ELSE <<>>
    IN SelectSeq(tx.internal \o opt(tx.dex) \o opt(tx.multisig) \o payout, Mine)

\* mutant: the ether-sent save keeps the ERC20 fee's gas, charging it twice
SyncBalanceChangesGasKept(tx, fee) ==
    LET origTo == IF NormalTxs(tx) # <<>> THEN tx.to ELSE NoTx
        memo == IF tx.thor # NoTx THEN TRUE ELSE NoTx
        Entry(r, tk, f, isFee, call, m, err) ==
            [from |-> r.from, to |-> r.to, value |-> r.value, token |-> tk, fee |-> f,
             erc20Fee |-> isFee, origTo |-> origTo, call |-> call, memo |-> m,
             error |-> err]
        isFee == TokenTxs(tx) # <<>>
        normal(r) == Entry(r, NoTx, fee, isFee, tx.zx, IF isFee THEN NoTx ELSE memo, r.error)
        again(r) == [normal(r) EXCEPT !.erc20Fee = FALSE]
    IN  {SaveTx(Entry(r, Token, fee, FALSE, FALSE, memo, FALSE)) : r \in ToSet(TokenTxs(tx))}
        \cup {SaveTx(normal(r)) : r \in ToSet(NormalTxs(tx))}
        \cup {SaveTx(again(r)) : r \in {x \in ToSet(NormalTxs(tx)) : x.value > 0}}
        \cup {SaveTx(Entry(r, NoTx, 0, FALSE, FALSE, memo, FALSE)) : r \in ToSet(InternalTxs(tx))}

\* the three loops of sync_ethereum_account for one transaction: token
\* entries (their hash marks the normal entry as the ERC20 fee), normal
\* entries (saved again, with the gas zeroed when it was the fee, when
\* ether was sent) and internal entries (no gas price: fee 0)
SyncBalanceChanges(tx, fee) ==
    LET origTo == IF NormalTxs(tx) # <<>> THEN tx.to ELSE NoTx
        memo == IF tx.thor # NoTx THEN TRUE ELSE NoTx
        Entry(r, tk, f, isFee, call, m, err) ==
            [from |-> r.from, to |-> r.to, value |-> r.value, token |-> tk, fee |-> f,
             erc20Fee |-> isFee, origTo |-> origTo, call |-> call, memo |-> m,
             error |-> err]
        isFee == TokenTxs(tx) # <<>>
        normal(r) == Entry(r, NoTx, fee, isFee, tx.zx, IF isFee THEN NoTx ELSE memo, r.error)
        again(r) == IF isFee THEN [normal(r) EXCEPT !.erc20Fee = FALSE, !.fee = 0]
                    ELSE normal(r)
    IN  {SaveTx(Entry(r, Token, fee, FALSE, FALSE, memo, FALSE)) : r \in ToSet(TokenTxs(tx))}
        \cup {SaveTx(normal(r)) : r \in ToSet(NormalTxs(tx))}
        \cup {SaveTx(again(r)) : r \in {x \in ToSet(NormalTxs(tx)) : x.value > 0}}
        \cup {SaveTx(Entry(r, NoTx, 0, FALSE, FALSE, memo, FALSE)) : r \in ToSet(InternalTxs(tx))}

\* the net amount a set of <<keys, amount>> rows records for a token
Net(bcs, tk) == MapThenSumSet(LAMBDA bc : bc[2], {bc \in bcs : bc[1].token = tk})

=============================================================================
