----------------------------- MODULE UtxoAmounts -----------------------------
(***************************************************************************)
(* The amount of a BalanceChange of a UTXO network: map_txs_by_address and *)
(* get_fee of src/ingester/tasks.py, and the four ways their callers feed  *)
(* them: sync_block (one block, no filter), watch_tx (the watched txids,   *)
(* no filter), sync_xpub (the window's addresses in chunks of              *)
(* addr_chunk_size, each chunk its own filter) and watch_addresses (one    *)
(* address as filter).  save_results then writes one BalanceChange per     *)
(* (tracked address, txid) with the amount the map holds.                  *)
(*                                                                         *)
(* An input carries valueSat, an exact integer; an output carries value,   *)
(* the coin amount as the adapter's JSON number.  Values are written here  *)
(* in units of 10^-9 coin, so that the binary error of a parsed float      *)
(* (far below half a satoshi) is visible to the conversion                 *)
(* int(Decimal(value).quantize(Decimal(10) ** -8) * 10 ** 8).              *)
(***************************************************************************)
EXTENDS Integers, Sequences, SequencesExt, FiniteSets, FiniteSetsExt, Functions

CONSTANTS
    AmtAccount,     \* the addresses of one account
    AmtExt,         \* an address of nobody the ledger tracks
    NoAddr,         \* the missing 'addr' of a coinbase or nonstandard input
    AddrChunkSize,  \* addr_chunk_size of sync_xpub
    FundIn          \* valueSat of the funding transaction's one input

AmtAddrs == AmtAccount \cup {AmtExt}

\* an output as the model knows it: its true satoshis, the error of the
\* float the adapter's value parses to, and scriptPubKey.addresses
Output == [addresses : {<<a>> : a \in AmtAddrs} \cup {<<>>},
           sats : {1, 2}, err : {-1, 0}]

\* tx_out['value'] in units of 10^-9 coin
Value(out) == 10 * out.sats + out.err

\* Decimal(value).quantize(Decimal(10) ** -8) * 10 ** 8 under the default
\* context, ROUND_HALF_EVEN, then int()
ToSatoshis(v) ==
    LET q == v \div 10
        r == v % 10
    IN  IF r > 5 \/ (r = 5 /\ q % 2 = 1) THEN q + 1 ELSE q

\* get_fee: the sum of the inputs' valueSat less the sum of the outputs'
\* converted values
GetFee(tx) ==
    FoldLeft(LAMBDA s, i : s + i.valueSat, 0, tx.vin)
      - FoldLeft(LAMBDA s, o : s + ToSatoshis(Value(o)), 0, tx.vout)

\* an empty dict
EmptyMap == [t \in {} |-> 0]

\* txs_by_address[address][txid] = setdefault(txid, 0) + n
Credit(d, a, txid, n) ==
    [d EXCEPT ![a] = (txid :> ((IF txid \in DOMAIN @ THEN @[txid] ELSE 0) + n)) @@ @]

\* txs_by_address[address] = {} when the address has no entry yet
AddKey(d, a) == IF a \in DOMAIN d THEN d ELSE (a :> EmptyMap) @@ d

\* a plausible slip: the input's amount overwrites the txid's entry
\* instead of being subtracted from it
MapTxInOverwrite(d, txid, F, in) ==
    IF in.addr = NoAddr THEN d
    ELSE LET inc == F = {} \/ in.addr \in F
             d1  == IF in.addr \notin DOMAIN d /\ inc THEN AddKey(d, in.addr) ELSE d
         IN  IF (F # {} /\ in.addr \in F) \/ (F = {} /\ in.addr \in DOMAIN d1)
             THEN [d1 EXCEPT ![in.addr] = (txid :> -in.valueSat) @@ @]
             ELSE d1

\* one tx_in of map_txs_by_address: a coinbase input is skipped; the
\* address gets an entry when no filter is given or it is in the filter;
\* its valueSat is subtracted when it is in the filter, or, without one,
\* when it has an entry
MapTxIn(d, txid, F, in) ==
    IF in.addr = NoAddr THEN d
    ELSE LET inc == F = {} \/ in.addr \in F
             d1  == IF in.addr \notin DOMAIN d /\ inc THEN AddKey(d, in.addr) ELSE d
         IN  IF (F # {} /\ in.addr \in F) \/ (F = {} /\ in.addr \in DOMAIN d1)
             THEN Credit(d1, in.addr, txid, -in.valueSat)
             ELSE d1

\* one tx_out: every address of its scriptPubKey that passes the filter is
\* credited the converted value
MapTxOut(d, txid, F, out) ==
    FoldLeft(LAMBDA e, a : IF F = {} \/ a \in F
                           THEN Credit(AddKey(e, a), a, txid, ToSatoshis(Value(out)))
                           ELSE e,
             d, out.addresses)

\* map_txs_by_address(txs, txs_by_address, filter_addresses): every input
\* of a transaction, then every output, transaction after transaction
MapTxsByAddress(txs, d, F) ==
    FoldLeft(LAMBDA e, tx :
                 FoldLeft(LAMBDA e2, o : MapTxOut(e2, tx.txid, F, o),
                          FoldLeft(LAMBDA e1, i : MapTxIn(e1, tx.txid, F, i), e, tx.vin),
                          tx.vout),
             d, txs)

\* save_results: one BalanceChange <<address, txid, amount>> per tracked
\* address and entry of its map
LedgerOf(d, tracked) ==
    UNION {{<<a, t, d[a][t]>> : t \in DOMAIN d[a]} : a \in tracked \cap DOMAIN d}

\* a plausible slip: a second BalanceChange of the same transaction is not
\* merged into the message the first one started
NotifyFirstOnly(L) ==
    FoldLeft(LAMBDA m, bc : IF bc[2] \in DOMAIN m THEN m ELSE (bc[2] :> bc[3]) @@ m,
             EmptyMap, SetToSeq(L))

\* the rabbitTransactions of one save_results call of one account: the
\* first BalanceChange of a txid starts its message, every later one is
\* added to its balance_change
Notify(L) ==
    FoldLeft(LAMBDA m, bc : IF bc[2] \in DOMAIN m
                            THEN [m EXCEPT ![bc[2]] = @ + bc[3]]
                            ELSE (bc[2] :> bc[3]) @@ m,
             EmptyMap, SetToSeq(L))

\* the chunks addresses[x:x + addr_chunk_size] of sync_xpub's window
Chunks(addrs) ==
    [k \in 1..((Len(addrs) + AddrChunkSize - 1) \div AddrChunkSize) |->
        SubSeq(addrs, (k - 1) * AddrChunkSize + 1, Min({k * AddrChunkSize, Len(addrs)}))]

\* the outputs of a transaction that pass scriptPubKey.addresses to a
PaysTo(tx, a) == {k \in DOMAIN tx.vout : tx.vout[k].addresses = <<a>>}

Touches(tx, a) ==
    (\E k \in DOMAIN tx.vin : tx.vin[k].addr = a) \/ PaysTo(tx, a) # {}

\* get_transactions(addrs): the history of the addresses, newest first
AddressHistory(h, addrs) ==
    SelectSeq(<<h[2], h[1]>>, LAMBDA tx : \E a \in addrs : Touches(tx, a))

\* sync_block: each block mapped on its own without a filter, the
\* addresses of the map that Address.objects knows are saved
SyncBlockLedger(h) ==
    UNION {LedgerOf(MapTxsByAddress(<<h[k]>>, EmptyMap, {}), AmtAccount) : k \in 1..2}

\* watch_tx: the watched transactions mapped together without a filter
WatchTxLedger(h) == LedgerOf(MapTxsByAddress(h, EmptyMap, {}), AmtAccount)

\* sync_xpub: chunk after chunk, the chunk's addresses reset to {} and
\* their history mapped with the chunk as filter; then every window
\* address is saved
SyncXpubLedger(h) ==
    LET step(d, c) ==
            MapTxsByAddress(AddressHistory(h, Range(c)),
                            [a \in Range(c) |-> EmptyMap] @@ d, Range(c))
    IN  LedgerOf(FoldLeft(step, EmptyMap, Chunks(SetToSeq(AmtAccount))), AmtAccount)

\* watch_addresses: each address's history with the address as filter
WatchAddressesLedger(h) ==
    UNION {LedgerOf(MapTxsByAddress(AddressHistory(h, {a}), a :> EmptyMap, {a}), {a}) :
               a \in AmtAccount}

-----------------------------------------------------------------------------
(* Histories: a funding transaction from AmtExt paying one or two outputs, *)
(* and a transaction spending one or both of them; every address choice,  *)
(* amount and float error, and only transactions that create no value.    *)

Spend(o) ==
    [addr |-> IF o.addresses = <<>> THEN NoAddr ELSE o.addresses[1], valueSat |-> o.sats]

SumSats(outs) == FoldLeft(LAMBDA s, o : s + o.sats, 0, outs)

TrueFee(tx) == FoldLeft(LAMBDA s, i : s + i.valueSat, 0, tx.vin) - SumSats(tx.vout)

Funding ==
    {[txid |-> 1, vin |-> <<[addr |-> AmtExt, valueSat |-> FundIn]>>, vout |-> outs] :
        outs \in {<<o>> : o \in Output} \cup {<<o, p>> : o, p \in Output}}

Spending(tx1) ==
    {[txid |-> 2, prev |-> s, vin |-> [i \in DOMAIN s |-> Spend(tx1.vout[s[i]])], vout |-> outs] :
        s \in {s \in {<<1>>, <<2>>, <<1, 2>>} : \A i \in DOMAIN s : s[i] \in DOMAIN tx1.vout},
        outs \in {<<>>} \cup {<<o>> : o \in Output}}

Histories ==
    {h \in UNION {{<<tx1, tx2>> : tx2 \in Spending(tx1)} : tx1 \in Funding} :
        TrueFee(h[1]) >= 0 /\ TrueFee(h[2]) >= 0}

\* what a transaction moves to or from the account: the satoshis of its
\* outputs paying the account less the inputs the account signs
AccountFlow(tx) ==
    MapThenSumSet(LAMBDA k : tx.vout[k].sats, UNION {PaysTo(tx, a) : a \in AmtAccount})
      - MapThenSumSet(LAMBDA k : tx.vin[k].valueSat,
                      {k \in DOMAIN tx.vin : tx.vin[k].addr \in AmtAccount})

\* the satoshis of the outputs paying a that no later input spends (prev:
\* the indices of the funding outputs the second transaction spends)
Unspent(h, a) ==
    LET left == PaysTo(h[1], a) \ Range(h[2].prev)
    IN  MapThenSumSet(LAMBDA k : h[1].vout[k].sats, left)
          + MapThenSumSet(LAMBDA k : h[2].vout[k].sats, PaysTo(h[2], a))


\* Whichever task writes the ledger of an account (sync_block, watch_tx,
\* sync_xpub in address chunks, watch_addresses), the BalanceChange rows of
\* each of its addresses sum to the satoshis that address holds unspent,
\* there is one row for exactly the transactions that touch the address,
\* and the fee get_fee stores is the fee the transaction pays: the inputs'
\* exact valueSat and the outputs' float values agree only through the
\* rounding of map_txs_by_address and get_fee.
WritersAgreeWithUtxos ==
    \A h \in Histories :
        /\ \A L \in {SyncBlockLedger(h), WatchTxLedger(h), SyncXpubLedger(h),
                     WatchAddressesLedger(h)} :
               \A a \in AmtAccount :
                   LET mine == {bc \in L : bc[1] = a}
                   IN  /\ MapThenSumSet(LAMBDA bc : bc[3], mine) = Unspent(h, a)
                       /\ {bc[2] : bc \in mine} = {h[k].txid : k \in {k \in 1..2 : Touches(h[k], a)}}
        /\ \A k \in 1..2 : GetFee(h[k]) = TrueFee(h[k])

\* One save_results call of sync_block or watch_tx publishes one message per
\* transaction of the account, whatever number of its addresses the
\* transaction touches, and its balance_change is what the transaction
\* moves to or from the account as a whole (a spend with change to the
\* account's own address is one "send" of the amount that left).
MessagesAgreeWithFlows ==
    \A h \in Histories :
        \A batch \in {<<h[1]>>, <<h[2]>>, h} :
            LET msgs == Notify(LedgerOf(MapTxsByAddress(batch, EmptyMap, {}), AmtAccount))
                mine == {k \in DOMAIN batch : \E a \in AmtAccount : Touches(batch[k], a)}
            IN  /\ DOMAIN msgs = {batch[k].txid : k \in mine}
                /\ \A k \in mine : msgs[batch[k].txid] = AccountFlow(batch[k])

=============================================================================
