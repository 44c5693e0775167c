---------------------------- MODULE MC_AccountSync ----------------------------
EXTENDS AccountSync

\* index 0 of the receive chain and index 2 of the change chain have history
MCUsed == {<<0, 0>>, <<1, 2>>}

\* the UTXO of each address with history: the two used ones are
\* confirmed, a payment meanwhile is unconfirmed
MCSats(a) == CASE a = <<0, 0>> -> 60000
               [] a = <<1, 2>> -> 25000
               [] OTHER -> 40000

\* one recipient each of 46500 (its change is dust), 20000 with 40
\* OP_RETURN bytes (its change is kept), send_max, two send_max, and
\* 20000 plus 500 (below the dust limit)
To(n) == [max |-> FALSE, amt |-> n]
SendMax == [max |-> TRUE, amt |-> 0]
MCRequests ==
    {[to |-> <<To(46500)>>, opret |-> 0],
     [to |-> <<To(20000)>>, opret |-> 40],
     [to |-> <<SendMax>>, opret |-> 0],
     [to |-> <<SendMax, SendMax>>, opret |-> 0],
     [to |-> <<To(20000), To(500)>>, opret |-> 0]}

=============================================================================
