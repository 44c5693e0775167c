--------------------------- MODULE MC_EthBlockSync ---------------------------
EXTENDS EthBlockSync, TLC

CONSTANTS g, a, b, c, a2, b2, t1, t2, proxy

\* a chain g-a-b-c with a fork g-a2-b2 that is one block shorter
MCBlocks == {g, a, b, c, a2, b2}
MCParent == (g :> NoBlock) @@ (a :> g) @@ (b :> a) @@ (c :> b)
                @@ (a2 :> g) @@ (b2 :> a2)
MCTxids == {t1, t2}
\* t1 is mined in a on one branch and in b2 on the other
MCTxsOf == [x \in MCBlocks |-> CASE x = a -> {t1}
                                 [] x = b -> {t2}
                                 [] x = b2 -> {t1}
                                 [] OTHER -> {}]

\* a block transaction of the tracked address's history
MCTx(origin, to, value, erc20, dex, success) ==
    [success |-> success, origin |-> origin, to |-> to, value |-> value, internal |-> <<>>,
     erc20 |-> [i \in DOMAIN erc20 |-> [from |-> erc20[i][1], to |-> erc20[i][2], value |-> 1]],
     zx |-> to = proxy, thor |-> NoTx, dex |-> dex, multisig |-> NoTx]

\* a token-for-token swap Me sends (two ERC20 transfers, no ether), tokens
\* bought with ether, tokens sold for ether through the 0x proxy, and a
\* plain ether payment to Me, an ether payment Me sends that reverts, a
\* swap Me sends through the THORChain router and a BitGo multisig payout
\* to Me another signer sends
MCContents ==
    { MCTx(Me, Other, 0, <<<<Me, Other>>, <<Other, Me>>>>, NoTx, TRUE),
      [MCTx(Me, Other, 1, <<>>, NoTx, TRUE)
           EXCEPT !.thor = [from |-> Me, to |-> Other, value |-> 1]],
      [MCTx(Other, Other, 0, <<>>, NoTx, TRUE)
           EXCEPT !.multisig = [from |-> Other, to |-> Me, value |-> 1]],
      MCTx(Me, Other, 1, <<<<Other, Me>>>>, NoTx, TRUE),
      MCTx(Me, proxy, 0, <<<<Me, Other>>>>, [from |-> proxy, to |-> Me, value |-> 1], TRUE),
      MCTx(Other, Me, 1, <<>>, NoTx, TRUE),
      MCTx(Me, Other, 1, <<>>, NoTx, FALSE) }
=============================================================================
