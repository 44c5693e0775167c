------------------------- MODULE MC_HeightBlockSync -------------------------
EXTENDS HeightBlockSync, TLC

CONSTANTS g, a, b, c, t1, t2, c1, c2

\* a chain without forks, g-a-b-c
MCBlocks == {g, a, b, c}
MCParent == (g :> NoBlock) @@ (a :> g) @@ (b :> a) @@ (c :> b)
MCTxids == {t1, t2}
MCTxsOf == [x \in MCBlocks |-> CASE x = a -> {t1}
                                 [] x = c -> {t2}
                                 [] OTHER -> {}]

=============================================================================
