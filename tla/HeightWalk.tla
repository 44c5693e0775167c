------------------------------ MODULE HeightWalk ------------------------------
(***************************************************************************)
(* What a block ingester that walks a chain by height promises, with no   *)
(* node call, retry, task boundary or database write in it: the recorded  *)
(* blocks are the heights from the first one recorded upwards, with no    *)
(* gap, one block per height, and nothing recorded is ever taken back.   *)
(* The node's chain (Chain) moves as it likes meanwhile.                  *)
(***************************************************************************)
EXTENDS Chain

VARIABLE
    recorded    \* the blocks recorded, in the order of their heights

walkVars == <<chainVars, recorded>>

\* the height of the highest recorded block, 0 before the first
TopHeight ==
    IF recorded = {} THEN 0
    ELSE CHOOSE h \in {Height[b] : b \in recorded} :
             \A b \in recorded : Height[b] <= h

WalkInit ==
    /\ ChainInit
    /\ recorded = {}

\* block b is recorded: the first block anywhere, every later one at the
\* next height
Record(b) ==
    /\ b \notin recorded
    /\ recorded = {} \/ Height[b] = TopHeight + 1
    /\ recorded' = recorded \cup {b}
    /\ UNCHANGED chainVars

WalkNext ==
    \/ \E b \in Blocks : Record(b)
    \/ ChainMove /\ UNCHANGED recorded

WalkSpec == WalkInit /\ [][WalkNext]_walkVars

=============================================================================
