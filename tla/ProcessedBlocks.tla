--------------------------- MODULE ProcessedBlocks ---------------------------
(***************************************************************************)
(* The ProcessedBlock table of one network (src/tracker/models.py), shared *)
(* by every block ingester: one row per block hash, live or orphaned.      *)
(***************************************************************************)
EXTENDS Chain

VARIABLE
    processed   \* processed[b]: the ProcessedBlock row of b: none, live, orphan

BlockStates == {"none", "live", "orphan"}

Live == {b \in Blocks : processed[b] = "live"}

\* ProcessedBlock.latest(network): the non-orphaned block of greatest height
Latest == {b \in Live : \A c \in Live : Height[c] <= Height[b]}

\* The non-orphaned ProcessedBlock rows form one hash chain: of two live
\* blocks at consecutive heights, the upper one's previous_hash is the lower
\* one.  Orphan detection looks only at the latest block and walks back
\* from it, so a live block off this chain is never looked at again.
LiveChainLinked ==
    \A x, y \in Live : Height[y] = Height[x] + 1 => Parent[y] = x

=============================================================================
