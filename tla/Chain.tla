-------------------------------- MODULE Chain --------------------------------
(***************************************************************************)
(* The blockchain of one network, as the chain adapter (CoinQuery / a node *)
(* behind it) reports it.  Blocks form a fixed tree given by Parent; the   *)
(* adapter's view of the canonical chain is the path from `tip` back to    *)
(* the genesis block.  `tip` moves arbitrarily (extension, reorg, or a     *)
(* load-balanced request answered by a node on another branch), at most    *)
(* MaxMoves times so that the chain eventually stops changing.             *)
(***************************************************************************)
EXTENDS Naturals, FiniteSets

CONSTANTS
    Blocks,     \* block hashes (model values)
    Parent,     \* Parent[b]: previousblockhash of b, NoBlock for genesis
    Genesis,    \* the root of the block tree
    NoBlock,    \* "no block": a missing nextblockhash / previousblockhash
    Pending,    \* the adapter's null blockhash of an unconfirmed transaction
    Txids,      \* transactions touching tracked addresses
    TxsOf,      \* TxsOf[b]: the tracked transactions included in block b
    MaxMoves    \* bound on the number of changes of the canonical chain

ASSUME /\ Parent \in [Blocks -> Blocks \cup {NoBlock}]
       /\ Genesis \in Blocks /\ Parent[Genesis] = NoBlock
       /\ TxsOf \in [Blocks -> SUBSET Txids]
       /\ MaxMoves \in Nat

VARIABLES
    tip,        \* the adapter's current best block
    moves       \* number of chain changes so far

chainVars == <<tip, moves>>

\* previousblockhash chain of b, b included
RECURSIVE AncestorsOf(_)
AncestorsOf(b) == IF b = NoBlock THEN {} ELSE {b} \cup AncestorsOf(Parent[b])

\* block height, counting the genesis block as height 1
Height[b \in Blocks] == IF Parent[b] = NoBlock THEN 1 ELSE Height[Parent[b]] + 1

\* get_block_by_hash(b)['confirmations'] >= 0: b is on the adapter's main chain
Canonical(b) == b \in AncestorsOf(tip)

\* get_last_block_hash()
LastBlockHash == tip

\* get_next_block_hash(b): the nextblockhash of b, which the node only
\* reports for a main-chain block that is not the tip
NextHash(b) ==
    IF Canonical(b) /\ b # tip
    THEN CHOOSE c \in Blocks : Parent[c] = b /\ Canonical(c)
    ELSE NoBlock

\* the node's block at height n (getBlock(n), the block at a height of a
\* Tendermint or XRP node), NoBlock above the tip
BlockAtHeight(n) ==
    IF \E b \in AncestorsOf(tip) : Height[b] = n
    THEN CHOOSE b \in AncestorsOf(tip) : Height[b] = n
    ELSE NoBlock

\* the blockhash the adapter reports for transaction t in an address history
Location(t) ==
    IF \E b \in Blocks : Canonical(b) /\ t \in TxsOf[b]
    THEN CHOOSE b \in Blocks : Canonical(b) /\ t \in TxsOf[b]
    ELSE Pending

ChainInit ==
    /\ tip = Genesis
    /\ moves = 0

\* the canonical chain changes: the tip is extended or replaced by another
\* branch
ChainMove ==
    /\ moves < MaxMoves
    /\ tip' \in Blocks \ {tip}
    /\ moves' = moves + 1

=============================================================================
