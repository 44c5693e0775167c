----------------------------- MODULE MC_UtxoSync -----------------------------
(***************************************************************************)
(* A block tree with two branches off the genesis block g:                 *)
(*     g <- a <- b <- c        (branch X)                                  *)
(*     g <- a2 <- b2           (branch Y)                                  *)
(* Transaction t1 is mined in a on X and again in b2 on Y (at another      *)
(* height); t2 only in b on X.  With three chain moves the tip can go to   *)
(* X, over to Y, and back to X, so blocks are orphaned and re-observed.    *)
(***************************************************************************)
EXTENDS UtxoSync, UtxoAmounts, TLC

CONSTANTS g, a, b, c, a2, b2, t1, t2, ad1, ad2, ad3

\* three addresses of an account, so that sync_xpub's chunks of two
\* split them
MCAmtAccount == {ad1, ad2, ad3}

MCBlocks == {g, a, b, c, a2, b2}
MCParent == (g :> NoBlock) @@ (a :> g) @@ (b :> a) @@ (c :> b)
            @@ (a2 :> g) @@ (b2 :> a2)
MCTxids == {t1, t2}
MCTxsOf == [x \in MCBlocks |-> CASE x = a  -> {t1}
                                 [] x = b  -> {t2}
                                 [] x = b2 -> {t1}
                                 [] OTHER  -> {}]
\* save_results is running in the tracker's sync_block or in an
\* address-history sync
SaveResultsRunning ==
    \E p \in Procs : pc[p] \in {"txLookup", "txInsert", "bcLookup", "bcInsert"}

\* Whenever save_results runs, the BalanceChange rows it writes are those of
\* UtxoAmounts, whichever task feeds it (sync_block, watch_tx, sync_xpub in
\* address chunks, watch_addresses): each address's rows sum to the
\* satoshis it holds unspent, there is a row for exactly the transactions
\* that touch it, and the fee get_fee stores is the fee paid.
LedgerBalanceIsUtxoValue == SaveResultsRunning => WritersAgreeWithUtxos

\* Whenever save_results of sync_block or watch_tx runs, the messages it
\* publishes are one per transaction of the account, with the account's
\* net amount.
NotifiedOncePerTx == SaveResultsRunning => MessagesAgreeWithFlows
=============================================================================
