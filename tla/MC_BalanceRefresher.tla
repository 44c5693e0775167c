------------------------ MODULE MC_BalanceRefresher ------------------------
EXTENDS BalanceRefresher, TLC

\* every network SyncAccountBasedBalancesPage serves
MCNetworks == PageNetworks

\* EOS: an account-based balance sync the page never queues
MCEosNetworks == {"eos"}

=============================================================================
