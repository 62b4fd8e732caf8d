--------------------------- MODULE MCBenchCampaign ---------------------------
(* Values for checking BenchCampaign.                                         *)
EXTENDS BenchCampaign, TLC

MCEngines == <<"postgresql", "surrealdb">>

\* Controller processes are told apart by nothing.
Alike == Permutations(Attempts)
=============================================================================
