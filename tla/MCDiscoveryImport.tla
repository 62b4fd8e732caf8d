--------------------------- MODULE MCDiscoveryImport ---------------------------
(* Values for checking DiscoveryImport: keys, payloads and sessions are alike. *)
EXTENDS DiscoveryImport, TLC

Alike == Permutations(Keys) \cup Permutations(Payloads) \cup Permutations(Sessions)
=============================================================================
