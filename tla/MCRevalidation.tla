---------------------------- MODULE MCRevalidation ----------------------------
(* Values for checking Revalidation: v1 and v2 are of one revision.          *)
EXTENDS Revalidation, TLC

CONSTANTS v1, v2, v3

MCRevision == (v1 :> v1) @@ (v2 :> v1) @@ (v3 :> v3)

Alike == Permutations(Contexts) \cup Permutations(Polls)
=============================================================================
