----------------------------- MODULE MCManualRun -----------------------------
(* Symmetry of ManualRun for TLC: its actions and properties tell neither    *)
(* sources nor contexts nor runs apart.                                     *)
EXTENDS ManualRun, TLC

Symmetry == Permutations(Sources) \cup Permutations(Contexts) \cup Permutations(Runs)

=============================================================================
