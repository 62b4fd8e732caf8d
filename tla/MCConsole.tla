----------------------------- MODULE MCConsole -----------------------------
(* Values for model-checking Console: those of the control plane. *)
EXTENDS Console, MCControlPlane
=============================================================================
