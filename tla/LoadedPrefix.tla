---------------------------- MODULE LoadedPrefix ----------------------------
(***************************************************************************)
(* What batch delivery promises of a database, however often its client is  *)
(* interrupted: it belongs to one plan for ever, and it holds the batches   *)
(* of that plan in order, each once, growing one whole batch at a time.     *)
(***************************************************************************)
EXTENDS Naturals, Sequences

CONSTANTS
  Plans,   \* the plans a database may be loaded with: sequences of batches
  NoPlan   \* not a plan: nothing was started yet

VARIABLES
  plan,    \* the plan the database belongs to
  loaded   \* the batches whose statements it has executed, in that order

Init == plan = NoPlan /\ loaded = <<>>

Adopt == plan = NoPlan /\ plan' \in Plans /\ UNCHANGED loaded

Grow ==
  /\ plan \in Plans
  /\ Len(loaded) < Len(plan)
  /\ loaded' = Append(loaded, plan[Len(loaded) + 1])
  /\ UNCHANGED plan

Next == Adopt \/ Grow

Spec == Init /\ [][Next]_<<plan, loaded>>
=============================================================================
