-------------------------- MODULE MissionContract --------------------------
(***************************************************************************)
(* What the control plane promises about missions, without saying how: a   *)
(* mission follows one life cycle, it is held by at most one worker while  *)
(* it is active, a worker holds at most one mission, and it delivers its   *)
(* document in the very step that completes it, once.  There are no        *)
(* attempts, leases, credentials, calls or restarts here.                  *)
(***************************************************************************)
EXTENDS Naturals

CONSTANTS
  Missions,   \* the missions that may ever be created
  Workers,    \* the workers that may hold one
  Versions,   \* the version numbers a delivered document may have
  Nobody      \* not a worker: the holder of a mission that is not active

VARIABLES
  state,      \* mission -> its place in the life cycle, "absent" before creation
  holder,     \* mission -> the worker that holds it, or Nobody
  delivered   \* mission -> the versions delivered for it

vars == <<state, holder, delivered>>

\* A worker holds the mission exactly in these states.
Held == {"running", "cancel_requested"}

Init ==
  /\ state = [m \in Missions |-> "absent"]
  /\ holder = [m \in Missions |-> Nobody]
  /\ delivered = [m \in Missions |-> {}]

Move(m, from, to) ==
  /\ state[m] \in from
  /\ state' = [state EXCEPT ![m] = to]

Release(m) == holder' = [holder EXCEPT ![m] = Nobody]

Create(m)   == Move(m, {"absent"}, "draft") /\ UNCHANGED <<holder, delivered>>
Submit(m)   == Move(m, {"draft"}, "queued") /\ UNCHANGED <<holder, delivered>>
Resubmit(m) == Move(m, {"failed", "interrupted"}, "queued") /\ UNCHANGED <<holder, delivered>>
Withdraw(m) == Move(m, {"draft", "queued", "interrupted"}, "cancelled") /\ UNCHANGED <<holder, delivered>>
AskCancel(m) == Move(m, {"running"}, "cancel_requested") /\ UNCHANGED <<holder, delivered>>

\* The holder closes its mission without a document.
Close(m) ==
  /\ \/ \E s \in {"failed", "interrupted"} : Move(m, {"running"}, s)
     \/ Move(m, {"cancel_requested"}, "cancelled")
  /\ Release(m)
  /\ UNCHANGED delivered

\* The document appears with the completion, never before and never after.
Complete(m) ==
  /\ Move(m, {"running"}, "completed")
  /\ Release(m)
  /\ \E v \in Versions :
       /\ \A k \in Missions : v \notin delivered[k]
       /\ delivered' = [delivered EXCEPT ![m] = {v}]

\* Any set of held missions may be taken back at once.
TakeBack(S) ==
  /\ \A m \in S : state[m] \in Held
  /\ state' = [m \in Missions |-> IF m \in S THEN "interrupted" ELSE state[m]]
  /\ holder' = [m \in Missions |-> IF m \in S THEN Nobody ELSE holder[m]]
  /\ UNCHANGED delivered

\* A worker free of any mission outside S takes a queued one; the missions of
\* S are taken back in the same step.
Assign(S, k, w) ==
  /\ \A m \in S : state[m] \in Held
  /\ state[k] = "queued"
  /\ \A m \in Missions \ S : holder[m] # w
  /\ state' = [m \in Missions |-> IF m = k THEN "running"
                                  ELSE IF m \in S THEN "interrupted" ELSE state[m]]
  /\ holder' = [m \in Missions |-> IF m = k THEN w
                                   ELSE IF m \in S THEN Nobody ELSE holder[m]]
  /\ UNCHANGED delivered

Next ==
  \/ \E m \in Missions :
       \/ Create(m) \/ Submit(m) \/ Resubmit(m) \/ Withdraw(m)
       \/ AskCancel(m) \/ Close(m) \/ Complete(m)
  \/ \E S \in SUBSET Missions :
       \/ TakeBack(S)
       \/ \E k \in Missions, w \in Workers : Assign(S, k, w)

Spec == Init /\ [][Next]_vars
=============================================================================
