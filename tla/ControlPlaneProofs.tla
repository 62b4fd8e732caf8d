------------------------ MODULE ControlPlaneProofs ------------------------
(* Proofs about ControlPlane, for every value of its constants. *)
EXTENDS ControlPlane, TLAPS

USE ConstantsAssumption DEF ConstantsAssumption

\* Fencing a set of attempts keeps the three tables it writes well typed.
LEMMA FenceType ==
  ASSUME TypeOK, NEW S \in SUBSET AttemptId
  PROVE  /\ AttemptsFenced(S) \in [AttemptId -> AttemptRow]
         /\ MissionsFenced(S) \in [Missions -> {"absent"} \cup STATES]
         /\ TasksFenced(S) \in [Missions -> TaskRow]
<1>1. AttemptsFenced(S) \in [AttemptId -> AttemptRow]
  BY DEF AttemptsFenced, TypeOK, AttemptRow, STATES
<1>2. MissionsFenced(S) \in [Missions -> {"absent"} \cup STATES]
  BY DEF MissionsFenced, TypeOK, STATES
<1>3. TasksFenced(S) \in [Missions -> TaskRow]
  BY DEF TasksFenced, TypeOK, TaskRow, STATES
<1> QED
  BY <1>1, <1>2, <1>3

LEMMA FenceStepType ==
  ASSUME TypeOK, NEW S \in SUBSET AttemptId, Fence(S)
  PROVE  /\ attempts' \in [AttemptId -> AttemptRow]
         /\ missions' \in [Missions -> {"absent"} \cup STATES]
         /\ tasks' \in [Missions -> TaskRow]
  BY FenceType DEF Fence

LEMMA InitType == Init => TypeOK
<1> SUFFICES ASSUME Init PROVE TypeOK
  OBVIOUS
<1>1. workers \in [Workers -> WorkerRow]
  BY DEF Init, WorkerRow
<1>2. needs \in [Missions -> Capabilities]
  BY DEF Init, Workers
<1>3. tasks \in [Missions -> TaskRow]
  BY DEF Init, TaskRow
<1>4. attempts \in [AttemptId -> AttemptRow]
  <2>1. NoAttempt \in AttemptRow
    BY DEF NoAttempt, AttemptRow
  <2> QED
    BY <2>1 DEF Init
<1>5. missions \in [Missions -> {"absent"} \cup STATES] /\ tries \in [Missions -> 0..MaxAttempts]
  BY DEF Init
<1>6. clock \in 0..MaxClock /\ version \in 0..VersionLimit
  BY DEF Init
<1>7. up \in BOOLEAN /\ results \subseteq ResultRow /\ calls \subseteq AdminCall \cup ClaimCall \cup FinishCall
  BY DEF Init
<1> QED
  BY <1>1, <1>2, <1>3, <1>4, <1>5, <1>6, <1>7 DEF TypeOK

LEMMA StepType == TypeOK /\ [Next]_vars => TypeOK'
<1> SUFFICES ASSUME TypeOK, [Next]_vars PROVE TypeOK'
  OBVIOUS
<1>a. Active \in SUBSET AttemptId /\ Overdue \in SUBSET AttemptId
  BY DEF Active, Overdue
<1>b. \A w : {a \in Active : attempts[a].worker = w} \in SUBSET AttemptId
  BY <1>a
<1>1. CASE Expire
  BY <1>1, <1>a, FenceStepType DEF Expire, TypeOK
<1>2. CASE Upload
  BY <1>2 DEF Upload, TypeOK
<1>3. CASE Stop
  BY <1>3 DEF Stop, TypeOK
<1>4. CASE Start
  BY <1>4, <1>a, FenceStepType DEF Start, TypeOK
<1>5. CASE Tick
  BY <1>5 DEF Tick, TypeOK
<1>6. ASSUME NEW m \in Missions, NEW k \in Capabilities, CreateMission(m, k) PROVE TypeOK'
  BY <1>6 DEF CreateMission, TypeOK, STATES
<1>7. ASSUME NEW m \in Missions, Approve(m) PROVE TypeOK'
  BY <1>7 DEF Approve, Eligible, TypeOK, STATES, TaskRow, Workers
<1>8. ASSUME NEW m \in Missions, Cancel(m) PROVE TypeOK'
  <2>1. attempts' \in [AttemptId -> AttemptRow]
    BY <1>8 DEF Cancel, TypeOK, AttemptRow, STATES
  <2>2. tasks' \in [Missions -> TaskRow]
    BY <1>8 DEF Cancel, TypeOK, TaskRow, STATES
  <2>3. missions' \in [Missions -> {"absent"} \cup STATES]
    BY <1>8 DEF Cancel, TypeOK, STATES
  <2> QED
    BY <1>8, <2>1, <2>2, <2>3 DEF Cancel, End, TypeOK
<1>9. ASSUME NEW m \in Missions, Retry(m) PROVE TypeOK'
  BY <1>9 DEF Retry, End, TypeOK, STATES, TaskRow
<1>10. ASSUME NEW m \in Missions, NEW op \in {"cancel", "retry"}, AdminBegin(op, m) PROVE TypeOK'
  BY <1>10, <1>a, FenceStepType DEF AdminBegin, Begin, TypeOK, AdminCall
<1>11. ASSUME NEW w \in Workers, RevokeWorker(w) PROVE TypeOK'
  BY <1>11, <1>b, FenceStepType DEF RevokeWorker, TypeOK, WorkerRow
<1>12. ASSUME NEW w \in Workers, EnrollWorker(w) PROVE TypeOK'
  BY <1>12 DEF EnrollWorker, TypeOK, WorkerRow
<1>13. ASSUME NEW w \in Workers, RotateWorker(w) PROVE TypeOK'
  BY <1>13 DEF RotateWorker, TypeOK, WorkerRow
<1>14. ASSUME NEW w \in Workers, ClaimBegin(w) PROVE TypeOK'
  BY <1>14 DEF ClaimBegin, Begin, TypeOK, WorkerRow, ClaimCall
<1>15. ASSUME NEW w \in Workers, NEW a \in AttemptId, NEW s \in ResultStatus, FinishBegin(w, a, s) PROVE TypeOK'
  BY <1>15, <1>a, FenceStepType DEF FinishBegin, Begin, TypeOK, WorkerRow, FinishCall
<1>16. ASSUME NEW c \in calls, CallEnds(c) PROVE TypeOK'
  BY <1>16 DEF CallEnds, End, TypeOK
<1>17. ASSUME NEW c \in calls, ClaimNothing(c) PROVE TypeOK'
  BY <1>17, <1>a, FenceStepType DEF ClaimNothing, End, TypeOK
<1>18. ASSUME NEW c \in calls, Finish(c) PROVE TypeOK'
  BY <1>18 DEF Finish, PublishResult, End, TypeOK, FinishAccepted, CanPublish, STATES, ResultStatus, TaskRow, AttemptRow,
     ResultRow, FinishCall, ClaimCall, AdminCall, AttemptId
<1>19. ASSUME NEW c \in calls, NEW m \in Missions, ClaimTask(c, m) PROVE TypeOK'
  <2> DEFINE w == c.worker
             a == <<m, tries[m] + 1>>
             row == [state |-> "running", worker |-> w, epoch |-> c.epoch,
                     deadline |-> clock + LeaseOf(w), expected |-> version, result |-> "none"]
  <2>0. c \in ClaimCall
    BY <1>19 DEF ClaimTask, TypeOK, AdminCall, FinishCall
  <2>1. LeaseOf(w) \in Nat
    BY <2>0 DEF LeaseOf, ClaimCall
  <2>2. row \in AttemptRow
    BY <2>0, <2>1 DEF AttemptRow, STATES, ClaimCall, Workers, TypeOK
  <2>3. attempts' \in [AttemptId -> AttemptRow]
    <3>1. attempts' = [AttemptsFenced(Overdue) EXCEPT ![a] = row]
      BY <1>19 DEF ClaimTask
    <3> QED
      BY <3>1, <2>2, <1>a, FenceType
  <2>4. tasks' \in [Missions -> TaskRow]
    BY <1>19, <1>a, FenceType DEF ClaimTask, TaskRow, STATES
  <2>5. missions' \in [Missions -> {"absent"} \cup STATES]
    BY <1>19, <1>a, FenceType DEF ClaimTask, STATES
  <2>6. tries' \in [Missions -> 0..MaxAttempts]
    BY <1>19 DEF ClaimTask, TypeOK
  <2> QED
    BY <1>19, <2>3, <2>4, <2>5, <2>6 DEF ClaimTask, End, TypeOK
<1>20. CASE UNCHANGED vars
  BY <1>20 DEF vars, TypeOK
<1> QED
  BY <1>1, <1>2, <1>3, <1>4, <1>5, <1>6, <1>7, <1>8, <1>9, <1>10, <1>11, <1>12, <1>13, <1>14, <1>15,
     <1>16, <1>17, <1>18, <1>19, <1>20 DEF Next

THEOREM TypeCorrect == Spec => []TypeOK
<1>1. Init => TypeOK
  BY InitType
<1>2. TypeOK /\ [Next]_vars => TypeOK'
  BY StepType
<1> QED
  BY <1>1, <1>2, PTL DEF Spec

-----------------------------------------------------------------------------
(* What a step may do to the rows of missions, tasks, attempts and results. *)

RowsUnchanged ==
  /\ UNCHANGED <<missions, tasks, tries, attempts, results>>
  /\ version' \in {version, version + 1}

FenceOnly ==
  /\ \E S \in SUBSET Active : Fence(S)
  /\ UNCHANGED <<tries, version, results>>

RowStep(m) ==
  \/ \E k \in Capabilities : CreateMission(m, k)
  \/ Approve(m) \/ Cancel(m) \/ Retry(m)
  \/ \E c \in calls : ClaimTask(c, m)

\* Every step leaves the rows alone, only fences, or is one of six handlers.
LEMMA StepShape ==
  ASSUME [Next]_vars
  PROVE  \/ RowsUnchanged
         \/ FenceOnly
         \/ \E m \in Missions : RowStep(m)
         \/ \E c \in calls : Finish(c)
<1>a. Active \in SUBSET Active /\ Overdue \in SUBSET Active
  BY DEF Overdue
<1>1. CASE Expire \/ Start
  BY <1>1, <1>a DEF Expire, Start, FenceOnly
<1>2. CASE Upload \/ Stop \/ Tick
  BY <1>2 DEF Upload, Stop, Tick, RowsUnchanged
<1>3. ASSUME NEW m \in Missions, NEW op \in {"cancel", "retry"}, AdminBegin(op, m) PROVE FenceOnly
  BY <1>3, <1>a DEF AdminBegin, FenceOnly
<1>4. ASSUME NEW w \in Workers, RevokeWorker(w) PROVE FenceOnly
  <2>1. {a \in Active : attempts[a].worker = w} \in SUBSET Active
    OBVIOUS
  <2> QED
    BY <1>4, <2>1 DEF RevokeWorker, FenceOnly
<1>5. ASSUME NEW w \in Workers, EnrollWorker(w) \/ RotateWorker(w) \/ ClaimBegin(w) PROVE RowsUnchanged
  BY <1>5 DEF EnrollWorker, RotateWorker, ClaimBegin, RowsUnchanged
<1>6. ASSUME NEW w \in Workers, NEW a \in AttemptId, NEW s \in ResultStatus, FinishBegin(w, a, s) PROVE FenceOnly
  BY <1>6, <1>a DEF FinishBegin, FenceOnly
<1>7. ASSUME NEW c \in calls, CallEnds(c) PROVE RowsUnchanged
  BY <1>7 DEF CallEnds, RowsUnchanged
<1>8. ASSUME NEW c \in calls, ClaimNothing(c) PROVE FenceOnly
  BY <1>8, <1>a DEF ClaimNothing, FenceOnly
<1>9. CASE UNCHANGED vars
  BY <1>9 DEF vars, RowsUnchanged
<1> QED
  BY <1>1, <1>2, <1>3, <1>4, <1>5, <1>6, <1>7, <1>8, <1>9 DEF Next, RowStep

-----------------------------------------------------------------------------
(* The rows of one mission agree.                                          *)

\* A mission none of whose rows changes keeps agreeing.
LEMMA RowsFrame ==
  ASSUME NEW m \in Missions, RowsAgree(m),
         missions'[m] = missions[m], tasks'[m] = tasks[m], tries'[m] = tries[m],
         \A n \in 1..MaxAttempts : attempts'[<<m, n>>] = attempts[<<m, n>>], TypeOK
  PROVE  RowsAgree(m)'
  BY DEF RowsAgree, TypeOK

\* An active attempt is the last one of an active mission.
LEMMA ActiveIsLast ==
  ASSUME TypeOK, LockStep, NEW a \in Active
  PROVE  /\ a \in AttemptId /\ a = <<a[1], tries[a[1]]>> /\ a[1] \in Missions
         /\ missions[a[1]] \in ActiveStates /\ tasks[a[1]].state = missions[a[1]]
<1>1. PICK m \in Missions, n \in 1..MaxAttempts : a = <<m, n>>
  BY DEF Active, AttemptId
<1>2. attempts[<<m, n>>].state \in ActiveStates
  BY <1>1 DEF Active
<1>3. RowsAgree(m)
  BY DEF LockStep
<1> QED
  BY <1>1, <1>2, <1>3 DEF RowsAgree, Active, ActiveStates

LEMMA FenceLockStep ==
  ASSUME TypeOK, LockStep, NEW S \in SUBSET Active, UNCHANGED tries,
         attempts' = AttemptsFenced(S), missions' = MissionsFenced(S), tasks' = TasksFenced(S)
  PROVE  LockStep'
<1> SUFFICES ASSUME NEW m \in Missions PROVE RowsAgree(m)'
  BY DEF LockStep
<1>0. RowsAgree(m)
  BY DEF LockStep
<1>1. CASE m \notin MissionsOf(S)
  <2>1. \A n \in 1..MaxAttempts : <<m, n>> \in AttemptId /\ <<m, n>> \notin S
    BY <1>1 DEF MissionsOf, AttemptId
  <2>2. \A n \in 1..MaxAttempts : attempts'[<<m, n>>] = attempts[<<m, n>>]
    BY <2>1 DEF AttemptsFenced
  <2>3. missions'[m] = missions[m] /\ tasks'[m] = tasks[m]
    BY <1>1 DEF MissionsFenced, TasksFenced
  <2> QED
    BY <1>0, <2>2, <2>3, RowsFrame
<1>2. CASE m \in MissionsOf(S)
  <2>1. PICK a \in S : a[1] = m
    BY <1>2 DEF MissionsOf
  <2>2. /\ a \in AttemptId /\ a = <<m, tries[m]>>
        /\ missions[m] \in ActiveStates /\ tasks[m].state = missions[m]
    BY <2>1, ActiveIsLast
  <2>3. tries[m] \in 1..MaxAttempts
    BY <2>2 DEF AttemptId
  <2>4. missions'[m] = "interrupted" /\ tasks'[m].state = "interrupted"
    BY <1>2 DEF MissionsFenced, TasksFenced, TypeOK, TaskRow
  <2>5. attempts'[a].state = "interrupted"
    BY <2>1, <2>2 DEF AttemptsFenced, TypeOK, AttemptRow
  <2>6. \A n \in 1..MaxAttempts : n # tries[m] => attempts'[<<m, n>>] = attempts[<<m, n>>]
    <3> SUFFICES ASSUME NEW n \in 1..MaxAttempts, n # tries[m] PROVE attempts'[<<m, n>>] = attempts[<<m, n>>]
      OBVIOUS
    <3>1. <<m, n>> \in AttemptId
      BY DEF AttemptId
    <3>2. <<m, n>> \notin S
      BY ActiveIsLast
    <3> QED
      BY <3>1, <3>2 DEF AttemptsFenced
  <2> QED
    BY <1>0, <2>2, <2>3, <2>4, <2>5, <2>6 DEF RowsAgree, ActiveStates
<1> QED
  BY <1>1, <1>2

\* What is left of the rows once the overdue attempts are fenced.
LEMMA FencedRows ==
  ASSUME TypeOK, LockStep, NEW S \in SUBSET Active, NEW m \in Missions
  PROVE  /\ MissionsFenced(S)[m] = "queued" => missions[m] = "queued" /\ m \notin MissionsOf(S)
         /\ missions[m] \in ActiveStates /\ m \notin MissionsOf(S) => <<m, tries[m]>> \in Active \ S
         /\ m \notin MissionsOf(S) => \A n \in 1..MaxAttempts : <<m, n>> \notin S
<1>1. MissionsFenced(S)[m] = "queued" => missions[m] = "queued" /\ m \notin MissionsOf(S)
  BY DEF MissionsFenced
<1>2. m \notin MissionsOf(S) => \A n \in 1..MaxAttempts : <<m, n>> \notin S
  BY DEF MissionsOf
<1>3. ASSUME missions[m] \in ActiveStates, m \notin MissionsOf(S) PROVE <<m, tries[m]>> \in Active \ S
  <2>1. tries[m] \in 1..MaxAttempts /\ attempts[<<m, tries[m]>>].state \in ActiveStates
    BY <1>3 DEF LockStep, RowsAgree, ActiveStates, TypeOK
  <2> QED
    BY <2>1, <1>2, <1>3 DEF Active, AttemptId
<1> QED
  BY <1>1, <1>2, <1>3

LEMMA ClaimLockStep ==
  ASSUME TypeOK, LockStep, NEW c \in calls, NEW k \in Missions, ClaimTask(c, k)
  PROVE  LockStep'
<1> SUFFICES ASSUME NEW m \in Missions PROVE RowsAgree(m)'
  BY DEF LockStep
<1> DEFINE new == <<k, tries[k] + 1>>
           row == [state |-> "running", worker |-> c.worker, epoch |-> c.epoch,
                   deadline |-> clock + LeaseOf(c.worker), expected |-> version, result |-> "none"]
<1>a. Overdue \in SUBSET Active /\ Overdue \in SUBSET AttemptId
  BY DEF Overdue, Active
<1>b. /\ attempts' = [AttemptsFenced(Overdue) EXCEPT ![new] = row]
      /\ missions' = [MissionsFenced(Overdue) EXCEPT ![k] = "running"]
      /\ tasks' = [TasksFenced(Overdue) EXCEPT ![k].state = "running"]
      /\ tries' = [tries EXCEPT ![k] = @ + 1]
      /\ tries[k] < MaxAttempts
  BY DEF ClaimTask
<1>c. RowsAgree(m) /\ RowsAgree(k)
  BY DEF LockStep
<1>d. missions[k] = "queued" /\ k \notin MissionsOf(Overdue)
  BY FencedRows, <1>a DEF ClaimTask, Waiting
<1>e. new \in AttemptId /\ tries[k] \in Nat
  BY <1>b DEF AttemptId, TypeOK
<1>1. CASE m = k
  <2>1. \A n \in 1..MaxAttempts : n # tries[k] + 1 => attempts'[<<k, n>>] = attempts[<<k, n>>]
    <3> SUFFICES ASSUME NEW n \in 1..MaxAttempts, n # tries[k] + 1 PROVE attempts'[<<k, n>>] = attempts[<<k, n>>]
      OBVIOUS
    <3>1. <<k, n>> \in AttemptId /\ <<k, n>> # new /\ <<k, n>> \notin Overdue
      BY <1>d, FencedRows, <1>a DEF AttemptId
    <3> QED
      BY <3>1, <1>b DEF AttemptsFenced
  <2>2. attempts'[new] = row /\ row.state = "running"
    BY <1>b, <1>e DEF AttemptsFenced
  <2>3. missions'[k] = "running" /\ tries'[k] = tries[k] + 1
    BY <1>b DEF MissionsFenced, TypeOK
  <2>4. tasks'[k].state = "running"
    BY <1>b, <1>a, FenceType DEF TaskRow
  <2>5. attempts'[<<k, tries'[k]>>].state = "running" /\ tries'[k] \in 1..MaxAttempts
    BY <2>2, <2>3, <1>b, <1>e
  <2>6. \A n \in 1..MaxAttempts : n # tries'[k] => attempts'[<<k, n>>].state = attempts[<<k, n>>].state
    BY <2>1, <2>3
  <2>7. \A n \in 1..MaxAttempts : n > tries[k] <=> n >= tries'[k]
    BY <2>3, <1>e
  <2>8. \A n \in 1..MaxAttempts :
          /\ attempts[<<k, n>>].state \notin ActiveStates
          /\ attempts[<<k, n>>].state = "none" <=> n >= tries'[k]
    BY <1>c, <1>d, <2>7 DEF RowsAgree, ActiveStates
  <2> HIDE DEF new, row
  <2>9. \A n \in 1..MaxAttempts :
       /\ attempts'[<<k, n>>].state \in ActiveStates => n = tries'[k] /\ missions'[k] \in ActiveStates
       /\ attempts'[<<k, n>>].state = "none" <=> n > tries'[k]
    <3> SUFFICES ASSUME NEW n \in 1..MaxAttempts
                 PROVE  /\ attempts'[<<k, n>>].state \in ActiveStates => n = tries'[k] /\ missions'[k] \in ActiveStates
                        /\ attempts'[<<k, n>>].state = "none" <=> n > tries'[k]
      OBVIOUS
    <3>1. CASE n = tries'[k]
      BY <3>1, <2>3, <2>5 DEF ActiveStates
    <3>2. CASE n # tries'[k]
      BY <3>2, <2>5, <2>6, <2>8
    <3> QED
      BY <3>1, <3>2
  <2> QED
    BY <1>1, <2>3, <2>4, <2>5, <2>9 DEF RowsAgree
<1>2. CASE m # k
  <2> DEFINE A == AttemptsFenced(Overdue)
             M == MissionsFenced(Overdue)
             T == TasksFenced(Overdue)
  <2>1. missions'[m] = M[m] /\ tasks'[m] = T[m] /\ tries'[m] = tries[m]
    BY <1>2, <1>b DEF MissionsFenced, TasksFenced, TypeOK
  <2>2. \A n \in 1..MaxAttempts : attempts'[<<m, n>>] = A[<<m, n>>]
    BY <1>2, <1>b DEF AttemptsFenced, AttemptId
  <2>3. CASE m \notin MissionsOf(Overdue)
    <3>1. \A n \in 1..MaxAttempts : A[<<m, n>>] = attempts[<<m, n>>]
      BY <2>3, FencedRows, <1>a DEF AttemptsFenced, AttemptId
    <3>2. M[m] = missions[m] /\ T[m] = tasks[m]
      BY <2>3 DEF MissionsFenced, TasksFenced
    <3> QED
      BY <1>c, <2>1, <2>2, <3>1, <3>2, RowsFrame
  <2>4. CASE m \in MissionsOf(Overdue)
    <3>1. PICK a \in Overdue : a[1] = m
      BY <2>4 DEF MissionsOf
    <3>2. /\ a \in AttemptId /\ a = <<m, tries[m]>>
          /\ missions[m] \in ActiveStates /\ tasks[m].state = missions[m]
      BY <3>1, <1>a, ActiveIsLast
    <3>3. tries[m] \in 1..MaxAttempts
      BY <3>2 DEF AttemptId
    <3>4. M[m] = "interrupted" /\ T[m].state = "interrupted"
      BY <2>4 DEF MissionsFenced, TasksFenced, TypeOK, TaskRow
    <3>5. A[a].state = "interrupted"
      BY <3>1, <3>2 DEF AttemptsFenced, TypeOK, AttemptRow
    <3>6. \A n \in 1..MaxAttempts : n # tries[m] => A[<<m, n>>] = attempts[<<m, n>>]
      <4> SUFFICES ASSUME NEW n \in 1..MaxAttempts, n # tries[m] PROVE A[<<m, n>>] = attempts[<<m, n>>]
        OBVIOUS
      <4>1. <<m, n>> \in AttemptId
        BY DEF AttemptId
      <4>2. <<m, n>> \notin Overdue
        BY ActiveIsLast, <1>a
      <4> QED
        BY <4>1, <4>2 DEF AttemptsFenced
    <3> HIDE DEF A, M, T
    <3> QED
      BY <1>c, <2>1, <2>2, <3>2, <3>3, <3>4, <3>5, <3>6 DEF RowsAgree, ActiveStates
  <2> QED
    BY <2>3, <2>4
<1> QED
  BY <1>1, <1>2

LEMMA CancelLockStep ==
  ASSUME TypeOK, LockStep, NEW k \in Missions, Cancel(k)
  PROVE  LockStep'
<1> SUFFICES ASSUME NEW m \in Missions PROVE RowsAgree(m)'
  BY DEF LockStep
<1> DEFINE target == IF missions[k] = "running" THEN "cancel_requested" ELSE "cancelled"
<1>a. /\ missions' = [missions EXCEPT ![k] = target]
      /\ tasks' = IF tasks[k].state = "none" THEN tasks ELSE [tasks EXCEPT ![k].state = target]
      /\ attempts' = [a \in AttemptId |-> IF a[1] = k /\ attempts[a].state = "running"
                                          THEN [attempts[a] EXCEPT !.state = target] ELSE attempts[a]]
      /\ tries' = tries
      /\ missions[k] # "cancel_requested" /\ <<missions[k], target>> \in TRANSITIONS
  BY DEF Cancel
<1>b. RowsAgree(m) /\ RowsAgree(k)
  BY DEF LockStep
<1>1. CASE m # k
  <2>1. \A n \in 1..MaxAttempts : attempts'[<<m, n>>] = attempts[<<m, n>>]
    BY <1>1, <1>a DEF AttemptId
  <2>2. missions'[m] = missions[m] /\ tasks'[m] = tasks[m] /\ tries'[m] = tries[m]
    BY <1>1, <1>a DEF TypeOK
  <2> QED
    BY <1>b, <2>1, <2>2, RowsFrame
<1>2. CASE m = k
  <2>1. missions'[k] = target /\ tries'[k] = tries[k]
    BY <1>a DEF TypeOK
  <2>2. tasks'[k].state = IF tasks[k].state = "none" THEN "none" ELSE target
    BY <1>a DEF TypeOK, TaskRow
  <2>3. \A n \in 1..MaxAttempts :
          attempts'[<<k, n>>].state = IF attempts[<<k, n>>].state = "running" THEN target ELSE attempts[<<k, n>>].state
    BY <1>a DEF AttemptId, TypeOK, AttemptRow
  <2>4. missions[k] \in {"draft", "approved", "queued", "running", "interrupted"}
    BY <1>a DEF TRANSITIONS
  <2>5. \A n \in 1..MaxAttempts : n = tries[k] \/ n # tries[k]
    OBVIOUS
  <2> QED
    BY <1>2, <1>b, <2>1, <2>2, <2>3, <2>4 DEF RowsAgree, ActiveStates, TypeOK
<1> QED
  BY <1>1, <1>2

LEMMA AdministerLockStep ==
  ASSUME TypeOK, LockStep, NEW k \in Missions,
         (\E capability \in Capabilities : CreateMission(k, capability)) \/ Approve(k) \/ Retry(k)
  PROVE  LockStep'
<1> SUFFICES ASSUME NEW m \in Missions PROVE RowsAgree(m)'
  BY DEF LockStep
<1>a. RowsAgree(m) /\ RowsAgree(k)
  BY DEF LockStep
<1>b. attempts' = attempts /\ tries' = tries
  BY DEF CreateMission, Approve, Retry
<1>1. CASE m # k
  <2>1. missions'[m] = missions[m] /\ tasks'[m] = tasks[m]
    BY <1>1 DEF CreateMission, Approve, Retry, TypeOK
  <2> QED
    BY <1>a, <1>b, <2>1, RowsFrame
<1>2. CASE m = k
  <2>1. ASSUME NEW capability \in Capabilities, CreateMission(k, capability) PROVE RowsAgree(m)'
    BY <1>2, <1>a, <1>b, <2>1 DEF CreateMission, RowsAgree, ActiveStates, TypeOK
  <2>2. CASE Approve(k)
    BY <1>2, <1>a, <1>b, <2>2 DEF Approve, RowsAgree, ActiveStates, TypeOK, TaskRow
  <2>3. CASE Retry(k)
    BY <1>2, <1>a, <1>b, <2>3 DEF Retry, RowsAgree, ActiveStates, TypeOK, TaskRow
  <2> QED
    BY <2>1, <2>2, <2>3
<1> QED
  BY <1>1, <1>2

LEMMA FinishLockStep ==
  ASSUME TypeOK, LockStep, NEW c \in calls, Finish(c)
  PROVE  LockStep'
<1> SUFFICES ASSUME NEW m \in Missions PROVE RowsAgree(m)'
  BY DEF LockStep
<1> DEFINE k == c.attempt[1]
<1>a. c \in FinishCall
  BY DEF Finish, PublishResult, TypeOK, AdminCall, ClaimCall
<1>b. c.attempt \in Active /\ k \in Missions /\ c.status \in ResultStatus
  BY <1>a DEF Finish, PublishResult, FinishAccepted, Active, FinishCall, AttemptId
<1>c. c.attempt = <<k, tries[k]>> /\ tries[k] \in 1..MaxAttempts /\ tasks[k].state = missions[k] /\ missions[k] \in ActiveStates
  BY <1>b, ActiveIsLast DEF Active, AttemptId
<1>d. /\ attempts' = [attempts EXCEPT ![c.attempt].state = c.status, ![c.attempt].result = c.status]
      /\ tasks' = [tasks EXCEPT ![k].state = c.status]
      /\ missions' = [missions EXCEPT ![k] = c.status]
      /\ tries' = tries
  BY DEF Finish, PublishResult
<1>e. RowsAgree(m) /\ RowsAgree(k)
  BY <1>b DEF LockStep
<1>1. CASE m # k
  <2>1. \A n \in 1..MaxAttempts : attempts'[<<m, n>>] = attempts[<<m, n>>]
    BY <1>1, <1>c, <1>d DEF AttemptId, TypeOK
  <2>2. missions'[m] = missions[m] /\ tasks'[m] = tasks[m] /\ tries'[m] = tries[m]
    BY <1>1, <1>d DEF TypeOK
  <2> QED
    BY <1>e, <2>1, <2>2, RowsFrame
<1>2. CASE m = k
  <2>1. missions'[k] = c.status /\ tasks'[k].state = c.status /\ tries'[k] = tries[k]
    BY <1>b, <1>d DEF TypeOK, TaskRow
  <2>2. attempts'[<<k, tries[k]>>].state = c.status
    BY <1>b, <1>c, <1>d DEF TypeOK, AttemptRow, AttemptId, Active
  <2>3. \A n \in 1..MaxAttempts : n # tries[k] => attempts'[<<k, n>>] = attempts[<<k, n>>]
    <3>1. \A b \in AttemptId : b # c.attempt => attempts'[b] = attempts[b]
      BY <1>d DEF TypeOK
    <3> QED
      BY <3>1, <1>b, <1>c DEF AttemptId
  <2> QED
    BY <1>2, <1>b, <1>c, <1>e, <2>1, <2>2, <2>3 DEF RowsAgree, ActiveStates, ResultStatus
<1> QED
  BY <1>1, <1>2

LEMMA StepLockStep == TypeOK /\ LockStep /\ [Next]_vars => LockStep'
<1> SUFFICES ASSUME TypeOK, LockStep, [Next]_vars PROVE LockStep'
  OBVIOUS
<1>1. CASE RowsUnchanged
  BY <1>1 DEF RowsUnchanged, LockStep, RowsAgree
<1>2. CASE FenceOnly
  BY <1>2, FenceLockStep DEF FenceOnly, Fence
<1>3. ASSUME NEW m \in Missions, RowStep(m) PROVE LockStep'
  BY <1>3, AdministerLockStep, CancelLockStep, ClaimLockStep DEF RowStep
<1>4. ASSUME NEW c \in calls, Finish(c) PROVE LockStep'
  BY <1>4, FinishLockStep
<1> QED
  BY <1>1, <1>2, <1>3, <1>4, StepShape

LEMMA InitLockStep == Init => LockStep
  BY DEF Init, LockStep, RowsAgree, ActiveStates, NoAttempt, AttemptId

\* The rows of every mission agree after any number of steps, whatever the
\* number of missions, workers, attempts and calls in flight.
THEOREM RowsStayInLockStep == Spec => []LockStep
<1>1. Init => TypeOK /\ LockStep
  BY InitType, InitLockStep
<1>2. TypeOK /\ LockStep /\ [Next]_vars => (TypeOK /\ LockStep)'
  BY StepType, StepLockStep
<1> QED
  BY <1>1, <1>2, PTL DEF Spec

\* Whatever transaction fences, and whichever attempts it fences, _transition
\* never refuses it: a restart can always recover and a request can always expire.
THEOREM RecoveryIsNeverBlocked == Spec => []RecoveryNeverBlocked
<1>1. TypeOK /\ LockStep => RecoveryNeverBlocked
  <2> SUFFICES ASSUME TypeOK, LockStep PROVE CanFence(Active)
    BY DEF RecoveryNeverBlocked
  <2>1. \A a \in Active : <<missions[a[1]], "interrupted">> \in TRANSITIONS
    BY ActiveIsLast DEF ActiveStates, TRANSITIONS
  <2>2. \A a, b \in Active : a[1] = b[1] => a = b
    <3> SUFFICES ASSUME NEW a \in Active, NEW b \in Active, a[1] = b[1] PROVE a = b
      OBVIOUS
    <3>1. a = <<a[1], tries[a[1]]>> /\ b = <<b[1], tries[b[1]]>>
      BY ActiveIsLast
    <3> QED
      BY <3>1
  <2> QED
    BY <2>1, <2>2 DEF CanFence
<1>2. Init => TypeOK /\ LockStep
  BY InitType, InitLockStep
<1>3. TypeOK /\ LockStep /\ [Next]_vars => (TypeOK /\ LockStep)'
  BY StepType, StepLockStep
<1> QED
  BY <1>1, <1>2, <1>3, PTL DEF Spec

-----------------------------------------------------------------------------
(* An ended attempt is a closed book.                                      *)

Ended(a) == attempts[a].state \notin ActiveStates \cup {"none"}

LEMMA FenceLeavesEnded ==
  ASSUME NEW S \in SUBSET Active, NEW a \in AttemptId, Ended(a)
  PROVE  AttemptsFenced(S)[a] = attempts[a]
<1>1. a \notin S
  BY DEF Active, Ended
<1> QED
  BY <1>1 DEF AttemptsFenced

LEMMA StepLeavesEnded ==
  ASSUME TypeOK, LockStep, [Next]_vars, NEW a \in AttemptId, Ended(a)
  PROVE  attempts'[a] = attempts[a]
<1>1. CASE RowsUnchanged
  BY <1>1 DEF RowsUnchanged
<1>2. CASE FenceOnly
  BY <1>2, FenceLeavesEnded DEF FenceOnly, Fence
<1>3. ASSUME NEW m \in Missions, RowStep(m) PROVE attempts'[a] = attempts[a]
  <2>1. CASE (\E k \in Capabilities : CreateMission(m, k)) \/ Approve(m) \/ Retry(m)
    BY <2>1 DEF CreateMission, Approve, Retry
  <2>2. CASE Cancel(m)
    BY <2>2 DEF Cancel, Ended, ActiveStates
  <2>3. ASSUME NEW c \in calls, ClaimTask(c, m) PROVE attempts'[a] = attempts[a]
    <3>1. attempts[<<m, tries[m] + 1>>].state = "none"
      <4>1. RowsAgree(m)
        BY DEF LockStep
      <4>2. tries[m] + 1 \in 1..MaxAttempts /\ tries[m] + 1 > tries[m]
        BY <2>3 DEF ClaimTask, TypeOK
      <4> QED
        BY <4>1, <4>2 DEF RowsAgree
    <3>2. a # <<m, tries[m] + 1>>
      BY <3>1 DEF Ended
    <3>3. Overdue \in SUBSET Active
      BY DEF Overdue
    <3>4. AttemptsFenced(Overdue)[a] = attempts[a]
      BY <3>3, FenceLeavesEnded
    <3>5. attempts'[a] = AttemptsFenced(Overdue)[a]
      BY <2>3, <3>2 DEF ClaimTask, AttemptsFenced
    <3> QED
      BY <3>4, <3>5
  <2> QED
    BY <1>3, <2>1, <2>2, <2>3 DEF RowStep
<1>4. ASSUME NEW c \in calls, Finish(c) PROVE attempts'[a] = attempts[a]
  <2>1. a # c.attempt
    BY <1>4 DEF Finish, PublishResult, FinishAccepted, Ended
  <2> QED
    BY <1>4, <2>1 DEF Finish, PublishResult, TypeOK
<1> QED
  BY <1>1, <1>2, <1>3, <1>4, StepShape

\* No answer of a worker, however late or often repeated, no cancellation, no
\* restart and no revocation changes an attempt that has ended.
THEOREM EndedAttemptsNeverChange == Spec => EndedAttemptsStand
<1> DEFINE Stand == \A a \in AttemptId : Ended(a) => attempts'[a] = attempts[a]
<1>1. TypeOK /\ LockStep /\ [Next]_vars => [Stand]_vars
  BY StepLeavesEnded
<1>2. Init => TypeOK /\ LockStep
  BY InitType, InitLockStep
<1>3. TypeOK /\ LockStep /\ [Next]_vars => (TypeOK /\ LockStep)'
  BY StepType, StepLockStep
<1>4. [][Stand]_vars => EndedAttemptsStand
  BY DEF Ended, EndedAttemptsStand
<1> QED
  BY <1>1, <1>2, <1>3, <1>4, PTL DEF Spec

-----------------------------------------------------------------------------
(* Who holds the active attempts.                                          *)

\* b was active before the step, and still belongs to the same claim.
StillHeld(b) ==
  /\ b \in Active
  /\ attempts'[b].worker = attempts[b].worker
  /\ attempts'[b].epoch = attempts[b].epoch
  /\ tasks'[b[1]].worker = tasks[b[1]].worker

LEMMA FenceHolds ==
  ASSUME TypeOK, NEW S \in SUBSET Active, attempts' = AttemptsFenced(S), tasks' = TasksFenced(S), NEW b \in Active'
  PROVE  StillHeld(b) /\ b \notin S
<1>1. b \in AttemptId /\ b[1] \in Missions
  BY DEF Active, AttemptId
<1>2. b \notin S
  BY <1>1 DEF Active, AttemptsFenced, ActiveStates, TypeOK, AttemptRow
<1>3. attempts'[b] = attempts[b]
  BY <1>1, <1>2 DEF AttemptsFenced
<1>4. tasks'[b[1]].worker = tasks[b[1]].worker
  BY <1>1 DEF TasksFenced, TypeOK, TaskRow
<1> QED
  BY <1>1, <1>2, <1>3, <1>4 DEF Active, StillHeld

\* The attempts other than the claimed one hold on, and the overdue ones do not.
LEMMA ClaimHolds ==
  ASSUME TypeOK, LockStep, NEW c \in calls, NEW m \in Missions, ClaimTask(c, m), NEW b \in Active'
  PROVE  \/ StillHeld(b) /\ b \notin Overdue
         \/ /\ b = <<m, tries[m] + 1>>
            /\ attempts'[b].worker = c.worker /\ attempts'[b].epoch = c.epoch
            /\ tasks'[b[1]].worker = c.worker
<1> DEFINE A == AttemptsFenced(Overdue)
           T == TasksFenced(Overdue)
           new == <<m, tries[m] + 1>>
           row == [state |-> "running", worker |-> c.worker, epoch |-> c.epoch,
                   deadline |-> clock + LeaseOf(c.worker), expected |-> version, result |-> "none"]
<1>1. b \in AttemptId /\ b[1] \in Missions /\ attempts'[b].state \in ActiveStates
  BY DEF Active, AttemptId
<1>2. /\ attempts' = [A EXCEPT ![new] = row] /\ tasks' = [T EXCEPT ![m].state = "running"]
      /\ tasks[m].worker = c.worker
  BY DEF ClaimTask, Waiting
<1>3. \A k \in Missions : tasks'[k].worker = tasks[k].worker
  BY <1>2 DEF TasksFenced, TypeOK, TaskRow
<1>4. CASE b = new
  <2>1. attempts'[b] = row
    BY <1>1, <1>2, <1>4 DEF AttemptsFenced
  <2> QED
    BY <2>1, <1>1, <1>2, <1>3, <1>4
<1>5. CASE b # new
  <2>1. attempts'[b] = A[b]
    BY <1>1, <1>2, <1>5 DEF AttemptsFenced
  <2>2. b \notin Overdue
    BY <1>1, <2>1 DEF AttemptsFenced, ActiveStates, TypeOK, AttemptRow
  <2>3. A[b] = attempts[b]
    BY <1>1, <2>2 DEF AttemptsFenced
  <2> QED
    BY <1>1, <1>3, <2>1, <2>2, <2>3 DEF Active, StillHeld
<1> QED
  BY <1>4, <1>5

\* Only a claim makes an attempt active.
LEMMA StepHolds ==
  ASSUME TypeOK, LockStep, [Next]_vars, NEW b \in Active',
         \A c \in calls, m \in Missions : ~ClaimTask(c, m)
  PROVE  StillHeld(b)
<1>a. b \in AttemptId /\ b[1] \in Missions /\ attempts'[b].state \in ActiveStates
  BY DEF Active, AttemptId
<1>1. CASE RowsUnchanged
  BY <1>a, <1>1 DEF RowsUnchanged, StillHeld, Active
<1>2. CASE FenceOnly
  BY <1>2, FenceHolds DEF FenceOnly, Fence
<1>3. ASSUME NEW m \in Missions, RowStep(m) PROVE StillHeld(b)
  <2>1. CASE (\E k \in Capabilities : CreateMission(m, k)) \/ Approve(m) \/ Retry(m)
    <3>1. attempts' = attempts /\ b \in Active
      BY <1>a, <2>1 DEF CreateMission, Approve, Retry, Active
    <3>2. missions[b[1]] \in ActiveStates
      BY <3>1, ActiveIsLast
    <3>3. tasks'[b[1]].worker = tasks[b[1]].worker
      BY <1>a, <2>1, <3>2 DEF CreateMission, Approve, Retry, ActiveStates, TypeOK, TaskRow
    <3> QED
      BY <3>1, <3>3 DEF StillHeld
  <2>2. CASE Cancel(m)
    <3>1. tasks'[b[1]].worker = tasks[b[1]].worker
      BY <1>a, <2>2 DEF Cancel, TypeOK, TaskRow
    <3>2. b \in Active /\ attempts'[b].worker = attempts[b].worker /\ attempts'[b].epoch = attempts[b].epoch
      BY <1>a, <2>2 DEF Cancel, TypeOK, AttemptRow, Active, ActiveStates
    <3> QED
      BY <3>1, <3>2 DEF StillHeld
  <2> QED
    BY <1>3, <2>1, <2>2 DEF RowStep
<1>4. ASSUME NEW c \in calls, Finish(c) PROVE StillHeld(b)
  <2>1. c.attempt \in AttemptId /\ c.attempt[1] \in Missions /\ c.status \notin ActiveStates
    BY <1>4 DEF Finish, PublishResult, TypeOK, AdminCall, ClaimCall, FinishCall, ResultStatus, ActiveStates, AttemptId
  <2>2. b # c.attempt
    BY <1>a, <1>4, <2>1 DEF Finish, PublishResult, TypeOK, AttemptRow
  <2>3. attempts'[b] = attempts[b]
    BY <1>a, <1>4, <2>2 DEF Finish, PublishResult, TypeOK
  <2>4. tasks'[b[1]].worker = tasks[b[1]].worker
    BY <1>a, <1>4, <2>1 DEF Finish, PublishResult, TypeOK, TaskRow
  <2> QED
    BY <1>a, <2>3, <2>4 DEF StillHeld, Active
<1> QED
  BY <1>1, <1>2, <1>3, <1>4, StepShape

LEMMA StepOneAttempt ==
  ASSUME TypeOK, LockStep, OneAttemptPerWorker, [Next]_vars
  PROVE  OneAttemptPerWorker'
<1>1. CASE \A c \in calls, m \in Missions : ~ClaimTask(c, m)
  <2>1. \A b \in Active' : StillHeld(b)
    BY <1>1, StepHolds
  <2> QED
    BY <2>1 DEF OneAttemptPerWorker, StillHeld
<1>2. ASSUME NEW c \in calls, NEW m \in Missions, ClaimTask(c, m) PROVE OneAttemptPerWorker'
  <2> DEFINE New(b) == /\ b = <<m, tries[m] + 1>>
                       /\ attempts'[b].worker = c.worker /\ tasks'[b[1]].worker = c.worker
  <2>1. \A b \in Active' : (StillHeld(b) /\ b \notin Overdue) \/ New(b)
    BY <1>2, ClaimHolds
  <2>2. \A b \in Active \ Overdue : attempts[b].worker # c.worker
    BY <1>2 DEF ClaimTask, Busy
  <2>3. \A b \in Active' : attempts'[b].worker = tasks'[b[1]].worker
    BY <2>1 DEF StillHeld, OneAttemptPerWorker
  <2>4. ASSUME NEW a \in Active', NEW b \in Active', attempts'[a].worker = attempts'[b].worker PROVE a = b
    <3>1. CASE New(a) /\ New(b)
      BY <3>1
    <3>2. CASE StillHeld(a) /\ StillHeld(b)
      BY <2>4, <3>2 DEF StillHeld, OneAttemptPerWorker
    <3>3. CASE New(a) /\ StillHeld(b) /\ b \notin Overdue
      BY <2>2, <2>4, <3>3 DEF StillHeld
    <3>4. CASE New(b) /\ StillHeld(a) /\ a \notin Overdue
      BY <2>2, <2>4, <3>4 DEF StillHeld
    <3> QED
      BY <2>1, <3>1, <3>2, <3>3, <3>4
  <2> QED
    BY <2>3, <2>4 DEF OneAttemptPerWorker
<1> QED
  BY <1>1, <1>2

LEMMA InitActive == Init => Active = {}
  BY DEF Init, Active, NoAttempt, ActiveStates

\* Whatever the interleaving of claims, cancellations, expiries and restarts,
\* no worker is ever handed a second mission while it holds one.
THEOREM OneAttemptAtATime == Spec => []OneAttemptPerWorker
<1>1. Init => TypeOK /\ LockStep /\ OneAttemptPerWorker
  BY InitType, InitLockStep, InitActive DEF OneAttemptPerWorker
<1>2. TypeOK /\ LockStep /\ OneAttemptPerWorker /\ [Next]_vars => (TypeOK /\ LockStep /\ OneAttemptPerWorker)'
  BY StepType, StepLockStep, StepOneAttempt
<1> QED
  BY <1>1, <1>2, PTL DEF Spec

-----------------------------------------------------------------------------
(* Under which credential the active attempts are held.                    *)

Current(b) ==
  /\ workers[attempts[b].worker].status = "active"
  /\ workers[attempts[b].worker].epoch = attempts[b].epoch

\* A step that leaves a serving backend serving, leaves the registry alone
\* unless it revokes.
LEMMA StepRegistry ==
  ASSUME [Next]_vars, up'
  PROVE  \/ Start
         \/ up /\ workers' = workers
         \/ up /\ \E w \in Workers : RevokeWorker(w)
  BY DEF Next, vars, Expire, Upload, Stop, Tick, CreateMission, Approve, Cancel, Retry, AdminBegin, Begin,
     EnrollWorker, RotateWorker, ClaimBegin, FinishBegin, CallEnds, ClaimNothing, Finish, PublishResult, ClaimTask, RevokeWorker

LEMMA StepCurrent ==
  ASSUME TypeOK, LockStep, ActiveIsCurrent, [Next]_vars
  PROVE  ActiveIsCurrent'
<1> SUFFICES ASSUME up', NEW b \in Active' PROVE Current(b)'
  BY DEF ActiveIsCurrent, Current
<1>1. CASE Start
  <2>1. StillHeld(b) /\ b \notin Active
    BY <1>1, FenceHolds DEF Start, Fence
  <2> QED
    BY <2>1 DEF StillHeld
<1>2. ASSUME up, NEW w \in Workers, RevokeWorker(w) PROVE Current(b)'
  <2> DEFINE S == {a \in Active : attempts[a].worker = w}
  <2>1. StillHeld(b) /\ b \notin S
    BY <1>2, FenceHolds DEF RevokeWorker, Fence
  <2>2. attempts[b].worker # w /\ Current(b)
    BY <1>2, <2>1 DEF StillHeld, ActiveIsCurrent, Current
  <2>3. workers'[attempts[b].worker] = workers[attempts[b].worker]
    BY <1>2, <2>2 DEF RevokeWorker, TypeOK
  <2> QED
    BY <2>1, <2>2, <2>3 DEF StillHeld, Current
<1>3. CASE up /\ workers' = workers
  <2>1. CASE \A c \in calls, m \in Missions : ~ClaimTask(c, m)
    <3>1. StillHeld(b)
      BY <2>1, StepHolds
    <3> QED
      BY <1>3, <3>1 DEF StillHeld, ActiveIsCurrent, Current
  <2>2. ASSUME NEW c \in calls, NEW m \in Missions, ClaimTask(c, m) PROVE Current(b)'
    <3>1. StillHeld(b) \/ (attempts'[b].worker = c.worker /\ attempts'[b].epoch = c.epoch)
      BY <2>2, ClaimHolds
    <3>2. workers[c.worker].status = "active" /\ workers[c.worker].epoch = c.epoch
      BY <2>2 DEF ClaimTask, Authorized
    <3> QED
      BY <1>3, <3>1, <3>2 DEF StillHeld, ActiveIsCurrent, Current
  <2> QED
    BY <2>1, <2>2
<1> QED
  BY <1>1, <1>2, <1>3, StepRegistry

\* While the backend serves, no active attempt outlives the credential it was
\* claimed under: revocation fences it, and a rotation, which needs the backend
\* down, is followed by the recovery of the next start.
THEOREM ActiveAttemptsAreCurrent == Spec => []ActiveIsCurrent
<1>1. Init => TypeOK /\ LockStep /\ ActiveIsCurrent
  BY InitType, InitLockStep, InitActive DEF ActiveIsCurrent
<1>2. TypeOK /\ LockStep /\ ActiveIsCurrent /\ [Next]_vars => (TypeOK /\ LockStep /\ ActiveIsCurrent)'
  BY StepType, StepLockStep, StepCurrent
<1> QED
  BY <1>1, <1>2, PTL DEF Spec

-----------------------------------------------------------------------------
(* Documents.                                                              *)

Documents == CompletedHasDocument /\ NoLostUpdate

\* What a step that publishes nothing for a mission leaves as it was.
KeepsDocuments ==
  /\ results' = results /\ version' >= version
  /\ \A m \in Missions : missions'[m] = "completed" <=> missions[m] = "completed"
  /\ \A m \in Missions : missions[m] = "completed" => tries'[m] = tries[m]

LEMMA DocumentsKept ==
  ASSUME TypeOK, LockStep, Documents, [Next]_vars, KeepsDocuments
  PROVE  Documents'
<1>1. \A r \in results : /\ r.attempt \in AttemptId /\ r.attempt[1] \in Missions
                         /\ r.version \in Nat /\ version \in Nat
                         /\ attempts'[r.attempt] = attempts[r.attempt]
  <2> SUFFICES ASSUME NEW r \in results
               PROVE  /\ r.attempt \in AttemptId /\ r.attempt[1] \in Missions
                      /\ r.version \in Nat /\ version \in Nat
                      /\ attempts'[r.attempt] = attempts[r.attempt]
    OBVIOUS
  <2>1. r.attempt \in AttemptId /\ r.attempt[1] \in Missions /\ r.version \in Nat /\ version \in Nat
    BY DEF TypeOK, ResultRow, AttemptId
  <2>2. Ended(r.attempt)
    BY DEF Documents, CompletedHasDocument, Ended, ActiveStates
  <2> QED
    BY <2>1, <2>2, StepLeavesEnded
<1>2. NoLostUpdate'
  <2>1. version' \in Nat
    BY StepType DEF TypeOK
  <2> QED
    BY <1>1, <2>1 DEF NoLostUpdate, KeepsDocuments, Documents
<1>3. ASSUME NEW m \in Missions
      PROVE  (missions[m] = "completed" <=> \E r \in results : r.attempt = <<m, tries[m]>>)'
  <2>1. CASE missions[m] = "completed"
    BY <2>1 DEF CompletedHasDocument, KeepsDocuments, Documents
  <2>2. CASE missions[m] # "completed"
    <3>1. \A r \in results : r.attempt[1] # m
      BY <2>2 DEF CompletedHasDocument, Documents
    <3>2. \A r \in results : r.attempt # <<m, tries'[m]>>
      BY <3>1
    <3> QED
      BY <2>2, <3>2 DEF KeepsDocuments
  <2> QED
    BY <2>1, <2>2
<1>4. \A r \in results : missions'[r.attempt[1]] = "completed" /\ attempts'[r.attempt].state = "completed"
  BY <1>1 DEF CompletedHasDocument, KeepsDocuments, Documents
<1>5. CompletedHasDocument'
  BY <1>3, <1>4 DEF CompletedHasDocument, KeepsDocuments, Documents
<1> QED
  BY <1>2, <1>5 DEF Documents

LEMMA StepKeepsDocuments ==
  ASSUME TypeOK, LockStep, [Next]_vars, \A c \in calls : ~Finish(c)
  PROVE  KeepsDocuments
<1>0. version \in Nat
  BY DEF TypeOK
<1>1. CASE RowsUnchanged
  BY <1>0, <1>1 DEF RowsUnchanged, KeepsDocuments
<1>2. CASE FenceOnly
  <2>1. PICK S \in SUBSET Active : Fence(S)
    BY <1>2 DEF FenceOnly
  <2>2. \A m \in MissionsOf(S) : missions[m] \in ActiveStates
    BY ActiveIsLast DEF MissionsOf
  <2>3. \A m \in Missions : missions'[m] = "completed" <=> missions[m] = "completed"
    BY <2>1, <2>2 DEF Fence, MissionsFenced, ActiveStates
  <2> QED
    BY <1>0, <1>2, <2>3 DEF FenceOnly, KeepsDocuments
<1>3. ASSUME NEW k \in Missions, RowStep(k) PROVE KeepsDocuments
  <2>1. CASE (\E capability \in Capabilities : CreateMission(k, capability)) \/ Approve(k) \/ Retry(k)
    BY <1>0, <2>1 DEF CreateMission, Approve, Retry, KeepsDocuments, TypeOK
  <2>2. CASE Cancel(k)
    BY <1>0, <2>2 DEF Cancel, KeepsDocuments, TypeOK, TRANSITIONS
  <2>3. ASSUME NEW c \in calls, ClaimTask(c, k) PROVE KeepsDocuments
    <3>1. Overdue \in SUBSET Active
      BY DEF Overdue
    <3>2. missions[k] = "queued"
      BY <2>3, <3>1, FencedRows DEF ClaimTask, Waiting
    <3>3. \A m \in MissionsOf(Overdue) : missions[m] \in ActiveStates
      BY <3>1, ActiveIsLast DEF MissionsOf
    <3>4. \A m \in Missions : missions'[m] = "completed" <=> missions[m] = "completed"
      BY <2>3, <3>2, <3>3 DEF ClaimTask, MissionsFenced, ActiveStates, TypeOK
    <3>5. results' = results /\ version' = version /\ tries' = [tries EXCEPT ![k] = @ + 1]
      BY <2>3 DEF ClaimTask
    <3> QED
      BY <1>0, <3>2, <3>4, <3>5 DEF KeepsDocuments, TypeOK
  <2> QED
    BY <1>3, <2>1, <2>2, <2>3 DEF RowStep
<1> QED
  BY <1>1, <1>2, <1>3, StepShape

LEMMA FinishDocuments ==
  ASSUME TypeOK, LockStep, Documents, [Next]_vars, NEW c \in calls, Finish(c)
  PROVE  Documents'
<1> DEFINE a == c.attempt
           k == a[1]
<1>a. c \in FinishCall
  BY DEF Finish, PublishResult, TypeOK, AdminCall, ClaimCall
<1>b. a \in Active /\ a \in AttemptId /\ k \in Missions /\ c.status \in ResultStatus
  BY <1>a DEF Finish, PublishResult, FinishAccepted, Active, FinishCall, AttemptId
<1>c. a = <<k, tries[k]>> /\ missions[k] \in ActiveStates
  BY <1>b, ActiveIsLast
<1>d. version \in Nat /\ missions' = [missions EXCEPT ![k] = c.status] /\ tries' = tries
  BY DEF Finish, PublishResult, TypeOK
<1>1. CASE c.status # "completed"
  <2>1. KeepsDocuments
    BY <1>1, <1>b, <1>c, <1>d DEF Finish, PublishResult, KeepsDocuments, ActiveStates, TypeOK
  <2> QED
    BY <2>1, DocumentsKept
<1>2. CASE c.status = "completed"
  <2> DEFINE new == [attempt |-> a, version |-> version + 1]
  <2>1. version' = version + 1 /\ results' = results \cup {new} /\ attempts[a].expected = version
    BY <1>2 DEF Finish, PublishResult, FinishAccepted, CanPublish
  <2>2. attempts'[a].state = "completed" /\ attempts'[a].expected = version
    BY <1>2, <1>b, <2>1 DEF Finish, PublishResult, TypeOK, AttemptRow
  <2>3. ASSUME NEW r \in results
        PROVE  /\ r.attempt \in AttemptId /\ r.attempt[1] \in Missions /\ r.attempt[1] # k
               /\ r.version \in Nat /\ r.version <= version
               /\ attempts'[r.attempt] = attempts[r.attempt]
               /\ missions'[r.attempt[1]] = missions[r.attempt[1]]
    <3>1. r.attempt \in AttemptId /\ r.attempt[1] \in Missions /\ r.version \in Nat
      BY DEF TypeOK, ResultRow, AttemptId
    <3>2. Ended(r.attempt) /\ missions[r.attempt[1]] = "completed" /\ r.version <= version
      BY DEF Documents, CompletedHasDocument, NoLostUpdate, Ended, ActiveStates
    <3>3. r.attempt[1] # k
      BY <1>c, <3>2 DEF ActiveStates
    <3> QED
      BY <1>d, <3>1, <3>2, <3>3, StepLeavesEnded DEF TypeOK
  <2>4. NoLostUpdate'
    <3> SUFFICES ASSUME NEW r \in results'
                 PROVE  attempts'[r.attempt].expected = r.version - 1 /\ r.version <= version'
      BY DEF NoLostUpdate
    <3>1. CASE r = new
      BY <3>1, <1>d, <2>1, <2>2
    <3>2. CASE r \in results
      BY <3>2, <1>d, <2>1, <2>3 DEF Documents, NoLostUpdate
    <3> QED
      BY <2>1, <3>1, <3>2
  <2>5. \A r \in results' : missions'[r.attempt[1]] = "completed" /\ attempts'[r.attempt].state = "completed"
    BY <1>2, <1>b, <1>d, <2>1, <2>2, <2>3 DEF Documents, CompletedHasDocument, TypeOK
  <2>6. ASSUME NEW m \in Missions
        PROVE  missions'[m] = "completed" <=> \E r \in results' : r.attempt = <<m, tries'[m]>>
    <3>1. CASE m = k
      <4>1. missions'[k] = "completed"
        BY <1>2, <1>b, <1>d DEF TypeOK
      <4>2. new \in results' /\ new.attempt = <<k, tries'[k]>>
        BY <1>c, <1>d, <2>1
      <4> QED
        BY <3>1, <4>1, <4>2
    <3>2. CASE m # k
      <4>1. a # <<m, tries[m]>>
        BY <1>c, <3>2
      <4>2. missions'[m] = missions[m]
        BY <1>d, <3>2 DEF TypeOK
      <4>3. (\E r \in results' : r.attempt = <<m, tries'[m]>>) <=> \E r \in results : r.attempt = <<m, tries[m]>>
        <5>1. new.attempt # <<m, tries'[m]>>
          BY <1>d, <4>1
        <5> QED
          BY <1>d, <2>1, <5>1
      <4> QED
        BY <4>2, <4>3 DEF Documents, CompletedHasDocument
    <3> QED
      BY <3>1, <3>2
  <2>7. ASSUME NEW r \in results', NEW q \in results', r.attempt[1] = q.attempt[1] \/ r.version = q.version
        PROVE  r = q
    <3>1. CASE r \in results /\ q \in results
      BY <2>7, <3>1 DEF Documents, CompletedHasDocument
    <3>2. CASE r = new /\ q \in results
      BY <1>d, <2>3, <2>7, <3>2
    <3>3. CASE q = new /\ r \in results
      BY <1>d, <2>3, <2>7, <3>3
    <3> QED
      BY <2>1, <3>1, <3>2, <3>3
  <2> QED
    BY <2>4, <2>5, <2>6, <2>7 DEF Documents, CompletedHasDocument
<1> QED
  BY <1>1, <1>2

LEMMA DocumentsInvariant == Spec => []Documents
<1>1. Init => TypeOK /\ LockStep /\ Documents
  BY InitType, InitLockStep DEF Init, Documents, CompletedHasDocument, NoLostUpdate
<1>2. TypeOK /\ LockStep /\ Documents /\ [Next]_vars => (TypeOK /\ LockStep /\ Documents)'
  <2> SUFFICES ASSUME TypeOK, LockStep, Documents, [Next]_vars PROVE Documents'
    BY StepType, StepLockStep
  <2>1. CASE \A c \in calls : ~Finish(c)
    BY <2>1, StepKeepsDocuments, DocumentsKept
  <2> QED
    BY <2>1, FinishDocuments
<1> QED
  BY <1>1, <1>2, PTL DEF Spec

\* A mission is completed if and only if it has its document, once.
THEOREM CompletionDelivers == Spec => []CompletedHasDocument
<1>1. Documents => CompletedHasDocument
  BY DEF Documents
<1> QED
  BY <1>1, DocumentsInvariant, PTL

\* Every published document replaced exactly the version its worker was handed.
THEOREM UpdatesAreNotLost == Spec => []NoLostUpdate
<1>1. Documents => NoLostUpdate
  BY DEF Documents
<1> QED
  BY <1>1, DocumentsInvariant, PTL

-----------------------------------------------------------------------------
(* The control plane implements the mission contract.                      *)

\* What the refinement maps the contract's holder and delivered to.
Holder(m) == IF missions[m] \in ActiveStates THEN attempts[<<m, tries[m]>>].worker ELSE 0
Holders == [m \in Missions |-> Holder(m)]
Delivered == [m \in Missions |-> {r.version : r \in {q \in results : q.attempt[1] = m}}]

\* A step of the contract, in the terms of the refinement.
ContractStep == Contract!Next \/ UNCHANGED <<missions, Holders, Delivered>>

LEMMA DeliveredKept == results' = results => Delivered' = Delivered
  BY DEF Delivered

\* A mission that keeps its state and its last attempt's worker keeps its holder.
LEMMA HolderKept ==
  ASSUME TypeOK, LockStep, NEW m \in Missions, missions'[m] = missions[m], tries'[m] = tries[m],
         tries[m] \in 1..MaxAttempts => attempts'[<<m, tries[m]>>].worker = attempts[<<m, tries[m]>>].worker
  PROVE  Holder(m)' = Holder(m)
<1>1. missions[m] \in ActiveStates => tries[m] \in 1..MaxAttempts
  BY DEF LockStep, RowsAgree, ActiveStates, TypeOK
<1> QED
  BY <1>1 DEF Holder

LEMMA FenceContract ==
  ASSUME TypeOK, LockStep, FenceOnly
  PROVE  ContractStep
<1>1. PICK S \in SUBSET Active : Fence(S)
  BY DEF FenceOnly
<1> DEFINE M == MissionsOf(S)
<1>2. M \subseteq Missions /\ \A m \in M : missions[m] \in ActiveStates
  BY ActiveIsLast DEF MissionsOf
<1>3. missions' = [m \in Missions |-> IF m \in M THEN "interrupted" ELSE missions[m]]
  BY <1>1 DEF Fence, MissionsFenced
<1>4. \A m \in Missions : Holder(m)' = IF m \in M THEN 0 ELSE Holder(m)
  <2> SUFFICES ASSUME NEW m \in Missions PROVE Holder(m)' = IF m \in M THEN 0 ELSE Holder(m)
    OBVIOUS
  <2>1. CASE m \in M
    BY <1>3, <2>1 DEF Holder, ActiveStates
  <2>2. CASE m \notin M
    <3>1. \A n \in 1..MaxAttempts : attempts'[<<m, n>>] = attempts[<<m, n>>]
      BY <1>1, <2>2, FencedRows DEF Fence, AttemptsFenced, AttemptId
    <3>2. missions'[m] = missions[m] /\ tries'[m] = tries[m]
      BY <1>3, <2>2 DEF FenceOnly
    <3> QED
      BY <2>2, <3>1, <3>2, HolderKept
  <2> QED
    BY <2>1, <2>2
<1>5. Holders' = [m \in Missions |-> IF m \in M THEN 0 ELSE Holders[m]]
  BY <1>4 DEF Holders
<1>6. Delivered' = Delivered
  BY DeliveredKept DEF FenceOnly
<1>7. Contract!TakeBack(M)
  <2> HIDE DEF M
  <2> QED
    BY <1>2, <1>3, <1>5, <1>6 DEF Contract!TakeBack, Contract!Held, ActiveStates, Holders, Holder, Delivered
<1> QED
  BY <1>2, <1>7 DEF ContractStep, Contract!Next

\* An active mission has a last attempt.
LEMMA ActiveHasAttempt ==
  ASSUME TypeOK, LockStep, NEW m \in Missions, missions[m] \in ActiveStates
  PROVE  tries[m] \in 1..MaxAttempts
<1>1. RowsAgree(m) /\ tries[m] \in 0..MaxAttempts
  BY DEF LockStep, TypeOK
<1> QED
  BY <1>1 DEF RowsAgree, ActiveStates

\* The steps of one mission that leave every holder as it is.
LEMMA AdministerContract ==
  ASSUME TypeOK, LockStep, NEW k \in Missions,
         (\E capability \in Capabilities : CreateMission(k, capability)) \/ Approve(k) \/ Retry(k) \/ Cancel(k)
  PROVE  ContractStep
<1> DEFINE to == missions'[k]
<1>0. tries' = tries /\ results' = results
  BY DEF CreateMission, Approve, Retry, Cancel
<1>1. /\ missions' = [missions EXCEPT ![k] = to]
      /\ \/ missions[k] = "absent" /\ to = "draft"
         \/ missions[k] = "draft" /\ to = "queued"
         \/ missions[k] \in {"failed", "interrupted"} /\ to = "queued"
         \/ missions[k] \in {"draft", "queued", "interrupted"} /\ to = "cancelled"
         \/ missions[k] = "running" /\ to = "cancel_requested"
  <2>1. RowsAgree(k)
    BY DEF LockStep
  <2>2. CASE (\E capability \in Capabilities : CreateMission(k, capability)) \/ Approve(k) \/ Retry(k)
    BY <2>2 DEF CreateMission, Approve, Retry, TypeOK
  <2>3. CASE Cancel(k)
    BY <2>1, <2>3 DEF Cancel, TRANSITIONS, RowsAgree, TypeOK
  <2> QED
    BY <2>2, <2>3
<1>2. \A m \in Missions, n \in 1..MaxAttempts : attempts'[<<m, n>>].worker = attempts[<<m, n>>].worker
  <2>1. CASE attempts' = attempts
    BY <2>1
  <2>2. CASE Cancel(k)
    BY <2>2 DEF Cancel, AttemptId, TypeOK, AttemptRow
  <2> QED
    BY <2>1, <2>2 DEF CreateMission, Approve, Retry
<1>3. \A m \in Missions : Holder(m)' = Holder(m)
  <2> SUFFICES ASSUME NEW m \in Missions PROVE Holder(m)' = Holder(m)
    OBVIOUS
  <2>1. CASE m # k
    BY <1>0, <1>1, <1>2, <2>1, HolderKept DEF TypeOK
  <2>2. CASE m = k /\ missions[k] = "running" /\ to = "cancel_requested"
    BY <1>0, <1>2, <2>2, ActiveHasAttempt DEF Holder, ActiveStates
  <2>3. CASE m = k /\ missions[k] \notin ActiveStates /\ to \notin ActiveStates
    BY <2>3 DEF Holder
  <2> QED
    BY <1>1, <2>1, <2>2, <2>3 DEF ActiveStates
<1>4. Holders' = Holders /\ Delivered' = Delivered
  BY <1>0, <1>3, DeliveredKept DEF Holders
<1> HIDE DEF to
<1>5. Contract!Create(k) \/ Contract!Submit(k) \/ Contract!Resubmit(k) \/ Contract!Withdraw(k) \/ Contract!AskCancel(k)
  BY <1>1, <1>4 DEF Contract!Create, Contract!Submit, Contract!Resubmit, Contract!Withdraw, Contract!AskCancel,
     Contract!Move, Holders, Holder, Delivered
<1> QED
  BY <1>5 DEF ContractStep, Contract!Next

LEMMA ClaimContract ==
  ASSUME TypeOK, LockStep, NEW c \in calls, NEW k \in Missions, ClaimTask(c, k)
  PROVE  ContractStep
<1> DEFINE M == MissionsOf(Overdue)
           w == c.worker
           new == <<k, tries[k] + 1>>
<1>a. Overdue \in SUBSET Active
  BY DEF Overdue
<1>b. w \in Workers /\ w # 0
  <2>1. c.op = "claim" /\ c \in AdminCall \cup ClaimCall \cup FinishCall
    BY DEF ClaimTask, TypeOK
  <2>2. c.worker \in Workers
    BY <2>1 DEF AdminCall, ClaimCall, FinishCall
  <2> QED
    BY <2>2 DEF Workers
<1>c. missions[k] = "queued" /\ k \notin M
  BY <1>a, FencedRows DEF ClaimTask, Waiting
<1>1. M \subseteq Missions /\ \A m \in M : missions[m] \in ActiveStates
  BY <1>a, ActiveIsLast DEF MissionsOf
<1>2. missions' = [m \in Missions |-> IF m = k THEN "running" ELSE IF m \in M THEN "interrupted" ELSE missions[m]]
  BY DEF ClaimTask, MissionsFenced
<1>3. \A m \in Missions \ M : Holder(m) # w
  <2> SUFFICES ASSUME NEW m \in Missions \ M PROVE Holder(m) # w
    OBVIOUS
  <2>1. CASE missions[m] \in ActiveStates
    <3>1. <<m, tries[m]>> \in Active \ Overdue
      BY <1>a, <2>1, FencedRows
    <3> QED
      BY <2>1, <3>1 DEF ClaimTask, Busy, Holder
  <2>2. CASE missions[m] \notin ActiveStates
    BY <1>b, <2>2 DEF Holder
  <2> QED
    BY <2>1, <2>2
<1>4. tries' = [tries EXCEPT ![k] = @ + 1] /\ tries[k] + 1 \in 1..MaxAttempts /\ new \in AttemptId
  BY DEF ClaimTask, TypeOK, AttemptId
<1>5. attempts'[new].worker = w
  BY <1>4 DEF ClaimTask, AttemptsFenced
<1>6. \A m \in Missions : Holder(m)' = IF m = k THEN w ELSE IF m \in M THEN 0 ELSE Holder(m)
  <2> SUFFICES ASSUME NEW m \in Missions
               PROVE  Holder(m)' = IF m = k THEN w ELSE IF m \in M THEN 0 ELSE Holder(m)
    OBVIOUS
  <2>1. CASE m = k
    <3>1. tries'[k] = tries[k] + 1 /\ missions'[k] = "running"
      BY <1>2, <1>4 DEF TypeOK
    <3> QED
      BY <1>5, <2>1, <3>1 DEF Holder, ActiveStates
  <2>2. CASE m # k /\ m \in M
    BY <1>2, <2>2 DEF Holder, ActiveStates
  <2>3. CASE m # k /\ m \notin M
    <3>1. \A n \in 1..MaxAttempts : <<m, n>> \in AttemptId /\ <<m, n>> # new /\ <<m, n>> \notin Overdue
      BY <1>a, <2>3, FencedRows DEF AttemptId
    <3>2. \A n \in 1..MaxAttempts : attempts'[<<m, n>>] = attempts[<<m, n>>]
      BY <3>1 DEF ClaimTask, AttemptsFenced
    <3>3. missions'[m] = missions[m] /\ tries'[m] = tries[m]
      BY <1>2, <1>4, <2>3 DEF TypeOK
    <3> QED
      BY <2>3, <3>2, <3>3, HolderKept
  <2> QED
    BY <2>1, <2>2, <2>3
<1>7. Holders' = [m \in Missions |-> IF m = k THEN w ELSE IF m \in M THEN 0 ELSE Holders[m]]
  BY <1>6 DEF Holders
<1>8. Delivered' = Delivered
  BY DeliveredKept DEF ClaimTask
<1>9. \A m \in Missions \ M : Holders[m] # w
  BY <1>3 DEF Holders
<1>10. Contract!Assign(M, k, w)
  <2> HIDE DEF M, w
  <2> QED
    BY <1>1, <1>2, <1>7, <1>8, <1>9, <1>c
    DEF Contract!Assign, Contract!Held, ActiveStates, Holders, Holder, Delivered
<1> QED
  BY <1>1, <1>10, <1>b DEF ContractStep, Contract!Next

LEMMA FinishContract ==
  ASSUME TypeOK, LockStep, Documents, NEW c \in calls, Finish(c)
  PROVE  ContractStep
<1> DEFINE a == c.attempt
           k == a[1]
<1>a. c \in FinishCall
  BY DEF Finish, TypeOK, AdminCall, ClaimCall
<1>b. a \in Active /\ a \in AttemptId /\ k \in Missions /\ c.status \in ResultStatus
  BY <1>a DEF Finish, FinishAccepted, Active, FinishCall, AttemptId
<1>c. a = <<k, tries[k]>> /\ missions[k] \in ActiveStates
  BY <1>b, ActiveIsLast
<1>1. tries' = tries /\ missions' = [missions EXCEPT ![k] = c.status]
  BY DEF Finish
<1>2. missions[k] = IF c.status = "cancelled" THEN "cancel_requested" ELSE "running"
  BY <1>c DEF Finish, FinishAccepted, StatusAllowed, ActiveStates
<1>3. Holders' = [Holders EXCEPT ![k] = 0]
  <2>1. \A m \in Missions : Holder(m)' = IF m = k THEN 0 ELSE Holder(m)
    <3> SUFFICES ASSUME NEW m \in Missions PROVE Holder(m)' = IF m = k THEN 0 ELSE Holder(m)
      OBVIOUS
    <3>1. CASE m = k
      BY <1>1, <1>b, <3>1 DEF Holder, ActiveStates, ResultStatus, TypeOK
    <3>2. CASE m # k
      <4>1. \A n \in 1..MaxAttempts : attempts'[<<m, n>>] = attempts[<<m, n>>]
        BY <1>c, <3>2 DEF Finish, AttemptId, TypeOK
      <4>2. missions'[m] = missions[m]
        BY <1>1, <3>2 DEF TypeOK
      <4> QED
        BY <1>1, <3>2, <4>1, <4>2, HolderKept
    <3> QED
      BY <3>1, <3>2
  <2> QED
    BY <1>b, <2>1 DEF Holders
<1>4. CASE c.status # "completed"
  <2>1. Delivered' = Delivered
    BY <1>4, DeliveredKept DEF Finish
  <2>2. Contract!Close(k)
    <3> HIDE DEF k
    <3> QED
      BY <1>1, <1>2, <1>3, <1>4, <1>b, <2>1
      DEF Contract!Close, Contract!Move, Contract!Release, ResultStatus, Holders, Holder, Delivered
  <2> QED
    BY <1>b, <2>2 DEF ContractStep, Contract!Next
<1>5. CASE c.status = "completed"
  <2> DEFINE v == version + 1
             new == [attempt |-> a, version |-> v]
  <2>1. results' = results \cup {new} /\ v \in 1..VersionLimit
    BY <1>5 DEF Finish, PublishResult, FinishAccepted, CanPublish, TypeOK
  <2>2. \A r \in results : r.version # v /\ r.attempt[1] # k
    <3>1. \A r \in results : r.version \in Nat /\ r.version <= version /\ version \in Nat
      BY DEF Documents, NoLostUpdate, TypeOK, ResultRow
    <3>2. \A r \in results : missions[r.attempt[1]] = "completed"
      BY DEF Documents, CompletedHasDocument
    <3> QED
      BY <1>c, <3>1, <3>2 DEF ActiveStates
  <2>3. \A m \in Missions : v \notin Delivered[m]
    BY <2>2 DEF Delivered
  <2>4. Delivered' = [Delivered EXCEPT ![k] = {v}]
    <3>1. \A m \in Missions : Delivered'[m] = IF m = k THEN {v} ELSE Delivered[m]
      <4> SUFFICES ASSUME NEW m \in Missions
                   PROVE  Delivered'[m] = IF m = k THEN {v} ELSE Delivered[m]
        OBVIOUS
      <4>1. new.attempt[1] = k /\ new.version = v
        OBVIOUS
      <4> HIDE DEF new, v, k
      <4>2. {q \in results' : q.attempt[1] = m} =
              IF m = k THEN {new} ELSE {q \in results : q.attempt[1] = m}
        BY <2>1, <2>2, <4>1
      <4>3. Delivered'[m] = {r.version : r \in {q \in results' : q.attempt[1] = m}}
        BY DEF Delivered
      <4>4. Delivered[m] = {r.version : r \in {q \in results : q.attempt[1] = m}}
        BY DEF Delivered
      <4>5. {r.version : r \in {new}} = {v}
        BY <4>1
      <4> QED
        BY <4>2, <4>3, <4>4, <4>5
    <3> QED
      BY <1>b, <3>1 DEF Delivered
  <2>5. Contract!Complete(k)
    <3> HIDE DEF k, v
    <3> QED
      BY <1>1, <1>2, <1>3, <1>5, <2>1, <2>3, <2>4
      DEF Contract!Complete, Contract!Move, Contract!Release, Holders, Holder, Delivered
  <2> QED
    BY <1>b, <2>5 DEF ContractStep, Contract!Next
<1> QED
  BY <1>4, <1>5

LEMMA StepContract ==
  ASSUME TypeOK, LockStep, Documents, [Next]_vars
  PROVE  ContractStep
<1>1. CASE RowsUnchanged
  BY <1>1, DeliveredKept DEF RowsUnchanged, ContractStep, Holders, Holder
<1>2. ASSUME NEW m \in Missions, RowStep(m) PROVE ContractStep
  BY <1>2, AdministerContract, ClaimContract DEF RowStep
<1> QED
  BY <1>1, <1>2, FenceContract, FinishContract, StepShape

\* Every transaction of the handlers is a step that the contract allows to its
\* missions, holders and documents, or none: one holder at a time, one
\* document, delivered with the completion.
THEOREM ContractIsKept == Spec => ImplementsContract
<1>1. Init => Contract!Init
  BY DEF Init, Contract!Init, ActiveStates
<1>2. TypeOK /\ LockStep /\ Documents /\ [Next]_vars => [Contract!Next]_(Contract!vars)
  BY StepContract DEF ContractStep, Contract!vars, Holders, Holder, Delivered
<1> QED
  BY <1>1, <1>2, TypeCorrect, RowsStayInLockStep, DocumentsInvariant, PTL DEF Spec, ImplementsContract, Contract!Spec
=============================================================================
