---------------------------- MODULE ControlPlane ----------------------------
(***************************************************************************)
(* The control plane of control_plane/: missions, their task, the attempts *)
(* workers make at it under a lease, worker identities with a credential   *)
(* epoch, and the versions of the document resultat.md.                    *)
(*                                                                         *)
(* One action is one committed SQLite transaction (BEGIN IMMEDIATE makes   *)
(* them serial).  Handlers that run two transactions (expire(), then their *)
(* own) or that authenticate before their transaction are split in two:    *)
(* the first half leaves a record in "calls", the HTTP threads in flight.  *)
(* Operations are fresh here: replaying an operation id returns the stored *)
(* response and changes nothing, which is a stuttering step.               *)
(***************************************************************************)
EXTENDS Naturals, FiniteSets

CONSTANTS
  MaxMissions,     \* bound: missions ever created
  MaxWorkers,      \* bound: identities ever enrolled; worker 1 is fake-cpu
  Capabilities,    \* what missions may require: DEMO, CPU_DIGEST
  Capability,      \* worker -> the one capability its policy declares
  LeaseSeconds,    \* worker -> its lease_seconds limit
  AttemptSeconds,  \* the installation's attempt_seconds
  SlotCount,       \* max_connections of the HTTP server
  VersionLimit,    \* versions one file may have (100 in the code)
  MaxAttempts,     \* bound: attempts per task
  MaxEpoch,        \* bound: credential epochs per worker
  MaxClock,        \* bound: the wall clock
  ClockStepsBack   \* whether the wall clock may be set back

Missions == 1..MaxMissions    \* numbered in the claim's order (created_at, id)
Workers == 1..MaxWorkers      \* numbered in the registry's order (created_at, id)

ASSUME ConstantsAssumption ==
  /\ MaxMissions \in Nat /\ MaxWorkers \in Nat \ {0}
  /\ MaxAttempts \in Nat /\ MaxEpoch \in Nat \ {0} /\ MaxClock \in Nat
  /\ SlotCount \in 1..16 /\ VersionLimit \in Nat
  /\ AttemptSeconds \in Nat \ {0}
  /\ Capability \in [Workers -> Capabilities]
  /\ LeaseSeconds \in [Workers -> 1..AttemptSeconds]
  /\ ClockStepsBack \in BOOLEAN

VARIABLES
  up,        \* the backend process runs and holds backend.lock
  clock,     \* wall clock, in seconds
  workers,   \* worker_identities: status and credential_epoch
  missions,  \* missions.state, "absent" before the row exists
  needs,     \* the capability of the mission's execution contract
  tasks,     \* the task of a mission: state ("none": no row) and worker_id
  tries,     \* number of attempts of a task so far
  attempts,  \* attempts by <<mission, number>>, with the epoch they were claimed under
  version,   \* number of the current version of resultat.md (0: no file)
  results,   \* rows of results: which attempt published which version
  calls      \* requests an HTTP thread has begun and not finished

vars == <<up, clock, workers, missions, needs, tasks, tries, attempts, version, results, calls>>

-----------------------------------------------------------------------------
(* The rows.                                                               *)

STATES == {"draft", "approved", "queued", "running", "completed", "failed",
           "cancel_requested", "cancelled", "interrupted"}

TRANSITIONS ==
  {<<"draft", "approved">>, <<"draft", "cancelled">>,
   <<"approved", "queued">>, <<"approved", "cancelled">>,
   <<"queued", "running">>, <<"queued", "cancelled">>,
   <<"running", "completed">>, <<"running", "failed">>,
   <<"running", "cancel_requested">>, <<"running", "interrupted">>,
   <<"cancel_requested", "cancelled">>, <<"cancel_requested", "interrupted">>,
   <<"failed", "queued">>,
   <<"interrupted", "queued">>, <<"interrupted", "cancelled">>}

ActiveStates == {"running", "cancel_requested"}

\* ExecutionResult.status; a result_sha256 is identified with the status it digests.
ResultStatus == {"completed", "failed", "interrupted", "cancelled"}

AttemptId == Missions \X (1..MaxAttempts)

AttemptRow == [state: {"none"} \cup STATES, worker: 0..MaxWorkers, epoch: 0..MaxEpoch,
               deadline: Nat, expected: 0..VersionLimit, result: {"none"} \cup ResultStatus]

NoAttempt == [state |-> "none", worker |-> 0, epoch |-> 0, deadline |-> 0,
              expected |-> 0, result |-> "none"]

WorkerRow == [status: {"absent", "active", "revoked"}, epoch: 0..MaxEpoch]
TaskRow == [state: {"none"} \cup STATES, worker: 0..MaxWorkers]
ResultRow == [attempt: AttemptId, version: 1..VersionLimit]

\* A call in flight.  A worker's call carries the principal it was
\* authenticated as: the identity and the epoch its credential had then.
AdminCall  == [op: {"cancel", "retry"}, mission: Missions]
ClaimCall  == [op: {"claim"}, worker: Workers, epoch: 0..MaxEpoch]
FinishCall == [op: {"finish"}, worker: Workers, epoch: 0..MaxEpoch,
               attempt: AttemptId, status: ResultStatus]

TypeOK ==
  /\ up \in BOOLEAN
  /\ clock \in 0..MaxClock
  /\ workers \in [Workers -> WorkerRow]
  /\ missions \in [Missions -> {"absent"} \cup STATES]
  /\ needs \in [Missions -> Capabilities]
  /\ tasks \in [Missions -> TaskRow]
  /\ tries \in [Missions -> 0..MaxAttempts]
  /\ attempts \in [AttemptId -> AttemptRow]
  /\ version \in 0..VersionLimit
  /\ results \subseteq ResultRow
  /\ calls \subseteq AdminCall \cup ClaimCall \cup FinishCall

\* A fresh installation: migration 2 enrolls fake-cpu with epoch 1.
Init ==
  /\ up = FALSE
  /\ clock = 0
  /\ workers = [w \in Workers |-> IF w = 1 THEN [status |-> "active", epoch |-> 1]
                                           ELSE [status |-> "absent", epoch |-> 0]]
  /\ missions = [m \in Missions |-> "absent"]
  /\ needs = [m \in Missions |-> Capability[1]]
  /\ tasks = [m \in Missions |-> [state |-> "none", worker |-> 0]]
  /\ tries = [m \in Missions |-> 0]
  /\ attempts = [a \in AttemptId |-> NoAttempt]
  /\ version = 0
  /\ results = {}
  /\ calls = {}

-----------------------------------------------------------------------------
(* Fencing: the one way an attempt ends without its worker.                *)

Active == {a \in AttemptId : attempts[a].state \in ActiveStates}
\* Mutant: a lease stops counting once cancellation is requested.
OverdueRunningOnly == {a \in Active : attempts[a].state = "running" /\ attempts[a].deadline <= clock}

Overdue == {a \in Active : attempts[a].deadline <= clock}
MissionsOf(S) == {a[1] : a \in S}

\* _transition raises invalid_transition, and the whole transaction rolls
\* back, unless every mission met can go to "interrupted" when it is met.
CanFence(S) ==
  /\ \A a \in S : <<missions[a[1]], "interrupted">> \in TRANSITIONS
  /\ \A a, b \in S : a[1] = b[1] => a = b

AttemptsFenced(S) ==
  [a \in AttemptId |-> IF a \in S THEN [attempts[a] EXCEPT !.state = "interrupted"] ELSE attempts[a]]
MissionsFenced(S) ==
  [m \in Missions |-> IF m \in MissionsOf(S) THEN "interrupted" ELSE missions[m]]
TasksFenced(S) ==
  [m \in Missions |-> IF m \in MissionsOf(S) THEN [tasks[m] EXCEPT !.state = "interrupted"] ELSE tasks[m]]

Fence(S) ==
  /\ CanFence(S)
  /\ attempts' = AttemptsFenced(S)
  /\ missions' = MissionsFenced(S)
  /\ tasks' = TasksFenced(S)

\* expire() of the reads that change nothing else: state, nodes, get_mission,
\* list_missions, dashboard.
Expire ==
  /\ up
  /\ Fence(Overdue)
  /\ UNCHANGED <<up, clock, workers, needs, tries, version, results, calls>>

-----------------------------------------------------------------------------
(* Calls in flight.                                                        *)

Begin(c) ==
  /\ up
  /\ Cardinality(calls) < SlotCount
  /\ calls' = calls \cup {c}

End(c) == calls' = calls \ {c}

\* authenticate_worker: the registry is read now, the principal is used later.
Authenticated(w) == workers[w].status = "active"

\* WorkerRegistry.authorize, repeated inside the transaction.
Authorized(c) ==
  /\ workers[c.worker].status = "active"
  /\ workers[c.worker].epoch = c.epoch

\* Any call may end having changed nothing: a guard refuses it, the workspace
\* quota is used up by other files, SQLite stays busy, or it finds its work
\* already done (a duplicate result, a cancellation already requested).
CallEnds(c) ==
  /\ c \in calls
  /\ End(c)
  /\ UNCHANGED <<up, clock, workers, missions, needs, tasks, tries, attempts, version, results>>

-----------------------------------------------------------------------------
(* Administration.                                                         *)

CreateMission(m, capability) ==
  /\ up
  /\ missions[m] = "absent"
  /\ missions' = [missions EXCEPT ![m] = "draft"]
  /\ needs' = [needs EXCEPT ![m] = capability]
  /\ UNCHANGED <<up, clock, workers, tasks, tries, attempts, version, results, calls>>

\* The coordinator routes to the first active identity with the capability.
\* "approved" exists only inside the transaction.
Eligible(m) == {w \in Workers : workers[w].status = "active" /\ Capability[w] = needs[m]}

Approve(m) ==
  /\ up
  /\ missions[m] = "draft"
  /\ \E w \in Eligible(m) :
       /\ \A v \in Eligible(m) : w <= v
       /\ tasks' = [tasks EXCEPT ![m] = [state |-> "queued", worker |-> w]]
  /\ missions' = [missions EXCEPT ![m] = "queued"]
  /\ UNCHANGED <<up, clock, workers, needs, tries, attempts, version, results, calls>>

\* cancel and retry: expire() commits first, the effect is a later transaction.
AdminBegin(op, m) ==
  /\ missions[m] # "absent"
  /\ Begin([op |-> op, mission |-> m])
  /\ Fence(Overdue)
  /\ UNCHANGED <<up, clock, workers, needs, tries, version, results>>

\* Mutant: the attempt is not told.
CancelLeavesAttempts(m) ==
  LET c == [op |-> "cancel", mission |-> m]
      target == IF missions[m] = "running" THEN "cancel_requested" ELSE "cancelled"
  IN /\ c \in calls
     /\ missions[m] # "cancel_requested"
     /\ <<missions[m], target>> \in TRANSITIONS
     /\ missions' = [missions EXCEPT ![m] = target]
     /\ tasks' = IF tasks[m].state = "none" THEN tasks ELSE [tasks EXCEPT ![m].state = target]
     /\ End(c)
     /\ UNCHANGED <<up, clock, workers, needs, tries, attempts, version, results>>

Cancel(m) ==
  LET c == [op |-> "cancel", mission |-> m]
      target == IF missions[m] = "running" THEN "cancel_requested" ELSE "cancelled"
  IN /\ c \in calls
     /\ missions[m] # "cancel_requested"
     /\ <<missions[m], target>> \in TRANSITIONS
     /\ missions' = [missions EXCEPT ![m] = target]
     /\ tasks' = IF tasks[m].state = "none" THEN tasks ELSE [tasks EXCEPT ![m].state = target]
     /\ attempts' = [a \in AttemptId |-> IF a[1] = m /\ attempts[a].state = "running"
                                         THEN [attempts[a] EXCEPT !.state = target] ELSE attempts[a]]
     /\ End(c)
     /\ UNCHANGED <<up, clock, workers, needs, tries, version, results>>

\* Mutant: a cancelled mission may be retried.
RetryCancelled(m) ==
  LET c == [op |-> "retry", mission |-> m]
  IN /\ c \in calls
     /\ missions[m] \in {"failed", "interrupted", "cancelled"}
     /\ tries[m] < MaxAttempts
     /\ missions' = [missions EXCEPT ![m] = "queued"]
     /\ tasks' = [tasks EXCEPT ![m].state = "queued"]
     /\ End(c)
     /\ UNCHANGED <<up, clock, workers, needs, tries, attempts, version, results>>

Retry(m) ==
  LET c == [op |-> "retry", mission |-> m]
  IN /\ c \in calls
     /\ missions[m] \in {"failed", "interrupted"}
     /\ tries[m] < MaxAttempts
     /\ missions' = [missions EXCEPT ![m] = "queued"]
     /\ tasks' = [tasks EXCEPT ![m].state = "queued"]
     /\ End(c)
     /\ UNCHANGED <<up, clock, workers, needs, tries, attempts, version, results>>

\* An administrator's upload of resultat.md; it names the current version.
Upload ==
  /\ up
  /\ version < VersionLimit
  /\ version' = version + 1
  /\ UNCHANGED <<up, clock, workers, missions, needs, tasks, tries, attempts, results, calls>>

\* Revoking fences the worker's attempts in the same transaction; only the
\* first revocation moves the epoch.
RevokeWorker(w) ==
  /\ up
  /\ workers[w].status # "absent"
  /\ workers[w].epoch < MaxEpoch
  /\ workers' = IF workers[w].status = "revoked" THEN workers
                ELSE [workers EXCEPT ![w] = [status |-> "revoked", epoch |-> @.epoch + 1]]
  /\ Fence({a \in Active : attempts[a].worker = w})
  /\ UNCHANGED <<up, clock, needs, tries, version, results, calls>>

-----------------------------------------------------------------------------
(* The worker's calls.                                                     *)

ClaimBegin(w) ==
  /\ Authenticated(w)
  /\ Begin([op |-> "claim", worker |-> w, epoch |-> workers[w].epoch])
  /\ UNCHANGED <<up, clock, workers, missions, needs, tasks, tries, attempts, version, results>>

LeaseOf(w) == IF LeaseSeconds[w] < AttemptSeconds THEN LeaseSeconds[w] ELSE AttemptSeconds

\* Mutant: an attempt whose cancellation is requested no longer counts.
BusyRunningOnly(w) == \E a \in Active \ Overdue : attempts[a].worker = w /\ attempts[a].state = "running"

\* What claim sees once it has fenced the overdue attempts.
Busy(w) == \E a \in Active \ Overdue : attempts[a].worker = w
Waiting(w) == {m \in Missions : /\ TasksFenced(Overdue)[m].state = "queued"
                                /\ MissionsFenced(Overdue)[m] = "queued"
                                /\ tasks[m].worker = w}

\* A busy worker, or one with nothing queued, gets {"request": None}.
ClaimNothing(c) ==
  /\ c \in calls /\ c.op = "claim"
  /\ Authorized(c)
  /\ Busy(c.worker) \/ Waiting(c.worker) = {}
  /\ Fence(Overdue)
  /\ End(c)
  /\ UNCHANGED <<up, clock, workers, needs, tries, version, results>>

ClaimTask(c, m) ==
  LET w == c.worker
      a == <<m, tries[m] + 1>>
  IN /\ c \in calls /\ c.op = "claim"
     /\ Authorized(c)
     /\ ~Busy(w)
     /\ m \in Waiting(w) /\ \A k \in Waiting(w) : m <= k
     /\ CanFence(Overdue)
     /\ tries[m] < MaxAttempts
     /\ clock + LeaseOf(w) <= MaxClock
     /\ attempts' = [AttemptsFenced(Overdue) EXCEPT ![a] =
          [state |-> "running", worker |-> w, epoch |-> c.epoch,
           deadline |-> clock + LeaseOf(w), expected |-> version, result |-> "none"]]
     /\ tries' = [tries EXCEPT ![m] = @ + 1]
     /\ missions' = [MissionsFenced(Overdue) EXCEPT ![m] = "running"]
     /\ tasks' = [TasksFenced(Overdue) EXCEPT ![m].state = "running"]
     /\ End(c)
     /\ UNCHANGED <<up, clock, workers, needs, version, results>>

\* finish: authenticate, expire(), then the transaction of Finish.  A worker
\* answers for an attempt that was handed to it; its generation names it.
FinishBegin(w, a, status) ==
  /\ Authenticated(w)
  /\ attempts[a].worker = w
  /\ Begin([op |-> "finish", worker |-> w, epoch |-> workers[w].epoch,
            attempt |-> a, status |-> status])
  /\ Fence(Overdue)
  /\ UNCHANGED <<up, clock, workers, needs, tries, version, results>>

\* Mutant: the last writer wins.
CanPublishOver(a) == version < VersionLimit

\* _publish: the version the worker was handed must still be the current one.
CanPublish(a) ==
  /\ attempts[a].expected = version
  /\ version < VersionLimit

\* No result once cancellation is requested, except "cancelled".
StatusAllowed(m, status) == (missions[m] = "cancel_requested") <=> (status = "cancelled")

\* Mutant: the attempt's own state is not looked at.
FinishAcceptedLate(c) ==
  LET a == c.attempt IN
  /\ Authorized(c)
  /\ attempts[a].worker = c.worker
  /\ attempts[a].epoch = c.epoch
  /\ attempts[a].result = "none"
  /\ StatusAllowed(a[1], c.status)
  /\ c.status = "completed" => CanPublish(a)
  /\ clock < attempts[a].deadline
  /\ <<missions[a[1]], c.status>> \in TRANSITIONS

FinishAccepted(c) ==
  LET a == c.attempt IN
  /\ Authorized(c)
  /\ attempts[a].worker = c.worker
  /\ attempts[a].epoch = c.epoch
  /\ attempts[a].result = "none"
  /\ attempts[a].state \in ActiveStates
  /\ StatusAllowed(a[1], c.status)
  /\ c.status = "completed" => CanPublish(a)
  /\ clock < attempts[a].deadline
  /\ <<missions[a[1]], c.status>> \in TRANSITIONS

\* A new version of resultat.md, and the row that ties it to its attempt.
PublishResult(a) ==
  /\ version' = version + 1
  /\ results' = results \cup {[attempt |-> a, version |-> version + 1]}

\* Mutant: the file is published and the results row is not inserted.
FinishWithoutResult(c) ==
  LET a == c.attempt
      m == a[1]
  IN /\ c \in calls /\ c.op = "finish"
     /\ FinishAccepted(c)
     /\ version' = IF c.status = "completed" THEN version + 1 ELSE version
     /\ attempts' = [attempts EXCEPT ![a].state = c.status, ![a].result = c.status]
     /\ tasks' = [tasks EXCEPT ![m].state = c.status]
     /\ missions' = [missions EXCEPT ![m] = c.status]
     /\ End(c)
     /\ UNCHANGED <<up, clock, workers, needs, tries, results>>

Finish(c) ==
  LET a == c.attempt
      m == a[1]
  IN /\ c \in calls /\ c.op = "finish"
     /\ FinishAccepted(c)
     /\ IF c.status = "completed"
        THEN PublishResult(a)
        ELSE UNCHANGED <<version, results>>
     /\ attempts' = [attempts EXCEPT ![a].state = c.status, ![a].result = c.status]
     /\ tasks' = [tasks EXCEPT ![m].state = c.status]
     /\ missions' = [missions EXCEPT ![m] = c.status]
     /\ End(c)
     /\ UNCHANGED <<up, clock, workers, needs, tries>>

-----------------------------------------------------------------------------
(* The process, the maintenance commands and time.                         *)

\* The process ends, in order or by a crash: calls in flight are gone and
\* committed rows stay.
Stop ==
  /\ up
  /\ up' = FALSE
  /\ calls' = {}
  /\ UNCHANGED <<clock, workers, missions, needs, tasks, tries, attempts, version, results>>

\* Mutant: no recover().
StartWithoutRecover ==
  /\ ~up
  /\ up' = TRUE
  /\ UNCHANGED <<clock, workers, missions, needs, tasks, tries, attempts, version, results, calls>>

\* ControlPlane.__init__ ends with recover(): every active attempt is fenced
\* before the first request.
Start ==
  /\ ~up
  /\ up' = TRUE
  /\ Fence(Active)
  /\ UNCHANGED <<clock, workers, needs, tries, version, results, calls>>

\* worker-enroll and worker-rotate hold backend.lock, so only while the
\* backend is down; they do not recover().
EnrollWorker(w) ==
  /\ ~up
  /\ workers[w].status = "absent"
  /\ workers' = [workers EXCEPT ![w] = [status |-> "active", epoch |-> 1]]
  /\ UNCHANGED <<up, clock, missions, needs, tasks, tries, attempts, version, results, calls>>

\* A rotation; of a revoked identity, with --reactivate.
RotateWorker(w) ==
  /\ ~up
  /\ workers[w].status # "absent"
  /\ workers[w].epoch < MaxEpoch
  /\ workers' = [workers EXCEPT ![w] = [status |-> "active", epoch |-> @.epoch + 1]]
  /\ UNCHANGED <<up, clock, missions, needs, tasks, tries, attempts, version, results, calls>>

Tick ==
  /\ \/ clock < MaxClock /\ clock' = clock + 1
     \/ ClockStepsBack /\ clock > 0 /\ clock' = clock - 1
  /\ UNCHANGED <<up, workers, missions, needs, tasks, tries, attempts, version, results, calls>>

Next ==
  \/ Expire \/ Upload \/ Stop \/ Start \/ Tick
  \/ \E m \in Missions :
       \/ \E k \in Capabilities : CreateMission(m, k)
       \/ Approve(m) \/ Cancel(m) \/ Retry(m)
       \/ \E op \in {"cancel", "retry"} : AdminBegin(op, m)
  \/ \E w \in Workers :
       \/ RevokeWorker(w) \/ EnrollWorker(w) \/ RotateWorker(w) \/ ClaimBegin(w)
       \/ \E a \in AttemptId, s \in ResultStatus : FinishBegin(w, a, s)
  \/ \E c \in calls :
       \/ CallEnds(c) \/ ClaimNothing(c) \/ Finish(c)
       \/ \E m \in Missions : ClaimTask(c, m)

Spec == Init /\ [][Next]_vars

-----------------------------------------------------------------------------
(* Properties.                                                             *)

\* The rows of one mission tell one story, though six handlers write them
\* separately: the task repeats the mission's state, exactly the last attempt
\* of an active mission is active, and the last attempt agrees with how the
\* mission stands.
RowsAgree(m) ==
  /\ missions[m] # "approved"
  /\ tasks[m].state # "none" => tasks[m].state = missions[m]
  /\ missions[m] \in {"absent", "draft"} => tasks[m].state = "none"
  /\ missions[m] \in {"absent", "draft"} => tries[m] = 0
  /\ tasks[m].state = "none" => missions[m] \in {"absent", "draft", "cancelled"}
  /\ missions[m] \in {"running", "cancel_requested", "completed", "failed", "interrupted"} =>
       tries[m] > 0 /\ attempts[<<m, tries[m]>>].state = missions[m]
  /\ \A n \in 1..MaxAttempts :
       /\ attempts[<<m, n>>].state \in ActiveStates => n = tries[m] /\ missions[m] \in ActiveStates
       /\ attempts[<<m, n>>].state = "none" <=> n > tries[m]
LockStep == \A m \in Missions : RowsAgree(m)

\* recover() and expire() never meet a mission that cannot be interrupted.
\* If they did, no transaction that fences could commit again: the backend
\* would neither start nor answer.
RecoveryNeverBlocked == CanFence(Active)

\* Two missions are never in the hands of the same worker
\* (max_concurrent_tasks is 1), and a worker only holds what was planned for it.
OneAttemptPerWorker ==
  /\ \A a, b \in Active : attempts[a].worker = attempts[b].worker => a = b
  /\ \A a \in Active : attempts[a].worker = tasks[a[1]].worker

\* While the backend serves, an active attempt belongs to an active identity
\* under the very credential it was claimed with: whatever rotation, revocation
\* or restart came between has fenced it.
ActiveIsCurrent ==
  up => \A a \in Active : LET w == workers[attempts[a].worker] IN
          w.status = "active" /\ w.epoch = attempts[a].epoch

\* What backup.py's verify_index demands holds at every moment: a mission is
\* completed if and only if it has a document, by its last attempt, and there
\* is one document per mission and one author per version.
CompletedHasDocument ==
  /\ \A m \in Missions : missions[m] = "completed" <=> \E r \in results : r.attempt = <<m, tries[m]>>
  /\ \A r \in results : missions[r.attempt[1]] = "completed" /\ attempts[r.attempt].state = "completed"
  /\ \A r, q \in results : r.attempt[1] = q.attempt[1] \/ r.version = q.version => r = q

\* A published document replaces exactly the version its worker was handed at
\* claim time, however many uploads and publications other actors made since.
NoLostUpdate ==
  \A r \in results : attempts[r.attempt].expected = r.version - 1 /\ r.version <= version

\* An ended attempt is a closed book: no late, duplicated or conflicting
\* answer, no cancellation and no restart changes its row again.
EndedAttemptsStand ==
  [][\A a \in AttemptId : attempts[a].state \notin ActiveStates \cup {"none"} => attempts'[a] = attempts[a]]_vars

\* The abstract life cycle, with the worker of the last attempt as holder.
Contract == INSTANCE MissionContract WITH
  Versions <- 1..VersionLimit,
  Nobody <- 0,
  state <- missions,
  holder <- [m \in Missions |-> IF missions[m] \in ActiveStates THEN attempts[<<m, tries[m]>>].worker ELSE 0],
  delivered <- [m \in Missions |-> {r.version : r \in {q \in results : q.attempt[1] = m}}]

\* The control plane implements the mission contract: one holder at a time,
\* one document, delivered with the completion, and only the listed moves.
ImplementsContract == Contract!Spec
=============================================================================
