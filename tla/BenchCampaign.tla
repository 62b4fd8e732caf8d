--------------------------- MODULE BenchCampaign ---------------------------
(***************************************************************************)
(* The isolated database bench (isolated_docker_bench.py,                   *)
(* isolated_bench_runtime.py): attempts that create or reuse the campaign's  *)
(* two containers, start them, run the stages under a resource monitor,     *)
(* which is a thread of the same process, and stop them whatever happened.  *)
(*                                                                         *)
(* Attempts may follow each other or overlap: nothing in the code keeps two  *)
(* controllers of one campaign apart.  What a stage computes is reduced to  *)
(* whether it could: both engines have to answer throughout it.             *)
(***************************************************************************)
EXTENDS Naturals, Sequences

CONSTANTS
  Attempts,    \* controller processes ever started on the campaign
  Engines,     \* the containers, in the order of IMAGES
  Stages,      \* how many sizes a performance campaign goes through
  MaxTries,    \* bound: connections wait_for attempts in its 60 seconds
  MaxSignals,  \* bound: SIGTERM or SIGHUP received, by all attempts
  MaxKills,    \* bound: attempts killed or lost with their host's process
  MaxChanges   \* bound: changes of the historical containers' metadata

ASSUME BoundsAssumption ==
  /\ Stages \in Nat /\ MaxTries \in Nat /\ MaxSignals \in Nat
  /\ MaxKills \in Nat /\ MaxChanges \in Nat
  /\ Engines \in Seq(STRING)

VARIABLES
  \* the host
  box,       \* each container: absent, stopped, running
  private,   \* surreal.private.env exists
  recorded,  \* objects.json exists
  strained,  \* a resource guard would trip now
  history,   \* version of the historical containers' metadata
  signals,   \* signals so far
  kills,     \* kills so far
  \* each attempt
  pc,        \* what its main thread does next
  at,        \* the engine or the stage it is at, or its tries
  todo,      \* stages it was asked for
  staged,    \* stages it listed as VERIFIED
  known,     \* it has the campaign's objects
  before,    \* history as its preflight saw it
  status,    \* its outcome's status
  unstopped, \* it recorded a stop_error
  result,    \* the status in its result.json, "none" without one
  thread,    \* its monitor: none, made, watching, stopping, ended
  ending,    \* the monitor's end event
  failed     \* the monitor's failure is set

host == <<box, private, recorded, strained, history>>
faults == <<signals, kills>>
plan == <<todo, before>>
end == <<status, unstopped, result>>
monitor == <<thread, ending, failed>>
vars == <<host, faults, pc, at, plan, staged, known, end, monitor>>

-----------------------------------------------------------------------------
Boxes == {Engines[i] : i \in 1..Len(Engines)}

\* The body of main's try, step by step.
Trying == {"create", "private", "make", "record", "start", "starting", "monitor", "thread",
           "ready", "load", "baseline", "indexed", "restore", "gate", "discovery",
           "discovery_restore", "final"}
Finally == {"close", "join", "stop", "history", "save"}
Ended == {"over", "crashed", "killed"}

TypeOK ==
  /\ box \in [Boxes -> {"absent", "stopped", "running"}]
  /\ private \in BOOLEAN /\ recorded \in BOOLEAN /\ strained \in BOOLEAN
  /\ history \in 0..MaxChanges /\ signals \in 0..MaxSignals /\ kills \in 0..MaxKills
  /\ pc \in [Attempts -> {"idle"} \cup Trying \cup Finally \cup Ended]
  /\ at \in [Attempts -> Nat] /\ todo \in [Attempts -> {0, Stages}]
  /\ staged \in [Attempts -> 0..Stages]
  /\ known \in [Attempts -> BOOLEAN] /\ before \in [Attempts -> 0..MaxChanges]
  /\ status \in [Attempts -> {"FAILED", "VERIFIED"}]
  /\ unstopped \in [Attempts -> BOOLEAN]
  /\ result \in [Attempts -> {"none", "FAILED", "VERIFIED"}]
  /\ thread \in [Attempts -> {"none", "made", "watching", "stopping", "ended"}]
  /\ ending \in [Attempts -> BOOLEAN] /\ failed \in [Attempts -> BOOLEAN]

Init ==
  /\ box = [e \in Boxes |-> "absent"]
  /\ private = FALSE /\ recorded = FALSE /\ strained = FALSE /\ history = 0
  /\ signals = 0 /\ kills = 0
  /\ pc = [a \in Attempts |-> "idle"] /\ at = [a \in Attempts |-> 0]
  /\ todo = [a \in Attempts |-> 0] /\ before = [a \in Attempts |-> 0]
  /\ staged = [a \in Attempts |-> 0] /\ known = [a \in Attempts |-> FALSE]
  /\ status = [a \in Attempts |-> "FAILED"] /\ unstopped = [a \in Attempts |-> FALSE]
  /\ result = [a \in Attempts |-> "none"]
  /\ thread = [a \in Attempts |-> "none"] /\ ending = [a \in Attempts |-> FALSE]
  /\ failed = [a \in Attempts |-> FALSE]

AllRun == \A e \in Boxes : box[e] = "running"

\* To step p of the main thread, at engine, stage or try i.
Goto(a, p, i) ==
  /\ pc' = [pc EXCEPT ![a] = p]
  /\ at' = [at EXCEPT ![a] = i]

-----------------------------------------------------------------------------
(* Preflight, which is before the try, and create.                         *)

\* preflight refuses a strained host; an attempt begins with its directory.
Preflight(a, n) ==
  /\ pc[a] = "idle"
  /\ ~strained
  /\ todo' = [todo EXCEPT ![a] = n]
  /\ before' = [before EXCEPT ![a] = history]
  /\ Goto(a, "create", 0)
  /\ UNCHANGED <<host, faults, staged, known, end, monitor>>

\* Objects recorded by an earlier attempt are reused.
ReuseObjects(a) ==
  /\ pc[a] = "create"
  /\ recorded
  /\ known' = [known EXCEPT ![a] = TRUE]
  /\ Goto(a, "start", 1)
  /\ UNCHANGED <<host, faults, plan, staged, end, monitor>>

CreateObjects(a) ==
  /\ pc[a] = "create"
  /\ ~recorded
  /\ Goto(a, "private", 0)
  /\ UNCHANGED <<host, faults, plan, staged, known, end, monitor>>

\* O_EXCL: once the credentials exist, only objects.json lets an attempt on.
WritePrivate(a) ==
  /\ pc[a] = "private"
  /\ IF private
       THEN Goto(a, "close", 0) /\ UNCHANGED private
       ELSE Goto(a, "make", 1) /\ private' = TRUE
  /\ UNCHANGED <<box, recorded, strained, history, faults, plan, staged, known, end, monitor>>

\* Mutant: the objects are saved only once the engines have been started.
MakeContainerThenStart(a) ==
  /\ pc[a] = "make"
  /\ box' = [box EXCEPT ![Engines[at[a]]] = "stopped"]
  /\ IF at[a] < Len(Engines) THEN Goto(a, "make", at[a] + 1) ELSE Goto(a, "start", 1)
  /\ UNCHANGED <<private, recorded, strained, history, faults, plan, staged, known, end, monitor>>

MakeContainer(a) ==
  /\ pc[a] = "make"
  /\ box' = [box EXCEPT ![Engines[at[a]]] = "stopped"]
  /\ IF at[a] < Len(Engines) THEN Goto(a, "make", at[a] + 1) ELSE Goto(a, "record", 0)
  /\ UNCHANGED <<private, recorded, strained, history, faults, plan, staged, known, end, monitor>>

Record(a) ==
  /\ pc[a] = "record"
  /\ recorded' = TRUE
  /\ known' = [known EXCEPT ![a] = TRUE]
  /\ Goto(a, "start", 1)
  /\ UNCHANGED <<box, private, strained, history, faults, plan, staged, end, monitor>>

-----------------------------------------------------------------------------
(* Starting the engines and the monitor.                                   *)

\* An engine already running is another attempt's, or a lost one's: refused,
\* and stopped by finally.
InspectEngine(a) ==
  /\ pc[a] = "start"
  /\ box[Engines[at[a]]] # "running"
  /\ Goto(a, "starting", at[a])
  /\ UNCHANGED <<host, faults, plan, staged, known, end, monitor>>

StartEngine(a) ==
  /\ pc[a] = "starting"
  /\ box' = [box EXCEPT ![Engines[at[a]]] = "running"]
  /\ IF at[a] < Len(Engines) THEN Goto(a, "start", at[a] + 1) ELSE Goto(a, "monitor", 0)
  /\ UNCHANGED <<private, recorded, strained, history, faults, plan, staged, known, end, monitor>>

MakeMonitor(a) ==
  /\ pc[a] = "monitor"
  /\ thread' = [thread EXCEPT ![a] = "made"]
  /\ Goto(a, "thread", 0)
  /\ UNCHANGED <<host, faults, plan, staged, known, end, ending, failed>>

\* What sample refuses: the host's guards, an engine that is not running.
SamplePasses == ~strained /\ AllRun

\* The first sample is the main thread's own.
StartThread(a) ==
  /\ pc[a] = "thread"
  /\ SamplePasses
  /\ thread' = [thread EXCEPT ![a] = "watching"]
  /\ Goto(a, "ready", 0)
  /\ UNCHANGED <<host, faults, plan, staged, known, end, ending, failed>>

-----------------------------------------------------------------------------
(* run: each of its steps needs both engines, and calls monitor.check.      *)
\* The stage after n, or the qualification of the discovery cache.
GotoStage(a, n) ==
  IF n < todo[a] THEN Goto(a, "load", n) ELSE Goto(a, "discovery", n)

\* A client is tried again until an engine answers.
WaitFor(a) ==
  /\ ~failed[a]
  /\ \/ AllRun /\ GotoStage(a, 0)
     \/ at[a] < MaxTries /\ Goto(a, "ready", at[a] + 1)

Connect(a) ==
  /\ pc[a] = "ready"
  /\ WaitFor(a)
  /\ UNCHANGED <<host, faults, plan, staged, known, end, monitor>>

\* What every step of a stage takes: its connections to both databases, and a
\* monitor that has not tripped.
StageWorks(a) == ~failed[a] /\ AllRun

LoadBatches(a) ==
  /\ pc[a] = "load"
  /\ StageWorks(a)
  /\ Goto(a, "baseline", at[a])
  /\ UNCHANGED <<host, faults, plan, staged, known, end, monitor>>

RunQueries(a) ==
  /\ pc[a] \in {"baseline", "indexed"}
  /\ StageWorks(a)
  /\ Goto(a, IF pc[a] = "baseline" THEN "indexed" ELSE "restore", at[a])
  /\ UNCHANGED <<host, faults, plan, staged, known, end, monitor>>

\* The stage's artifacts are saved and the stage listed before the gate.
RestoreStage(a) ==
  /\ pc[a] = "restore"
  /\ StageWorks(a)
  /\ staged' = [staged EXCEPT ![a] = @ + 1]
  /\ Goto(a, "gate", at[a])
  /\ UNCHANGED <<host, faults, plan, known, end, monitor>>

\* The main thread samples before it advances to the next size.
Gate(a) ==
  /\ pc[a] = "gate"
  /\ SamplePasses
  /\ GotoStage(a, at[a] + 1)
  /\ UNCHANGED <<host, faults, plan, staged, known, end, monitor>>

\* The imports, the replays and what each engine must refuse.
DiscoveryQualification(a) ==
  /\ pc[a] = "discovery"
  /\ ~failed[a] /\ AllRun
  /\ Goto(a, "discovery_restore", 0)
  /\ UNCHANGED <<host, faults, plan, staged, known, end, monitor>>

\* What they hold is exported and restored into new databases.
DiscoveryRestore(a) ==
  /\ pc[a] = "discovery_restore"
  /\ ~failed[a] /\ AllRun
  /\ Goto(a, "final", 0)
  /\ UNCHANGED <<host, faults, plan, staged, known, end, monitor>>

Verify(a) ==
  /\ pc[a] = "final"
  /\ ~failed[a]
  /\ status' = [status EXCEPT ![a] = "VERIFIED"]
  /\ Goto(a, "close", 0)
  /\ UNCHANGED <<host, faults, plan, staged, known, unstopped, result, monitor>>

\* Whatever is raised in the try, by any of its steps, ends in finally.
Fail(a) ==
  /\ pc[a] \in Trying
  /\ Goto(a, "close", 0)
  /\ UNCHANGED <<host, faults, plan, staged, known, end, monitor>>

-----------------------------------------------------------------------------
(* The monitor's thread.                                                   *)

Sample(a) ==
  /\ thread[a] = "watching"
  /\ ~SamplePasses
  /\ failed' = [failed EXCEPT ![a] = TRUE]
  /\ thread' = [thread EXCEPT ![a] = "stopping"]
  /\ UNCHANGED <<host, faults, pc, at, plan, staged, known, end, ending>>

MonitorStops(a, e) ==
  /\ thread[a] = "stopping"
  /\ box[e] = "running"
  /\ box' = [box EXCEPT ![e] = "stopped"]
  /\ UNCHANGED <<private, recorded, strained, history, faults, pc, at, plan, staged, known, end, monitor>>

\* It returns, whether or not it could stop them all, or at the end event.
MonitorEnds(a) ==
  /\ \/ thread[a] = "stopping"
     \/ thread[a] = "watching" /\ ending[a]
  /\ thread' = [thread EXCEPT ![a] = "ended"]
  /\ UNCHANGED <<host, faults, pc, at, plan, staged, known, end, ending, failed>>

-----------------------------------------------------------------------------
(* main's finally.  An exception in it, its stop apart, leaves the rest      *)
(* undone.                                                                 *)

\* The process exits, and with it a monitor that was still running.
Exits(a, p) ==
  /\ Goto(a, p, 0)
  /\ thread' = [thread EXCEPT ![a] = IF @ = "none" THEN @ ELSE "ended"]

\* A thread that was not started cannot be joined: close raises.
CloseMonitor(a) ==
  /\ pc[a] = "close"
  /\ IF thread[a] = "made"
       THEN Exits(a, "crashed") /\ UNCHANGED ending
       ELSE /\ ending' = [ending EXCEPT ![a] = TRUE]
            /\ Goto(a, "join", 0)
            /\ UNCHANGED thread
  /\ UNCHANGED <<host, faults, plan, staged, known, end, failed>>

\* Mutant: a monitor that tripped is trusted to have stopped both engines.
JoinTrustsMonitor(a) ==
  /\ pc[a] = "join"
  /\ IF known[a] /\ ~failed[a] THEN Goto(a, "stop", 1) ELSE Goto(a, "history", 0)
  /\ UNCHANGED <<host, faults, plan, staged, known, end, monitor>>

\* The thread has ended, or 30 seconds have passed.  Without objects there is
\* nothing to stop.
Join(a) ==
  /\ pc[a] = "join"
  /\ IF known[a] THEN Goto(a, "stop", 1) ELSE Goto(a, "history", 0)
  /\ UNCHANGED <<host, faults, plan, staged, known, end, monitor>>

NextStop(a) ==
  IF at[a] < Len(Engines) THEN Goto(a, "stop", at[a] + 1) ELSE Goto(a, "history", 0)

StopEngine(a) ==
  /\ pc[a] = "stop"
  /\ box' = [box EXCEPT ![Engines[at[a]]] = "stopped"]
  /\ NextStop(a)
  /\ UNCHANGED <<private, recorded, strained, history, faults, plan, staged, known, end, monitor>>

\* Mutant: the failed stop is reported, and the status kept.
StopFailsQuietly(a) ==
  /\ pc[a] = "stop"
  /\ unstopped' = [unstopped EXCEPT ![a] = TRUE]
  /\ NextStop(a)
  /\ UNCHANGED <<host, faults, plan, staged, known, status, result, monitor>>

\* An engine that could not be stopped does not keep the other from being
\* stopped, and fails the attempt.
StopFails(a) ==
  /\ pc[a] = "stop"
  /\ unstopped' = [unstopped EXCEPT ![a] = TRUE]
  /\ status' = [status EXCEPT ![a] = "FAILED"]
  /\ NextStop(a)
  /\ UNCHANGED <<host, faults, plan, staged, known, result, monitor>>

CompareHistory(a) ==
  /\ pc[a] = "history"
  /\ status' = [status EXCEPT ![a] = IF history = before[a] THEN @ ELSE "FAILED"]
  /\ Goto(a, "save", 0)
  /\ UNCHANGED <<host, faults, plan, staged, known, unstopped, result, monitor>>

SaveResult(a) ==
  /\ pc[a] = "save"
  /\ result' = [result EXCEPT ![a] = status[a]]
  /\ Exits(a, "over")
  /\ UNCHANGED <<host, faults, plan, staged, known, status, unstopped, ending, failed>>

-----------------------------------------------------------------------------
(* Faults and the rest of the host.                                        *)

\* A signal's exception inside finally, outside stop, which reports it; or an
\* artifact that cannot be saved there.
Interrupt(a) ==
  /\ signals < MaxSignals
  /\ signals' = signals + 1
  /\ pc[a] \in Finally \ {"stop"}
  /\ Exits(a, "crashed")
  /\ UNCHANGED <<host, kills, plan, staged, known, end, ending, failed>>

Kill(a) ==
  /\ kills < MaxKills
  /\ kills' = kills + 1
  /\ pc[a] \in Trying \cup Finally
  /\ Exits(a, "killed")
  /\ UNCHANGED <<host, signals, plan, staged, known, end, ending, failed>>

EngineExits(e) ==
  /\ box[e] = "running"
  /\ box' = [box EXCEPT ![e] = "stopped"]
  /\ UNCHANGED <<private, recorded, strained, history, faults, pc, at, plan, staged, known, end, monitor>>

Strain ==
  /\ strained' = ~strained
  /\ UNCHANGED <<box, private, recorded, history, faults, pc, at, plan, staged, known, end, monitor>>

HistoryChanges ==
  /\ history < MaxChanges
  /\ history' = history + 1
  /\ UNCHANGED <<box, private, recorded, strained, faults, pc, at, plan, staged, known, end, monitor>>

Main(a) ==
  \/ ReuseObjects(a) \/ CreateObjects(a) \/ WritePrivate(a) \/ MakeContainer(a) \/ Record(a)
  \/ InspectEngine(a) \/ StartEngine(a) \/ MakeMonitor(a) \/ StartThread(a) \/ Connect(a)
  \/ LoadBatches(a) \/ RunQueries(a) \/ RestoreStage(a) \/ Gate(a) \/ DiscoveryQualification(a)
  \/ DiscoveryRestore(a) \/ Verify(a) \/ Fail(a)
  \/ CloseMonitor(a) \/ Join(a) \/ StopEngine(a) \/ StopFails(a) \/ CompareHistory(a) \/ SaveResult(a)

Next ==
  \/ \E a \in Attempts, n \in {0, Stages} : Preflight(a, n)
  \/ \E a \in Attempts : Main(a)
  \/ \E a \in Attempts : Sample(a)
  \/ \E a \in Attempts, e \in Boxes : MonitorStops(a, e)
  \/ \E a \in Attempts : MonitorEnds(a)
  \/ \E a \in Attempts : Interrupt(a)
  \/ \E a \in Attempts : Kill(a)
  \/ \E e \in Boxes : EngineExits(e)
  \/ Strain
  \/ HistoryChanges

Spec == Init /\ [][Next]_vars

-----------------------------------------------------------------------------
(* What the controller is for.                                             *)

\* Whatever is running is named in objects.json, so that the next attempt
\* knows it and stops it, wherever the last one was lost (create saves the
\* objects before anything is started).
RunningIsRecorded == \A e \in Boxes : box[e] = "running" => recorded

\* When every attempt that was begun has saved its result, and none a
\* stop_error, no container is left running, even if attempts overlapped and
\* stopped each other's (main's finally).
FinishedIsStopped ==
  (\A a \in Attempts : pc[a] \in {"idle", "over"} /\ ~unstopped[a])
    => \A e \in Boxes : box[e] # "running"

\* A result of VERIFIED is of an attempt that went through every size it was
\* asked for and stopped the containers it knew (main, run).
VerifiedIsWhole ==
  \A a \in Attempts : result[a] = "VERIFIED" =>
    staged[a] = todo[a] /\ known[a] /\ ~unstopped[a]

\* The controller stops its two containers in finally (the checkpoint of 28
\* October 2026): an attempt that nobody interrupted and that reported no
\* stop_error leaves nothing running.
StoppedInFinally ==
  (\A a \in Attempts : pc[a] \in {"idle", "over", "crashed"} /\ ~unstopped[a])
    => \A e \in Boxes : box[e] # "running"
=============================================================================
