------------------------ MODULE BenchCampaignProofs ------------------------
(***************************************************************************)
(* BenchCampaign, for any attempts, engines and stages: what is running is  *)
(* owed a stop by somebody, and what is verified went through every stage.  *)
(***************************************************************************)
EXTENDS BenchCampaign, TLAPS

\* What one attempt does, its monitor and its faults included.
Of(a) ==
  \/ \E n \in {0, Stages} : Preflight(a, n)
  \/ Main(a) \/ Sample(a) \/ MonitorEnds(a) \/ Interrupt(a) \/ Kill(a)

\* What happens to the host, a monitor's stops included.
OfHost ==
  \/ \E a \in Attempts, e \in Boxes : MonitorStops(a, e)
  \/ \E e \in Boxes : EngineExits(e)
  \/ Strain \/ HistoryChanges

LEMMA StepOfOne == Next => OfHost \/ \E a \in Attempts : Of(a)
BY DEF Next, Of, OfHost

-----------------------------------------------------------------------------
(* Types, in parts: the provers treat flags, labels and numbers apart.     *)

Flags == private \in BOOLEAN /\ recorded \in BOOLEAN /\ strained \in BOOLEAN

HostTypes ==
  /\ box \in [Boxes -> {"absent", "stopped", "running"}]
  /\ history \in 0..MaxChanges /\ signals \in 0..MaxSignals /\ kills \in 0..MaxKills

PcType == pc \in [Attempts -> {"idle"} \cup Trying \cup Finally \cup Ended]

Place == at \in [Attempts -> Nat]

Plan == todo \in [Attempts -> {0, Stages}] /\ before \in [Attempts -> 0..MaxChanges]

StagedType == staged \in [Attempts -> 0..Stages]

Words ==
  /\ status \in [Attempts -> {"FAILED", "VERIFIED"}]
  /\ result \in [Attempts -> {"none", "FAILED", "VERIFIED"}]
  /\ thread \in [Attempts -> {"none", "made", "watching", "stopping", "ended"}]

OwnFlags ==
  /\ known \in [Attempts -> BOOLEAN] /\ unstopped \in [Attempts -> BOOLEAN]
  /\ ending \in [Attempts -> BOOLEAN] /\ failed \in [Attempts -> BOOLEAN]

LEMMA TypeParts == TypeOK <=> Flags /\ PcType /\ HostTypes /\ OwnFlags /\ Place /\ Plan /\ StagedType /\ Words
BY DEF TypeOK, Flags, PcType, HostTypes, OwnFlags, Place, Plan, StagedType, Words

LEMMA PcStep == ASSUME PcType, [Next]_vars PROVE PcType'
<1> USE DEF PcType, Goto
<1>1. ASSUME NEW a \in Attempts, Of(a) PROVE PcType'
  <2> SUFFICES ASSUME NEW p \in {"idle"} \cup Trying \cup Finally \cup Ended, pc' = [pc EXCEPT ![a] = p] PROVE PcType'
    <3>1. PICK p \in {pc[a]} \cup Trying \cup Finally \cup Ended : pc' = [pc EXCEPT ![a] = p] \/ pc' = pc
      <4> USE DEF Trying, Finally, Ended
      <4>1. CASE \E n \in {0, Stages} : Preflight(a, n)
        BY <4>1 DEF Preflight
      <4>2. CASE ReuseObjects(a) \/ CreateObjects(a) \/ WritePrivate(a) \/ MakeContainer(a) \/ Record(a)
        BY <4>2 DEF ReuseObjects, CreateObjects, WritePrivate, MakeContainer, Record
      <4>3. CASE InspectEngine(a) \/ StartEngine(a) \/ MakeMonitor(a) \/ StartThread(a)
        BY <4>3 DEF InspectEngine, StartEngine, MakeMonitor, StartThread
      <4>4. CASE Connect(a) \/ LoadBatches(a) \/ RunQueries(a) \/ RestoreStage(a) \/ Gate(a)
        BY <4>4 DEF Connect, WaitFor, GotoStage, LoadBatches, RunQueries, RestoreStage, Gate
      <4>5. CASE DiscoveryQualification(a) \/ DiscoveryRestore(a) \/ Verify(a) \/ Fail(a)
        BY <4>5 DEF DiscoveryQualification, DiscoveryRestore, Verify, Fail
      <4>6. CASE CloseMonitor(a) \/ Join(a) \/ StopEngine(a) \/ StopFails(a) \/ CompareHistory(a)
        BY <4>6 DEF CloseMonitor, Exits, Join, NextStop, StopEngine, StopFails, CompareHistory
      <4>7. CASE SaveResult(a) \/ Interrupt(a) \/ Kill(a)
        BY <4>7 DEF SaveResult, Interrupt, Kill, Exits
      <4>8. CASE Sample(a) \/ MonitorEnds(a)
        BY <4>8 DEF Sample, MonitorEnds
      <4> QED
        BY <1>1, <4>1, <4>2, <4>3, <4>4, <4>5, <4>6, <4>7, <4>8 DEF Of, Main
    <3> QED
      BY <3>1
  <2> QED
    OBVIOUS
<1>2. CASE OfHost
  BY <1>2 DEF OfHost, MonitorStops, EngineExits, Strain, HistoryChanges
<1>3. CASE UNCHANGED vars
  BY <1>3 DEF vars
<1> QED
  BY <1>1, <1>2, <1>3, StepOfOne

-----------------------------------------------------------------------------
(* What no step does, seen action by action.  An action is a few assignments *)
(* to one attempt and to the host, so a step is looked into with all of them *)
(* in sight, and the lemmas on parts of the state cite no action by name.    *)
USE DEF Of, Main, Preflight, ReuseObjects, CreateObjects, WritePrivate, MakeContainer, Record,
  InspectEngine, StartEngine, MakeMonitor, StartThread, Connect, LoadBatches, RunQueries, RestoreStage,
  Gate, DiscoveryQualification, DiscoveryRestore, Verify, Fail, CloseMonitor, Join, StopEngine, StopFails,
  CompareHistory, SaveResult, Sample, MonitorEnds, Interrupt, Kill,
  OfHost, MonitorStops, EngineExits, Strain, HistoryChanges

LEMMA FlagsStep == ASSUME Flags, [Next]_vars PROVE Flags'
<1> USE DEF Flags
<1>1. ASSUME NEW a \in Attempts, Of(a) PROVE Flags'
  BY <1>1, Zenon DEF host
<1>2. CASE OfHost
  BY <1>2, Zenon
<1>3. CASE UNCHANGED vars
  BY <1>3, Zenon DEF vars, host
<1> QED
  BY <1>1, <1>2, <1>3, StepOfOne

LEMMA HostStep == ASSUME HostTypes, [Next]_vars PROVE HostTypes'
<1> USE BoundsAssumption DEF BoundsAssumption, HostTypes
<1>1. ASSUME NEW a \in Attempts, Of(a) PROVE HostTypes'
  BY <1>1 DEF host, faults
<1>2. CASE OfHost
  BY <1>2 DEF faults
<1>3. CASE UNCHANGED vars
  BY <1>3 DEF vars, host, faults
<1> QED
  BY <1>1, <1>2, <1>3, StepOfOne

LEMMA PlaceStep == ASSUME Place, [Next]_vars PROVE Place'
<1> USE DEF Place
<1>1. ASSUME NEW a \in Attempts, Of(a) PROVE Place'
  BY <1>1 DEF WaitFor, GotoStage, NextStop, Exits, Goto
<1>2. CASE OfHost
  BY <1>2
<1>3. CASE UNCHANGED vars
  BY <1>3 DEF vars
<1> QED
  BY <1>1, <1>2, <1>3, StepOfOne

LEMMA PlanStep == ASSUME HostTypes, Plan, [Next]_vars PROVE Plan'
<1> USE DEF Plan
<1>1. ASSUME NEW a \in Attempts, Of(a) PROVE Plan'
  BY <1>1 DEF HostTypes, plan
<1>2. CASE OfHost
  BY <1>2 DEF plan
<1>3. CASE UNCHANGED vars
  BY <1>3 DEF vars, plan
<1> QED
  BY <1>1, <1>2, <1>3, StepOfOne

LEMMA WordsStep == ASSUME Words, [Next]_vars PROVE Words'
<1> USE DEF Words
<1>1. ASSUME NEW a \in Attempts, Of(a) PROVE Words'
  BY <1>1 DEF Exits, end, monitor
<1>2. CASE OfHost
  BY <1>2 DEF end, monitor
<1>3. CASE UNCHANGED vars
  BY <1>3 DEF vars, end, monitor
<1> QED
  BY <1>1, <1>2, <1>3, StepOfOne

LEMMA OwnFlagsStep == ASSUME OwnFlags, [Next]_vars PROVE OwnFlags'
<1> USE DEF OwnFlags
<1>1. ASSUME NEW a \in Attempts, Of(a) PROVE OwnFlags'
  BY <1>1 DEF Exits, end, monitor
<1>2. CASE OfHost
  BY <1>2 DEF end, monitor
<1>3. CASE UNCHANGED vars
  BY <1>3 DEF vars, end, monitor
<1> QED
  BY <1>1, <1>2, <1>3, StepOfOne

\* staged stays a function of the attempts; its values are Staged's.
LEMMA StagedStep == ASSUME StagedType, [Next]_vars PROVE staged' = [a \in Attempts |-> staged'[a]]
<1> USE DEF StagedType
<1>1. ASSUME NEW a \in Attempts, Of(a) PROVE staged' = [b \in Attempts |-> staged'[b]]
  BY <1>1 DEF plan
<1>2. CASE OfHost
  BY <1>2
<1>3. CASE UNCHANGED vars
  BY <1>3 DEF vars
<1> QED
  BY <1>1, <1>2, <1>3, StepOfOne

\* The step of one attempt changes no other's.
SameAttempt(b) ==
  /\ pc'[b] = pc[b] /\ at'[b] = at[b] /\ todo'[b] = todo[b] /\ staged'[b] = staged[b]
  /\ known'[b] = known[b] /\ status'[b] = status[b] /\ unstopped'[b] = unstopped[b] /\ result'[b] = result[b]

LEMMA OthersStay ==
  ASSUME TypeOK, NEW a \in Attempts, Of(a), NEW b \in Attempts, b # a
  PROVE  SameAttempt(b)
<1>1. pc'[b] = pc[b] /\ at'[b] = at[b]
  BY TypeParts DEF PcType, Place, Goto, WaitFor, GotoStage, NextStop, Exits
<1>2. todo'[b] = todo[b] /\ staged'[b] = staged[b]
  BY TypeParts DEF Plan, StagedType, plan
<1>3. known'[b] = known[b] /\ unstopped'[b] = unstopped[b]
  BY TypeParts DEF OwnFlags, end
<1>4. status'[b] = status[b] /\ result'[b] = result[b]
  BY TypeParts DEF Words, end
<1> QED
  BY <1>1, <1>2, <1>3, <1>4 DEF SameAttempt

LEMMA HostStays == ASSUME OfHost, NEW b \in Attempts PROVE SameAttempt(b)
BY DEF SameAttempt, plan, end

\* Nothing removes objects.json.
LEMMA RecordedLasts == ASSUME [Next]_vars, recorded PROVE recorded'
<1>1. ASSUME NEW a \in Attempts, Of(a) PROVE recorded'
  BY <1>1, Zenon DEF host
<1>2. CASE OfHost
  BY <1>2, Zenon
<1>3. CASE UNCHANGED vars
  BY <1>3, Zenon DEF vars, host
<1> QED
  BY <1>1, <1>2, <1>3, StepOfOne

\* An attempt learns the objects from the record or makes it.
LEMMA Learns == ASSUME NEW a \in Attempts, Of(a) PROVE known' = known \/ recorded'
<1> HIDE DEF Of, Main
<1>1. CASE ReuseObjects(a) \/ Record(a)
  <2>1. CASE ReuseObjects(a)
    BY <2>1, Zenon DEF host
  <2>2. CASE Record(a)
    BY <2>2, Zenon
  <2> QED
    BY <1>1, <2>1, <2>2
<1>2. CASE Main(a) /\ ~ReuseObjects(a) /\ ~Record(a)
  BY <1>2, Zenon DEF Main
<1>3. CASE ~Main(a)
  BY <1>3, Zenon DEF Of
<1> QED
  BY <1>1, <1>2, <1>3

\* Only StartEngine makes an engine run.
LEMMA OnlyStartEngine ==
  ASSUME HostTypes, NEW e \in Boxes, box'[e] = "running",
         OfHost \/ \E a \in Attempts : Of(a) /\ ~StartEngine(a)
  PROVE  box[e] = "running"
BY DEF HostTypes, host

\* What an attempt knows, and a stop_error, last.
LEMMA Lasting ==
  ASSUME OwnFlags, NEW a \in Attempts, Of(a)
  PROVE  (known[a] => known'[a]) /\ (unstopped[a] => unstopped'[a])
BY DEF OwnFlags, end

\* From the try an attempt only goes to finally, and through it step by step;
\* it is over only after its last stop.
LEMMA Course ==
  ASSUME PcType, NEW a \in Attempts, Of(a)
  PROVE  /\ pc[a] \in {"crashed", "killed"} => pc'[a] = pc[a]
         /\ pc[a] \in Trying => pc'[a] \in Trying \cup {"close", "crashed", "killed"}
         /\ pc[a] = "close" => pc'[a] \in {"close", "join", "crashed", "killed"}
         /\ pc[a] = "join" => Join(a) \/ pc'[a] \in {"join", "crashed", "killed"}
<1> USE DEF PcType, Trying, Finally, Goto, Exits
<1>1. pc[a] \in {"crashed", "killed"} => pc'[a] = pc[a]
  OBVIOUS
<1>2. pc[a] \in Trying => pc'[a] \in Trying \cup {"close", "crashed", "killed"}
  BY DEF WaitFor, GotoStage
<1>3. pc[a] = "close" => pc'[a] \in {"close", "join", "crashed", "killed"}
  OBVIOUS
<1>4. pc[a] = "join" => Join(a) \/ pc'[a] \in {"join", "crashed", "killed"}
  OBVIOUS
<1> QED
  BY <1>1, <1>2, <1>3, <1>4

\* At its stops an attempt stops the engine, reports that it could not, or is lost.
LEMMA Stopping ==
  ASSUME NEW a \in Attempts, Of(a), pc[a] = "stop"
  PROVE  StopEngine(a) \/ StopFails(a) \/ Interrupt(a) \/ Kill(a) \/ Sample(a) \/ MonitorEnds(a)
BY DEF Trying

HIDE DEF Of, Main, Preflight, ReuseObjects, CreateObjects, WritePrivate, MakeContainer, Record,
  InspectEngine, StartEngine, MakeMonitor, StartThread, Connect, LoadBatches, RunQueries, RestoreStage,
  Gate, DiscoveryQualification, DiscoveryRestore, Verify, Fail, CloseMonitor, Join, StopEngine, StopFails,
  CompareHistory, SaveResult, Sample, MonitorEnds, Interrupt, Kill,
  OfHost, MonitorStops, EngineExits, Strain, HistoryChanges

-----------------------------------------------------------------------------
(* What one attempt knows of itself.                                       *)

\* Before an attempt is done with its objects.
Creating == {"create", "private", "make", "record"}

\* The stages that an attempt listed are those it went through.
Staged(a) ==
  /\ staged[a] \in Nat /\ staged[a] <= todo[a]
  /\ pc[a] \in {"idle"} \cup Creating \cup {"start", "starting", "monitor", "thread", "ready"} => staged[a] = 0
  /\ pc[a] \in {"load", "baseline", "indexed", "restore"} => staged[a] = at[a] /\ at[a] < todo[a]
  /\ pc[a] = "gate" => staged[a] = at[a] + 1
  /\ pc[a] \in {"discovery", "discovery_restore", "final"} => staged[a] = todo[a]

\* What is past create has the objects.
Knows(a) == pc[a] \in Trying \ Creating => known[a]

\* A status is VERIFIED from the end of the try on, and only a complete one.
Verdict(a) ==
  /\ pc[a] \in {"idle"} \cup Trying => status[a] = "FAILED" /\ ~unstopped[a]
  /\ status[a] = "VERIFIED" => staged[a] = todo[a] /\ known[a] /\ ~unstopped[a]
  /\ result[a] # "none" => pc[a] = "over" /\ result[a] = status[a]

Local(a) == Staged(a) /\ Knows(a) /\ Verdict(a)

(* What attempts owe each other.                                           *)

\* An attempt that knows the two containers has objects.json to know them by.
KnownIsRecorded == \A a \in Attempts : known[a] => recorded

\* An attempt that will stop engine e, or has not ended as it should.
Owes(a, e) ==
  \/ pc[a] \in {"crashed", "killed"} \/ unstopped[a]
  \/ pc[a] \in Trying \cup {"close", "join"} /\ known[a]
  \/ pc[a] = "stop" /\ \E i \in 1..Len(Engines) : at[a] <= i /\ Engines[i] = e

RunningIsOwed == \A e \in Boxes : box[e] = "running" => \E a \in Attempts : Owes(a, e)

IInv == (\A a \in Attempts : Local(a)) /\ KnownIsRecorded /\ RunningIsRecorded /\ RunningIsOwed

-----------------------------------------------------------------------------
(* Every step keeps it.                                                    *)
LEMMA LocalStep ==
  ASSUME TypeOK, NEW a \in Attempts, Local(a), Of(a)
  PROVE  Local(a)'
<1>0. /\ PcType /\ Place /\ Plan /\ StagedType /\ OwnFlags /\ Words
  BY TypeParts
<1>s. at[a] \in Nat /\ todo[a] \in Nat /\ staged[a] \in Nat
  BY <1>0, BoundsAssumption DEF Place, Plan, StagedType, BoundsAssumption
<1> USE BoundsAssumption DEF BoundsAssumption, Local, Staged, Knows, Verdict, Trying, Finally, Creating, Goto, plan, end
<1>1. ASSUME NEW n \in {0, Stages}, Preflight(a, n) PROVE Local(a)'
  BY <1>0, <1>1 DEF Preflight, PcType, Place, Plan, StagedType, OwnFlags, Words
<1>2. CASE Main(a)
  <2>1. CASE ReuseObjects(a)
    BY <1>0, <2>1 DEF ReuseObjects, PcType, Place, Plan, StagedType, OwnFlags, Words
  <2>2. CASE CreateObjects(a)
    BY <1>0, <2>2 DEF CreateObjects, PcType, Place, Plan, StagedType, OwnFlags, Words
  <2>3. CASE WritePrivate(a)
    BY <1>0, <2>3 DEF WritePrivate, PcType, Place, Plan, StagedType, OwnFlags, Words
  <2>4. CASE MakeContainer(a)
    BY <1>0, <2>4 DEF MakeContainer, PcType, Place, Plan, StagedType, OwnFlags, Words
  <2>5. CASE Record(a)
    BY <1>0, <2>5 DEF Record, PcType, Place, Plan, StagedType, OwnFlags, Words
  <2>6. CASE InspectEngine(a)
    BY <1>0, <2>6 DEF InspectEngine, PcType, Place, Plan, StagedType, OwnFlags, Words
  <2>7. CASE StartEngine(a)
    BY <1>0, <2>7 DEF StartEngine, PcType, Place, Plan, StagedType, OwnFlags, Words
  <2>8. CASE MakeMonitor(a)
    BY <1>0, <2>8 DEF MakeMonitor, PcType, Place, Plan, StagedType, OwnFlags, Words
  <2>9. CASE StartThread(a)
    BY <1>0, <2>9 DEF StartThread, PcType, Place, Plan, StagedType, OwnFlags, Words
  <2>10. CASE Connect(a)
    BY <1>0, <2>10 DEF Connect, WaitFor, GotoStage, PcType, Place, Plan, StagedType, OwnFlags, Words
  <2>11. CASE LoadBatches(a)
    BY <1>0, <2>11 DEF LoadBatches, PcType, Place, Plan, StagedType, OwnFlags, Words
  <2>12. CASE RunQueries(a)
    BY <1>0, <2>12 DEF RunQueries, PcType, Place, Plan, StagedType, OwnFlags, Words
  <2>13. CASE RestoreStage(a)
    <3>1. pc[a] = "restore" /\ staged[a] = at[a] /\ at[a] < todo[a]
      BY <2>13 DEF RestoreStage
    <3>2. /\ pc'[a] = "gate" /\ at'[a] = at[a] /\ staged'[a] = staged[a] + 1 /\ todo'[a] = todo[a]
          /\ known'[a] = known[a] /\ status'[a] = status[a] /\ unstopped'[a] = unstopped[a] /\ result'[a] = result[a]
      BY <1>0, <2>13 DEF RestoreStage, PcType, Place, StagedType
    <3> QED
      BY <1>s, <3>1, <3>2
  <2>14. CASE Gate(a)
    <3>1. pc[a] = "gate" /\ staged[a] = at[a] + 1
      BY <2>14 DEF Gate
    <3>2. /\ \/ pc'[a] = "load" /\ at'[a] = at[a] + 1 /\ at[a] + 1 < todo[a]
             \/ pc'[a] = "discovery" /\ todo[a] <= at[a] + 1
          /\ staged'[a] = staged[a] /\ todo'[a] = todo[a]
          /\ known'[a] = known[a] /\ status'[a] = status[a] /\ unstopped'[a] = unstopped[a] /\ result'[a] = result[a]
      BY <1>0, <1>s, <2>14 DEF Gate, GotoStage, PcType, Place
    <3> QED
      BY <1>s, <3>1, <3>2
  <2>15. CASE DiscoveryQualification(a)
    BY <1>0, <2>15 DEF DiscoveryQualification, PcType, Place, Plan, StagedType, OwnFlags, Words
  <2>16. CASE DiscoveryRestore(a)
    BY <1>0, <2>16 DEF DiscoveryRestore, PcType, Place, Plan, StagedType, OwnFlags, Words
  <2>17. CASE Verify(a)
    BY <1>0, <2>17 DEF Verify, PcType, Place, Plan, StagedType, OwnFlags, Words
  <2>18. CASE Fail(a)
    BY <1>0, <2>18 DEF Fail, PcType, Place, Plan, StagedType, OwnFlags, Words
  <2>19. CASE CloseMonitor(a)
    BY <1>0, <2>19 DEF CloseMonitor, Exits, PcType, Place, Plan, StagedType, OwnFlags, Words
  <2>20. CASE Join(a)
    BY <1>0, <2>20 DEF Join, PcType, Place, Plan, StagedType, OwnFlags, Words
  <2>21. CASE StopEngine(a)
    BY <1>0, <2>21 DEF StopEngine, NextStop, PcType, Place, Plan, StagedType, OwnFlags, Words
  <2>22. CASE StopFails(a)
    BY <1>0, <2>22 DEF StopFails, NextStop, PcType, Place, Plan, StagedType, OwnFlags, Words
  <2>23. CASE CompareHistory(a)
    BY <1>0, <2>23 DEF CompareHistory, PcType, Place, Plan, StagedType, OwnFlags, Words
  <2>24. CASE SaveResult(a)
    BY <1>0, <2>24 DEF SaveResult, Exits, PcType, Place, Plan, StagedType, OwnFlags, Words
  <2> QED
    BY <1>2, <2>1, <2>2, <2>3, <2>4, <2>5, <2>6, <2>7, <2>8, <2>9, <2>10, <2>11, <2>12,
       <2>13, <2>14, <2>15, <2>16, <2>17, <2>18, <2>19, <2>20, <2>21, <2>22, <2>23, <2>24 DEF Main
<1>3. CASE Sample(a) \/ MonitorEnds(a)
  BY <1>3 DEF Sample, MonitorEnds
<1>4. CASE Interrupt(a) \/ Kill(a)
  BY <1>0, <1>4 DEF Interrupt, Kill, Exits, PcType, Place, Plan, StagedType, OwnFlags, Words
<1> QED
  BY <1>1, <1>2, <1>3, <1>4 DEF Of

LEMMA OtherOwes == ASSUME NEW b \in Attempts, NEW e \in Boxes, Owes(b, e), SameAttempt(b) PROVE Owes(b, e)'
BY DEF Owes, SameAttempt

\* A debt is kept until it is paid.
LEMMA DebtIsKept ==
  ASSUME TypeOK, NEW a \in Attempts, Of(a), NEW e \in Boxes, Owes(a, e), box'[e] = "running"
  PROVE  Owes(a, e)'
<1>0. PcType /\ Place /\ OwnFlags /\ HostTypes
  BY TypeParts
<1>1. (known[a] => known'[a]) /\ (unstopped[a] => unstopped'[a])
  BY <1>0, Lasting
<1>2. CASE pc[a] \in {"crashed", "killed"} \/ unstopped[a]
  BY <1>0, <1>1, <1>2, Course DEF Owes
<1>3. CASE pc[a] \in Trying \cup {"close"} /\ known[a]
  BY <1>0, <1>1, <1>3, Course DEF Owes
<1>4. CASE pc[a] = "join" /\ known[a]
  <2>1. CASE Join(a)
    BY <1>0, <1>1, <1>4, <2>1, BoundsAssumption DEF Join, Goto, PcType, Place, Owes, Boxes, BoundsAssumption
  <2>2. CASE ~Join(a)
    BY <1>0, <1>1, <1>4, <2>2, Course DEF Owes
  <2> QED
    BY <2>1, <2>2
<1>5. ASSUME pc[a] = "stop", NEW i \in 1..Len(Engines), at[a] <= i, Engines[i] = e PROVE Owes(a, e)'
  <2>0. at[a] \in Nat /\ Len(Engines) \in Nat
    BY <1>0, BoundsAssumption DEF Place, BoundsAssumption
  <2>1. CASE StopEngine(a)
    <3>1. Engines[at[a]] # e
      BY <1>0, <2>1 DEF StopEngine, HostTypes
    <3>2. at[a] + 1 <= i /\ at[a] < Len(Engines)
      BY <1>5, <2>0, <3>1
    <3>3. pc'[a] = "stop" /\ at'[a] = at[a] + 1
      BY <1>0, <2>1, <3>2 DEF StopEngine, NextStop, Goto, PcType, Place
    <3> QED
      BY <1>5, <3>2, <3>3 DEF Owes
  <2>2. CASE StopFails(a)
    BY <1>0, <2>2 DEF StopFails, OwnFlags, Owes
  <2>3. CASE Interrupt(a) \/ Kill(a)
    BY <1>0, <2>3 DEF Interrupt, Kill, Exits, Goto, PcType, Owes
  <2>4. CASE Sample(a) \/ MonitorEnds(a)
    BY <1>5, <2>4 DEF Sample, MonitorEnds, Owes
  <2> QED
    BY <1>5, <2>1, <2>2, <2>3, <2>4, Stopping
<1> QED
  BY <1>2, <1>3, <1>4, <1>5 DEF Owes

\* What is running is known to the record and owed a stop.
LEMMA HostInvariant ==
  ASSUME TypeOK, IInv, [Next]_vars
  PROVE  KnownIsRecorded' /\ RunningIsRecorded' /\ RunningIsOwed'
<1>0. OwnFlags /\ HostTypes /\ PcType
  BY TypeParts
<1>1. KnownIsRecorded'
  <2>1. known' = known \/ recorded'
    <3>1. CASE OfHost
      BY <3>1 DEF OfHost, MonitorStops, EngineExits, Strain, HistoryChanges
    <3>2. CASE UNCHANGED vars
      BY <3>2 DEF vars
    <3> QED
      BY <1>0, <3>1, <3>2, StepOfOne, Learns
  <2> QED
    BY <2>1, RecordedLasts DEF IInv, KnownIsRecorded
<1>2. ASSUME NEW a \in Attempts, StartEngine(a) PROVE known[a] /\ recorded
  BY <1>2 DEF StartEngine, IInv, Local, Knows, KnownIsRecorded, Trying, Creating
<1>3. \A e \in Boxes : box'[e] = "running" => box[e] = "running" \/ \E a \in Attempts : StartEngine(a)
  <2>1. UNCHANGED vars => box' = box
    BY DEF vars, host
  <2> QED
    BY <1>0, <2>1, StepOfOne, OnlyStartEngine
<1>4. RunningIsRecorded'
  BY <1>2, <1>3, RecordedLasts DEF IInv, RunningIsRecorded
<1>5. ASSUME NEW e \in Boxes, box'[e] = "running" PROVE \E a \in Attempts : Owes(a, e)'
  <2>1. ASSUME NEW a \in Attempts, StartEngine(a) PROVE Owes(a, e)'
    <3>1. known'[a] /\ pc'[a] \in {"start", "monitor"}
      BY <1>0, <1>2, <2>1 DEF StartEngine, Goto, PcType
    <3> QED
      BY <3>1 DEF Owes, Trying
  <2>2. CASE box[e] = "running"
    <3>1. PICK b \in Attempts : Owes(b, e)
      BY <2>2 DEF IInv, RunningIsOwed
    <3>2. CASE OfHost
      BY <3>1, <3>2, HostStays, OtherOwes
    <3>3. CASE UNCHANGED vars
      BY <3>1, <3>3 DEF vars, end, Owes
    <3>4. ASSUME NEW a \in Attempts, Of(a) PROVE Owes(b, e)'
      BY <1>5, <3>1, <3>4, DebtIsKept, OthersStay, OtherOwes
    <3> QED
      BY <3>1, <3>2, <3>3, <3>4, StepOfOne
  <2> QED
    BY <1>3, <1>5, <2>1, <2>2
<1> QED
  BY <1>1, <1>4, <1>5 DEF RunningIsOwed

LEMMA InitInvariant == Init => TypeOK /\ IInv
<1> SUFFICES ASSUME Init PROVE TypeOK /\ IInv
  OBVIOUS
<1>1. Flags /\ KnownIsRecorded
  BY Zenon DEF Init, Flags, KnownIsRecorded
<1>2. PcType /\ HostTypes /\ OwnFlags /\ Place /\ Plan /\ StagedType /\ Words
  BY BoundsAssumption DEF Init, PcType, HostTypes, OwnFlags, Place, Plan, StagedType, Words, BoundsAssumption
<1>3. ASSUME NEW a \in Attempts PROVE Local(a)
  <2>1. /\ pc[a] = "idle" /\ staged[a] = 0 /\ todo[a] = 0
        /\ status[a] = "FAILED" /\ ~unstopped[a] /\ result[a] = "none"
    BY DEF Init
  <2> QED
    BY <2>1 DEF Local, Staged, Knows, Verdict, Trying
<1>4. RunningIsRecorded /\ RunningIsOwed
  BY DEF Init, RunningIsRecorded, RunningIsOwed
<1> QED
  BY <1>1, <1>2, <1>3, <1>4, TypeParts DEF IInv

LEMMA StepInvariant == ASSUME TypeOK, IInv, [Next]_vars PROVE TypeOK' /\ IInv'
<1>0. Flags /\ PcType /\ HostTypes /\ OwnFlags /\ Place /\ Plan /\ StagedType /\ Words
  BY TypeParts
<1>1. Flags' /\ PcType' /\ HostTypes' /\ OwnFlags' /\ Place' /\ Plan' /\ Words'
  BY <1>0, FlagsStep, PcStep, HostStep, OwnFlagsStep, PlaceStep, PlanStep, WordsStep
<1>2. ASSUME NEW b \in Attempts PROVE Local(b)'
  <2>1. Local(b)
    BY DEF IInv
  <2>2. CASE SameAttempt(b)
    BY <2>1, <2>2 DEF Local, Staged, Knows, Verdict, SameAttempt
  <2>3. UNCHANGED vars => SameAttempt(b)
    BY DEF vars, plan, end, SameAttempt
  <2> QED
    BY <2>1, <2>2, <2>3, StepOfOne, HostStays, OthersStay, LocalStep
<1>3. StagedType'
  <2>1. \A a \in Attempts : staged'[a] \in 0..Stages
    BY <1>1, <1>2, BoundsAssumption DEF Plan, Local, Staged, BoundsAssumption
  <2> QED
    BY <1>0, <2>1, StagedStep DEF StagedType
<1>4. TypeOK'
  BY <1>1, <1>3 DEF TypeOK, Flags, PcType, HostTypes, OwnFlags, Place, Plan, StagedType, Words
<1> QED
  BY <1>2, <1>4, HostInvariant DEF IInv

LEMMA InvariantHolds == Spec => [](TypeOK /\ IInv)
BY InitInvariant, StepInvariant, PTL DEF Spec

-----------------------------------------------------------------------------
\* Every variable keeps its type, for any attempts, engines, stages and bounds.
THEOREM TypeCorrect == Spec => []TypeOK
BY InvariantHolds, PTL

\* A container that runs, wherever the attempt that started it was lost, is
\* named in objects.json (create saves the objects before anything is started).
THEOREM WhatRunsIsRecorded == Spec => []RunningIsRecorded
BY InvariantHolds, PTL DEF IInv

\* Attempts that all saved their results, none with a stop_error, have stopped
\* whatever any of them had started, even if they overlapped (main's finally).
THEOREM ResultsLeaveNothingRunning == Spec => []FinishedIsStopped
<1>1. IInv => FinishedIsStopped
  BY DEF IInv, RunningIsOwed, Owes, FinishedIsStopped, Trying
<1> QED
  BY <1>1, InvariantHolds, PTL

\* A VERIFIED result has every stage that was asked for, knew the objects and has
\* no stop_error (main, run).
THEOREM VerifiedResultsAreWhole == Spec => []VerifiedIsWhole
<1>1. TypeOK /\ IInv => VerifiedIsWhole
  BY DEF IInv, Local, Verdict, VerifiedIsWhole
<1> QED
  BY <1>1, InvariantHolds, PTL
=============================================================================
