------------------------------ MODULE ManualRun ------------------------------
(***************************************************************************)
(* Manual discovery runs and the checkpoints they archive                   *)
(* (manual_discovery_run.py, discovery_checkpoints.py).  Several runs share  *)
(* one archive directory.  A run observes its sources one after the other,  *)
(* archives each success as an immutable checkpoint before it goes on, and  *)
(* reports it to its caller, who may resume a later run from it.  Runs may  *)
(* die anywhere, and the machine may lose power.                            *)
(*                                                                         *)
(* A checkpoint's identity is the hash of its request and of its entry; here *)
(* the source, the context and the time of the observation stand for them.  *)
(* How a source is observed is SourceExecution's, and the names that every   *)
(* module has (Init, Next, Spec...) are prefixed here so that both can be    *)
(* extended together.                                                       *)
(***************************************************************************)
EXTENDS Naturals

CONSTANTS
  Sources, Contexts,
  Runs,        \* bound: the runs ever started
  MaxClock,    \* bound: times
  MaxOutages   \* bound: how many times the power fails

ASSUME BoundsAssumption == MaxClock \in Nat /\ MaxOutages \in Nat

VARIABLES
  \* the archive directory
  files,    \* checkpoints that have their final name
  named,    \* those whose name is on the disk
  synced,   \* those whose content is on the disk, temporary files included
  torn,     \* those whose content a power loss has damaged
  lock,     \* the run that holds .writer.lock, if any
  \* the runs
  place, plan, todo,
  entry,    \* the checkpoint a run is at
  events,   \* what a run has reported, failures apart
  \* their surroundings
  clock, outages

archive == <<files, named, synced, torn, lock>>
runVars == <<archive, place, plan, todo, entry, events, clock, outages>>

-----------------------------------------------------------------------------
Times == 0..MaxClock
Identity == [source: Sources, context: Contexts, captured: Times]

\* What is fixed before the first source: the checkpoints to be reused included.
\* The code has a context for each source; one for the run tells as much.
RunPlan == [context: Contexts, now: Times, age: 0..MaxClock + 1, cached: SUBSET Identity]
Event == [how: {"resumed", "found", "written"}, id: Identity]

Writing == {"look", "write", "sync", "rename", "flush"}
Ended == {"complete", "dead"}

\* The types; the lock is held exactly by a run that is saving.
RunTypeOK ==
  /\ files \subseteq Identity /\ named \subseteq files /\ torn \subseteq files
  /\ synced \subseteq Identity
  /\ \A r, q \in lock : r = q
  /\ place \in [Runs -> {"new", "next", "observe", "lock", "report"} \cup Writing \cup Ended]
  /\ lock = {r \in Runs : place[r] \in Writing}
  /\ DOMAIN plan = Runs /\ \A r \in Runs : place[r] # "new" => plan[r] \in RunPlan
  /\ todo \in [Runs -> SUBSET Sources]
  /\ DOMAIN entry = Runs
  /\ \A r \in Runs : place[r] \in Writing \cup {"lock", "report"} => entry[r] \in Event
  /\ events \in [Runs -> SUBSET Event]
  /\ clock \in Times /\ outages \in 0..MaxOutages

RunInit ==
  /\ files = {} /\ named = {} /\ synced = {} /\ torn = {} /\ lock = {}
  /\ place = [r \in Runs |-> "new"]
  /\ plan = [r \in Runs |-> [context |-> "none", now |-> 0, age |-> 0, cached |-> {}]]
  /\ entry = [r \in Runs |-> [how |-> "none", id |-> "none"]]
  /\ todo = [r \in Runs |-> {}] /\ events = [r \in Runs |-> {}]
  /\ clock = 0 /\ outages = 0

-----------------------------------------------------------------------------
(* Planning.                                                               *)

\* load_checkpoint: the file is there, and its hashes are those of its name.
Loads(id) == id \in files \ torn

\* What callers have been told, and may give back as resume descriptors.
Known == {e.id : e \in UNION {events[r] : r \in Runs}}

\* Mutant: an entry of another account partition is taken for this one's.
ResumableAnywhere(resume, sources, context, now) ==
  /\ \A id \in resume : Loads(id) /\ id.source \in sources /\ id.captured <= now
  /\ \A i, j \in resume : i.source = j.source => i = j

\* One descriptor for a source at most; any that is invalid ends the run here.
Resumable(resume, sources, context, now) ==
  /\ \A id \in resume :
       Loads(id) /\ id.source \in sources /\ id.context = context /\ id.captured <= now
  /\ \A i, j \in resume : i.source = j.source => i = j

Fresh(resume, now, age) == {id \in resume : now - id.captured < age}

Begin(r) ==
  /\ place[r] = "new"
  /\ \E sources \in SUBSET Sources \ {{}}, context \in Contexts, now \in Times,
        age \in 0..MaxClock + 1, resume \in SUBSET Known :
       /\ Resumable(resume, sources, context, now)
       /\ plan' = [plan EXCEPT ![r] =
            [context |-> context, now |-> now, age |-> age, cached |-> Fresh(resume, now, age)]]
       /\ todo' = [todo EXCEPT ![r] = sources]
  /\ place' = [place EXCEPT ![r] = "next"]
  /\ UNCHANGED <<archive, entry, events, clock, outages>>

-----------------------------------------------------------------------------
(* One source.  The caller chose their order, so the next may be any.       *)

Goto(r, label) == place' = [place EXCEPT ![r] = label]

\* A cached checkpoint is reported without looking at the archive again.
Reuse(r) ==
  /\ place[r] = "next"
  /\ \E id \in plan[r].cached :
       /\ id.source \in todo[r]
       /\ todo' = [todo EXCEPT ![r] = @ \ {id.source}]
       /\ entry' = [entry EXCEPT ![r] = [how |-> "resumed", id |-> id]]
  /\ Goto(r, "report")
  /\ UNCHANGED <<archive, plan, events, clock, outages>>

\* execute_source fails: an event without a checkpoint, and the next source.
Fails(r) ==
  /\ place[r] = "next"
  /\ \E s \in todo[r] :
       /\ \A id \in plan[r].cached : id.source # s
       /\ todo' = [todo EXCEPT ![r] = @ \ {s}]
  /\ UNCHANGED <<archive, place, plan, entry, events, clock, outages>>

\* It succeeds: the observation is dated when it was made, or by its fixture.
\* One that is later than the run's own time ends the run.
Observe(r) ==
  /\ place[r] = "next"
  /\ \E s \in todo[r], captured \in {0, clock} :
       /\ \A id \in plan[r].cached : id.source # s
       /\ captured <= plan[r].now
       /\ todo' = [todo EXCEPT ![r] = @ \ {s}]
       /\ entry' = [entry EXCEPT ![r] =
            [how |-> "written", id |-> [source |-> s, context |-> plan[r].context, captured |-> captured]]]
  /\ Goto(r, "lock")
  /\ UNCHANGED <<archive, plan, events, clock, outages>>

\* The event reaches the caller.
Report(r) ==
  /\ place[r] = "report"
  /\ events' = [events EXCEPT ![r] = @ \cup {entry[r]}]
  /\ Goto(r, "next")
  /\ UNCHANGED <<archive, plan, todo, entry, clock, outages>>

Complete(r) ==
  /\ place[r] = "next" /\ todo[r] = {}
  /\ Goto(r, "complete")
  /\ UNCHANGED <<archive, plan, todo, entry, events, clock, outages>>

-----------------------------------------------------------------------------
(* save_checkpoint.                                                        *)

\* A writer that finds the lock taken raises.
Lock(r) ==
  /\ place[r] = "lock" /\ lock = {}
  /\ lock' = {r}
  /\ Goto(r, "look")
  /\ UNCHANGED <<files, named, synced, torn, plan, todo, entry, events, clock, outages>>

\* Found in place with the same bytes: done.  With others: it raises.
Found(r) ==
  /\ place[r] = "look" /\ Loads(entry[r].id)
  /\ entry' = [entry EXCEPT ![r].how = "found"]
  /\ lock' = lock \ {r}
  /\ Goto(r, "report")
  /\ UNCHANGED <<files, named, synced, torn, plan, todo, events, clock, outages>>

Missing(r) ==
  /\ place[r] = "look" /\ entry[r].id \notin files
  /\ Goto(r, "write")
  /\ UNCHANGED <<archive, plan, todo, entry, events, clock, outages>>

\* The temporary file has a random name, which nobody else reads.
Write(r) ==
  /\ place[r] = "write"
  /\ synced' = synced \ {entry[r].id}
  /\ Goto(r, "sync")
  /\ UNCHANGED <<files, named, torn, lock, plan, todo, entry, events, clock, outages>>

Sync(r) ==
  /\ place[r] = "sync"
  /\ synced' = synced \cup {entry[r].id}
  /\ Goto(r, "rename")
  /\ UNCHANGED <<files, named, torn, lock, plan, todo, entry, events, clock, outages>>

\* Mutant: the file is renamed before it is synced.
RenameAtOnce(r) ==
  /\ place[r] \in {"sync", "rename"}
  /\ files' = files \cup {entry[r].id}
  /\ Goto(r, "flush")
  /\ UNCHANGED <<named, synced, torn, lock, plan, todo, entry, events, clock, outages>>

Rename(r) ==
  /\ place[r] = "rename"
  /\ files' = files \cup {entry[r].id}
  /\ Goto(r, "flush")
  /\ UNCHANGED <<named, synced, torn, lock, plan, todo, entry, events, clock, outages>>

\* Mutant: the directory is not synced.
FlushNothing(r) ==
  /\ place[r] = "flush"
  /\ lock' = lock \ {r}
  /\ Goto(r, "report")
  /\ UNCHANGED <<files, named, synced, torn, plan, todo, entry, events, clock, outages>>

\* The fsync of the directory, then the lock is released.
Flush(r) ==
  /\ place[r] = "flush"
  /\ named' = files
  /\ lock' = lock \ {r}
  /\ Goto(r, "report")
  /\ UNCHANGED <<files, synced, torn, plan, todo, entry, events, clock, outages>>

-----------------------------------------------------------------------------
(* Surroundings.                                                           *)

\* A run ends early: it is killed, a step of it raises, the lock is taken, an
\* observation is of the future, its callback raises.
Dies(r) ==
  /\ place[r] \notin {"new"} \cup Ended
  /\ Goto(r, "dead")
  /\ lock' = lock \ {r}
  /\ UNCHANGED <<files, named, synced, torn, plan, todo, entry, events, clock, outages>>

\* Names that no fsync followed may be gone, contents that none did are damaged.
PowerLoss ==
  /\ outages < MaxOutages
  /\ outages' = outages + 1
  /\ \E kept \in SUBSET (files \ named), damaged \in SUBSET Identity :
       /\ damaged \subseteq (named \cup kept) \ synced
       /\ files' = named \cup kept
       /\ torn' = (torn \cap files') \cup damaged
  /\ named' = files' /\ synced' = synced \cap files'
  /\ lock' = {}
  /\ place' = [r \in Runs |-> IF place[r] \in {"new"} \cup Ended THEN place[r] ELSE "dead"]
  /\ UNCHANGED <<plan, todo, entry, events, clock>>

Tick ==
  /\ clock < MaxClock /\ clock' = clock + 1
  /\ UNCHANGED <<archive, place, plan, todo, entry, events, outages>>

RunStep(r) ==
  \/ Begin(r) \/ Reuse(r) \/ Fails(r) \/ Observe(r) \/ Report(r) \/ Complete(r)
  \/ Lock(r) \/ Found(r) \/ Missing(r) \/ Write(r) \/ Sync(r) \/ Rename(r) \/ Flush(r) \/ Dies(r)

RunNext == (\E r \in Runs : RunStep(r)) \/ PowerLoss \/ Tick

RunSpec == RunInit /\ [][RunNext]_runVars

-----------------------------------------------------------------------------
(* Properties.                                                             *)

\* "Readers see a complete file or none" (CHECKPOINTS_B45.md:123): whatever
\* interrupts a save, and whichever names and contents a power loss takes, what
\* has a checkpoint's name has its content (save_checkpoint).
VisibleIsWhole == torn = {}

\* A checkpoint that a run has written and then reported can be loaded ever
\* after, through crashes, power losses and other writers; one that was found in
\* place can as long as the power never fails (save_checkpoint, run_manual).
ReportedLoads ==
  \A e \in UNION {events[r] : r \in Runs} : e.how = "written" \/ outages = 0 => Loads(e.id)

\* What a run reports is for its own context and not of its future, and what it
\* reused was within the age its caller allowed, though other runs with other
\* contexts fill the same archive (run_manual).
EventsInScope ==
  \A r \in Runs : \A e \in events[r] :
    /\ e.id.context = plan[r].context /\ e.id.captured <= plan[r].now
    /\ e.how = "resumed" => plan[r].now - e.id.captured < plan[r].age

=============================================================================
