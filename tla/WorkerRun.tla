----------------------------- MODULE WorkerRun -----------------------------
(***************************************************************************)
(* One independent worker (pepeuch_worker/runner.py): a manual process that *)
(* keeps a durable journal of its one claim, computes, and publishes over   *)
(* HTTP calls that may be lost, answered late, or processed after the       *)
(* process that sent them is gone.  The backend is reduced to what this     *)
(* worker's calls meet: one mission's attempts, the ledger of operations,   *)
(* the credential epoch and whether it serves.                              *)
(*                                                                         *)
(* A worker action ends at a journal write, at a call or at a check of its  *)
(* permit; a crash anywhere in between leaves what the action before left.  *)
(* A permit is checked first and acted on afterwards: in between, whoever   *)
(* gave it may withdraw it.                                                 *)
(***************************************************************************)
EXTENDS Naturals, Sequences

CONSTANTS
  MaxClaims,    \* bound: claim operations this worker ever makes
  MaxAttempts,  \* bound: attempts of the mission
  MaxEpoch,     \* bound: credential epochs
  MaxRuns,      \* bound: worker processes ever started
  MaxAuthority, \* the authorities that may follow each other
  MaxUnread     \* bound: requests on the channel whose decision nobody has read

ASSUME BoundsAssumption ==
  /\ MaxClaims \in Nat /\ MaxAttempts \in Nat
  /\ MaxEpoch \in Nat \ {0} /\ MaxRuns \in Nat /\ MaxAuthority \in Nat /\ MaxUnread \in Nat

VARIABLES
  \* the backend
  up,        \* it serves
  epoch,     \* credential epoch of the worker's identity; a revocation moves it too
  queued,    \* the mission's task is queued
  tries,     \* attempts so far
  attempts,  \* number -> state, epoch and accepted result
  ledger,    \* claim operation -> {} or {its stored response}: an attempt, 0 for none
  \* the network
  wire,      \* calls received and not yet processed, with the process that sent them
  reply,     \* the answer on its way to the running process
  \* the worker
  key,       \* epoch of the credential file in the worker's directory
  disk,      \* run.json
  mem,       \* the journal as the process holds it
  pc,        \* where the process is; "off" when none runs
  pending,   \* the process took over a journal that was not done
  runs,      \* processes started so far
  computed,  \* attempt -> how often its computation was started
  check,     \* of its permit to act: "free" in an application test, "due", "asked", "passed"
  pinned,    \* the authority its session holds to; 0 before the first permit
  since,     \* history: who permitted at some moment between the check's request and its reading
  \* the verification channel
  authority, \* who permits now: a controller, its policy, the context of the process; 0 for nobody
  requests   \* requests on the channel whose decision is not read, oldest first

server == <<up, epoch, queued, tries, attempts, ledger>>
process == <<mem, pc, pending, runs, check, pinned, since>>
channel == <<authority, requests>>
vars == <<server, wire, reply, key, disk, process, computed, channel>>

-----------------------------------------------------------------------------
Claims == 1..MaxClaims
Tries == 1..MaxAttempts
ActiveStates == {"running", "cancel_requested"}
ResultStatus == {"completed", "failed", "interrupted", "cancelled"}

Journal == [claim: Claims, key: 1..MaxEpoch, request: 0..MaxAttempts,
            result: {"none"} \cup ResultStatus, done: BOOLEAN]

\* No run.json: nothing is pending.
NoJournal == [claim |-> 0, key |-> 1, request |-> 0, result |-> "none", done |-> TRUE]

AttemptRow == [state: {"none"} \cup ActiveStates \cup ResultStatus, epoch: 0..MaxEpoch,
               result: {"none"} \cup ResultStatus]
ClaimCall == [op: {"claim"}, run: 1..MaxRuns, key: 1..MaxEpoch, claim: Claims]
FinishCall == [op: {"finish"}, run: 1..MaxRuns, key: 1..MaxEpoch, attempt: Tries, status: ResultStatus]
Reply == [kind: {"none", "claimed", "accepted"}, attempt: 0..MaxAttempts]
NoReply == [kind |-> "none", attempt |-> 0]

\* Who asked, and {} or {the authority that answered}; 0 is a refusal.  The
\* process stands for the nonce and the context of the request: it reads the
\* decision on each request before it makes another.
Request == [run: 1..MaxRuns, answer: SUBSET (0..MaxAuthority)]

ChannelTypeOK ==
  /\ check \in {"free", "due", "asked", "passed"}
  /\ pinned \in 0..MaxAuthority /\ authority \in 0..MaxAuthority
  /\ since \subseteq 0..MaxAuthority
  /\ requests \in Seq(Request)

TypeOK ==
  /\ up \in BOOLEAN /\ queued \in BOOLEAN /\ pending \in BOOLEAN
  /\ epoch \in 1..MaxEpoch /\ key \in 1..MaxEpoch
  /\ tries \in 0..MaxAttempts /\ runs \in 0..MaxRuns
  /\ attempts \in [Tries -> AttemptRow]
  /\ ledger \in [Claims -> SUBSET (0..MaxAttempts)]
  /\ wire \subseteq ClaimCall \cup FinishCall
  /\ reply \in Reply
  /\ disk \in Journal \cup {NoJournal} /\ mem \in Journal \cup {NoJournal}
  /\ pc \in {"off", "start", "claim", "claiming", "state", "execute", "save", "publish", "finish", "finishing"}
  /\ computed \in [Tries -> Nat]
  /\ ChannelTypeOK

Init ==
  /\ up = TRUE /\ epoch = 1 /\ queued = TRUE /\ tries = 0
  /\ attempts = [n \in Tries |-> [state |-> "none", epoch |-> 0, result |-> "none"]]
  /\ ledger = [k \in Claims |-> {}]
  /\ wire = {} /\ reply = NoReply
  /\ key = 1 /\ disk = NoJournal /\ mem = NoJournal
  /\ pc = "off" /\ pending = FALSE /\ runs = 0
  /\ computed = [n \in Tries |-> 0]
  /\ check = "due" /\ pinned = 0 /\ since = {}
  /\ authority = 0 /\ requests = <<>>

-----------------------------------------------------------------------------
(* The backend.                                                            *)

Active == {n \in Tries : attempts[n].state \in ActiveStates}

Fenced == [n \in Tries |-> IF n \in Active THEN [attempts[n] EXCEPT !.state = "interrupted"] ELSE attempts[n]]

\* The sender gets the answer unless it is gone or the answer is lost.
Answer(c, r) ==
  /\ wire' = wire \ {c}
  /\ reply' \in IF pc \in {"claiming", "finishing"} /\ c.run = runs THEN {NoReply, r} ELSE {reply}

\* Mutant: an operation already answered is run again.
ServeClaimAgain(c) ==
  LET n == tries + 1 IN
  /\ up /\ c \in wire /\ c.op = "claim"
  /\ c.key = epoch
  /\ \/ /\ ~queued \/ Active # {}
        /\ ledger' = [ledger EXCEPT ![c.claim] = {0}]
        /\ Answer(c, [kind |-> "claimed", attempt |-> 0])
        /\ UNCHANGED <<queued, tries, attempts>>
     \/ /\ queued /\ Active = {} /\ tries < MaxAttempts
        /\ attempts' = [attempts EXCEPT ![n] = [state |-> "running", epoch |-> epoch, result |-> "none"]]
        /\ tries' = n /\ queued' = FALSE
        /\ ledger' = [ledger EXCEPT ![c.claim] = {n}]
        /\ Answer(c, [kind |-> "claimed", attempt |-> n])
  /\ UNCHANGED <<up, epoch, key, disk, process, computed, channel>>

\* claim, under the ledger of operations: a replay gets the stored response.
ServeClaim(c) ==
  LET n == tries + 1 IN
  /\ up /\ c \in wire /\ c.op = "claim"
  /\ c.key = epoch
  /\ \/ /\ \E a \in ledger[c.claim] : Answer(c, [kind |-> "claimed", attempt |-> a])
        /\ UNCHANGED <<queued, tries, attempts, ledger>>
     \/ /\ ledger[c.claim] = {}
        /\ ~queued \/ Active # {}
        /\ ledger' = [ledger EXCEPT ![c.claim] = {0}]
        /\ Answer(c, [kind |-> "claimed", attempt |-> 0])
        /\ UNCHANGED <<queued, tries, attempts>>
     \/ /\ ledger[c.claim] = {}
        /\ queued /\ Active = {} /\ tries < MaxAttempts
        /\ attempts' = [attempts EXCEPT ![n] = [state |-> "running", epoch |-> epoch, result |-> "none"]]
        /\ tries' = n /\ queued' = FALSE
        /\ ledger' = [ledger EXCEPT ![c.claim] = {n}]
        /\ Answer(c, [kind |-> "claimed", attempt |-> n])
  /\ UNCHANGED <<up, epoch, key, disk, process, computed, channel>>

\* finish: a result already recorded is acknowledged again if it is the same.
ServeFinish(c) ==
  LET a == attempts[c.attempt] IN
  /\ up /\ c \in wire /\ c.op = "finish"
  /\ c.key = epoch /\ a.epoch = c.key
  /\ \/ /\ a.result = c.status
        /\ UNCHANGED attempts
     \/ /\ a.result = "none" /\ a.state \in ActiveStates
        /\ (a.state = "cancel_requested") <=> (c.status = "cancelled")
        /\ attempts' = [attempts EXCEPT ![c.attempt].state = c.status, ![c.attempt].result = c.status]
  /\ Answer(c, [kind |-> "accepted", attempt |-> c.attempt])
  /\ UNCHANGED <<up, epoch, queued, tries, ledger, key, disk, process, computed, channel>>

\* A call that is refused, or whose connection is lost before it is processed.
Drop(c) ==
  /\ c \in wire
  /\ wire' = wire \ {c}
  /\ UNCHANGED <<server, reply, key, disk, process, computed, channel>>

\* A lease expires.
Expire ==
  /\ up
  /\ attempts' = Fenced
  /\ UNCHANGED <<up, epoch, queued, tries, ledger, wire, reply, key, disk, process, computed, channel>>

Cancel ==
  /\ up
  /\ \E n \in Active : /\ attempts[n].state = "running"
                       /\ attempts' = [attempts EXCEPT ![n].state = "cancel_requested"]
  /\ UNCHANGED <<up, epoch, queued, tries, ledger, wire, reply, key, disk, process, computed, channel>>

Retry ==
  /\ up /\ tries > 0 /\ ~queued
  /\ attempts[tries].state \in {"failed", "interrupted"}
  /\ queued' = TRUE
  /\ UNCHANGED <<up, epoch, tries, attempts, ledger, wire, reply, key, disk, process, computed, channel>>

\* Revoking moves the epoch and fences in one transaction.
Revoke ==
  /\ up /\ epoch < MaxEpoch
  /\ epoch' = epoch + 1
  /\ attempts' = Fenced
  /\ UNCHANGED <<up, queued, tries, ledger, wire, reply, key, disk, process, computed, channel>>

\* The calls a thread holds die with the backend.
BackendStops ==
  /\ up
  /\ up' = FALSE /\ wire' = {}
  /\ UNCHANGED <<epoch, queued, tries, attempts, ledger, reply, key, disk, process, computed, channel>>

BackendStarts ==
  /\ ~up
  /\ up' = TRUE
  /\ attempts' = Fenced
  /\ UNCHANGED <<epoch, queued, tries, ledger, wire, reply, key, disk, process, computed, channel>>

\* Offline rotation; the new file reaches the worker's directory while no
\* process of it runs.
Rotate ==
  /\ ~up /\ epoch < MaxEpoch
  /\ epoch' = epoch + 1
  /\ UNCHANGED <<up, queued, tries, attempts, ledger, wire, reply, key, disk, process, computed, channel>>

Deliver ==
  /\ pc = "off"
  /\ key' = epoch
  /\ UNCHANGED <<server, wire, reply, disk, process, computed, channel>>

-----------------------------------------------------------------------------
(* The verification channel: a stream to a root controller that every       *)
(* process of the worker inherits.  What one process has not read, the next *)
(* one reads first.                                                         *)

\* No process runs any more.
Off == /\ pc' = "off" /\ mem' = NoJournal /\ pending' = FALSE
       /\ check' = "due" /\ pinned' = 0 /\ since' = {}

\* The controller comes, goes, changes its policy, or the context moves.
AuthorityMoves ==
  /\ authority' \in (0..MaxAuthority) \ {authority}
  /\ since' = IF check = "asked" THEN since \cup {authority'} ELSE since
  /\ UNCHANGED <<server, wire, reply, key, disk, computed, mem, pc, pending, runs, check, pinned, requests>>

\* The controller decides on the oldest request it has not answered.
Decided(i) == requests[i].answer # {}

ControllerDecides ==
  /\ \E i \in DOMAIN requests :
       /\ ~Decided(i) /\ \A j \in 1..(i - 1) : Decided(j)
       /\ requests' = [requests EXCEPT ![i].answer = {authority}]
  /\ UNCHANGED <<server, wire, reply, key, disk, process, computed, authority>>

\* A decision nobody reads in its two seconds is refused like a denial.
DecisionLapses ==
  /\ \E i \in DOMAIN requests :
       /\ Decided(i) /\ requests[i].answer # {0}
       /\ requests' = [requests EXCEPT ![i].answer = {0}]
  /\ UNCHANGED <<server, wire, reply, key, disk, process, computed, authority>>

\* A session asks before the claim, twice: when it is opened and under the
\* worker's lock; before it computes; and before it publishes.
AskPermit ==
  /\ check = "due" /\ pc \in {"start", "execute", "finish"}
  /\ Len(requests) < MaxUnread
  /\ requests' = Append(requests, [run |-> runs, answer |-> {}])
  /\ check' = "asked" /\ since' = {authority}
  /\ UNCHANGED <<server, wire, reply, key, disk, computed, mem, pc, pending, runs, pinned, authority>>

\* Mutant: a permit is taken whatever request it answers.
PermitsAnyRequest(d, a) == a # 0 /\ pinned \in {0, a}

\* validate_decision and the session: a permit, for this very request, of the
\* controller and policy that permitted first.
Permits(d, a) == a # 0 /\ d.run = runs /\ pinned \in {0, a}

\* The first decision in the stream is the one that is read; anything but a
\* valid permit ends the process.  The permit itself is not kept: what it
\* allows may come after its two seconds are over.
ReadDecision ==
  /\ check = "asked" /\ requests # <<>>
  /\ LET d == Head(requests) IN
       \E a \in d.answer :
         \/ /\ Permits(d, a)
            /\ pinned' = a
            /\ check' = IF pinned = 0 THEN "due" ELSE "passed"
            /\ since' = IF pinned = 0 THEN {} ELSE since
            /\ UNCHANGED <<reply, mem, pc, pending>>
         \/ ~Permits(d, a) /\ Off /\ reply' = NoReply
  /\ requests' = Tail(requests)
  /\ UNCHANGED <<server, wire, key, disk, runs, computed, authority>>

\* An application test has no session and checks nothing.
MayAct == check \in {"free", "passed"}
Acted == check' = (IF check = "free" THEN "free" ELSE "due") /\ since' = {}

-----------------------------------------------------------------------------
(* The worker's process.                                                   *)

Save(j) == mem' = j /\ disk' = j

Start ==
  /\ pc = "off" /\ runs < MaxRuns
  /\ pc' = "start" /\ runs' = runs + 1
  /\ check' \in {"free", "due"}
  /\ UNCHANGED <<server, wire, reply, key, disk, mem, pending, computed, pinned, since, channel>>

\* A new claim: its identifier is durable before anything is sent.
RunNew ==
  /\ pc = "start" /\ MayAct
  /\ disk.done /\ disk.claim < MaxClaims
  /\ Save([claim |-> disk.claim + 1, key |-> key, request |-> 0, result |-> "none", done |-> FALSE])
  /\ pending' = FALSE /\ pc' = "claim" /\ Acted
  /\ UNCHANGED <<server, wire, reply, key, runs, computed, pinned, channel>>

\* --recover: only under the credential the journal was written with.
RunRecover ==
  /\ pc = "start" /\ MayAct
  /\ ~disk.done /\ disk.key = key
  /\ mem' = disk /\ pending' = TRUE /\ Acted
  /\ pc' = IF disk.request = 0 THEN "claim" ELSE "state"
  /\ UNCHANGED <<server, wire, reply, key, disk, runs, computed, pinned, channel>>

\* The process ends: a crash, a call refused or timed out, a lost proof of
\* isolation, an interruption.
Exit ==
  /\ pc # "off"
  /\ Off /\ reply' = NoReply
  /\ UNCHANGED <<server, wire, key, disk, runs, computed, channel>>

Done(j) == disk' = [j EXCEPT !.done = TRUE] /\ Off

SendClaim ==
  /\ pc = "claim"
  /\ wire' = IF up THEN wire \cup {[op |-> "claim", run |-> runs, key |-> key, claim |-> mem.claim]} ELSE wire
  /\ pc' = "claiming"
  /\ UNCHANGED <<server, reply, key, disk, mem, pending, runs, computed, check, pinned, since, channel>>

\* Idle, or a request to keep.
GetClaim ==
  /\ pc = "claiming" /\ reply.kind = "claimed"
  /\ reply' = NoReply
  /\ \/ reply.attempt = 0 /\ Done(mem)
     \/ /\ reply.attempt # 0
        /\ Save([mem EXCEPT !.request = reply.attempt])
        /\ pc' = "state" /\ UNCHANGED <<pending, check, pinned, since>>
  /\ UNCHANGED <<server, wire, key, runs, computed, channel>>

\* The state the backend gives for the attempt, to this credential only.
Observed == attempts[mem.request].state
Observes == up /\ key = epoch /\ attempts[mem.request].epoch = key

\* A terminal attempt is only observed.
SeeEnded ==
  /\ pc \in {"state", "publish"}
  /\ Observes /\ Observed \notin ActiveStates
  /\ Done(mem)
  /\ UNCHANGED <<server, wire, reply, key, runs, computed, channel>>

\* Mutant: a recovered journal without a result computes again.
DecideByResult ==
  /\ pc = "state"
  /\ Observes /\ Observed \in ActiveStates
  /\ \/ /\ Observed = "cancel_requested"
        /\ Save([mem EXCEPT !.result = "cancelled"]) /\ pc' = "publish"
     \/ /\ Observed = "running" /\ mem.result # "none"
        /\ Save(mem) /\ pc' = "publish"
     \/ /\ Observed = "running" /\ mem.result = "none"
        /\ pc' = "execute" /\ UNCHANGED <<mem, disk>>
  /\ UNCHANGED <<server, wire, reply, key, pending, runs, computed, check, pinned, since, channel>>

\* What to publish: a cancellation, the result already written, an
\* interruption if a recovered journal has none; only a fresh claim computes.
Decide ==
  /\ pc = "state"
  /\ Observes /\ Observed \in ActiveStates
  /\ \/ /\ Observed = "cancel_requested"
        /\ Save([mem EXCEPT !.result = "cancelled"]) /\ pc' = "publish"
     \/ /\ Observed = "running" /\ mem.result # "none"
        /\ Save(mem) /\ pc' = "publish"
     \/ /\ Observed = "running" /\ mem.result = "none" /\ pending
        /\ Save([mem EXCEPT !.result = "interrupted"]) /\ pc' = "publish"
     \/ /\ Observed = "running" /\ mem.result = "none" /\ ~pending
        /\ pc' = "execute" /\ UNCHANGED <<mem, disk>>
  /\ UNCHANGED <<server, wire, reply, key, pending, runs, computed, check, pinned, since, channel>>

\* What execute gives: a result, a failure by its limits, an interruption by
\* its deadline, its stop event or Ctrl-C.
Computed == {"completed", "failed", "interrupted"}

\* The computation starts, with the permit read before it.
Execute ==
  /\ pc = "execute" /\ MayAct
  /\ \E s \in Computed : mem' = [mem EXCEPT !.result = s]
  /\ computed' = [computed EXCEPT ![mem.request] = @ + 1]
  /\ pc' = "save" /\ Acted
  /\ UNCHANGED <<server, wire, reply, key, disk, pending, runs, pinned, channel>>

\* Mutant: the result goes out before it is in the journal.
SaveLater ==
  /\ pc = "save"
  /\ pc' = "publish"
  /\ UNCHANGED <<server, wire, reply, key, disk, mem, pending, runs, computed, check, pinned, since, channel>>

SaveResult ==
  /\ pc = "save"
  /\ Save(mem) /\ pc' = "publish"
  /\ UNCHANGED <<server, wire, reply, key, pending, runs, computed, check, pinned, since, channel>>

\* Cancellation is looked at once more before publication.
Publish ==
  /\ pc = "publish"
  /\ Observes /\ Observed \in ActiveStates
  /\ \/ Observed = "cancel_requested" /\ mem.result # "cancelled" /\ Save([mem EXCEPT !.result = "cancelled"])
     \/ (Observed = "running" \/ mem.result = "cancelled") /\ UNCHANGED <<mem, disk>>
  /\ pc' = "finish"
  /\ UNCHANGED <<server, wire, reply, key, pending, runs, computed, check, pinned, since, channel>>

SendFinish ==
  /\ pc = "finish" /\ MayAct
  /\ wire' = IF up THEN wire \cup {[op |-> "finish", run |-> runs, key |-> key,
                                    attempt |-> mem.request, status |-> mem.result]} ELSE wire
  /\ pc' = "finishing" /\ Acted
  /\ UNCHANGED <<server, reply, key, disk, mem, pending, runs, computed, pinned, channel>>

GetAcknowledgement ==
  /\ pc = "finishing" /\ reply.kind = "accepted"
  /\ reply' = NoReply
  /\ Done(mem)
  /\ UNCHANGED <<server, wire, key, runs, computed, channel>>

Next ==
  \/ \E c \in wire : ServeClaim(c) \/ ServeFinish(c) \/ Drop(c)
  \/ Expire \/ Cancel \/ Retry \/ Revoke \/ BackendStops \/ BackendStarts \/ Rotate \/ Deliver
  \/ AuthorityMoves \/ ControllerDecides \/ DecisionLapses \/ AskPermit \/ ReadDecision
  \/ Start \/ RunNew \/ RunRecover \/ Exit
  \/ SendClaim \/ GetClaim \/ SeeEnded \/ Decide \/ Execute \/ SaveResult
  \/ Publish \/ SendFinish \/ GetAcknowledgement

Spec == Init /\ [][Next]_vars

-----------------------------------------------------------------------------
(* Properties.                                                             *)

\* An attempt is computed at most once, whatever crashes, lost answers and
\* recoveries follow: a recovery publishes what is written or interrupts.
NeverRecomputed == \A n \in Tries : computed[n] <= 1

\* The worker never loses track of work it holds.  While the backend serves,
\* an attempt that is still active was claimed under the present epoch by the
\* claim of a journal that is not done: recovering that journal leads to it.
NothingForgotten ==
  up => \A n \in Active :
          /\ attempts[n].epoch = epoch
          /\ ~disk.done /\ disk.key = epoch
          /\ ledger[disk.claim] = {n} /\ disk.request \in {0, n}

\* What the backend accepted for the journal's attempt is what the journal
\* says, even when an earlier process sent it: a recovery cannot contradict a
\* call that is still on its way.
AcceptedAsWritten ==
  disk.request # 0 /\ attempts[disk.request].result # "none" =>
    disk.result = attempts[disk.request].result

\* No decision serves a second call: whenever a process with a session takes
\* up a journal, starts a computation or sends a result, the authority that
\* its session holds to permitted at some moment after the check of this very
\* act had asked, whatever decisions asked for by earlier processes the stream
\* still held; and a session holds to nobody else.  The permit may have been
\* withdrawn since.
PermittedAnew ==
  [][LET acts == \/ pc = "start" /\ pc' \in {"claim", "state"}
                 \/ computed' # computed
                 \/ pc = "finish" /\ pc' = "finishing"
     IN /\ acts /\ check # "free" => pinned # 0 /\ pinned \in since
        /\ pinned' \notin {0, pinned} => pinned' \in since]_vars
=============================================================================
