-------------------------- MODULE ConfirmedBatches --------------------------
(***************************************************************************)
(* Loading a bench database in confirmed batches (confirmed_sql_batches.py, *)
(* isolated_bench_ingestion.py): every batch and its receipt are one        *)
(* transaction, the receipt is read back before the next batch is sent, and *)
(* an interrupted delivery resumes after the receipts it finds.             *)
(*                                                                         *)
(* Deliveries of one database follow each other.  A delivery ends by        *)
(* returning, or by an exception or the death of its process anywhere; a    *)
(* write it had sent may still be executed by the engine long after.  One    *)
(* that follows an interrupted delivery has a connection of its own.        *)
(* A plan is the sequence of its batches' payloads, which is what its       *)
(* manifest hashes; the same payload may come twice.                        *)
(***************************************************************************)
EXTENDS Naturals, Sequences

CONSTANTS
  Payloads,    \* the statements a batch may consist of, up to their hash
  MaxBatches,  \* bound: batches of a plan
  MaxRuns      \* bound: deliveries ever started on the database

ASSUME BoundsAssumption == MaxBatches \in Nat \ {0} /\ MaxRuns \in Nat

VARIABLES
  \* the database
  manifest,  \* the plan whose manifest receipt is there, NoPlan before
  receipts,  \* rows of bench_batch_receipt, the manifest's apart
  data,      \* payloads whose statements were executed and committed, in that order
  \* the connection
  wire,      \* writes sent and neither executed nor dropped, with the delivery that sent them
  answer,    \* the engine's answer on its way to the running delivery
  \* the delivery
  runs,      \* deliveries started so far
  pc,        \* where the running one is, or how the last one ended
  plan,      \* the batches it was called with
  stop,      \* its interrupt_after, 0 for None
  next,      \* the batch it is at, counted from 1
  applied,   \* batches it has confirmed itself
  journal    \* batch-receipts.jsonl, which outlives it

database == <<manifest, receipts, data>>
delivery == <<runs, plan, stop>>
vars == <<database, wire, answer, delivery, pc, next, applied, journal>>

-----------------------------------------------------------------------------
\* No plan is empty.
Plans == UNION {[1..n -> Payloads] : n \in 1..MaxBatches}
NoPlan == <<>>

Row == [seq: 1..MaxBatches, payload: Payloads]
Receipt(p, k) == [seq |-> k, payload |-> p[k]]

\* Batch 0 stands for the manifest's receipt.
Write == [run: 1..MaxRuns, plan: Plans, seq: 0..MaxBatches]

\* The ends of a delivery: returned, prefix refused, or anything raised.
Ended == {"idle", "verified", "refused"}
Waiting == {"creating", "sending"}

\* The types, and that an answer is only ever on its way to who waits for it.
TypeOK ==
  /\ manifest \in Plans \cup {NoPlan}
  /\ receipts \subseteq Row /\ data \in Seq(Payloads)
  /\ wire \subseteq Write
  /\ answer \in {"none", "ok", "error"} /\ (answer # "none" => pc \in Waiting)
  /\ runs \in 0..MaxRuns
  /\ pc \in Ended \cup Waiting \cup {"manifest", "create", "existing", "send", "confirm", "receipt"}
  /\ plan \in Plans \cup {NoPlan} /\ (pc # "idle" => plan \in Plans)
  /\ stop \in 0..MaxBatches /\ next \in Nat /\ applied \in Nat
  /\ journal \in Seq(Row)

Init ==
  /\ manifest = NoPlan /\ receipts = {} /\ data = <<>>
  /\ wire = {} /\ answer = "none"
  /\ runs = 0 /\ pc = "idle" /\ plan = NoPlan /\ stop = 0
  /\ next = 1 /\ applied = 0 /\ journal = <<>>

-----------------------------------------------------------------------------
(* The engine.                                                             *)

\* The writer learns it unless it has ended.
Answered(w, a) ==
  /\ wire' = wire \ {w}
  /\ answer' = IF w.run = runs /\ pc \in Waiting THEN a ELSE answer

\* Mutant: the receipts have no key.
UniqueManifest(w) == w.seq = 0 => manifest = NoPlan

\* A batch_id is a key: a second row of it is refused.
Unique(w) == IF w.seq = 0 THEN manifest = NoPlan ELSE \A r \in receipts : r.seq # w.seq

\* A write commits whole, its statements and its receipt.
Commit(w) ==
  /\ Unique(w)
  /\ IF w.seq = 0
     THEN manifest' = w.plan /\ UNCHANGED <<receipts, data>>
     ELSE /\ receipts' = receipts \cup {Receipt(w.plan, w.seq)}
          /\ data' = Append(data, w.plan[w.seq])
          /\ UNCHANGED manifest
  /\ Answered(w, "ok")

\* It is refused, fails or is dropped, and leaves nothing.
Rollback(w) == Answered(w, "error") /\ UNCHANGED database

Engine ==
  /\ \E w \in wire : Commit(w) \/ Rollback(w)
  /\ UNCHANGED <<delivery, pc, next, applied, journal>>

-----------------------------------------------------------------------------
(* One delivery.                                                           *)

Goto(label) == pc' = label

Begin ==
  /\ pc \in Ended /\ runs < MaxRuns
  /\ runs' = runs + 1
  /\ plan' \in Plans
  /\ stop' \in 0..MaxBatches
  /\ next' = 1 /\ applied' = 0
  /\ Goto("manifest")
  /\ UNCHANGED <<database, wire, answer, journal>>

\* Mutant: a manifest of any plan will do.
ReadAnyManifest ==
  /\ pc = "manifest"
  /\ Goto(IF manifest = NoPlan THEN "create" ELSE "existing")
  /\ UNCHANGED <<database, wire, answer, delivery, next, applied, journal>>

\* A database of another plan is refused.
ReadManifest ==
  /\ pc = "manifest"
  /\ Goto(IF manifest = NoPlan THEN "create"
          ELSE IF manifest = plan THEN "existing" ELSE "idle")
  /\ UNCHANGED <<database, wire, answer, delivery, next, applied, journal>>

Send(seq) == wire' = wire \cup {[run |-> runs, plan |-> plan, seq |-> seq]}

SendManifest ==
  /\ pc = "create"
  /\ Send(0)
  /\ Goto("creating")
  /\ UNCHANGED <<database, answer, delivery, next, applied, journal>>

\* sql() raises on an error; otherwise the manifest is read back.
ManifestAnswered ==
  /\ pc = "creating" /\ answer # "none"
  /\ answer' = "none"
  /\ Goto(IF answer = "ok" /\ manifest = plan THEN "existing" ELSE "idle")
  /\ UNCHANGED <<database, wire, delivery, next, applied, journal>>

\* The rows found, in the order of seq_no, are the first n batches of the plan.
Acknowledged(n) == receipts = {Receipt(plan, k) : k \in 1..n}

\* An interruption must fall between two batches still to send.
Interruptible(n) == stop # 0 => stop < Len(plan) - n

ReadExisting ==
  /\ pc = "existing"
  /\ \/ /\ \A n \in 0..Len(plan) : ~Acknowledged(n)
        /\ Goto("refused")
        /\ UNCHANGED next
     \/ \E n \in 0..Len(plan) :
          /\ Acknowledged(n)
          /\ next' = n + 1
          /\ Goto(IF ~Interruptible(n) THEN "idle"
                  ELSE IF n = Len(plan) THEN "verified" ELSE "send")
  /\ UNCHANGED <<database, wire, answer, delivery, applied, journal>>

\* Mutant: the answer is not waited for.
SendAndTrust ==
  /\ pc = "send"
  /\ Send(next)
  /\ Goto("receipt")
  /\ UNCHANGED <<database, answer, delivery, next, applied, journal>>

\* Mutant: the journal's line is written when the batch is sent.
SendAndJournal ==
  /\ pc = "send"
  /\ Send(next)
  /\ Goto("sending")
  /\ journal' = Append(journal, Receipt(plan, next))
  /\ UNCHANGED <<database, answer, delivery, next, applied>>

SendBatch ==
  /\ pc = "send"
  /\ Send(next)
  /\ Goto("sending")
  /\ UNCHANGED <<database, answer, delivery, next, applied, journal>>

BatchAnswered ==
  /\ pc = "sending" /\ answer # "none"
  /\ answer' = "none"
  /\ Goto(IF answer = "ok" THEN "confirm" ELSE "idle")
  /\ UNCHANGED <<database, wire, delivery, next, applied, journal>>

\* The receipt is read back whole before anything advances.
Confirm ==
  /\ pc = "confirm"
  /\ IF Receipt(plan, next) \in receipts
     THEN applied' = applied + 1 /\ Goto("receipt")
     ELSE UNCHANGED applied /\ Goto("idle")
  /\ UNCHANGED <<database, wire, answer, delivery, next, journal>>

\* on_receipt appends to the journal and syncs it; then the loop goes on.
Advance ==
  /\ next' = next + 1
  /\ Goto(IF stop # 0 /\ applied = stop THEN "idle"
          ELSE IF next = Len(plan) THEN "verified" ELSE "send")

OnReceipt ==
  /\ pc = "receipt"
  /\ journal' = Append(journal, Receipt(plan, next))
  /\ Advance
  /\ UNCHANGED <<database, wire, answer, delivery, applied>>

\* An exception or a death anywhere: a lost answer, a failed read, a refusal of
\* the monitor before the journal's line.
Fail ==
  /\ pc \notin Ended
  /\ Goto("idle")
  /\ answer' = "none"
  /\ UNCHANGED <<database, wire, delivery, next, applied, journal>>

Next ==
  \/ Begin \/ ReadManifest \/ SendManifest \/ ManifestAnswered \/ ReadExisting
  \/ SendBatch \/ BatchAnswered \/ Confirm \/ OnReceipt \/ Fail \/ Engine

Spec == Init /\ [][Next]_vars

-----------------------------------------------------------------------------
(* What delivery is for.                                                   *)

\* However deliveries end and whichever of their writes the engine executes
\* late, the database takes the batches of one plan in order, each once
\* (ingest, deliver, and the receipt inside each batch's transaction).
Contract == INSTANCE LoadedPrefix WITH plan <- manifest, loaded <- data
LoadsOnePlanInOrder == Contract!Spec

\* What an interrupted delivery leaves can always be resumed: a delivery that
\* found its own manifest never finds receipts it must refuse (deliver's check
\* of the prefix, after ingest's check of the manifest).
AlwaysResumable == pc # "refused"

\* A delivery that returns says "verified" of a database that holds its whole
\* plan, although it confirmed only the part it sent itself (deliver's result).
VerifiedIsComplete == pc = "verified" => data = plan

\* The journal never names a batch the database does not hold, and names none
\* twice over all deliveries, though it may miss one whose delivery died
\* between the commit and the line (load_batches' receipt).
JournalHolds ==
  /\ \A i \in DOMAIN journal : journal[i] \in receipts
  /\ \A i, j \in DOMAIN journal : i < j => journal[i].seq < journal[j].seq
=============================================================================
