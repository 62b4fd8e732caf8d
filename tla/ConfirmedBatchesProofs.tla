----------------------- MODULE ConfirmedBatchesProofs -----------------------
(* Proofs about ConfirmedBatches, for every set of payloads, length of     *)
(* plans and number of deliveries.                                         *)
EXTENDS ConfirmedBatches, SequenceTheorems, TLAPS

USE BoundsAssumption DEF BoundsAssumption

-----------------------------------------------------------------------------
(* The inductive invariant.                                                *)

\* One receipt for each batch the data holds: the transaction is atomic.
ReceiptsMatchData ==
  receipts = {[seq |-> i, payload |-> data[i]] : i \in 1..Len(data)}

\* The data is a prefix of the manifest's plan.
DataIsPrefix ==
  /\ Len(data) <= Len(manifest)
  /\ \A i \in 1..Len(data) : data[i] = manifest[i]

\* A write under way, of any delivery, is for the next batch at the latest.
WritesAreNext ==
  \A w \in wire :
    /\ w.run <= runs
    /\ w.seq # 0 => w.plan = manifest /\ w.seq <= Len(data) + 1 /\ w.seq <= Len(w.plan)

\* The running delivery has a write under way only while it waits for it.
OwnWrite ==
  \A w \in wire :
    w.run = runs =>
      \/ pc = "idle"
      \/ pc \in Waiting /\ answer = "none" /\ w.plan = plan /\ w.seq = IF pc = "creating" THEN 0 ELSE next

\* Past the manifest the delivery works on its own plan and knows where it is.
Position ==
  /\ pc # "refused"
  /\ pc # "idle" => runs # 0
  /\ pc \in {"existing", "send", "sending", "confirm", "receipt", "verified"} => manifest = plan
  /\ pc \in {"send", "sending", "confirm", "receipt"} => next \in 1..Len(plan)
  /\ pc \in {"send", "sending"} => next <= Len(data) + 1
  /\ pc = "sending" /\ answer = "ok" => next <= Len(data)
  /\ pc \in {"confirm", "receipt"} => next <= Len(data)
  /\ pc = "verified" => Len(data) = Len(plan)

\* The journal is behind the receipts, and behind the running delivery.
JournalBehind ==
  /\ JournalHolds
  /\ pc \in {"send", "sending", "confirm", "receipt"} =>
       \A i \in DOMAIN journal : journal[i].seq < next

IInv ==
  /\ ReceiptsMatchData /\ DataIsPrefix /\ WritesAreNext
  /\ OwnWrite /\ Position /\ JournalBehind

-----------------------------------------------------------------------------
(* Plans and receipts.                                                     *)

LEMMA PlanIsSeq ==
  ASSUME NEW p \in Plans
  PROVE  /\ p \in Seq(Payloads) /\ Len(p) \in 1..MaxBatches
         /\ p # NoPlan
<1>1. PICK n \in 1..MaxBatches : p \in [1..n -> Payloads]
  BY DEF Plans
<1>2. p \in Seq(Payloads)
  BY <1>1, SeqDef
<1>3. Len(p) = n
  <2>1. DOMAIN p = 1..n
    BY <1>1
  <2>2. DOMAIN p = 1..Len(p) /\ Len(p) \in Nat
    BY <1>2, LenProperties
  <2> QED
    BY <2>1, <2>2
<1> QED
  BY <1>2, <1>3, EmptySeq DEF NoPlan

LEMMA ReceiptIsRow ==
  ASSUME NEW p \in Plans, NEW k \in 1..Len(p)
  PROVE  Receipt(p, k) \in Row
<1>1. k \in 1..MaxBatches /\ p[k] \in Payloads
  BY PlanIsSeq, ElementOfSeq
<1> QED
  BY <1>1 DEF Receipt, Row

\* The receipts of a database of the delivery's plan are an acknowledged prefix,
\* and that of no other length.
LEMMA OwnPrefix ==
  ASSUME TypeOK, ReceiptsMatchData, DataIsPrefix, manifest = plan, plan \in Plans
  PROVE  /\ Len(data) \in 0..Len(plan) /\ Acknowledged(Len(data))
         /\ \A n \in 0..Len(plan) : Acknowledged(n) => n = Len(data)
<1>1. Len(data) \in Nat /\ Len(plan) \in 1..MaxBatches
  BY PlanIsSeq, LenProperties DEF TypeOK
<1>2. Len(data) \in 0..Len(plan)
  BY <1>1 DEF DataIsPrefix
<1>3. Acknowledged(Len(data))
  BY <1>1 DEF ReceiptsMatchData, DataIsPrefix, Receipt, Acknowledged
<1>4. ASSUME NEW n \in 0..Len(plan), Acknowledged(n)
      PROVE  n = Len(data)
  <2>1. \A k \in 1..n : \E r \in receipts : r.seq = k
    <3> TAKE k \in 1..n
    <3>1. Receipt(plan, k) \in receipts /\ Receipt(plan, k).seq = k
      BY <1>4 DEF Acknowledged, Receipt
    <3> QED
      BY <3>1
  <2>2. \A k \in 1..Len(data) : \E r \in receipts : r.seq = k
    <3> TAKE k \in 1..Len(data)
    <3>1. Receipt(plan, k) \in receipts /\ Receipt(plan, k).seq = k
      BY <1>3 DEF Acknowledged, Receipt
    <3> QED
      BY <3>1
  <2>3. \A r \in receipts : r.seq \in 1..n /\ r.seq \in 1..Len(data)
    BY <1>3, <1>4 DEF Acknowledged, Receipt
  <2>4. n <= Len(data)
    BY <1>1, <2>1, <2>3
  <2>5. Len(data) <= n
    BY <1>1, <2>2, <2>3
  <2> QED
    BY <1>1, <2>4, <2>5
<1> QED
  BY <1>2, <1>3, <1>4

-----------------------------------------------------------------------------
(* Types.  That what is sent is a batch of the plan needs the invariant.   *)

LEMMA InitInv ==
  ASSUME Init
  PROVE  TypeOK /\ IInv
<1>1. TypeOK
  BY DEF Init, TypeOK, Ended, Waiting, NoPlan
<1>2. IInv
  BY DEF Init, IInv, ReceiptsMatchData, DataIsPrefix, WritesAreNext, OwnWrite, Position,
         JournalBehind, JournalHolds, NoPlan
<1> QED
  BY <1>1, <1>2

LEMMA TypeStep ==
  ASSUME TypeOK, IInv, [Next]_vars
  PROVE  TypeOK'
<1> USE DEF TypeOK, Ended, Waiting
<1>1. CASE Begin
  BY <1>1 DEF Begin, Goto, database
<1>2. CASE ReadManifest
  BY <1>2 DEF ReadManifest, Goto, database, delivery
<1>3. CASE SendManifest
  <2>1. [run |-> runs, plan |-> plan, seq |-> 0] \in Write
    BY <1>3 DEF SendManifest, Write, IInv, Position
  <2> QED
    BY <1>3, <2>1 DEF SendManifest, Send, Goto, database, delivery
<1>4. CASE ManifestAnswered
  BY <1>4 DEF ManifestAnswered, Goto, database, delivery
<1>5. CASE ReadExisting
  <2>1. next' \in Nat /\ pc' \in {"refused", "idle", "verified", "send"} /\ plan \in Plans
    BY <1>5, PlanIsSeq DEF ReadExisting, Goto
  <2> QED
    BY <1>5, <2>1 DEF ReadExisting, database, delivery
<1>6. CASE SendBatch
  <2>1. [run |-> runs, plan |-> plan, seq |-> next] \in Write
    BY <1>6, PlanIsSeq DEF SendBatch, Write, IInv, Position
  <2> QED
    BY <1>6, <2>1 DEF SendBatch, Send, Goto, database, delivery
<1>7. CASE BatchAnswered
  BY <1>7 DEF BatchAnswered, Goto, database, delivery
<1>8. CASE Confirm
  BY <1>8 DEF Confirm, Goto, database, delivery
<1>9. CASE OnReceipt
  <2>1. Receipt(plan, next) \in Row
    BY <1>9, ReceiptIsRow DEF OnReceipt, IInv, Position
  <2>2. journal' \in Seq(Row)
    BY <1>9, <2>1, AppendProperties DEF OnReceipt
  <2> QED
    BY <1>9, <2>2 DEF OnReceipt, Advance, Goto, database, delivery
<1>10. CASE Fail
  BY <1>10 DEF Fail, Goto, database, delivery
<1>11. CASE Engine
  <2>1. PICK w \in wire : Commit(w) \/ Rollback(w)
    BY <1>11 DEF Engine
  <2>2. w \in Write
    OBVIOUS
  <2>3. wire' \subseteq Write /\ answer' \in {"none", "ok", "error"} /\ (answer' # "none" => pc \in Waiting)
    BY <2>1 DEF Commit, Rollback, Answered
  <2>4. manifest' \in Plans \cup {NoPlan} /\ receipts' \subseteq Row /\ data' \in Seq(Payloads)
    <3>1. CASE w.seq # 0 /\ Commit(w)
      <4>1. w.plan \in Plans /\ w.seq \in 1..Len(w.plan)
        BY <2>2, <3>1 DEF Write, IInv, WritesAreNext
      <4>2. Receipt(w.plan, w.seq) \in Row /\ w.plan[w.seq] \in Payloads
        BY <4>1, ReceiptIsRow, PlanIsSeq, ElementOfSeq
      <4> QED
        BY <3>1, <4>2, AppendProperties DEF Commit
    <3>2. CASE w.seq = 0 /\ Commit(w)
      BY <2>2, <3>2 DEF Commit, Write
    <3>3. CASE Rollback(w)
      BY <3>3 DEF Rollback, database
    <3> QED
      BY <2>1, <3>1, <3>2, <3>3
  <2> QED
    BY <1>11, <2>3, <2>4 DEF Engine, delivery
<1>12. CASE UNCHANGED vars
  BY <1>12 DEF vars, database, delivery
<1> QED
  BY <1>1, <1>2, <1>3, <1>4, <1>5, <1>6, <1>7, <1>8, <1>9, <1>10, <1>11, <1>12 DEF Next

-----------------------------------------------------------------------------
(* The invariant is inductive.                                             *)

\* What the steps of the delivery leave alone keeps its part of the invariant.
LEMMA DeliveryStep ==
  ASSUME TypeOK, IInv, UNCHANGED <<database, journal, runs, wire>>
  PROVE  ReceiptsMatchData' /\ DataIsPrefix' /\ WritesAreNext' /\ JournalHolds'
BY DEF IInv, ReceiptsMatchData, DataIsPrefix, WritesAreNext, JournalBehind, JournalHolds, database

\* A write of the running delivery that it does not wait for any more.
LEMMA QuietOwnWrite ==
  ASSUME IInv, pc \notin Waiting \cup {"idle"} \/ answer # "none"
  PROVE  pc # "idle" => \A w \in wire : w.run # runs
BY DEF IInv, OwnWrite

LEMMA InvStep ==
  ASSUME TypeOK, IInv, [Next]_vars
  PROVE  IInv'
<1>a. TypeOK'
  BY TypeStep
<1>b. Len(data) \in Nat /\ runs \in Nat /\ next \in Nat /\ Len(journal) \in Nat /\ DOMAIN journal = 1..Len(journal)
  BY LenProperties DEF TypeOK
<1>c. plan \in Plans => Len(plan) \in 1..MaxBatches
  BY PlanIsSeq
<1>1. CASE Begin
  <2>1. \A w \in wire : w.run <= runs /\ w.run \in Nat
    BY DEF IInv, WritesAreNext, TypeOK, Write
  <2>2. OwnWrite' /\ WritesAreNext'
    BY <1>b, <1>1, <2>1 DEF Begin, database, OwnWrite, IInv, WritesAreNext
  <2> QED
    BY <1>1, <1>b, <2>2 DEF Begin, Goto, database, IInv, ReceiptsMatchData, DataIsPrefix, Position,
                     JournalBehind, JournalHolds
<1>2. CASE ReadManifest
  <2>1. \A w \in wire : w.run # runs
    BY <1>2, QuietOwnWrite DEF ReadManifest, Waiting
  <2> QED
    BY <1>2, <2>1, DeliveryStep DEF ReadManifest, Goto, database, delivery, IInv, OwnWrite, Position, JournalBehind
<1>3. CASE SendManifest
  <2>1. \A w \in wire : w.run # runs
    BY <1>3, QuietOwnWrite DEF SendManifest, Waiting
  <2>2. answer = "none"
    BY <1>3 DEF TypeOK, SendManifest, Waiting
  <2>3. OwnWrite'
    BY <1>3, <2>1, <2>2 DEF SendManifest, Send, Goto, delivery, OwnWrite, Waiting
  <2>4. WritesAreNext'
    BY <1>3, <1>b DEF SendManifest, Send, delivery, database, WritesAreNext, IInv
  <2> QED
    BY <1>3, <2>3, <2>4 DEF SendManifest, Goto, database, delivery, IInv, ReceiptsMatchData, DataIsPrefix,
                            Position, JournalBehind, JournalHolds
<1>4. CASE ManifestAnswered
  <2>1. \A w \in wire : w.run # runs
    BY <1>4, QuietOwnWrite DEF ManifestAnswered
  <2> QED
    BY <1>4, <2>1, DeliveryStep DEF ManifestAnswered, Goto, database, delivery, IInv, OwnWrite, Position, JournalBehind
<1>5. CASE ReadExisting
  <2>1. \A w \in wire : w.run # runs
    BY <1>5, QuietOwnWrite DEF ReadExisting, Waiting
  <2>2. manifest = plan /\ plan \in Plans
    BY <1>5 DEF ReadExisting, IInv, Position, TypeOK
  <2>3. /\ next' = Len(data) + 1 /\ Len(data) \in 0..Len(plan)
        /\ pc' \in {"idle", "verified", "send"} /\ (pc' = "verified" <=> pc' # "idle" /\ Len(data) = Len(plan))
    BY <1>5, <2>2, OwnPrefix DEF ReadExisting, Goto, IInv
  <2>4. \A i \in DOMAIN journal : journal[i].seq < Len(data) + 1
    BY <1>b DEF IInv, JournalBehind, JournalHolds, ReceiptsMatchData
  <2>5. answer = "none"
    BY <1>5 DEF TypeOK, ReadExisting, Waiting
  <2>6. Position'
    BY <1>5, <1>b, <1>c, <2>2, <2>3, <2>5 DEF ReadExisting, database, delivery, IInv, Position
  <2>7. JournalBehind'
    BY <1>5, <2>3, <2>4, DeliveryStep DEF ReadExisting, database, delivery, JournalBehind
  <2>8. OwnWrite'
    BY <1>5, <2>1 DEF ReadExisting, delivery, OwnWrite
  <2> QED
    BY <1>5, <2>6, <2>7, <2>8, DeliveryStep DEF ReadExisting, delivery, IInv
<1>6. CASE SendBatch
  <2>1. \A w \in wire : w.run # runs
    BY <1>6, QuietOwnWrite DEF SendBatch, Waiting
  <2>2. answer = "none"
    BY <1>6 DEF TypeOK, SendBatch, Waiting
  <2>3. OwnWrite'
    BY <1>6, <2>1, <2>2 DEF SendBatch, Send, Goto, delivery, OwnWrite, Waiting
  <2>4. manifest = plan /\ next \in 1..Len(plan) /\ next <= Len(data) + 1
    BY <1>6 DEF SendBatch, IInv, Position
  <2>5. WritesAreNext'
    BY <1>6, <1>b, <1>c, <2>4 DEF SendBatch, Send, delivery, database, WritesAreNext, IInv
  <2> QED
    BY <1>6, <2>2, <2>3, <2>4, <2>5 DEF SendBatch, Goto, database, delivery, IInv, ReceiptsMatchData, DataIsPrefix,
                            Position, JournalBehind, JournalHolds
<1>7. CASE BatchAnswered
  <2>1. \A w \in wire : w.run # runs
    BY <1>7, QuietOwnWrite DEF BatchAnswered
  <2> QED
    BY <1>7, <2>1, DeliveryStep DEF BatchAnswered, Goto, database, delivery, IInv, OwnWrite, Position, JournalBehind
<1>8. CASE Confirm
  <2>1. \A w \in wire : w.run # runs
    BY <1>8, QuietOwnWrite DEF Confirm, Waiting
  <2> QED
    BY <1>8, <2>1, DeliveryStep DEF Confirm, Goto, database, delivery, IInv, OwnWrite, Position, JournalBehind
<1>9. CASE OnReceipt
  <2>1. \A w \in wire : w.run # runs
    BY <1>9, QuietOwnWrite DEF OnReceipt, Waiting
  <2>2. manifest = plan /\ next \in 1..Len(plan) /\ next <= Len(data) /\ Len(data) <= Len(plan) /\ plan \in Plans
    BY <1>9 DEF OnReceipt, IInv, Position, DataIsPrefix, TypeOK
  <2>3. Receipt(plan, next) \in receipts
    BY <1>b, <1>c, <2>2 DEF Receipt, IInv, ReceiptsMatchData, DataIsPrefix
  <2>4. Receipt(plan, next).seq = next
    BY DEF Receipt
  <2>5. /\ Len(journal') = Len(journal) + 1 /\ DOMAIN journal' = 1..(Len(journal) + 1)
        /\ \A i \in 1..Len(journal) : journal'[i] = journal[i]
        /\ journal'[Len(journal) + 1] = Receipt(plan, next)
    <3>1. Receipt(plan, next) \in Row
      BY <2>2, ReceiptIsRow
    <3>2. journal \in Seq(Row) /\ journal' = Append(journal, Receipt(plan, next)) /\ journal' \in Seq(Row)
      BY <1>9, <1>a DEF OnReceipt, TypeOK
    <3> HIDE DEF Receipt, Row
    <3> QED
      BY <3>1, <3>2, AppendProperties, LenProperties
  <2>6. \A i \in 1..Len(journal) : journal[i] \in receipts /\ journal[i].seq < next
    BY <1>9, <1>b DEF OnReceipt, IInv, JournalBehind, JournalHolds
  <2>7. \A i \in 1..Len(journal), j \in 1..Len(journal) : i < j => journal[i].seq < journal[j].seq
    BY <1>b DEF IInv, JournalBehind, JournalHolds
  <2>8. receipts' = receipts /\ next' = next + 1
    BY <1>9 DEF OnReceipt, Advance, database
  <2>9. JournalHolds'
    <3>1. \A i \in DOMAIN journal' : journal'[i] \in receipts'
      BY <1>b, <2>3, <2>5, <2>6, <2>8
    <3>2. ASSUME NEW i \in DOMAIN journal', NEW j \in DOMAIN journal', i < j
          PROVE  journal'[i].seq < journal'[j].seq
      <4>1. i \in 1..Len(journal)
        BY <1>b, <2>5, <3>2
      <4>2. CASE j \in 1..Len(journal)
        BY <2>5, <2>7, <3>2, <4>1, <4>2
      <4>3. CASE j = Len(journal) + 1
        BY <2>4, <2>5, <2>6, <4>1, <4>3
      <4> QED
        BY <1>b, <2>5, <4>2, <4>3
    <3> QED
      BY <3>1, <3>2 DEF JournalHolds
  <2>10. \A i \in DOMAIN journal' : journal'[i].seq < next'
    <3> TAKE i \in DOMAIN journal'
    <3>1. CASE i \in 1..Len(journal)
      <4>1. journal'[i] = journal[i] /\ journal[i].seq < next /\ journal[i].seq \in Nat
        BY <2>5, <2>6, <3>1, ElementOfSeq DEF TypeOK, Row
      <4> QED
        BY <1>b, <2>8, <4>1
    <3>2. CASE i = Len(journal) + 1
      BY <1>b, <2>4, <2>5, <2>8, <3>2
    <3> QED
      BY <1>b, <2>5, <3>1, <3>2
  <2>11. Position'
    BY <1>9, <1>b, <1>c, <2>2 DEF OnReceipt, Advance, Goto, database, delivery, IInv, Position
  <2>12. OwnWrite'
    BY <1>9, <2>1 DEF OnReceipt, delivery, OwnWrite
  <2> QED
    BY <1>9, <2>9, <2>10, <2>11, <2>12 DEF OnReceipt, database, delivery, IInv, ReceiptsMatchData, DataIsPrefix,
                                          WritesAreNext, JournalBehind
<1>10. CASE Fail
  <2>1. OwnWrite' /\ Position'
    BY <1>10 DEF Fail, Goto, delivery, OwnWrite, Position
  <2> QED
    BY <1>10, <2>1, DeliveryStep DEF Fail, Goto, delivery, IInv, JournalBehind
<1>11. CASE Engine
  <2>1. PICK w \in wire : Commit(w) \/ Rollback(w)
    BY <1>11 DEF Engine
  <2>2. w \in Write /\ w.run <= runs
    BY DEF TypeOK, IInv, WritesAreNext
  <2>3. OwnWrite'
    <3>1. UNCHANGED <<runs, pc, plan, next>> /\ wire' = wire \ {w}
      BY <1>11, <2>1 DEF Engine, delivery, Commit, Rollback, Answered
    <3>2. CASE w.run = runs
      <4> SUFFICES ASSUME NEW v \in wire \ {w}, v.run = runs, pc # "idle"
                   PROVE  FALSE
        BY <3>1 DEF OwnWrite
      <4>1. v.plan = w.plan /\ v.seq = w.seq
        BY <3>2 DEF IInv, OwnWrite
      <4>2. v = w
        BY <3>2, <4>1 DEF TypeOK, Write
      <4> QED
        BY <4>2
    <3>3. CASE w.run # runs
      <4>1. answer' = answer
        BY <2>1, <3>3 DEF Commit, Rollback, Answered
      <4> QED
        BY <3>1, <4>1 DEF IInv, OwnWrite
    <3> QED
      BY <3>2, <3>3
  <2>4. CASE Rollback(w)
    <3>1. answer' \in {answer, "error"}
      BY <2>4 DEF Rollback, Answered
    <3>2. WritesAreNext'
      BY <1>11, <2>4 DEF Engine, delivery, Rollback, Answered, database, IInv, WritesAreNext
    <3> QED
      BY <1>11, <2>3, <2>4, <3>1, <3>2 DEF Engine, Rollback, database, delivery, IInv, ReceiptsMatchData, DataIsPrefix,
                                   Position, JournalBehind, JournalHolds
  <2>5. CASE Commit(w) /\ w.seq = 0
    <3>1. manifest = <<>> /\ data = <<>> /\ data' = <<>> /\ receipts' = receipts
      <4>1. manifest = <<>>
        BY <2>5 DEF Commit, Unique, NoPlan
      <4>2. Len(data) = 0
        BY <1>b, <4>1 DEF IInv, DataIsPrefix
      <4> QED
        BY <2>5, <4>1, <4>2, EmptySeq DEF Commit, TypeOK
    <3>2. DataIsPrefix' /\ ReceiptsMatchData' /\ JournalHolds'
      <4>1. manifest' \in Plans
        BY <2>2, <2>5 DEF Commit, Write
      <4>2. Len(manifest') \in Nat
        BY <4>1, PlanIsSeq
      <4> QED
        BY <1>11, <3>1, <4>2 DEF Engine, DataIsPrefix, ReceiptsMatchData, IInv, JournalBehind, JournalHolds
    <3>3. \A v \in wire : v.seq = 0
      BY <3>1, PlanIsSeq DEF IInv, WritesAreNext, TypeOK, Write, NoPlan
    <3>4. WritesAreNext'
      BY <1>11, <2>5, <3>3 DEF Engine, delivery, Commit, Answered, IInv, WritesAreNext
    <3>5. pc \notin {"existing", "send", "sending", "confirm", "receipt", "verified"}
      BY <3>1, PlanIsSeq DEF IInv, Position, TypeOK, NoPlan
    <3> QED
      BY <1>11, <2>3, <3>2, <3>4, <3>5 DEF Engine, delivery, IInv, Position, JournalBehind
  <2>6. CASE Commit(w) /\ w.seq # 0
    <3>1. w.plan = manifest /\ w.seq <= Len(data) + 1 /\ w.seq \in 1..Len(manifest)
      BY <2>2, <2>6, PlanIsSeq DEF IInv, WritesAreNext, Write
    <3>2. w.seq = Len(data) + 1
      <4> SUFFICES ASSUME w.seq \in 1..Len(data) PROVE FALSE
        BY <1>b, <3>1
      <4>1. [seq |-> w.seq, payload |-> data[w.seq]] \in receipts
        BY DEF IInv, ReceiptsMatchData
      <4> QED
        BY <2>6, <4>1 DEF Commit, Unique
    <3>3. /\ Len(data') = Len(data) + 1
          /\ \A i \in 1..Len(data) : data'[i] = data[i]
          /\ data'[Len(data) + 1] = manifest[Len(data) + 1]
      <4>1. manifest[w.seq] \in Payloads
        BY <2>2, <3>1, PlanIsSeq, ElementOfSeq DEF Write
      <4> QED
        BY <2>6, <3>1, <3>2, <4>1, AppendProperties DEF Commit, TypeOK
    <3>4. manifest' = manifest /\ receipts' = receipts \cup {[seq |-> Len(data) + 1, payload |-> data'[Len(data) + 1]]}
      BY <2>6, <3>1, <3>2, <3>3 DEF Commit, Receipt
    <3>5. DataIsPrefix'
      BY <1>b, <3>1, <3>2, <3>3, <3>4 DEF IInv, DataIsPrefix
    <3>6. ReceiptsMatchData'
      BY <1>b, <3>3, <3>4 DEF IInv, ReceiptsMatchData
    <3>7. WritesAreNext'
      BY <1>11, <1>b, <2>6, <3>3, <3>4 DEF Engine, delivery, Commit, Answered, IInv, WritesAreNext, TypeOK, Write
    <3>8. JournalBehind'
      BY <1>11, <3>4 DEF Engine, IInv, JournalBehind, JournalHolds
    <3>9. pc # "verified"
      BY <1>b, <3>1, <3>2 DEF IInv, Position
    <3>10. pc = "sending" /\ answer' = "ok" => next <= Len(data) + 1
      BY DEF IInv, Position
    <3>11. Position'
      BY <1>11, <1>b, <3>3, <3>4, <3>9, <3>10 DEF Engine, delivery, IInv, Position
    <3> QED
      BY <2>3, <3>5, <3>6, <3>7, <3>8, <3>11 DEF IInv
  <2> QED
    BY <2>1, <2>4, <2>5, <2>6
<1>12. CASE UNCHANGED vars
  BY <1>12 DEF vars, database, delivery, IInv, ReceiptsMatchData, DataIsPrefix, WritesAreNext, OwnWrite,
               Position, JournalBehind, JournalHolds
<1> QED
  BY <1>1, <1>2, <1>3, <1>4, <1>5, <1>6, <1>7, <1>8, <1>9, <1>10, <1>11, <1>12 DEF Next

LEMMA Invariance ==
  Spec => [](TypeOK /\ IInv)
<1>1. Init => TypeOK /\ IInv
  BY InitInv
<1>2. TypeOK /\ IInv /\ [Next]_vars => (TypeOK /\ IInv)'
  BY TypeStep, InvStep
<1> QED
  BY <1>1, <1>2, PTL DEF Spec

-----------------------------------------------------------------------------
(* What it gives.                                                          *)

\* Types, and answers reach only who waits for them (TypeOK).
THEOREM TypeCorrect ==
  Spec => []TypeOK
BY Invariance, PTL

\* What an interrupted delivery leaves is never refused by the next one of the
\* same plan (the prefix check of deliver).
THEOREM DeliveryResumes ==
  Spec => []AlwaysResumable
<1>1. IInv => AlwaysResumable
  BY DEF IInv, Position, AlwaysResumable
<1> QED
  BY <1>1, Invariance, PTL

\* A delivery that returns leaves its whole plan in the database (deliver's
\* "verified").
THEOREM VerifiedMeansComplete ==
  Spec => []VerifiedIsComplete
<1>1. TypeOK /\ IInv => VerifiedIsComplete
  <2> SUFFICES ASSUME TypeOK, IInv, pc = "verified" PROVE data = plan
    BY DEF VerifiedIsComplete
  <2>1. manifest = plan /\ Len(data) = Len(plan) /\ plan \in Plans
    BY DEF IInv, Position, TypeOK
  <2>2. plan \in Seq(Payloads) /\ data \in Seq(Payloads)
    BY <2>1, PlanIsSeq DEF TypeOK
  <2>3. \A i \in 1..Len(data) : data[i] = plan[i]
    BY <2>1 DEF IInv, DataIsPrefix
  <2> QED
    BY <2>1, <2>2, <2>3, SeqEqual
<1> QED
  BY <1>1, Invariance, PTL

\* The journal names committed batches only, each once (load_batches' receipt).
THEOREM JournalIsSound ==
  Spec => []JournalHolds
<1>1. IInv => JournalHolds
  BY DEF IInv, JournalBehind
<1> QED
  BY <1>1, Invariance, PTL

\* Deliveries that are interrupted anywhere, with writes that the engine
\* executes late or never, load one plan in order and each batch once
\* (ingest and deliver against LoadedPrefix).
THEOREM DeliveryLoadsOnePlan ==
  Spec => LoadsOnePlanInOrder
<1>1. Init => Contract!Init
  BY DEF Init, Contract!Init
<1>2. TypeOK /\ IInv /\ [Next]_vars => [Contract!Next]_<<manifest, data>>
  <2> SUFFICES ASSUME TypeOK, IInv, [Next]_vars, ~UNCHANGED <<manifest, data>>
               PROVE  Contract!Next
    OBVIOUS
  <2>1. Engine
    BY DEF Next, Begin, ReadManifest, SendManifest, ManifestAnswered, ReadExisting, SendBatch,
           BatchAnswered, Confirm, OnReceipt, Fail, vars, database
  <2>2. PICK w \in wire : Commit(w)
    BY <2>1 DEF Engine, Rollback, database
  <2>3. w \in Write
    BY DEF TypeOK
  <2>4. CASE w.seq = 0
    <3>1. manifest = NoPlan /\ manifest' \in Plans /\ data' = data
      BY <2>2, <2>3, <2>4 DEF Commit, Unique, Write
    <3> QED
      BY <3>1 DEF Contract!Next, Contract!Adopt
  <2>5. CASE w.seq # 0
    <3>1. w.plan = manifest /\ w.seq <= Len(data) + 1 /\ w.seq \in 1..Len(manifest) /\ Len(data) \in Nat
      BY <2>3, <2>5, PlanIsSeq, LenProperties DEF IInv, WritesAreNext, Write, TypeOK
    <3>2. w.seq = Len(data) + 1
      <4> SUFFICES ASSUME w.seq \in 1..Len(data) PROVE FALSE
        BY <3>1
      <4>1. [seq |-> w.seq, payload |-> data[w.seq]] \in receipts
        BY DEF IInv, ReceiptsMatchData
      <4> QED
        BY <2>2, <2>5, <4>1 DEF Commit, Unique
    <3>3. manifest \in Plans /\ Len(manifest) \in Nat
      BY <2>3, <3>1, PlanIsSeq DEF Write
    <3>4. data' = Append(data, manifest[Len(data) + 1]) /\ manifest' = manifest
      BY <2>2, <2>5, <3>1, <3>2 DEF Commit
    <3> QED
      BY <3>1, <3>2, <3>3, <3>4 DEF Contract!Next, Contract!Grow
  <2> QED
    BY <2>4, <2>5
<1> QED
  BY <1>1, <1>2, Invariance, PTL DEF Spec, LoadsOnePlanInOrder, Contract!Spec
=============================================================================
