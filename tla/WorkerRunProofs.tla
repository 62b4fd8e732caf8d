--------------------------- MODULE WorkerRunProofs ---------------------------
(* Proofs about WorkerRun, for any number of claims, attempts, epochs,      *)
(* processes and authorities.                                               *)
EXTENDS WorkerRun, TLAPS

USE BoundsAssumption DEF BoundsAssumption, ChannelTypeOK

-----------------------------------------------------------------------------
(* The inductive invariant.                                                 *)

\* What the journal's claim was answered with.
Mine == IF disk.claim = 0 THEN {} ELSE ledger[disk.claim]

\* The process holds the journal that is on disk, but for a result that is
\* not written yet, and that journal was written under the key it uses.
Holds ==
  /\ disk \in Journal /\ ~disk.done /\ disk.key = key
  /\ mem = [disk EXCEPT !.result = mem.result]
  /\ pc # "save" => mem.result = disk.result

Journaled ==
  /\ pc # "off" => runs >= 1
  /\ pc \notin {"off", "start"} => Holds
  /\ pc \in {"claim", "claiming"} => disk.request = 0
  /\ pc \in {"state", "execute", "save", "publish", "finish", "finishing"} => disk.request # 0
  /\ pc \in {"execute", "save"} => disk.result = "none"
  /\ pc = "save" => mem.result # "none"
  /\ pc \in {"publish", "finish", "finishing"} => disk.result # "none"

\* Each attempt answers one claim; every claim before the journal's was
\* answered, and none after it was made.
Claimed ==
  /\ \A k \in Claims : \A n \in ledger[k] : n <= tries /\ ledger[k] = {n}
  /\ \A k, j \in Claims : \A n \in Tries : n \in ledger[k] /\ n \in ledger[j] => k = j
  /\ \A k \in Claims : /\ k > disk.claim => ledger[k] = {}
                       /\ k < disk.claim => ledger[k] # {}
  /\ disk.claim # 0 /\ disk.done => Mine # {}
  /\ disk.request # 0 => disk.request \in Mine
  /\ \A n \in Tries : n > tries =>
       attempts[n].state = "none" /\ attempts[n].result = "none" /\ computed[n] = 0

\* A call of an earlier process says nothing the journal does not say, except
\* a result that a cancellation has overtaken.
OnTheWire ==
  /\ \A c \in wire : c.run <= runs
  /\ \A c \in wire : c.op = "claim" =>
       /\ c.claim <= disk.claim
       /\ c.claim = disk.claim => c.key = disk.key
       /\ pc # "off" /\ c.run = runs => pc = "claiming" /\ c.claim = disk.claim
  /\ \A c \in wire : c.op = "finish" =>
       /\ c.attempt <= tries
       /\ c.attempt \in Mine => c.attempt = disk.request
       /\ c.attempt = disk.request =>
            c.status = disk.result \/ (disk.result = "cancelled" /\ attempts[c.attempt].state # "running")
       /\ pc # "off" /\ c.run = runs => pc = "finishing" /\ c.attempt = disk.request

\* An answer is about the journal.
Answered ==
  /\ reply.kind = "claimed" => pc = "claiming" /\ reply.attempt \in Mine /\ \A c \in wire : c.run # runs
  /\ reply.kind = "accepted" => pc = "finishing" /\ attempts[disk.request].state \notin ActiveStates

\* A result is of an attempt that ended, and of the journal's claim only if
\* the journal has its request.
Accepted ==
  /\ \A n \in Tries : attempts[n].result # "none" =>
       attempts[n].state \notin ActiveStates /\ (n \in Mine => n = disk.request)
  /\ AcceptedAsWritten

\* A process that took over no journal has computed nothing yet.
Computing ==
  /\ NeverRecomputed
  /\ pc \in {"claim", "claiming", "state", "execute"} /\ ~pending =>
       \A n \in Tries : n \in Mine => computed[n] = 0
  /\ pc = "execute" => ~pending

IInv ==
  /\ TypeOK /\ Journaled /\ Claimed /\ OnTheWire
  /\ Answered /\ Accepted /\ Computing /\ NothingForgotten

-----------------------------------------------------------------------------
(* Journals, field by field.                                                *)

LEMMA JournalFields ==
  ASSUME NEW j \in Journal \cup {NoJournal}
  PROVE  /\ j.claim \in 0..MaxClaims /\ j.key \in 1..MaxEpoch /\ j.request \in 0..MaxAttempts
         /\ j.result \in {"none"} \cup ResultStatus /\ j.done \in BOOLEAN
         /\ j \in Journal => j.claim \in Claims
         /\ j.request # 0 => j \in Journal
         /\ j.claim # 0 => j \in Journal
<1>1. CASE j \in Journal
  BY <1>1 DEF Journal, Claims
<1>2. CASE j = NoJournal
  <2>1. j.claim = 0 /\ j.key = 1 /\ j.request = 0 /\ j.result = "none" /\ j.done = TRUE
    BY <1>2 DEF NoJournal
  <2>2. j \notin Journal
    BY <2>1 DEF Journal, Claims
  <2>3. j.done \in BOOLEAN
    BY <2>1
  <2>4. j.claim \in 0..MaxClaims /\ j.key \in 1..MaxEpoch /\ j.request \in 0..MaxAttempts
    BY <2>1
  <2> QED
    BY <2>1, <2>2, <2>3, <2>4
<1> QED
  BY <1>1, <1>2

\* Records that differ from a journal in one field.
LEMMA JournalRequest ==
  ASSUME NEW j \in Journal, NEW n \in 0..MaxAttempts
  PROVE  LET k == [j EXCEPT !.request = n] IN
         /\ k \in Journal
         /\ k.claim = j.claim /\ k.key = j.key /\ k.request = n /\ k.result = j.result /\ k.done = j.done
  BY DEF Journal

LEMMA JournalResult ==
  ASSUME NEW j \in Journal, NEW r \in {"none"} \cup ResultStatus
  PROVE  LET k == [j EXCEPT !.result = r] IN
         /\ k \in Journal
         /\ k.claim = j.claim /\ k.key = j.key /\ k.request = j.request /\ k.result = r /\ k.done = j.done
  BY DEF Journal

LEMMA JournalDone ==
  ASSUME NEW j \in Journal
  PROVE  LET k == [j EXCEPT !.done = TRUE] IN
         /\ k \in Journal
         /\ k.claim = j.claim /\ k.key = j.key /\ k.request = j.request /\ k.result = j.result /\ k.done
  BY DEF Journal

\* Two journals with the same fields are one.
LEMMA SameJournal ==
  ASSUME NEW j \in Journal, NEW k \in Journal, j.claim = k.claim, j.key = k.key,
         j.request = k.request, j.result = k.result, j.done = k.done
  PROVE  j = k
  BY DEF Journal

\* While a process runs, what it holds and what is on disk.
LEMMA Running ==
  ASSUME IInv, pc \notin {"off", "start"}
  PROVE  /\ disk \in Journal /\ mem \in Journal /\ disk.claim \in Claims /\ Mine = ledger[disk.claim]
         /\ disk.request \in 0..MaxAttempts /\ disk.result \in {"none"} \cup ResultStatus
         /\ ~disk.done /\ disk.key = key /\ runs >= 1
         /\ mem.claim = disk.claim /\ mem.request = disk.request /\ mem.key = disk.key /\ ~mem.done
         /\ mem.result \in {"none"} \cup ResultStatus
         /\ pc # "save" => mem = disk
<1>1. disk \in Journal /\ ~disk.done /\ disk.key = key /\ runs >= 1 /\ mem = [disk EXCEPT !.result = mem.result]
  BY DEF IInv, Journaled, Holds
<1>2. mem \in Journal \cup {NoJournal}
  BY DEF IInv, TypeOK
<1>3. mem.result \in {"none"} \cup ResultStatus
  BY <1>2, JournalFields
<1>4. /\ mem \in Journal /\ mem.claim = disk.claim /\ mem.request = disk.request
      /\ mem.key = disk.key /\ mem.done = disk.done
  <2>1. PICK r \in {"none"} \cup ResultStatus : mem = [disk EXCEPT !.result = r]
    BY <1>1, <1>3
  <2> QED
    BY <1>1, <2>1, JournalResult
<1>5. disk.claim \in Claims /\ disk.request \in 0..MaxAttempts /\ disk.result \in {"none"} \cup ResultStatus
  BY <1>1, JournalFields
<1>6. Mine = ledger[disk.claim]
  BY <1>5 DEF Mine, Claims
<1>7. pc # "save" => mem = disk
  BY <1>1, <1>4, SameJournal DEF IInv, Journaled, Holds
<1> QED
  BY <1>1, <1>3, <1>4, <1>5, <1>6, <1>7

\* What the journal on disk always is.
LEMMA OnDisk ==
  ASSUME IInv
  PROVE  /\ disk.claim \in 0..MaxClaims /\ disk.request \in 0..MaxAttempts /\ disk.key \in 1..MaxEpoch
         /\ disk.result \in {"none"} \cup ResultStatus /\ disk.done \in BOOLEAN
         /\ disk.request # 0 => disk.claim \in Claims
         /\ disk.claim # 0 => disk.claim \in Claims /\ Mine = ledger[disk.claim]
         /\ ledger \in [Claims -> SUBSET (0..MaxAttempts)] /\ Mine \subseteq 0..MaxAttempts
<1>1. disk \in Journal \cup {NoJournal} /\ ledger \in [Claims -> SUBSET (0..MaxAttempts)]
  BY DEF IInv, TypeOK
<1>2. disk.claim \in 0..MaxClaims /\ (disk.request # 0 => disk.claim \in Claims)
  BY <1>1, JournalFields
<1>3. disk.claim # 0 => disk.claim \in Claims /\ Mine = ledger[disk.claim]
  BY <1>2 DEF Mine, Claims
<1>4. Mine \subseteq 0..MaxAttempts
  BY <1>1, <1>3 DEF Mine
<1> QED
  BY <1>1, <1>2, <1>3, <1>4, JournalFields

-----------------------------------------------------------------------------
(* Steps that end the process, or write its journal.                        *)

\* The journal is marked done: nothing of it is left at the backend.
LEMMA DoneIInv ==
  ASSUME IInv, pc \notin {"off", "start"}, pc # "save", Done(mem), up => Active = {}, Mine # {},
         reply' \in Reply, reply'.kind = "none",
         UNCHANGED <<server, wire, key, runs, computed, channel>>
  PROVE  IInv'
<1> USE DEF server, process, channel
<1>0. disk' = [disk EXCEPT !.done = TRUE]
  BY Running DEF Done
<1>1. /\ pc' = "off" /\ mem' = NoJournal /\ pending' = FALSE
      /\ check' = "due" /\ pinned' = 0 /\ since' = {}
  BY DEF Done, Off
<1>2. /\ disk' \in Journal /\ disk'.claim = disk.claim /\ disk'.key = disk.key
      /\ disk'.request = disk.request /\ disk'.result = disk.result /\ disk'.done
  BY <1>0, Running, JournalDone
<1>3. Mine' = Mine /\ Active' = Active
  BY <1>2 DEF Mine, Active
<1>4. TypeOK'
  <2>1. reply' \in Reply /\ disk' \in Journal
    BY <1>2
  <2>2. ChannelTypeOK'
    BY <1>1 DEF IInv, TypeOK
  <2> QED
    BY <1>1, <2>1, <2>2 DEF IInv, TypeOK
<1>5. Journaled'
  BY <1>1 DEF Journaled, Holds
<1>6. Claimed'
  BY <1>2, <1>3 DEF IInv, Claimed
<1>7. OnTheWire'
  BY <1>1, <1>2, <1>3 DEF IInv, OnTheWire
<1>8. Answered'
  BY DEF Answered
<1>9. Accepted'
  BY <1>2, <1>3 DEF IInv, Accepted, AcceptedAsWritten
<1>10. Computing'
  BY <1>1 DEF IInv, Computing, NeverRecomputed
<1>11. NothingForgotten'
  BY <1>3 DEF NothingForgotten
<1> QED
  BY <1>4, <1>5, <1>6, <1>7, <1>8, <1>9, <1>10, <1>11 DEF IInv

\* A result is written: the one that was there, the first, or a cancellation
\* that the backend knows of.
LEMMA WriteIInv ==
  ASSUME IInv, NEW r \in ResultStatus, pc \in {"state", "save", "publish"},
         disk' = [disk EXCEPT !.result = r], mem' = disk', pc' \in {"publish", "finish"},
         \/ r = disk.result
         \/ disk.result = "none"
         \/ r = "cancelled" /\ attempts[disk.request].state = "cancel_requested",
         UNCHANGED <<server, wire, reply, key, pending, runs, computed, check, pinned, since, channel>>
  PROVE  IInv'
<1> USE DEF server, process, channel
<1>1. /\ disk' \in Journal /\ disk'.claim = disk.claim /\ disk'.key = disk.key
      /\ disk'.request = disk.request /\ disk'.result = r /\ disk'.done = disk.done
  <2>1. disk \in Journal /\ r \in {"none"} \cup ResultStatus
    BY Running
  <2> QED
    BY <2>1, JournalResult
<1>2. disk.request # 0 /\ disk.request \in Mine /\ disk.request \in Tries
  BY Running DEF IInv, Journaled, Holds, Claimed, Tries
<1>3. Mine' = Mine /\ Active' = Active
  BY <1>1 DEF Mine, Active
<1>4. r # "none"
  BY DEF ResultStatus
<1>5. TypeOK'
  BY <1>1 DEF IInv, TypeOK
<1>6. Journaled'
  <2>1. mem' = [disk' EXCEPT !.result = mem'.result]
    BY <1>1 DEF Journal
  <2> QED
    BY <1>1, <1>2, <1>4, <2>1, Running DEF Journaled, Holds
<1>7. Claimed'
  BY <1>1, <1>3 DEF IInv, Claimed
<1>8. OnTheWire'
  <2>1. ASSUME NEW c \in wire, c.op = "finish", c.attempt = disk.request
        PROVE  c.status = r \/ (r = "cancelled" /\ attempts[c.attempt].state # "running")
    <3>1. c.status \in ResultStatus
      BY <2>1 DEF IInv, TypeOK, ClaimCall, FinishCall
    <3> QED
      BY <2>1, <3>1, <1>4 DEF IInv, OnTheWire, ResultStatus
  <2>2. \A c \in wire : pc # "off" /\ c.run = runs => c.op # "claim" /\ c.op # "finish"
    BY DEF IInv, OnTheWire
  <2> QED
    BY <1>1, <1>3, <2>1, <2>2 DEF IInv, OnTheWire
<1>9. Answered'
  BY DEF IInv, Answered
<1>10. Accepted'
  <2>1. attempts[disk.request].result # "none" => attempts[disk.request].result = r
    BY <1>2, <1>4 DEF IInv, Accepted, AcceptedAsWritten, ActiveStates
  <2> QED
    BY <1>1, <1>3, <2>1 DEF IInv, Accepted, AcceptedAsWritten
<1>11. Computing'
  BY DEF IInv, Computing, NeverRecomputed
<1>12. NothingForgotten'
  BY <1>1, <1>3 DEF IInv, NothingForgotten
<1> QED
  BY <1>5, <1>6, <1>7, <1>8, <1>9, <1>10, <1>11, <1>12 DEF IInv

-----------------------------------------------------------------------------
(* Steps of the backend.                                                    *)

LEMMA FencedFields ==
  ASSUME TypeOK
  PROVE  /\ Fenced \in [Tries -> AttemptRow]
         /\ \A n \in Tries : /\ Fenced[n].epoch = attempts[n].epoch /\ Fenced[n].result = attempts[n].result
                             /\ Fenced[n].state \notin ActiveStates
                             /\ attempts[n].state \notin ActiveStates => Fenced[n].state = attempts[n].state
<1>1. ASSUME NEW n \in Tries
      PROVE  /\ Fenced[n] \in AttemptRow
             /\ Fenced[n].epoch = attempts[n].epoch /\ Fenced[n].result = attempts[n].result
             /\ Fenced[n].state \notin ActiveStates
             /\ attempts[n].state \notin ActiveStates => Fenced[n].state = attempts[n].state
  <2>1. attempts[n] \in AttemptRow
    BY DEF TypeOK
  <2>2. Fenced[n] = IF attempts[n].state \in ActiveStates THEN [attempts[n] EXCEPT !.state = "interrupted"]
                                                            ELSE attempts[n]
    BY DEF Fenced, Active
  <2> QED
    BY <2>1, <2>2 DEF AttemptRow, ActiveStates, ResultStatus
<1> QED
  BY <1>1 DEF Fenced

\* Fencing leaves nothing active.
LEMMA FencedIInv ==
  ASSUME IInv, attempts' = Fenced, up' \in BOOLEAN, epoch' \in 1..MaxEpoch,
         UNCHANGED <<queued, tries, ledger, wire, reply, key, disk, process, computed, channel>>
  PROVE  IInv'
<1> USE DEF process, channel
<1>1. /\ attempts' \in [Tries -> AttemptRow]
      /\ \A n \in Tries : /\ attempts'[n].result = attempts[n].result
                          /\ attempts'[n].state \notin ActiveStates
                          /\ attempts[n].state \notin ActiveStates => attempts'[n].state = attempts[n].state
  BY FencedFields DEF IInv
<1>2. Mine' = Mine /\ Active' = {}
  BY <1>1 DEF Mine, Active
<1>3. disk.request # 0 => disk.request \in Tries
  BY OnDisk DEF Tries
<1>4. TypeOK'
  BY <1>1 DEF IInv, TypeOK
<1>5. Journaled'
  BY DEF IInv, Journaled, Holds
<1>6. Claimed'
  BY <1>1, <1>2 DEF IInv, Claimed, ActiveStates
<1>7. OnTheWire'
  <2>1. \A c \in wire : c.op = "finish" => c.attempt \in Tries
    BY DEF IInv, TypeOK, ClaimCall, FinishCall
  <2>2. \A n \in Tries : attempts'[n].state # "running"
    BY <1>1 DEF ActiveStates
  <2> QED
    BY <1>2, <2>1, <2>2 DEF IInv, OnTheWire
<1>8. Answered'
  BY <1>1, <1>2, <1>3 DEF IInv, Answered, Journaled, Holds
<1>9. Accepted'
  BY <1>1, <1>2, <1>3 DEF IInv, Accepted, AcceptedAsWritten
<1>10. Computing'
  BY <1>2 DEF IInv, Computing, NeverRecomputed
<1>11. NothingForgotten'
  BY <1>2 DEF NothingForgotten
<1> QED
  BY <1>4, <1>5, <1>6, <1>7, <1>8, <1>9, <1>10, <1>11 DEF IInv

LEMMA ExpireIInv == IInv /\ Expire => IInv'
  BY FencedIInv DEF Expire, IInv, TypeOK

LEMMA RevokeIInv == IInv /\ Revoke => IInv'
  BY FencedIInv DEF Revoke, IInv, TypeOK

LEMMA BackendStartsIInv == IInv /\ BackendStarts => IInv'
  BY FencedIInv DEF BackendStarts, IInv, TypeOK

LEMMA BackendStopsIInv == IInv /\ BackendStops => IInv'
<1> SUFFICES ASSUME IInv, BackendStops PROVE IInv'
  OBVIOUS
<1> USE DEF process, channel
<1>1. up' = FALSE /\ wire' = {} /\ Mine' = Mine
  BY DEF BackendStops, Mine
<1>2. TypeOK'
  <2>1. up' \in BOOLEAN /\ wire' \subseteq ClaimCall \cup FinishCall
    BY <1>1
  <2> QED
    BY <2>1 DEF BackendStops, IInv, TypeOK
<1>3. Journaled'
  BY DEF BackendStops, IInv, Journaled, Holds
<1>4. Claimed' /\ Computing'
  BY <1>1 DEF BackendStops, IInv, Claimed, Computing, NeverRecomputed
<1>5. OnTheWire' /\ NothingForgotten'
  BY <1>1 DEF OnTheWire, NothingForgotten
<1>6. Answered' /\ Accepted'
  BY <1>1 DEF BackendStops, IInv, Answered, Accepted, AcceptedAsWritten
<1> QED
  BY <1>2, <1>3, <1>4, <1>5, <1>6 DEF IInv

\* Only a running attempt becomes one whose cancellation is requested.
LEMMA CancelIInv == IInv /\ Cancel => IInv'
<1> SUFFICES ASSUME IInv, NEW m \in Active, up, attempts[m].state = "running",
                    attempts' = [attempts EXCEPT ![m].state = "cancel_requested"],
                    UNCHANGED <<up, epoch, queued, tries, ledger, wire, reply, key, disk, process, computed, channel>>
             PROVE  IInv'
  BY DEF Cancel
<1> USE DEF process, channel
<1>1. m \in Tries
  BY DEF Active
<1>2. /\ attempts' \in [Tries -> AttemptRow]
      /\ \A n \in Tries : /\ attempts'[n].result = attempts[n].result /\ attempts'[n].epoch = attempts[n].epoch
                          /\ attempts'[n].state = IF n = m THEN "cancel_requested" ELSE attempts[n].state
  BY <1>1 DEF IInv, TypeOK, AttemptRow, ActiveStates
<1>3. Mine' = Mine /\ Active' = Active
  BY <1>2 DEF Mine, Active, ActiveStates
<1>4. disk.request # 0 => disk.request \in Tries
  BY OnDisk DEF Tries
<1>5. TypeOK'
  BY <1>2 DEF IInv, TypeOK
<1>6. Journaled'
  BY DEF IInv, Journaled, Holds
<1>7. Claimed'
  BY <1>2, <1>3 DEF IInv, Claimed
<1>8. OnTheWire'
  <2>1. \A c \in wire : c.op = "finish" => c.attempt \in Tries
    BY DEF IInv, TypeOK, ClaimCall, FinishCall
  <2> QED
    BY <1>2, <1>3, <2>1 DEF IInv, OnTheWire
<1>9. Answered'
  BY <1>2, <1>3, <1>4 DEF IInv, Answered, Journaled, Holds, ActiveStates
<1>10. Accepted'
  BY <1>2, <1>3, <1>4 DEF IInv, Accepted, AcceptedAsWritten, ActiveStates
<1>11. Computing'
  BY <1>3 DEF IInv, Computing, NeverRecomputed
<1>12. NothingForgotten'
  <2>1. \A n \in Active : attempts'[n].epoch = attempts[n].epoch
    BY <1>2 DEF Active
  <2> QED
    BY <1>3, <2>1 DEF IInv, NothingForgotten
<1> QED
  BY <1>5, <1>6, <1>7, <1>8, <1>9, <1>10, <1>11, <1>12 DEF IInv

LEMMA RetryIInv == IInv /\ Retry => IInv'
  BY DEF Retry, IInv, TypeOK, Journaled, Holds, Claimed, OnTheWire, Answered, Accepted, AcceptedAsWritten,
         Computing, NeverRecomputed, NothingForgotten, Mine, Active, process, channel

LEMMA RotateIInv == IInv /\ Rotate => IInv'
  BY DEF Rotate, IInv, TypeOK, Journaled, Holds, Claimed, OnTheWire, Answered, Accepted, AcceptedAsWritten,
         Computing, NeverRecomputed, NothingForgotten, Mine, Active, process, channel

LEMMA DeliverIInv == IInv /\ Deliver => IInv'
  BY DEF Deliver, IInv, TypeOK, Journaled, Holds, Claimed, OnTheWire, Answered, Accepted, AcceptedAsWritten,
         Computing, NeverRecomputed, NothingForgotten, Mine, Active, server, process, channel

\* A call that is gone.
LEMMA DropIInv ==
  ASSUME IInv, NEW c \in wire, Drop(c)
  PROVE  IInv'
<1> USE DEF Drop, server, process
<1>1. Mine' = Mine /\ Active' = Active
  BY DEF Mine, Active
<1>2. TypeOK'
  BY DEF IInv, TypeOK, channel
<1>3. Journaled'
  BY DEF IInv, Journaled, Holds
<1>6. Answered'
  BY <1>1 DEF IInv, Answered
<1>4. Claimed' /\ OnTheWire'
  BY <1>1 DEF IInv, Claimed, OnTheWire
<1>5. Accepted' /\ Computing' /\ NothingForgotten'
  BY <1>1 DEF IInv, Accepted, AcceptedAsWritten, Computing, NeverRecomputed, NothingForgotten
<1> QED
  BY <1>2, <1>3, <1>4, <1>5, <1>6 DEF IInv

\* What an answer does to the network.
LEMMA AnswerNet ==
  ASSUME IInv, NEW c \in wire, NEW r \in Reply, Answer(c, r), UNCHANGED <<pc, runs>>
  PROVE  /\ wire' = wire \ {c} /\ wire' \subseteq wire /\ c \notin wire'
         /\ reply' \in Reply
         /\ \/ reply' = reply
            \/ reply' = NoReply
            \/ reply' = r /\ pc \in {"claiming", "finishing"} /\ c.run = runs
  BY DEF Answer, IInv, TypeOK, NoReply, Reply

\* When a claim is answered with nothing, no work is waiting for its journal.
LEMMA NewAnswer ==
  ASSUME IInv, NEW c \in wire, c.op = "claim", ledger[c.claim] = {}
  PROVE  c.claim \in Claims /\ c.claim = disk.claim /\ Mine = {} /\ ~disk.done /\ disk.request = 0 /\ c.key = disk.key
<1>1. c.claim \in Claims
  BY DEF IInv, TypeOK, ClaimCall, FinishCall
<1>2. disk.claim \in 0..MaxClaims /\ disk.done \in BOOLEAN
  BY OnDisk
<1>3. c.claim = disk.claim
  BY <1>1, <1>2 DEF IInv, OnTheWire, Claimed, Claims
<1>4. Mine = {}
  BY <1>1, <1>3 DEF Mine, Claims
<1> QED
  BY <1>1, <1>2, <1>3, <1>4 DEF IInv, OnTheWire, Claimed, Claims

\* An answer to a claim of the running process, and what follows on the wire.
LEMMA OwnClaim ==
  ASSUME IInv, NEW c \in wire, c.op = "claim", pc \in {"claiming", "finishing"}, c.run = runs
  PROVE  pc = "claiming" /\ c.claim = disk.claim /\ \A d \in wire : d.run = runs => d = c
<1>1. c \in ClaimCall /\ c.claim = disk.claim /\ c.key = disk.key /\ pc = "claiming"
  BY DEF IInv, TypeOK, OnTheWire, ClaimCall, FinishCall
<1>2. ASSUME NEW d \in wire, d.run = runs
      PROVE  d = c
  <2>1. d \in ClaimCall \cup FinishCall
    BY DEF IInv, TypeOK
  <2>2. d.op # "finish"
    BY <1>1, <1>2 DEF IInv, OnTheWire
  <2>3. d \in ClaimCall /\ d.op = "claim"
    BY <2>1, <2>2 DEF ClaimCall, FinishCall
  <2>4. d.claim = disk.claim /\ d.key = disk.key
    BY <1>1, <1>2, <2>3 DEF IInv, OnTheWire
  <2> QED
    BY <1>1, <1>2, <2>3, <2>4 DEF ClaimCall
<1> QED
  BY <1>1, <1>2

\* A stored answer, or one that there is nothing to do.
LEMMA ClaimRepliedIInv ==
  ASSUME IInv, NEW c \in wire, c.op = "claim", NEW a \in 0..MaxAttempts,
         Answer(c, [kind |-> "claimed", attempt |-> a]),
         \/ a \in ledger[c.claim] /\ ledger' = ledger
         \/ /\ ledger[c.claim] = {} /\ a = 0
            /\ ledger' = [ledger EXCEPT ![c.claim] = {0}],
         UNCHANGED <<up, epoch, queued, tries, attempts, key, disk, process, computed, channel>>
  PROVE  IInv'
<1> USE DEF process, channel
<1> DEFINE r == [kind |-> "claimed", attempt |-> a]
<1>0. c.claim \in Claims /\ ledger \in [Claims -> SUBSET (0..MaxAttempts)]
  BY DEF IInv, TypeOK, ClaimCall, FinishCall
<1>1. /\ wire' \subseteq wire /\ c \notin wire' /\ reply' \in Reply
      /\ \/ reply' = reply
         \/ reply' = NoReply
         \/ reply' = r /\ pc \in {"claiming", "finishing"} /\ c.run = runs
  <2>1. r \in Reply
    BY DEF Reply
  <2> QED
    BY <2>1, AnswerNet
<1>2. CASE ledger' = ledger /\ a \in ledger[c.claim]
  <2>1. Mine' = Mine /\ Active' = Active
    BY <1>2 DEF Mine, Active
  <2>2. Answered'
    <3>1. CASE reply' = r /\ pc \in {"claiming", "finishing"} /\ c.run = runs
      <4>1. pc = "claiming" /\ c.claim = disk.claim /\ \A d \in wire : d.run = runs => d = c
        BY <3>1, OwnClaim
      <4>2. a \in Mine
        BY <1>0, <1>2, <4>1 DEF Mine, Claims
      <4> QED
        BY <1>1, <2>1, <3>1, <4>1, <4>2 DEF Answered
    <3>2. CASE reply' = reply \/ reply' = NoReply
      BY <1>1, <2>1, <3>2 DEF IInv, Answered, NoReply
    <3> QED
      BY <1>1, <3>1, <3>2
  <2>3. TypeOK' /\ Journaled' /\ Claimed'
    BY <1>1, <1>2, <2>1 DEF IInv, TypeOK, Journaled, Holds, Claimed
  <2>4. OnTheWire' /\ Accepted' /\ Computing' /\ NothingForgotten'
    BY <1>1, <1>2, <2>1 DEF IInv, OnTheWire, Accepted, AcceptedAsWritten, Computing, NeverRecomputed, NothingForgotten
  <2> QED
    BY <2>2, <2>3, <2>4 DEF IInv
<1>3. CASE ledger[c.claim] = {} /\ a = 0 /\ ledger' = [ledger EXCEPT ![c.claim] = {0}]
  <2>1. c.claim = disk.claim /\ Mine = {} /\ ~disk.done /\ disk.request = 0
    BY <1>3, NewAnswer
  <2>2. Active' = Active /\ Mine' = {0}
    BY <1>0, <1>3, <2>1 DEF Mine, Active, Claims
  <2>3. Active = {} \/ ~up
    BY <1>0, <1>3, <2>1 DEF IInv, NothingForgotten
  <2>4. Answered'
    <3>1. CASE reply' = r /\ pc \in {"claiming", "finishing"} /\ c.run = runs
      <4>1. pc = "claiming" /\ \A d \in wire : d.run = runs => d = c
        BY <3>1, OwnClaim
      <4> QED
        BY <1>1, <1>3, <2>2, <3>1, <4>1 DEF Answered
    <3>2. CASE reply' = reply \/ reply' = NoReply
      BY <1>1, <2>1, <2>2, <3>2 DEF IInv, Answered, NoReply
    <3> QED
      BY <1>1, <3>1, <3>2
  <2>5. TypeOK'
    BY <1>0, <1>1, <1>3 DEF IInv, TypeOK
  <2>6. Claimed'
    <3>1. /\ ledger'[disk.claim] = {0} /\ \A k \in Claims : k # disk.claim => ledger'[k] = ledger[k]
          /\ disk.claim \in Claims
      BY <1>0, <1>3, <2>1
    <3>2. 0 \notin Tries /\ tries >= 0
      BY DEF Tries, IInv, TypeOK
    <3> QED
      BY <2>1, <2>2, <3>1, <3>2 DEF IInv, Claimed, Claims
  <2>7. Journaled' /\ OnTheWire'
    <3>1. \A d \in wire : d.op = "finish" => d.attempt # 0
      BY DEF IInv, TypeOK, ClaimCall, FinishCall, Tries
    <3> QED
      BY <1>1, <2>1, <2>2, <3>1 DEF IInv, Journaled, Holds, OnTheWire
  <2>8. Accepted' /\ Computing' /\ NothingForgotten'
    <3>1. 0 \notin Tries
      BY DEF Tries
    <3> QED
      BY <2>1, <2>2, <2>3, <3>1 DEF IInv, Accepted, AcceptedAsWritten, Computing, NeverRecomputed, NothingForgotten
  <2> QED
    BY <2>4, <2>5, <2>6, <2>7, <2>8 DEF IInv
<1> QED
  BY <1>2, <1>3

\* A new attempt goes to the claim of the present journal.
LEMMA ClaimGrantedIInv ==
  ASSUME IInv, NEW c \in wire, c.op = "claim", c.key = epoch, ledger[c.claim] = {},
         Active = {}, tries < MaxAttempts,
         attempts' = [attempts EXCEPT ![tries + 1] = [state |-> "running", epoch |-> epoch, result |-> "none"]],
         tries' = tries + 1, queued' = FALSE, ledger' = [ledger EXCEPT ![c.claim] = {tries + 1}],
         Answer(c, [kind |-> "claimed", attempt |-> tries + 1]),
         UNCHANGED <<up, epoch, key, disk, process, computed, channel>>
  PROVE  IInv'
<1> USE DEF process, channel
<1> DEFINE n == tries + 1
           r == [kind |-> "claimed", attempt |-> n]
<1>0. /\ c.claim \in Claims /\ ledger \in [Claims -> SUBSET (0..MaxAttempts)]
      /\ attempts \in [Tries -> AttemptRow] /\ n \in Tries /\ tries \in 0..MaxAttempts
      /\ epoch \in 1..MaxEpoch
  BY DEF IInv, TypeOK, ClaimCall, FinishCall, Tries
<1>1. /\ wire' \subseteq wire /\ c \notin wire' /\ reply' \in Reply
      /\ \/ reply' = reply
         \/ reply' = NoReply
         \/ reply' = r /\ pc \in {"claiming", "finishing"} /\ c.run = runs
  <2>1. r \in Reply
    BY <1>0 DEF Reply, Tries
  <2> QED
    BY <2>1, AnswerNet
<1>2. c.claim = disk.claim /\ Mine = {} /\ ~disk.done /\ disk.request = 0 /\ disk.key = epoch
  BY NewAnswer
<1>3. /\ attempts' \in [Tries -> AttemptRow]
      /\ attempts'[n].state = "running" /\ attempts'[n].epoch = epoch /\ attempts'[n].result = "none"
      /\ \A m \in Tries : m # n => attempts'[m] = attempts[m]
  BY <1>0 DEF AttemptRow, ActiveStates
<1>4. /\ ledger'[disk.claim] = {n} /\ \A k \in Claims : k # disk.claim => ledger'[k] = ledger[k]
      /\ disk.claim \in Claims
  BY <1>0, <1>2
<1>5. Mine' = {n} /\ Active' = {n}
  <2>1. Mine' = {n}
    BY <1>4 DEF Mine, Claims
  <2>2. \A m \in Tries : attempts[m].state \notin ActiveStates
    BY DEF Active
  <2> QED
    BY <1>0, <1>3, <2>1, <2>2 DEF Active, ActiveStates
<1>6. TypeOK'
  <2>1. ledger' \in [Claims -> SUBSET (0..MaxAttempts)]
    BY <1>0 DEF Tries
  <2>2. tries' \in 0..MaxAttempts
    BY <1>0
  <2> QED
    BY <1>1, <1>3, <2>1, <2>2 DEF IInv, TypeOK
<1>7. Claimed'
  <2>1. \A k \in Claims : n \notin ledger[k]
    BY <1>0 DEF IInv, Claimed
  <2>2. \A k \in Claims : \A m \in ledger'[k] : m <= tries' /\ ledger'[k] = {m}
    BY <1>0, <1>4 DEF IInv, Claimed
  <2>3. \A k, j \in Claims : \A m \in Tries : m \in ledger'[k] /\ m \in ledger'[j] => k = j
    BY <1>4, <2>1 DEF IInv, Claimed
  <2>4. \A m \in Tries : m > tries' =>
          attempts'[m].state = "none" /\ attempts'[m].result = "none" /\ computed'[m] = 0
    BY <1>0, <1>3 DEF IInv, Claimed, Tries
  <2> QED
    BY <1>0, <1>2, <1>4, <1>5, <2>2, <2>3, <2>4 DEF IInv, Claimed, Claims
<1>8. OnTheWire'
  <2>1. \A d \in wire : d.op = "finish" => d.attempt # n /\ d.attempt \in Tries /\ d.attempt <= tries
    BY <1>0 DEF IInv, OnTheWire, TypeOK, ClaimCall, FinishCall
  <2> QED
    BY <1>0, <1>1, <1>2, <1>3, <1>5, <2>1 DEF IInv, OnTheWire, Tries
<1>9. Answered'
  <2>1. CASE reply' = r /\ pc \in {"claiming", "finishing"} /\ c.run = runs
    <3>1. pc = "claiming" /\ \A d \in wire : d.run = runs => d = c
      BY <2>1, OwnClaim
    <3> QED
      BY <1>1, <1>5, <2>1, <3>1 DEF Answered
  <2>2. CASE reply' = reply \/ reply' = NoReply
    BY <1>1, <1>2, <2>2 DEF IInv, Answered, Journaled, Holds, NoReply
  <2> QED
    BY <1>1, <2>1, <2>2
<1>10. Accepted'
  BY <1>2, <1>3, <1>5 DEF IInv, Accepted, AcceptedAsWritten
<1>11. Computing' /\ Journaled'
  <2>1. computed[n] = 0
    BY <1>0 DEF IInv, Claimed
  <2> QED
    BY <1>5, <2>1 DEF IInv, Computing, NeverRecomputed, Journaled, Holds
<1>12. NothingForgotten'
  BY <1>2, <1>3, <1>4, <1>5 DEF NothingForgotten
<1> QED
  BY <1>6, <1>7, <1>8, <1>9, <1>10, <1>11, <1>12 DEF IInv

LEMMA ServeClaimIInv ==
  ASSUME IInv, NEW c \in wire, ServeClaim(c)
  PROVE  IInv'
<1>1. c.op = "claim" /\ c.claim \in Claims /\ ledger \in [Claims -> SUBSET (0..MaxAttempts)]
  BY DEF ServeClaim, IInv, TypeOK, ClaimCall, FinishCall
<1>2. ASSUME NEW a \in ledger[c.claim], Answer(c, [kind |-> "claimed", attempt |-> a]),
             UNCHANGED <<queued, tries, attempts, ledger>>
      PROVE  IInv'
  <2>1. a \in 0..MaxAttempts
    BY <1>1
  <2> QED
    BY <1>1, <1>2, <2>1, ClaimRepliedIInv DEF ServeClaim
<1>3. CASE /\ ledger[c.claim] = {} /\ (~queued \/ Active # {})
           /\ ledger' = [ledger EXCEPT ![c.claim] = {0}]
           /\ Answer(c, [kind |-> "claimed", attempt |-> 0])
           /\ UNCHANGED <<queued, tries, attempts>>
  <2>1. 0 \in 0..MaxAttempts
    OBVIOUS
  <2> QED
    BY <1>1, <1>3, <2>1, ClaimRepliedIInv DEF ServeClaim
<1>4. CASE /\ ledger[c.claim] = {}
           /\ queued /\ Active = {} /\ tries < MaxAttempts
           /\ attempts' = [attempts EXCEPT ![tries + 1] = [state |-> "running", epoch |-> epoch, result |-> "none"]]
           /\ tries' = tries + 1 /\ queued' = FALSE
           /\ ledger' = [ledger EXCEPT ![c.claim] = {tries + 1}]
           /\ Answer(c, [kind |-> "claimed", attempt |-> tries + 1])
  BY <1>1, <1>4, ClaimGrantedIInv DEF ServeClaim
<1> QED
  BY <1>2, <1>3, <1>4 DEF ServeClaim

LEMMA ServeFinishIInv ==
  ASSUME IInv, NEW c \in wire, ServeFinish(c)
  PROVE  IInv'
<1> USE DEF process, channel
<1> DEFINE n == c.attempt
           r == [kind |-> "accepted", attempt |-> n]
<1>0. /\ c \in FinishCall /\ c.op = "finish" /\ n \in Tries /\ c.status \in ResultStatus
      /\ attempts \in [Tries -> AttemptRow]
  BY DEF ServeFinish, IInv, TypeOK, ClaimCall, FinishCall
<1>1. /\ wire' \subseteq wire /\ c \notin wire' /\ reply' \in Reply
      /\ \/ reply' = reply
         \/ reply' = NoReply
         \/ reply' = r /\ pc \in {"claiming", "finishing"} /\ c.run = runs
  <2>1. r \in Reply
    BY <1>0 DEF Reply, Tries
  <2>2. Answer(c, r) /\ UNCHANGED <<pc, runs>>
    BY DEF ServeFinish
  <2> QED
    BY <2>1, <2>2, AnswerNet
<1>2. UNCHANGED <<up, epoch, queued, tries, ledger, key, disk, process, computed, channel>>
  BY DEF ServeFinish
<1>3. Mine' = Mine
  BY <1>2 DEF Mine
<1>4. attempts' \in [Tries -> AttemptRow]
      /\ \A m \in Tries : m # n => attempts'[m] = attempts[m]
  <2>1. CASE attempts' = attempts
    BY <1>0, <2>1
  <2>2. CASE attempts' = [attempts EXCEPT ![c.attempt].state = c.status, ![c.attempt].result = c.status]
    BY <1>0, <2>2 DEF AttemptRow, ResultStatus
  <2> QED
    BY <2>1, <2>2 DEF ServeFinish
<1>5. /\ attempts'[n].result = c.status /\ attempts'[n].state \notin ActiveStates
      /\ attempts'[n].epoch = attempts[n].epoch
      /\ \/ attempts[n].result = c.status
         \/ /\ attempts[n].state \in ActiveStates
            /\ (attempts[n].state = "cancel_requested") <=> (c.status = "cancelled")
  <2>1. CASE attempts' = attempts /\ attempts[n].result = c.status
    <3>1. c.status # "none"
      BY <1>0 DEF ResultStatus
    <3> QED
      BY <1>0, <2>1, <3>1 DEF IInv, Accepted
  <2>2. CASE /\ attempts' = [attempts EXCEPT ![c.attempt].state = c.status, ![c.attempt].result = c.status]
             /\ attempts[n].state \in ActiveStates
             /\ (attempts[n].state = "cancel_requested") <=> (c.status = "cancelled")
    BY <1>0, <2>2 DEF AttemptRow, ResultStatus, ActiveStates
  <2> QED
    BY <2>1, <2>2 DEF ServeFinish
<1>6. n \in Mine => n = disk.request
  BY <1>0 DEF IInv, OnTheWire
<1>7. n = disk.request => c.status = disk.result
  <2>1. c.status = disk.result \/ (disk.result = "cancelled" /\ attempts[n].state # "running")
          \/ n # disk.request
    BY <1>0 DEF IInv, OnTheWire
  <2>2. n = disk.request /\ attempts[n].result = c.status => c.status = disk.result
    <3>1. c.status # "none" /\ n # 0
      BY <1>0 DEF ResultStatus, Tries
    <3> QED
      BY <3>1 DEF IInv, Accepted, AcceptedAsWritten
  <2> QED
    BY <1>5, <2>1, <2>2 DEF ActiveStates
<1>8. TypeOK' /\ Journaled'
  BY <1>1, <1>2, <1>4 DEF IInv, TypeOK, Journaled, Holds
<1>9. Claimed'
  <2>1. n <= tries
    BY <1>0 DEF IInv, OnTheWire
  <2>2. \A m \in Tries : m > tries => m # n
    BY <1>0, <2>1 DEF Tries, IInv, TypeOK
  <2> QED
    BY <1>2, <1>3, <1>4, <2>2 DEF IInv, Claimed
<1>10. OnTheWire'
  <2>1. ASSUME NEW d \in wire, d.op = "finish" PROVE d.attempt \in Tries
    BY <2>1 DEF IInv, TypeOK, ClaimCall, FinishCall
  <2>2. attempts'[n].state # "running"
    BY <1>5 DEF ActiveStates
  <2>3. ASSUME NEW d \in wire, d.op = "finish", attempts[d.attempt].state # "running"
        PROVE  attempts'[d.attempt].state # "running"
    BY <1>4, <2>1, <2>2, <2>3
  <2> QED
    BY <1>1, <1>2, <1>3, <2>3 DEF IInv, OnTheWire
<1>11. Answered'
  <2>1. pc = "finishing" => disk.request \in Tries
    BY OnDisk DEF Tries, IInv, Journaled, Holds
  <2>2. pc = "finishing" /\ attempts[disk.request].state \notin ActiveStates
          => attempts'[disk.request].state \notin ActiveStates
    BY <1>4, <1>5, <2>1
  <2>3. CASE reply' = r /\ pc \in {"claiming", "finishing"} /\ c.run = runs
    <3>1. pc = "finishing" /\ n = disk.request
      BY <1>0, <2>3 DEF IInv, OnTheWire
    <3> QED
      BY <1>2, <1>5, <2>3, <3>1 DEF Answered
  <2>4. CASE reply' = reply \/ reply' = NoReply
    BY <1>1, <1>2, <1>3, <2>2, <2>4 DEF IInv, Answered, NoReply
  <2> QED
    BY <1>1, <2>3, <2>4
<1>12. Accepted'
  <2>1. disk.request # 0 => disk.request \in Tries
    BY OnDisk DEF Tries
  <2>2. AcceptedAsWritten'
    BY <1>2, <1>4, <1>5, <1>7, <2>1 DEF IInv, Accepted, AcceptedAsWritten
  <2> QED
    BY <1>2, <1>3, <1>4, <1>5, <1>6, <2>2 DEF IInv, Accepted
<1>13. Computing'
  BY <1>2, <1>3 DEF IInv, Computing, NeverRecomputed
<1>14. NothingForgotten'
  <2>1. Active' \subseteq Active /\ \A m \in Active' : attempts'[m].epoch = attempts[m].epoch
    BY <1>4, <1>5 DEF Active
  <2> QED
    BY <1>2, <2>1 DEF IInv, NothingForgotten
<1> QED
  BY <1>8, <1>9, <1>10, <1>11, <1>12, <1>13, <1>14 DEF IInv

-----------------------------------------------------------------------------
(* Steps of the worker's process.                                           *)

\* The process ends and leaves its journal as it is.
LEMMA OffIInv ==
  ASSUME IInv, Off, reply' = NoReply, runs' = runs, requests' \in Seq(Request),
         UNCHANGED <<server, wire, key, disk, computed, authority>>
  PROVE  IInv'
<1> USE DEF server, Off
<1>1. Mine' = Mine /\ Active' = Active
  BY DEF Mine, Active
<1>2. TypeOK'
  <2>1. reply' \in Reply
    BY DEF NoReply, Reply
  <2>2. ChannelTypeOK'
    BY DEF IInv, TypeOK
  <2> QED
    BY <2>1, <2>2 DEF IInv, TypeOK
<1>3. Journaled' /\ Answered'
  BY DEF Journaled, Holds, Answered, NoReply
<1>4. Claimed' /\ OnTheWire'
  BY <1>1 DEF IInv, Claimed, OnTheWire
<1>5. Accepted' /\ Computing' /\ NothingForgotten'
  BY <1>1 DEF IInv, Accepted, AcceptedAsWritten, Computing, NeverRecomputed, NothingForgotten
<1> QED
  BY <1>2, <1>3, <1>4, <1>5 DEF IInv

LEMMA ExitIInv == IInv /\ Exit => IInv'
  BY OffIInv DEF Exit, channel, IInv, TypeOK

\* What passes on the channel leaves the rest alone.
LEMMA ChannelIInv ==
  ASSUME IInv, ChannelTypeOK',
         UNCHANGED <<server, wire, reply, key, disk, computed, mem, pc, pending, runs>>
  PROVE  IInv'
<1> USE DEF server
<1>1. Mine' = Mine /\ Active' = Active
  BY DEF Mine, Active
<1>2. TypeOK'
  BY DEF IInv, TypeOK
<1>3. Journaled'
  BY DEF IInv, Journaled, Holds
<1>6. Answered'
  BY <1>1 DEF IInv, Answered
<1>4. Claimed' /\ OnTheWire'
  BY <1>1 DEF IInv, Claimed, OnTheWire
<1>5. Accepted' /\ Computing' /\ NothingForgotten'
  BY <1>1 DEF IInv, Accepted, AcceptedAsWritten, Computing, NeverRecomputed, NothingForgotten
<1> QED
  BY <1>2, <1>3, <1>4, <1>5, <1>6 DEF IInv

LEMMA AuthorityMovesIInv == IInv /\ AuthorityMoves => IInv'
<1> SUFFICES ASSUME IInv, AuthorityMoves PROVE IInv'
  OBVIOUS
<1>1. ChannelTypeOK'
  BY DEF AuthorityMoves, IInv, TypeOK
<1> QED
  BY <1>1, ChannelIInv DEF AuthorityMoves

\* A request on the channel, with another answer.
LEMMA AnswerType ==
  ASSUME IInv, NEW i \in DOMAIN requests, NEW A \in SUBSET (0..MaxAuthority),
         requests' = [requests EXCEPT ![i].answer = A]
  PROVE  /\ requests' \in Seq(Request) /\ DOMAIN requests' = DOMAIN requests
         /\ \A j \in DOMAIN requests : /\ requests'[j].run = requests[j].run
                                        /\ requests'[j].answer = IF j = i THEN A ELSE requests[j].answer
<1>1. requests \in Seq(Request)
  BY DEF IInv, TypeOK
<1>2. requests[i] \in Request
  BY <1>1
<1>3. [requests[i] EXCEPT !.answer = A] \in Request
  BY <1>2 DEF Request
<1>4. requests' = [requests EXCEPT ![i] = [requests[i] EXCEPT !.answer = A]]
  OBVIOUS
<1>5. requests' \in Seq(Request) /\ DOMAIN requests' = DOMAIN requests
  BY <1>1, <1>3, <1>4
<1>6. ASSUME NEW j \in DOMAIN requests
      PROVE  /\ requests'[j].run = requests[j].run
             /\ requests'[j].answer = IF j = i THEN A ELSE requests[j].answer
  <2>1. requests[j] \in Request
    BY <1>1
  <2>2. CASE j = i
    BY <1>4, <2>1, <2>2 DEF Request
  <2>3. CASE j # i
    BY <1>4, <2>3
  <2> QED
    BY <2>2, <2>3
<1> QED
  BY <1>5, <1>6

LEMMA ControllerDecidesIInv == IInv /\ ControllerDecides => IInv'
<1> SUFFICES ASSUME IInv, ControllerDecides PROVE IInv'
  OBVIOUS
<1> USE DEF process
<1>1. PICK i \in DOMAIN requests : requests' = [requests EXCEPT ![i].answer = {authority}]
  BY DEF ControllerDecides
<1>2. {authority} \in SUBSET (0..MaxAuthority)
  BY DEF IInv, TypeOK
<1>3. ChannelTypeOK'
  BY <1>1, <1>2, AnswerType DEF ControllerDecides, IInv, TypeOK
<1> QED
  BY <1>3, ChannelIInv DEF ControllerDecides

LEMMA DecisionLapsesIInv == IInv /\ DecisionLapses => IInv'
<1> SUFFICES ASSUME IInv, DecisionLapses PROVE IInv'
  OBVIOUS
<1> USE DEF process
<1>1. PICK i \in DOMAIN requests : requests' = [requests EXCEPT ![i].answer = {0}]
  BY DEF DecisionLapses
<1>2. {0} \in SUBSET (0..MaxAuthority)
  BY DEF IInv, TypeOK
<1>3. ChannelTypeOK'
  BY <1>1, <1>2, AnswerType DEF DecisionLapses, IInv, TypeOK
<1> QED
  BY <1>3, ChannelIInv DEF DecisionLapses

LEMMA AskPermitIInv == IInv /\ AskPermit => IInv'
<1> SUFFICES ASSUME IInv, AskPermit PROVE IInv'
  OBVIOUS
<1>1. [run |-> runs, answer |-> {}] \in Request
  BY DEF AskPermit, IInv, TypeOK, Journaled, Holds, Request
<1>2. ChannelTypeOK'
  BY <1>1 DEF AskPermit, IInv, TypeOK
<1> QED
  BY <1>2, ChannelIInv DEF AskPermit

LEMMA ReadDecisionIInv == IInv /\ ReadDecision => IInv'
<1> SUFFICES ASSUME IInv, ReadDecision PROVE IInv'
  OBVIOUS
<1> DEFINE d == Head(requests)
<1>1. d \in Request /\ requests' \in Seq(Request)
  BY DEF ReadDecision, IInv, TypeOK
<1>2. PICK a \in d.answer :
         \/ /\ pinned' = a
            /\ check' = IF pinned = 0 THEN "due" ELSE "passed"
            /\ since' = IF pinned = 0 THEN {} ELSE since
            /\ UNCHANGED <<reply, mem, pc, pending>>
         \/ Off /\ reply' = NoReply
  BY DEF ReadDecision
<1>3. a \in 0..MaxAuthority
  BY <1>1 DEF Request
<1>4. CASE Off /\ reply' = NoReply
  BY <1>1, <1>4, OffIInv DEF ReadDecision
<1>5. CASE /\ pinned' = a
           /\ check' = IF pinned = 0 THEN "due" ELSE "passed"
           /\ since' = IF pinned = 0 THEN {} ELSE since
           /\ UNCHANGED <<reply, mem, pc, pending>>
  <2>1. ChannelTypeOK'
    BY <1>1, <1>3, <1>5 DEF ReadDecision, IInv, TypeOK
  <2> QED
    BY <1>5, <2>1, ChannelIInv DEF ReadDecision
<1> QED
  BY <1>2, <1>4, <1>5

\* A process starts; it has made no call and no request yet.
LEMMA StartIInv == IInv /\ Start => IInv'
<1> SUFFICES ASSUME IInv, Start PROVE IInv'
  OBVIOUS
<1> USE DEF server, channel
<1>1. /\ pc = "off" /\ pc' = "start" /\ runs' = runs + 1 /\ runs \in 0..MaxRuns /\ runs' \in 0..MaxRuns
      /\ UNCHANGED <<server, wire, reply, key, disk, mem, pending, computed, pinned, since, channel>>
  BY DEF Start, IInv, TypeOK
<1>2. Mine' = Mine /\ Active' = Active
  BY <1>1 DEF Mine, Active
<1>3. TypeOK'
  <2>1. ChannelTypeOK'
    BY <1>1 DEF Start, IInv, TypeOK
  <2> QED
    BY <1>1, <2>1 DEF IInv, TypeOK
<1>4. Journaled' /\ Claimed'
  BY <1>1, <1>2 DEF IInv, Journaled, Holds, Claimed
<1>5. OnTheWire'
  <2>1. \A c \in wire : c.run <= runs' /\ c.run # runs'
    BY <1>1 DEF IInv, OnTheWire, TypeOK, ClaimCall, FinishCall
  <2> QED
    BY <1>1, <1>2, <2>1 DEF IInv, OnTheWire
<1>6. Answered'
  BY <1>1 DEF IInv, Answered
<1>7. Accepted' /\ Computing' /\ NothingForgotten'
  BY <1>1, <1>2 DEF IInv, Accepted, AcceptedAsWritten, Computing, NeverRecomputed, NothingForgotten
<1> QED
  BY <1>3, <1>4, <1>5, <1>6, <1>7 DEF IInv

LEMMA RunNewIInv == IInv /\ RunNew => IInv'
<1> SUFFICES ASSUME IInv, RunNew PROVE IInv'
  OBVIOUS
<1> USE DEF server, channel
<1> DEFINE j == [claim |-> disk.claim + 1, key |-> key, request |-> 0, result |-> "none", done |-> FALSE]
<1>1. /\ disk.done /\ disk.claim < MaxClaims /\ mem' = j /\ disk' = j /\ pending' = FALSE
      /\ pc = "start" /\ pc' = "claim" /\ Acted
      /\ UNCHANGED <<server, wire, reply, key, runs, computed, pinned, channel>>
  BY DEF RunNew, Save
<1>2. disk.claim \in 0..MaxClaims /\ key \in 1..MaxEpoch /\ runs \in 0..MaxRuns
  BY OnDisk DEF IInv, TypeOK
<1>3. disk' \in Journal
  BY <1>1, <1>2 DEF Journal, Claims
<1>4. /\ disk'.claim = disk.claim + 1 /\ disk'.key = key /\ disk'.request = 0
      /\ disk'.result = "none" /\ ~disk'.done
  BY <1>1
<1>5. disk'.claim \in Claims /\ Mine' = {} /\ Active' = Active
  <2>1. disk'.claim \in Claims
    BY <1>1, <1>2, <1>4 DEF Claims
  <2>2. ledger[disk'.claim] = {}
    BY <1>2, <1>4, <2>1 DEF IInv, Claimed
  <2> QED
    BY <1>1, <1>4, <2>1, <2>2 DEF Mine, Claims, Active
<1>6. reply.kind = "none"
  BY <1>1 DEF IInv, Answered, TypeOK, Reply
<1>7. TypeOK'
  <2>1. ChannelTypeOK'
    BY <1>1 DEF Acted, IInv, TypeOK
  <2>2. mem' \in Journal
    BY <1>1, <1>3
  <2>3. pending' \in BOOLEAN /\ pc' = "claim"
    BY <1>1
  <2>4. UNCHANGED <<server, wire, reply, key, runs, computed>>
    BY <1>1
  <2> QED
    BY <1>3, <2>1, <2>2, <2>3, <2>4 DEF IInv, TypeOK
<1>8. Journaled'
  <2>1. mem' = [disk' EXCEPT !.result = mem'.result]
    BY <1>1
  <2> QED
    BY <1>1, <1>2, <1>3, <1>4, <2>1 DEF IInv, Journaled, Holds
<1>9. Claimed'
  <2>1. disk.claim # 0 => Mine = ledger[disk.claim] /\ Mine # {} /\ disk.claim \in Claims
    BY <1>1, OnDisk DEF IInv, Claimed
  <2>2. \A k \in Claims : k < disk.claim + 1 => ledger[k] # {}
    BY <1>2, <2>1 DEF IInv, Claimed, Claims
  <2>3. \A k \in Claims : k > disk.claim + 1 => ledger[k] = {}
    BY <1>2 DEF IInv, Claimed, Claims
  <2>4. UNCHANGED <<server, computed>>
    BY <1>1
  <2> QED
    BY <1>4, <1>5, <2>2, <2>3, <2>4 DEF IInv, Claimed
<1>10. OnTheWire'
  <2>1. ASSUME NEW d \in wire PROVE d.run <= runs /\ d.run # runs
    <3>1. d.op = "claim" \/ d.op = "finish"
      BY DEF IInv, TypeOK, ClaimCall, FinishCall
    <3> QED
      BY <1>1, <3>1 DEF IInv, OnTheWire
  <2>2. ASSUME NEW d \in wire, d.op = "claim" PROVE d.claim <= disk'.claim /\ d.claim # disk'.claim
    <3>1. d.claim \in Nat
      BY <2>2 DEF IInv, TypeOK, ClaimCall, FinishCall, Claims
    <3> QED
      BY <1>2, <1>4, <2>2, <3>1 DEF IInv, OnTheWire
  <2>3. ASSUME NEW d \in wire, d.op = "finish" PROVE d.attempt # 0 /\ d.attempt <= tries
    BY <2>3 DEF IInv, TypeOK, OnTheWire, ClaimCall, FinishCall, Tries
  <2>4. wire' = wire /\ tries' = tries
    BY <1>1
  <2>5. \A d \in wire : d.op = "claim" =>
          /\ d.claim <= disk'.claim
          /\ d.claim = disk'.claim => d.key = disk'.key
          /\ pc' # "off" /\ d.run = runs => pc' = "claiming" /\ d.claim = disk'.claim
    BY <2>1, <2>2
  <2>6. \A d \in wire : d.op = "finish" =>
          /\ d.attempt <= tries
          /\ d.attempt \notin Mine' /\ d.attempt # disk'.request
          /\ d.run # runs
    BY <1>4, <1>5, <2>1, <2>3
  <2>7. \A d \in wire : d.run <= runs' /\ runs' = runs
    BY <1>1, <2>1
  <2> QED
    BY <2>4, <2>5, <2>6, <2>7 DEF OnTheWire
<1>11. Answered'
  BY <1>1, <1>6 DEF Answered
<1>12. Accepted'
  <2>1. UNCHANGED attempts
    BY <1>1
  <2> QED
    BY <1>4, <1>5, <2>1 DEF IInv, Accepted, AcceptedAsWritten
<1>13. Computing'
  BY <1>1, <1>5 DEF IInv, Computing, NeverRecomputed
<1>14. NothingForgotten'
  <2>1. up => Active = {}
    BY <1>1 DEF IInv, NothingForgotten
  <2> QED
    BY <1>1, <1>5, <2>1 DEF NothingForgotten
<1> QED
  BY <1>7, <1>8, <1>9, <1>10, <1>11, <1>12, <1>13, <1>14 DEF IInv

LEMMA RunRecoverIInv == IInv /\ RunRecover => IInv'
<1> SUFFICES ASSUME IInv, RunRecover PROVE IInv'
  OBVIOUS
<1> USE DEF server, channel
<1>1. /\ ~disk.done /\ disk.key = key /\ mem' = disk /\ disk' = disk /\ pending' = TRUE
      /\ pc = "start" /\ Acted
      /\ pc' = IF disk.request = 0 THEN "claim" ELSE "state"
      /\ UNCHANGED <<server, wire, reply, key, runs, computed, pinned, channel>>
  BY DEF RunRecover
<1>2. runs \in 0..MaxRuns /\ Mine' = Mine /\ Active' = Active
  BY <1>1 DEF IInv, TypeOK, Mine, Active
<1>3. disk \in Journal
  BY <1>1 DEF IInv, TypeOK, NoJournal
<1>4. reply.kind = "none"
  BY <1>1 DEF IInv, Answered, TypeOK, Reply
<1>5. TypeOK'
  <2>1. ChannelTypeOK'
    BY <1>1 DEF Acted, IInv, TypeOK
  <2>2. pending' \in BOOLEAN /\ pc' \in {"claim", "state"}
    BY <1>1
  <2> QED
    BY <1>1, <1>3, <2>1, <2>2 DEF IInv, TypeOK
<1>6. Journaled'
  <2>1. mem' = [disk' EXCEPT !.result = mem'.result]
    BY <1>1, <1>3 DEF Journal
  <2> QED
    BY <1>1, <1>2, <1>3, <2>1 DEF IInv, Journaled, Holds
<1>7. Claimed'
  BY <1>1, <1>2 DEF IInv, Claimed
<1>8. OnTheWire'
  <2>1. \A d \in wire : d.run # runs
    BY <1>1 DEF IInv, OnTheWire, TypeOK, ClaimCall, FinishCall
  <2> QED
    BY <1>1, <1>2, <2>1 DEF IInv, OnTheWire
<1>9. Answered'
  BY <1>1, <1>4 DEF Answered
<1>10. Accepted'
  BY <1>1, <1>2 DEF IInv, Accepted, AcceptedAsWritten
<1>11. Computing'
  BY <1>1 DEF IInv, Computing, NeverRecomputed
<1>12. NothingForgotten'
  BY <1>1, <1>2 DEF IInv, NothingForgotten
<1> QED
  BY <1>5, <1>6, <1>7, <1>8, <1>9, <1>10, <1>11, <1>12 DEF IInv

\* A call is sent, or is lost at once.
LEMMA SendClaimIInv == IInv /\ SendClaim => IInv'
<1> SUFFICES ASSUME IInv, SendClaim PROVE IInv'
  OBVIOUS
<1> USE DEF server, channel
<1> DEFINE c == [op |-> "claim", run |-> runs, key |-> key, claim |-> mem.claim]
<1>1. pc = "claim" /\ pc' = "claiming" /\ wire' \subseteq wire \cup {c}
  BY DEF SendClaim
<1>2. UNCHANGED <<server, reply, key, disk, mem, pending, runs, computed, check, pinned, since, channel>>
  BY DEF SendClaim
<1>3. c \in ClaimCall /\ c.op = "claim" /\ c.run = runs /\ c.key = disk.key /\ c.claim = disk.claim
  <2>1. disk.claim \in Claims /\ disk.key = key /\ mem.claim = disk.claim /\ runs >= 1
    BY <1>1, Running
  <2>2. runs \in 1..MaxRuns /\ key \in 1..MaxEpoch
    BY <2>1 DEF IInv, TypeOK
  <2> QED
    BY <2>1, <2>2 DEF ClaimCall
<1>4. \A d \in wire : (d.op = "claim" \/ d.op = "finish") => d.run # runs
  BY <1>1 DEF IInv, OnTheWire
<1>5. Mine' = Mine /\ Active' = Active
  BY <1>2 DEF Mine, Active
<1>6. TypeOK'
  BY <1>1, <1>2, <1>3 DEF IInv, TypeOK
<1>7. Journaled' /\ Claimed'
  BY <1>1, <1>2, <1>5 DEF IInv, Journaled, Holds, Claimed
<1>8. OnTheWire'
  <2>1. disk.claim \in Nat /\ runs \in Nat
    BY OnDisk DEF IInv, TypeOK
  <2>2. \A d \in wire' : d \in wire \/ d = c
    BY <1>1
  <2> QED
    BY <1>1, <1>2, <1>3, <1>4, <1>5, <2>1, <2>2 DEF IInv, OnTheWire
<1>9. Answered'
  BY <1>1, <1>2 DEF IInv, Answered
<1>10. Accepted' /\ Computing' /\ NothingForgotten'
  BY <1>1, <1>2, <1>5 DEF IInv, Accepted, AcceptedAsWritten, Computing, NeverRecomputed, NothingForgotten
<1> QED
  BY <1>6, <1>7, <1>8, <1>9, <1>10 DEF IInv

LEMMA SendFinishIInv == IInv /\ SendFinish => IInv'
<1> SUFFICES ASSUME IInv, SendFinish PROVE IInv'
  OBVIOUS
<1> USE DEF server
<1> DEFINE c == [op |-> "finish", run |-> runs, key |-> key, attempt |-> mem.request, status |-> mem.result]
<1>1. pc = "finish" /\ pc' = "finishing" /\ wire' \subseteq wire \cup {c}
  BY DEF SendFinish
<1>2. UNCHANGED <<server, reply, key, disk, mem, pending, runs, computed, pinned, channel>>
  BY DEF SendFinish
<1>3. disk.request \in Tries /\ disk.request \in Mine /\ disk.request <= tries /\ disk.result \in ResultStatus
  <2>1. disk.request # 0 /\ disk.request \in Mine /\ disk.result # "none"
    BY <1>1 DEF IInv, Journaled, Holds, Claimed
  <2>2. disk.claim \in Claims /\ Mine = ledger[disk.claim]
    BY <1>1, Running
  <2>3. disk.request \in Tries /\ disk.result \in ResultStatus
    BY <1>1, <2>1, Running DEF Tries
  <2> QED
    BY <2>1, <2>2, <2>3 DEF IInv, Claimed
<1>4. /\ c \in FinishCall /\ c.op = "finish" /\ c.run = runs /\ c.attempt = disk.request
      /\ c.status = disk.result
  <2>1. mem = disk /\ runs >= 1
    BY <1>1, Running
  <2>2. runs \in 1..MaxRuns /\ key \in 1..MaxEpoch
    BY <2>1 DEF IInv, TypeOK
  <2> QED
    BY <1>3, <2>1, <2>2 DEF FinishCall
<1>5. \A d \in wire : (d.op = "claim" \/ d.op = "finish") => d.run # runs
  BY <1>1 DEF IInv, OnTheWire
<1>6. Mine' = Mine /\ Active' = Active
  BY <1>2 DEF Mine, Active
<1>7. TypeOK'
  <2>1. ChannelTypeOK'
    BY <1>2 DEF SendFinish, Acted, channel, IInv, TypeOK
  <2> QED
    BY <1>1, <1>2, <1>4, <2>1 DEF IInv, TypeOK
<1>8. Journaled' /\ Claimed'
  BY <1>1, <1>2, <1>6 DEF IInv, Journaled, Holds, Claimed
<1>9. OnTheWire'
  <2>1. runs \in Nat
    BY DEF IInv, TypeOK
  <2>2. \A d \in wire' : d \in wire \/ d = c
    BY <1>1
  <2> QED
    BY <1>1, <1>2, <1>3, <1>4, <1>5, <1>6, <2>1, <2>2 DEF IInv, OnTheWire
<1>10. Answered'
  BY <1>1, <1>2 DEF IInv, Answered
<1>11. Accepted' /\ Computing' /\ NothingForgotten'
  BY <1>1, <1>2, <1>6 DEF IInv, Accepted, AcceptedAsWritten, Computing, NeverRecomputed, NothingForgotten
<1> QED
  BY <1>7, <1>8, <1>9, <1>10, <1>11 DEF IInv

\* When the attempt of the journal has ended, nothing of it is left.
LEMMA NothingLeft ==
  ASSUME IInv, pc \notin {"off", "start"}, disk.request # 0, attempts[disk.request].state \notin ActiveStates
  PROVE  (up => Active = {}) /\ Mine # {}
<1>1. disk.request \in Mine
  BY DEF IInv, Claimed
<1>2. ASSUME up, NEW m \in Active
      PROVE  FALSE
  BY <1>2 DEF IInv, NothingForgotten, Active
<1> QED
  BY <1>1, <1>2

LEMMA GetClaimIInv == IInv /\ GetClaim => IInv'
<1> SUFFICES ASSUME IInv, GetClaim PROVE IInv'
  OBVIOUS
<1> USE DEF server, channel
<1> DEFINE n == reply.attempt
<1>1. /\ pc = "claiming" /\ reply.kind = "claimed" /\ reply' = NoReply
      /\ UNCHANGED <<server, wire, key, runs, computed, channel>>
  BY DEF GetClaim
<1>2. n \in Mine /\ \A c \in wire : c.run # runs
  BY <1>1 DEF IInv, Answered
<1>3. disk \in Journal /\ mem = disk /\ disk.request = 0 /\ disk.claim \in Claims /\ Mine = ledger[disk.claim]
  BY <1>1, Running DEF IInv, Journaled, Holds
<1>4. Mine = {n}
  BY <1>2, <1>3 DEF IInv, Claimed
<1>5. CASE n = 0 /\ Done(mem)
  <2>1. up => Active = {}
    BY <1>3, <1>4, <1>5 DEF IInv, NothingForgotten, Active, Tries
  <2>2. reply' \in Reply /\ reply'.kind = "none"
    BY <1>1 DEF NoReply, Reply
  <2> QED
    BY <1>1, <1>2, <1>5, <2>1, <2>2, DoneIInv
<1>6. CASE n # 0 /\ Save([mem EXCEPT !.request = n]) /\ pc' = "state" /\ UNCHANGED <<pending, check, pinned, since>>
  <2>1. n \in Tries /\ n \in 0..MaxAttempts
    BY <1>2, <1>6, OnDisk DEF Tries
  <2>2. /\ disk' \in Journal /\ disk'.claim = disk.claim /\ disk'.key = disk.key
        /\ disk'.request = n /\ disk'.result = disk.result /\ disk'.done = disk.done
    BY <1>3, <1>6, <2>1, JournalRequest DEF Save
  <2>3. mem' = disk' /\ pc' = "state" /\ UNCHANGED <<pending, check, pinned, since>>
    BY <1>6 DEF Save
  <2>4. Mine' = Mine /\ Active' = Active
    BY <1>1, <2>2 DEF Mine, Active
  <2>5. TypeOK'
    <3>1. reply' \in Reply
      BY <1>1 DEF NoReply, Reply
    <3> QED
      BY <1>1, <2>2, <2>3, <3>1 DEF IInv, TypeOK
  <2>6. Journaled'
    <3>1. mem' = [disk' EXCEPT !.result = mem'.result]
      BY <2>2, <2>3 DEF Journal
    <3>2. ~disk.done /\ disk.key = key /\ runs >= 1
      BY <1>1, Running
    <3> QED
      BY <1>1, <1>6, <2>2, <2>3, <3>1, <3>2 DEF Journaled, Holds
  <2>7. Claimed'
    <3>1. UNCHANGED <<server, computed>>
      BY <1>1
    <3> QED
      BY <1>2, <2>2, <2>4, <3>1 DEF IInv, Claimed
  <2>8. OnTheWire'
    <3>1. \A d \in wire : d.op = "finish" => d.attempt # n
      <4>1. \A d \in wire : d.op = "finish" => d.attempt \in Tries
        BY DEF IInv, TypeOK, ClaimCall, FinishCall
      <4> QED
        BY <1>2, <1>3, <4>1 DEF IInv, OnTheWire, Tries
    <3>2. UNCHANGED <<server, wire, runs>>
      BY <1>1
    <3> QED
      BY <1>2, <1>4, <2>2, <2>4, <3>1, <3>2 DEF IInv, OnTheWire
  <2>9. Answered'
    BY <1>1 DEF Answered, NoReply
  <2>10. Accepted'
    <3>1. attempts[n].result = "none"
      BY <1>2, <1>3, <1>6, <2>1 DEF IInv, Accepted
    <3>2. UNCHANGED server
      BY <1>1
    <3> QED
      BY <1>4, <2>2, <2>4, <3>1, <3>2 DEF IInv, Accepted, AcceptedAsWritten
  <2>11. Computing'
    BY <1>1, <2>3, <2>4 DEF IInv, Computing, NeverRecomputed
  <2>12. NothingForgotten'
    <3>1. UNCHANGED server
      BY <1>1
    <3>2. ASSUME up, NEW m \in Active
          PROVE  /\ attempts[m].epoch = epoch /\ ~disk.done /\ disk.key = epoch
                 /\ ledger[disk.claim] = {m} /\ m = n
      BY <1>3, <1>4, <3>2 DEF IInv, NothingForgotten
    <3> QED
      BY <2>2, <2>4, <3>1, <3>2 DEF NothingForgotten
  <2> QED
    BY <2>5, <2>6, <2>7, <2>8, <2>9, <2>10, <2>11, <2>12 DEF IInv
<1> QED
  BY <1>5, <1>6 DEF GetClaim

LEMMA SeeEndedIInv == IInv /\ SeeEnded => IInv'
<1> SUFFICES ASSUME IInv, SeeEnded PROVE IInv'
  OBVIOUS
<1>1. /\ pc \in {"state", "publish"} /\ up /\ attempts[mem.request].state \notin ActiveStates
      /\ Done(mem) /\ UNCHANGED <<server, wire, reply, key, runs, computed, channel>>
  BY DEF SeeEnded, Observes, Observed
<1>2. disk.request # 0 /\ mem.request = disk.request
  BY <1>1, Running DEF IInv, Journaled, Holds
<1>3. (up => Active = {}) /\ Mine # {}
  BY <1>1, <1>2, NothingLeft
<1>4. reply' \in Reply /\ reply'.kind = "none"
  BY <1>1 DEF IInv, TypeOK, Answered, Reply
<1> QED
  BY <1>1, <1>3, <1>4, DoneIInv

LEMMA GetAcknowledgementIInv == IInv /\ GetAcknowledgement => IInv'
<1> SUFFICES ASSUME IInv, GetAcknowledgement PROVE IInv'
  OBVIOUS
<1>1. /\ pc = "finishing" /\ reply.kind = "accepted" /\ reply' = NoReply
      /\ Done(mem) /\ UNCHANGED <<server, wire, key, runs, computed, channel>>
  BY DEF GetAcknowledgement
<1>2. disk.request # 0 /\ attempts[disk.request].state \notin ActiveStates
  BY <1>1 DEF IInv, Journaled, Holds, Answered
<1>3. (up => Active = {}) /\ Mine # {}
  BY <1>1, <1>2, NothingLeft
<1>4. reply' \in Reply /\ reply'.kind = "none"
  BY <1>1 DEF NoReply, Reply
<1> QED
  BY <1>1, <1>3, <1>4, DoneIInv

\* What was written before is written again.
LEMMA SameResult ==
  ASSUME NEW j \in Journal
  PROVE  j = [j EXCEPT !.result = j.result]
  BY DEF Journal

LEMMA DecideIInv == IInv /\ Decide => IInv'
<1> SUFFICES ASSUME IInv, Decide PROVE IInv'
  OBVIOUS
<1>1. /\ pc = "state"
      /\ UNCHANGED <<server, wire, reply, key, pending, runs, computed, check, pinned, since, channel>>
  BY DEF Decide
<1>2. disk \in Journal /\ mem = disk /\ disk.request # 0 /\ disk.result \in {"none"} \cup ResultStatus
  BY <1>1, Running DEF IInv, Journaled, Holds
<1>3. CASE /\ attempts[disk.request].state = "cancel_requested"
           /\ Save([mem EXCEPT !.result = "cancelled"]) /\ pc' = "publish"
  <2>1. "cancelled" \in ResultStatus
    BY DEF ResultStatus
  <2>2. disk' = [disk EXCEPT !.result = "cancelled"] /\ mem' = disk'
    BY <1>2, <1>3 DEF Save
  <2> QED
    BY <1>1, <1>3, <2>1, <2>2, WriteIInv
<1>4. CASE mem.result # "none" /\ Save(mem) /\ pc' = "publish"
  <2>1. disk.result \in ResultStatus
    BY <1>2, <1>4
  <2>2. disk' = [disk EXCEPT !.result = disk.result] /\ mem' = disk'
    BY <1>2, <1>4, SameResult DEF Save
  <2> QED
    BY <1>1, <1>4, <2>1, <2>2, WriteIInv
<1>5. CASE mem.result = "none" /\ Save([mem EXCEPT !.result = "interrupted"]) /\ pc' = "publish"
  <2>1. "interrupted" \in ResultStatus
    BY DEF ResultStatus
  <2>2. disk' = [disk EXCEPT !.result = "interrupted"] /\ mem' = disk'
    BY <1>2, <1>5 DEF Save
  <2> QED
    BY <1>1, <1>2, <1>5, <2>1, <2>2, WriteIInv
<1>6. CASE mem.result = "none" /\ ~pending /\ pc' = "execute" /\ UNCHANGED <<mem, disk>>
  <2> USE DEF server, channel
  <2>1. Mine' = Mine /\ Active' = Active
    BY <1>1, <1>6 DEF Mine, Active
  <2>2. TypeOK' /\ Claimed' /\ Accepted' /\ NothingForgotten'
    BY <1>1, <1>6, <2>1 DEF IInv, TypeOK, Claimed, Accepted, AcceptedAsWritten, NothingForgotten
  <2>3. Journaled'
    BY <1>1, <1>2, <1>6 DEF IInv, Journaled, Holds
  <2>4. OnTheWire'
    BY <1>1, <1>6, <2>1 DEF IInv, OnTheWire
  <2>5. Answered' /\ Computing'
    BY <1>1, <1>6, <2>1 DEF IInv, Answered, Computing, NeverRecomputed
  <2> QED
    BY <2>2, <2>3, <2>4, <2>5 DEF IInv
<1> QED
  BY <1>2, <1>3, <1>4, <1>5, <1>6 DEF Decide, Observed

LEMMA PublishIInv == IInv /\ Publish => IInv'
<1> SUFFICES ASSUME IInv, Publish PROVE IInv'
  OBVIOUS
<1>1. /\ pc = "publish" /\ pc' = "finish"
      /\ UNCHANGED <<server, wire, reply, key, pending, runs, computed, check, pinned, since, channel>>
  BY DEF Publish
<1>2. disk \in Journal /\ mem = disk /\ disk.result # "none" /\ disk.result \in ResultStatus
  BY <1>1, Running DEF IInv, Journaled, Holds
<1>3. CASE /\ attempts[disk.request].state = "cancel_requested"
           /\ Save([mem EXCEPT !.result = "cancelled"])
  <2>1. "cancelled" \in ResultStatus
    BY DEF ResultStatus
  <2>2. disk' = [disk EXCEPT !.result = "cancelled"] /\ mem' = disk'
    BY <1>2, <1>3 DEF Save
  <2> QED
    BY <1>1, <1>3, <2>1, <2>2, WriteIInv
<1>4. CASE UNCHANGED <<mem, disk>>
  <2>1. disk' = [disk EXCEPT !.result = disk.result] /\ mem' = disk'
    BY <1>2, <1>4, SameResult
  <2> QED
    BY <1>1, <1>2, <2>1, WriteIInv
<1> QED
  BY <1>2, <1>3, <1>4 DEF Publish, Observed

LEMMA SaveResultIInv == IInv /\ SaveResult => IInv'
<1> SUFFICES ASSUME IInv, SaveResult PROVE IInv'
  OBVIOUS
<1>1. /\ pc = "save" /\ pc' = "publish" /\ disk' = mem /\ mem' = mem
      /\ UNCHANGED <<server, wire, reply, key, pending, runs, computed, check, pinned, since, channel>>
  BY DEF SaveResult, Save
<1>2. mem = [disk EXCEPT !.result = mem.result]
  BY <1>1 DEF IInv, Journaled, Holds
<1>3. disk.result = "none" /\ mem.result # "none" /\ mem.result \in ResultStatus
  BY <1>1, Running DEF IInv, Journaled, Holds
<1>4. PICK r \in ResultStatus : mem.result = r
  BY <1>3
<1>5. disk' = [disk EXCEPT !.result = r] /\ mem' = disk'
  BY <1>1, <1>2, <1>4
<1> QED
  BY <1>1, <1>3, <1>5, WriteIInv

LEMMA ExecuteIInv == IInv /\ Execute => IInv'
<1> SUFFICES ASSUME IInv, Execute PROVE IInv'
  OBVIOUS
<1> USE DEF server
<1> DEFINE n == disk.request
<1>1. /\ pc = "execute" /\ pc' = "save"
      /\ UNCHANGED <<server, wire, reply, key, disk, pending, runs, pinned, channel>>
  BY DEF Execute
<1>2. /\ disk \in Journal /\ mem = disk /\ n # 0 /\ n \in 0..MaxAttempts /\ disk.result = "none"
      /\ ~disk.done /\ disk.key = key /\ runs >= 1
  BY <1>1, Running DEF IInv, Journaled, Holds
<1>3. PICK s \in Computed : mem' = [mem EXCEPT !.result = s]
  BY DEF Execute
<1>4. s \in ResultStatus /\ s # "none"
  BY DEF Computed, ResultStatus
<1>5. mem' \in Journal /\ mem'.result = s
  BY <1>2, <1>3, <1>4, JournalResult
<1>6. n \in Tries /\ n \in Mine /\ n <= tries
  <2>1. n \in Mine /\ Mine = ledger[disk.claim] /\ disk.claim \in Claims
    BY <1>1, <1>2, Running DEF IInv, Claimed
  <2>2. n \in Tries
    BY <1>2 DEF Tries
  <2> QED
    BY <2>1, <2>2 DEF IInv, Claimed
<1>7. computed[n] = 0 /\ computed \in [Tries -> Nat]
  BY <1>1, <1>6 DEF IInv, Computing, TypeOK
<1>8. computed' \in [Tries -> Nat] /\ computed'[n] = 1 /\ \A m \in Tries : m # n => computed'[m] = computed[m]
  <2>1. computed' = [computed EXCEPT ![n] = @ + 1]
    BY <1>2 DEF Execute
  <2> QED
    BY <1>6, <1>7, <2>1
<1>9. Mine' = Mine /\ Active' = Active
  BY <1>1 DEF Mine, Active
<1>10. TypeOK'
  <2>1. ChannelTypeOK'
    BY <1>1 DEF Execute, Acted, channel, IInv, TypeOK
  <2> QED
    BY <1>1, <1>5, <1>8, <2>1 DEF IInv, TypeOK
<1>11. Journaled'
  <2>1. mem' = [disk' EXCEPT !.result = mem'.result]
    BY <1>1, <1>2, <1>3, <1>5
  <2> QED
    BY <1>1, <1>2, <1>4, <1>5, <2>1 DEF Journaled, Holds
<1>12. Claimed'
  <2>1. \A m \in Tries : m > tries => computed'[m] = computed[m]
    BY <1>6, <1>8 DEF Tries, IInv, TypeOK
  <2> QED
    BY <1>1, <1>9, <2>1 DEF IInv, Claimed
<1>13. OnTheWire'
  BY <1>1, <1>9 DEF IInv, OnTheWire
<1>14. Answered' /\ Accepted' /\ NothingForgotten'
  BY <1>1, <1>9 DEF IInv, Answered, Accepted, AcceptedAsWritten, NothingForgotten
<1>15. Computing'
  <2>1. \A m \in Tries : computed'[m] <= 1
    BY <1>8 DEF IInv, Computing, NeverRecomputed
  <2> QED
    BY <1>1, <2>1 DEF Computing, NeverRecomputed
<1> QED
  BY <1>10, <1>11, <1>12, <1>13, <1>14, <1>15 DEF IInv

-----------------------------------------------------------------------------
(* The invariant, and what follows from it.                                 *)

LEMMA InitIInv == Init => IInv
<1> SUFFICES ASSUME Init PROVE IInv
  OBVIOUS
<1> USE DEF Init
<1>1. disk = NoJournal /\ disk.claim = 0 /\ disk.request = 0 /\ Mine = {}
  BY DEF NoJournal, Mine
<1>2. Active = {}
  BY DEF Active, ActiveStates
<1>3. TypeOK
  <2>1. up \in BOOLEAN /\ queued \in BOOLEAN /\ pending \in BOOLEAN
    OBVIOUS
  <2>2. epoch \in 1..MaxEpoch /\ key \in 1..MaxEpoch /\ tries \in 0..MaxAttempts /\ runs \in 0..MaxRuns
    OBVIOUS
  <2>3. attempts \in [Tries -> AttemptRow]
    BY DEF AttemptRow
  <2>4. ledger \in [Claims -> SUBSET (0..MaxAttempts)] /\ computed \in [Tries -> Nat]
    OBVIOUS
  <2>5. wire \subseteq ClaimCall \cup FinishCall /\ reply \in Reply
    BY DEF Reply, NoReply
  <2>6. ChannelTypeOK
    OBVIOUS
  <2>7. disk \in Journal \cup {NoJournal} /\ mem \in Journal \cup {NoJournal} /\ pc = "off"
    OBVIOUS
  <2> QED
    BY <2>1, <2>2, <2>3, <2>4, <2>5, <2>6, <2>7 DEF TypeOK
<1>4. Journaled /\ Answered
  BY DEF Journaled, Holds, Answered, NoReply
<1>5. Claimed
  BY <1>1 DEF Claimed, Claims
<1>6. OnTheWire
  BY DEF OnTheWire
<1>7. Accepted /\ Computing /\ NothingForgotten
  BY <1>1, <1>2 DEF Accepted, AcceptedAsWritten, Computing, NeverRecomputed, NothingForgotten
<1> QED
  BY <1>3, <1>4, <1>5, <1>6, <1>7 DEF IInv

LEMMA NextIInv == IInv /\ [Next]_vars => IInv'
<1> SUFFICES ASSUME IInv, [Next]_vars PROVE IInv'
  OBVIOUS
<1>1. CASE UNCHANGED vars
  BY <1>1 DEF vars, server, process, channel, IInv, TypeOK, Journaled, Holds, Claimed, OnTheWire, Answered,
     Accepted, AcceptedAsWritten, Computing, NeverRecomputed, NothingForgotten, Mine, Active
<1>2. ASSUME NEW c \in wire, ServeClaim(c) \/ ServeFinish(c) \/ Drop(c)
      PROVE  IInv'
  BY <1>2, ServeClaimIInv, ServeFinishIInv, DropIInv
<1>3. CASE Expire \/ Cancel \/ Retry \/ Revoke \/ BackendStops \/ BackendStarts \/ Rotate \/ Deliver
  BY <1>3, ExpireIInv, CancelIInv, RetryIInv, RevokeIInv, BackendStopsIInv, BackendStartsIInv, RotateIInv, DeliverIInv
<1>4. CASE AuthorityMoves \/ ControllerDecides \/ DecisionLapses \/ AskPermit \/ ReadDecision
  BY <1>4, AuthorityMovesIInv, ControllerDecidesIInv, DecisionLapsesIInv, AskPermitIInv, ReadDecisionIInv
<1>7. CASE Start \/ RunNew \/ RunRecover \/ Exit
  BY <1>7, StartIInv, RunNewIInv, RunRecoverIInv, ExitIInv
<1>5. CASE SendClaim \/ GetClaim \/ SeeEnded \/ Decide
  BY <1>5, SendClaimIInv, GetClaimIInv, SeeEndedIInv, DecideIInv
<1>6. CASE Execute \/ SaveResult \/ Publish \/ SendFinish \/ GetAcknowledgement
  BY <1>6, ExecuteIInv, SaveResultIInv, PublishIInv, SendFinishIInv, GetAcknowledgementIInv
<1> QED
  BY <1>1, <1>2, <1>3, <1>4, <1>5, <1>6, <1>7 DEF Next

\* The invariant holds of every behaviour of the worker and its backend.
THEOREM Inductive == Spec => []IInv
  BY InitIInv, NextIInv, PTL DEF Spec

\* The journal, the ledger, the calls on the wire and the session have their
\* types in every state of run_once and the handlers it meets.
THEOREM TypeCorrect == Spec => []TypeOK
  BY Inductive, PTL DEF IInv

\* Whatever crashes, lost answers and recoveries follow, an attempt is
\* computed at most once: a journal that was taken over never computes.
THEOREM ComputedOnce == Spec => []NeverRecomputed
<1>1. IInv => NeverRecomputed
  BY DEF IInv, Computing
<1> QED
  BY <1>1, Inductive, PTL

\* An attempt still active at a serving backend answers the claim of a
\* journal that is not done: recovering that journal leads to it.
THEOREM WorkIsKept == Spec => []NothingForgotten
  BY Inductive, PTL DEF IInv

\* The result the backend accepted is the one in the journal, whichever
\* process sent it.
THEOREM AcceptedIsWritten == Spec => []AcceptedAsWritten
<1>1. IInv => AcceptedAsWritten
  BY DEF IInv, Accepted
<1> QED
  BY <1>1, Inductive, PTL

-----------------------------------------------------------------------------
(* The channel.                                                             *)

\* A process has at most one request on the channel, while its check waits;
\* what the controller answers to that one, it answers in the meantime.
PermitInv ==
  /\ pc = "off" => check = "due"
  /\ \A i \in DOMAIN requests :
       /\ requests[i].run <= runs
       /\ requests[i].run = runs /\ pc # "off" => check = "asked" /\ requests[i].answer \subseteq since \cup {0}
  /\ \A i, j \in DOMAIN requests :
       requests[i].run = runs /\ requests[j].run = runs /\ check = "asked" => i = j
  /\ check = "asked" => authority \in since
  /\ check = "passed" => pinned # 0 /\ pinned \in since

LEMMA PermitStays ==
  ASSUME PermitInv, UNCHANGED <<check, pinned, since, authority, requests, runs>>, (pc' = "off") <=> (pc = "off")
  PROVE  PermitInv'
  BY DEF PermitInv

LEMMA PermitOff ==
  ASSUME PermitInv, Off, UNCHANGED <<authority, requests, runs>>
  PROVE  PermitInv'
  BY DEF PermitInv, Off

LEMMA PermitActed ==
  ASSUME PermitInv, MayAct, Acted, pc # "off", pc' # "off", UNCHANGED <<pinned, authority, requests, runs>>
  PROVE  PermitInv'
  BY DEF PermitInv, MayAct, Acted

LEMMA StartPermit == IInv /\ PermitInv /\ Start => PermitInv'
<1> SUFFICES ASSUME IInv, PermitInv, Start PROVE PermitInv'
  OBVIOUS
<1>1. runs \in Nat /\ runs' = runs + 1 /\ requests' = requests /\ requests \in Seq(Request)
  BY DEF Start, channel, IInv, TypeOK
<1>2. ASSUME NEW i \in DOMAIN requests PROVE requests[i].run \in Nat
  <2>1. requests[i] \in Request
    BY <1>1
  <2> QED
    BY <2>1 DEF Request
<1> QED
  BY <1>1, <1>2 DEF Start, channel, PermitInv

LEMMA AuthorityMovesPermit == IInv /\ PermitInv /\ AuthorityMoves => PermitInv'
  BY DEF AuthorityMoves, PermitInv, IInv, TypeOK

LEMMA ControllerDecidesPermit == IInv /\ PermitInv /\ ControllerDecides => PermitInv'
<1> SUFFICES ASSUME IInv, PermitInv, ControllerDecides PROVE PermitInv'
  OBVIOUS
<1> USE DEF process
<1>1. PICK i \in DOMAIN requests : requests' = [requests EXCEPT ![i].answer = {authority}]
  BY DEF ControllerDecides
<1>2. {authority} \in SUBSET (0..MaxAuthority)
  BY DEF IInv, TypeOK
<1> QED
  BY <1>1, <1>2, AnswerType DEF ControllerDecides, PermitInv

LEMMA DecisionLapsesPermit == IInv /\ PermitInv /\ DecisionLapses => PermitInv'
<1> SUFFICES ASSUME IInv, PermitInv, DecisionLapses PROVE PermitInv'
  OBVIOUS
<1> USE DEF process
<1>1. PICK i \in DOMAIN requests : requests' = [requests EXCEPT ![i].answer = {0}]
  BY DEF DecisionLapses
<1>2. {0} \in SUBSET (0..MaxAuthority)
  BY DEF IInv, TypeOK
<1> QED
  BY <1>1, <1>2, AnswerType DEF DecisionLapses, PermitInv

LEMMA AskPermitPermit == IInv /\ PermitInv /\ AskPermit => PermitInv'
<1> SUFFICES ASSUME IInv, PermitInv, AskPermit PROVE PermitInv'
  OBVIOUS
<1> DEFINE q == [run |-> runs, answer |-> {}]
<1>1. requests \in Seq(Request) /\ requests' = Append(requests, q) /\ runs' = runs /\ runs \in Nat
  BY DEF AskPermit, IInv, TypeOK
<1>2. \A i \in DOMAIN requests' : requests'[i] = q \/ (i \in DOMAIN requests /\ requests'[i] = requests[i])
  BY <1>1
<1>3. \A i \in DOMAIN requests : requests[i].run # runs /\ requests[i].run <= runs
  BY DEF AskPermit, PermitInv
<1>4. \A i, j \in DOMAIN requests' : i \notin DOMAIN requests /\ j \notin DOMAIN requests => i = j
  BY <1>1
<1>5. q.run = runs /\ q.answer = {}
  OBVIOUS
<1> QED
  BY <1>1, <1>2, <1>3, <1>4, <1>5 DEF AskPermit, PermitInv

LEMMA ReadDecisionPermit == IInv /\ PermitInv /\ ReadDecision => PermitInv'
<1> SUFFICES ASSUME IInv, PermitInv, ReadDecision PROVE PermitInv'
  OBVIOUS
<1> DEFINE d == Head(requests)
<1>1. /\ requests \in Seq(Request) /\ requests # <<>> /\ requests' = Tail(requests)
      /\ check = "asked" /\ UNCHANGED <<runs, authority>>
  BY DEF ReadDecision, IInv, TypeOK
<1>2. d = requests[1] /\ 1 \in DOMAIN requests
  BY <1>1
<1>3. \A i \in DOMAIN requests' : i + 1 \in DOMAIN requests /\ i + 1 # 1 /\ requests'[i] = requests[i + 1]
  BY <1>1
<1>4. PICK a \in d.answer :
         \/ /\ Permits(d, a) /\ pinned' = a
            /\ check' = IF pinned = 0 THEN "due" ELSE "passed"
            /\ since' = IF pinned = 0 THEN {} ELSE since
            /\ UNCHANGED <<reply, mem, pc, pending>>
         \/ Off
  BY DEF ReadDecision
<1>5. CASE Off
  BY <1>1, <1>3, <1>5 DEF Off, PermitInv
<1>6. CASE /\ Permits(d, a) /\ pinned' = a
           /\ check' = IF pinned = 0 THEN "due" ELSE "passed"
           /\ since' = IF pinned = 0 THEN {} ELSE since
           /\ UNCHANGED <<reply, mem, pc, pending>>
  <2>1. d.run = runs /\ a # 0 /\ pc # "off" /\ pc' # "off"
    BY <1>1, <1>6 DEF Permits, PermitInv
  <2>2. a \in since
    BY <1>2, <2>1, <1>4 DEF PermitInv
  <2>3. \A i \in DOMAIN requests' : requests'[i].run <= runs /\ requests'[i].run # runs
    BY <1>1, <1>2, <1>3, <2>1 DEF PermitInv
  <2> QED
    BY <1>1, <1>6, <2>1, <2>2, <2>3 DEF PermitInv
<1> QED
  BY <1>4, <1>5, <1>6

LEMMA NextPermit == IInv /\ PermitInv /\ [Next]_vars => PermitInv'
<1> SUFFICES ASSUME IInv, PermitInv, [Next]_vars PROVE PermitInv'
  OBVIOUS
<1> USE DEF process, channel
<1>1. CASE UNCHANGED vars
  BY <1>1, PermitStays DEF vars
<1>2. ASSUME NEW c \in wire, ServeClaim(c) \/ ServeFinish(c) \/ Drop(c)
      PROVE  PermitInv'
  BY <1>2, PermitStays DEF ServeClaim, ServeFinish, Drop
<1>3. CASE Expire \/ Cancel \/ Retry \/ Revoke \/ BackendStops \/ BackendStarts \/ Rotate \/ Deliver
  BY <1>3, PermitStays DEF Expire, Cancel, Retry, Revoke, BackendStops, BackendStarts, Rotate, Deliver
<1>4. CASE AuthorityMoves \/ ControllerDecides \/ DecisionLapses \/ AskPermit \/ ReadDecision \/ Start
  BY <1>4, AuthorityMovesPermit, ControllerDecidesPermit, DecisionLapsesPermit, AskPermitPermit,
     ReadDecisionPermit, StartPermit
<1>5. CASE RunNew \/ RunRecover \/ Execute \/ SendFinish
  BY <1>5, PermitActed DEF RunNew, RunRecover, Execute, SendFinish
<1>6. CASE SendClaim \/ Decide \/ SaveResult \/ Publish
  BY <1>6, PermitStays DEF SendClaim, Decide, SaveResult, Publish
<1>7. CASE Exit \/ SeeEnded \/ GetAcknowledgement
  BY <1>7, PermitOff DEF Exit, SeeEnded, GetAcknowledgement, Done
<1>8. CASE GetClaim
  BY <1>8, PermitStays, PermitOff DEF GetClaim, Done
<1> QED
  BY <1>1, <1>2, <1>3, <1>4, <1>5, <1>6, <1>7, <1>8 DEF Next

\* Whenever a process with a session takes up a journal, computes or sends a
\* result, its authority permitted it after the check of this act had asked:
\* a decision left in the stream by an earlier process answers no other call.
THEOREM PermitIsNew == Spec => PermittedAnew
<1> DEFINE A == LET acts == \/ pc = "start" /\ pc' \in {"claim", "state"}
                            \/ computed' # computed
                            \/ pc = "finish" /\ pc' = "finishing"
                IN /\ acts /\ check # "free" => pinned # 0 /\ pinned \in since
                   /\ pinned' \notin {0, pinned} => pinned' \in since
<1>1. Init => PermitInv
  BY DEF Init, PermitInv
<1>2. IInv /\ PermitInv /\ [Next]_vars => [A]_vars
  <2> SUFFICES ASSUME IInv, PermitInv, Next PROVE A
    OBVIOUS
  <2> USE DEF process
  <2>1. ASSUME NEW c \in wire, ServeClaim(c) \/ ServeFinish(c) \/ Drop(c)
        PROVE  A
    BY <2>1 DEF ServeClaim, ServeFinish, Drop
  <2>2. CASE Expire \/ Cancel \/ Retry \/ Revoke \/ BackendStops \/ BackendStarts \/ Rotate \/ Deliver
    BY <2>2 DEF Expire, Cancel, Retry, Revoke, BackendStops, BackendStarts, Rotate, Deliver
  <2>3. CASE AuthorityMoves \/ ControllerDecides \/ DecisionLapses \/ AskPermit \/ Start
    BY <2>3 DEF AuthorityMoves, ControllerDecides, DecisionLapses, AskPermit, Start
  <2>4. CASE ReadDecision
    <3>1. 1 \in DOMAIN requests /\ Head(requests) = requests[1]
      BY <2>4 DEF ReadDecision, IInv, TypeOK
    <3>2. pc # "start" \/ pc' \in {"start", "off"}
      BY <2>4 DEF ReadDecision, Off
    <3>3. computed' = computed /\ (pc = "finish" => pc' # "finishing")
      BY <2>4 DEF ReadDecision, Off
    <3>4. ASSUME pinned' \notin {0, pinned} PROVE pinned' \in since
      BY <2>4, <3>1, <3>4 DEF ReadDecision, Permits, Off, PermitInv
    <3> QED
      BY <3>2, <3>3, <3>4
  <2>5. CASE RunNew \/ RunRecover \/ Execute \/ SendFinish
    BY <2>5 DEF RunNew, RunRecover, Execute, SendFinish, MayAct, PermitInv
  <2>6. CASE SendClaim \/ GetClaim \/ SeeEnded \/ Decide \/ SaveResult \/ Publish \/ GetAcknowledgement \/ Exit
    BY <2>6 DEF SendClaim, GetClaim, SeeEnded, Decide, SaveResult, Publish, GetAcknowledgement, Exit, Done, Off
  <2> QED
    BY <2>1, <2>2, <2>3, <2>4, <2>5, <2>6 DEF Next
<1> QED
  BY <1>1, <1>2, NextPermit, Inductive, PTL DEF Spec, PermittedAnew

==============================================================================
