----------------------- MODULE SourceExecutionProofs -----------------------
(***************************************************************************)
(* Discovery, from one request to the archive of whole runs.                *)
(*                                                                         *)
(* One source is read (SourceExecution), for every policy: what it asks and *)
(* waits stays within its budgets, whatever the source answers.             *)
(*                                                                         *)
(* Sources are observed by manual runs (ManualRun), for any sources,        *)
(* contexts and runs and any number of power losses: what has a             *)
(* checkpoint's name is whole, what was written and reported can be loaded  *)
(* ever after, and what is reported is in the scope of its run.             *)
(***************************************************************************)
EXTENDS SourceExecution, ManualRun, WellFoundedInduction, TLAPS

-----------------------------------------------------------------------------
(* One source.                                                             *)

USE PolicyAssumption DEF PolicyAssumption

-----------------------------------------------------------------------------
(* The backoff.  Induction is over sets: a set of counterexamples has a    *)
(* least element.                                                          *)

LEMMA LeastElement ==
  ASSUME NEW T, T \subseteq Nat, T # {}
  PROVE  \E x \in T : \A y \in T : x <= y
<1> DEFINE R == OpToRel(<, Nat)
<1>1. IsWellFoundedOn(R, Nat)
  BY NatLessThanWellFounded
<1>2. PICK x \in T : \A y \in T : <<y, x>> \notin R
  <2> HIDE DEF R
  <2> QED
    BY <1>1, WFMin
<1>3. \A y \in T : x <= y
  <2> TAKE y \in T
  <2>1. <<y, x>> \notin R
    BY <1>2
  <2>2. x \in Nat /\ y \in Nat
    OBVIOUS
  <2>3. ~(y < x)
    BY <2>1, <2>2 DEF OpToRel
  <2> QED
    BY <2>2, <2>3
<1> QED
  BY <1>3

\* The body of Backoff.
Doubling(f, n) == IF n = 1 THEN BackoffSeconds ELSE MinOf(2 * f[n - 1], MaxDelaySeconds)

\* The recursion of Backoff has a solution.
LEMMA BackoffExists ==
  \E f \in [1..MaxAttempts -> 0..MaxDelaySeconds] : f = [n \in 1..MaxAttempts |-> Doubling(f, n)]
<1> DEFINE Solved(n) == \E f \in [1..n -> 0..MaxDelaySeconds] : f = [i \in 1..n |-> Doubling(f, i)]
           T == {n \in 1..MaxAttempts : ~Solved(n)}
<1>1. T = {}
  <2> SUFFICES ASSUME T # {} PROVE FALSE
    OBVIOUS
  <2>1. PICK n \in T : \A y \in T : n <= y
    <3>1. T \subseteq Nat
      OBVIOUS
    <3> HIDE DEF T
    <3> QED
      BY <3>1, LeastElement
  <2>2. n \in 1..MaxAttempts /\ ~Solved(n)
    OBVIOUS
  <2>3. CASE n = 1
    <3> DEFINE g == [i \in 1..1 |-> BackoffSeconds]
    <3>1. g \in [1..1 -> 0..MaxDelaySeconds] /\ g = [i \in 1..1 |-> Doubling(g, i)]
      BY DEF Doubling
    <3> QED
      BY <3>1, <2>2, <2>3
  <2>4. CASE n # 1
    <3>1. n - 1 \in 1..MaxAttempts /\ n - 1 \notin T
      BY <2>2, <2>4, <2>1
    <3>2. PICK f \in [1..n-1 -> 0..MaxDelaySeconds] : f = [i \in 1..n-1 |-> Doubling(f, i)]
      BY <3>1
    <3> DEFINE g == [i \in 1..n |-> IF i = n THEN MinOf(2 * f[n - 1], MaxDelaySeconds) ELSE f[i]]
    <3>3. g \in [1..n -> 0..MaxDelaySeconds]
      BY <2>2, <2>4 DEF MinOf
    <3>4. ASSUME NEW i \in 1..n PROVE g[i] = Doubling(g, i)
      <4>1. CASE i = n
        BY <4>1, <2>2, <2>4 DEF Doubling
      <4>2. CASE i # n
        <5>1. i \in 1..n-1 /\ f[i] = Doubling(f, i) /\ g[i] = f[i]
          BY <4>2, <3>2, <2>2, <2>4
        <5>2. i # 1 => i - 1 \in 1..n-1 /\ i - 1 # n /\ i - 1 \in 1..n
          BY <5>1, <2>2
        <5>3. i # 1 => g[i - 1] = f[i - 1]
          BY <5>2
        <5> QED
          BY <5>1, <5>3 DEF Doubling
      <4> QED
        BY <4>1, <4>2
    <3>5. g = [i \in 1..n |-> Doubling(g, i)]
      <4> HIDE DEF g
      <4> QED
        BY <3>3, <3>4
    <3> HIDE DEF g
    <3> QED
      BY <3>3, <3>5, <2>2
  <2> QED
    BY <2>3, <2>4
<1> QED
  BY <1>1

\* The backoff never exceeds the policy's limit, and never overflows on the
\* way there (_backoff saturates instead of computing a large power).
LEMMA BackoffType == Backoff \in [1..MaxAttempts -> 0..MaxDelaySeconds]
<1>1. \E f : f = [n \in 1..MaxAttempts |-> Doubling(f, n)]
  BY BackoffExists
<1>2. Backoff = [n \in 1..MaxAttempts |-> Doubling(Backoff, n)]
  BY <1>1 DEF Backoff, Doubling
<1>3. \A n \in 1..MaxAttempts : Backoff[n] = Doubling(Backoff, n)
  BY <1>2
<1> DEFINE T == {n \in 1..MaxAttempts : Backoff[n] \notin 0..MaxDelaySeconds}
<1>4. T = {}
  <2> SUFFICES ASSUME T # {} PROVE FALSE
    OBVIOUS
  <2>1. PICK n \in T : \A y \in T : n <= y
    <3>1. T \subseteq Nat
      OBVIOUS
    <3> HIDE DEF T
    <3> QED
      BY <3>1, LeastElement
  <2>2. n \in 1..MaxAttempts /\ Backoff[n] \notin 0..MaxDelaySeconds
    OBVIOUS
  <2>3. n # 1
    BY <2>2, <1>3 DEF Doubling
  <2>4. n - 1 \in 1..MaxAttempts /\ n - 1 \notin T
    BY <2>1, <2>2, <2>3
  <2>5. Backoff[n - 1] \in 0..MaxDelaySeconds
    BY <2>4
  <2> QED
    BY <2>2, <2>3, <2>5, <1>3 DEF Doubling, MinOf
<1>5. \A n \in 1..MaxAttempts : Backoff[n] \in 0..MaxDelaySeconds
  BY <1>4
<1> QED
  BY <1>2, <1>5

-----------------------------------------------------------------------------
(* The inductive invariant: besides the types, what the counters and the   *)
(* time of the next request are worth at each place of the code.           *)

\* An attempt is counted before the operation is called, and only an
\* idempotent task plans a second one; a failed attempt has its reason.
Counted ==
  /\ pc = "start" => attempts = 0
  /\ pc \in {"operation", "callback", "publish", "failed", "plan", "sleep"} => attempts >= 1
  /\ ~task.idempotent => attempts <= 1
  /\ ~task.idempotent /\ attempts = 1 => pc \notin {"start", "loop", "plan", "sleep"}
  /\ pc = "failed" => error.reason \in Reasons

\* The latest time the Retry-After of this attempt's error can name.
Asked ==
  CASE error.after.kind = "seconds" -> now + error.after.value
    [] error.after.kind = "date" -> MaxOf(now, error.after.value)
    [] OTHER -> now

\* Where a request may follow, the server's time has come; where a wait is
\* being planned, it is known.
TimeKnown ==
  /\ pc \in {"start", "loop", "operation", "callback", "publish"} => notBefore <= now
  /\ pc \in {"failed", "plan"} => notBefore <= Asked

IInv == TypeOK /\ Counted /\ TimeKnown /\ WaitFits

LEMMA InitIInv == Init => IInv
  BY DEF Init, IInv, TypeOK, Counted, TimeKnown, WaitFits, NoError, NoResult, Task, Raised, NoRetryAfter

\* Types of the records that are raised.
LEMMA RaisedType ==
  /\ \A r \in Reasons \cup {"none"} : Raised(r) \in {NoError} \cup {Raised(q) : q \in Reasons}
  /\ \A r : Raised(r).reason = r /\ Raised(r).retryable = FALSE /\ Raised(r).after.kind = "none"
  BY DEF NoError, Raised, NoRetryAfter

\* Every error has a Retry-After that is one of the four kinds.
LEMMA ErrorType ==
  ASSUME NEW e \in Errors \cup {NoError} \cup {Raised(r) : r \in Reasons}
  PROVE  /\ e.reason \in Reasons \cup {"none"}
         /\ e.after.kind \in {"none", "seconds", "date", "excessive"}
         /\ e.after.value \in 0..MaxTime
  BY DEF Errors, NoError, Raised, Reasons, Budgets, Waits, RetryAfter, NoRetryAfter, Parsed

\* What is raised is not the absence of an error.
LEMMA RaisedReason ==
  ASSUME NEW e \in Errors \cup {Raised(r) : r \in Reasons}
  PROVE  e.reason \in Reasons
  BY DEF Errors, Raised, Reasons, Budgets, Waits

\* What may be the result at the end.
LEMMA ResultType ==
  /\ [status |-> "success", reason |-> "none"] \in Result
  /\ \A status \in {"deferred", "failed"}, reason \in Reasons :
       [status |-> status, reason |-> reason] \in Result
  BY DEF Result

\* Finishing leaves a typed state in which nothing is left to do.
LEMMA FinishIInv ==
  ASSUME IInv, NEW status, NEW reason, [status |-> status, reason |-> reason] \in Result,
         Finish(status, reason), now' \in 0..MaxTime, last' \in 0..now', waited' \in 0..last',
         lastError' \in Reasons \cup {"none"}
  PROVE  IInv'
<1>1. pc' = "done" /\ result' = [status |-> status, reason |-> reason]
  BY DEF Finish
<1>2. UNCHANGED <<task, attempts, requests, error, delay, notBefore>>
  BY DEF Finish
<1>3. TypeOK'
  BY <1>1, <1>2 DEF IInv, TypeOK
<1> QED
  BY <1>1, <1>2, <1>3 DEF IInv, Counted, TimeKnown, WaitFits

LEMMA AbortIInv ==
  ASSUME IInv, NEW reason \in Reasons, Abort(reason), UNCHANGED waited,
         lastError' \in Reasons \cup {"none"}
  PROVE  IInv'
<1>1. now' \in 0..MaxTime /\ last' \in 0..now' /\ last' >= last
  BY DEF Abort, Sample, BadSample, Pass, IInv, TypeOK
<1>2. waited' \in 0..last'
  BY <1>1 DEF IInv, TypeOK
<1>3. \E status \in {"deferred", "failed"} : Finish(status, reason)
  BY DEF Abort
<1> QED
  BY <1>1, <1>2, <1>3, ResultType, FinishIInv

\* The operation ends with an error, at a time that does not run backwards.
LEMMA FailIInv ==
  ASSUME IInv, NEW e \in Errors \cup {Raised(r) : r \in Reasons}, Fail(e),
         pc \in {"operation", "callback"},
         now' \in now..MaxTime, last' \in last..now', requests' \in 0..MaxRequests,
         UNCHANGED <<task, waited, attempts, lastError, delay, result>>
  PROVE  IInv'
<1>1. pc' = "failed" /\ error' = e /\ notBefore' = MaxOf(notBefore, Until(e.after, now'))
  BY DEF Fail
<1>2. /\ e.after.kind \in {"none", "seconds", "date", "excessive"}
      /\ e.after.value \in 0..MaxTime
  BY ErrorType
<1>3. Until(e.after, now') \in 0..2 * MaxTime
  BY <1>2 DEF Until, IInv, TypeOK
<1>4. TypeOK'
  BY <1>1, <1>3 DEF IInv, TypeOK, MaxOf
<1>5. notBefore' <= Asked'
  <2>1. notBefore \in Nat /\ now \in Nat /\ now' \in Nat /\ now <= now' /\ notBefore <= now
    BY DEF IInv, TypeOK, TimeKnown
  <2> QED
    BY <1>1, <1>2, <2>1 DEF Asked, Until, MaxOf
<1> QED
  BY <1>1, <1>4, <1>5, RaisedReason DEF IInv, Counted, TimeKnown, WaitFits

LEMMA RaiseIInv ==
  ASSUME IInv, NEW e \in Errors \cup {Raised(r) : r \in Reasons}, RaiseToOperation(e),
         pc \in {"operation", "callback"},
         now' \in now..MaxTime, last' \in last..now', requests' \in 0..MaxRequests,
         UNCHANGED <<task, waited, attempts, lastError, delay, result>>
  PROVE  IInv'
<1>1. CASE Fail(e)
  BY <1>1, FailIInv
<1>2. CASE pc' = "operation" /\ UNCHANGED <<error, notBefore>>
  <2>1. TypeOK'
    BY <1>2 DEF IInv, TypeOK
  <2> QED
    BY <1>2, <2>1 DEF IInv, TypeOK, Counted, TimeKnown, WaitFits
<1> QED
  BY <1>1, <1>2 DEF RaiseToOperation

LEMMA StartIInv == IInv /\ Start => IInv'
<1> SUFFICES ASSUME IInv, Start PROVE IInv'
  OBVIOUS
<1>1. now \in 0..MaxTime /\ last \in 0..now /\ waited \in 0..last /\ lastError \in Reasons \cup {"none"}
  BY DEF IInv, TypeOK
<1>2. CASE pc' = "done"
  <2>1. \E reason \in {"runtime", "selection"} : Finish("failed", reason)
    BY <1>2 DEF Start
  <2>2. UNCHANGED <<now, last, waited, lastError>>
    BY <1>2 DEF Start
  <2> QED
    BY <1>1, <2>1, <2>2, FinishIInv, ResultType DEF Reasons
<1>3. CASE pc' = "loop"
  BY <1>3 DEF Start, Finish, IInv, TypeOK, Counted, TimeKnown, WaitFits
<1> QED
  BY <1>2, <1>3 DEF Start, Finish

LEMMA AttemptIInv == IInv /\ Attempt => IInv'
<1> SUFFICES ASSUME IInv, Attempt PROVE IInv'
  OBVIOUS
<1>1. waited' = waited /\ lastError' = lastError /\ lastError \in Reasons \cup {"none"}
  BY DEF Attempt, IInv, TypeOK
<1>2. CASE Abort("time_budget") \/ Abort("runtime")
  BY <1>1, <1>2, AbortIInv DEF Reasons, Budgets
<1>3. ASSUME attempts < MaxAttempts, NEW t \in now..MaxTime, Sample(t), attempts' = attempts + 1,
             pc' = "operation", error' = NoError,
             UNCHANGED <<task, requests, delay, result, notBefore>>
      PROVE  IInv'
  <2>1. TypeOK'
    BY <1>1, <1>3 DEF Sample, Pass, IInv, TypeOK
  <2>2. pc = "loop"
    BY DEF Attempt
  <2> QED
    BY <1>3, <2>1, <2>2 DEF Sample, Pass, IInv, TypeOK, Counted, TimeKnown, WaitFits
<1> QED
  BY <1>2, <1>3 DEF Attempt

LEMMA OperationIInv ==
  IInv /\ (RefuseRequest \/ Dispatch \/ CallbackEnds \/ OperationReturns \/ OperationFails) => IInv'
<1> SUFFICES ASSUME IInv, RefuseRequest \/ Dispatch \/ CallbackEnds \/ OperationReturns \/ OperationFails
             PROVE  IInv'
  OBVIOUS
<1>1. /\ UNCHANGED <<task, waited, attempts, lastError, delay, result>>
      /\ pc \in {"operation", "callback"}
  BY DEF RefuseRequest, Dispatch, CallbackEnds, OperationReturns, OperationFails, budget
<1>2. /\ now' \in now..MaxTime /\ last' \in last..now' /\ requests' \in 0..MaxRequests
  BY DEF RefuseRequest, Dispatch, CallbackEnds, OperationReturns, OperationFails, budget,
         Sample, BadSample, Pass, IInv, TypeOK
<1>3. \A r \in {"selection", "runtime", "time_budget", "request_budget", "incomplete", "identity"} : r \in Reasons
  BY DEF Reasons, Budgets
<1>4. CASE \E e \in Errors \cup {Raised(r) : r \in Reasons} : RaiseToOperation(e)
  BY <1>1, <1>2, <1>4, RaiseIInv
<1>5. CASE /\ UNCHANGED <<error, notBefore>>
           /\ pc' \in {"callback", "operation", "publish"}
  <2>1. TypeOK'
    BY <1>1, <1>2, <1>5 DEF IInv, TypeOK
  <2>2. Counted'
    BY <1>1, <1>5 DEF IInv, Counted
  <2>3. notBefore' <= now'
    BY <1>1, <1>2, <1>5 DEF IInv, TypeOK, TimeKnown
  <2> QED
    BY <1>5, <2>1, <2>2, <2>3 DEF IInv, TimeKnown, WaitFits
<1>6. CASE RefuseRequest
  BY <1>3, <1>4, <1>6 DEF RefuseRequest
<1>7. CASE Dispatch
  BY <1>3, <1>4, <1>5, <1>7 DEF Dispatch
<1>8. CASE CallbackEnds
  BY <1>3, <1>4, <1>5, <1>8 DEF CallbackEnds
<1>9. CASE OperationReturns
  BY <1>3, <1>4, <1>5, <1>9 DEF OperationReturns, RaiseToOperation
<1>10. CASE OperationFails
  BY <1>3, <1>4, <1>10 DEF OperationFails, RaiseToOperation
<1> QED
  BY <1>6, <1>7, <1>8, <1>9, <1>10

LEMMA PublishIInv == IInv /\ Publish => IInv'
<1> SUFFICES ASSUME IInv, Publish PROVE IInv'
  OBVIOUS
<1>1. waited' = waited /\ lastError' = lastError /\ lastError \in Reasons \cup {"none"}
  BY DEF Publish, IInv, TypeOK
<1>2. CASE Abort("time_budget") \/ Abort("runtime")
  BY <1>1, <1>2, AbortIInv DEF Reasons, Budgets
<1>3. ASSUME NEW t \in now..MaxTime, Sample(t), Finish("success", "none") PROVE IInv'
  <2>1. now' \in 0..MaxTime /\ last' \in 0..now' /\ waited' \in 0..last'
    BY <1>1, <1>3 DEF Sample, Pass, IInv, TypeOK
  <2> QED
    BY <1>1, <1>3, <2>1, FinishIInv, ResultType
<1> QED
  BY <1>2, <1>3 DEF Publish

LEMMA JudgeIInv == IInv /\ Judge => IInv'
<1> SUFFICES ASSUME IInv, Judge PROVE IInv'
  OBVIOUS
<1>1. waited' = waited /\ lastError' = error.reason /\ error.reason \in Reasons \cup {"none"} /\ pc = "failed"
  BY ErrorType DEF Judge, IInv, TypeOK
<1>2. CASE Abort("runtime")
  BY <1>1, <1>2, AbortIInv DEF Reasons
<1>3. ASSUME NEW t \in now..MaxTime, Sample(t),
             \/ \E v \in Verdict(Remaining(t)) : Finish(v.status, v.reason)
             \/ /\ Verdict(Remaining(t)) = {}
                /\ pc' = "plan"
                /\ UNCHANGED <<task, attempts, requests, error, delay, result, notBefore>>
      PROVE  IInv'
  <2>1. now' = t /\ now' \in 0..MaxTime /\ last' \in 0..now' /\ waited' \in 0..last' /\ now <= now'
    BY <1>1, <1>3 DEF Sample, Pass, IInv, TypeOK
  <2>2. ASSUME NEW v \in Verdict(Remaining(t)), Finish(v.status, v.reason) PROVE IInv'
    <3>1. error.reason \in Reasons
      BY <1>1 DEF IInv, Counted
    <3>2. \E status \in {"deferred", "failed"}, reason \in Reasons : v = [status |-> status, reason |-> reason]
      BY <3>1 DEF Verdict, Deferred, Reasons, Budgets
    <3>3. [status |-> v.status, reason |-> v.reason] \in Result
      BY <3>2, ResultType
    <3> QED
      BY <1>1, <2>1, <2>2, <3>3, FinishIInv
  <2>3. ASSUME Verdict(Remaining(t)) = {}, pc' = "plan",
               UNCHANGED <<task, attempts, requests, error, delay, result, notBefore>>
        PROVE  IInv'
    <3>1. task.idempotent
      BY <2>3 DEF Verdict
    <3>2. TypeOK'
      BY <1>1, <2>1, <2>3 DEF IInv, TypeOK
    <3>3. notBefore' <= Asked'
      <4>1. error.after.value \in 0..MaxTime /\ notBefore <= Asked
        BY <1>1, ErrorType DEF IInv, TypeOK, TimeKnown
      <4> QED
        BY <2>1, <2>3, <4>1 DEF Asked, MaxOf, IInv, TypeOK
    <3> QED
      BY <1>1, <2>3, <3>1, <3>2, <3>3 DEF IInv, Counted, TimeKnown, WaitFits
  <2> QED
    BY <1>3, <2>2, <2>3
<1> QED
  BY <1>2, <1>3 DEF Judge

LEMMA PlanIInv == IInv /\ Plan => IInv'
<1> SUFFICES ASSUME IInv, Plan PROVE IInv'
  OBVIOUS
<1>1. /\ waited' = waited /\ lastError' = lastError /\ lastError \in Reasons \cup {"none"}
      /\ pc = "plan" /\ attempts \in 1..MaxAttempts
      /\ now \in 0..MaxTime /\ last \in 0..now /\ waited \in 0..last
      /\ task.idempotent
  BY DEF Plan, IInv, TypeOK, Counted
<1>2. /\ error.after.kind \in {"none", "seconds", "date", "excessive"}
      /\ error.after.value \in 0..MaxTime /\ notBefore \in Nat /\ notBefore <= Asked
  BY <1>1, ErrorType DEF IInv, TypeOK, TimeKnown
<1>3. CASE Abort("retry_after_extreme") \/ Abort("runtime")
  BY <1>1, <1>3, AbortIInv DEF Reasons, Waits
<1>4. ASSUME NEW w \in now..MaxTime, BadSample(w),
             \E reason \in {"retry_after_budget", "delay_limit"} : Finish("deferred", reason)
      PROVE  IInv'
  <2>1. now' \in 0..MaxTime /\ last' \in 0..now' /\ waited' \in 0..last'
    BY <1>1, <1>4 DEF BadSample, Pass
  <2> QED
    BY <1>1, <1>4, <2>1, FinishIInv, ResultType DEF Reasons, Waits
<1>5. ASSUME NEW w \in now..MaxTime, NEW t \in w..MaxTime, Sample(t),
             \E reason \in {"time_budget", "retry_after_budget"} : Finish("deferred", reason)
      PROVE  IInv'
  <2>1. now' \in 0..MaxTime /\ last' \in 0..now' /\ waited' \in 0..last'
    BY <1>1, <1>5 DEF Sample, Pass
  <2> QED
    BY <1>1, <1>5, <2>1, FinishIInv, ResultType DEF Reasons, Waits, Budgets
<1>6. ASSUME NEW w \in now..MaxTime, NEW t \in w..MaxTime, NEW jitter \in 0..MaxDelaySeconds, Sample(t),
             error.after.kind # "excessive", ServerDelay(w) <= MaxDelaySeconds, t < TotalSeconds,
             Delay(ServerDelay(w), jitter) < Remaining(t),
             delay' = Delay(ServerDelay(w), jitter), pc' = "sleep",
             UNCHANGED <<task, attempts, requests, error, result, notBefore>>
      PROVE  IInv'
  <2>1. now' = t /\ last' = t /\ t \in 0..MaxTime /\ now <= w /\ w <= t
    BY <1>1, <1>6 DEF Sample, Pass
  <2>2. ServerDelay(w) \in 0..MaxDelaySeconds /\ w + ServerDelay(w) >= notBefore
    BY <1>1, <1>2, <1>6, <2>1 DEF ServerDelay, Asked, MaxOf
  <2>3. Backoff[attempts] \in 0..MaxDelaySeconds
    BY <1>1, BackoffType
  <2>4. delay' \in 0..MaxDelaySeconds /\ delay' >= ServerDelay(w)
    <3> HIDE DEF ServerDelay
    <3> QED
      BY <1>6, <2>2, <2>3 DEF Delay, MaxOf, MinOf
  <2>5. last' + delay' < TotalSeconds
    BY <1>6, <2>1, <2>4 DEF Remaining
  <2>6. last' + delay' >= notBefore'
    <3>1. ServerDelay(w) \in Nat /\ delay' \in Nat /\ w \in Nat /\ t \in Nat
      BY <1>1, <2>1, <2>2, <2>4
    <3> QED
      BY <1>2, <1>6, <2>1, <2>2, <2>4, <3>1
  <2>7. TypeOK'
    BY <1>1, <1>6, <2>1, <2>4 DEF IInv, TypeOK
  <2> QED
    BY <1>1, <1>6, <2>4, <2>5, <2>6, <2>7 DEF IInv, Counted, TimeKnown, WaitFits
<1> QED
  BY <1>3, <1>4, <1>5, <1>6 DEF Plan

LEMMA WaitIInv == IInv /\ Wait => IInv'
<1> SUFFICES ASSUME IInv, Wait PROVE IInv'
  OBVIOUS
<1>1. /\ lastError' = lastError /\ lastError \in Reasons \cup {"none"} /\ pc = "sleep"
      /\ now \in 0..MaxTime /\ last \in 0..now /\ waited \in 0..last
      /\ attempts >= 1 /\ task.idempotent /\ delay \in Nat /\ notBefore \in Nat
      /\ last + delay >= notBefore
  BY DEF Wait, IInv, TypeOK, Counted, WaitFits
<1>2. \A t \in now..MaxTime : Waited(t) \in 0..t
  BY <1>1 DEF Waited
<1>3. CASE Abort("runtime") /\ UNCHANGED waited
  BY <1>1, <1>3, AbortIInv DEF Reasons
<1>4. ASSUME NEW t \in now..MaxTime, NEW u \in t..MaxTime, Pass(u), last' \in {t, u}, waited' = Waited(t),
             Finish("failed", "runtime")
      PROVE  IInv'
  <2>1. now' \in 0..MaxTime /\ last' \in 0..now' /\ waited' \in 0..last'
    BY <1>1, <1>2, <1>4 DEF Pass
  <2> QED
    BY <1>1, <1>4, <2>1, FinishIInv, ResultType DEF Reasons
<1>5. ASSUME NEW t \in now..MaxTime, Sample(t), waited' = Waited(t),
             \E reason \in {"time_budget", "wait_interrupted"} : Finish("deferred", reason)
      PROVE  IInv'
  <2>1. now' \in 0..MaxTime /\ last' \in 0..now' /\ waited' \in 0..last'
    BY <1>1, <1>2, <1>5 DEF Sample, Pass
  <2> QED
    BY <1>1, <1>5, <2>1, FinishIInv, ResultType DEF Reasons, Budgets, Waits
<1>6. ASSUME NEW t \in now..MaxTime, Sample(t), waited' = Waited(t), t - last >= delay, pc' = "loop",
             UNCHANGED <<task, attempts, requests, error, delay, result, notBefore>>
      PROVE  IInv'
  <2>1. now' = t /\ last' = t /\ t \in 0..MaxTime /\ waited' \in 0..t
    BY <1>1, <1>2, <1>6 DEF Sample, Pass
  <2>2. notBefore' <= now'
    BY <1>1, <1>6, <2>1
  <2>3. TypeOK'
    BY <1>1, <1>6, <2>1 DEF IInv, TypeOK
  <2> QED
    BY <1>1, <1>6, <2>2, <2>3 DEF IInv, Counted, TimeKnown, WaitFits
<1> QED
  BY <1>3, <1>4, <1>5, <1>6 DEF Wait

LEMMA NextIInv == IInv /\ [Next]_vars => IInv'
<1> SUFFICES ASSUME IInv, [Next]_vars PROVE IInv'
  OBVIOUS
<1>1. CASE UNCHANGED vars
  BY <1>1 DEF vars, budget, IInv, TypeOK, Counted, TimeKnown, Asked, WaitFits
<1>2. CASE Returned
  BY <1>1, <1>2 DEF Returned
<1> QED
  BY <1>1, <1>2, StartIInv, AttemptIInv, OperationIInv, PublishIInv, JudgeIInv, PlanIInv, WaitIInv DEF Next

LEMMA Invariance == Spec => []IInv
<1> QED
  BY InitIInv, NextIInv, PTL DEF Spec

-----------------------------------------------------------------------------
(* The theorems.                                                           *)

\* Every variable keeps its type: in particular the counters stay within the
\* policy's budgets and the measured wait within the elapsed time.
THEOREM TypeCorrect == Spec => []TypeOK
<1>1. IInv => TypeOK
  BY DEF IInv
<1> QED
  BY <1>1, Invariance, PTL

\* A source that is not idempotent is attempted once, whatever the policy
\* lists as transient.
THEOREM OneAttemptIfNotIdempotent == Spec => []AttemptedOnce
<1>1. IInv => AttemptedOnce
  BY DEF IInv, Counted, AttemptedOnce
<1> QED
  BY <1>1, Invariance, PTL

\* A planned wait fits the policy and covers what the server asked for.
THEOREM PlannedWaitsFit == Spec => []WaitFits
<1>1. IInv => WaitFits
  BY DEF IInv
<1> QED
  BY <1>1, Invariance, PTL

\* No request leaves before the time the last Retry-After named: only
\* Dispatch sends requests, and where it runs that time has come.
THEOREM RetryAfterIsHonoured == Spec => RetryAfterHonoured
<1>1. IInv /\ [Next]_vars => [requests' > requests => now' >= notBefore]_vars
  <2> SUFFICES ASSUME IInv, Next, requests' > requests PROVE now' >= notBefore
    OBVIOUS
  <2>1. requests \in Nat /\ ~(requests > requests)
    BY DEF IInv, TypeOK
  <2>2. Dispatch
    BY <2>1 DEF Next, Start, Attempt, RefuseRequest, CallbackEnds, OperationReturns, OperationFails,
               Publish, Judge, Plan, Wait, Returned, Finish, Abort, budget, vars
  <2>3. pc = "operation" /\ now' >= now /\ now' \in Nat
    BY <2>2 DEF Dispatch, Sample, BadSample, Pass, IInv, TypeOK
  <2> QED
    BY <2>3 DEF IInv, TypeOK, TimeKnown
<1> QED
  BY <1>1, Invariance, PTL DEF Spec, RetryAfterHonoured

\* No request leaves and nothing is published once the time is spent.
THEOREM NothingLeavesLate == Spec => NothingAfterTheBudget
<1>1. IInv /\ [Next]_vars =>
        [requests' > requests \/ (result' # result /\ result'.status = "success") => now' < TotalSeconds]_vars
  <2> SUFFICES ASSUME IInv, Next, requests' > requests \/ (result' # result /\ result'.status = "success")
               PROVE  now' < TotalSeconds
    OBVIOUS
  <2>1. requests \in Nat /\ ~(requests > requests)
    BY DEF IInv, TypeOK
  <2>2. CASE requests' > requests
    <3>1. Dispatch
      BY <2>1, <2>2 DEF Next, Start, Attempt, RefuseRequest, CallbackEnds, OperationReturns, OperationFails,
                 Publish, Judge, Plan, Wait, Returned, Finish, Abort, budget, vars
    <3>2. PICK t \in now..MaxTime : Sample(t) /\ t < TotalSeconds
      BY <2>1, <2>2, <3>1 DEF Dispatch
    <3> QED
      BY <3>2 DEF Sample, Pass
  <2>3. CASE result' # result /\ result'.status = "success"
    <3>1. Publish
      <4>1. \A reason : ~Abort(reason)
        BY <2>3 DEF Abort, Finish
      <4>2. \A reason : ~Finish("failed", reason) /\ ~Finish("deferred", reason)
        BY <2>3 DEF Finish
      <4>3. \A r : \A v \in Verdict(r) : v.status # "success"
        BY DEF Verdict, Deferred
      <4>4. \A v : Finish(v.status, v.reason) => v.status = "success"
        BY <2>3 DEF Finish
      <4> HIDE DEF Verdict
      <4> QED
        BY <2>3, <4>1, <4>2, <4>3, <4>4 DEF Next, Start, Attempt, RefuseRequest, Dispatch, CallbackEnds,
               OperationReturns, OperationFails, Judge, Plan, Wait, Returned, vars
    <3>2. PICK t \in now..MaxTime : t < TotalSeconds /\ Sample(t)
      BY <2>3, <3>1 DEF Publish, Abort, Finish
    <3> QED
      BY <3>2 DEF Sample, Pass
  <2> QED
    BY <2>2, <2>3
<1> QED
  BY <1>1, Invariance, PTL DEF Spec, NothingAfterTheBudget

-----------------------------------------------------------------------------
(* Manual runs: the inductive invariant.                                   *)

\* A name is given to synced content only, and by the run that found it free.
FilesWhole ==
  /\ files \subseteq synced /\ torn = {}
  /\ \A r \in Runs :
       /\ place[r] \in {"write", "sync", "rename"} => entry[r].id \notin files
       /\ place[r] = "rename" => entry[r].id \in synced
       /\ place[r] = "flush" => entry[r].id \in files

\* Why an event's checkpoint is there: its own run synced its name, or the power
\* has never failed and nothing is ever removed.
Kept(e) ==
  /\ e.how = "written" => e.id \in named
  /\ outages = 0 => e.id \in files

EventsKept ==
  \A r \in Runs :
    /\ place[r] = "report" => Kept(entry[r])
    /\ \A e \in events[r] : Kept(e)
    /\ outages = 0 /\ place[r] # "new" => plan[r].cached \subseteq files

\* What a run holds is in its scope from the moment it is chosen.
InScope(p, e) ==
  /\ e.id.context = p.context /\ e.id.captured <= p.now
  /\ e.how = "resumed" => p.now - e.id.captured < p.age

PlanScope ==
  \A r \in Runs :
    /\ place[r] = "new" => events[r] = {}
    /\ \A e \in events[r] : InScope(plan[r], e)
    /\ place[r] \in Writing \cup {"lock", "report"} => InScope(plan[r], entry[r])
    /\ place[r] # "new" => \A id \in plan[r].cached : InScope(plan[r], [how |-> "resumed", id |-> id])

-----------------------------------------------------------------------------
LEMMA RunInitHolds ==
  ASSUME RunInit
  PROVE  RunTypeOK /\ FilesWhole /\ EventsKept /\ PlanScope
<1>1. RunTypeOK
  BY BoundsAssumption DEF RunInit, RunTypeOK, Times, Writing, Ended
<1>2. FilesWhole /\ EventsKept /\ PlanScope
  BY DEF RunInit, FilesWhole, EventsKept, PlanScope, Writing
<1> QED
  BY <1>1, <1>2

LEMMA RunTypeStep ==
  ASSUME RunTypeOK, [RunNext]_runVars
  PROVE  RunTypeOK'
<1> USE DEF RunTypeOK, Writing, Ended, archive, Goto
<1>1. ASSUME NEW r \in Runs, Begin(r)
      PROVE  RunTypeOK'
  <2>1. PICK context \in Contexts, when \in Times, age \in 0..MaxClock + 1,
            resume \in SUBSET Known :
          plan' = [plan EXCEPT ![r] =
            [context |-> context, now |-> when, age |-> age,
             cached |-> Fresh(resume, when, age)]]
    BY <1>1 DEF Begin
  <2>2. Known \subseteq Identity
    BY DEF Known, Event
  <2>3. plan'[r] \in RunPlan
    BY <2>1, <2>2 DEF RunPlan, Fresh
  <2>4. todo' \in [Runs -> SUBSET Sources]
    BY <1>1 DEF Begin
  <2> QED
    BY <1>1, <2>1, <2>3, <2>4 DEF Begin
<1>2. ASSUME NEW r \in Runs, Reuse(r)
      PROVE  RunTypeOK'
  BY <1>2 DEF Reuse, RunPlan, Event
<1>3. ASSUME NEW r \in Runs, Fails(r)
      PROVE  RunTypeOK'
  BY <1>3 DEF Fails
<1>4. ASSUME NEW r \in Runs, Observe(r)
      PROVE  RunTypeOK'
  <2>1. PICK s \in todo[r], captured \in {0, clock} :
          entry' = [entry EXCEPT ![r] =
            [how |-> "written",
             id |-> [source |-> s, context |-> plan[r].context, captured |-> captured]]]
    BY <1>4 DEF Observe
  <2>2. [how |-> "written",
         id |-> [source |-> s, context |-> plan[r].context, captured |-> captured]] \in Event
    BY <1>4, BoundsAssumption DEF Observe, Event, Identity, Times, RunPlan
  <2> QED
    BY <1>4, <2>1, <2>2 DEF Observe
<1>5. ASSUME NEW r \in Runs, Report(r)
      PROVE  RunTypeOK'
  BY <1>5 DEF Report
<1>6. ASSUME NEW r \in Runs, Complete(r)
      PROVE  RunTypeOK'
  BY <1>6 DEF Complete
<1>7. ASSUME NEW r \in Runs, Lock(r)
      PROVE  RunTypeOK'
  BY <1>7 DEF Lock
<1>8. ASSUME NEW r \in Runs, Found(r)
      PROVE  RunTypeOK'
  BY <1>8 DEF Found, Event
<1>9. ASSUME NEW r \in Runs, Missing(r)
      PROVE  RunTypeOK'
  BY <1>9 DEF Missing
<1>10. ASSUME NEW r \in Runs, Write(r)
       PROVE  RunTypeOK'
  BY <1>10 DEF Write
<1>11. ASSUME NEW r \in Runs, Sync(r)
       PROVE  RunTypeOK'
  BY <1>11 DEF Sync, Event
<1>12. ASSUME NEW r \in Runs, Rename(r)
       PROVE  RunTypeOK'
  BY <1>12 DEF Rename, Event
<1>13. ASSUME NEW r \in Runs, Flush(r)
       PROVE  RunTypeOK'
  BY <1>13 DEF Flush
<1>14. ASSUME NEW r \in Runs, Dies(r)
       PROVE  RunTypeOK'
  BY <1>14 DEF Dies
<1>15. CASE PowerLoss
  BY <1>15, BoundsAssumption DEF PowerLoss
<1>16. CASE Tick
  BY <1>16, BoundsAssumption DEF Tick, Times
<1>17. CASE UNCHANGED runVars
  BY <1>17 DEF runVars
<1> QED
  BY <1>1, <1>2, <1>3, <1>4, <1>5, <1>6, <1>7, <1>8, <1>9, <1>10, <1>11, <1>12, <1>13, <1>14,
     <1>15, <1>16, <1>17 DEF RunNext, RunStep

\* Only the holder of the lock writes, so the name it found free stays free.
LEMMA FilesWholeStep ==
  ASSUME RunTypeOK, FilesWhole, [RunNext]_runVars
  PROVE  FilesWhole'
<1> USE DEF RunTypeOK, FilesWhole, Writing, Ended, archive, Goto, Loads
<1>1. ASSUME NEW r \in Runs, Begin(r)
      PROVE  FilesWhole'
  BY <1>1 DEF Begin
<1>2. ASSUME NEW r \in Runs, Reuse(r)
      PROVE  FilesWhole'
  BY <1>2 DEF Reuse
<1>3. ASSUME NEW r \in Runs, Fails(r)
      PROVE  FilesWhole'
  BY <1>3 DEF Fails
<1>4. ASSUME NEW r \in Runs, Observe(r)
      PROVE  FilesWhole'
  BY <1>4 DEF Observe
<1>5. ASSUME NEW r \in Runs, Report(r)
      PROVE  FilesWhole'
  BY <1>5 DEF Report
<1>6. ASSUME NEW r \in Runs, Complete(r)
      PROVE  FilesWhole'
  BY <1>6 DEF Complete
<1>7. ASSUME NEW r \in Runs, Lock(r)
      PROVE  FilesWhole'
  BY <1>7 DEF Lock
<1>8. ASSUME NEW r \in Runs, Found(r)
      PROVE  FilesWhole'
  BY <1>8 DEF Found
<1>9. ASSUME NEW r \in Runs, Missing(r)
      PROVE  FilesWhole'
  BY <1>9 DEF Missing
<1>10. ASSUME NEW r \in Runs, Write(r)
       PROVE  FilesWhole'
  BY <1>10 DEF Write
<1>11. ASSUME NEW r \in Runs, Sync(r)
       PROVE  FilesWhole'
  BY <1>11 DEF Sync
<1>12. ASSUME NEW r \in Runs, Rename(r)
       PROVE  FilesWhole'
  BY <1>12 DEF Rename
<1>13. ASSUME NEW r \in Runs, Flush(r)
       PROVE  FilesWhole'
  BY <1>13 DEF Flush
<1>14. ASSUME NEW r \in Runs, Dies(r)
       PROVE  FilesWhole'
  BY <1>14 DEF Dies
<1>15. CASE PowerLoss
  BY <1>15 DEF PowerLoss
<1>16. CASE Tick
  BY <1>16 DEF Tick
<1>17. CASE UNCHANGED runVars
  BY <1>17 DEF runVars
<1> QED
  BY <1>1, <1>2, <1>3, <1>4, <1>5, <1>6, <1>7, <1>8, <1>9,
     <1>10, <1>11, <1>12, <1>13, <1>14, <1>15, <1>16, <1>17 DEF RunNext, RunStep

\* Names that are on the disk stay, and until the power fails all names do.
LEMMA EventsKeptStep ==
  ASSUME RunTypeOK, FilesWhole, EventsKept, [RunNext]_runVars
  PROVE  EventsKept'
<1> USE DEF RunTypeOK, EventsKept, Kept, Writing, Ended, archive, Goto, Loads
<1>1. ASSUME NEW r \in Runs, Begin(r)
      PROVE  EventsKept'
  BY <1>1 DEF Begin, Resumable, Fresh
<1>2. ASSUME NEW r \in Runs, Reuse(r)
      PROVE  EventsKept'
  BY <1>2 DEF Reuse, RunPlan
<1>3. ASSUME NEW r \in Runs, Fails(r)
      PROVE  EventsKept'
  BY <1>3 DEF Fails
<1>4. ASSUME NEW r \in Runs, Observe(r)
      PROVE  EventsKept'
  BY <1>4 DEF Observe
<1>5. ASSUME NEW r \in Runs, Report(r)
      PROVE  EventsKept'
  BY <1>5 DEF Report
<1>6. ASSUME NEW r \in Runs, Complete(r)
      PROVE  EventsKept'
  BY <1>6 DEF Complete
<1>7. ASSUME NEW r \in Runs, Lock(r)
      PROVE  EventsKept'
  BY <1>7 DEF Lock
<1>8. ASSUME NEW r \in Runs, Found(r)
      PROVE  EventsKept'
  BY <1>8 DEF Found
<1>9. ASSUME NEW r \in Runs, Missing(r)
      PROVE  EventsKept'
  BY <1>9 DEF Missing
<1>10. ASSUME NEW r \in Runs, Write(r)
       PROVE  EventsKept'
  BY <1>10 DEF Write
<1>11. ASSUME NEW r \in Runs, Sync(r)
       PROVE  EventsKept'
  BY <1>11 DEF Sync
<1>12. ASSUME NEW r \in Runs, Rename(r)
       PROVE  EventsKept'
  BY <1>12 DEF Rename
<1>13. ASSUME NEW r \in Runs, Flush(r)
       PROVE  EventsKept'
  BY <1>13 DEF Flush, FilesWhole
<1>14. ASSUME NEW r \in Runs, Dies(r)
       PROVE  EventsKept'
  BY <1>14 DEF Dies
<1>15. CASE PowerLoss
  BY <1>15, BoundsAssumption DEF PowerLoss
<1>16. CASE Tick
  BY <1>16 DEF Tick
<1>17. CASE UNCHANGED runVars
  BY <1>17 DEF runVars
<1> QED
  BY <1>1, <1>2, <1>3, <1>4, <1>5, <1>6, <1>7, <1>8, <1>9,
     <1>10, <1>11, <1>12, <1>13, <1>14, <1>15, <1>16, <1>17 DEF RunNext, RunStep

LEMMA PlanScopeStep ==
  ASSUME RunTypeOK, PlanScope, [RunNext]_runVars
  PROVE  PlanScope'
<1> USE DEF RunTypeOK, PlanScope, InScope, Writing, Ended, archive, Goto
<1>1. ASSUME NEW r \in Runs, Begin(r)
      PROVE  PlanScope'
  BY <1>1 DEF Begin, Resumable, Fresh
<1>2. ASSUME NEW r \in Runs, Reuse(r)
      PROVE  PlanScope'
  BY <1>2 DEF Reuse
<1>3. ASSUME NEW r \in Runs, Fails(r)
      PROVE  PlanScope'
  BY <1>3 DEF Fails
<1>4. ASSUME NEW r \in Runs, Observe(r)
      PROVE  PlanScope'
  BY <1>4 DEF Observe
<1>5. ASSUME NEW r \in Runs, Report(r)
      PROVE  PlanScope'
  BY <1>5 DEF Report
<1>6. ASSUME NEW r \in Runs, Complete(r)
      PROVE  PlanScope'
  BY <1>6 DEF Complete
<1>7. ASSUME NEW r \in Runs, Lock(r)
      PROVE  PlanScope'
  BY <1>7 DEF Lock
<1>8. ASSUME NEW r \in Runs, Found(r)
      PROVE  PlanScope'
  BY <1>8 DEF Found
<1>9. ASSUME NEW r \in Runs, Missing(r)
      PROVE  PlanScope'
  BY <1>9 DEF Missing
<1>10. ASSUME NEW r \in Runs, Write(r)
       PROVE  PlanScope'
  BY <1>10 DEF Write
<1>11. ASSUME NEW r \in Runs, Sync(r)
       PROVE  PlanScope'
  BY <1>11 DEF Sync
<1>12. ASSUME NEW r \in Runs, Rename(r)
       PROVE  PlanScope'
  BY <1>12 DEF Rename
<1>13. ASSUME NEW r \in Runs, Flush(r)
       PROVE  PlanScope'
  BY <1>13 DEF Flush
<1>14. ASSUME NEW r \in Runs, Dies(r)
       PROVE  PlanScope'
  BY <1>14 DEF Dies
<1>15. CASE PowerLoss
  BY <1>15 DEF PowerLoss
<1>16. CASE Tick
  BY <1>16 DEF Tick
<1>17. CASE UNCHANGED runVars
  BY <1>17 DEF runVars
<1> QED
  BY <1>1, <1>2, <1>3, <1>4, <1>5, <1>6, <1>7, <1>8, <1>9,
     <1>10, <1>11, <1>12, <1>13, <1>14, <1>15, <1>16, <1>17 DEF RunNext, RunStep

-----------------------------------------------------------------------------
(* Manual runs: the theorems.                                              *)

\* The invariant of manual runs.
RunInv == RunTypeOK /\ FilesWhole /\ EventsKept /\ PlanScope

LEMMA RunInvariant == RunSpec => []RunInv
<1>1. RunInit => RunInv
  BY RunInitHolds DEF RunInv
<1>2. RunInv /\ [RunNext]_runVars => RunInv'
  BY RunTypeStep, FilesWholeStep, EventsKeptStep, PlanScopeStep DEF RunInv
<1> QED
  BY <1>1, <1>2, PTL DEF RunSpec

\* Counters and records keep their types, and .writer.lock is held exactly by the
\* run that is inside save_checkpoint, however runs end.
THEOREM RunTypeCorrect == RunSpec => []RunTypeOK
<1> QED
  BY RunInvariant, PTL DEF RunInv

\* Whatever is interrupted and whatever a power loss takes, a file with a
\* checkpoint's name has its content: save_checkpoint syncs before it renames,
\* and the name it renames to is still free.
THEOREM CheckpointsAreWhole == RunSpec => []VisibleIsWhole
<1>1. FilesWhole => VisibleIsWhole
  BY DEF FilesWhole, VisibleIsWhole
<1> QED
  BY RunInvariant, <1>1, PTL DEF RunInv

\* A checkpoint that a run wrote and reported can be loaded ever after, and one
\* that it found in place as long as the power never fails.
THEOREM ReportsCanBeResumed == RunSpec => []ReportedLoads
<1>1. RunTypeOK /\ FilesWhole /\ EventsKept => ReportedLoads
  BY DEF RunTypeOK, FilesWhole, EventsKept, Kept, ReportedLoads, Loads
<1> QED
  BY RunInvariant, <1>1, PTL DEF RunInv

\* What run_manual reports is for its own context and not of its future, and what
\* it reused was within the allowed age, whatever else is in the archive.
THEOREM EventsStayInScope == RunSpec => []EventsInScope
<1>1. PlanScope => EventsInScope
  BY DEF PlanScope, InScope, EventsInScope
<1> QED
  BY RunInvariant, <1>1, PTL DEF RunInv
=============================================================================
