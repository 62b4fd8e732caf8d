-------------------------- MODULE SourceExecution --------------------------
(***************************************************************************)
(* execute_source of database/poc/discovery_execution.py: one source is    *)
(* read by an opaque operation, attempted again after transient errors,    *)
(* within budgets of requests, attempts and time.                          *)
(*                                                                         *)
(* An action ends where the code calls out: the operation, a request's     *)
(* callback, the wait.  Time passes inside every action; a reading of the  *)
(* monotonic clock may also fail or go backwards, which the code treats    *)
(* alike.  Seconds are integers and the budget starts at second 0.         *)
(***************************************************************************)
EXTENDS Naturals

CONSTANTS
  MaxRequests,      \* policy.max_requests
  MaxAttempts,      \* policy.max_attempts
  TotalSeconds,     \* policy.total_seconds
  MaxDelaySeconds,  \* policy.max_delay_seconds
  BackoffSeconds,   \* policy.backoff_seconds
  MaxTime           \* bound: how far time runs

ASSUME PolicyAssumption ==
  /\ MaxRequests \in Nat /\ MaxAttempts \in Nat \ {0}
  /\ TotalSeconds \in Nat \ {0}
  /\ MaxDelaySeconds \in Nat /\ BackoffSeconds \in 0..MaxDelaySeconds
  /\ MaxTime \in Nat /\ MaxTime > TotalSeconds

VARIABLES
  task,       \* whether its resources are in the allowlist, and it is idempotent
  now,        \* the time
  last,       \* budget.last, so also budget.elapsed
  waited,     \* budget.waited
  attempts,   \* budget.attempts
  requests,   \* budget.requests
  pc,         \* where the executor is
  error,      \* the classified error of this attempt
  lastError,  \* the last_error of the result
  delay,      \* the wait that was planned
  result,     \* status and reason
  notBefore   \* history: no request before this time, by the Retry-After received

budget == <<last, waited, attempts, requests>>
vars == <<task, now, budget, pc, error, lastError, delay, result, notBefore>>

-----------------------------------------------------------------------------
Budgets == {"request_budget", "time_budget", "attempt_budget"}
Waits == {"retry_after_extreme", "retry_after_budget", "delay_limit", "wait_interrupted"}

\* The classes of classify_error that are told apart here: an HTTP status, a
\* transport error, anything final; and what the executor raises itself.
Reasons == {"provider", "connection", "invalid_schema", "incomplete", "identity",
            "selection", "runtime"} \cup Budgets \cup Waits

\* A Retry-After: absent, in seconds, a date, or beyond 18 digits.
NoRetryAfter == [kind |-> "none", value |-> 0]
RetryAfter == [kind: {"seconds", "date"}, value: 0..MaxTime] \cup {[kind |-> "excessive", value |-> 0]}

Raised(reason) == [reason |-> reason, retryable |-> FALSE, after |-> NoRetryAfter]
NoError == Raised("none")

\* What parse_retry_after makes of a header: a text that is none of its forms
\* is as good as none.
Parsed == RetryAfter \cup {NoRetryAfter}

\* What a request or the operation may raise.  Whether the policy lists the
\* status, or retries transport errors, is left open.
Errors ==
  [reason: {"provider"}, retryable: BOOLEAN, after: Parsed]
  \cup [reason: {"connection"}, retryable: BOOLEAN, after: {NoRetryAfter}]
  \cup {Raised("invalid_schema")}

\* SourceTask: what of it the executor looks at.
Task == [authorized: BOOLEAN, idempotent: BOOLEAN]

\* SourceResult: a success has no reason, and whatever else happened has one.
NoResult == [status |-> "none", reason |-> "none"]
Result == [status: {"success"}, reason: {"none"}] \cup [status: {"deferred", "failed"}, reason: Reasons]

TypeOK ==
  /\ task \in Task
  /\ now \in 0..MaxTime /\ last \in 0..now /\ waited \in 0..last
  /\ attempts \in 0..MaxAttempts /\ requests \in 0..MaxRequests
  /\ pc \in {"start", "loop", "operation", "callback", "failed", "plan", "sleep", "publish", "done"}
  /\ error \in Errors \cup {NoError} \cup {Raised(r) : r \in Reasons}
  /\ lastError \in Reasons \cup {"none"}
  /\ delay \in 0..MaxDelaySeconds
  /\ result \in Result \cup {NoResult}
  /\ notBefore \in 0..2 * MaxTime

Init ==
  /\ task \in Task
  /\ now = 0 /\ last = 0 /\ waited = 0 /\ attempts = 0 /\ requests = 0
  /\ pc = "start" /\ error = NoError /\ lastError = "none" /\ delay = 0
  /\ result = NoResult /\ notBefore = 0

-----------------------------------------------------------------------------
(* Time.                                                                   *)

Pass(t) == t \in now..MaxTime /\ now' = t

\* sample: a good reading; the other case is a failed one.
Sample(t) == Pass(t) /\ last' = t
BadSample(t) == Pass(t) /\ UNCHANGED last

Remaining(t) == IF t < TotalSeconds THEN TotalSeconds - t ELSE 0

MinOf(a, b) == IF a < b THEN a ELSE b
MaxOf(a, b) == IF a < b THEN b ELSE a

Finish(status, reason) ==
  /\ pc' = "done"
  /\ result' = [status |-> status, reason |-> reason]
  /\ UNCHANGED <<task, attempts, requests, error, delay, notBefore>>

\* An ExecutionError outside the operation.  The clock is read once more,
\* whatever comes of it, unless time is what ran out.
Abort(reason) ==
  /\ Finish(IF reason \in {"time_budget", "retry_after_extreme"} THEN "deferred" ELSE "failed", reason)
  /\ \E t \in now..MaxTime :
       \/ reason = "time_budget" /\ t >= TotalSeconds /\ Sample(t)
       \/ reason # "time_budget" /\ (Sample(t) \/ BadSample(t))

\* The budget is opened; a clock that fails now leaves no budget at all.
Start ==
  /\ pc = "start"
  /\ \/ UNCHANGED <<now, last>> /\ Finish("failed", "runtime")
     \/ UNCHANGED <<now, last>> /\ ~task.authorized /\ Finish("failed", "selection")
     \/ /\ task.authorized
        /\ pc' = "loop"
        /\ UNCHANGED <<task, now, last, attempts, requests, error, delay, result, notBefore>>
  /\ UNCHANGED <<waited, lastError>>

\* Mutant: the counter starts again with every attempt.
AttemptRecounted ==
  /\ pc = "loop"
  /\ \/ /\ \E t \in now..MaxTime : t < TotalSeconds /\ Sample(t)
        /\ attempts' = 1
        /\ pc' = "operation" /\ error' = NoError
        /\ UNCHANGED <<task, requests, delay, result, notBefore>>
     \/ Abort("time_budget")
     \/ Abort("runtime")
  /\ UNCHANGED <<waited, lastError>>

\* The loop's own exit is never taken: a failed last attempt returns first.
Attempt ==
  /\ pc = "loop"
  /\ \/ /\ attempts < MaxAttempts
        /\ \E t \in now..MaxTime : t < TotalSeconds /\ Sample(t)
        /\ attempts' = attempts + 1
        /\ pc' = "operation" /\ error' = NoError
        /\ UNCHANGED <<task, requests, delay, result, notBefore>>
     \/ Abort("time_budget")
     \/ Abort("runtime")
  /\ UNCHANGED <<waited, lastError>>

-----------------------------------------------------------------------------
(* The operation and its requests.                                         *)

\* The time a Retry-After received at t names.
Until(after, t) ==
  CASE after.kind = "seconds" -> t + after.value
    [] after.kind = "date" -> after.value
    [] OTHER -> 0

\* The operation ends with an error.
Fail(e) ==
  /\ pc' = "failed" /\ error' = e
  /\ notBefore' = MaxOf(notBefore, Until(e.after, now'))

\* An error raised to the operation, which may swallow it and go on.
RaiseToOperation(e) ==
  \/ Fail(e)
  \/ pc' = "operation" /\ UNCHANGED <<error, notBefore>>

\* A context kept from an earlier attempt, or a resource not planned.
RefuseRequest ==
  /\ pc = "operation"
  /\ UNCHANGED now
  /\ RaiseToOperation(Raised("selection"))
  /\ UNCHANGED <<task, budget, lastError, delay, result>>

\* Mutant: the clock is not looked at before a request.
DispatchUnchecked ==
  /\ pc = "operation"
  /\ \/ \E t \in now..MaxTime : BadSample(t) /\ RaiseToOperation(Raised("runtime")) /\ UNCHANGED requests
     \/ \E t \in now..MaxTime :
          /\ Sample(t)
          /\ IF requests >= MaxRequests
             THEN RaiseToOperation(Raised("request_budget")) /\ UNCHANGED requests
             ELSE /\ requests' = requests + 1 /\ pc' = "callback"
                  /\ UNCHANGED <<error, notBefore>>
  /\ UNCHANGED <<task, waited, attempts, lastError, delay, result>>

Dispatch ==
  /\ pc = "operation"
  /\ \/ \E t \in now..MaxTime : BadSample(t) /\ RaiseToOperation(Raised("runtime")) /\ UNCHANGED requests
     \/ \E t \in now..MaxTime :
          /\ Sample(t)
          /\ IF t >= TotalSeconds
             THEN RaiseToOperation(Raised("time_budget")) /\ UNCHANGED requests
             ELSE IF requests >= MaxRequests
             THEN RaiseToOperation(Raised("request_budget")) /\ UNCHANGED requests
             ELSE /\ requests' = requests + 1 /\ pc' = "callback"
                  /\ UNCHANGED <<error, notBefore>>
  /\ UNCHANGED <<task, waited, attempts, lastError, delay, result>>

\* The callback is not preempted: it may overrun the remaining time.
CallbackEnds ==
  /\ pc = "callback"
  /\ \E t \in now..MaxTime :
       \/ Pass(t) /\ UNCHANGED last /\ \E e \in Errors : RaiseToOperation(e)
       \/ BadSample(t) /\ RaiseToOperation(Raised("runtime"))
       \/ Sample(t) /\ t >= TotalSeconds /\ RaiseToOperation(Raised("time_budget"))
       \/ Sample(t) /\ t < TotalSeconds /\ pc' = "operation" /\ UNCHANGED <<error, notBefore>>
  /\ UNCHANGED <<task, waited, attempts, requests, lastError, delay, result>>

\* A complete observation that validates; the clock is read after validation.
OperationReturns ==
  /\ pc = "operation"
  /\ \E t \in now..MaxTime :
       \/ BadSample(t) /\ Fail(Raised("runtime"))
       \/ Sample(t) /\ t >= TotalSeconds /\ Fail(Raised("time_budget"))
       \/ Sample(t) /\ t < TotalSeconds /\ pc' = "publish" /\ UNCHANGED <<error, notBefore>>
  /\ UNCHANGED <<task, waited, attempts, requests, lastError, delay, result>>

\* Any other end: an error, an observation that is incomplete, or of other
\* resources than those selected.
OperationFails ==
  /\ pc = "operation"
  /\ \E t \in now..MaxTime : BadSample(t)
  /\ \E e \in Errors \cup {Raised("incomplete"), Raised("identity")} : Fail(e)
  /\ UNCHANGED <<task, waited, attempts, requests, lastError, delay, result>>

\* Building the result takes time too, and is inside the budget.
Publish ==
  /\ pc = "publish"
  /\ \/ \E t \in now..MaxTime : t < TotalSeconds /\ Sample(t) /\ Finish("success", "none")
     \/ Abort("time_budget")
     \/ Abort("runtime")
  /\ UNCHANGED <<waited, lastError>>

-----------------------------------------------------------------------------
(* After a failed attempt.                                                 *)

Deferred(reason) == [status |-> "deferred", reason |-> reason]

\* The early returns before a retry is planned, in their order; {} for none.
Verdict(remaining) ==
  IF error.reason \in {"request_budget", "time_budget"} THEN {Deferred(error.reason)}
  ELSE IF ~error.retryable \/ ~task.idempotent THEN {[status |-> "failed", reason |-> error.reason]}
  ELSE IF remaining = 0 THEN {Deferred("time_budget")}
  ELSE IF requests >= MaxRequests THEN {Deferred("request_budget")}
  ELSE IF attempts >= MaxAttempts THEN {Deferred("attempt_budget")}
  ELSE {}

Judge ==
  /\ pc = "failed"
  /\ lastError' = error.reason
  /\ \/ Abort("runtime")
     \/ \E t \in now..MaxTime :
          /\ Sample(t)
          /\ \/ \E v \in Verdict(Remaining(t)) : Finish(v.status, v.reason)
             \/ /\ Verdict(Remaining(t)) = {}
                /\ pc' = "plan"
                /\ UNCHANGED <<task, attempts, requests, error, delay, result, notBefore>>
  /\ UNCHANGED waited

\* _backoff: doubled at each attempt, up to the limit.
Backoff[n \in 1..MaxAttempts] ==
  IF n = 1 THEN BackoffSeconds ELSE MinOf(2 * Backoff[n - 1], MaxDelaySeconds)

\* _server_delay; a date is compared with the wall clock, taken to agree with "now".
ServerDelay(t) ==
  CASE error.after.kind = "seconds" -> error.after.value
    [] error.after.kind = "date" -> IF error.after.value > t THEN error.after.value - t ELSE 0
    [] OTHER -> 0

\* The wait: the longer of what the server asked for and the jittered backoff.
Delay(server, jitter) ==
  LET base == Backoff[attempts] IN MaxOf(server, base + MinOf(jitter, MaxDelaySeconds - base))

Plan ==
  /\ pc = "plan"
  /\ \/ error.after.kind = "excessive" /\ Abort("retry_after_extreme")
     \/ /\ error.after.kind # "excessive"
        /\ Abort("runtime")   \* the wall clock, the jitter or the clock fails
     \/ /\ error.after.kind # "excessive"
        /\ \E w \in now..MaxTime :
             LET server == ServerDelay(w) IN
             \/ /\ server >= Remaining(last)
                /\ BadSample(w) /\ Finish("deferred", "retry_after_budget")
             \/ /\ server < Remaining(last) /\ server > MaxDelaySeconds
                /\ BadSample(w) /\ Finish("deferred", "delay_limit")
             \/ /\ server < Remaining(last) /\ server <= MaxDelaySeconds
                /\ \E t \in w..MaxTime, jitter \in 0..MaxDelaySeconds :
                     /\ Sample(t)
                     /\ \/ t >= TotalSeconds /\ Finish("deferred", "time_budget")
                        \/ /\ t < TotalSeconds /\ server >= Remaining(t)
                           /\ Finish("deferred", "retry_after_budget")
                        \/ /\ t < TotalSeconds /\ server < Remaining(t)
                           /\ Delay(server, jitter) >= Remaining(t)
                           /\ Finish("deferred", "time_budget")
                        \/ /\ t < TotalSeconds /\ server < Remaining(t)
                           /\ Delay(server, jitter) < Remaining(t)
                           /\ delay' = Delay(server, jitter) /\ pc' = "sleep"
                           /\ UNCHANGED <<task, attempts, requests, error, result, notBefore>>
  /\ UNCHANGED <<waited, lastError>>

Waited(t) == IF delay = 0 THEN waited ELSE waited + (t - last)

\* Mutant: a wait cut short is as good as a wait.
WaitTrusted ==
  /\ pc = "sleep"
  /\ \/ Abort("runtime") /\ UNCHANGED waited
     \/ \E t \in now..MaxTime :
          /\ Sample(t)
          /\ waited' = Waited(t)
          /\ \/ Remaining(t) = 0 /\ Finish("deferred", "time_budget")
             \/ /\ Remaining(t) > 0
                /\ pc' = "loop"
                /\ UNCHANGED <<task, attempts, requests, error, delay, result, notBefore>>
  /\ UNCHANGED lastError

\* sleep, when there is something to wait for; it may raise, or return early.
Wait ==
  /\ pc = "sleep"
  /\ \/ Abort("runtime") /\ UNCHANGED waited
     \/ /\ delay # 0   \* it raised: measured, and the clock is read once more
        /\ \E t \in now..MaxTime : \E u \in t..MaxTime :
             Pass(u) /\ last' \in {t, u} /\ waited' = Waited(t)
        /\ Finish("failed", "runtime")
     \/ \E t \in now..MaxTime :
          /\ Sample(t)
          /\ waited' = Waited(t)
          /\ \/ Remaining(t) = 0 /\ Finish("deferred", "time_budget")
             \/ Remaining(t) > 0 /\ t - last < delay /\ Finish("deferred", "wait_interrupted")
             \/ /\ Remaining(t) > 0 /\ t - last >= delay
                /\ pc' = "loop"
                /\ UNCHANGED <<task, attempts, requests, error, delay, result, notBefore>>
  /\ UNCHANGED lastError

\* The result has been returned.
Returned == pc = "done" /\ UNCHANGED vars

Next ==
  \/ Start \/ Attempt
  \/ RefuseRequest \/ Dispatch \/ CallbackEnds \/ OperationReturns \/ OperationFails
  \/ Publish \/ Judge \/ Plan \/ Wait
  \/ Returned

Spec == Init /\ [][Next]_vars

\* The executor runs on, callbacks and waits return, and an operation does not
\* go on with its requests for ever.
FairSpec ==
  /\ Spec
  /\ WF_vars(Start \/ Attempt \/ CallbackEnds \/ Publish \/ Judge \/ Plan \/ Wait)
  /\ SF_vars(OperationReturns \/ OperationFails)

-----------------------------------------------------------------------------
(* Properties.                                                             *)

\* After an error with a Retry-After, no request leaves before the time the
\* server named, whatever the planning, the jitter and an early wake-up do.
RetryAfterHonoured == [][requests' > requests => now' >= notBefore]_vars

\* No request leaves, and nothing is published, once the total time is spent,
\* by the clock as it was read in that very step.
NothingAfterTheBudget ==
  [][requests' > requests \/ (result' # result /\ result'.status = "success") => now' < TotalSeconds]_vars

\* A source that is not idempotent is attempted once.
AttemptedOnce == ~task.idempotent => attempts <= 1

\* A planned wait fits: it is within the policy's limit, ends before the
\* budget does, and is not shorter than what the server still asks for.
WaitFits ==
  pc = "sleep" => delay <= MaxDelaySeconds /\ last + delay < TotalSeconds /\ last + delay >= notBefore

\* Every task gets a result.
Terminates == <>(pc = "done")
=============================================================================
