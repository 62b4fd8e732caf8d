------------------------------ MODULE Console ------------------------------
(***************************************************************************)
(* The web console of control_plane/web/app.js beside the control plane.   *)
(* The backend has no timer: a lease that is over ends when somebody asks, *)
(* and the one caller that asks regularly is a console with an operator    *)
(* logged in, whose refresh() runs every two seconds.                      *)
(*                                                                         *)
(* The console is one page.  Its log-in is one step, and the three reads   *)
(* of a refresh are one request, answered or not.                          *)
(***************************************************************************)
EXTENDS ControlPlane

VARIABLES
  credential,  \* the page holds the operator's key: somebody is logged in
  refreshing,  \* the flag that keeps refresh() from running twice
  asked        \* a refresh's reads are on their way

consoleVars == <<credential, refreshing, asked>>
allVars == <<vars, consoleVars>>

ConsoleInit ==
  /\ Init
  /\ credential = FALSE
  /\ refreshing = FALSE
  /\ asked = FALSE

\* refresh() does nothing while another refresh is under way.
Refresh ==
  /\ ~refreshing
  /\ refreshing' = TRUE
  /\ asked' = TRUE

\* The backend has to answer; the log-in ends with a refresh.
LogIn ==
  /\ up
  /\ ~credential
  /\ credential' = TRUE
  /\ Refresh \/ (refreshing /\ UNCHANGED <<refreshing, asked>>)
  /\ UNCHANGED vars

\* setInterval: the page keeps asking, whether or not the backend answers.
Poll ==
  /\ credential
  /\ Refresh
  /\ UNCHANGED <<vars, credential>>

\* The operator logs out, or a 401 locks the page.
Lock ==
  /\ credential
  /\ credential' = FALSE
  /\ UNCHANGED <<vars, refreshing, asked>>

\* The page is closed; the next one starts from nothing.
ClosePage ==
  /\ credential' = FALSE
  /\ refreshing' = FALSE
  /\ asked' = FALSE
  /\ UNCHANGED vars

\* The reads come back: dashboard and list_missions have expired the leases.
Answered ==
  /\ asked
  /\ asked' = FALSE
  /\ refreshing' = FALSE
  /\ Expire
  /\ UNCHANGED credential

\* Mutant: the flag is cleared at the end of the try block, not in finally.
UnansweredForGood ==
  /\ asked
  /\ asked' = FALSE
  /\ UNCHANGED <<vars, credential, refreshing>>

\* The backend is down, has no slot left or answers with an error: the catch
\* block tells the operator, and finally clears the flag.
Unanswered ==
  /\ asked
  /\ asked' = FALSE
  /\ refreshing' = FALSE
  /\ UNCHANGED <<vars, credential>>

ControlPlaneStep == Next /\ UNCHANGED consoleVars

ConsoleNext ==
  \/ ControlPlaneStep
  \/ LogIn \/ Poll \/ Lock \/ ClosePage \/ Answered \/ Unanswered

TimePasses == Tick /\ clock' > clock /\ UNCHANGED consoleVars

\* Time passes, the page's timer fires, and of the reads the console repeats
\* every two seconds some are answered if the backend is up again and again.
\* Nothing is assumed of workers, of operators or of whoever restarts the backend.
ConsoleSpec ==
  /\ ConsoleInit
  /\ [][ConsoleNext]_allVars
  /\ WF_allVars(TimePasses) /\ WF_allVars(Poll) /\ SF_allVars(Answered)

-----------------------------------------------------------------------------

\* From some moment on an operator stays logged in, the backend is never down
\* for good and the wall clock is not set back any more.
Attended ==
  /\ <>[]credential
  /\ []<>up
  /\ <>[][clock' >= clock]_clock

\* Whatever its worker does or fails to do, an active attempt ends if a console
\* stays open: by its worker, by the poll that finds it overdue, or by the
\* recovery of a restart.  It takes all three assumptions: a backend nobody
\* asks keeps an attempt running past its deadline, and a clock that is set
\* back again and again never reaches it.
LeaseEnds ==
  Attended => \A a \in AttemptId : attempts[a].state \in ActiveStates ~> attempts[a].state \notin ActiveStates
=============================================================================
