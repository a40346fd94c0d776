----------------------------- MODULE TaskRunner -----------------------------
(***************************************************************************)
(* TaskRunner::run with its retries (server/src/runner/task_runner.cpp),   *)
(* over the shell and the local strategy.                                  *)
(*                                                                         *)
(* An owner of the cancel flag may set it at any moment and never clears   *)
(* it.  The pauses between attempts end at some moment; how long they are  *)
(* (retryDelay, doubled or not) is left out.                               *)
(***************************************************************************)
EXTENDS ShellStrategy, LocalStrategy, Integers

CONSTANT RetryCounts    \* the values of TaskConfig::retryCount

ASSUME RetryAssumption == RetryCounts \subseteq Int

VARIABLES
    retryCount,   \* TaskConfig::retryCount
    attempt,      \* the attempt under way, from 0
    rested        \* the pause before the next attempt is over

runVars == <<retryCount, attempt, rested>>
vars    == <<ctxVars, pc, result, shellVars, localVars, runVars>>

ExecType    == {"shell", "local", "docker"}    \* "docker" has no strategy
MaxAttempts == IF retryCount + 1 <= 0 THEN 1 ELSE retryCount + 1

Init ==
    /\ kind \in ExecType /\ hasFlag \in BOOLEAN /\ hasTimeout \in BOOLEAN
    /\ cancel = FALSE /\ overdue = FALSE
    /\ pc = "attempt" /\ result = "Pending"
    /\ ShellInit /\ LocalInit
    /\ retryCount \in RetryCounts
    /\ attempt = 0 /\ rested = FALSE

(* The head of the retry loop: the flag, then a new deadline. *)
Attempt ==
    /\ pc = "attempt"
    /\ IF isCanceled
          THEN result' = "Canceled" /\ pc' = "returned" /\ UNCHANGED overdue
          ELSE pc' = "precheck" /\ overdue' = FALSE /\ UNCHANGED result
    /\ UNCHANGED <<cfgVars, cancel, runVars>>

(* runOneAttempt: a deadline that has passed already raises the flag, the  *)
(* caller's if there is one.  Then the strategy is chosen.                 *)
Precheck ==
    /\ pc = "precheck"
    /\ IF isTimeout
          THEN result' = "Timeout" /\ pc' = "decide" /\ cancel' = (cancel \/ hasFlag)
          ELSE /\ UNCHANGED cancel
               /\ IF kind = "docker" THEN Return("Failed") ELSE pc' = kind /\ UNCHANGED result
    /\ UNCHANGED <<cfgVars, overdue, runVars>>

(* The last look at the flag after the strategy has returned. *)
Finish ==
    /\ pc = "finish"
    /\ result' = IF isCanceled /\ result = "Success" THEN "Canceled" ELSE result
    /\ pc' = "decide"
    /\ UNCHANGED <<ctxVars, runVars>>

(* Success, Canceled and Timeout end the task; a failure is retried. *)
Decide ==
    /\ pc = "decide"
    /\ pc' = IF result # "Failed" \/ attempt + 1 >= MaxAttempts THEN "returned" ELSE "backoff"
    /\ rested' = FALSE
    /\ UNCHANGED <<ctxVars, result, retryCount, attempt>>

(* The pause is polled every 50 ms. *)
BackoffOver ==
    /\ pc = "backoff"
    /\ rested
    /\ pc' = "attempt"
    /\ attempt' = attempt + 1
    /\ UNCHANGED <<ctxVars, result, retryCount, rested>>

BackoffCanceled ==
    /\ pc = "backoff"
    /\ ~rested /\ isCanceled
    /\ result' = "Canceled"
    /\ pc' = "returned"
    /\ UNCHANGED <<ctxVars, runVars>>

RunnerStep == Attempt \/ Precheck \/ Finish \/ Decide \/ BackoffOver \/ BackoffCanceled

Thread == \/ RunnerStep /\ UNCHANGED <<shellVars, localVars>>
          \/ ShellStep /\ UNCHANGED <<localVars, runVars>>
          \/ LocalStep /\ UNCHANGED <<shellVars, runVars>>
Watchdog == WatchdogStep /\ UNCHANGED <<shellVars, runVars>>
Processes == ProcessStep /\ UNCHANGED <<localVars, runVars>>

-----------------------------------------------------------------------------
(* The owner of the flag, and time. *)
SetCancel ==
    /\ hasFlag /\ ~cancel
    /\ cancel' = TRUE
    /\ UNCHANGED <<cfgVars, overdue, pc, result, shellVars, localVars, runVars>>

DeadlinePasses ==
    /\ hasTimeout /\ ~overdue
    /\ pc \notin {"attempt", "decide", "backoff", "returned"}
    /\ overdue' = TRUE
    /\ UNCHANGED <<cfgVars, cancel, pc, result, shellVars, localVars, runVars>>

PausePasses ==
    /\ pc = "backoff" /\ ~rested
    /\ rested' = TRUE
    /\ UNCHANGED <<ctxVars, pc, result, shellVars, localVars, retryCount, attempt>>

Returned == pc = "returned" /\ UNCHANGED vars

Next == \/ Thread \/ Watchdog \/ Processes \/ SetCancel \/ DeadlinePasses \/ PausePasses \/ Returned

Spec == Init /\ [][Next]_vars

(***************************************************************************)
(* Both threads run on, time passes, and a process that was killed ends.   *)
(* A registered function returns: that it polls the flag is its duty.      *)
(***************************************************************************)
Killed == \/ leader = "dying" /\ LeaderEnds
          \/ helper = "dying" /\ HelperEnds
Fairness == /\ WF_vars(Thread) /\ WF_vars(Watchdog)
            /\ WF_vars(DeadlinePasses) /\ WF_vars(PausePasses)
            /\ WF_vars(Processes /\ Killed)
FairSpec == Spec /\ Fairness
-----------------------------------------------------------------------------
(***************************************************************************)
(* Properties.                                                             *)
(***************************************************************************)
(* The type invariant; no more attempts are made than configured. *)
TypeOK ==
    /\ kind \in ExecType /\ hasFlag \in BOOLEAN /\ hasTimeout \in BOOLEAN
    /\ cancel \in BOOLEAN /\ overdue \in BOOLEAN
    /\ pc \in {"attempt", "precheck", "shell", "fork", "check", "grace", "poll", "reap", "verdict",
               "local", "func", "done", "join", "finish", "decide", "backoff", "returned"}
    /\ result \in TaskStatus
    /\ leader \in {"none", "running", "dying", "zombie", "reaped"}
    /\ helper \in {"none", "running", "dying", "ended"}
    /\ stubborn \subseteq Member /\ holds \subseteq Holder /\ unread \in BOOLEAN
    /\ open \in BOOLEAN /\ exited \in BOOLEAN /\ exitOk \in BOOLEAN /\ signalled \in BOOLEAN
    /\ watchdog \in {"none", "watch", "look", "over"}
    /\ doneFlag \in BOOLEAN /\ timeoutFlag \in BOOLEAN
    /\ retryCount \in RetryCounts
    /\ attempt \in 0..(MaxAttempts - 1)
    /\ rested \in BOOLEAN

(* A failure ends the task only when every attempt was made. *)
FailedMeansExhausted ==
    (pc = "returned" /\ result = "Failed") => attempt + 1 = MaxAttempts

(* A command that was signalled is reported as Timeout or Canceled: the    *)
(* reason that was read at the head of the loop is still there after the   *)
(* pipes were drained, whatever exit code the command chose; so it is not  *)
(* started again.                                                          *)
KillExplained ==
    (kind = "shell" /\ signalled /\ pc \in {"finish", "decide", "backoff", "returned"}) =>
        result \in {"Timeout", "Canceled"}

(* A deadline the watchdog has seen pass is reported as Timeout, whatever  *)
(* the function returned meanwhile, and the function is not called again.  *)
TimeoutExplained ==
    (kind = "local" /\ timeoutFlag /\ pc \in {"finish", "decide", "backoff", "returned"}) =>
        result = "Timeout"

(* No attempt starts before the command of the last one was reaped: the    *)
(* commands of one task never overlap, and no zombie is left.              *)
NoOverlap == [][(leader' = "running" /\ leader # "running") => leader \in {"none", "reaped"}]_vars

(* The watchdog uses locals of execute(): it has ended when that returns. *)
WatchdogJoined == pc \notin {"func", "done", "join"} => watchdog \in {"none", "over"}

(* The safety of a task: its attempts stay within the configured number,   *)
(* an attempt that was ended for its deadline or a cancellation is never   *)
(* reported as a failure (nor retried), and no thread of it outlives it.   *)
RunnerSound ==
    TypeOK /\ FailedMeansExhausted /\ KillExplained /\ TimeoutExplained /\ WatchdogJoined

(* The leader is gone and another process keeps the pipes open. *)
Held == exited /\ Writers # {}

(* drain_fd is reading what somebody still writes. *)
Flooded == pc = "poll" /\ Writers \ {"stranger"} # {}

(* A task with a timeout, or one that is canceled, ends, unless a process  *)
(* the command left in the background, or a child of another task, keeps   *)
(* its pipes open for ever, or its output never pauses: drain_fd then does *)
(* not come back to the deadline and the flag.                             *)
EndsUnlessHeld ==
    (hasTimeout \/ <>cancel) => (<>(pc = "returned") \/ <>[]Held \/ <>[]Flooded)
=============================================================================
