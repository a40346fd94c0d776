---------------------------- MODULE LocalStrategy ----------------------------
(***************************************************************************)
(* LocalExecutionStrategy::execute (server/src/execution/                  *)
(* local_strategy.cpp): a registered function on this thread and a         *)
(* watchdog thread that looks at the deadline every 20 ms.                 *)
(***************************************************************************)
EXTENDS ExecutionContext

VARIABLES
    watchdog,     \* where the watchdog thread is
    doneFlag,     \* the function has returned
    timeoutFlag   \* the watchdog has seen the deadline pass

localVars == <<watchdog, doneFlag, timeoutFlag>>

LocalInit == watchdog = "none" /\ doneFlag = FALSE /\ timeoutFlag = FALSE

(* No handler is named, or none is registered under the name. *)
LocalReject ==
    /\ pc = "local"
    /\ Return("Failed")
    /\ UNCHANGED <<ctxVars, localVars>>

LocalStart ==
    /\ pc = "local"
    /\ IF isCanceled
          THEN Return("Canceled") /\ UNCHANGED localVars
          ELSE /\ pc' = "func"
               /\ watchdog' = IF hasTimeout THEN "watch" ELSE "none"
               /\ doneFlag' = FALSE /\ timeoutFlag' = FALSE
               /\ UNCHANGED result
    /\ UNCHANGED ctxVars

(* The function returns, by an exception (Failed) or not; it may notice    *)
(* that it was canceled.                                                   *)
FuncReturns ==
    /\ pc = "func"
    /\ result' \in {"Success", "Failed"} \cup (IF isCanceled THEN {"Canceled"} ELSE {})
    /\ pc' = "done"
    /\ UNCHANGED <<ctxVars, localVars>>

SetDone ==
    /\ pc = "done"
    /\ doneFlag' = TRUE
    /\ pc' = "join"
    /\ UNCHANGED <<ctxVars, result, watchdog, timeoutFlag>>

JoinWatchdog ==
    /\ pc = "join"
    /\ watchdog \in {"none", "over"}
    /\ Return(IF timeoutFlag THEN "Timeout" ELSE result)
    /\ UNCHANGED <<ctxVars, localVars>>

LocalStep == LocalReject \/ LocalStart \/ FuncReturns \/ SetDone \/ JoinWatchdog

-----------------------------------------------------------------------------
(* The watchdog thread: the flag of the function, then the context. *)
WatchDone ==
    /\ watchdog = "watch"
    /\ watchdog' = IF doneFlag THEN "over" ELSE "look"
    /\ UNCHANGED <<doneFlag, timeoutFlag>>

WatchContext ==
    /\ watchdog = "look"
    /\ watchdog' = IF isCanceled \/ isTimeout THEN "over" ELSE "watch"
    /\ timeoutFlag' = (~isCanceled /\ isTimeout)
    /\ UNCHANGED doneFlag

WatchdogStep == (WatchDone \/ WatchContext) /\ UNCHANGED <<ctxVars, pc, result>>
=============================================================================
