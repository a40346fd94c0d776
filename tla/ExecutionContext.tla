-------------------------- MODULE ExecutionContext --------------------------
(***************************************************************************)
(* What one execution of a task shares with the TaskRunner: the class      *)
(* ExecutionContext of server/src/runner/task_config.h.                    *)
(*                                                                         *)
(* There is no clock: the deadline of an attempt passes at some moment,    *)
(* which may be any moment.                                                *)
(***************************************************************************)

VARIABLES
    kind,        \* TaskConfig::execType
    hasFlag,     \* the caller of run() gave a cancel flag
    hasTimeout,  \* TaskConfig::hasTimeout
    cancel,      \* the cancel flag
    overdue,     \* the deadline of this attempt has passed
    pc,          \* where the thread that runs the task is
    result       \* the status the attempt returns

cfgVars == <<kind, hasFlag, hasTimeout>>
ctxVars == <<cfgVars, cancel, overdue>>

TaskStatus == {"Pending", "Success", "Failed", "Canceled", "Timeout"}

isCanceled == cancel
isTimeout  == overdue

(* execute() returns a TaskResult with this status. *)
Return(status) == result' = status /\ pc' = "finish"
=============================================================================
