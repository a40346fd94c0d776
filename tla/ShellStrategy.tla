---------------------------- MODULE ShellStrategy ----------------------------
(***************************************************************************)
(* ShellExecutionStrategy::execute (server/src/execution/                  *)
(* shell_strategy.cpp): a command in a process group of its own, whose     *)
(* output is read until the pipes are closed and whose leader is waited    *)
(* for.                                                                    *)
(*                                                                         *)
(* The group is the leader and a helper the leader may start.  The pipes   *)
(* are made without O_CLOEXEC: a child that another task forks before the  *)
(* write ends are closed here has them open too, for as long as it lives,  *)
(* and no signal to the group reaches it.  The two pipes are one: what     *)
(* matters is whether there is output to read and whether the reader has   *)
(* seen their end.                                                         *)
(***************************************************************************)
EXTENDS ExecutionContext

VARIABLES
    leader,     \* the shell: what fork() returned
    helper,     \* a process the command left in the background
    stubborn,   \* the members of the group that survive SIGTERM
    holds,      \* the processes that have the pipes open for writing
    unread,     \* there is output in the pipes
    open,       \* outOpen || errOpen
    exited,     \* childExited
    exitOk,     \* the leader ended with exit code 0
    signalled   \* history: this attempt has signalled the group

procVars  == <<leader, helper, holds, unread, exitOk>>
shellVars == <<procVars, stubborn, open, exited, signalled>>

Member  == {"leader", "helper"}
Holder  == Member \cup {"stranger"}     \* a child of another task
Alive(p) == p \in {"running", "dying"}
Writers == {m \in holds : m = "stranger" \/ Alive(IF m = "leader" THEN leader ELSE helper)}

ShellInit ==
    /\ leader = "none" /\ helper = "none"
    /\ stubborn = {} /\ holds = {} /\ unread = FALSE
    /\ open = FALSE /\ exited = FALSE /\ exitOk = FALSE /\ signalled = FALSE

(* No command, or pipe() or fork() fails. *)
ShellReject ==
    /\ pc \in {"shell", "fork"}
    /\ Return("Failed")
    /\ UNCHANGED <<ctxVars, shellVars>>

ShellStart ==
    /\ pc = "shell"
    /\ IF isCanceled THEN Return("Canceled") ELSE pc' = "fork" /\ UNCHANGED result
    /\ UNCHANGED <<ctxVars, shellVars>>

Fork ==
    /\ pc = "fork"
    /\ leader' = "running" /\ helper' = "none"
    /\ stubborn' \in SUBSET Member
    /\ holds' \in {{"leader"}, {"leader", "stranger"}}
    /\ unread' = FALSE
    /\ open' = TRUE /\ exited' = FALSE /\ exitOk' = FALSE /\ signalled' = FALSE
    /\ pc' = "check"
    /\ UNCHANGED <<ctxVars, result>>

(* killpg: a member that does not handle the signal will end. *)
Struck(p, spared) == IF p = "running" /\ ~spared THEN "dying" ELSE p
Sigterm == /\ leader' = Struck(leader, "leader" \in stubborn)
           /\ helper' = Struck(helper, "helper" \in stubborn)
Sigkill == leader' = Struck(leader, FALSE) /\ helper' = Struck(helper, FALSE)

(* The head of the reading loop: the group is asked to end. *)
ShellCheck ==
    /\ pc = "check"
    /\ IF (isTimeout \/ isCanceled) /\ ~exited
          THEN Sigterm /\ signalled' = TRUE /\ pc' = "grace"
          ELSE pc' = "poll" /\ UNCHANGED <<leader, helper, signalled>>
    /\ UNCHANGED <<ctxVars, result, stubborn, holds, unread, open, exited, exitOk>>

(* Within 200 ms the leader ends and is reaped... *)
GraceReap ==
    /\ pc = "grace"
    /\ leader = "zombie"
    /\ leader' = "reaped" /\ exited' = TRUE
    /\ pc' = "poll"
    /\ UNCHANGED <<ctxVars, result, helper, stubborn, holds, unread, open, exitOk, signalled>>

(* Mutant: the group is not killed. *)
GraceOver_NoKill ==
    /\ pc = "grace"
    /\ leader # "zombie"
    /\ pc' = "poll"
    /\ UNCHANGED <<ctxVars, result, shellVars>>

(* ...or the group is killed. *)
GraceOver ==
    /\ pc = "grace"
    /\ leader # "zombie"
    /\ Sigkill
    /\ pc' = "poll"
    /\ UNCHANGED <<ctxVars, result, stubborn, holds, unread, open, exited, exitOk, signalled>>

(* poll() and drain_fd, which reads as long as there is output; the end of *)
(* the pipes is seen once nobody can write.                                *)
Drain ==
    /\ pc = "poll"
    /\ IF open /\ unread
          THEN unread' = FALSE /\ UNCHANGED <<open, pc>>
          ELSE open' = (open /\ Writers # {}) /\ pc' = "reap" /\ UNCHANGED unread
    /\ UNCHANGED <<ctxVars, result, leader, helper, holds, exitOk, stubborn, exited, signalled>>

(* waitpid(WNOHANG), and the condition of the loop. *)
Reap ==
    /\ pc = "reap"
    /\ exited' = (exited \/ leader = "zombie")
    /\ leader' = IF leader = "zombie" THEN "reaped" ELSE leader
    /\ pc' = IF open \/ ~exited' THEN "check" ELSE "verdict"
    /\ UNCHANGED <<ctxVars, result, helper, stubborn, holds, unread, open, exitOk, signalled>>

(* Mutant: the exit code is looked at first. *)
ShellVerdict_ExitFirst ==
    /\ pc = "verdict"
    /\ Return(CASE exitOk     -> "Success"
                [] isTimeout  -> "Timeout"
                [] isCanceled -> "Canceled"
                [] OTHER      -> "Failed")
    /\ UNCHANGED <<ctxVars, shellVars>>

ShellVerdict ==
    /\ pc = "verdict"
    /\ Return(CASE isTimeout                -> "Timeout"
                [] ~isTimeout /\ isCanceled -> "Canceled"
                [] ~isTimeout /\ ~isCanceled /\ exitOk -> "Success"
                [] OTHER                    -> "Failed")
    /\ UNCHANGED <<ctxVars, shellVars>>

ShellStep == \/ ShellReject \/ ShellStart \/ Fork \/ ShellCheck \/ GraceReap \/ GraceOver
             \/ Drain \/ Reap \/ ShellVerdict

-----------------------------------------------------------------------------
(***************************************************************************)
(* The processes of the group, and the child of another task.              *)
(***************************************************************************)
LeaderEnds ==
    /\ Alive(leader)
    /\ leader' = "zombie"
    /\ exitOk' \in BOOLEAN
    /\ UNCHANGED <<helper, holds, unread>>

HelperStarts ==
    /\ leader = "running" /\ helper = "none"
    /\ helper' = "running"
    /\ holds' \in {holds, holds \cup (IF "leader" \in holds THEN {"helper"} ELSE {})}
    /\ UNCHANGED <<leader, unread, exitOk>>

HelperEnds ==
    /\ Alive(helper)
    /\ helper' = "ended"
    /\ UNCHANGED <<leader, holds, unread, exitOk>>

(* A process closes its ends; the child of another task by ending. *)
ClosesPipes ==
    /\ \E m \in Writers : holds' = holds \ {m}
    /\ UNCHANGED <<leader, helper, unread, exitOk>>

(* The command writes; the child of another task knows nothing of the pipes. *)
Writes ==
    /\ Writers \ {"stranger"} # {} /\ ~unread
    /\ unread' = TRUE
    /\ UNCHANGED <<leader, helper, holds, exitOk>>

ProcessStep ==
    /\ LeaderEnds \/ HelperStarts \/ HelperEnds \/ ClosesPipes \/ Writes
    /\ UNCHANGED <<ctxVars, pc, result, stubborn, open, exited, signalled>>
=============================================================================
