----------------------------- MODULE TaskStack -----------------------------
(***************************************************************************)
(* The client's TaskManager: a stack of interaction tasks, the last element *)
(* on top.  A task is its kind; the objects that carry state (MoveTask and  *)
(* ConnectTask) keep it in module Editor.  Heavy tasks are at the bottom.   *)
(***************************************************************************)
EXTENDS Integers, Sequences, FiniteSetsExt

\* The tasks, as their constructors number them.
Level ==
  [Main |-> 10000, Select |-> 200, Create |-> 200, Connect |-> 200,
   Delete |-> 200, Import |-> 200, Move |-> 100, Zoom |-> 15,
   Layout |-> 10, StraightLine |-> 1]

Top(st) == st[Len(st)]

\* TaskManager::push pops while the top is not heavier than the new task.
pushTask(st, t) ==
  LET keep == Max({0} \cup {i \in DOMAIN st : Level[st[i]] > Level[t]})
  IN  Append(SubSeq(st, 1, keep), t)

\* TaskManager::removeTask unwinds the stack down to the task and drops it.
removeTask(st, t) ==
  IF \E i \in DOMAIN st : st[i] = t
  THEN SubSeq(st, 1, (CHOOSE i \in DOMAIN st : st[i] = t) - 1)
  ELSE st

\* MainTask::dispatch: alone on the stack it brings back Zoom and Select before
\* the event goes on.  Select is heavier than Zoom, which is popped at once.
restore(st) == IF Top(st) = "Main" THEN pushTask(pushTask(st, "Zoom"), "Select") ELSE st

\* CanvasBench::buildCore.
buildCore == pushTask(pushTask(<<"Main">>, "Zoom"), "Select")

\* Esc: every task but Main removes itself; Main restores Select.
escape(st) == IF Top(st) = "Main" THEN restore(st) ELSE removeTask(st, Top(st))
=============================================================================
