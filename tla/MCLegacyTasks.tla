--------------------------- MODULE MCLegacyTasks ---------------------------
(* Two tasks, the second with one retry, and one worker thread. *)
EXTENDS LegacyTasks
Retries == [t \in TaskId |-> t - 1]
=============================================================================
