------------------------------ MODULE RunStore ------------------------------
(***************************************************************************)
(* The tables dag_run and task_run of every server (server/src/db): what   *)
(* DagRunRepo and TaskRunRepo write and read.  Each repository serialises  *)
(* its writers with a mutex, so a statement is one step.  The columns kept *)
(* are the ones the properties tell apart: who started a run and how it is *)
(* recorded, the status of a task, and the run and the worker behind a     *)
(* nested node (metadata_json.run_id, worker_id).                          *)
(***************************************************************************)
EXTENDS Integers, Sequences

CONSTANTS Server,    \* the servers; each has a database of its own
          RunId,     \* run ids
          TaskId,    \* logical ids of tasks
          NoRow,     \* "no such row"
          NoId,      \* the empty string, for a logical id, a run id or a worker
          Source     \* who may start a run

VARIABLES dagRun,    \* dagRun[s][r]: row of run r at server s
          taskRun    \* taskRun[s][r][t]: row of task t of run r at server s

storeVars == <<dagRun, taskRun>>

(* TaskRunRepo::statusToInt and the comment of column dag_run.status. *)
RowStatus == {"Pending", "Running", "Success", "Failed", "Skipped", "Canceled", "Timeout"}

DagRunRow  == [status : {"Running", "Failed"}, source : Source]
TaskRunRow == [status : RowStatus, next : RunId \cup {NoId}, worker : Server \cup {NoId}]

ASSUME RowAssumption == NoRow \notin DagRunRow /\ NoRow \notin TaskRunRow
ASSUME NoIdAssumption == NoId \notin RunId /\ NoId \notin Server

StoreInit == /\ dagRun = [s \in Server |-> [r \in RunId |-> NoRow]]
             /\ taskRun = [s \in Server |-> [r \in RunId |-> [t \in TaskId |-> NoRow]]]

(* insertRun: INSERT OR REPLACE, always as Running. *)
insertRun(s, r, src) ==
    dagRun' = [dagRun EXCEPT ![s][r] = [status |-> "Running", source |-> src]]

(* finishRun: an UPDATE; the service only ever passes status 2. *)
finishRun(s, r) ==
    dagRun' = [dagRun EXCEPT ![s][r] =
        IF @ = NoRow THEN NoRow ELSE [@ EXCEPT !.status = "Failed"]]

(* upsertFromTaskJson: a task without an id is refused.  An existing row   *)
(* becomes Pending again and keeps the columns that are not in the         *)
(* conflict clause: worker, metadata and times of the earlier execution.   *)
upsertFromTaskJson(s, r, t) ==
    taskRun' = IF t = NoId THEN taskRun ELSE [taskRun EXCEPT ![s][r][t] =
        IF @ = NoRow THEN [status |-> "Pending", next |-> NoId, worker |-> NoId]
                     ELSE [@ EXCEPT !.status = "Pending"]]

(* markRunning, markFinished, markSkipped: UPDATEs of the row, if any. *)
markRunning(s, r, t) ==
    taskRun' = [taskRun EXCEPT ![s][r][t] = IF @ = NoRow THEN NoRow ELSE [@ EXCEPT !.status = "Running"]]

markFinished(s, r, t, st, next, worker) ==
    taskRun' = [taskRun EXCEPT ![s][r][t] =
        IF @ = NoRow THEN NoRow ELSE [status |-> st, next |-> next, worker |-> worker]]

(* Mutant: a skipped task is not recorded. *)
markSkipped_NoWrite(s, r, t) == taskRun' = taskRun
markSkipped(s, r, t) ==
    taskRun' = [taskRun EXCEPT ![s][r][t] = IF @ = NoRow THEN NoRow ELSE [@ EXCEPT !.status = "Skipped"]]

(* TaskRunRepo::query: the rows of one run, or of all of them. *)
TaskRows(s, r) == {x \in RunId \X TaskId : taskRun[s][x[1]][x[2]] # NoRow /\ r \in {x[1], NoId}}

(* TaskHandler::queryTaskRuns: what a client sees of them. *)
queryTaskRuns(s, r) ==
    [t \in {x[2] : x \in TaskRows(s, r)} |-> taskRun[s][r][t].status]

(* TaskRunRepo::get *)
getTaskRun(s, r, t) == taskRun[s][r][t]

(* DagRunRepo::query: an empty run id or source matches every row. *)
DagRows(s, r, src) == {q \in RunId : /\ dagRun[s][q] # NoRow
                                     /\ r \in {q, NoId}
                                     /\ src \in {dagRun[s][q].source, NoId}}

(* TaskHandler::queryDagRuns *)
queryDagRuns(s, r, src) == {[run |-> q, row |-> dagRun[s][q]] : q \in DagRows(s, r, src)}

StoreTypeOK == /\ dagRun \in [Server -> [RunId -> DagRunRow \cup {NoRow}]]
               /\ taskRun \in [Server -> [RunId -> [TaskId -> TaskRunRow \cup {NoRow}]]]
=============================================================================
