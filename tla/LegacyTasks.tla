----------------------------- MODULE LegacyTasks -----------------------------
(***************************************************************************)
(* The task queue behind /api/tasks: TaskManager, BlockingQueue and        *)
(* WorkerPool (server/src/core) with the handlers create and cancel_task   *)
(* (server/src/handlers/task_handler.cpp), from the start of the process   *)
(* (server_app.cpp) over crashes to the next one, on the database of       *)
(* Migrator.                                                               *)
(*                                                                         *)
(* A Task object is shared: the worker that runs it and the handler that   *)
(* cancels it write its fields without a lock.  m_mutex only protects      *)
(* TaskManager: updateTask holds it while it reads the fields one after    *)
(* the other into the UPDATE.                                              *)
(***************************************************************************)
EXTENDS Migrator

CONSTANTS Worker,       \* worker threads; the server starts one
          MaxRetries,   \* MaxRetries[t]: params.max_retries of task t
          MaxCrashes,   \* bound: ends of the process
          MaxCancels,   \* bound: requests to cancel a task
          Nobody        \* nobody holds m_mutex; no task

ASSUME IdAssumption    == TaskId \subseteq Nat \ {0} /\ Nobody \notin TaskId
ASSUME RetryAssumption == MaxRetries \in [TaskId -> Nat]
(* The cancellation takes the mutex under a name of its own, see CancelSnap. *)
ASSUME NameAssumption  == Nobody # "canc" /\ Worker \cap {Nobody, "canc"} = {}

VARIABLES tasks,        \* m_tasks: id -> Task, or NoRow
          nextId,       \* m_next_id
          loaded,       \* the TaskManager has been constructed
          creating,     \* id that create has added and not yet submitted
          queue,        \* m_queue of the WorkerPool
          stopping,     \* m_stopping
          lock,         \* holder of m_mutex inside updateTask
          wk,           \* wk[w]: a worker thread
          canc,         \* the handler of a cancellation
          late,         \* late[t]: attempts started after the cancel flag was set
          cancels,      \* number of requests to cancel
          crashes       \* number of ends of the process

memVars == <<tasks, nextId, loaded, creating, queue, stopping, lock, wk, canc, late>>
vars    == <<dbVars, memVars, cancels, crashes>>

Terminal == {"success", "failed", "canceled", "timeout"}
Status   == {"pending", "running"} \cup Terminal
Task     == [status : Status, cancel : BOOLEAN, retry : Nat]
ASSUME NoRowAssumption == NoRow \notin Task
NewTask  == [status |-> "pending", cancel |-> FALSE, retry |-> 0]
Idle     == [pc |-> "idle", task |-> Nobody, attempt |-> 0, out |-> "ok", seen |-> "pending"]
Resting  == [pc |-> "idle", task |-> Nobody, seen |-> "pending"]

MemInit == /\ tasks = [t \in TaskId |-> NoRow] /\ nextId = 1 /\ loaded = FALSE
           /\ creating = Nobody /\ queue = <<>> /\ stopping = FALSE /\ lock = Nobody
           /\ wk = [w \in Worker |-> Idle] /\ canc = Resting
           /\ late = [t \in TaskId |-> 0]

(* An earlier program may have left a task behind. *)
Init == /\ DbInit([t \in TaskId |-> IF t = 1 THEN NewTask ELSE NoRow])
        /\ MemInit /\ cancels = 0 /\ crashes = 0

Serving == At("done") /\ loaded
KeepDb  == UNCHANGED dbVars
KeepMig == UNCHANGED <<inTx, mig, fault, failures>>
-----------------------------------------------------------------------------
(***************************************************************************)
(* TaskManager.  The statements on all columns fail while those of v1.0.1  *)
(* are missing.                                                            *)
(***************************************************************************)
Full == V101Columns \subseteq view.obj
Stored(t) == view.rows[t] # NoRow

(* load_from_db, called by the constructor at the first use. *)
MaxId == CHOOSE n \in TaskId \cup {0} :
            /\ \A t \in TaskId : Stored(t) => t <= n
            /\ n # 0 => Stored(n)
NextId == MaxId + 1

load_from_db ==
    /\ At("done") /\ ~loaded
    /\ loaded' = TRUE
    /\ IF Full THEN tasks' = view.rows /\ nextId' = NextId
               ELSE UNCHANGED <<tasks, nextId>>
    /\ KeepDb /\ UNCHANGED <<creating, queue, stopping, lock, wk, canc, late, cancels, crashes>>

(* create: add_task, then submit.  A task whose INSERT fails lives in      *)
(* memory only.  One request at a time is between the two.                 *)
add_task ==
    /\ Serving /\ creating = Nobody /\ lock = Nobody /\ ~stopping
    /\ nextId \in TaskId
    /\ tasks' = [tasks EXCEPT ![nextId] = NewTask]
    /\ creating' = nextId
    /\ nextId' = nextId + 1
    /\ IF Full /\ ~Stored(nextId) THEN Write([view EXCEPT !.rows[nextId] = NewTask])
                                  ELSE UNCHANGED <<view, disk>>
    /\ KeepMig /\ UNCHANGED <<loaded, queue, stopping, lock, wk, canc, late, cancels, crashes>>

(* BlockingQueue::push drops what comes after shutdown. *)
push(t) == queue' = IF stopping THEN queue ELSE Append(queue, t)

submit ==
    /\ creating # Nobody
    /\ push(creating)
    /\ creating' = Nobody
    /\ KeepDb /\ UNCHANGED <<tasks, nextId, loaded, stopping, lock, wk, canc, late, cancels, crashes>>

create == add_task \/ submit

(* list and detail show the objects, not the rows. *)
list      == {t \in TaskId : tasks[t] # NoRow}
detail(t) == tasks[t]

(* updateTask: under the mutex the status is read into the statement ...   *)
Snap(p)   == lock = Nobody /\ lock' = p
(* ... and later the cancel flag and the retry count, then the row changes.*)
UpdateRow(t, seen) ==
    IF Full /\ Stored(t)
       THEN Write([view EXCEPT !.rows[t] = [tasks[t] EXCEPT !.status = seen]])
       ELSE UNCHANGED <<view, disk>>

(* set_running writes the status alone, a column of the first version. *)
RunningRow(t) == IF Stored(t) THEN Write([view EXCEPT !.rows[t].status = "running"])
                              ELSE UNCHANGED <<view, disk>>
-----------------------------------------------------------------------------
(***************************************************************************)
(* A worker: worker_loop and execute_one_task.                             *)
(***************************************************************************)
On(w, l)    == wk[w].pc = l
Job(w)      == wk[w].task
To(w, l)    == wk' = [wk EXCEPT ![w].pc = l]
KeepRest    == UNCHANGED <<nextId, loaded, creating, stopping, canc, cancels, crashes>>

pop(w) ==
    /\ On(w, "idle") /\ ~stopping /\ queue # <<>>
    /\ wk' = [wk EXCEPT ![w] = [Idle EXCEPT !.pc = "start", !.task = Head(queue)]]
    /\ queue' = Tail(queue)
    /\ KeepDb /\ KeepRest /\ UNCHANGED <<tasks, lock, late>>

SkipCanceled(w) ==
    /\ On(w, "start") /\ tasks[Job(w)].cancel
    /\ tasks' = [tasks EXCEPT ![Job(w)].status = "canceled"]
    /\ To(w, "save")
    /\ KeepDb /\ KeepRest /\ UNCHANGED <<queue, lock, late>>

Start(w) ==
    /\ On(w, "start") /\ ~tasks[Job(w)].cancel
    /\ tasks' = [tasks EXCEPT ![Job(w)].status = "running"]
    /\ To(w, "setRunning")
    /\ KeepDb /\ KeepRest /\ UNCHANGED <<queue, lock, late>>

set_running(w) ==
    /\ On(w, "setRunning") /\ lock = Nobody
    /\ tasks' = [tasks EXCEPT ![Job(w)].status = "running"]
    /\ RunningRow(Job(w))
    /\ To(w, "loop")
    /\ KeepMig /\ KeepRest /\ UNCHANGED <<queue, lock, late>>

(* Mutant: the flag is looked at only before the first attempt. *)
Attempt_Once(w) ==
    /\ On(w, "loop")
    /\ IF tasks[Job(w)].cancel /\ wk[w].attempt = 0 THEN wk' = [wk EXCEPT ![w].pc = "final", ![w].out = "canceled"]
                                                    ELSE To(w, "run")
    /\ KeepDb /\ KeepRest /\ UNCHANGED <<tasks, queue, lock, late>>

Attempt(w) ==
    /\ On(w, "loop")
    /\ IF tasks[Job(w)].cancel THEN wk' = [wk EXCEPT ![w].pc = "final", ![w].out = "canceled"]
                               ELSE To(w, "run")
    /\ KeepDb /\ KeepRest /\ UNCHANGED <<tasks, queue, lock, late>>

(* run_with_timeout: the command has ended, or is held to have timed out;  *)
(* in that case too its end is awaited, by the future's destructor.        *)
RunCommand(w, out) ==
    /\ On(w, "run")
    /\ late' = [late EXCEPT ![Job(w)] = IF tasks[Job(w)].cancel THEN @ + 1 ELSE @]
    /\ wk' = [wk EXCEPT ![w].pc = IF out = "fail" THEN "failed" ELSE "final", ![w].out = out]
    /\ KeepDb /\ KeepRest /\ UNCHANGED <<tasks, queue, lock>>

CountRetry(w) ==
    /\ On(w, "failed")
    /\ tasks' = [tasks EXCEPT ![Job(w)].retry = wk[w].attempt + 1]
    /\ wk' = [wk EXCEPT ![w].pc = "saveRetry", ![w].attempt = @ + 1]
    /\ KeepDb /\ KeepRest /\ UNCHANGED <<queue, lock, late>>

(* The verdict reads the flag once more. *)
Final(w) ==
    /\ On(w, "final")
    /\ tasks' = [tasks EXCEPT ![Job(w)].status =
          IF wk[w].out = "canceled" \/ tasks[Job(w)].cancel THEN "canceled"
          ELSE IF wk[w].out = "timeout" THEN "timeout"
          ELSE IF wk[w].out = "ok" THEN "success" ELSE "failed"]
    /\ To(w, "save")
    /\ KeepDb /\ KeepRest /\ UNCHANGED <<queue, lock, late>>

WorkerSnap(w) ==
    /\ wk[w].pc \in {"save", "saveRetry"}
    /\ Snap(w)
    /\ wk' = [wk EXCEPT ![w].pc = IF @ = "save" THEN "write" ELSE "writeRetry", ![w].seen = tasks[Job(w)].status]
    /\ KeepDb /\ KeepRest /\ UNCHANGED <<tasks, queue, late>>

(* Mutant: the mutex is not released. *)
WorkerWrite_KeepLock(w) ==
    /\ wk[w].pc \in {"write", "writeRetry"}
    /\ UpdateRow(Job(w), wk[w].seen)
    /\ wk' = [wk EXCEPT ![w] = IF @.pc = "write" THEN Idle ELSE [@ EXCEPT !.pc = "final"]]
    /\ KeepMig /\ KeepRest /\ UNCHANGED <<tasks, queue, late, lock>>

WorkerWrite(w) ==
    /\ wk[w].pc \in {"write", "writeRetry"}
    /\ UpdateRow(Job(w), wk[w].seen)
    /\ lock' = Nobody
    /\ wk' = [wk EXCEPT ![w] = IF @.pc = "write" THEN Idle
                               ELSE [@ EXCEPT !.pc = IF wk[w].attempt > MaxRetries[Job(w)]
                                                     THEN "final" ELSE "loop"]]
    /\ KeepMig /\ KeepRest /\ UNCHANGED <<tasks, queue, late>>

WorkerStep(w) ==
    \/ pop(w) \/ SkipCanceled(w) \/ Start(w) \/ set_running(w) \/ Attempt(w)
    \/ \E out \in {"ok", "fail", "timeout"} : RunCommand(w, out)
    \/ CountRetry(w) \/ Final(w) \/ WorkerSnap(w) \/ WorkerWrite(w)
-----------------------------------------------------------------------------
(***************************************************************************)
(* cancel_task: the status is read, then the flag set, then the task saved.*)
(***************************************************************************)
KeepCanc == UNCHANGED <<nextId, loaded, creating, queue, stopping, wk, late, crashes>>

CancelCheck(t) ==
    /\ Serving /\ canc = Resting /\ tasks[t] # NoRow /\ lock = Nobody
    /\ tasks[t].status \notin Terminal
    /\ cancels < MaxCancels /\ cancels' = cancels + 1
    /\ canc' = [canc EXCEPT !.pc = "flag", !.task = t]
    /\ KeepDb /\ KeepCanc /\ UNCHANGED <<tasks, lock>>

CancelFlag ==
    /\ canc.pc = "flag"
    /\ tasks' = [tasks EXCEPT ![canc.task].cancel = TRUE]
    /\ canc' = [canc EXCEPT !.pc = "save"]
    /\ KeepDb /\ KeepCanc /\ UNCHANGED cancels /\ UNCHANGED lock

(* Mutant: the status is read before the mutex is taken, in CancelCheck.   *)
CancelSnap_Early ==
    /\ canc.pc = "save"
    /\ Snap("canc")
    /\ canc' = [canc EXCEPT !.pc = "write", !.seen = "running"]
    /\ KeepDb /\ KeepCanc /\ UNCHANGED cancels /\ UNCHANGED tasks

CancelSnap ==
    /\ canc.pc = "save"
    /\ Snap("canc")
    /\ canc' = [canc EXCEPT !.pc = "write", !.seen = tasks[canc.task].status]
    /\ KeepDb /\ KeepCanc /\ UNCHANGED cancels /\ UNCHANGED tasks

CancelWrite ==
    /\ canc.pc = "write"
    /\ UpdateRow(canc.task, canc.seen)
    /\ lock' = Nobody
    /\ canc' = Resting
    /\ KeepMig /\ KeepCanc /\ UNCHANGED cancels /\ UNCHANGED tasks

cancel_task == CancelFlag \/ CancelSnap \/ CancelWrite
-----------------------------------------------------------------------------
(* WorkerPool::stop when the process leaves in order: workers finish what  *)
(* they run, the queue is dropped.                                         *)
stop == /\ Serving /\ ~stopping
        /\ stopping' = TRUE
        /\ KeepDb /\ UNCHANGED <<tasks, nextId, loaded, creating, queue, lock, wk, canc, late, cancels, crashes>>

(* The process ends, at any moment or after stop, and is started again. *)
Restart ==
    /\ crashes < MaxCrashes
    /\ crashes' = crashes + 1
    /\ UNCHANGED cancels
    /\ open
    /\ tasks' = [t \in TaskId |-> NoRow] /\ nextId' = 1 /\ loaded' = FALSE
    /\ creating' = Nobody /\ queue' = <<>> /\ stopping' = FALSE /\ lock' = Nobody
    /\ wk' = [w \in Worker |-> Idle] /\ canc' = Resting /\ late' = [t \in TaskId |-> 0]

Boot == (MigrateStep /\ UNCHANGED <<memVars, cancels, crashes>>) \/ load_from_db

Next == \/ Boot \/ create \/ stop \/ Restart
        \/ \E w \in Worker : WorkerStep(w)
        \/ \E t \in TaskId : CancelCheck(t)
        \/ cancel_task

(* Threads that can go on do; requests, stops and crashes need not come,   *)
(* and a command need not end.                                             *)
Fairness == /\ WF_vars(Boot) /\ WF_vars(submit) /\ WF_vars(cancel_task)
            /\ \A w \in Worker : WF_vars(~On(w, "run") /\ WorkerStep(w))
Spec     == Init /\ [][Next]_vars
FairSpec == Spec /\ Fairness
-----------------------------------------------------------------------------
InUse(t) == creating = t \/ canc.task = t \/ \E w \in Worker : Job(w) = t

(* Once nobody works on a task its row says what its object says, in every *)
(* interleaving of a cancellation with the worker, and so after a restart  *)
(* as well.                                                                *)
RowIsTask == \A t \in list :
    (Serving /\ Stored(t) /\ Full /\ ~InUse(t)) => view.rows[t] = detail(t)

(* An id is given out once, also over restarts: every stored task has an   *)
(* id below m_next_id.                                                     *)
IdsFresh == (Serving /\ Full) => \A t \in TaskId : Stored(t) => t < nextId

(* The table keeps what the tasks became, over cancellations, crashes and   *)
(* restarts, and no task overwrites the row of another.                     *)
RowsFaithful == RowIsTask /\ IdsFresh

(* At most one attempt starts after the cancellation of its task. *)
AtMostOneLateAttempt == \A t \in TaskId : late[t] <= 1

Queued(t) == (\E i \in DOMAIN queue : queue[i] = t) \/ \E w \in Worker : Job(w) = t

(* The command a worker waits for never ends. *)
HeldForEver(w) == <>[]On(w, "run")

(* Every task of this process that reached the queue ends, unless the pool *)
(* is stopped first or a command never ends: run_with_timeout waits for    *)
(* its end even after the timeout, so it keeps its worker, the only one    *)
(* the server has, from every task behind it.  Tasks of an earlier process *)
(* are in no queue: those it left pending or running stay so.              *)
EveryTaskEnds ==
    \/ \E w \in Worker : HeldForEver(w)
    \/ []<>(stopping \/ ~Serving \/ \A t \in TaskId : ~Queued(t) /\ creating # t)
=============================================================================
