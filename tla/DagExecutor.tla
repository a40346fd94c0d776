----------------------------- MODULE DagExecutor -----------------------------
(***************************************************************************)
(* DagExecutor::execute, submitNodeAsync and onNodeFinished                *)
(* (server/src/dag/dag_executor.cpp) over one DagRunContext.               *)
(*                                                                         *)
(* Two kinds of thread share the context: the scheduler, which runs        *)
(* execute(), and one pool job per submitted node, which runs the node and *)
(* then onNodeFinished().  One action is one access to shared state, so    *)
(* every interleaving the code allows is a behaviour: node statuses,       *)
(* indegrees and the counters are atomics read without a lock, readyQueue  *)
(* is accessed under _readyMutex, and _cv is notified WITHOUT _cvMutex.    *)
(* When execute() itself runs on a pool thread (a nested DAG, runDagAsync) *)
(* cfg.inline holds and submitNodeAsync runs the job in place.             *)
(***************************************************************************)
EXTENDS DagRun

CONSTANT NoNode    \* "no id popped yet"

ASSUME NoNodeAssumption == NoNode \notin Node

VARIABLES
    readyQueue,  \* _readyQueue
    indegree,    \* DagNode::_indegree
    running,     \* DagRunContext::_running
    failed,      \* DagRunContext::_failed
    taskRun,     \* status column of the node's task_run row (TaskRunRepo)
    late,        \* history: the nodes started when failed was already set
    mpc,         \* where the scheduler is in execute()
    cur,         \* the id it has popped
    wpc,         \* where the job of a node is
    result,      \* what TaskRunner::run returned for the node
    idx,         \* position of the job's loop over node->downstream()
    toVisit,     \* work list of the job's skip traversal
    visited,     \* the nodes that were ever put on that list
    skipping     \* the node the traversal is at

ctxVars   == <<readyQueue, indegree, running, failed, taskRun, late>>
schedVars == <<mpc, cur>>
jobVars   == <<wpc, result, idx, toVisit, visited, skipping>>
vars      == <<cfg, status, verdict, ctxVars, schedVars, jobVars>>

(***************************************************************************)
(* The graph as DagBuilder::build leaves it: one edge <<p, i>> for every   *)
(* position of a downstream list, and an indegree that counts them.        *)
(***************************************************************************)
Down(p)    == cfg.down[p]
InEdges(n) == UNION {{<<p, i>> : i \in {j \in DOMAIN Down(p) : Down(p)[j] = n}} : p \in Node}

Roots == {n \in Node : indegree[n] = 0}

(* The orders in which initReadyQueue may meet the roots: nodes() is an    *)
(* unordered_map.                                                          *)
Orders(S) == {q \in [1..Cardinality(S) -> S] : \A i, j \in 1..Cardinality(S) :
                                                    q[i] = q[j] => i = j}

Init ==
    /\ RunInit
    /\ readyQueue = <<>>
    /\ indegree = [n \in Node |-> Cardinality(InEdges(n))]
    /\ running = 0
    /\ failed = FALSE
    /\ taskRun = [n \in Node |-> "Pending"]
    /\ late = {}
    /\ mpc = "init"
    /\ cur = NoNode
    /\ wpc = [n \in Node |-> "idle"]
    /\ result = [n \in Node |-> "Pending"]
    /\ idx = [n \in Node |-> 1]
    /\ toVisit = [n \in Node |-> {}]
    /\ visited = [n \in Node |-> {}]
    /\ skipping = [n \in Node |-> NoNode]

-----------------------------------------------------------------------------
(***************************************************************************)
(* The scheduler: execute() and submitNodeAsync().                         *)
(***************************************************************************)
SchedGoto(l) == mpc' = l /\ UNCHANGED cur

InitReadyQueue ==
    /\ mpc = "init"
    /\ readyQueue' \in Orders(Roots)
    /\ SchedGoto("fill")
    /\ UNCHANGED <<cfg, status, verdict, indegree, running, failed, taskRun, late, jobVars>>

(* while (ctx.runningCount() < _maxParallel) *)
CheckCapacity ==
    /\ mpc = "fill"
    /\ SchedGoto(IF running < MaxParallel THEN "pop" ELSE "check")
    /\ UNCHANGED <<cfg, status, verdict, ctxVars, jobVars>>

(* Nothing ready is told by an empty id, so an id that is itself the empty *)
(* string is popped and lost, and the filling of the slots breaks off.     *)
PopReady ==
    /\ mpc = "pop"
    /\ \/ /\ readyQueue = <<>>
          /\ SchedGoto("check")
          /\ UNCHANGED readyQueue
       \/ /\ readyQueue # <<>>
          /\ readyQueue' = Tail(readyQueue)
          /\ IF Head(readyQueue) \in cfg.nameless
                THEN SchedGoto("check")
                ELSE cur' = Head(readyQueue) /\ mpc' = "filter"
    /\ UNCHANGED <<cfg, status, verdict, indegree, running, failed, taskRun, late, jobVars>>

(* A popped node that already left Pending is dropped. *)
FilterStatus ==
    /\ mpc = "filter"
    /\ SchedGoto(IF status[cur] # "Pending" THEN "fill" ELSE "failfast")
    /\ UNCHANGED <<cfg, status, verdict, ctxVars, jobVars>>

(* Mutant: the failure of the run is not looked at. *)
FilterFailFast_Absent ==
    /\ mpc = "failfast"
    /\ SchedGoto("recheck")
    /\ UNCHANGED <<cfg, status, verdict, ctxVars, jobVars>>

(* Under FailFast nothing is submitted once the run has failed. *)
FilterFailFast ==
    /\ mpc = "failfast"
    /\ SchedGoto(IF cfg.policy = "FailFast" /\ failed THEN "fill" ELSE "recheck")
    /\ UNCHANGED <<cfg, status, verdict, ctxVars, jobVars>>

(* submitNodeAsync: the second status check... *)
RecheckStatus ==
    /\ mpc = "recheck"
    /\ SchedGoto(IF status[cur] # "Pending" THEN "fill" ELSE "start")
    /\ UNCHANGED <<cfg, status, verdict, ctxVars, jobVars>>

(* ...and, not atomically with it, the change of status. *)
SetRunning ==
    /\ mpc = "start"
    /\ status' = [status EXCEPT ![cur] = "Running"]
    /\ late' = IF failed THEN late \cup {cur} ELSE late
    /\ SchedGoto("post")
    /\ UNCHANGED <<cfg, verdict, readyQueue, indegree, running, failed, taskRun, jobVars>>

(* Mutant: the start of a node is not written to its row. *)
PostJob_NoRow ==
    /\ mpc = "post"
    /\ running' = running + 1
    /\ wpc' = [wpc EXCEPT ![cur] = "run"]
    /\ SchedGoto(IF cfg.inline THEN "inline" ELSE "fill")
    /\ UNCHANGED <<cfg, status, verdict, readyQueue, indegree, failed, taskRun, late,
                   result, idx, toVisit, visited, skipping>>

(* incrementRunning, TaskRunRepo::markRunning and DagThreadPool::post: no  *)
(* other thread reads the counter or the row before the job exists.        *)
PostJob ==
    /\ mpc = "post"
    /\ running' = running + 1
    /\ taskRun' = [taskRun EXCEPT ![cur] = "Running"]
    /\ wpc' = [wpc EXCEPT ![cur] = "run"]
    /\ SchedGoto(IF cfg.inline THEN "inline" ELSE "fill")
    /\ UNCHANGED <<cfg, status, verdict, readyQueue, indegree, failed, late,
                   result, idx, toVisit, visited, skipping>>

(* On a pool thread submitNodeAsync returns after onNodeFinished. *)
InlineReturn ==
    /\ mpc = "inline"
    /\ wpc[cur] = "done"
    /\ SchedGoto("fill")
    /\ UNCHANGED <<cfg, status, verdict, ctxVars, jobVars>>

(* 3.2: both conditions are read under _readyMutex, so nothing is pushed   *)
(* between them.                                                           *)
CheckEnd ==
    /\ mpc = "check"
    /\ SchedGoto(IF readyQueue = <<>> /\ running = 0 THEN "verdict" ELSE "waitQueue")
    /\ UNCHANGED <<cfg, status, verdict, ctxVars, jobVars>>

(* 3.3: the predicate of _cv.wait, read by read. *)
WaitQueue ==
    /\ mpc = "waitQueue"
    /\ SchedGoto(IF readyQueue # <<>> THEN "fill" ELSE "waitRunning")
    /\ UNCHANGED <<cfg, status, verdict, ctxVars, jobVars>>

WaitRunning ==
    /\ mpc = "waitRunning"
    /\ SchedGoto(IF running = 0 THEN "fill" ELSE "waitFailed")
    /\ UNCHANGED <<cfg, status, verdict, ctxVars, jobVars>>

WaitFailed ==
    /\ mpc = "waitFailed"
    /\ SchedGoto(IF cfg.policy = "FailFast" /\ failed THEN "fill" ELSE "block")
    /\ UNCHANGED <<cfg, status, verdict, ctxVars, jobVars>>

(* The predicate was false: the thread becomes a waiter of _cv. *)
Block ==
    /\ mpc = "block"
    /\ SchedGoto("waiting")
    /\ UNCHANGED <<cfg, status, verdict, ctxVars, jobVars>>

(* A condition variable may wake without a notification. *)
SpuriousWake ==
    /\ mpc = "waiting"
    /\ SchedGoto("waitQueue")
    /\ UNCHANGED <<cfg, status, verdict, ctxVars, jobVars>>

(* 4 and 5: the result of the run. *)
ReturnVerdict ==
    /\ mpc = "verdict"
    /\ verdict' = IF failed THEN "Failed" ELSE "Success"
    /\ SchedGoto("returned")
    /\ UNCHANGED <<cfg, status, ctxVars, jobVars>>

Scheduler ==
    \/ InitReadyQueue \/ CheckCapacity \/ PopReady \/ FilterStatus \/ FilterFailFast
    \/ RecheckStatus \/ SetRunning \/ PostJob \/ InlineReturn \/ CheckEnd
    \/ WaitQueue \/ WaitRunning \/ WaitFailed \/ Block \/ ReturnVerdict

-----------------------------------------------------------------------------
(***************************************************************************)
(* The job of node n: TaskRunner::run, then onNodeFinished().              *)
(***************************************************************************)
JobGoto(n, l) == wpc' = [wpc EXCEPT ![n] = l]

(* The node runs (external to this module); its result goes to the         *)
(* task_run row before the node's own status changes.                      *)
RunNode(n) ==
    /\ wpc[n] = "run"
    /\ \E r \in Outcomes :
          /\ result' = [result EXCEPT ![n] = r]
          /\ taskRun' = [taskRun EXCEPT ![n] = r]
    /\ JobGoto(n, "status")
    /\ UNCHANGED <<cfg, status, verdict, readyQueue, indegree, running, failed, late,
                   schedVars, idx, toVisit, visited, skipping>>

SetFinalStatus(n) ==
    /\ wpc[n] = "status"
    /\ status' = [status EXCEPT ![n] = result[n]]
    /\ JobGoto(n, IF result[n] = "Success" THEN "release" ELSE "fail")
    /\ UNCHANGED <<cfg, verdict, ctxVars, schedVars, result, idx, toVisit, visited, skipping>>

(* The loop over the downstream list: the child's status is read... *)
ReadChild(n) ==
    /\ wpc[n] = "release"
    /\ IF idx[n] > Len(Down(n))
          THEN JobGoto(n, "leave") /\ UNCHANGED idx
          ELSE IF status[Down(n)[idx[n]]] \in FailureLike \cup {"Skipped"}
                  THEN idx' = [idx EXCEPT ![n] = @ + 1] /\ UNCHANGED wpc
                  ELSE JobGoto(n, "decrement") /\ UNCHANGED idx
    /\ UNCHANGED <<cfg, status, verdict, ctxVars, schedVars, result, toVisit, visited, skipping>>

(* ...then its indegree is decremented, fetch_sub returning the old value; *)
DecrementIndegree(n) ==
    /\ wpc[n] = "decrement"
    /\ LET child == Down(n)[idx[n]]
       IN  /\ indegree' = [indegree EXCEPT ![child] = @ - 1]
           /\ JobGoto(n, IF indegree[child] = 1 THEN "push" ELSE "release")
           /\ idx' = [idx EXCEPT ![n] = @ + 1]
    /\ UNCHANGED <<cfg, status, verdict, readyQueue, running, failed, taskRun, late,
                   schedVars, result, toVisit, visited, skipping>>

(* the child whose indegree became 0 is queued under _readyMutex. *)
PushReady(n) ==
    /\ wpc[n] = "push"
    /\ readyQueue' = Append(readyQueue, Down(n)[idx[n] - 1])
    /\ JobGoto(n, "release")
    /\ UNCHANGED <<cfg, status, verdict, indegree, running, failed, taskRun, late,
                   schedVars, result, idx, toVisit, visited, skipping>>

(* Mutant: FailFast returns without giving its slot back. *)
MarkFailed_KeepsSlot(n) ==
    /\ wpc[n] = "fail"
    /\ failed' = TRUE
    /\ IF cfg.policy = "FailFast"
          THEN JobGoto(n, "notify") /\ UNCHANGED <<toVisit, visited>>
          ELSE /\ JobGoto(n, "skip")
               /\ toVisit' = [toVisit EXCEPT ![n] = Children(n)]
               /\ visited' = [visited EXCEPT ![n] = Children(n)]
    /\ UNCHANGED <<cfg, status, verdict, readyQueue, indegree, running, taskRun, late,
                   schedVars, result, idx, skipping>>

(* Mutant: only a Failed node fails the run, Timeout and Canceled do not. *)
MarkFailed_OnlyFailed(n) ==
    /\ wpc[n] = "fail"
    /\ failed' = (failed \/ result[n] = "Failed")
    /\ IF cfg.policy = "FailFast"
          THEN JobGoto(n, "leave") /\ UNCHANGED <<toVisit, visited>>
          ELSE /\ JobGoto(n, "skip")
               /\ toVisit' = [toVisit EXCEPT ![n] = Children(n)]
               /\ visited' = [visited EXCEPT ![n] = Children(n)]
    /\ UNCHANGED <<cfg, status, verdict, readyQueue, indegree, running, taskRun, late,
                   schedVars, result, idx, skipping>>

(* markFailed; FailFast leaves at once, SkipDownstream starts a traversal. *)
MarkFailed(n) ==
    /\ wpc[n] = "fail"
    /\ failed' = TRUE
    /\ IF cfg.policy = "FailFast"
          THEN JobGoto(n, "leave") /\ UNCHANGED <<toVisit, visited>>
          ELSE /\ JobGoto(n, "skip")
               /\ toVisit' = [toVisit EXCEPT ![n] = Children(n)]
               /\ visited' = [visited EXCEPT ![n] = Children(n)]
    /\ UNCHANGED <<cfg, status, verdict, readyQueue, indegree, running, taskRun, late,
                   schedVars, result, idx, skipping>>

(* The traversal takes a node (any order: the FIFO is not kept)... *)
SkipNext(n) ==
    /\ wpc[n] = "skip"
    /\ \E c \in toVisit[n] :
          /\ toVisit' = [toVisit EXCEPT ![n] = @ \ {c}]
          /\ skipping' = [skipping EXCEPT ![n] = c]
          /\ status' = [status EXCEPT ![c] = "Skipped"]
    /\ JobGoto(n, "expand")
    /\ UNCHANGED <<cfg, verdict, ctxVars, schedVars, result, idx, visited>>

(* Mutant: only the direct downstream nodes are skipped. *)
SkipExpand_ChildrenOnly(n) ==
    /\ wpc[n] = "expand"
    /\ taskRun' = [taskRun EXCEPT ![skipping[n]] = "Skipped"]
    /\ JobGoto(n, "skip")
    /\ UNCHANGED <<cfg, status, verdict, readyQueue, indegree, running, failed, late,
                   schedVars, result, idx, toVisit, visited, skipping>>

(* Mutant: the row of a skipped node is not written. *)
SkipExpand_NoRow(n) ==
    /\ wpc[n] = "expand"
    /\ toVisit' = [toVisit EXCEPT ![n] = @ \cup (Children(skipping[n]) \ visited[n])]
    /\ visited' = [visited EXCEPT ![n] = @ \cup Children(skipping[n])]
    /\ JobGoto(n, "skip")
    /\ UNCHANGED <<cfg, status, verdict, readyQueue, indegree, running, taskRun, failed, late,
                   schedVars, result, idx, skipping>>

(* ...writes its row and adds the children it has not yet met. *)
SkipExpand(n) ==
    /\ wpc[n] = "expand"
    /\ taskRun' = [taskRun EXCEPT ![skipping[n]] = "Skipped"]
    /\ toVisit' = [toVisit EXCEPT ![n] = @ \cup (Children(skipping[n]) \ visited[n])]
    /\ visited' = [visited EXCEPT ![n] = @ \cup Children(skipping[n])]
    /\ JobGoto(n, "skip")
    /\ UNCHANGED <<cfg, status, verdict, readyQueue, indegree, running, failed, late,
                   schedVars, result, idx, skipping>>

SkipDone(n) ==
    /\ wpc[n] = "skip"
    /\ toVisit[n] = {}
    /\ JobGoto(n, "leave")
    /\ UNCHANGED <<cfg, status, verdict, ctxVars, schedVars, result, idx, toVisit, visited, skipping>>

DecrementRunning(n) ==
    /\ wpc[n] = "leave"
    /\ running' = running - 1
    /\ JobGoto(n, "notify")
    /\ UNCHANGED <<cfg, status, verdict, readyQueue, indegree, failed, taskRun, late,
                   schedVars, result, idx, toVisit, visited, skipping>>

(* _cv.notify_one(): lost unless the scheduler is already a waiter. *)
Notify(n) ==
    /\ wpc[n] = "notify"
    /\ SchedGoto(IF mpc = "waiting" THEN "waitQueue" ELSE mpc)
    /\ JobGoto(n, "done")
    /\ UNCHANGED <<cfg, status, verdict, ctxVars, result, idx, toVisit, visited, skipping>>

Job(n) ==
    \/ RunNode(n) \/ SetFinalStatus(n) \/ ReadChild(n) \/ DecrementIndegree(n) \/ PushReady(n)
    \/ MarkFailed(n) \/ SkipNext(n) \/ SkipExpand(n) \/ SkipDone(n)
    \/ DecrementRunning(n) \/ Notify(n)

-----------------------------------------------------------------------------
(* The run is over: execute() has returned and no job is left. *)
Over == /\ mpc = "returned"
        /\ \A n \in Node : wpc[n] \in {"idle", "done"}
        /\ UNCHANGED vars

Next == Scheduler \/ SpuriousWake \/ (\E n \in Node : Job(n)) \/ Over

Spec == Init /\ [][Next]_vars

(***************************************************************************)
(* The scheduler thread and every pool thread that has taken a job keep    *)
(* running; nothing promises a spurious wake-up.                           *)
(***************************************************************************)
Fairness == WF_vars(Scheduler) /\ \A n \in Node : WF_vars(Job(n))
FairSpec == Spec /\ Fairness
-----------------------------------------------------------------------------
(***************************************************************************)
(* Properties.                                                             *)
(***************************************************************************)
SchedPcs == {"init", "fill", "pop", "filter", "failfast", "recheck", "start", "post",
             "inline", "check", "waitQueue", "waitRunning", "waitFailed", "block",
             "waiting", "verdict", "returned"}
JobPcs   == {"idle", "run", "status", "release", "decrement", "push", "fail", "skip",
             "expand", "leave", "notify", "done"}

(* The type invariant of the executor and of the abstract run; that an     *)
(* indegree is a natural number is the assertion "indegree underflow" that *)
(* DagNode::decrementIndegree leaves as a comment.                         *)
TypeOK ==
    /\ cfg \in Configs
    /\ status \in [Node -> TaskStatus]
    /\ verdict \in Verdict
    /\ readyQueue \in Seq(Node)
    /\ indegree \in [Node -> Nat]
    /\ running \in Int
    /\ failed \in BOOLEAN
    /\ taskRun \in [Node -> TaskStatus]
    /\ late \subseteq Node
    /\ mpc \in SchedPcs
    /\ cur \in Node \cup {NoNode}
    /\ wpc \in [Node -> JobPcs]
    /\ result \in [Node -> Outcomes \cup {"Pending"}]
    /\ idx \in [Node -> Nat]
    /\ toVisit \in [Node -> SUBSET Node]
    /\ visited \in [Node -> SUBSET Node]
    /\ skipping \in [Node -> Node \cup {NoNode}]

(* A node runs, or has run, only after every node it depends on ended with *)
(* Success: the indegree counters of onNodeFinished, decremented by jobs   *)
(* in parallel and left alone for skipped children, never reach 0 early,   *)
(* also when a dependency is listed twice.                                 *)
DependenciesFirst ==
    \A n \in NodesIn(TaskStatus \ {"Pending", "Skipped"}) : Deps(n) \subseteq NodesIn({"Success"})

(* The status of a node that has ended, or was skipped, is final: the skip *)
(* traversal of one job never overwrites the outcome of another node, and  *)
(* the scheduler never starts a node that was skipped after its two        *)
(* unlocked status checks.  In particular a node is started at most once.  *)
TerminalStable ==
    [][\A n \in Node : status[n] \in Terminal => status'[n] = status[n]]_vars

(* At most max_parallel nodes are running (config.max_parallel, API.md),   *)
(* although the counter is raised after the status and lowered after the   *)
(* traversals that follow it.                                              *)
SlotsRespected == Cardinality(NodesIn({"Running"})) <= MaxParallel

(* When execute() returns nothing runs, its result is Failed exactly when  *)
(* a node ended Failed, Timeout or Canceled, a Success means that every    *)
(* node succeeded, and under SkipDownstream every node has been settled -  *)
(* except, in both, the node with an empty id, which execute() takes for   *)
(* the end of its queue, and the nodes that wait for it: nothing else is   *)
(* left pending.                                                           *)
VerdictSound ==
    mpc = "returned" =>
        /\ NodesIn({"Running"}) = {}
        /\ verdict = "Failed" <=> NodesIn(FailureLike) # {}
        /\ verdict = "Success" => NodesIn({"Success", "Pending"}) = Node
        /\ verdict = "Success" \/ cfg.policy = "SkipDownstream" =>
              OnlyStranded /\ (cfg.nameless = {} => NodesIn({"Pending"}) = {})

(* When execute() returns, the task_run rows written by several threads    *)
(* (markRunning, markFinished, markSkipped) agree with the node statuses.  *)
RowsAgree == mpc = "returned" => taskRun = status

(* FailFast: after the run is marked failed at most one more node starts,  *)
(* the one the scheduler was submitting when the failure was recorded.     *)
AtMostOneLateStart == cfg.policy = "FailFast" => Cardinality(late) <= 1

(* The executor implements the abstract run. *)
ImplementsDagRun == RunSpec

(* The run as its task_run rows show it. *)
Rows == INSTANCE DagRun WITH status <- taskRun

(* The task_run rows implement it too: whoever polls the database while the threads   *)
(* of a run write it sees a legal run, although every row is written       *)
(* before or after the status it records.                                  *)
RowsImplementDagRun == Rows!RunSpec

(* On a pool thread execute() returns.  On any other thread it returns, or *)
(* waits for ever on _cv with nothing running: the only thing that can go  *)
(* wrong is a missed notification.                                         *)
Progress ==
    \/ <>(mpc = "returned")
    \/ ~cfg.inline /\ <>[](mpc = "waiting" /\ \A n \in Node : wpc[n] \in {"idle", "done"})

(* dag_executor.h:15 "synchronous execution (the current thread blocks     *)
(* until the DAG has ended)", and onNodeFinished: "must wake it once, or   *)
(* it may be stuck on wait".  Violated: the notification can be lost.      *)
Termination == <>(mpc = "returned")
=============================================================================
