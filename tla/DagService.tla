----------------------------- MODULE DagService -----------------------------
(***************************************************************************)
(* DagService::runDag (server/src/dag/dag_service.cpp), the handlers that  *)
(* start runs (task_handler, template_handler, worker_handler, the cron    *)
(* dispatch), the strategies that start a run from a node of another one   *)
(* (dag_strategy, template_strategy, remote_strategy), and the proxy that  *)
(* finds such a nested run again.  Executions of several servers interleave*)
(* at every statement on the tables of RunStore.                           *)
(*                                                                         *)
(* Inside a run the nodes move as DagRun promises (DagExecutor implements  *)
(* it); a node that is not nested ends with any outcome or never           *)
(* (TaskRunner), and an executor outside the DAG pool may miss the last    *)
(* notification (DagExecutor, Progress).  A generated run id is the number *)
(* of the execution: milliseconds and six random characters are taken to   *)
(* be unique.                                                              *)
(***************************************************************************)
EXTENDS RunStore

CONSTANTS Body,         \* request bodies, rendered templates included
          Content,      \* Content[b]: what body b contains, see BodySpec
          NoBody,       \* a template that is missing or cannot be rendered,
                        \* or exec_params from which no DAG can be extracted
          Front,        \* the servers that clients talk to
          WorkersOf,    \* WorkersOf[s]: the workers server s may dispatch to
          GivenRunId,   \* the run ids that clients choose themselves
          MaxDepth,     \* ExecutionContext::MAX_NESTING_DEPTH
          MaxAttempts,  \* attempts of a remote dispatch
          MaxRequests,  \* bound: requests of clients and cron jobs
          MaxRestarts   \* bound: restarts of a server

ASSUME DepthAssumption  == MaxDepth \in Nat \ {0} /\ MaxAttempts \in Nat \ {0}
ASSUME IdAssumption     == GivenRunId \subseteq RunId
ASSUME ServerAssumption == Front \subseteq Server /\ \A s \in Server : WorkersOf[s] \subseteq Server
ASSUME SourceAssumption ==
    {"manual", "template", "cron", "worker", "execution", "task_template"} \subseteq Source

VARIABLES ex,        \* the executions started so far, in order
          requests,  \* number of requests received
          restarts   \* number of restarts

vars == <<storeVars, ex, requests, restarts>>

(***************************************************************************)
(* A body: the shape of its task list ("tasks", "task", a top-level "id",  *)
(* or "none"), its _nesting_depth (0 if absent; any int, negative too, but *)
(* adding 1 to the largest would be undefined), whether                    *)
(* DagConfig::from_json and DagBuilder accept it, and its tasks with their *)
(* dependencies.  A task is a "leaf", "dag", "template" or "remote"; sub   *)
(* is the body behind a nested one and rid its exec_params.run_id.         *)
(***************************************************************************)
IntMax   == 2147483647
Kind     == {"leaf", "dag", "template", "remote"}
TaskSpec == [id : TaskId \cup {NoId}, kind : Kind, sub : Body \cup {NoBody},
             rid : RunId \cup {NoId}, deps : SUBSET (TaskId \cup {NoId}), parses : BOOLEAN]
BodySpec == [form : {"tasks", "task", "id", "none"}, depth : {d \in Int : d < IntMax},
             config : BOOLEAN, valid : BOOLEAN, failFast : BOOLEAN, tasks : Seq(TaskSpec)]

ASSUME BodyAssumption == \A b \in Body : Content[b] \in BodySpec

Tasks(e)    == Content[ex[e].body].tasks
Named(b)    == {Content[b].tasks[i].id : i \in DOMAIN Content[b].tasks} \ {NoId}
Task(e, t)  == LET i == CHOOSE j \in DOMAIN Tasks(e) : Tasks(e)[j].id = t IN Tasks(e)[i]
TasksOf(e)  == Named(ex[e].body)
NodesIn(e, S) == {t \in TasksOf(e) : ex[e].st[t] \in S}
Returned == {"done", "thrown", "refused"}   \* runDag has returned or thrown
Ended == Returned \cup {"lost"}

Init == StoreInit /\ ex = <<>> /\ requests = 0 /\ restarts = 0

(* A given run id is used as it is, an empty one is replaced. *)
GivenOrNew(rid) == IF rid = NoId THEN Len(ex) + 1 ELSE rid

(* level counts the runs it is nested in on this server, entry is the      *)
(* depth of the outermost; thread says who executes it: a pool thread, one *)
(* of the HTTP server, or the loop of the cron scheduler.                  *)
Thread == {"pool", "http", "cron"}
Execution(at, rid, b, src, depth, entry, level, thread) ==
    [at |-> at, rid |-> GivenOrNew(rid), body |-> b, src |-> src, depth |-> depth,
     entry |-> entry, level |-> level, thread |-> thread, cron |-> thread = "cron",
     pc |-> "insert", k |-> 1, ok |-> FALSE,
     st    |-> [t \in TaskId |-> "Pending"],
     child |-> [t \in TaskId |-> 0],
     tries |-> [t \in TaskId |-> 0]]
-----------------------------------------------------------------------------
(***************************************************************************)
(* The entry points.  The async ones answer with the run id at once and    *)
(* leave the execution to a thread of the DAG pool, which may be any       *)
(* number of steps later.                                                  *)
(***************************************************************************)
HasId(x) == x.rid \in RunId   \* bound: generated ids

Launch(x) == /\ requests < MaxRequests
             /\ HasId(x)
             /\ requests' = requests + 1
             /\ ex' = Append(ex, x)
             /\ UNCHANGED <<storeVars, restarts>>

(* runDag reads the depth from the body, whoever wrote it there. *)
Entry(s, rid, b, src, thread) ==
    Execution(s, rid, b, src, Content[b].depth, Content[b].depth, 0, thread)

runDag(s, b)           == Launch(Entry(s, NoId, b, "manual", "http"))
runDagAsync(s, b, rid) == Launch(Entry(s, rid, b, "manual", "pool"))

(* What TemplateRenderer::render lets through: a list of tasks as it is, a *)
(* single task if it has an id and can be parsed.  The template handlers   *)
(* then ask for an id of every task; a top-level task passes.              *)
Renders(b) == LET t == Content[b].tasks IN
    \/ Content[b].form = "tasks"
    \/ Content[b].form \in {"task", "id"} /\ t[1].id # NoId /\ t[1].parses
HasIds(b)  == \A i \in DOMAIN Content[b].tasks : Content[b].tasks[i].id # NoId
templateRun(s, b, rid) ==
    Renders(b) /\ HasIds(b) /\ Launch(Entry(s, rid, b, "template", "http"))
templateRunAsync(s, b, rid) ==
    Renders(b) /\ HasIds(b) /\ Launch(Entry(s, rid, b, "template", "pool"))

(* A cron job persists the run as "cron" and then calls runDag, which      *)
(* persists it again as "manual".  A DAG job was parsed when it was made,  *)
(* and the body made of it has no depth.                                   *)
Parsed(b) == Content[b].form = "tasks" /\ Content[b].config
             /\ \A i \in DOMAIN Content[b].tasks : Content[b].tasks[i].parses
dispatch_dag_job(s, b)      == Parsed(b) /\ Launch(Execution(s, NoId, b, "manual", 0, 0, 0, "cron"))
dispatch_template_job(s, b) == Renders(b) /\ Launch(Entry(s, NoId, b, "manual", "cron"))

(* worker_execute: the depth of the caller is not part of the payload. *)
worker_execute(w, rid, b) == Entry(w, rid, b, "worker", "pool")
-----------------------------------------------------------------------------
(***************************************************************************)
(* runDag(json): persistRunAndTasks, the checks, then the executor.  pc    *)
(* "done" is a return, "thrown" an exception, "refused" a nested run that  *)
(* did not start.                                                          *)
(***************************************************************************)
At(e, l)   == e \in DOMAIN ex /\ ex[e].pc = l
Goto(e, l) == ex' = [ex EXCEPT ![e].pc = l]
End(e, ok) == ex' = [ex EXCEPT ![e].pc = "done", ![e].ok = ok]
Keep       == UNCHANGED <<requests, restarts>>

InsertRun(e) ==
    /\ At(e, "insert")
    /\ insertRun(ex[e].at, ex[e].rid, IF ex[e].cron THEN "cron" ELSE ex[e].src)
    /\ ex' = [ex EXCEPT ![e].pc = "upsert", ![e].k = 1]
    /\ Keep /\ UNCHANGED taskRun

UpsertTask(e) ==
    /\ At(e, "upsert")
    /\ ex[e].k <= Len(Tasks(e))
    /\ upsertFromTaskJson(ex[e].at, ex[e].rid, Tasks(e)[ex[e].k].id)
    /\ ex' = [ex EXCEPT ![e].k = @ + 1]
    /\ Keep /\ UNCHANGED dagRun

Persisted(e) ==
    /\ At(e, "upsert")
    /\ ex[e].k > Len(Tasks(e))
    /\ ex' = [ex EXCEPT ![e].pc = IF ex[e].cron THEN "insert" ELSE "check", ![e].cron = FALSE]
    /\ Keep /\ UNCHANGED storeVars

(* DagConfig::from_json throws for a value of the wrong type; without a    *)
(* task list the run is finished as failed.                                *)
CheckTasks(e) ==
    /\ At(e, "check")
    /\ IF ~Content[ex[e].body].config THEN Goto(e, "thrown") /\ UNCHANGED storeVars
       ELSE IF Content[ex[e].body].form \in {"id", "none"}
            THEN End(e, FALSE) /\ finishRun(ex[e].at, ex[e].rid) /\ UNCHANGED taskRun
            ELSE Goto(e, "parse") /\ UNCHANGED storeVars
    /\ Keep

ParseTasks(e) ==
    /\ At(e, "parse")
    /\ IF \E i \in DOMAIN Tasks(e) : ~Tasks(e)[i].parses
          THEN End(e, FALSE) /\ finishRun(ex[e].at, ex[e].rid) /\ UNCHANGED taskRun
          ELSE Goto(e, "validate") /\ UNCHANGED storeVars
    /\ Keep

Validate(e) ==
    /\ At(e, "validate")
    /\ IF Content[ex[e].body].valid THEN Goto(e, "run") ELSE End(e, FALSE)
    /\ Keep /\ UNCHANGED storeVars
-----------------------------------------------------------------------------
(***************************************************************************)
(* The nodes of a run.                                                     *)
(***************************************************************************)
StartNode(e, t) ==
    /\ At(e, "run")
    /\ ex[e].st[t] = "Pending"
    /\ Task(e, t).deps \subseteq NodesIn(e, {"Success"})
    /\ markRunning(ex[e].at, ex[e].rid, t)
    /\ ex' = [ex EXCEPT ![e].st[t] = "Running"]
    /\ Keep /\ UNCHANGED dagRun

FinishNode(e, t, st, next, worker, x) ==
    /\ markFinished(ex[e].at, ex[e].rid, t, st, next, worker)
    /\ ex' = [x EXCEPT ![e].st[t] = st]
    /\ Keep /\ UNCHANGED dagRun

FinishLeaf(e, t, st) ==
    /\ At(e, "run") /\ ex[e].st[t] = "Running"
    /\ Task(e, t).kind = "leaf"
    /\ FinishNode(e, t, st, NoId, NoId, ex)

(* The task without a name is never started (DagExecutor, PopReady); it is *)
(* skipped like any other, and the tasks that depend on it with it.        *)
NamelessBelow(e) == \E i \in DOMAIN Tasks(e) :
    Tasks(e)[i].id = NoId /\ Tasks(e)[i].deps \cap NodesIn(e, {"Failed", "Skipped"}) # {}
Below(e, t) == \/ Task(e, t).deps \cap NodesIn(e, {"Failed", "Skipped"}) # {}
               \/ NoId \in Task(e, t).deps /\ NamelessBelow(e)
Stranded(e, t) == Task(e, t).deps \cap (NodesIn(e, {"Pending"}) \cup {NoId}) # {} /\ ~Below(e, t)

SkipNode(e, t) ==
    /\ At(e, "run")
    /\ ~Content[ex[e].body].failFast
    /\ ex[e].st[t] = "Pending"
    /\ Below(e, t)
    /\ markSkipped(ex[e].at, ex[e].rid, t)
    /\ ex' = [ex EXCEPT ![e].st[t] = "Skipped"]
    /\ Keep /\ UNCHANGED dagRun

(* The dag_run row is not touched when the executor returns. *)
ReturnRun(e) ==
    /\ At(e, "run")
    /\ NodesIn(e, {"Running"}) = {}
    /\ \A t \in NodesIn(e, {"Pending"}) :
          Stranded(e, t) \/ (Content[ex[e].body].failFast /\ NodesIn(e, {"Failed"}) # {})
    /\ End(e, NodesIn(e, {"Failed"}) = {})
    /\ Keep /\ UNCHANGED storeVars

(* Outside the pool execute() may miss the notification of the last node   *)
(* that ran and wait for ever.  A spurious wake-up makes it go on as if it *)
(* had not missed it, so no step is needed for that.                       *)
MissWakeup(e) ==
    /\ At(e, "run")
    /\ ex[e].thread # "pool"
    /\ NodesIn(e, {"Running"}) = {}
    /\ NodesIn(e, {"Success", "Failed"}) # {}
    /\ Goto(e, "waiting")
    /\ Keep /\ UNCHANGED storeVars

(***************************************************************************)
(* DagExecutionStrategy and TemplateExecutionStrategy: the nested run is   *)
(* executed in place.  The depth of a node is one more than that of its    *)
(* run, and reaches the nested run in its body.                            *)
(***************************************************************************)
Nested(e, t, k) == At(e, "run") /\ ex[e].st[t] = "Running" /\ Task(e, t).kind = k /\ ex[e].child[t] = 0
(* Mutant: the nodes of a run have the depth of the run. *)
NodeDepth_Same(e) == ex[e].depth
NodeDepth(e) == ex[e].depth + 1

NestedId(e, t) == Task(e, t).rid

NestRun(e, t, b, src, pc) ==
    LET x == Execution(ex[e].at, NestedId(e, t), b, src, NodeDepth(e), ex[e].entry,
                       ex[e].level + 1, "pool")
    IN  /\ HasId(x)
        /\ ex' = [Append(ex, [x EXCEPT !.pc = pc]) EXCEPT ![e].child[t] = Len(ex) + 1]
        /\ Keep /\ UNCHANGED storeVars

(* extractDagBody: exec_params.tasks, dag_json or the command. *)
extractDagBody(e, t) == Task(e, t).sub

DagRefused(e, t) ==
    /\ Nested(e, t, "dag")
    /\ NodeDepth(e) >= MaxDepth
    /\ FinishNode(e, t, "Failed", NoId, NoId, ex)

(* Without a body the nested run ends before anything is written. *)
DagExecute(e, t) ==
    /\ Nested(e, t, "dag")
    /\ NodeDepth(e) < MaxDepth
    /\ IF extractDagBody(e, t) = NoBody THEN NestRun(e, t, ex[e].body, "execution", "refused")
                                        ELSE NestRun(e, t, extractDagBody(e, t), "execution", "insert")

Rendered(n) == IF n.sub = NoBody THEN FALSE ELSE Renders(n.sub)

TemplateRefused(e, t) ==
    /\ Nested(e, t, "template")
    /\ NodeDepth(e) >= MaxDepth \/ ~Rendered(Task(e, t))
    /\ FinishNode(e, t, "Failed", NoId, NoId, ex)

TemplateExecute(e, t) ==
    /\ Nested(e, t, "template")
    /\ NodeDepth(e) < MaxDepth /\ Rendered(Task(e, t))
    /\ NestRun(e, t, Task(e, t).sub, "task_template", "insert")

(* The node takes the verdict and the id of the nested run; an exception   *)
(* fails the node without an id.                                           *)
NestReady(e, t) == /\ At(e, "run") /\ ex[e].st[t] = "Running"
                   /\ Task(e, t).kind \in {"dag", "template"}
                   /\ ex[e].child[t] # 0

(* Mutant: only a nested run that succeeded ends its node. *)
NestEnd_OnlySuccess(e, t) ==
    /\ NestReady(e, t)
    /\ LET c == ex[ex[e].child[t]]
       IN  c.pc = "done" /\ c.ok /\ FinishNode(e, t, "Success", c.rid, NoId, ex)

NestEnd(e, t) ==
    /\ NestReady(e, t)
    /\ LET c == ex[ex[e].child[t]]
       IN  /\ c.pc \in Returned
           /\ FinishNode(e, t, IF c.ok THEN "Success" ELSE "Failed",
                         IF c.pc = "thrown" THEN NoId ELSE c.rid, NoId, ex)

(***************************************************************************)
(* RemoteExecutionStrategy: the payload carries its own run id or that of  *)
(* the run of the node.  The worker may take the run although its answer   *)
(* ("lost") never arrives, and the dispatch is then repeated.              *)
(***************************************************************************)
PayloadId(e, t) == IF Task(e, t).rid = NoId THEN ex[e].rid ELSE Task(e, t).rid
Remote(e, t)    == At(e, "run") /\ ex[e].st[t] = "Running" /\ Task(e, t).kind = "remote"

(* No DAG to send, no worker, a cancellation, or an answer that is final. *)
RemoteRefused(e, t) ==
    /\ Remote(e, t)
    /\ FinishNode(e, t, "Failed", NoId, NoId, ex)

(* Mutant: the run id of the answer is not kept. *)
RemoteAck_NoId(e, t, w) ==
    /\ Remote(e, t) /\ Task(e, t).sub # NoBody
    /\ FinishNode(e, t, "Success", NoId, w,
          [Append(ex, worker_execute(w, PayloadId(e, t), Task(e, t).sub)) EXCEPT ![e].child[t] = Len(ex) + 1])

RemoteAck(e, t, w) ==
    /\ Remote(e, t) /\ Task(e, t).sub # NoBody
    /\ FinishNode(e, t, "Success", PayloadId(e, t), w,
          [Append(ex, worker_execute(w, PayloadId(e, t), Task(e, t).sub)) EXCEPT ![e].child[t] = Len(ex) + 1])

RemoteSilent(e, t, w, taken) ==
    /\ Remote(e, t) /\ Task(e, t).sub # NoBody
    /\ LET x == [(IF taken THEN Append(ex, worker_execute(w, PayloadId(e, t), Task(e, t).sub)) ELSE ex)
                    EXCEPT ![e].tries[t] = @ + 1]
       IN  IF ex[e].tries[t] + 1 = MaxAttempts
              THEN FinishNode(e, t, "Failed", NoId, w, x)
              ELSE ex' = x /\ Keep /\ UNCHANGED storeVars
-----------------------------------------------------------------------------
(* A crash and restart of a server: its executions are gone, its tables    *)
(* are as they were; nothing looks for interrupted runs.                   *)
Restart(s) ==
    /\ restarts < MaxRestarts
    /\ restarts' = restarts + 1
    /\ ex' = [e \in DOMAIN ex |->
                IF ex[e].at = s /\ ex[e].pc \notin Ended THEN [ex[e] EXCEPT !.pc = "lost"] ELSE ex[e]]
    /\ UNCHANGED <<storeVars, requests>>

RunStep(e) ==
    \/ InsertRun(e) \/ UpsertTask(e) \/ Persisted(e) \/ CheckTasks(e) \/ ParseTasks(e) \/ Validate(e)
    \/ ReturnRun(e)
    \/ \E t \in TasksOf(e) :
          \/ StartNode(e, t) \/ SkipNode(e, t) \/ DagRefused(e, t) \/ DagExecute(e, t)
          \/ TemplateRefused(e, t) \/ TemplateExecute(e, t) \/ NestEnd(e, t)
          \/ RemoteRefused(e, t)
          \/ \E w \in WorkersOf[ex[e].at] :
                RemoteAck(e, t, w) \/ (\E taken \in BOOLEAN : RemoteSilent(e, t, w, taken))

LeafStep(e) == \E t \in TasksOf(e), st \in {"Success", "Failed"} : FinishLeaf(e, t, st)

Request(s, b) ==
    \/ runDag(s, b) \/ dispatch_dag_job(s, b) \/ dispatch_template_job(s, b)
    \/ \E rid \in GivenRunId \cup {NoId} :
          runDagAsync(s, b, rid) \/ templateRun(s, b, rid) \/ templateRunAsync(s, b, rid)

Next == \/ \E s \in Front, b \in Body : Request(s, b)
        \/ \E e \in DOMAIN ex : RunStep(e) \/ LeafStep(e) \/ MissWakeup(e)
        \/ \E s \in Server : Restart(s)

(* While some run can take a step of its own, one does: the pool serves    *)
(* every posted job (DagThreadPool, EveryJobEnds).  Nothing is assumed of  *)
(* the tasks a leaf runs: they may never end.                              *)
Fairness == WF_vars(\E e \in DOMAIN ex : RunStep(e))
Spec == Init /\ [][Next]_vars
FairSpec == Spec /\ Fairness
-----------------------------------------------------------------------------
(***************************************************************************)
(* resolve_proxy_target: one hop goes from a node to the run behind it, on *)
(* this server or, if it is registered and alive, on the worker, to which  *)
(* the rest of the path is forwarded.                                      *)
(***************************************************************************)
Nowhere == <<NoId, NoId>>
find_worker_by_id(w, alive) == w \in alive
proxy_forward(w, r) == <<w, r>>

(* Mutant: a hop stays in the run of the node. *)
resolve_proxy_target_SameRun(p, t, alive) ==
    LET row == IF p = Nowhere THEN NoRow ELSE getTaskRun(p[1], p[2], t)
    IN  IF row = NoRow THEN Nowhere
        ELSE IF row.next = NoId THEN Nowhere
        ELSE IF row.worker = NoId THEN p
        ELSE IF find_worker_by_id(row.worker, alive) THEN proxy_forward(row.worker, p[2]) ELSE Nowhere

resolve_proxy_target(p, t, alive) ==
    LET row == IF p = Nowhere THEN NoRow ELSE getTaskRun(p[1], p[2], t)
    IN  IF row = NoRow THEN Nowhere
        ELSE IF row.next = NoId THEN Nowhere
        ELSE IF row.worker = NoId THEN <<p[1], row.next>>
        ELSE IF find_worker_by_id(row.worker, alive) THEN proxy_forward(row.worker, row.next) ELSE Nowhere

(* The server and the run that the events are read from. *)
workers_proxy_task_events(s, r, path, alive) ==
    LET hop[i \in 0..Len(path)] ==
          IF i = 0 THEN <<s, r>> ELSE resolve_proxy_target(hop[i - 1], path[i], alive)
    IN  hop[Len(path)]

(* Logs are found the same way; without a path a worker may be named, and  *)
(* is then asked without a run id.                                         *)
workers_proxy_logs(s, r, path, w, alive) ==
    IF w # NoId /\ path = <<>>
       THEN IF find_worker_by_id(w, alive) THEN proxy_forward(w, NoId) ELSE Nowhere
       ELSE workers_proxy_task_events(s, r, path, alive)

workers_proxy_task_runs(s, r, path, alive) ==
    LET p == workers_proxy_task_events(s, r, path, alive)
    IN  IF p = Nowhere THEN NoRow ELSE queryTaskRuns(p[1], p[2])
-----------------------------------------------------------------------------
(***************************************************************************)
(* Properties.  Two executions share an id when a client sends the same    *)
(* run_id twice, when two remote nodes of one run go to one worker, when a *)
(* dispatch is repeated after a lost answer, or through exec_params.run_id.*)
(***************************************************************************)
Shared(e) == \E f \in DOMAIN ex : f # e /\ ex[f].at = ex[e].at /\ ex[f].rid = ex[e].rid

(* Only a request that was refused before any of its tasks started is      *)
(* recorded as failed; every other run stays recorded as running.          *)
FailedMeansRefused == \A e \in DOMAIN ex : (~Shared(e) /\ dagRun[ex[e].at][ex[e].rid] # NoRow) =>
    (dagRun[ex[e].at][ex[e].rid].status = "Failed" =>
        ex[e].pc \in Ended /\ NodesIn(e, {"Pending"}) = TasksOf(e))

(* What the tables say of a run that has ended is what happened in it,     *)
(* however executions interleaved, unless another one used the same id,    *)
(* and the run itself is recorded as failed only when it was refused.       *)
RowsMatch == FailedMeansRefused /\ \A e \in DOMAIN ex : (ex[e].pc \in {"done", "thrown"} /\ ~Shared(e)) =>
    /\ \E d \in queryDagRuns(ex[e].at, ex[e].rid, ex[e].src) : d.run = ex[e].rid
    /\ queryTaskRuns(ex[e].at, ex[e].rid) = [t \in TasksOf(e) |-> ex[e].st[t]]

Shows(e, path, c) ==
    /\ \A alive \in SUBSET Server :
         workers_proxy_logs(ex[e].at, ex[e].rid, path, NoId, alive) \in {Nowhere, <<ex[c].at, ex[c].rid>>}
    /\ (ex[c].pc = "done" /\ ~Shared(c)) =>
         workers_proxy_task_runs(ex[e].at, ex[e].rid, path, Server) = [t \in TasksOf(c) |-> ex[c].st[t]]

(* Through the row of a nested node the proxy finds the nested run, over   *)
(* one or two hops and across servers, and never another run: with workers *)
(* that are not alive it finds nothing.  It shows what happened in it      *)
(* unless that run shares its id.                                          *)
ProxyFinds == \A e \in DOMAIN ex : (ex[e].pc = "done" /\ ~Shared(e)) =>
    \A t \in TasksOf(e) : LET c == ex[e].child[t] IN
        c # 0 =>
            /\ Shows(e, <<t>>, c)
            /\ \A u \in TasksOf(c) : LET d == ex[c].child[u] IN
                 (ex[c].pc = "done" /\ ~Shared(c) /\ d # 0) => Shows(e, <<t, u>>, d)

(* Runs nest on one server only as deep as the depth of the outermost one  *)
(* leaves room for below MaxDepth, whatever templates refer to themselves: *)
(* a client that sends a negative _nesting_depth gets so many levels more, *)
(* and nothing else takes a run further.                                   *)
NestingBounded == \A e \in DOMAIN ex : ex[e].level > 0 => ex[e].entry + ex[e].level < MaxDepth

(* The last notification was missed, or a node is running: a leaf, or a    *)
(* nested run that has not ended itself.                                   *)
Held(e) == \/ At(e, "waiting")
           \/ /\ At(e, "run")
              /\ \E t \in NodesIn(e, {"Running"}) :
                    \/ Task(e, t).kind = "leaf"
                    \/ ex[e].child[t] # 0 /\ ex[ex[e].child[t]].pc \notin Ended

(* Every run that was accepted ends or is lost in a restart, those that    *)
(* wait for nested runs included, unless a task below it never ends or,    *)
(* outside the pool, the executor has missed its last notification.        *)
EveryRunEnds == []<>(\A e \in DOMAIN ex : ex[e].pc \in Ended \/ Held(e))
=============================================================================
