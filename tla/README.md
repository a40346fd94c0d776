# TaskHub in TLA+

TaskHub runs tasks (shell commands, scripts, HTTP calls, in-process functions,
nested DAGs, sub-DAGs on remote workers) alone, on a cron schedule, or as the
nodes of a dependency graph.  A server (`server/src`, C++) plays the master and
the worker; a Qt client (`client/src`) draws and starts graphs.  This directory
specifies the server and the editor of the client, model-checks them with TLC
and proves the main properties of the server's core with TLAPS.  Paths below are relative to `server/src` unless
they start with `client/`.

## 1. Inventory

| Component | State | Operations | Interacts with | What is hard |
|---|---|---|---|---|
| DAG executor `dag/dag_executor.cpp` | node statuses, indegrees, ready queue, running counter, failed flag | `execute`, `submitNodeAsync`, `onNodeFinished` | pool (jobs), task runner (runs a node), `TaskRunRepo` (rows) | atomics and unlocked status checks, a condition variable notified without its mutex, life time of the context |
| DAG pool `dag/dag_thread_pool.cpp` | four priority queues, worker threads, stop flag, busy counter | `start`, `post`, `maybeSpawnWorker`, `take_job`, `worker_loop`, `stop` | executor, DAG service, cron | stop flag raised without the mutex, thread vector read without it |
| DAG builder `dag/dag_builder.cpp` | task list, node map, indegrees | `addTask`, `validate`, `build` | executor (its input) | repeated ids and dependencies, hash-map order |
| Task runner `runner/task_runner.cpp` | attempt, deadline, cancel flag | `run`, `runWithRetry`, `runOneAttempt` | strategies | cancel and deadline against the result of an attempt |
| Shell strategy `execution/shell_strategy.cpp` | child, pipes, buffers | `execute` | operating system | processes that survive SIGTERM or inherit the pipes, output without end |
| Local strategy `execution/local_strategy.cpp` | watchdog thread, three flags | `execute` | registered functions | watchdog against the end of the function |
| Worker registry `worker/` | entries with heartbeat time and cooldown, round-robin cursor | register, heartbeat, pick, mark, prune | workers (HTTP), remote strategy | lost responses, crashes, pruning, stale entries |
| Remote strategy `execution/remote_strategy.cpp` | attempt, picked worker | `execute`, `dispatch_once` | registry, worker's `/api/worker/execute` | lost responses, retries |
| Cron scheduler `scheduler/` | job list, stop flag | `addJob`, `removeJob`, `loop`, `stop`, `dispatch_job` | DAG service, task runner | indices kept over an unlock, timed waits, late wake-ups |
| DAG service `dag/dag_service.cpp`, repositories `db/*_repo.cpp` | `dag_run` and `task_run` rows | `runDag`, `runDagAsync`, insert, mark, query | builder, executor, pool, handlers | rows written by several executions, ids that are shared, nesting whose depth is in the body |
| DAG and template strategies `execution/` | nesting depth | `execute` | DAG service | a run inside a node of a run, templates that refer to themselves |
| Proxy `handlers/worker_handler.cpp` | none of its own | resolve a path of nested nodes, forward | rows, registry, workers | rows of a run on another server |
| Legacy queue `core/` | `TaskManager` list, `BlockingQueue`, worker threads | create, cancel, run with retry, reload | database, handlers | Task objects shared without a lock, restart |
| Database `db/` | schema version, tables, transaction | open, migrate | all repositories | a failure or a crash between two statements |
| Task logs `log/` | numbered lines per task and run | emit, page, prune | every strategy, WebSocket | numbering while lines are dropped |
| Log files `log/log_rotation.cpp` | current and rotated files | consume, rotate, prune | logger | renames and removals that fail |
| WebSocket `ws/` | sessions, subscriptions, write queues, proxy clients | accept, subscribe, broadcast, send, proxy, close | logs, events, workers, tokens | threads that push while a session leaves, a client that does not read, closes and connects that block the only thread |
| Authentication `auth/` | tokens with expiry | login, validate, logout | handlers, sessions | - |
| Templates `template/` | a table and a map | create, get, list, remove, render | DAG service | table and map changed one after the other |
| Router, system handler, configuration | none of their own | - | all | - |
| Client task stack `client/src/tasks` | stack of interaction tasks with levels | push, dispatch, remove | canvas, commands | a task that is removed in the middle of its work |
| Client commands `client/src/commands`, `Item` | undo list, items, lines of a node | do, undo, redo, destroy | scene | several commands refer to one item |
| Client inspector, import, export `client/src/view` | forms, files | save, run, import, export | commands, server | edits that bypass the commands, old values read under another key |
| Client network, models, drawing | Qt objects | - | server | - |

How they fit together: a request or a cron job reaches `DagService`, which
builds a `DagGraph` (builder), wraps it into a context and calls
`DagExecutor::execute` on the caller's thread or, for `runDagAsync`, on a pool
thread.  The executor posts one pool job per ready node; a job calls
`TaskRunner::run`, which chooses a strategy; the remote strategy picks a worker
from the registry and posts the sub-DAG to it; the worker is the same program.

What makes each part correct, in one line:

* executor: dependencies first, each node at most once, the limit on parallel
  nodes, a verdict and rows that agree with what happened, and an end;
* pool: no job lost or duplicated, nothing runs after `stop()`, `stop()` ends;
* builder: exactly the acyclic task lists are accepted, reported cycles exist;
* runner and strategies: a verdict that tells failure, timeout and cancellation
  apart, no command left behind, an end when there is a deadline;
* registry and dispatch: no dead worker is picked, retries go elsewhere,
  Success means that somebody took the DAG, a worker that is up is found again;
* cron: a job runs when it is due, once, and not earlier;
* service: the rows of a run say what happened in it, the proxy shows the nested
  run and no other, nesting ends;
* legacy queue: a row says what its task became, also after a cancellation or a
  restart; every queued task ends;
* migrations: the version never runs ahead of the tables;
* logs and WebSocket: a reader misses nothing that is still there, one thread's
  lines come in order, sessions leave, files keep the newest lines;
* templates: an answer was true at some moment of the request; rendering
  substitutes once and does not refuse what the schema allows;
* editor: undo leads back to what was shown, what is exported is what is shown,
  no deleted item is used.

The hazards, each at its line, are in `PROJECT.json`.

## 2. Modules

| Module | Models | How |
|---|---|---|
| `DagRun` | what a run of a DAG promises | abstract specification, implemented by the executor's statuses and, under `status <- taskRun`, by the rows in the database: start a node whose dependencies succeeded, finish it, skip a node below an unsuccessful one, close; a node without a name is never started |
| `DagExecutor` | `execute`, `submitNodeAsync`, `onNodeFinished` | one action per access to shared state; `mpc` is the scheduler's place, `wpc[n]` that of the job of node n; `inline` is execution on a pool thread |
| `DagExecutorInv` | - | the inductive invariant of the executor in named parts |
| `DagThreadPool` | the pool | sections under `_mtx` are actions, except that a worker keeps the mutex between its predicate and the wait; one caller of `post` per job, one of `stop` |
| `CronScheduler` | loop, handlers, `stop`, clock | sections under `_mutex`; time in minutes; a history of triggered minutes; `batch` is the set of indices that are still to be dispatched, walked upwards; nothing moves once the loop thread has ended the process |
| `DagBuilder` | `addTask`, `validate`, `build` | the task list is chosen initially; then the dependency check, Kahn's algorithm one pop per step, and the depth-first search for the cycle one edge per step, in any order since the code iterates hash maps |
| `ExecutionContext` | the part of `ExecutionContext` the strategies look at | cancel flag, deadline, result |
| `ShellStrategy` | `fork`, reading loop, signals, `waitpid`, verdict | a group of a leader and a helper that may survive SIGTERM and may hold the pipes; a child of another task may hold them too; a drain goes on while there is output |
| `LocalStrategy` | `execute` and its watchdog thread | both threads step by step |
| `TaskRunner` | `run` with retries | composes the three modules above |
| `WorkerRegistry` | registry, selectors, sweeper, heartbeat clients | ages instead of time stamps; crashes, restarts, lost responses |
| `RemoteDispatch` | `execute`, `dispatch_once` | composes the registry with dispatches that may be aborted at any time |
| `RunStore` | `DagRunRepo`, `TaskRunRepo` on every server | one operator per statement |
| `DagService` | `runDag`, the handlers and strategies that start runs, the proxy | executions of two servers interleave at every statement; inside a run nodes move as `DagRun` promises, leaves may never end, and outside the pool the last notification may be missed |
| `Migrator` | `Db::open`, `DbMigrator`, six migration files | statement by statement, with the connection's view and the disk apart |
| `LegacyTasks` | `TaskManager`, `BlockingQueue`, `WorkerPool`, their handlers | on the database of `Migrator`, over crashes; fields of a shared Task are read one after the other |
| `TaskLogBuffer`, `LogFile`, `WsSession` | the three ends of a log line | operators and actions of each; `WsSession` has the io thread, which waits in a close, a connect or a join, the hub and the proxy threads, and the tokens; `LogFile` names a rotated file by the number of lines before its end |
| `LogStream` | `LogManager::emit`, `WsLogStreamer`, `LogHandler` | composes the three; a thread that emits is between two locks at every step |
| `TemplateTypes` | the schema of a template | JSON values as records |
| `TemplateStore` | both template stores with their handlers | a request is between its statement and its access to the map; the renderer is a constant operator |
| `TemplateRenderer` | validator and renderer | recursion over JSON values, used by TLC only |
| `Templates` | `POST /template/render` | the store with the renderer; states what a rendering promises |
| `TaskStack` | `TaskManager` of the client, `MainTask` | operators on a stack of task kinds |
| `Commands` | scene, items, commands, `UndoStack` over Qt's `QUndoStack` | operators on a record, deleted items included |
| `Editor` | the tasks, the toolbar, the inspector, import and export | one action per event: everything is in the GUI thread |
| `MC...` | instances for TLC | graphs, task lists, priorities, retry counts, queues |
| `DagProofs`, `TaskAndTemplateProofs` | - | theorems about builder and executor and what the one hands to the other; about template store and task runner |
| other `...Proofs` | - | theorems about the module they are named after |

`PROJECT.json` maps every definition to the lines it translates.  Definitions
named `X_Y` above a definition `X`, commented as mutants, are the ways in which
each property was shown to be sensitive to the code: with `X_Y` in the place of
`X` TLC reports the property as violated.  No specification uses them.

Abstractions common to all modules: names, commands, payloads, log lines,
events and durations are left out; a task's result is its `TaskStatus`.  A
`std::mutex` section is one step where everything it reads or writes is
protected by that mutex, and is broken up where another thread gets at the same
data without the lock.  Condition variables have no memory and may wake
spuriously.

## 3. Runs

| Run | Instance | What it shows |
|---|---|---|
| `executor` | all acyclic graphs on three nodes up to renaming (a doubled dependency too), all named or with one task without a name, both policies, `max_parallel` 2 and 0, pool and inline, three outcomes, fair threads | `VerdictSound`, `RowsAgree`, `AtMostOneLateStart`; `ImplementsDagRun` and `RowsImplementDagRun`: the statuses, and what a poller reads from the rows, are each a behaviour of `DagRun`; `Progress`: inline execution returns, otherwise `execute` returns or is left waiting with nothing running |
| `executor_lost_wakeup` | pool execution | violation, see section 4 |
| `pool` | three jobs on two priorities, one to four workers, fair threads | `PoolSound`: counters right, jobs accounted for, nothing left after `stop`; `NoSpawnWhileJoining`; `EveryJobEnds`; `StopReturns` |
| `cron` | two jobs, a frequent and a rare expression, clock 0..3, window 5 | `TriggersRight`: jobs fire when due and once per minute except when a removal falls into a batch; `CronSound`: the two ways in which the loop thread dies; `CronLive`: due jobs are triggered, a timed wait ends on `stop` |
| `builder` | all lists of three distinct tasks with up to two dependencies each, repeated ones too; lists in which an id occurs twice; unknown and empty names | exactly the acyclic lists with known dependencies are accepted; reported cycles are cycles |
| `task_runner` | shell, local and unknown types, retry counts -1 to 2, with and without flag and deadline | `RunnerSound`: attempts, verdicts and watchdog, no timeout that was noticed taken for another outcome; `EndsUnlessHeld`: an end unless some process holds the pipes for ever or writes for ever |
| `remote_dispatch` | two workers (one with the default queue only), one dispatch with one retry, alive for 2, pruned after 2, cooldown 1 | `DispatchSound`: calls made, acknowledged and reported agree, one call at most after a cancellation; `CrashedNotPicked`, `RetryElsewhere`, `DispatchEnds`, `ComesBack` |
| `dag_service` | a master and a worker, one request for each of fifteen bodies, one restart, one repeated dispatch | `RowsMatch`: rows of an ended run that shares its id with nobody are what happened, and Failed means refused; `ProxyFinds`: over one and two hops the proxy finds the nested run or nothing, and shows its rows unless that run shares its id; `NestingBounded`, relative to the depth the outermost run came with; `EveryRunEnds`, unless a task below never ends or the last notification was missed |
| `legacy_tasks` | two tasks, one with a retry, one worker thread, one failing statement, two crashes, one cancellation | `MigrationSafe`; `RowsFaithful`: rows say what tasks became and ids are given out once; `AtMostOneLateAttempt`; `EveryTaskEnds`, unless a worker is held by a command for ever |
| `log_stream` | two emitting threads, one session, one token; six profiles of what clients do | `PagesComplete`, `StreamInOrder`, `AtMostOneLatePush`; `FileKeepsNewest`, but for files whose removal failed; `SessionsLeave`, unless the thread of the sessions is held |
| `templates` | two clients with five requests on one id, a restart; failing SELECTs; three templates against five inputs | `AnswersCurrent`, `RenderSound` |
| `editor` | two nodes, two connections; eight profiles of edits, undo lists of three to seven commands | `UndoExact`, `ExportedIsShown`, `ItemsSafe` |

### Bounds, and why they are enough

* Three nodes hold the patterns the executor treats differently: chain, fork,
  join, doubled edge, independent nodes, and two jobs that race for one child
  while a third fails above it.  `max_parallel` 2 is below the number of nodes;
  0 is a value `execute` replaces by 1.  The task without a name is the first or
  the second node of each graph: alone, above others, or below one that may
  fail.  Tasks with the same id are one node, so there is at most one.
  What is proved (section 5) has no such
  bound.
* A pool of one initial worker grows to four: enough to pass the spawn test, to
  reach the limit, and for a waiting, a blocking and a running worker beside a
  stopping thread.
* `Horizon` in `CronScheduler` stands for "this late or later": at the horizon
  every timed wait may end.  `Window` is the search limit of `CronExpr::next`
  (365 days in the code); the frequent expression always has a match inside it,
  the rare one matches at 2 and then at 9, beyond it.
  Two jobs are needed for an index to name another job.
* `AliveFor`, `PruneAfter` and `Cooldown` keep the order the code has
  (5 s < 10 s <= 60 s) as 1 < 2 <= 2; ages above the last are not told apart.
  Two workers allow a retry elsewhere.
* Retry counts below zero, zero, one and two cover the clamp of the code and a
  retry that is neither first nor last.
* `DagService`: each body takes one way through the checks (garbled tasks, bad
  configuration, a cycle, a missing or throwing nested DAG) or one shape of
  nesting (two levels on one server, a template inside itself up to `MaxDepth`
  2, a remote DAG that nests another), has a task without a name, or brings a
  nesting depth of -1 or 2 along.  One request suffices for two runs at
  once since a repeated dispatch and a nested run are executions of their own.
  `HasId` stops new runs when the finite set of ids is used up; the code
  generates them without end.
* `LegacyTasks`: two crashes give a start after an interrupted start; one
  cancellation meets every step of a worker and of the handler.
* `LogStream`: buffers of two lines, files of one line with one rotated file and
  queues of two texts are at their limit after a few records.  A profile is what
  the clients of one behaviour may do: all of them together are beyond TLC, and
  each pair that shares state occurs in one.
* `Editor`: `maxLen` bounds the undo list.  Seven plain edits are enough for two
  nodes and a line to be created, deleted, undone, and deleted again in another
  order.  Moves, line offsets, forms and imports have profiles of their own, and
  forms have three: of nodes whose properties have no dots, of HTTP and DAG
  nodes, and of remote ones, which have a queue as well.
  States after which nothing is promised (`Promised`) are not continued; which
  they are is said in the properties and in section 4.

### Fairness, and why the code justifies it

* Threads that can take a step take it (WF).  Nothing forces a caller to call
  `post`, `stop`, `addJob` or to cancel.
* Of the pool threads that keep asking for `_mtx` one gets it (SF of the
  disjunction, for workers, spawning callers and `stop`): with WF alone the
  others could take it between any two attempts for ever.  `std::mutex` gives
  no formal guarantee; the system's mutexes are not that unfair.
* No notification and no spurious wake-up is assumed to happen.
* The clock moves (WF of `Tick` in `CronScheduler`); deadlines and pauses pass.
* A process hit by SIGKILL, or by a SIGTERM it does not handle, ends.  No other
  process has to end, close its pipes or stop writing: the commands of the legacy
  queue and the tasks of a DAG in `DagService` need not end either, and the
  properties say what is held up by one that does not.
* `execute` outside the pool need not return in `DagService`: it may have missed
  the last notification (section 4).
* In `WsSession` a close, a connect and the join of a proxy thread need not end,
  nor does a worker have to answer a proxy.
* Functions registered with the local strategy return.  They are the program's
  own, and there is no way to stop one that does not poll its flag.
* The steps of executions on a server go on (one WF over all of them in
  `DagService`); so do those of an emitting thread, of a session's handlers, of
  a worker of the legacy queue outside a command and of a start (WF each).  No
  client has to send, read or close anything, except that a connection that has
  ended is noticed.
* Heartbeats: not every request of a worker that stays up is lost.

A request to the registry is handled in one step.  A heartbeat that is still
under way when its worker crashes, and is handled later, is left out; it would
make a crashed worker look alive for as long as the network delays it.

## 4. Findings

**A lost wake-up leaves `execute` waiting for ever**
(`dag/dag_executor.cpp:353`, run `executor_lost_wakeup`).  `onNodeFinished`
lowers the counter and notifies without `_cvMutex`.  Both may fall between the
scheduler's look at the predicate and its wait.  If the job was the last one,
nobody notifies again.  `Progress` shows that nothing else can stop a run.

**A task without a name is never run, and the run succeeds**
(`dag/dag_executor.cpp:44`).  The scheduler takes a popped id that is the empty
string for an empty queue.  `DagBuilder` accepts such a task
(`dag/dag_builder.cpp:48`), and so do `/api/dag/run`, `/api/dag/run_async` and
`/api/worker/execute`; the template handlers ask for ids.  The task stays
pending with everything that waits for it, and the verdict is Success if nothing
else failed.  `DagRun` has it (`nameless`, `OnlyStranded`), and `VerdictSound`
says that nothing else stays pending.

Met while modelling, without a run of their own.  Where a property has to except
one of these it says so.

Executor, pool, cron, runner, dispatch:

* The counter of running nodes goes to zero before the last notification
  (`dag/dag_executor.cpp:352`), and `DagService::runDag` owns the executor as a
  local: the last job may notify a condition variable that is gone.
* `loop()` keeps indices into `_jobs` over an unlock
  (`scheduler/cron_scheduler.cpp:237`).  A removal in between makes an index name
  another job, which is triggered early, or none, which triggers the first job
  again or reads `front()` of an empty vector; `TriggersRight` and `CronSound`
  except it, line 239 says it cannot happen.
* `CronScheduler::stop` with an empty job list may never return: flag and
  notification may fall between the predicate and the untimed wait (`:158`).
* `addJob` wakes the timed wait, whose predicate looks at the stop flag only: a
  job that is due earlier than those before it runs late by up to the old wait.
* An expression whose next match is more than a year away makes `CronExpr::next`
  throw in the loop thread outside the `try` (`:247`), which ends the process.
* Two cron jobs created in one millisecond have the same id and are removed
  together.
* A background process that inherited the pipes keeps `ShellStrategy::execute`
  beyond every timeout once the leader was reaped
  (`execution/shell_strategy.cpp:244`).  The pipes are made without `O_CLOEXEC`
  (`:155`), so a command of another task, forked between `pipe` and `close`, does
  the same for as long as it runs.  `EndsUnlessHeld` excepts both.
* `drain_fd` (`execution/shell_strategy.cpp:61`) reads while there is something to
  read: a command that writes faster than that keeps the loop from its look at
  the deadline and the cancel flag.  `EndsUnlessHeld` excepts it.
* An empty dependency name is reported as a cycle, unless a task has no name.
* The callback that reports a worker's running tasks returns 0
  (`server_app.cpp:100`), so no worker is ever full and the least-load selector
  always chooses the smallest id.
* A registration replaces the entry of its worker with its cooldown
  (`worker/server_worker_registry.cpp:87`): a retry may then go back to the worker
  that has just failed.  `RetryElsewhere` ends its promise there.

Service, legacy queue, database:

* The `dag_run` row is not finished when a run ends normally
  (`dag/dag_service.cpp:184`); a cron run is inserted as `cron` and then, by
  `runDag`, again as `manual`; an upsert keeps the worker and the metadata of an
  earlier row.
* Run ids are shared by the retries of a nested node, by remote nodes of one run
  on one worker, and by clients that send their own; `RowsMatch` excepts them.
  Two remote nodes of one nested run that went to one worker have one id there,
  so the proxy reads the rows of both below either node; `ProxyFinds` promises
  the right rows only below a run with an id of its own.
* `worker_execute` answers before it has inserted a row.
* The nesting depth of a run is what its body says (`dag/dag_service.cpp:130`), so
  a client that sends a negative `_nesting_depth` gets as many levels more, one
  that sends `MAX_NESTING_DEPTH` gets none, and adding 1 to the largest int is
  undefined.  It is not in the payload to a worker, where the count starts anew.
  `NestingBounded` bounds the sum of that depth and the levels.
* The handler of single templates accepts the `id` form, `DagService` refuses it.
* `workers_proxy_logs` with a worker and no path forwards an empty run id.
* A crash between the statements that create and fill the meta table leaves a
  state no start gets out of; a failed migration file leaves the connection in
  its transaction, so that everything the process then stores is lost.
* The legacy queue's `run_with_timeout` blocks in the destructor of its future
  until the command ends, with the time-out or without (`utils/utils_exec.cpp:12`):
  a command that never ends keeps its worker, and with one worker the whole queue.
  `EveryTaskEnds` excepts it.  A cancellation that comes too late leaves the flag
  set.

Logs, WebSocket, templates:

* A pruned log buffer starts at number 1 again, so a reader that continues from
  an old number misses what is new; `PagesComplete` excepts it.
* `init_logger` passes its compression flag as `flushEachLine`.
* When a worker closes a proxied connection cleanly, the client is not told and
  the session reads no command any more.  Sessions are in the hub before they are authenticated.
  Channel names with dots in their parts may coincide.
* The thread of all sessions waits in `ws_.close` for a client that may not
  answer, before the session leaves the hub (`ws/ws_server_beast.cpp:44`, `:158`,
  `:171`, `:180`); in `WsProxyClient::start` for a worker (`ws/ws_proxy_client.cpp:30`);
  and in `stop` for a proxy thread that may itself be in a close (`:65`, `:70`,
  `:88`).  Neither has a limit in this code.  `SessionsLeave` excepts a thread that
  is held for ever.
* A removal that fails during pruning is ignored (`log/log_rotation.cpp:100`), and
  the file counts again the next time: newer files go while the old one stays.
  `FileKeepsNewest` is about the other files.
* A SELECT that cannot be prepared is answered as if there were no such template,
  or with the templates in the map only (`template/template_store.cpp:84`, `:172`).
* `StringToParamType` lowers its argument and compares the original.  The type
  of a default value is not checked.  DELETE of a template answers 200 whether
  it existed or not.  `list()` reads the size of the map without the lock.  A
  template that was read before a removal may enter the map after it.

Client:

* Several commands may delete the same item.  Delete an item, undo, delete it
  again: the discarded command finds the item hidden and deletes it
  (`client/src/commands/command.cpp:107`), and undo uses a freed item.  With a
  line deleted first and its node second, undo does not bring the line back.
  Create and delete an item, undo both and make another edit: it is deleted
  twice.  The destructor of `DeleteCommand` looks at its first item only.
  `Promised` ends where a discarded `DeleteCommand` deletes something.
* `ImportTask` begins its macro twice and ends it once: after an import the
  macro stays open, and undo and redo do nothing.
* The layout, Esc during a drag, and running a DAG change the scene or the
  configuration without a command, although `stoc_architecture.md:130` says that
  commands alone do; `UndoExact` excepts what they change.
* A connection that was undone stays in `lines()` of its nodes: it is exported
  and run as a dependency, and prevents the two nodes from being connected
  again, until the redo list is discarded.  `ExportedIsShown` names it.
* Two nodes and their line deleted one after the other: one undo shows the line
  without its other end.
* Undo during a drag or a connection leaves the task with a stale start.
* `client/src/tasks/main_task.cpp:28` says that pushing Select does not pop Zoom;
  the levels are 200 and 15, so it always does.
* Properties with a dot in their key (`auth.*`, `header.*`, `config.*` in
  `exec_params`) are stored one level down (`client/src/Item/base_item.cpp:32`) and
  read back whole (`client/src/view/inspector/inspector_panel.cpp:300`, `:312`,
  `:355`, `:365`).  The recorded old value is invalid: undo wipes the former one
  out.  The forms read the same way, so they never show what was stored, and saving
  another field writes their defaults over it; `dag_serializer.cpp:78` exports
  the defaults for a node with children.  `UndoExact` excepts these properties
  once such an edit was undone.
* Only the form of a remote node has a queue
  (`client/src/view/inspector/node_inspector_widget.cpp:125`): the first save of
  any other node replaces its queue "default" by an empty one.  Saving an
  unchanged form after that leaves an empty macro, so that one undo does nothing.

## 5. Proofs

All theorems hold for every value of the constants that satisfies the named
assumptions.

**Executor** (`DagProofs`).  Assumptions: a finite
set of nodes; every configuration an acyclic graph with sequences of known
children, one of the two policies and an integer limit; `NoNode` is not a node.
Acyclicity is stated as: every non-empty set of nodes has a node none of whose
dependencies is in the set, which is what the builder guarantees.  None of the
properties is inductive by itself: that a node is not started early rests on
its counter, whose value depends on how far every other job is in its
downstream loop.  The invariant has two halves.

* `CoreInv` ties counters to positions.  `CountInv`: `indegree[n]` is the number
  of edges into n that no job has passed yet (at least that number for a skipped
  node, which is no longer decremented).  `ReadyInv`: what is queued, about to
  be pushed or held by the scheduler has indegree 0.  `SkipInv`: what a skip
  traversal holds is below an unsuccessful node.  The crux is that a node with
  indegree 0 has only successful dependencies while everything a traversal may
  skip has an unsuccessful one; so the scheduler's two unlocked status checks
  never race with a skip of the same node.  `DependenciesFirst`,
  `TerminalStable` and `TypeOK` (no underflow) follow.
* `EndsInv` adds what the end of a run needs: the running counter is exact,
  no ready node with a name is forgotten, failed is set by every failure, every traversal
  leaves a closed set, rows follow statuses.  `SlotsRespected`, `VerdictSound`
  (this is where acyclicity is used: a set of pending nodes has a first one,
  which can only be the one without a name; `NoneStranded` says that nothing is
  pending when all have one),
  `RowsAgree` and `AtMostOneLateStart` follow, and with them `Refinement`: every
  step of `DagExecutor` is a step of `DagRun` or leaves its variables alone.

**Builder** (`DagProofs`).  `KahnInv`: the indegree of an id is the number
of its edges from ids not yet visited; the queue holds exactly the unvisited
ids of indegree zero.  When the queue runs empty, the unvisited ids each have an
unvisited dependency, hence `AcceptsExactlyDags` in both directions.

The two halves of the builder's answer are joined by a second invariant, about
the depth-first search (`SearchInv`): the stack is a path of the graph, what is
marked done reaches only what is done, and what is done has no cycle.  So a
search that meets a node of its own path reports a cycle of the graph
(`CycleIsReal`), and a search that reports nothing has seen an acyclic graph,
which is the case of an unknown dependency.

**From builder to executor** (`DagProofs`).  `BuiltIsRunnable` closes the loop:
the graph that `build` hands over satisfies what the executor's theorems assume
of one, `Acyclic`, and the indegree stored in each node is the number of times
the downstream loops will lower it.  `HandedOver` says what the hand-over is:
the nodes are those built, and each edge of the task list has one place of its
own in the downstream lists, a bijection, so that repeated ids and dependencies
are counted alike on both sides.  The proof takes a source of every set of ids
(`CycleFree`) through that bijection, and the edges into a node likewise.

**Task runner** (`TaskAndTemplateProofs`).  The invariant says which type of task is
where (`ChosenInv`), what a result means after the retries (`RetryInv`), what
the loop of the shell strategy knows of its child (`ChildInv`), and that the
reason for a signal is still there when the verdict is made (`SignalInv`): the
cancel flag is never cleared and the deadline is renewed only at the head of an
attempt, when the child has been reaped.  `TimeoutInv` is the same for the
watchdog of the local strategy.  Hence `KillExplained`, `TimeoutExplained`,
`NoOverlap`, `WatchdogJoined`, `FailedMeansExhausted` and `TypeOK`, and
`RunnerSound`, which the run checks, from five of them.

**Rows** (`DagProofs`).  That the rows in the database are themselves a
behaviour of `DagRun` (`RowsRefinement`) needs more than `RowsAgree`, because a
row is written before or after the status it stands for.  `RowsTrail`: a row
differs from its status by at most the statement its thread is about to make,
so every write moves a row one step along pending, running, finished or pending,
skipped.  `RowsSkip`: whatever a skip traversal is about to write already has a
dependency whose row is unsuccessful.

**Pool** (`DagThreadPoolProofs`).  Assumptions: those of the module, on numbers
of threads and on the set of jobs.  The invariant says which threads exist
(`ThreadsInv`), who holds the mutex (`MutexInv`), that a thread past its
predicate under the mutex finds what the predicate saw (`TakenInv`), that a job
is in one place at a time (`QueueInv`, `JobsAccounted`) and what the stop flag
and the queues are at each point of `stop` (`StopInv`).  From it follow
`PoolSound`, and `NoSpawnWhileJoining` because the queues stay empty once they
have been cleared.

**Dispatch** (`RemoteDispatchProofs`).  Assumptions added for the proof: there
is a worker, the cooldown is positive, markers are not workers or entries.
`CrashedNotPicked` rests on one relation: a registered worker that is down has a
heartbeat that is at least as old as its downtime.  `DispatchSound` and
`RetryElsewhere` rest on what a dispatch has done at each of its steps; the
second also on the cooldown of the worker that has just failed.  That each of
the selectors returns one of the candidates is an induction over a finite
set; it is done by taking a least counterexample (`WFMin` of the library), since
the induction rules of the library cannot be instantiated.

**Cron** (`CronSchedulerProofs`).  `CronSound` and `TriggersRight`, for any set
of jobs, expressions, horizon and search window.  The invariant says for each
index the loop has kept over its unlock whether it still names the job that was
due, and, if it does not, that a removal fell into the batch.  The proof showed
that the earlier model let the clock go on after the process had ended, which
made the explanation of its end stale; `Tick` and the notification of `stop`
now need a living process.

**Migrations and legacy queue** (`LegacyTasksProofs`).  `MigrationSafe` from what
connection and disk hold at each statement of `Db::open`, for any number of
crashes and failed statements.  `RowsFaithful` and `AtMostOneLateAttempt`, for any
numbers of tasks, workers, crashes and cancellations, from an invariant on the
objects in memory: a task that was not taken is as it was stored (`FreshInv`), it
is in the hands of one worker (`HandledInv`, `OnceInv`), the worker that stores a
row and the handler that stores one have each read the fields in an order that
leaves the row right whichever of them is last (`SeenInv`, `RowInv`), and a flag
set after a worker has looked leads to one attempt at most (`LateInv`).
Assumptions: the names of workers, of nobody and of the cancelling handler are
different; `NoRow` is not a task.

**Service** (`DagServiceProofs`).  For any servers, bodies, ids, numbers of
requests, restarts and repeated dispatches.  Assumptions: the markers for no id
and no row are none; `Content` gives every body a specification of the form
`dag_types.h` reads; workers and front ends are servers; the sources of runs are
those of the code; `MaxDepth` is positive.  None of the three properties says
anything of a run that is still under way, so the invariant does:

* `LocalInv`: the depth an execution carries is the depth its outermost run came
  with plus its nesting level, below `MaxDepth` if it is nested, and no node has
  moved before the checks are passed (`NestingBounded`).
* `OwnRows`: a row belongs to some execution with its server and id, so an
  execution with an id of its own finds the tables empty.  `Written`: which rows
  such an execution has written at each of its statements, that a row has the
  status of its node, and when its run may be recorded as failed (`RowsMatch`).
* `ChildInv`: the row of a node that has ended leads to its nested run, or
  nowhere if that run threw.  A hop of the proxy then ends at that run or
  nowhere; `ProxyFinds` follows by unfolding the path for one and for two nodes
  (a path of any length needs an induction).

A step changes one execution, perhaps adds one, and writes only rows with the
server and id of the first, so the part of the invariant about all other
executions is carried over once, in frame lemmas; each action then has to show
its own part.  The proof attempt showed that `ProxyFinds` had promised too much
about shared ids (section 4), which TLC confirmed on an instance with two remote
nodes in a nested run.

**Logs** (`LogStreamProofs`).  For any numbers of threads, sessions, keys,
records and files, the four safety properties of `log_stream`.  They are about
nearly disjoint parts of the state, so each has an invariant of its own.
Assumptions: sizes of pages, buffers and queues are positive; the markers (no
buffer, nobody, the places of a thread) are not buffers, threads or sessions.

* `FileInv`: each file whose removal has not failed, together with those written
  after it, holds every line from its own first one on.  Rotation adds a file at
  the young end, and what is younger than a file that may stay may stay too
  (`ExcessIsOld`), so `FileKeepsNewest` follows however renames and removals fail.
* `BuffersInv`: what a buffer holds is numbered upwards, below its next number.
  `PageInv`: `next_from` is not ahead of the buffer unless that was pruned and
  begun again.  So a record that is appended is not below `next_from`, and a page
  starts where the last one ended (`PagesComplete`).
* `HubInv`: a thread walks over the sessions under the mutex of the hub, so none
  it still has to visit can leave.  `LateInv`: a thread stands before its post to
  a session, after one late text to it, only if the session still has the
  subscription (`AtMostOneLatePush`).
* `OrderInv`, on top of the hub's: what is posted to a session and what waits in
  its write queue, read as one sequence, has the texts of each thread in order
  and none below what the client has seen; dropping the oldest text and moving a
  posted one into the queue keep that.  `EmitInv`: an event that a thread is about
  to post has its row, or is one of those whose row failed (`StreamInOrder`).

`get` and `queryEvents` of the log buffer return sets in the model, because the
prover knows nothing of `SelectSeq`; their order is the order of the numbers.
`StreamInOrder` is stated with positions for the same reason.

**Templates** (`TaskAndTemplateProofs`).  `AnswersCurrent` for any number of
clients, ids, requests and restarts, and for every renderer: `TemplateStore` has
it as a constant operator, which the configuration of `templates` instantiates
with `render`.  Assumption: `None` is not a template.  `SeenInv`: a request that
is under way has seen what is current.  `HeldInv`: what it will answer from was
current since it began.  `FreshInv`: a template on its way into the map is the
one in the table, unless its row was removed meanwhile.  `CacheInv`: what is in
the map is current, in the sense that excepts the one case of section 4.  A failing SELECT
changes neither table nor map; its answer is the other exception.

**Only model-checked**:

* liveness under fairness (`Progress`, `EveryJobEnds`, `StopReturns`, `CronLive`,
  `EndsUnlessHeld`, `DispatchEnds`, `ComesBack`, `EveryRunEnds`, `EveryTaskEnds`,
  `SessionsLeave`), which is beyond the prover;
* `RenderSound`: `renderNode_` and `Refs` recurse over JSON values, which needs an
  induction over data and RECURSIVE operators;
* `UndoExact`, `ExportedIsShown`, `ItemsSafe`: a command is undone, redone and
  destroyed by a fold over the list of its parts, and what such a fold keeps is
  again an induction.

## 6. Not modelled

* A pool that is stopped drops the jobs that are posted to it, and a nested node
  asks the pool for another thread (`dag/dag_executor.cpp:200`): both are in
  `DagThreadPool`; `DagExecutor` has a pool that goes on and runs its jobs.
* HTTP strategy: one blocking call between two looks at the deadline, the
  control of `dispatch_once` without a registry.  The Docker strategy is an
  empty file, `core/task_runner.cpp` is never started.
* The fields of a cron expression: `CronScheduler` takes the minutes at which an
  expression matches as a constant.
* SQLite, sockets, the HTTP, JSON, WebSocket and Qt libraries: used as they are,
  modelled as far as the code relies on them (`external` in the map).
* Router, configuration, system handler, the text of requests and answers.
* The client's network and model classes (one request, one signal; the WebSocket
  client does not reconnect), its drawing, dialogs and monitors.
* In the editor: containers (nodes inside nodes) and nested levels of a file,
  the end of the editor, the placement that the layout computes, `EditNodeTask`
  (nothing calls it) and `saveLineEdits` (it returns early whatever happens,
  because the flags it tests are never consumed), files whose `exec_params` have
  flat keys with dots, and `QGraphicsItem::pos()` of a line, which never changes.
* Memory order: atomics are sequentially consistent in the model.  The relaxed
  busy counter of the pool is only a hint for spawning.

## 7. Plan

Every safety invariant, action property and refinement that the runs check is
proved for all values of the constants, but for `RenderSound` and the three
properties of the editor.  What is left:

1. `Editor`: `ItemsSafe`, with an invariant on the order in which the list of
   commands creates and connects items.  The folds would have to be written as
   recursive functions first, so that a least counterexample takes the place of
   the induction, as it does for the selectors of `RemoteDispatch`.
2. `ProxyFinds` for paths of any length, by the same means.
3. Containers and nested levels in the editor; the fields of a cron expression.
