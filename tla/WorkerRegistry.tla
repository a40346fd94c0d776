--------------------------- MODULE WorkerRegistry ---------------------------
(***************************************************************************)
(* The registry of workers on the master (server/src/worker/               *)
(* server_worker_registry.cpp, worker_selector.cpp), the workers'          *)
(* heartbeat clients (worker_heartbeat_client.cpp) and the two handlers    *)
(* between them (handlers/worker_handler.cpp).                             *)
(*                                                                         *)
(* An entry carries the age of its last heartbeat and what is left of its  *)
(* cooldown, both moved by Tick.  A request or its response may be lost; a *)
(* request that is handled is handled under the registry's mutex, in one   *)
(* step.                                                                   *)
(***************************************************************************)
EXTENDS Integers, FiniteSets

CONSTANTS Worker,      \* worker ids, ordered as the strings are
          Queue,       \* queue names; "default" is one
          Serves,      \* Serves[w]: WorkerInfo::queues
          MaxRunning,  \* MaxRunning[w]: WorkerInfo::maxRunningTasks
          AliveFor,    \* isAlive: 10 seconds
          PruneAfter,  \* startSweeper: 60 seconds
          Cooldown,    \* markDispatchFailure: 5 seconds
          Absent       \* "not in _workers"

ASSUME WorkerAssumption == Worker \subseteq Nat /\ IsFiniteSet(Worker) /\ Worker # {}
ASSUME QueueAssumption ==
    "default" \in Queue /\ \A w \in Worker : Serves[w] \subseteq Queue /\ MaxRunning[w] \in Nat \ {0}
ASSUME TimeAssumption ==
    /\ AliveFor \in Nat \ {0} /\ Cooldown \in Nat \ {0}
    /\ PruneAfter \in Nat /\ AliveFor <= PruneAfter

VARIABLES
    workers,     \* _workers
    cursor,      \* RoundRobinSelector::_queueIndex
    strategy,    \* worker.select_strategy
    up,          \* the worker process runs
    registered,  \* WorkerHeartbeatClient::_registered
    down         \* history: for how long a stopped worker has been down

registryVars == <<workers, cursor, strategy>>
workerVars   == <<up, registered, down>>

Entry == [age : 0..(PruneAfter + 1), cool : 0..Cooldown]
ASSUME AbsentAssumption == Absent \notin Entry
Known == {w \in Worker : workers[w] # Absent}

-----------------------------------------------------------------------------
(***************************************************************************)
(* WorkerInfo, and the number of tasks a worker reports: the callback that *)
(* ServerApp installs returns 0 whatever runs.                             *)
(***************************************************************************)
RunningTasks     == 0
(* Mutant: the last moment counts. *)
isAlive_Inclusive(w) == workers[w].age <= AliveFor
isAlive(w)       == workers[w].age < AliveFor
isFull(w)        == RunningTasks >= MaxRunning[w]
isCoolingDown(w) == workers[w].cool > 0
queue_match(w, q) == IF Serves[w] = {} THEN q = "default" ELSE q \in Serves[w]

(* collect_candidates, without and then with the workers that cool down. *)
Eligible(q) == {w \in Known : isAlive(w) /\ queue_match(w, q) /\ ~isFull(w)}
Rested(q)   == {w \in Eligible(q) : ~isCoolingDown(w)}
Candidates(q) == IF Rested(q) # {} THEN Rested(q) ELSE Eligible(q)

(* The two selectors; the cursor of a queue is moved by the second. *)
LeastLoad(q)  == CHOOSE w \in Candidates(q) : \A v \in Candidates(q) : w <= v
Index(q)      == IF cursor[q] >= Cardinality(Candidates(q)) THEN 0 ELSE cursor[q]
RoundRobin(q) == CHOOSE w \in Candidates(q) :
                    Cardinality({v \in Candidates(q) : v < w}) = Index(q)
Advance(q)    == [cursor EXCEPT ![q] = (Index(q) + 1) % Cardinality(Candidates(q))]

pickWorkerForQueue(q) == IF strategy = "rr" THEN RoundRobin(q) ELSE LeastLoad(q)
CursorAfter(q) == IF strategy = "rr" THEN Advance(q) ELSE cursor

(* Mutant: no cooldown. *)
markDispatchFailure_None(w) == workers
markDispatchFailure(w) ==
    IF w \in Known THEN [workers EXCEPT ![w].cool = Cooldown] ELSE workers

-----------------------------------------------------------------------------
RegistryInit ==
    /\ workers = [w \in Worker |-> Absent]
    /\ cursor = [q \in Queue |-> 0]
    /\ strategy \in {"rr", "least-load"}
    /\ up = [w \in Worker |-> FALSE]
    /\ registered = [w \in Worker |-> FALSE]
    /\ down = [w \in Worker |-> 0]

(* workers_register and upsertWorker: a new entry, without cooldown.  When *)
(* the response is lost the client registers again.                        *)
Register(w, heard) ==
    /\ up[w] /\ ~registered[w]
    /\ workers' = [workers EXCEPT ![w] = [age |-> 0, cool |-> 0]]
    /\ registered' = [registered EXCEPT ![w] = heard]
    /\ UNCHANGED <<cursor, strategy, up, down>>

(* Mutant: the client does not look at the 404. *)
Heartbeat_Ignores404(w, heard) ==
    /\ up[w] /\ registered[w]
    /\ workers' = IF w \in Known THEN [workers EXCEPT ![w].age = 0] ELSE workers
    /\ UNCHANGED <<registered, cursor, strategy, up, down>>

(* workers_heartbeat and touchHeartbeat: 404 for a worker that is not      *)
(* known, upon which the client registers in its next round.               *)
Heartbeat(w, heard) ==
    /\ up[w] /\ registered[w]
    /\ workers' = IF w \in Known THEN [workers EXCEPT ![w].age = 0] ELSE workers
    /\ registered' = [registered EXCEPT ![w] = w \in Known \/ ~heard]
    /\ UNCHANGED <<cursor, strategy, up, down>>

Crash(w) ==
    /\ up[w]
    /\ up' = [up EXCEPT ![w] = FALSE]
    /\ registered' = [registered EXCEPT ![w] = FALSE]
    /\ down' = [down EXCEPT ![w] = 0]
    /\ UNCHANGED registryVars

Restart(w) ==
    /\ ~up[w]
    /\ up' = [up EXCEPT ![w] = TRUE]
    /\ down' = [down EXCEPT ![w] = 0]
    /\ UNCHANGED <<registered, registryVars>>

Sooner(n)       == IF n = 0 THEN 0 ELSE n - 1
Later(n, bound) == IF n = bound THEN n ELSE n + 1

(* One unit of time; ages beyond PruneAfter and downtimes beyond AliveFor  *)
(* need not be told apart.                                                 *)
Tick ==
    /\ workers' = [w \in Worker |->
          IF w \in Known THEN [age  |-> Later(workers[w].age, PruneAfter + 1),
                               cool |-> Sooner(workers[w].cool)]
                         ELSE Absent]
    /\ down' = [w \in Worker |-> IF up[w] THEN 0 ELSE Later(down[w], AliveFor)]
    /\ UNCHANGED <<cursor, strategy, up, registered>>

(* The sweeper thread: pruneDeadWorkers. *)
Prune ==
    /\ Known # {}
    /\ workers' = [w \in Worker |->
          IF w \in Known /\ ~isAlive(w) /\ workers[w].age > PruneAfter THEN Absent ELSE workers[w]]
    /\ UNCHANGED <<cursor, strategy, workerVars>>

RegistryStep ==
    \/ \E w \in Worker, heard \in BOOLEAN : Register(w, heard) \/ Heartbeat(w, heard)
    \/ \E w \in Worker : Crash(w) \/ Restart(w)
    \/ Prune
=============================================================================
