---------------------------- MODULE DagThreadPool ----------------------------
(***************************************************************************)
(* DagThreadPool (server/src/dag/dag_thread_pool.cpp): workers that are    *)
(* spawned on demand, four priority queues under _mtx, callers of post()   *)
(* and one caller of stop().                                               *)
(*                                                                         *)
(* A section under _mtx is one action, except that a worker whose          *)
(* predicate was false keeps the mutex until it blocks: stop() raises      *)
(* _stopping without the mutex and may do so in between.  Every job is     *)
(* posted by a thread of its own; running it takes one step and ends (a    *)
(* DAG on a worker runs its nodes in place and waits for no other job).    *)
(* The server starts the pool before it accepts requests, and only once.   *)
(***************************************************************************)
EXTENDS Integers, Sequences, FiniteSets

CONSTANTS Job,        \* the jobs that will be posted
          Priority,   \* Priority[j] \in 0..3, 0 = Critical
          NumWorkers, \* argument of start()
          NoJob, Free \* "no job taken", "the mutex is free"

ASSUME JobAssumption     == IsFiniteSet(Job) /\ NoJob \notin Job
ASSUME PrioAssumption    == Priority \in [Job -> 0..3]
ASSUME WorkersAssumption == NumWorkers \in Nat \ {0} /\ Free \notin Nat

MaxWorkers == NumWorkers * 4
Worker     == 1..MaxWorkers

VARIABLES
    queues,    \* _queues
    stopping,  \* _stopping
    workers,   \* size of _workers: the threads 1..workers exist
    busy,      \* _busyWorkers
    mtx,       \* the worker that keeps _mtx across two steps, or Free
    wpc,       \* where every worker is
    taken,     \* the job a worker has taken
    ppc,       \* where the caller of post(j) is
    spc,       \* where the caller of start() and stop() is
    done,      \* history: the jobs that were run
    dropped    \* history: the jobs that were refused or cleared

queueVars == <<queues, stopping>>
workVars  == <<wpc, taken>>
histVars  == <<done, dropped>>
vars      == <<queueVars, workers, busy, mtx, workVars, ppc, spc, histVars>>

QueuedAt(p) == {queues[p][i] : i \in DOMAIN queues[p]}
Queued      == UNION {QueuedAt(p) : p \in 0..3}
Waiting     == {w \in Worker : wpc[w] = "waiting"}

Init ==
    /\ queues = [p \in 0..3 |-> <<>>]
    /\ stopping = FALSE
    /\ workers = 0
    /\ busy = 0
    /\ mtx = Free
    /\ wpc = [w \in Worker |-> "none"]
    /\ taken = [w \in Worker |-> NoJob]
    /\ ppc = [j \in Job |-> "idle"]
    /\ spc = "fresh"
    /\ done = {}
    /\ dropped = {}

(* start(): no other thread uses the pool yet. *)
Start ==
    /\ spc = "fresh"
    /\ workers' = NumWorkers
    /\ wpc' = [w \in Worker |-> IF w <= NumWorkers THEN "take" ELSE "none"]
    /\ spc' = "idle"
    /\ UNCHANGED <<queueVars, busy, mtx, taken, ppc, histVars>>

-----------------------------------------------------------------------------
(***************************************************************************)
(* post(job, priority).                                                    *)
(***************************************************************************)
(* Under _mtx: a pool that is stopping drops the job without a word. *)
Push(j) ==
    /\ ppc[j] = "idle"
    /\ spc # "fresh"
    /\ mtx = Free
    /\ IF stopping
          THEN /\ dropped' = dropped \cup {j}
               /\ ppc' = [ppc EXCEPT ![j] = "returned"]
               /\ UNCHANGED queues
          ELSE /\ queues' = [queues EXCEPT ![Priority[j]] = Append(@, j)]
               /\ ppc' = [ppc EXCEPT ![j] = "spawnCheck"]
               /\ UNCHANGED dropped
    /\ UNCHANGED <<stopping, workers, busy, mtx, workVars, spc, done>>

(* maybeSpawnWorker: the flag is read before the mutex is taken... *)
SpawnCheck(j) ==
    /\ ppc[j] = "spawnCheck"
    /\ ppc' = [ppc EXCEPT ![j] = IF stopping THEN "notify" ELSE "spawn"]
    /\ UNCHANGED <<queueVars, workers, busy, mtx, workVars, spc, histVars>>

Spare == IF workers > busy THEN workers - busy ELSE 0

(* Mutant: a worker is spawned whenever fewer than minSpare are free. *)
ShouldSpawn_MinSpare == workers < MaxWorkers /\ Spare < 1
ShouldSpawn == workers < MaxWorkers /\ Queued # {} /\ Spare < Cardinality(Queued)

(* ...and not again under it.  The notification that goes with a new       *)
(* worker may wake any worker that waits.                                  *)
Spawn(j) ==
    /\ ppc[j] = "spawn"
    /\ mtx = Free
    /\ ppc' = [ppc EXCEPT ![j] = "notify"]
    /\ IF ShouldSpawn
          THEN /\ workers' = workers + 1
               /\ \/ /\ Waiting = {}
                     /\ wpc' = [wpc EXCEPT ![workers + 1] = "take"]
                  \/ \E w \in Waiting :
                        wpc' = [wpc EXCEPT ![workers + 1] = "take", ![w] = "take"]
          ELSE UNCHANGED <<workers, wpc>>
    /\ UNCHANGED <<queueVars, busy, mtx, taken, spc, histVars>>

(* Mutant: post does not notify. *)
NotifyOne_Absent(j) ==
    /\ ppc[j] = "notify"
    /\ ppc' = [ppc EXCEPT ![j] = "returned"]
    /\ UNCHANGED <<queueVars, workers, busy, mtx, workVars, spc, histVars>>

NotifyOne(j) ==
    /\ ppc[j] = "notify"
    /\ ppc' = [ppc EXCEPT ![j] = "returned"]
    /\ \/ Waiting = {} /\ UNCHANGED wpc
       \/ \E w \in Waiting : wpc' = [wpc EXCEPT ![w] = "take"]
    /\ UNCHANGED <<queueVars, workers, busy, mtx, taken, spc, histVars>>

Post(j) == Push(j) \/ SpawnCheck(j) \/ Spawn(j) \/ NotifyOne(j)

-----------------------------------------------------------------------------
(***************************************************************************)
(* worker_loop and take_job.                                               *)
(***************************************************************************)
(* Mutant: the job is not removed from its queue. *)
TakeJob_Peek(w) ==
    /\ wpc[w] = "take"
    /\ mtx = Free
    /\ \E p \in 0..3 : queues[p] # <<>> /\ taken' = [taken EXCEPT ![w] = Head(queues[p])]
    /\ wpc' = [wpc EXCEPT ![w] = "taken"]
    /\ UNCHANGED <<queueVars, workers, busy, mtx, ppc, spc, histVars>>

(* The first job of the first queue that is not empty. *)
TakeJob(w) ==
    /\ wpc[w] = "take"
    /\ mtx = Free
    /\ \E p \in 0..3 :
          /\ queues[p] # <<>>
          /\ \A q \in 0..3 : q < p => queues[q] = <<>>
          /\ taken' = [taken EXCEPT ![w] = Head(queues[p])]
          /\ queues' = [queues EXCEPT ![p] = Tail(@)]
    /\ wpc' = [wpc EXCEPT ![w] = "taken"]
    /\ UNCHANGED <<stopping, workers, busy, mtx, ppc, spc, histVars>>

(* Stopping and no job: the thread ends. *)
ExitLoop(w) ==
    /\ wpc[w] = "take"
    /\ mtx = Free
    /\ Queued = {}
    /\ stopping
    /\ wpc' = [wpc EXCEPT ![w] = "exited"]
    /\ UNCHANGED <<queueVars, workers, busy, mtx, taken, ppc, spc, histVars>>

(* The predicate is false; the mutex is kept until the thread blocks. *)
FalsePredicate(w) ==
    /\ wpc[w] = "take"
    /\ mtx = Free
    /\ Queued = {}
    /\ ~stopping
    /\ mtx' = w
    /\ wpc' = [wpc EXCEPT ![w] = "block"]
    /\ UNCHANGED <<queueVars, workers, busy, taken, ppc, spc, histVars>>

BlockWorker(w) ==
    /\ wpc[w] = "block"
    /\ mtx' = Free
    /\ wpc' = [wpc EXCEPT ![w] = "waiting"]
    /\ UNCHANGED <<queueVars, workers, busy, taken, ppc, spc, histVars>>

(* The three statements around job(): between them the counter is wrong. *)
BusyUp(w) ==
    /\ wpc[w] = "taken"
    /\ busy' = busy + 1
    /\ wpc' = [wpc EXCEPT ![w] = "run"]
    /\ UNCHANGED <<queueVars, workers, mtx, taken, ppc, spc, histVars>>

RunJob(w) ==
    /\ wpc[w] = "run"
    /\ done' = done \cup {taken[w]}
    /\ taken' = [taken EXCEPT ![w] = NoJob]
    /\ wpc' = [wpc EXCEPT ![w] = "ran"]
    /\ UNCHANGED <<queueVars, workers, busy, mtx, ppc, spc, dropped>>

BusyDown(w) ==
    /\ wpc[w] = "ran"
    /\ busy' = busy - 1
    /\ wpc' = [wpc EXCEPT ![w] = "take"]
    /\ UNCHANGED <<queueVars, workers, mtx, taken, ppc, spc, histVars>>

Lock(w) == TakeJob(w) \/ ExitLoop(w) \/ FalsePredicate(w)
Work(w) == BlockWorker(w) \/ BusyUp(w) \/ RunJob(w) \/ BusyDown(w)

SpuriousWake(w) ==
    /\ wpc[w] = "waiting"
    /\ wpc' = [wpc EXCEPT ![w] = "take"]
    /\ UNCHANGED <<queueVars, workers, busy, mtx, taken, ppc, spc, histVars>>

-----------------------------------------------------------------------------
(***************************************************************************)
(* stop().                                                                 *)
(***************************************************************************)
SetStopping ==
    /\ spc = "idle"
    /\ stopping' = TRUE
    /\ spc' = "clear"
    /\ UNCHANGED <<queues, workers, busy, mtx, workVars, ppc, histVars>>

(* Mutant: stop() notifies without having held the mutex. *)
ClearQueues_NoLock ==
    /\ spc = "clear"
    /\ dropped' = dropped \cup Queued
    /\ queues' = [p \in 0..3 |-> <<>>]
    /\ spc' = "notify"
    /\ UNCHANGED <<stopping, workers, busy, mtx, workVars, ppc, done>>

ClearQueues ==
    /\ spc = "clear"
    /\ mtx = Free
    /\ dropped' = dropped \cup Queued
    /\ queues' = [p \in 0..3 |-> <<>>]
    /\ spc' = "notify"
    /\ UNCHANGED <<stopping, workers, busy, mtx, workVars, ppc, done>>

NotifyAll ==
    /\ spc = "notify"
    /\ wpc' = [w \in Worker |-> IF wpc[w] = "waiting" THEN "take" ELSE wpc[w]]
    /\ spc' = "join"
    /\ UNCHANGED <<queueVars, workers, busy, mtx, taken, ppc, histVars>>

(* Every thread of _workers is joined; the vector is read without _mtx. *)
JoinAll ==
    /\ spc = "join"
    /\ \A w \in 1..workers : wpc[w] = "exited"
    /\ workers' = 0
    /\ busy' = 0
    /\ spc' = "stopped"
    /\ UNCHANGED <<queueVars, mtx, workVars, ppc, histVars>>

Stop == SetStopping \/ ClearQueues \/ NotifyAll \/ JoinAll

Stopped == spc = "stopped" /\ (\A j \in Job : ppc[j] = "returned") /\ UNCHANGED vars

Next == \/ Start \/ Stop \/ Stopped
        \/ \E j \in Job : Post(j)
        \/ \E w \in Worker : Lock(w) \/ Work(w) \/ SpuriousWake(w)

Spec == Init /\ [][Next]_vars

(* Threads inside post, stop and the worker loop continue, and of the       *)
(* threads that keep asking for the mutex one gets it; nobody has to call    *)
(* post or stop.                                                            *)
Fairness ==
    /\ WF_vars(Start)
    /\ WF_vars(NotifyAll) /\ WF_vars(JoinAll) /\ SF_vars(ClearQueues)
    /\ WF_vars(\E j \in Job : SpawnCheck(j) \/ NotifyOne(j))
    /\ SF_vars(\E j \in Job : Spawn(j))
    /\ SF_vars(\E w \in Worker : Lock(w))
    /\ WF_vars(\E w \in Worker : BlockWorker(w))
    /\ WF_vars(\E w \in Worker : BusyUp(w))
    /\ WF_vars(\E w \in Worker : RunJob(w))
    /\ WF_vars(\E w \in Worker : BusyDown(w))
FairSpec == Spec /\ Fairness
-----------------------------------------------------------------------------
(***************************************************************************)
(* Properties.                                                             *)
(***************************************************************************)
(* The type invariant of the pool; busy counts exactly the workers between *)
(* the two counter updates, so the size_t never wraps.                     *)
TypeOK ==
    /\ queues \in [0..3 -> Seq(Job)]
    /\ stopping \in BOOLEAN
    /\ workers \in 0..MaxWorkers
    /\ busy = Cardinality({w \in Worker : wpc[w] \in {"run", "ran"}})
    /\ mtx \in Worker \cup {Free}
    /\ wpc \in [Worker -> {"none", "take", "block", "waiting", "taken", "run", "ran", "exited"}]
    /\ taken \in [Worker -> Job \cup {NoJob}]
    /\ ppc \in [Job -> {"idle", "spawnCheck", "spawn", "notify", "returned"}]
    /\ spc \in {"fresh", "idle", "clear", "notify", "join", "stopped"}
    /\ done \subseteq Job
    /\ dropped \subseteq Job

Held == {taken[w] : w \in Worker} \ {NoJob}

(* post, take_job and stop lose no job and duplicate none: a posted job is *)
(* queued once, in the hands of one worker, run, or dropped, and it is     *)
(* dropped only because the pool is stopping.                              *)
JobsAccounted ==
    /\ \A j \in Job : ppc[j] # "idle" <=> j \in Queued \cup Held \cup done \cup dropped
    /\ Queued \cap (Held \cup done \cup dropped) = {}
    /\ Held \cap (done \cup dropped) = {} /\ done \cap dropped = {}
    /\ \A v, w \in Worker : taken[v] = taken[w] /\ taken[v] # NoJob => v = w
    /\ dropped # {} => stopping

(* While stop() reads _workers without the mutex no caller of post spawns  *)
(* a worker, although maybeSpawnWorker does not look at _stopping again    *)
(* under the mutex: the queues were cleared under it, and stay empty.      *)
NoSpawnWhileJoining ==
    [][(spc \in {"notify", "join", "stopped"}) => workers' <= workers]_vars

(* When stop() has returned no worker is left, no job runs or will run. *)
QuietAfterStop ==
    spc = "stopped" => /\ \A w \in Worker : wpc[w] \in {"none", "exited"}
                       /\ Queued = {} /\ Held = {}

(* The safety of the pool: its counters and program counters are right,     *)
(* every job is accounted for, and nothing runs after stop() has returned.   *)
PoolSound == TypeOK /\ JobsAccounted /\ QuietAfterStop

(* Every posted job is run, or dropped by stop(), and stays so: no          *)
(* notification is lost.                                                    *)
EveryJobEnds == <>[](\A j \in Job : ppc[j] # "idle" => j \in done \cup dropped)

(* stop() returns once it was called, although _stopping is raised without  *)
(* the mutex.                                                               *)
StopReturns == <>[](spc \in {"fresh", "idle", "stopped"})
=============================================================================
