------------------------- MODULE DagThreadPoolProofs -------------------------
(***************************************************************************)
(* Proofs about DagThreadPool, for every finite set of jobs, every         *)
(* assignment of priorities and every number of workers: the counters are  *)
(* right, no job is lost or duplicated, nothing runs once stop() has       *)
(* returned, and no worker is spawned while stop() reads _workers.         *)
(***************************************************************************)
EXTENDS DagThreadPool, FiniteSetTheorems, TLAPS

(* The threads that exist, until they are joined, are 1..workers. *)
ThreadsInv ==
    /\ spc = "fresh" => workers = 0 /\ \A j \in Job : ppc[j] = "idle"
    /\ spc # "stopped" => \A w \in Worker : wpc[w] = "none" <=> workers < w
    /\ spc = "stopped" => \A w \in Worker : wpc[w] \in {"none", "exited"}

(* Only a worker that is about to block keeps the mutex between two steps. *)
MutexInv == \A w \in Worker : wpc[w] = "block" <=> mtx = w

(* A worker has a job in its hands between take_job and the end of job(). *)
TakenInv == \A w \in Worker : taken[w] # NoJob <=> wpc[w] \in {"taken", "run"}

(* A queue holds jobs of its own priority, each of them once. *)
QueueInv ==
    \A p \in 0..3 : \A i \in DOMAIN queues[p] :
        /\ Priority[queues[p][i]] = p
        /\ \A k \in DOMAIN queues[p] : queues[p][i] = queues[p][k] => i = k

(* stop() has cleared the queues, and post leaves them empty from then on. *)
StopInv ==
    /\ stopping <=> spc \notin {"fresh", "idle"}
    /\ spc \in {"notify", "join", "stopped"} => Queued = {}

IInv == /\ TypeOK /\ ThreadsInv /\ MutexInv /\ TakenInv /\ QueueInv /\ StopInv
        /\ JobsAccounted

(* The workers that busy counts. *)
Busy     == {w \in Worker : wpc[w] \in {"run", "ran"}}
WorkerPc == {"none", "take", "block", "waiting", "taken", "run", "ran", "exited"}

-----------------------------------------------------------------------------
(***************************************************************************)
(* Facts about the constants and the operators.                            *)
(***************************************************************************)
(* Workers are positive numbers, Free is none of them. *)
LEMMA WorkerFacts == MaxWorkers \in Nat /\ NumWorkers <= MaxWorkers /\ NumWorkers > 0
                     /\ Worker \subseteq Nat \ {0} /\ Free \notin Worker /\ IsFiniteSet(Worker)
<1>1. MaxWorkers \in Nat /\ NumWorkers <= MaxWorkers /\ NumWorkers > 0
  BY WorkersAssumption DEF MaxWorkers
<1>2. Worker \subseteq Nat \ {0} /\ Free \notin Worker
  BY <1>1, WorkersAssumption DEF Worker
<1>3. IsFiniteSet(Worker)
  BY <1>1, FS_Interval DEF Worker
<1> QED
  BY <1>1, <1>2, <1>3

(* The busy workers are counted by a natural number, and one more or one   *)
(* less changes it by one.                                                 *)
LEMMA BusyFacts == /\ IsFiniteSet(Busy) /\ Cardinality(Busy) \in Nat
                   /\ \A w : w \notin Busy => Cardinality(Busy \cup {w}) = Cardinality(Busy) + 1
                   /\ \A w \in Busy : Cardinality(Busy \ {w}) = Cardinality(Busy) - 1
<1>1. Busy \subseteq Worker
  BY DEF Busy
<1>2. IsFiniteSet(Busy)
  BY <1>1, WorkerFacts, FS_Subset
<1> QED
  BY <1>2, FS_AddElement, FS_RemoveElement, FS_CardinalityType

(* A job is queued when it stands at some place of some queue. *)
LEMMA QueuedAs == \A j : j \in Queued <=> \E p \in 0..3 : \E i \in DOMAIN queues[p] : queues[p][i] = j
  BY DEF Queued, QueuedAt

(* A job is held when some worker has taken it. *)
LEMMA HeldAs == \A j : j \in Held <=> j # NoJob /\ \E w \in Worker : taken[w] = j
  BY DEF Held

(* post() puts its job, and nothing else, in the queue of its priority. *)
LEMMA PushQueues ==
    ASSUME TypeOK, QueueInv, NEW j \in Job, j \notin Queued,
           queues' = [queues EXCEPT ![Priority[j]] = Append(@, j)]
    PROVE  /\ queues' \in [0..3 -> Seq(Job)] /\ QueueInv'
           /\ Queued' = Queued \cup {j}
<1> DEFINE q == queues[Priority[j]]
<1>1. Priority[j] \in 0..3 /\ queues \in [0..3 -> Seq(Job)] /\ q \in Seq(Job)
  BY PrioAssumption DEF TypeOK
<1>2. /\ Append(q, j) \in Seq(Job)
      /\ DOMAIN Append(q, j) = 1..(Len(q) + 1) /\ DOMAIN q = 1..Len(q) /\ Len(q) \in Nat
      /\ \A i \in 1..Len(q) : Append(q, j)[i] = q[i]
      /\ Append(q, j)[Len(q) + 1] = j
  BY <1>1
<1>3. /\ queues' \in [0..3 -> Seq(Job)] /\ queues'[Priority[j]] = Append(q, j)
      /\ \A p \in 0..3 : p # Priority[j] => queues'[p] = queues[p]
  BY <1>1, <1>2
<1>4. \A i \in DOMAIN q : q[i] # j
  BY <1>1, QueuedAs
<1> HIDE DEF q
<1>5. QueueInv'
  <2> SUFFICES ASSUME NEW p \in 0..3, NEW i \in DOMAIN queues'[p]
               PROVE  /\ Priority[queues'[p][i]] = p
                      /\ \A k \in DOMAIN queues'[p] : queues'[p][i] = queues'[p][k] => i = k
    BY DEF QueueInv
  <2>1. CASE p # Priority[j]
    BY <2>1, <1>3 DEF QueueInv
  <2>2. CASE p = Priority[j]
    <3>1. \A k \in 1..Len(q) : Priority[q[k]] = p /\ \A l \in 1..Len(q) : q[k] = q[l] => k = l
      BY <2>2, <1>1, <1>2 DEF QueueInv, q
    <3>2. queues'[p] = Append(q, j)
      BY <2>2, <1>3
    <3> QED
      BY <3>1, <3>2, <2>2, <1>2, <1>4, SMTT(30)
  <2> QED
    BY <2>1, <2>2
<1>6. Queued' = Queued \cup {j}
  <2>1. \A k : k \in Queued' <=> \E p \in 0..3 : \E i \in DOMAIN queues'[p] : queues'[p][i] = k
    BY DEF Queued, QueuedAt
  <2>2. ASSUME NEW k \in Queued' PROVE k \in Queued \cup {j}
    <3>1. PICK p \in 0..3 : \E i \in DOMAIN queues'[p] : queues'[p][i] = k
      BY <2>1, <2>2
    <3>2. CASE p # Priority[j]
      BY <3>1, <3>2, <1>3, QueuedAs
    <3>3. CASE p = Priority[j]
      <4>1. PICK i \in 1..(Len(q) + 1) : Append(q, j)[i] = k
        BY <3>1, <3>3, <1>3, <1>2
      <4>2. CASE i = Len(q) + 1
        BY <4>1, <4>2, <1>2
      <4>3. CASE i # Len(q) + 1
        <5>1. i \in DOMAIN q /\ q[i] = k
          BY <4>1, <4>3, <1>2
        <5> QED
          BY <5>1, <1>1, QueuedAs DEF q
      <4> QED
        BY <4>2, <4>3
    <3> QED
      BY <3>2, <3>3
  <2>3. j \in Queued'
    <3>1. Len(q) + 1 \in DOMAIN queues'[Priority[j]] /\ queues'[Priority[j]][Len(q) + 1] = j
      BY <1>2, <1>3
    <3> QED
      BY <3>1, <2>1, <1>1
  <2>4. ASSUME NEW k \in Queued PROVE k \in Queued'
    <3>1. PICK p \in 0..3 : \E i \in DOMAIN queues[p] : queues[p][i] = k
      BY <2>4, QueuedAs
    <3>2. CASE p # Priority[j]
      BY <3>1, <3>2, <1>3, <2>1
    <3>3. CASE p = Priority[j]
      <4>1. PICK i \in 1..Len(q) : q[i] = k
        BY <3>1, <3>3, <1>2 DEF q
      <4>2. i \in DOMAIN queues'[Priority[j]] /\ queues'[Priority[j]][i] = k
        BY <4>1, <1>2, <1>3
      <4> QED
        BY <4>2, <2>1, <1>1
    <3> QED
      BY <3>2, <3>3
  <2> QED
    BY <2>2, <2>3, <2>4
<1> QED
  BY <1>3, <1>5, <1>6

(* take_job removes exactly the job it returns. *)
LEMMA TakeQueues ==
    ASSUME TypeOK, QueueInv, NEW p \in 0..3, queues[p] # <<>>,
           queues' = [queues EXCEPT ![p] = Tail(@)]
    PROVE  /\ queues' \in [0..3 -> Seq(Job)] /\ QueueInv'
           /\ Head(queues[p]) \in Queued /\ Head(queues[p]) \in Job
           /\ Queued' = Queued \ {Head(queues[p])}
<1> DEFINE q == queues[p]
<1>1. queues \in [0..3 -> Seq(Job)] /\ q \in Seq(Job) /\ q # <<>>
  BY DEF TypeOK
<1>2. /\ Tail(q) \in Seq(Job) /\ Len(q) \in Nat \ {0} /\ DOMAIN q = 1..Len(q)
      /\ DOMAIN Tail(q) = 1..(Len(q) - 1)
      /\ \A i \in 1..(Len(q) - 1) : Tail(q)[i] = q[i + 1]
      /\ Head(q) = q[1] /\ Head(q) \in Job
  BY <1>1
<1>3. /\ queues' \in [0..3 -> Seq(Job)] /\ queues'[p] = Tail(q)
      /\ \A r \in 0..3 : r # p => queues'[r] = queues[r]
  BY <1>1, <1>2
<1>4. \A k \in 1..Len(q) : Priority[q[k]] = p /\ \A l \in 1..Len(q) : q[k] = q[l] => k = l
  BY <1>2 DEF QueueInv
<1> HIDE DEF q
<1>5. QueueInv'
  <2> SUFFICES ASSUME NEW r \in 0..3, NEW i \in DOMAIN queues'[r]
               PROVE  /\ Priority[queues'[r][i]] = r
                      /\ \A k \in DOMAIN queues'[r] : queues'[r][i] = queues'[r][k] => i = k
    BY DEF QueueInv
  <2>1. CASE r # p
    BY <2>1, <1>3 DEF QueueInv
  <2>2. CASE r = p
    <3>1. i \in 1..(Len(q) - 1) /\ queues'[r] = Tail(q)
      BY <2>2, <1>2, <1>3
    <3>2. i + 1 \in 1..Len(q) /\ queues'[r][i] = q[i + 1]
      BY <3>1, <1>2
    <3>3. ASSUME NEW k \in DOMAIN queues'[r], queues'[r][i] = queues'[r][k] PROVE i = k
      <4>1. k \in 1..(Len(q) - 1) /\ k + 1 \in 1..Len(q) /\ queues'[r][k] = q[k + 1]
        BY <3>1, <1>2
      <4>2. i + 1 = k + 1
        BY <4>1, <3>2, <3>3, <1>4
      <4> QED
        BY <4>1, <4>2, <3>1
    <3> QED
      BY <3>2, <3>3, <1>4, <2>2
  <2> QED
    BY <2>1, <2>2
<1>6. Head(q) \in Queued
  BY <1>2, QueuedAs DEF q
<1>7. Queued' = Queued \ {Head(q)}
  <2>1. \A k : k \in Queued' <=> \E r \in 0..3 : \E i \in DOMAIN queues'[r] : queues'[r][i] = k
    BY DEF Queued, QueuedAt
  <2>2. ASSUME NEW k \in Queued' PROVE k \in Queued /\ k # Head(q)
    <3>1. PICK r \in 0..3 : \E i \in DOMAIN queues'[r] : queues'[r][i] = k
      BY <2>1, <2>2
    <3>2. CASE r # p
      <4>1. PICK i \in DOMAIN queues[r] : queues[r][i] = k
        BY <3>1, <3>2, <1>3
      <4>2. Priority[k] = r
        BY <4>1 DEF QueueInv
      <4>3. Priority[Head(q)] = p
        BY <1>2, <1>4
      <4> QED
        BY <4>1, <4>2, <4>3, <3>2, QueuedAs
    <3>3. CASE r = p
      <4>1. PICK i \in 1..(Len(q) - 1) : Tail(q)[i] = k
        BY <3>1, <3>3, <1>3, <1>2
      <4>2. i + 1 \in 1..Len(q) /\ q[i + 1] = k /\ i + 1 # 1 /\ 1 \in 1..Len(q)
        BY <4>1, <1>2
      <4>3. k # Head(q)
        BY <4>2, <1>2, <1>4
      <4> QED
        BY <4>2, <4>3, <1>2, QueuedAs DEF q
    <3> QED
      BY <3>2, <3>3
  <2>3. ASSUME NEW k \in Queued, k # Head(q) PROVE k \in Queued'
    <3>1. PICK r \in 0..3 : \E i \in DOMAIN queues[r] : queues[r][i] = k
      BY <2>3, QueuedAs
    <3>2. CASE r # p
      BY <3>1, <3>2, <1>3, <2>1
    <3>3. CASE r = p
      <4>1. PICK i \in 1..Len(q) : q[i] = k
        BY <3>1, <3>3, <1>2 DEF q
      <4>2. i # 1 /\ i - 1 \in 1..(Len(q) - 1)
        BY <4>1, <2>3, <1>2
      <4>3. Tail(q)[i - 1] = q[(i - 1) + 1] /\ (i - 1) + 1 = i
        BY <4>1, <4>2, <1>2
      <4>4. i - 1 \in DOMAIN queues'[p] /\ queues'[p][i - 1] = k
        BY <4>1, <4>2, <4>3, <1>2, <1>3
      <4> QED
        BY <4>4, <2>1
    <3> QED
      BY <3>2, <3>3
  <2> QED
    BY <2>2, <2>3
<1> QED
  BY <1>2, <1>3, <1>5, <1>6, <1>7 DEF q

-----------------------------------------------------------------------------
(***************************************************************************)
(* The steps of the pool keep the invariant.                               *)
(***************************************************************************)
(* The accounts depend on the queues, the hands of the workers, the        *)
(* histories and on which jobs were posted.                                *)
LEMMA AccountsKept ==
    ASSUME JobsAccounted, UNCHANGED <<queues, taken, done, dropped>>, stopping => stopping',
           \A j \in Job : ppc'[j] = "idle" <=> ppc[j] = "idle"
    PROVE  JobsAccounted'
<1>1. Queued' = Queued /\ Held' = Held
  BY DEF Queued, QueuedAt, Held
<1> QED
  BY <1>1 DEF JobsAccounted

(* The invariant depends on queues, taken and priorities in these parts. *)
LEMMA QueuesKept ==
    ASSUME QueueInv, UNCHANGED queues PROVE QueueInv' /\ Queued' = Queued
  BY DEF QueueInv, Queued, QueuedAt

(* A worker that ends has nothing in its hands. *)
LEMMA ExitLoopKeeps == ASSUME IInv, NEW w \in Worker, ExitLoop(w) PROVE IInv'
<1> USE DEF IInv, ExitLoop, queueVars, workVars, histVars
<1>1. TypeOK'
  <2>1. Busy' = Busy
    BY DEF TypeOK, Busy
  <2> QED
    BY <2>1 DEF TypeOK, Busy
<1>2. ThreadsInv'
  BY DEF TypeOK, ThreadsInv
<1>3. MutexInv'
  BY WorkerFacts DEF TypeOK, MutexInv
<1>4. TakenInv'
  BY DEF TypeOK, TakenInv
<1>5. (QueueInv /\ StopInv)'
  BY QueuesKept DEF StopInv
<1>6. JobsAccounted'
  BY AccountsKept DEF TypeOK
<1> QED
  BY <1>1, <1>2, <1>3, <1>4, <1>5, <1>6

(* The mutex goes to the worker whose predicate was false. *)
LEMMA FalsePredicateKeeps == ASSUME IInv, NEW w \in Worker, FalsePredicate(w) PROVE IInv'
<1> USE DEF IInv, FalsePredicate, queueVars, workVars, histVars
<1>1. TypeOK'
  <2>1. Busy' = Busy
    BY DEF TypeOK, Busy
  <2> QED
    BY <2>1 DEF TypeOK, Busy
<1>2. ThreadsInv'
  BY DEF TypeOK, ThreadsInv
<1>3. MutexInv'
  BY WorkerFacts DEF TypeOK, MutexInv
<1>4. TakenInv'
  BY DEF TypeOK, TakenInv
<1>5. (QueueInv /\ StopInv)'
  BY QueuesKept DEF StopInv
<1>6. JobsAccounted'
  BY AccountsKept DEF TypeOK
<1> QED
  BY <1>1, <1>2, <1>3, <1>4, <1>5, <1>6

(* The mutex is given back. *)
LEMMA BlockWorkerKeeps == ASSUME IInv, NEW w \in Worker, BlockWorker(w) PROVE IInv'
<1> USE DEF IInv, BlockWorker, queueVars, workVars, histVars
<1>1. TypeOK'
  <2>1. Busy' = Busy
    BY DEF TypeOK, Busy
  <2> QED
    BY <2>1 DEF TypeOK, Busy
<1>2. ThreadsInv'
  BY DEF TypeOK, ThreadsInv
<1>3. MutexInv'
  BY WorkerFacts DEF TypeOK, MutexInv
<1>4. TakenInv'
  BY DEF TypeOK, TakenInv
<1>5. (QueueInv /\ StopInv)'
  BY QueuesKept DEF StopInv
<1>6. JobsAccounted'
  BY AccountsKept DEF TypeOK
<1> QED
  BY <1>1, <1>2, <1>3, <1>4, <1>5, <1>6

(* A worker wakes up without a notification. *)
LEMMA SpuriousWakeKeeps == ASSUME IInv, NEW w \in Worker, SpuriousWake(w) PROVE IInv'
<1> USE DEF IInv, SpuriousWake, queueVars, workVars, histVars
<1>1. TypeOK'
  <2>1. Busy' = Busy
    BY DEF TypeOK, Busy
  <2> QED
    BY <2>1 DEF TypeOK, Busy
<1>2. ThreadsInv'
  BY DEF TypeOK, ThreadsInv
<1>3. MutexInv'
  BY WorkerFacts DEF TypeOK, MutexInv
<1>4. TakenInv'
  BY DEF TypeOK, TakenInv
<1>5. (QueueInv /\ StopInv)'
  BY QueuesKept DEF StopInv
<1>6. JobsAccounted'
  BY AccountsKept DEF TypeOK
<1> QED
  BY <1>1, <1>2, <1>3, <1>4, <1>5, <1>6

(* One more worker is busy. *)
LEMMA BusyUpKeeps == ASSUME IInv, NEW w \in Worker, BusyUp(w) PROVE IInv'
<1> USE DEF IInv, BusyUp, queueVars, workVars, histVars
<1>1. TypeOK'
  <2>1. Busy' = Busy \cup {w} /\ w \notin Busy
    BY DEF TypeOK, Busy
  <2>2. busy' = Cardinality(Busy')
    BY <2>1, BusyFacts DEF TypeOK, Busy
  <2> QED
    BY <2>2 DEF TypeOK, Busy
<1>2. ThreadsInv'
  BY DEF TypeOK, ThreadsInv
<1>3. MutexInv'
  BY WorkerFacts DEF TypeOK, MutexInv
<1>4. TakenInv'
  BY DEF TypeOK, TakenInv
<1>5. (QueueInv /\ StopInv)'
  BY QueuesKept DEF StopInv
<1>6. JobsAccounted'
  BY AccountsKept DEF TypeOK
<1> QED
  BY <1>1, <1>2, <1>3, <1>4, <1>5, <1>6

(* One worker less is busy. *)
LEMMA BusyDownKeeps == ASSUME IInv, NEW w \in Worker, BusyDown(w) PROVE IInv'
<1> USE DEF IInv, BusyDown, queueVars, workVars, histVars
<1>1. TypeOK'
  <2>1. Busy' = Busy \ {w} /\ w \in Busy
    BY DEF TypeOK, Busy
  <2>2. busy' = Cardinality(Busy')
    BY <2>1, BusyFacts DEF TypeOK, Busy
  <2> QED
    BY <2>2 DEF TypeOK, Busy
<1>2. ThreadsInv'
  BY DEF TypeOK, ThreadsInv
<1>3. MutexInv'
  BY WorkerFacts DEF TypeOK, MutexInv
<1>4. TakenInv'
  BY DEF TypeOK, TakenInv
<1>5. (QueueInv /\ StopInv)'
  BY QueuesKept DEF StopInv
<1>6. JobsAccounted'
  BY AccountsKept DEF TypeOK
<1> QED
  BY <1>1, <1>2, <1>3, <1>4, <1>5, <1>6

(* The job leaves the hands of its worker and is done. *)
LEMMA RunJobKeeps == ASSUME IInv, NEW w \in Worker, RunJob(w) PROVE IInv'
<1> USE DEF IInv, RunJob, queueVars, workVars, histVars
<1>1. TypeOK'
  <2>1. Busy' = Busy
    BY DEF TypeOK, Busy
  <2>2. taken[w] \in Job
    BY DEF TypeOK, TakenInv
  <2> QED
    BY <2>1, <2>2 DEF TypeOK, Busy
<1>2. ThreadsInv'
  BY DEF TypeOK, ThreadsInv
<1>3. MutexInv'
  BY WorkerFacts DEF TypeOK, MutexInv
<1>4. TakenInv'
  BY JobAssumption DEF TypeOK, TakenInv
<1>5. (QueueInv /\ StopInv)'
  BY QueuesKept DEF StopInv
<1>6. JobsAccounted'
  <2>1. taken[w] \in Job /\ taken[w] # NoJob /\ taken[w] \in Held
    BY HeldAs DEF TypeOK, TakenInv
  <2>2. Queued' = Queued
    BY QueuesKept
  <2>3. \A v \in Worker : taken'[v] = IF v = w THEN NoJob ELSE taken[v]
    BY DEF TypeOK
  <2>4. \A v \in Worker : (taken[v] = taken[w]) => v = w
    BY <2>1 DEF JobsAccounted
  <2>5. Held' = Held \ {taken[w]}
    <3>1. \A j : j \in Held' <=> j # NoJob /\ \E v \in Worker : taken'[v] = j
      BY DEF Held
    <3> QED
      BY <3>1, <2>3, <2>4, HeldAs
  <2>6. \A u, v \in Worker : taken'[u] = taken'[v] /\ taken'[u] # NoJob => u = v
    BY <2>3 DEF JobsAccounted
  <2> QED
    BY <2>1, <2>2, <2>5, <2>6 DEF JobsAccounted
<1> QED
  BY <1>1, <1>2, <1>3, <1>4, <1>5, <1>6

(* The job goes from its queue into the hands of the worker. *)
LEMMA TakeJobKeeps == ASSUME IInv, NEW w \in Worker, TakeJob(w) PROVE IInv'
<1> USE DEF IInv, TakeJob, queueVars, workVars, histVars
<1>1. TypeOK'
  <2>1. PICK p \in 0..3 : /\ queues[p] # <<>>
                          /\ taken' = [taken EXCEPT ![w] = Head(queues[p])]
                          /\ queues' = [queues EXCEPT ![p] = Tail(@)]
    OBVIOUS
  <2>2. queues' \in [0..3 -> Seq(Job)] /\ Head(queues[p]) \in Job
    BY <2>1, TakeQueues
  <2>3. Busy' = Busy
    BY DEF TypeOK, Busy
  <2> QED
    BY <2>1, <2>2, <2>3 DEF TypeOK, Busy
<1>2. ThreadsInv'
  BY DEF TypeOK, ThreadsInv
<1>3. MutexInv'
  BY WorkerFacts DEF TypeOK, MutexInv
<1>4. TakenInv'
  <2>1. PICK p \in 0..3 : /\ queues[p] # <<>>
                          /\ taken' = [taken EXCEPT ![w] = Head(queues[p])]
                          /\ queues' = [queues EXCEPT ![p] = Tail(@)]
    OBVIOUS
  <2>2. Head(queues[p]) \in Job
    BY <2>1, TakeQueues
  <2> QED
    BY <2>1, <2>2, JobAssumption DEF TypeOK, TakenInv
<1>5. (QueueInv /\ StopInv)'
  <2>1. PICK p \in 0..3 : /\ queues[p] # <<>>
                          /\ taken' = [taken EXCEPT ![w] = Head(queues[p])]
                          /\ queues' = [queues EXCEPT ![p] = Tail(@)]
    OBVIOUS
  <2>2. QueueInv' /\ Head(queues[p]) \in Queued
    BY <2>1, TakeQueues
  <2> QED
    BY <2>2 DEF StopInv
<1>6. JobsAccounted'
  <2>1. PICK p \in 0..3 : /\ queues[p] # <<>>
                          /\ taken' = [taken EXCEPT ![w] = Head(queues[p])]
                          /\ queues' = [queues EXCEPT ![p] = Tail(@)]
    OBVIOUS
  <2> DEFINE h == Head(queues[p])
  <2>2. Queued' = Queued \ {h} /\ h \in Queued /\ h \in Job
    BY <2>1, TakeQueues
  <2> HIDE DEF h
  <2>3. taken[w] = NoJob /\ h # NoJob
    BY <2>2, JobAssumption DEF TypeOK, TakenInv
  <2>4. \A v \in Worker : taken'[v] = IF v = w THEN h ELSE taken[v]
    BY <2>1 DEF TypeOK, h
  <2>5. Held' = Held \cup {h}
    <3>1. \A j : j \in Held' <=> j # NoJob /\ \E v \in Worker : taken'[v] = j
      BY DEF Held
    <3> QED
      BY <3>1, <2>3, <2>4, HeldAs
  <2>6. h \notin Held
    BY <2>2 DEF JobsAccounted
  <2>7. \A u, v \in Worker : taken'[u] = taken'[v] /\ taken'[u] # NoJob => u = v
    BY <2>3, <2>4, <2>6, HeldAs DEF JobsAccounted
  <2> QED
    BY <2>2, <2>5, <2>6, <2>7 DEF JobsAccounted
<1> QED
  BY <1>1, <1>2, <1>3, <1>4, <1>5, <1>6

(* start() makes the first workers. *)
LEMMA StartKeeps == ASSUME IInv, Start PROVE IInv'
<1> USE DEF IInv, Start, queueVars, workVars, histVars
<1>1. TypeOK'
  <2>0. \A w \in Worker : wpc[w] = "none" /\ wpc'[w] \in {"none", "take"}
    BY WorkerFacts DEF ThreadsInv
  <2>1. Busy' = {} /\ Busy = {}
    BY <2>0 DEF Busy
  <2>2. busy' = Cardinality(Busy')
    BY <2>1 DEF TypeOK, Busy
  <2>3. workers' \in 0..MaxWorkers /\ wpc' \in [Worker -> WorkerPc]
    BY WorkerFacts, WorkersAssumption DEF WorkerPc
  <2> QED
    BY <2>2, <2>3 DEF TypeOK, Busy, WorkerPc
<1>2. ThreadsInv'
  BY WorkerFacts, WorkersAssumption DEF TypeOK, ThreadsInv, Worker
<1>3. MutexInv'
  <2>1. \A w \in Worker : wpc[w] = "none" /\ wpc'[w] # "block"
    BY WorkerFacts DEF TypeOK, ThreadsInv, Worker
  <2> QED
    BY <2>1 DEF MutexInv
<1>4. TakenInv'
  <2>1. \A w \in Worker : wpc[w] = "none" /\ wpc'[w] \notin {"taken", "run"}
    BY WorkerFacts DEF TypeOK, ThreadsInv, Worker
  <2> QED
    BY <2>1 DEF TakenInv
<1>5. (QueueInv /\ StopInv)'
  BY QueuesKept DEF StopInv
<1>6. JobsAccounted'
  BY AccountsKept DEF TypeOK
<1> QED
  BY <1>1, <1>2, <1>3, <1>4, <1>5, <1>6

(* Only the caller of post() moves. *)
LEMMA SpawnCheckKeeps == ASSUME IInv, NEW j \in Job, SpawnCheck(j) PROVE IInv'
<1> USE DEF IInv, SpawnCheck, queueVars, workVars, histVars
<1>1. TypeOK'
  <2>1. Busy' = Busy
    BY DEF TypeOK, Busy
  <2> QED
    BY <2>1 DEF TypeOK, Busy
<1>2. ThreadsInv'
  BY DEF TypeOK, ThreadsInv
<1>3. MutexInv'
  BY WorkerFacts DEF TypeOK, MutexInv
<1>4. TakenInv'
  BY DEF TypeOK, TakenInv
<1>5. (QueueInv /\ StopInv)'
  BY QueuesKept DEF StopInv
<1>6. JobsAccounted'
  BY AccountsKept DEF TypeOK
<1> QED
  BY <1>1, <1>2, <1>3, <1>4, <1>5, <1>6

(* A job is queued, or dropped when the pool is stopping. *)
LEMMA PushKeeps == ASSUME IInv, NEW j \in Job, Push(j) PROVE IInv'
<1> USE DEF IInv, Push, queueVars, workVars, histVars
<1>1. TypeOK'
  <2>1. Busy' = Busy
    BY DEF Busy
  <2>2. j \notin Queued
    BY DEF JobsAccounted
  <2>3. queues' \in [0..3 -> Seq(Job)]
    BY <2>2, PushQueues DEF TypeOK
  <2> QED
    BY <2>1, <2>3 DEF TypeOK, Busy
<1>2. ThreadsInv'
  BY DEF TypeOK, ThreadsInv
<1>3. MutexInv'
  BY WorkerFacts DEF TypeOK, MutexInv
<1>4. TakenInv'
  BY DEF TypeOK, TakenInv
<1>5. (QueueInv /\ StopInv)'
  <2>1. CASE stopping
    BY <2>1, QueuesKept DEF StopInv
  <2>2. CASE ~stopping
    <3>1. j \notin Queued
      BY DEF JobsAccounted
    <3>2. QueueInv'
      BY <2>2, <3>1, PushQueues
    <3> QED
      BY <2>2, <3>2 DEF StopInv
  <2> QED
    BY <2>1, <2>2
<1>6. JobsAccounted'
  <2>1. j \notin Queued \cup Held \cup done \cup dropped
    BY DEF JobsAccounted
  <2>2. Held' = Held
    BY DEF Held
  <2>3. \A k \in Job : ppc'[k] # "idle" <=> ppc[k] # "idle" \/ k = j
    BY DEF TypeOK
  <2>4. CASE stopping
    <3>1. Queued' = Queued
      BY <2>4, QueuesKept
    <3> QED
      BY <2>1, <2>2, <2>3, <2>4, <3>1 DEF JobsAccounted
  <2>5. CASE ~stopping
    <3>1. Queued' = Queued \cup {j}
      BY <2>1, <2>5, PushQueues
    <3> QED
      BY <2>1, <2>2, <2>3, <2>5, <3>1 DEF JobsAccounted
  <2> QED
    BY <2>4, <2>5
<1> QED
  BY <1>1, <1>2, <1>3, <1>4, <1>5, <1>6

(* A notification wakes at most one worker that waits. *)
LEMMA NotifyOneKeeps == ASSUME IInv, NEW j \in Job, NotifyOne(j) PROVE IInv'
<1> USE DEF IInv, NotifyOne, queueVars, workVars, histVars
<1>1. TypeOK'
  <2>1. Busy' = Busy /\ wpc' \in [Worker -> WorkerPc]
    BY DEF TypeOK, Busy, Waiting, WorkerPc
  <2> QED
    BY <2>1 DEF TypeOK, Busy, WorkerPc
<1>2. ThreadsInv'
  BY DEF TypeOK, ThreadsInv, Waiting
<1>3. MutexInv'
  BY DEF TypeOK, MutexInv, Waiting
<1>4. TakenInv'
  BY DEF TypeOK, TakenInv, Waiting
<1>5. (QueueInv /\ StopInv)'
  BY QueuesKept DEF StopInv
<1>6. JobsAccounted'
  BY AccountsKept DEF TypeOK
<1> QED
  BY <1>1, <1>2, <1>3, <1>4, <1>5, <1>6

(* A spawned worker is new, and at most one other is woken. *)
LEMMA SpawnEffect ==
    ASSUME IInv, NEW j \in Job, Spawn(j)
    PROVE  /\ wpc' \in [Worker -> WorkerPc]
           /\ \A v \in Worker :
                 \/ wpc'[v] = wpc[v]
                 \/ wpc[v] = "waiting" /\ wpc'[v] = "take"
                 \/ /\ wpc[v] = "none" /\ wpc'[v] = "take" /\ v = workers + 1
                    /\ spc # "fresh" /\ spc # "stopped" /\ workers' = workers + 1
           /\ workers' \in 0..MaxWorkers
           /\ \/ UNCHANGED <<workers, wpc>>
              \/ Queued # {} /\ workers' = workers + 1 /\ wpc'[workers + 1] = "take"
<1> USE DEF IInv, Spawn, queueVars, histVars
<1>1. wpc \in [Worker -> WorkerPc] /\ workers \in 0..MaxWorkers
  BY DEF TypeOK, WorkerPc
<1>2. CASE ~ShouldSpawn
  <2>1. workers' = workers /\ wpc' = wpc
    BY <1>2
  <2> QED
    BY <1>1, <2>1
<1>3. CASE ShouldSpawn
  <2>1. Queued # {} /\ workers < MaxWorkers /\ workers' = workers + 1
    BY <1>3 DEF ShouldSpawn
  <2>2. spc # "stopped" /\ spc # "fresh"
    <3>1. spc # "stopped"
      BY <2>1 DEF StopInv
    <3>2. spc # "fresh"
      BY DEF ThreadsInv
    <3> QED
      BY <3>1, <3>2
  <2>3. workers + 1 \in Worker /\ workers' \in 0..MaxWorkers
    BY <1>1, <2>1, WorkerFacts DEF Worker
  <2>4. wpc[workers + 1] = "none"
    <3>1. workers < workers + 1
      BY <1>1, WorkerFacts
    <3> QED
      BY <2>2, <2>3, <3>1 DEF ThreadsInv
  <2>5. ASSUME wpc' = [wpc EXCEPT ![workers + 1] = "take"]
        PROVE  /\ wpc' \in [Worker -> WorkerPc]
               /\ \A v \in Worker : wpc'[v] = IF v = workers + 1 THEN "take" ELSE wpc[v]
    BY <1>1, <2>3, <2>5 DEF WorkerPc
  <2>6. ASSUME NEW w \in Waiting, wpc' = [wpc EXCEPT ![workers + 1] = "take", ![w] = "take"]
        PROVE  /\ wpc' \in [Worker -> WorkerPc]
               /\ \A v \in Worker : wpc'[v] = IF v \in {w, workers + 1} THEN "take" ELSE wpc[v]
               /\ wpc[w] = "waiting"
    BY <1>1, <2>3, <2>6 DEF Waiting, WorkerPc
  <2>7. CASE wpc' = [wpc EXCEPT ![workers + 1] = "take"]
    BY <2>1, <2>2, <2>3, <2>4, <2>5, <2>7
  <2>8. CASE \E w \in Waiting : wpc' = [wpc EXCEPT ![workers + 1] = "take", ![w] = "take"]
    BY <2>1, <2>2, <2>3, <2>4, <2>6, <2>8
  <2> QED
    BY <1>3, <2>7, <2>8
<1> QED
  BY <1>2, <1>3

(* A worker is spawned while there are jobs in the queues. *)
LEMMA SpawnKeeps == ASSUME IInv, NEW j \in Job, Spawn(j) PROVE IInv'
<1> USE DEF IInv, Spawn, queueVars, workVars, histVars
<1>1. TypeOK'
  <2>1. Busy' = Busy
    BY SpawnEffect DEF Busy
  <2>2. ppc' \in [Job -> {"idle", "spawnCheck", "spawn", "notify", "returned"}]
    BY DEF TypeOK
  <2> QED
    BY <2>1, <2>2, SpawnEffect DEF TypeOK, Busy, WorkerPc
<1>2. ThreadsInv'
  <2>1. spc # "fresh"
    BY DEF ThreadsInv
  <2>2. CASE UNCHANGED <<workers, wpc>>
    BY <2>1, <2>2 DEF ThreadsInv
  <2>3. CASE ~UNCHANGED <<workers, wpc>>
    <3>1. Queued # {} /\ workers' = workers + 1 /\ wpc'[workers + 1] = "take"
      BY <2>3, SpawnEffect
    <3>2. spc # "stopped"
      BY <3>1 DEF StopInv
    <3>3. workers \in Nat
      BY WorkerFacts DEF TypeOK
    <3>4. ASSUME NEW v \in Worker PROVE wpc'[v] = "none" <=> workers' < v
      <4>1. v \in Nat /\ (wpc[v] = "none" <=> workers < v)
        BY <3>2, WorkerFacts DEF ThreadsInv
      <4>2. CASE v = workers + 1
        BY <3>1, <3>3, <4>1, <4>2
      <4>3. CASE v # workers + 1
        <5>1. wpc'[v] = "none" <=> wpc[v] = "none"
          BY <4>3, SpawnEffect
        <5> QED
          BY <3>1, <3>3, <4>1, <4>3, <5>1
      <4> QED
        BY <4>2, <4>3
    <3> QED
      BY <2>1, <3>2, <3>4 DEF ThreadsInv
  <2> QED
    BY <2>2, <2>3
<1>3. MutexInv'
  BY SpawnEffect DEF MutexInv
<1>4. TakenInv'
  BY SpawnEffect DEF TakenInv
<1>5. (QueueInv /\ StopInv)'
  BY QueuesKept DEF StopInv
<1>6. JobsAccounted'
  BY AccountsKept DEF TypeOK
<1> QED
  BY <1>1, <1>2, <1>3, <1>4, <1>5, <1>6

(* The flag is raised. *)
LEMMA SetStoppingKeeps == ASSUME IInv, SetStopping PROVE IInv'
<1> USE DEF IInv, SetStopping, queueVars, workVars, histVars
<1>1. TypeOK'
  BY DEF TypeOK
<1>2. ThreadsInv'
  BY DEF TypeOK, ThreadsInv
<1>3. MutexInv'
  BY WorkerFacts DEF TypeOK, MutexInv
<1>4. TakenInv'
  BY DEF TypeOK, TakenInv
<1>5. (QueueInv /\ StopInv)'
  BY QueuesKept DEF StopInv
<1>6. JobsAccounted'
  BY AccountsKept DEF TypeOK
<1> QED
  BY <1>1, <1>2, <1>3, <1>4, <1>5, <1>6

(* What was queued is dropped. *)
LEMMA ClearQueuesKeeps == ASSUME IInv, ClearQueues PROVE IInv'
<1> USE DEF IInv, ClearQueues, queueVars, workVars, histVars
<1>1. TypeOK'
  <2>1. Queued \subseteq Job
    <3>1. \A p \in 0..3 : \A i \in DOMAIN queues[p] : queues[p][i] \in Job
      BY DEF TypeOK
    <3> QED
      BY <3>1, QueuedAs
  <2> QED
    BY <2>1 DEF TypeOK
<1>2. ThreadsInv'
  BY DEF TypeOK, ThreadsInv
<1>3. MutexInv'
  BY WorkerFacts DEF TypeOK, MutexInv
<1>4. TakenInv'
  BY DEF TypeOK, TakenInv
<1>5. (QueueInv /\ StopInv)'
  <2>1. \A p \in 0..3 : queues'[p] = <<>> /\ DOMAIN queues'[p] = {}
    OBVIOUS
  <2>2. Queued' = {}
    BY <2>1 DEF Queued, QueuedAt
  <2> QED
    BY <2>1, <2>2 DEF QueueInv, StopInv
<1>6. JobsAccounted'
  <2>1. \A p \in 0..3 : queues'[p] = <<>> /\ DOMAIN queues'[p] = {}
    OBVIOUS
  <2>2. Queued' = {}
    BY <2>1 DEF Queued, QueuedAt
  <2>3. Held' = Held
    BY DEF Held
  <2> QED
    BY <2>2, <2>3 DEF JobsAccounted, StopInv
<1> QED
  BY <1>1, <1>2, <1>3, <1>4, <1>5, <1>6

(* Every worker that waits is woken. *)
LEMMA NotifyAllKeeps == ASSUME IInv, NotifyAll PROVE IInv'
<1> USE DEF IInv, NotifyAll, queueVars, workVars, histVars
<1>1. TypeOK'
  <2>1. Busy' = Busy
    BY DEF TypeOK, Busy
  <2> QED
    BY <2>1 DEF TypeOK, Busy
<1>2. ThreadsInv'
  BY DEF TypeOK, ThreadsInv
<1>3. MutexInv'
  BY WorkerFacts DEF TypeOK, MutexInv
<1>4. TakenInv'
  BY DEF TypeOK, TakenInv
<1>5. (QueueInv /\ StopInv)'
  BY QueuesKept DEF StopInv
<1>6. JobsAccounted'
  BY AccountsKept DEF TypeOK
<1> QED
  BY <1>1, <1>2, <1>3, <1>4, <1>5, <1>6

(* Every thread has ended. *)
LEMMA JoinAllKeeps == ASSUME IInv, JoinAll PROVE IInv'
<1> USE DEF IInv, JoinAll, queueVars, workVars, histVars
<1>1. TypeOK'
  <2>0. \A w \in Worker : wpc[w] \in {"none", "exited"}
    <3>1. \A w \in Worker : workers < w \/ w \in 1..workers
      BY WorkerFacts DEF TypeOK
    <3> QED
      BY <3>1 DEF ThreadsInv
  <2>1. Busy' = {}
    BY <2>0 DEF Busy
  <2>2. busy' = Cardinality(Busy') /\ workers' \in 0..MaxWorkers
    BY <2>1, FS_EmptySet, WorkerFacts
  <2> QED
    BY <2>2 DEF TypeOK, Busy
<1>2. ThreadsInv'
  BY WorkerFacts DEF TypeOK, ThreadsInv, Worker
<1>3. MutexInv'
  BY WorkerFacts DEF TypeOK, MutexInv
<1>4. TakenInv'
  BY DEF TypeOK, TakenInv
<1>5. (QueueInv /\ StopInv)'
  BY QueuesKept DEF StopInv
<1>6. JobsAccounted'
  BY AccountsKept DEF TypeOK
<1> QED
  BY <1>1, <1>2, <1>3, <1>4, <1>5, <1>6

-----------------------------------------------------------------------------
(***************************************************************************)
(* The theorems.                                                           *)
(***************************************************************************)
(* A pool that was not started satisfies the invariant. *)
LEMMA InitInv == Init => IInv
<1> SUFFICES ASSUME Init PROVE IInv
  OBVIOUS
<1> USE DEF Init
<1>1. Queued = {} /\ Held = {} /\ Busy = {}
  <2>1. \A p \in 0..3 : DOMAIN queues[p] = {}
    OBVIOUS
  <2>2. \A w \in Worker : taken[w] = NoJob /\ wpc[w] = "none"
    OBVIOUS
  <2> QED
    BY <2>1, <2>2, QueuedAs, HeldAs DEF Busy
<1>2. TypeOK
  <2>1. busy = Cardinality(Busy)
    BY <1>1, FS_EmptySet
  <2>2. queues \in [0..3 -> Seq(Job)] /\ workers \in 0..MaxWorkers
    BY WorkerFacts
  <2>3. wpc \in [Worker -> WorkerPc] /\ taken \in [Worker -> Job \cup {NoJob}]
    BY DEF WorkerPc
  <2>4. /\ ppc \in [Job -> {"idle", "spawnCheck", "spawn", "notify", "returned"}]
        /\ stopping \in BOOLEAN /\ done \subseteq Job /\ dropped \subseteq Job
        /\ mtx \in Worker \cup {Free}
        /\ spc \in {"fresh", "idle", "clear", "notify", "join", "stopped"}
    OBVIOUS
  <2> HIDE DEF Init
  <2> QED
    BY <2>1, <2>2, <2>3, <2>4 DEF TypeOK, Busy, WorkerPc
<1>3. ThreadsInv /\ MutexInv /\ TakenInv /\ StopInv
  BY <1>1, WorkerFacts DEF ThreadsInv, MutexInv, TakenInv, StopInv
<1>4. QueueInv /\ JobsAccounted
  BY <1>1 DEF QueueInv, JobsAccounted
<1> QED
  BY <1>2, <1>3, <1>4 DEF IInv

(* Every step of the pool keeps the invariant. *)
LEMMA StepInv == IInv /\ [Next]_vars => IInv'
<1> SUFFICES ASSUME IInv, [Next]_vars PROVE IInv'
  OBVIOUS
<1>1. CASE UNCHANGED vars
  <2> USE <1>1 DEF vars, queueVars, workVars, histVars, IInv
  <2>1. TypeOK'
    BY DEF TypeOK
  <2>2. (ThreadsInv /\ MutexInv /\ TakenInv)'
    BY DEF ThreadsInv, MutexInv, TakenInv
  <2>3. (QueueInv /\ StopInv)'
    BY QueuesKept DEF StopInv
  <2>4. JobsAccounted'
    BY AccountsKept
  <2> QED
    BY <2>1, <2>2, <2>3, <2>4
<1>2. CASE Start \/ Stop
  BY <1>2, StartKeeps, SetStoppingKeeps, ClearQueuesKeeps, NotifyAllKeeps, JoinAllKeeps DEF Stop
<1>3. ASSUME NEW j \in Job, Post(j) PROVE IInv'
  BY <1>3, PushKeeps, SpawnCheckKeeps, SpawnKeeps, NotifyOneKeeps DEF Post
<1>4. ASSUME NEW w \in Worker, Lock(w) PROVE IInv'
  BY <1>4, TakeJobKeeps, ExitLoopKeeps, FalsePredicateKeeps DEF Lock
<1>5. ASSUME NEW w \in Worker, Work(w) \/ SpuriousWake(w) PROVE IInv'
  BY <1>5, BlockWorkerKeeps, BusyUpKeeps, RunJobKeeps, BusyDownKeeps, SpuriousWakeKeeps DEF Work
<1> QED
  BY <1>1, <1>2, <1>3, <1>4, <1>5 DEF Next, Stopped

(* After stop() no worker is left and nothing is queued or held. *)
LEMMA InvSound == IInv => PoolSound
<1> SUFFICES ASSUME IInv PROVE PoolSound
  OBVIOUS
<1>1. spc = "stopped" => Held = {}
  BY HeldAs DEF IInv, ThreadsInv, TakenInv
<1>2. QuietAfterStop
  BY <1>1 DEF IInv, QuietAfterStop, ThreadsInv, StopInv
<1> QED
  BY <1>2 DEF IInv, PoolSound

(* The pool is sound, for every set of jobs, every assignment of           *)
(* priorities and every number of workers: busy counts the workers inside  *)
(* job(), post, take_job and stop lose and duplicate no job, and nothing   *)
(* runs once stop() has returned.                                          *)
THEOREM PoolIsSound == Spec => []PoolSound
<1>1. Spec => []IInv
  BY InitInv, StepInv, PTL DEF Spec
<1> QED
  BY <1>1, InvSound, PTL

(* A worker is added only while jobs are queued. *)
LEMMA SpawnStep ==
    ASSUME IInv, [Next]_vars, spc \in {"notify", "join", "stopped"} PROVE workers' <= workers
<1>1. Queued = {} /\ workers \in Nat /\ spc # "fresh"
  BY WorkerFacts DEF IInv, StopInv, TypeOK
<1>2. CASE UNCHANGED workers
  BY <1>1, <1>2
<1>3. CASE JoinAll
  BY <1>1, <1>3 DEF JoinAll
<1>4. ASSUME NEW j \in Job, Spawn(j) PROVE UNCHANGED workers
  BY <1>1, <1>4 DEF Spawn, ShouldSpawn
<1>5. CASE Stop
  BY <1>1, <1>2, <1>3, <1>5 DEF Stop, SetStopping, ClearQueues, NotifyAll
<1>6. ASSUME NEW j \in Job, Post(j) PROVE UNCHANGED workers
  BY <1>4, <1>6 DEF Post, Push, SpawnCheck, NotifyOne
<1>7. ASSUME NEW w \in Worker, Lock(w) \/ Work(w) \/ SpuriousWake(w) PROVE UNCHANGED workers
  BY <1>7 DEF Lock, Work, SpuriousWake, TakeJob, ExitLoop, FalsePredicate, BlockWorker, BusyUp,
             RunJob, BusyDown
<1> QED
  BY <1>1, <1>2, <1>5, <1>6, <1>7 DEF Next, Stopped, Start, vars

(* While stop() reads _workers without the mutex no caller of post() adds  *)
(* a worker, although maybeSpawnWorker does not read _stopping again under *)
(* the mutex.                                                              *)
THEOREM NoSpawn == Spec => NoSpawnWhileJoining
<1>1. Spec => []IInv
  BY InitInv, StepInv, PTL DEF Spec
<1>2. IInv /\ [Next]_vars => [(spc \in {"notify", "join", "stopped"}) => workers' <= workers]_vars
  BY SpawnStep
<1> QED
  BY <1>1, <1>2, PTL DEF Spec, NoSpawnWhileJoining

=============================================================================
