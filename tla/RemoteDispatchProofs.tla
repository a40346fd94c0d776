------------------------ MODULE RemoteDispatchProofs ------------------------
(***************************************************************************)
(* Proofs about RemoteDispatch, for every set of workers, queues and       *)
(* dispatches, every number of retries and all time limits: the selectors  *)
(* return a candidate, attempts and calls are accounted for, a worker that *)
(* has been down for too long is not picked, and a retry goes elsewhere.   *)
(***************************************************************************)
EXTENDS RemoteDispatch, FiniteSetTheorems, WellFoundedInduction, TLAPS

(* The two halves of the type invariant. *)
RegistryOK ==
    /\ workers \in [Worker -> Entry \cup {Absent}]
    /\ cursor \in [Queue -> 0..(Cardinality(Worker) - 1)]
    /\ strategy \in {"rr", "least-load"}
    /\ up \in [Worker -> BOOLEAN] /\ registered \in [Worker -> BOOLEAN]
    /\ down \in [Worker -> 0..AliveFor]
CallsOK ==
    /\ dpc \in [Dispatch -> {"start", "pick", "post", "mark", "returned"}]
    /\ tries \in [Dispatch -> 1..MaxAttempts]
    /\ target \in [Dispatch -> Worker \cup {NoWorker}]
    /\ abort \in [Dispatch -> {"none", "Canceled", "Timeout"}]
    /\ result \in [Dispatch -> {"Pending", "Success", "Failed", "Canceled", "Timeout"}]
    /\ runs \in [Dispatch -> 0..MaxAttempts] /\ late \in [Dispatch -> 0..MaxAttempts]
    /\ shunned \in [Dispatch -> Worker \cup {NoWorker}]

(* A call goes to a worker; every attempt makes at most one, and what was  *)
(* reported as Success was taken by a worker.                              *)
CallInv == \A d \in Dispatch :
    /\ dpc[d] \in {"post", "mark"} => target[d] \in Worker
    /\ dpc[d] \in {"start", "pick", "post"} => runs[d] < tries[d]
    /\ runs[d] <= tries[d]
    /\ result[d] = "Success" => runs[d] > 0

(* A late call was the last one: the loop looks at the abort before it     *)
(* picks again.                                                            *)
LateInv == \A d \in Dispatch :
    /\ late[d] <= 1
    /\ late[d] > 0 => abort[d] # "none" /\ dpc[d] \notin {"start", "post"}

(* The entry of a worker that is down is at least as old as its downtime. *)
DownInv == \A w \in Worker : (workers[w] # Absent /\ ~up[w]) => down[w] <= workers[w].age

(* The worker a dispatch has marked is known and still cools down. *)
ShunInv == \A d \in Dispatch : shunned[d] # NoWorker =>
    workers[shunned[d]] # Absent /\ workers[shunned[d]].cool > 0

IInv == RegistryOK /\ CallsOK /\ CallInv /\ LateInv /\ DownInv /\ ShunInv

-----------------------------------------------------------------------------
(***************************************************************************)
(* The selectors.                                                          *)
(***************************************************************************)
(* A set of numbers that is not empty has a least element. *)
LEMMA LeastExists ==
    ASSUME NEW S, S \subseteq Nat, S # {} PROVE \E m \in S : \A k \in S : m <= k
<1>1. PICK m \in S : \A k \in S : ~(<<k, m>> \in OpToRel(<, Nat))
  BY NatLessThanWellFounded, WFMin
<1>2. \A k \in S : ~(k < m)
  BY <1>1 DEF OpToRel
<1> QED
  BY <1>2

(* The number of smaller elements, the place of an element in the order,   *)
(* takes every value below the size of a finite set.                       *)
LEMMA RankExists ==
    ASSUME NEW S, S \subseteq Nat, IsFiniteSet(S), NEW n \in Nat, n < Cardinality(S)
    PROVE  \E w \in S : Cardinality({v \in S : v < w}) = n
<1> DEFINE Below(w) == {v \in S : v < w}
           Missing  == {i \in Nat : i < Cardinality(S) /\ \A w \in S : Cardinality(Below(w)) # i}
<1>1. Cardinality(S) \in Nat /\ S # {}
  BY FS_CardinalityType, FS_EmptySet
<1> SUFFICES ASSUME Missing # {} PROVE FALSE
  OBVIOUS
<1>2. PICK i \in Missing : \A k \in Missing : i <= k
  <2> HIDE DEF Missing
  <2>1. Missing \subseteq Nat
    BY DEF Missing
  <2> QED
    BY <2>1, LeastExists
<1>3. i \in Nat /\ i < Cardinality(S) /\ \A w \in S : Cardinality(Below(w)) # i
  OBVIOUS
<1>4. CASE i = 0
  <2>1. PICK m \in S : \A k \in S : m <= k
    BY <1>1, LeastExists
  <2>2. Below(m) = {}
    <3>1. \A k \in S : ~(k < m)
      BY <2>1
    <3> QED
      BY <3>1
  <2> QED
    BY <1>3, <1>4, <2>2, FS_EmptySet
<1>5. CASE i # 0
  <2>1. PICK w \in S : Cardinality(Below(w)) = i - 1
    <3>1. i - 1 \in Nat /\ i - 1 < Cardinality(S) /\ ~(i <= i - 1)
      BY <1>1, <1>3, <1>5
    <3>2. i - 1 \notin Missing
      BY <1>2, <3>1
    <3> QED
      BY <3>1, <3>2
  <2> DEFINE Upto  == Below(w) \cup {w}
             Above == {v \in S : w < v}
  <2>2. IsFiniteSet(Below(w)) /\ w \notin Below(w)
    BY FS_Subset
  <2>3. Cardinality(Upto) = i
    <3>1. Cardinality(Upto) = Cardinality(Below(w)) + 1
      BY <2>2, FS_AddElement
    <3> QED
      BY <2>1, <3>1, <1>3
  <2>4. Above # {}
    <3> SUFFICES ASSUME Above = {} PROVE FALSE
      OBVIOUS
    <3>1. \A v \in S : v \in Upto
      <4>1. \A v \in S : v < w \/ v = w \/ w < v
        OBVIOUS
      <4> QED
        BY <4>1
    <3>2. S = Upto
      BY <3>1
    <3> QED
      BY <3>2, <2>3, <1>3
  <2>5. PICK u \in Above : \A v \in Above : u <= v
    <3>1. Above \subseteq Nat
      OBVIOUS
    <3> HIDE DEF Above
    <3> QED
      BY <3>1, <2>4, LeastExists
  <2>6. Below(u) = Upto
    <3>1. \A v \in S : v < u <=> (v < w \/ v = w)
      <4>1. w \in Nat /\ u \in Nat /\ w < u /\ \A v \in S : v \in Nat /\ (w < v => u <= v)
        BY <2>5
      <4> QED
        BY <4>1
    <3> QED
      BY <3>1
  <2> QED
    BY <1>3, <2>3, <2>5, <2>6
<1> QED
  BY <1>4, <1>5

(* The candidates for a queue are known, alive workers. *)
LEMMA CandidateFacts ==
    ASSUME NEW q
    PROVE  /\ Candidates(q) \subseteq Eligible(q) /\ Eligible(q) \subseteq Known
           /\ Known \subseteq Worker /\ Candidates(q) \subseteq Nat
           /\ IsFiniteSet(Candidates(q)) /\ Cardinality(Candidates(q)) \in Nat
           /\ Cardinality(Candidates(q)) <= Cardinality(Worker)
           /\ Cardinality(Candidates(q)) = 0 <=> Candidates(q) = {}
<1>1. Candidates(q) \subseteq Eligible(q) /\ Eligible(q) \subseteq Known /\ Known \subseteq Worker
  BY DEF Candidates, Rested, Eligible, Known
<1>2. Candidates(q) \in SUBSET Worker
  BY <1>1
<1>3. IsFiniteSet(Candidates(q)) /\ Cardinality(Candidates(q)) <= Cardinality(Worker)
  BY <1>2, WorkerAssumption, FS_Subset
<1> QED
  BY <1>1, <1>2, <1>3, WorkerAssumption, FS_CardinalityType, FS_EmptySet

(* Both selectors return a candidate, whatever the cursor says. *)
THEOREM SelectorsPickCandidates ==
    ASSUME RegistryOK, NEW q \in Queue, Candidates(q) # {}
    PROVE  pickWorkerForQueue(q) \in Candidates(q)
<1> DEFINE C == Candidates(q)
<1>1. C \subseteq Nat /\ IsFiniteSet(C) /\ Cardinality(C) \in Nat /\ Cardinality(C) # 0 /\ C # {}
  BY CandidateFacts
<1>2. Index(q) \in Nat /\ Index(q) < Cardinality(C)
  <2>1. cursor[q] \in Nat
    BY WorkerAssumption, FS_CardinalityType DEF RegistryOK
  <2> QED
    BY <1>1, <2>1 DEF Index
<1> HIDE DEF C
<1>3. LeastLoad(q) \in C
  <2>1. \E m \in C : \A k \in C : m <= k
    BY <1>1, LeastExists
  <2> QED
    BY <2>1 DEF LeastLoad, C
<1>4. RoundRobin(q) \in C
  <2>1. \E w \in C : Cardinality({v \in C : v < w}) = Index(q)
    BY <1>1, <1>2, RankExists
  <2> QED
    BY <2>1 DEF RoundRobin, C
<1> QED
  BY <1>3, <1>4 DEF pickWorkerForQueue, C

(* The cursor of every queue stays below the number of workers. *)
LEMMA CursorBounded ==
    ASSUME RegistryOK, NEW q \in Queue, Candidates(q) # {}
    PROVE  CursorAfter(q) \in [Queue -> 0..(Cardinality(Worker) - 1)]
<1> DEFINE n == Cardinality(Candidates(q))
<1>1. n \in Nat /\ n # 0 /\ n <= Cardinality(Worker) /\ Cardinality(Worker) \in Nat
  BY CandidateFacts, WorkerAssumption, FS_CardinalityType
<1>2. cursor \in [Queue -> 0..(Cardinality(Worker) - 1)] /\ cursor[q] \in Nat
  BY <1>1 DEF RegistryOK
<1>3. Index(q) \in Nat
  BY <1>2 DEF Index
<1> HIDE DEF n
<1>4. (Index(q) + 1) % n \in 0..(n - 1)
  BY <1>1, <1>3
<1>5. (Index(q) + 1) % n \in 0..(Cardinality(Worker) - 1)
  BY <1>1, <1>4
<1> QED
  BY <1>2, <1>5 DEF CursorAfter, Advance, n

-----------------------------------------------------------------------------
(***************************************************************************)
(* The steps of a dispatch keep the invariant.                             *)
(***************************************************************************)
(* There is at least one attempt. *)
LEMMA Attempts == MaxAttempts \in Nat \ {0}
  BY DispatchAssumption DEF MaxAttempts

(* The head of execute(). *)
LEMMA StartKeeps == ASSUME IInv, NEW d \in Dispatch, NEW parsed \in BOOLEAN, Start(d, parsed) PROVE IInv'
<1> USE DEF IInv, Start, Goto, Give, registryVars, workerVars, callVars
<1>1. RegistryOK'
  BY DEF RegistryOK
<1>2. CallsOK'
  BY Attempts DEF CallsOK
<1>3. CallInv'
  BY Attempts DEF CallsOK, CallInv
<1>4. LateInv'
  BY Attempts DEF CallsOK, LateInv
<1>5. (DownInv /\ ShunInv)'
  BY DEF DownInv, ShunInv
<1> QED
  BY <1>1, <1>2, <1>3, <1>4, <1>5

(* The abort is seen at the head of the loop. *)
LEMMA PickAbortedKeeps == ASSUME IInv, NEW d \in Dispatch, PickAborted(d) PROVE IInv'
<1> USE DEF IInv, PickAborted, Goto, Give, registryVars, workerVars, callVars
<1>1. RegistryOK'
  BY DEF RegistryOK
<1>2. CallsOK'
  BY Attempts DEF CallsOK
<1>3. CallInv'
  BY Attempts DEF CallsOK, CallInv
<1>4. LateInv'
  BY Attempts DEF CallsOK, LateInv
<1>5. (DownInv /\ ShunInv)'
  BY DEF DownInv, ShunInv
<1> QED
  BY <1>1, <1>2, <1>3, <1>4, <1>5

(* There is no candidate. *)
LEMMA PickNoneKeeps == ASSUME IInv, NEW d \in Dispatch, PickNone(d) PROVE IInv'
<1> USE DEF IInv, PickNone, Goto, Give, registryVars, workerVars, callVars
<1>1. RegistryOK'
  BY DEF RegistryOK
<1>2. CallsOK'
  BY Attempts DEF CallsOK
<1>3. CallInv'
  BY Attempts DEF CallsOK, CallInv
<1>4. LateInv'
  BY Attempts DEF CallsOK, LateInv
<1>5. (DownInv /\ ShunInv)'
  BY DEF DownInv, ShunInv
<1> QED
  BY <1>1, <1>2, <1>3, <1>4, <1>5

(* A candidate is picked. *)
LEMMA PickKeeps == ASSUME IInv, NEW d \in Dispatch, Pick(d) PROVE IInv'
<1> USE DEF IInv, Pick, Goto, Give, registryVars, workerVars, callVars
<1>1. RegistryOK'
  <2>1. QueueOf[d] \in Queue
    BY DispatchAssumption
  <2>2. cursor' \in [Queue -> 0..(Cardinality(Worker) - 1)]
    BY <2>1, CursorBounded
  <2> QED
    BY <2>2 DEF RegistryOK
<1>2. CallsOK'
  <2>1. pickWorkerForQueue(QueueOf[d]) \in Worker
    BY DispatchAssumption, SelectorsPickCandidates, CandidateFacts
  <2> QED
    BY <2>1 DEF CallsOK
<1>3. CallInv'
  <2>1. pickWorkerForQueue(QueueOf[d]) \in Worker
    BY DispatchAssumption, SelectorsPickCandidates, CandidateFacts
  <2> QED
    BY <2>1 DEF CallsOK, CallInv
<1>4. LateInv'
  BY Attempts DEF CallsOK, LateInv
<1>5. (DownInv /\ ShunInv)'
  BY DEF DownInv, ShunInv
<1> QED
  BY <1>1, <1>2, <1>3, <1>4, <1>5

(* The deadline is seen before the call. *)
LEMMA PostTooLateKeeps == ASSUME IInv, NEW d \in Dispatch, PostTooLate(d) PROVE IInv'
<1> USE DEF IInv, PostTooLate, Goto, Give, registryVars, workerVars, callVars
<1>1. RegistryOK'
  BY DEF RegistryOK
<1>2. CallsOK'
  BY Attempts DEF CallsOK
<1>3. CallInv'
  BY Attempts DEF CallsOK, CallInv
<1>4. LateInv'
  BY Attempts DEF CallsOK, LateInv
<1>5. (DownInv /\ ShunInv)'
  BY DEF DownInv, ShunInv
<1> QED
  BY <1>1, <1>2, <1>3, <1>4, <1>5

(* The call is made. *)
LEMMA PostKeeps == ASSUME IInv, NEW d \in Dispatch, NEW a \in Answers, Post(d, a) PROVE IInv'
<1> USE DEF IInv, Post, Goto, Give, registryVars, workerVars, callVars
<1>1. RegistryOK'
  BY DEF RegistryOK
<1>2. CallsOK'
  <2>1. /\ runs[d] \in Nat /\ tries[d] \in Nat /\ runs[d] < tries[d] /\ tries[d] <= MaxAttempts
        /\ late[d] \in Nat /\ late[d] <= 1 /\ abort[d] \in {"none", "Canceled", "Timeout"}
    BY Attempts DEF CallsOK, CallInv, LateInv
  <2>2. Outcome(d, a) \in {"Success", "Failed", "Canceled", "Timeout"}
    BY <2>1 DEF Outcome
  <2>3. late[d] = 0
    BY <2>1 DEF LateInv
  <2>4. result' \in [Dispatch -> {"Pending", "Success", "Failed", "Canceled", "Timeout"}]
    BY <2>2 DEF CallsOK
  <2>5. runs' \in [Dispatch -> 0..MaxAttempts]
    BY <2>1, Attempts DEF CallsOK
  <2>6. late' \in [Dispatch -> 0..MaxAttempts]
    BY <2>1, <2>3, Attempts DEF CallsOK
  <2> QED
    BY <2>4, <2>5, <2>6 DEF CallsOK
<1>3. CallInv'
  <2>1. /\ runs[d] \in Nat /\ tries[d] \in Nat /\ runs[d] < tries[d] /\ tries[d] <= MaxAttempts
        /\ late[d] \in Nat /\ late[d] <= 1 /\ abort[d] \in {"none", "Canceled", "Timeout"}
    BY Attempts DEF CallsOK, CallInv, LateInv
  <2>2. Outcome(d, a) = "Success" => Taken(a)
    BY <2>1 DEF Outcome, Taken
  <2>3. /\ dpc'[d] \in {"mark", "returned"}
        /\ result'[d] = Outcome(d, a)
        /\ runs'[d] = IF Taken(a) THEN runs[d] + 1 ELSE runs[d]
        /\ target[d] \in Worker
    BY DEF CallsOK, CallInv
  <2>4. \A e \in Dispatch : e # d =>
          dpc'[e] = dpc[e] /\ result'[e] = result[e] /\ runs'[e] = runs[e]
    BY DEF CallsOK
  <2> QED
    BY <2>1, <2>2, <2>3, <2>4 DEF CallInv
<1>4. LateInv'
  <2>1. /\ runs[d] \in Nat /\ tries[d] \in Nat /\ runs[d] < tries[d] /\ tries[d] <= MaxAttempts
        /\ late[d] \in Nat /\ late[d] <= 1 /\ abort[d] \in {"none", "Canceled", "Timeout"}
    BY Attempts DEF CallsOK, CallInv, LateInv
  <2>2. late[d] = 0
    BY <2>1 DEF LateInv
  <2>3. /\ dpc'[d] \in {"mark", "returned"}
        /\ late'[d] = IF abort[d] # "none" THEN late[d] + 1 ELSE late[d]
    BY DEF CallsOK
  <2>4. \A e \in Dispatch : e # d => dpc'[e] = dpc[e] /\ late'[e] = late[e]
    BY DEF CallsOK
  <2> QED
    BY <2>2, <2>3, <2>4 DEF LateInv
<1>5. (DownInv /\ ShunInv)'
  BY DEF DownInv, ShunInv
<1> QED
  BY <1>1, <1>2, <1>3, <1>4, <1>5

(* The worker cools down. *)
LEMMA MarkKeeps == ASSUME IInv, NEW d \in Dispatch, Mark(d) PROVE IInv'
<1> USE DEF IInv, Mark, Goto, Give, registryVars, workerVars, callVars
<1>1. RegistryOK'
  <2>1. target[d] \in Worker /\ Cooldown \in 0..Cooldown /\ Cooldown > 0
    BY TimeAssumption DEF CallInv
  <2>2. CASE target[d] \notin Known
    BY <2>2 DEF markDispatchFailure, RegistryOK
  <2>3. CASE target[d] \in Known
    <3>1. workers[target[d]] \in Entry
      BY <2>1, <2>3 DEF RegistryOK, Known
    <3>2. [workers[target[d]] EXCEPT !.cool = Cooldown] \in Entry
      BY <2>1, <3>1 DEF Entry
    <3>3. workers' = [workers EXCEPT ![target[d]] = [workers[target[d]] EXCEPT !.cool = Cooldown]]
      BY <2>1, <2>3 DEF markDispatchFailure, RegistryOK
    <3> QED
      BY <3>2, <3>3 DEF RegistryOK
  <2> QED
    BY <2>2, <2>3
<1>2. CallsOK'
  <2>1. tries[d] \in 1..MaxAttempts
    BY DEF CallsOK
  <2>2. tries' \in [Dispatch -> 1..MaxAttempts]
    BY <2>1, Attempts DEF CallsOK
  <2>3. target[d] \in Worker
    BY DEF CallInv
  <2> QED
    BY <2>2, <2>3 DEF CallsOK
<1>3. CallInv'
  BY Attempts DEF CallsOK, CallInv
<1>4. LateInv'
  BY Attempts DEF CallsOK, LateInv
<1>5. (DownInv /\ ShunInv)'
  <2>1. target[d] \in Worker /\ Cooldown \in 0..Cooldown /\ Cooldown > 0
    BY TimeAssumption DEF CallInv
  <2>2. ASSUME NEW w \in Worker
        PROVE  workers'[w] = IF w = target[d] /\ w \in Known THEN [workers[w] EXCEPT !.cool = Cooldown]
                                                             ELSE workers[w]
    BY <2>1 DEF markDispatchFailure, RegistryOK
  <2>3. \A w \in Worker : w \in Known => workers[w] \in Entry
    BY DEF RegistryOK, Known
  <2>4. DownInv'
    <3>1. ASSUME NEW w \in Worker, workers'[w] # Absent, ~up[w] PROVE down[w] <= workers'[w].age
      <4>1. CASE w = target[d] /\ w \in Known
        BY <4>1, <3>1, <2>2, <2>3 DEF DownInv, Known, Entry
      <4>2. CASE ~(w = target[d] /\ w \in Known)
        BY <4>2, <3>1, <2>2 DEF DownInv
      <4> QED
        BY <4>1, <4>2
    <3> QED
      BY <3>1 DEF DownInv
  <2>5. ShunInv'
    <3> SUFFICES ASSUME NEW e \in Dispatch, shunned'[e] # NoWorker
                 PROVE  workers'[shunned'[e]] # Absent /\ workers'[shunned'[e]].cool > 0
      BY DEF ShunInv
    <3> DEFINE w == shunned'[e]
    <3>1. w \in Worker /\ w \in Known /\ (w # target[d] => workers[w].cool > 0)
      BY <2>1 DEF CallsOK, ShunInv, Known
    <3> HIDE DEF w
    <3>2. CASE w = target[d]
      <4>1. workers'[w] = [workers[w] EXCEPT !.cool = Cooldown] /\ workers[w] \in Entry
        BY <3>1, <3>2, <2>2, <2>3
      <4>2. workers'[w].cool = Cooldown
        BY <4>1 DEF Entry
      <4>3. workers'[w] # Absent
        BY AbsentAssumption, <4>1, <2>1 DEF Entry
      <4> QED
        BY <4>2, <4>3, <2>1 DEF w
    <3>3. CASE w # target[d]
      BY <3>1, <3>3, <2>2 DEF w, Known
    <3> QED
      BY <3>2, <3>3
  <2> QED
    BY <2>4, <2>5
<1> QED
  BY <1>1, <1>2, <1>3, <1>4, <1>5

(* The cancel flag is raised or the deadline passes. *)
LEMMA AbortKeeps == ASSUME IInv, NEW d \in Dispatch, Abort(d) PROVE IInv'
<1> USE DEF IInv, Abort, Goto, Give, registryVars, workerVars, callVars
<1>1. RegistryOK'
  BY DEF RegistryOK
<1>2. CallsOK'
  BY Attempts DEF CallsOK
<1>3. CallInv'
  BY Attempts DEF CallsOK, CallInv
<1>4. LateInv'
  BY Attempts DEF CallsOK, LateInv
<1>5. (DownInv /\ ShunInv)'
  BY DEF DownInv, ShunInv
<1> QED
  BY <1>1, <1>2, <1>3, <1>4, <1>5

-----------------------------------------------------------------------------
(***************************************************************************)
(* The steps of the registry and of the workers keep the invariant.        *)
(***************************************************************************)
(* A dispatch forgets the worker it marked when its cooldown is over. *)
LEMMA ShunKept ==
    ASSUME CallsOK, CallInv, LateInv, StillShunned, UNCHANGED <<callVars, abort>>
    PROVE  CallsOK' /\ CallInv' /\ LateInv' /\ ShunInv'
<1> USE DEF callVars
<1>1. shunned' \in [Dispatch -> Worker \cup {NoWorker}]
  BY DEF CallsOK, StillShunned
<1>2. CallsOK'
  BY <1>1 DEF CallsOK
<1>3. CallInv' /\ LateInv'
  BY DEF CallInv, LateInv
<1>4. ShunInv'
  BY DEF ShunInv, StillShunned
<1> QED
  BY <1>2, <1>3, <1>4

(* A new entry, without cooldown. *)
LEMMA RegisterKeeps ==
    ASSUME RegistryOK, DownInv, NEW w \in Worker, NEW heard \in BOOLEAN, Register(w, heard)
    PROVE  RegistryOK' /\ DownInv'
<1> USE DEF Register
<1>1. [age |-> 0, cool |-> 0] \in Entry
  BY TimeAssumption DEF Entry
<1>2. RegistryOK'
  BY <1>1 DEF RegistryOK
<1>3. DownInv'
  BY DEF DownInv, RegistryOK
<1> QED
  BY <1>2, <1>3

(* A heartbeat of a worker that is up. *)
LEMMA HeartbeatKeeps ==
    ASSUME RegistryOK, DownInv, NEW w \in Worker, NEW heard \in BOOLEAN, Heartbeat(w, heard)
    PROVE  RegistryOK' /\ DownInv'
<1> USE DEF Heartbeat
<1>1. workers' \in [Worker -> Entry \cup {Absent}]
  <2>1. CASE w \in Known
    <3>1. workers[w] \in Entry /\ 0 \in 0..(PruneAfter + 1)
      BY <2>1, TimeAssumption DEF RegistryOK, Known
    <3>2. [workers[w] EXCEPT !.age = 0] \in Entry
      BY <3>1 DEF Entry
    <3>3. workers' = [workers EXCEPT ![w] = [workers[w] EXCEPT !.age = 0]]
      BY <2>1 DEF RegistryOK
    <3> QED
      BY <3>2, <3>3 DEF RegistryOK
  <2>2. CASE w \notin Known
    BY <2>2 DEF RegistryOK
  <2> QED
    BY <2>1, <2>2
<1>2. registered' \in [Worker -> BOOLEAN]
  BY DEF RegistryOK
<1>3. RegistryOK'
  BY <1>1, <1>2 DEF RegistryOK
<1>4. DownInv'
  <2>1. \A v \in Worker : v # w => workers'[v] = workers[v]
    BY DEF RegistryOK
  <2> QED
    BY <2>1 DEF DownInv
<1> QED
  BY <1>3, <1>4

(* A worker that stops has been down for no time at all. *)
LEMMA CrashKeeps ==
    ASSUME RegistryOK, DownInv, NEW w \in Worker, Crash(w) PROVE RegistryOK' /\ DownInv'
<1> USE DEF Crash, registryVars
<1>1. RegistryOK'
  BY TimeAssumption DEF RegistryOK
<1>2. DownInv'
  <2>1. \A v \in Worker : v # w => up'[v] = up[v] /\ down'[v] = down[v]
    BY DEF RegistryOK
  <2>2. down'[w] = 0 /\ (workers[w] # Absent => workers[w].age \in Nat)
    BY TimeAssumption DEF RegistryOK, Entry
  <2> QED
    BY <2>1, <2>2 DEF DownInv
<1> QED
  BY <1>1, <1>2

(* A worker that is started is up. *)
LEMMA RestartKeeps ==
    ASSUME RegistryOK, DownInv, NEW w \in Worker, Restart(w) PROVE RegistryOK' /\ DownInv'
<1> USE DEF Restart, registryVars
<1>1. RegistryOK'
  BY TimeAssumption DEF RegistryOK
<1>2. DownInv'
  BY DEF DownInv, RegistryOK
<1> QED
  BY <1>1, <1>2

(* The sweeper only removes entries. *)
LEMMA PruneKeeps == ASSUME RegistryOK, DownInv, Prune PROVE RegistryOK' /\ DownInv'
<1> USE DEF Prune, workerVars
<1>1. \A w \in Worker : workers'[w] \in {Absent, workers[w]}
  OBVIOUS
<1>2. RegistryOK'
  BY <1>1 DEF RegistryOK
<1>3. DownInv'
  BY <1>1 DEF DownInv
<1> QED
  BY <1>2, <1>3

(* Ages and downtimes grow together, and the bound on the downtime is the  *)
(* lower one.                                                              *)
LEMMA TickKeeps == ASSUME RegistryOK, DownInv, Tick PROVE RegistryOK' /\ DownInv'
<1> USE DEF Tick
<1>1. ASSUME NEW w \in Worker
      PROVE  /\ workers'[w] \in Entry \cup {Absent} /\ down'[w] \in 0..AliveFor
             /\ (workers'[w] # Absent /\ ~up[w]) => down'[w] <= workers'[w].age
  <2>1. down[w] \in 0..AliveFor /\ up[w] \in BOOLEAN
    BY DEF RegistryOK
  <2>2. down'[w] = IF up[w] THEN 0 ELSE Later(down[w], AliveFor)
    OBVIOUS
  <2>3. down'[w] \in 0..AliveFor
    BY <2>1, <2>2, TimeAssumption DEF Later
  <2>4. CASE w \notin Known
    BY <2>3, <2>4
  <2>5. CASE w \in Known
    <3>1. workers[w] \in Entry
      BY <2>5 DEF RegistryOK, Known
    <3>2. workers[w].age \in 0..(PruneAfter + 1) /\ workers[w].cool \in 0..Cooldown
      BY <3>1 DEF Entry
    <3> DEFINE a == Later(workers[w].age, PruneAfter + 1)
               c == Sooner(workers[w].cool)
    <3>3. a \in 0..(PruneAfter + 1) /\ c \in 0..Cooldown
      BY <3>2, TimeAssumption DEF Later, Sooner
    <3>4. workers'[w] = [age |-> a, cool |-> c]
      BY <2>5
    <3>5. ~up[w] => down'[w] <= a
      <4>1. ~up[w] => down[w] <= workers[w].age
        BY <2>5 DEF DownInv, Known
      <4> QED
        BY <4>1, <2>1, <2>2, <3>2, TimeAssumption DEF Later
    <3> HIDE DEF a, c
    <3>6. workers'[w] \in Entry /\ workers'[w].age = a
      BY <3>3, <3>4 DEF Entry
    <3> QED
      BY <2>3, <3>5, <3>6
  <2> QED
    BY <2>4, <2>5
<1>2. workers' \in [Worker -> Entry \cup {Absent}] /\ down' \in [Worker -> 0..AliveFor]
  <2>1. workers' = [w \in Worker |-> workers'[w]] /\ down' = [w \in Worker |-> down'[w]]
    OBVIOUS
  <2> QED
    BY <1>1, <2>1
<1>3. RegistryOK'
  BY <1>2 DEF RegistryOK
<1>4. DownInv'
  BY <1>1 DEF DownInv
<1> QED
  BY <1>3, <1>4

-----------------------------------------------------------------------------
(***************************************************************************)
(* The theorems.                                                           *)
(***************************************************************************)
(* An empty registry and dispatches that have not begun. *)
LEMMA InitInv == Init => IInv
<1> SUFFICES ASSUME Init PROVE IInv
  OBVIOUS
<1> USE DEF Init, RegistryInit
<1>1. Cardinality(Worker) \in Nat \ {0}
  BY WorkerAssumption, FS_CardinalityType, FS_EmptySet
<1>2. RegistryOK
  BY <1>1, TimeAssumption DEF RegistryOK
<1>3. CallsOK
  BY Attempts DEF CallsOK
<1>4. CallInv /\ LateInv /\ DownInv /\ ShunInv
  BY DEF CallInv, LateInv, DownInv, ShunInv
<1> QED
  BY <1>2, <1>3, <1>4 DEF IInv

(* Every step keeps the invariant. *)
LEMMA StepInv == IInv /\ [Next]_vars => IInv'
<1> SUFFICES ASSUME IInv, [Next]_vars PROVE IInv'
  OBVIOUS
<1>1. CASE UNCHANGED vars
  BY <1>1 DEF vars, registryVars, workerVars, callVars, IInv, RegistryOK, CallsOK, CallInv, LateInv,
             DownInv, ShunInv
<1>2. ASSUME NEW d \in Dispatch, Execute(d) PROVE IInv'
  BY <1>2, StartKeeps, PickAbortedKeeps, PickNoneKeeps, PickKeeps, PostTooLateKeeps, MarkKeeps,
     PostKeeps DEF Execute
<1>3. ASSUME NEW d \in Dispatch, Abort(d) PROVE IInv'
  BY <1>3, AbortKeeps
<1>4. ASSUME Registry PROVE IInv'
  <2>1. CallsOK' /\ CallInv' /\ LateInv' /\ ShunInv'
    BY <1>4, ShunKept DEF IInv, Registry
  <2>2. RegistryOK' /\ DownInv'
    BY <1>4, RegisterKeeps, HeartbeatKeeps, CrashKeeps, RestartKeeps, PruneKeeps, TickKeeps
       DEF IInv, Registry, RegistryStep
  <2> QED
    BY <2>1, <2>2 DEF IInv
<1> QED
  BY <1>1, <1>2, <1>3, <1>4 DEF Next

(* The inductive invariant holds in every state. *)
LEMMA InvHolds == Spec => []IInv
  BY InitInv, StepInv, PTL DEF Spec

(* Dispatching is safe, for every number of workers, queues, dispatches    *)
(* and retries: cursors and attempts stay in their bounds, Success is      *)
(* reported only for a sub-DAG a worker took, a worker takes it at most    *)
(* once per attempt, and at most one call is made after the abort.         *)
THEOREM DispatchIsSound == Spec => []DispatchSound
<1>1. IInv => DispatchSound
  <2> SUFFICES ASSUME IInv PROVE DispatchSound
    OBVIOUS
  <2>1. TypeOK
    BY DEF IInv, TypeOK, RegistryOK, CallsOK
  <2>2. RunsAccounted
    BY DEF IInv, RunsAccounted, CallInv, CallsOK
  <2>3. OneLateCall
    BY DEF IInv, OneLateCall, LateInv
  <2> QED
    BY <2>1, <2>2, <2>3 DEF DispatchSound
<1> QED
  BY <1>1, InvHolds, PTL

(* The step that picks is Pick. *)
LEMMA PicksByPick ==
    ASSUME IInv, Next, NEW d \in Dispatch, NEW w \in Worker, Picks(d, w)
    PROVE  w \in Candidates(QueueOf[d])
<1> USE DEF Picks, IInv, CallsOK
<1>1. ASSUME NEW e \in Dispatch, Execute(e) PROVE Pick(e)
  BY <1>1 DEF Execute, Start, PickAborted, PickNone, PostTooLate, Mark, Post, Goto
<1>2. ASSUME NEW e \in Dispatch, Pick(e) PROVE e = d
  BY <1>2 DEF Pick, Goto
<1>3. ~Registry /\ \A e \in Dispatch : ~Abort(e)
  BY DEF Registry, Abort, callVars
<1>4. Pick(d)
  BY <1>1, <1>2, <1>3 DEF Next
<1>5. w = pickWorkerForQueue(QueueOf[d]) /\ Candidates(QueueOf[d]) # {}
  BY <1>4 DEF Pick
<1> QED
  BY <1>5, SelectorsPickCandidates, DispatchAssumption

(* A worker that has been down for as long as isAlive allows is not        *)
(* picked, over every history of heartbeats, registrations and lost        *)
(* responses.                                                              *)
THEOREM NotPickedWhenCrashed == Spec => CrashedNotPicked
<1>1. ASSUME IInv, Next, NEW d \in Dispatch, NEW w \in Worker, Picks(d, w), ~up[w]
      PROVE  down[w] < AliveFor
  <2>1. workers[w] # Absent /\ workers[w].age < AliveFor
    BY <1>1, PicksByPick, CandidateFacts DEF Eligible, isAlive, Known
  <2>2. down[w] <= workers[w].age /\ down[w] \in Nat /\ workers[w] \in Entry
    BY <1>1, <2>1, TimeAssumption DEF IInv, DownInv, RegistryOK
  <2>3. workers[w].age \in Nat
    BY <2>2, TimeAssumption DEF Entry
  <2> QED
    BY <2>1, <2>2, <2>3, TimeAssumption
<1>2. IInv /\ [Next]_vars =>
        [\A d \in Dispatch, w \in Worker : (Picks(d, w) /\ ~up[w]) => down[w] < AliveFor]_vars
  BY <1>1
<1> QED
  BY <1>2, InvHolds, PTL DEF Spec, CrashedNotPicked

(* A retry goes to another worker while the cooldown of the failure lasts  *)
(* and another one can take it.                                            *)
THEOREM RetriesElsewhere == Spec => RetryElsewhere
<1>1. ASSUME IInv, Next, NEW d \in Dispatch, NEW w \in Worker, Picks(d, w), w = shunned[d]
      PROVE  Rested(QueueOf[d]) = {}
  <2>1. w \in Candidates(QueueOf[d])
    BY <1>1, PicksByPick
  <2>2. isCoolingDown(w)
    BY <1>1, DispatchAssumption DEF IInv, ShunInv, isCoolingDown
  <2>3. w \notin Rested(QueueOf[d])
    BY <2>2 DEF Rested
  <2> QED
    BY <2>1, <2>3 DEF Candidates
<1>2. IInv /\ [Next]_vars =>
        [\A d \in Dispatch, w \in Worker : (Picks(d, w) /\ w = shunned[d]) => Rested(QueueOf[d]) = {}]_vars
  BY <1>1
<1> QED
  BY <1>2, InvHolds, PTL DEF Spec, RetryElsewhere

=============================================================================
