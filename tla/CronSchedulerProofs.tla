------------------------- MODULE CronSchedulerProofs -------------------------
(***************************************************************************)
(* Proofs about CronScheduler, for every set of expressions with their     *)
(* minutes, every window, and any bound on the clock and on the jobs: the  *)
(* loop dies for two reasons only, and it triggers jobs that are due, each *)
(* once per minute, up to the removals that fall into a pending batch.     *)
(***************************************************************************)
EXTENDS CronScheduler, FiniteSetTheorems, WellFoundedInduction, TLAPS

Pending == pc \in {"copy", "dispatch"}

(* Jobs are told apart by their uid, listed or not, and there are not more *)
(* of them than were made.                                                 *)
UidInv ==
    /\ \A i, k \in DOMAIN jobs : jobs[i].uid = jobs[k].uid => i = k
    /\ \A j \in drafts : \A i \in DOMAIN jobs : j.uid # jobs[i].uid
    /\ \A j, k \in drafts : j.uid = k.uid => j = k
    /\ \A i \in DOMAIN jobs : jobs[i].uid <= made
    /\ \A j \in drafts : j.uid <= made

CountInv ==
    /\ IsFiniteSet(drafts) /\ Len(jobs) + Cardinality(drafts) <= made
    /\ lastId <= made

(* While no removal came in between, the indices of a batch name jobs that *)
(* were due when they were scanned, and a removal is remembered.           *)
BatchInv ==
    /\ Pending /\ ~removed => \A i \in batch : i \in DOMAIN jobs /\ jobs[i].next <= now
    /\ Pending /\ removed => overlap

(* What was triggered lies before the next time of a listed job. *)
FiredInv ==
    /\ \A e \in fired : e[1] <= made
    /\ \A e \in fired : \A j \in drafts : e[1] # j.uid
    /\ ~overlap => \A i \in DOMAIN jobs : \A e \in fired : e[1] = jobs[i].uid => e[2] < jobs[i].next

(* The time to sleep is not negative. *)
WaitInv == pc = "future" => scanNow <= nearest

IInv == TypeOK /\ UidInv /\ CountInv /\ BatchInv /\ FiredInv /\ WaitInv /\ CrashExplained

-----------------------------------------------------------------------------
(* A set of numbers that is not empty has a least element. *)
LEMMA LeastExists ==
    ASSUME NEW S, S \subseteq Nat, S # {} PROVE \E m \in S : \A k \in S : m <= k
<1>1. PICK m \in S : \A k \in S : ~(<<k, m>> \in OpToRel(<, Nat))
  BY NatLessThanWellFounded, WFMin
<1>2. \A k \in S : ~(k < m)
  BY <1>1 DEF OpToRel
<1> QED
  BY <1>2

(* CronExpr::next returns a later minute, if it returns. *)
LEMMA NextTimeFacts ==
    ASSUME NEW s \in Spec5, NEW n \in Nat, Ahead(s, n) # {}
    PROVE  NextTime(s, n) \in Nat /\ n < NextTime(s, n)
<1>1. Ahead(s, n) \subseteq Nat /\ \A m \in Ahead(s, n) : n < m
  BY SlotsAssumption DEF Ahead
<1>2. \E m \in Ahead(s, n) : \A k \in Ahead(s, n) : m <= k
  BY <1>1, LeastExists
<1>3. NextTime(s, n) \in Ahead(s, n)
  BY <1>2 DEF NextTime
<1> QED
  BY <1>1, <1>3

(* The indices of a batch are used from the lowest on. *)
LEMMA FirstFacts == ASSUME TypeOK, batch # {} PROVE First \in batch /\ First \in Nat \ {0}
<1>1. batch \subseteq Nat \ {0}
  BY BoundAssumption DEF TypeOK
<1>2. \E i \in batch : \A k \in batch : i <= k
  BY <1>1, LeastExists
<1> QED
  BY <1>1, <1>2 DEF First

(* The places of the list. *)
LEMMA ListFacts ==
    ASSUME TypeOK
    PROVE  /\ Len(jobs) \in Nat /\ DOMAIN jobs = 1..Len(jobs) /\ now \in Nat /\ made \in Nat
           /\ \A i \in DOMAIN jobs : /\ jobs[i] \in Job /\ jobs[i].uid \in 1..MaxJobs
                                     /\ jobs[i].id \in 0..MaxJobs /\ jobs[i].spec \in Spec5
                                     /\ jobs[i].next \in Nat
           /\ jobs # <<>> <=> 1 \in DOMAIN jobs
<1>1. jobs \in Seq(Job) /\ now \in Nat /\ made \in Nat
  BY BoundAssumption DEF TypeOK
<1>2. Len(jobs) \in Nat /\ DOMAIN jobs = 1..Len(jobs) /\ \A i \in DOMAIN jobs : jobs[i] \in Job
  BY <1>1
<1>3. jobs # <<>> <=> 1 \in DOMAIN jobs
  BY <1>1, <1>2
<1> QED
  BY <1>1, <1>2, <1>3 DEF Job

-----------------------------------------------------------------------------
(***************************************************************************)
(* Steps that move the loop and stop() but touch neither the lists nor the *)
(* histories.                                                              *)
(***************************************************************************)
LoopPc == {"top", "scan", "noJob", "blockJob", "waitJob", "wokenJob", "future", "blockTime",
           "waitTime", "wokenTime", "copy", "dispatch", "exited", "crashed"}

(* Such a step may shrink the batch and may not enter it or crash. *)
LEMMA QuietKeeps ==
    ASSUME IInv, UNCHANGED <<now, apiVars, histVars>>, TypeOK', batch' \subseteq batch,
           Pending' => Pending, pc' # "crashed" \/ pc' = pc, pc' = "future" => UNCHANGED <<pc, nearest, scanNow>>
    PROVE  IInv'
<1> USE DEF IInv, apiVars, histVars
<1>1. UidInv' /\ CountInv'
  BY DEF UidInv, CountInv
<1>2. BatchInv'
  BY DEF BatchInv
<1>3. FiredInv'
  BY DEF FiredInv
<1>4. WaitInv'
  BY DEF WaitInv
<1>5. CrashExplained'
  BY DEF CrashExplained, Ahead
<1> QED
  BY <1>1, <1>2, <1>3, <1>4, <1>5

(* The end of an iteration. *)
LEMMA EndKeeps ==
    ASSUME IInv, EndIteration, UNCHANGED <<now, apiVars, stopping, spc, histVars>> PROVE IInv'
<1>1. TypeOK'
  BY DEF IInv, TypeOK, EndIteration, apiVars, histVars
<1>2. batch' \subseteq batch /\ pc' = "top"
  BY DEF EndIteration
<1> QED
  BY <1>1, <1>2, QuietKeeps DEF Pending

(* The notification, spurious wakeups and the steps of stop(). *)
LEMMA StopKeeps == IInv /\ (SetStopping \/ StopNotify \/ Join \/ SpuriousWake) => IInv'
<1> SUFFICES ASSUME IInv, SetStopping \/ StopNotify \/ Join \/ SpuriousWake PROVE IInv'
  OBVIOUS
<1> USE DEF SetStopping, StopNotify, Join, SpuriousWake, loopVars
<1>2. /\ pc \in LoopPc => Notified(pc) \in LoopPc
      /\ Notified(pc) \in {"copy", "dispatch", "crashed", "future"} => Notified(pc) = pc
  BY DEF Notified, LoopPc
<1>3. /\ pc' \in {pc, Notified(pc)}
      /\ UNCHANGED <<now, apiVars, batch, cur, nearest, scanNow, wakeAt, histVars>>
  OBVIOUS
<1>4. stopping' \in BOOLEAN /\ spc' \in {"idle", "notify", "join", "stopped"}
  BY DEF IInv, TypeOK
<1>5. TypeOK'
  BY <1>2, <1>3, <1>4 DEF IInv, TypeOK, apiVars, histVars, LoopPc
<1> QED
  BY <1>2, <1>3, <1>5, QuietKeeps DEF Pending

(* The waits of the loop. *)
LEMMA WaitKeeps ==
    IInv /\ (LoopTop \/ JobPredicate \/ BlockJob \/ StartTimedWait \/ TimePredicate \/ BlockTime
             \/ TimeUp \/ BatchDone \/ Dispatch) => IInv'
<1> SUFFICES ASSUME IInv, LoopTop \/ JobPredicate \/ BlockJob \/ StartTimedWait \/ TimePredicate
                          \/ BlockTime \/ TimeUp \/ BatchDone \/ Dispatch
             PROVE  IInv'
  OBVIOUS
<1> DEFINE Move(p) == /\ pc' = p /\ batch' = batch /\ cur' \in {cur, NoJob}
                      /\ wakeAt' \in Nat /\ UNCHANGED <<now, apiVars, stopping, spc, nearest, scanNow, histVars>>
<1>1. ASSUME NEW p \in LoopPc, Move(p), p \notin {"future", "crashed"}, Pending' => Pending PROVE IInv'
  <2>1. TypeOK'
    BY <1>1 DEF IInv, TypeOK, apiVars, histVars, LoopPc
  <2> QED
    BY <1>1, <2>1, QuietKeeps DEF Pending
<1>2. wakeAt \in Nat
  BY DEF IInv, TypeOK
<1>3. ASSUME pc = "future" PROVE now + (nearest - scanNow) \in Nat
  <2>1. now \in Nat /\ nearest \in Nat /\ scanNow \in Nat
    BY BoundAssumption DEF IInv, TypeOK
  <2> QED
    BY <1>3, <2>1 DEF IInv, WaitInv
<1>4. CASE EndIteration /\ UNCHANGED <<now, apiVars, stopping, spc, histVars>>
  BY <1>4, EndKeeps
<1>5. CASE LoopTop
  BY <1>1, <1>2, <1>5 DEF LoopTop, LoopPc, Pending
<1>6. CASE JobPredicate
  BY <1>1, <1>2, <1>4, <1>6 DEF JobPredicate, LoopPc, Pending
<1>7. CASE BlockJob \/ BlockTime
  BY <1>1, <1>2, <1>7 DEF BlockJob, BlockTime, LoopPc, Pending
<1>8. CASE StartTimedWait
  BY <1>1, <1>3, <1>4, <1>8 DEF StartTimedWait, LoopPc, Pending
<1>9. CASE TimePredicate
  BY <1>1, <1>2, <1>4, <1>9 DEF TimePredicate, LoopPc, Pending
<1>10. CASE TimeUp \/ BatchDone
  BY <1>4, <1>10 DEF TimeUp, BatchDone
<1>11. CASE Dispatch
  BY <1>1, <1>2, <1>11 DEF Dispatch, LoopPc, Pending
<1> QED
  BY <1>5, <1>6, <1>7, <1>8, <1>9, <1>10, <1>11

-----------------------------------------------------------------------------
(***************************************************************************)
(* The other steps, one by one.                                            *)
(***************************************************************************)
(* A scan finds what is due, or how long to sleep. *)
LEMMA ScanKeeps == IInv /\ Scan => IInv'
<1> SUFFICES ASSUME IInv, Scan PROVE IInv'
  OBVIOUS
<1> USE ListFacts DEF IInv, Scan, apiVars
<1>1. UidInv' /\ CountInv' /\ FiredInv' /\ CrashExplained'
  BY DEF UidInv, CountInv, FiredInv, CrashExplained
<1>2. CASE jobs = <<>>
  <2>1. TypeOK'
    BY <1>2 DEF TypeOK
  <2> QED
    BY <1>1, <1>2, <2>1 DEF BatchInv, WaitInv, Pending
<1>3. CASE jobs # <<>> /\ PendingIndices # {}
  <2>1. PendingIndices \subseteq 1..MaxJobs
    <3>1. Len(jobs) <= MaxJobs
      <4>1. Cardinality(drafts) \in Nat
        BY FS_CardinalityType DEF CountInv
      <4> QED
        BY <4>1, BoundAssumption DEF CountInv, TypeOK
    <3> QED
      BY <3>1, BoundAssumption DEF PendingIndices
  <2>2. TypeOK'
    BY <1>3, <2>1 DEF TypeOK
  <2>3. BatchInv' /\ WaitInv'
    BY <1>3 DEF BatchInv, WaitInv, Pending, PendingIndices
  <2> QED
    BY <1>1, <2>2, <2>3
<1>4. CASE jobs # <<>> /\ PendingIndices = {}
  <2>1. pc' = "future" /\ nearest' = Nearest /\ scanNow' = now /\ batch' = batch /\ removed' = FALSE
    BY <1>4
  <2>2. Nearest \in Nat /\ now <= Nearest
    <3>1. Nexts \subseteq Nat /\ Nexts # {}
      BY <1>4 DEF Nexts
    <3>2. \E n \in Nexts : \A u \in Nexts : n <= u
      BY <3>1, LeastExists
    <3>3. Nearest \in Nexts
      BY <3>2 DEF Nearest
    <3>4. PICK i \in DOMAIN jobs : Nearest = jobs[i].next
      BY <3>3 DEF Nexts
    <3>5. ~(jobs[i].next <= now)
      BY <1>4, <3>4 DEF PendingIndices
    <3> QED
      BY <3>4, <3>5
  <2>3. TypeOK'
    BY <2>1, <2>2 DEF TypeOK
  <2>4. BatchInv' /\ WaitInv'
    BY <2>1, <2>2 DEF BatchInv, WaitInv, Pending
  <2> QED
    BY <1>1, <2>3, <2>4
<1> QED
  BY <1>2, <1>3, <1>4

(* A new draft has a new uid. *)
LEMMA CreateKeeps == ASSUME IInv, NEW s \in Spec5, CreateJob(s) PROVE IInv'
<1> USE ListFacts, BoundAssumption DEF IInv, CreateJob, loopVars, histVars
<1>1. PICK id \in {lastId, lastId + 1} :
         /\ lastId' = id
         /\ drafts' = drafts \cup {[uid |-> made + 1, id |-> id, spec |-> s, next |-> NextTime(s, now)]}
  OBVIOUS
<1> DEFINE d == [uid |-> made + 1, id |-> id, spec |-> s, next |-> NextTime(s, now)]
<1>2. d \in Job /\ d.uid = made + 1 /\ id \in 0..MaxJobs /\ id <= made + 1
  <2>1. NextTime(s, now) \in Nat
    BY NextTimeFacts
  <2>2. lastId \in Nat /\ lastId <= made /\ made < MaxJobs
    BY DEF TypeOK, CountInv
  <2>3. id \in 0..MaxJobs /\ made + 1 \in 1..MaxJobs /\ id <= made + 1
    BY <2>2
  <2> QED
    BY <2>1, <2>3 DEF Job
<1>3. drafts' = drafts \cup {d} /\ made' = made + 1 /\ jobs' = jobs /\ lastId' = id
  BY <1>1
<1> HIDE DEF d
<1>4. \A j \in drafts : j.uid <= made /\ j.uid \in Nat
  BY DEF UidInv, TypeOK, Job
<1>5. d \notin drafts
  BY <1>2, <1>4
<1>6. TypeOK'
  BY <1>2, <1>3 DEF TypeOK
<1>7. UidInv'
  BY <1>2, <1>3, <1>4 DEF UidInv
<1>8. CountInv'
  <2>1. IsFiniteSet(drafts') /\ Cardinality(drafts') = Cardinality(drafts) + 1 /\ Cardinality(drafts) \in Nat
    BY <1>3, <1>5, FS_AddElement, FS_CardinalityType DEF CountInv
  <2> QED
    BY <1>2, <1>3, <2>1 DEF CountInv
<1>9. BatchInv' /\ WaitInv' /\ CrashExplained'
  BY DEF BatchInv, WaitInv, CrashExplained, Pending, Ahead
<1>10. FiredInv'
  <2>1. \A e \in fired : e[1] \in Nat /\ e[1] <= made
    BY DEF FiredInv, TypeOK
  <2> QED
    BY <1>2, <1>3, <2>1 DEF FiredInv
<1> QED
  BY <1>6, <1>7, <1>8, <1>9, <1>10

(* addJob puts a draft at the end of the list. *)
LEMMA AddKeeps == ASSUME IInv, NEW j \in drafts, AddJob(j) PROVE IInv'
<1> USE ListFacts DEF IInv, AddJob, histVars
<1> DEFINE n == Len(jobs)
<1>1. j \in Job /\ j.uid \in 1..MaxJobs /\ j.next \in Nat
  BY DEF TypeOK, Job
<1>2. /\ jobs' \in Seq(Job) /\ DOMAIN jobs' = 1..(n + 1) /\ Len(jobs') = n + 1 /\ jobs'[n + 1] = j
      /\ \A i \in 1..n : jobs'[i] = jobs[i]
      /\ n \in Nat /\ DOMAIN jobs = 1..n
  BY <1>1 DEF TypeOK
<1>3. \A i \in DOMAIN jobs' : \/ i \in DOMAIN jobs /\ jobs'[i] = jobs[i]
                              \/ i = n + 1 /\ jobs'[i] = j
  BY <1>2
<1>4. DOMAIN jobs \subseteq DOMAIN jobs' /\ jobs' # <<>>
  BY <1>2
<1> HIDE DEF n
<1>5. TypeOK'
  <2>1. Notified(pc) \in LoopPc
    BY DEF TypeOK, LoopPc, Notified
  <2> QED
    BY <1>2, <2>1 DEF TypeOK, LoopPc
<1>6. UidInv'
  <2>1. \A i, k \in DOMAIN jobs' : jobs'[i].uid = jobs'[k].uid => i = k
    BY <1>3 DEF UidInv
  <2>2. \A k \in drafts' : k \in drafts /\ k # j
    OBVIOUS
  <2>3. \A k \in drafts' : \A i \in DOMAIN jobs' : k.uid # jobs'[i].uid
    BY <1>3, <2>2 DEF UidInv
  <2> QED
    BY <1>3, <2>1, <2>2, <2>3 DEF UidInv
<1>7. CountInv'
  <2>1. IsFiniteSet(drafts') /\ Cardinality(drafts') = Cardinality(drafts) - 1 /\ Cardinality(drafts) \in Nat
    BY FS_RemoveElement, FS_CardinalityType DEF CountInv
  <2> QED
    BY <1>2, <2>1 DEF CountInv
<1>8. Pending' <=> Pending
  BY DEF Pending, Notified
<1>9. BatchInv'
  BY <1>2, <1>4, <1>8 DEF BatchInv
<1>10. FiredInv'
  BY <1>1, <1>3 DEF FiredInv
<1>11. WaitInv' /\ CrashExplained'
  BY DEF WaitInv, CrashExplained, Locked, Alive, Notified
<1> QED
  BY <1>5, <1>6, <1>7, <1>9, <1>10, <1>11

(* removeJob keeps a part of the list, in its order. *)
LEMMA RemoveKeeps == ASSUME IInv, NEW id, RemoveJob(id) PROVE IInv'
<1>0. TypeOK /\ Len(jobs) \in Nat /\ DOMAIN jobs = 1..Len(jobs)
  BY ListFacts DEF IInv
<1> DEFINE kept == {i \in DOMAIN jobs : jobs[i].id # id}
<1>1. PICK f \in [1..Cardinality(kept) -> kept] :
         /\ \A i, k \in DOMAIN f : i < k => f[i] < f[k]
         /\ jobs' = [i \in DOMAIN f |-> jobs[f[i]]]
  BY DEF RemoveJob
<1>2. IsFiniteSet(kept) /\ Cardinality(kept) \in Nat /\ Cardinality(kept) <= Len(jobs)
  <2>1. IsFiniteSet(1..Len(jobs)) /\ Cardinality(1..Len(jobs)) = Len(jobs)
    <3>1. 1 \in Int /\ Len(jobs) \in Int
      BY <1>0
    <3>2. /\ IsFiniteSet(1..Len(jobs))
          /\ Cardinality(1..Len(jobs)) = IF 1 > Len(jobs) THEN 0 ELSE Len(jobs) - 1 + 1
      BY <3>1, FS_Interval
    <3> QED
      BY <3>2, <1>0
  <2>2. kept \in SUBSET (1..Len(jobs))
    BY <1>0
  <2> HIDE DEF kept
  <2>3. IsFiniteSet(kept) /\ Cardinality(kept) <= Cardinality(1..Len(jobs))
    BY <2>1, <2>2, FS_Subset
  <2> QED
    BY <2>1, <2>3, FS_CardinalityType
<1> DEFINE m == Cardinality(kept)
<1>3. \A i \in 1..m : f[i] \in DOMAIN jobs /\ f[i] \in Nat
  BY <1>0
<1>4. \A i, k \in 1..m : i < k => f[i] < f[k]
  BY <1>1
<1>5. \A i, k \in 1..m : f[i] = f[k] => i = k
  <2>1. \A i, k \in 1..m : i < k \/ i = k \/ k < i
    BY <1>2
  <2> QED
    BY <1>3, <1>4, <2>1
<1>6. /\ jobs' \in Seq(Job) /\ DOMAIN jobs' = 1..m /\ Len(jobs') = m
      /\ \A i \in 1..m : jobs'[i] = jobs[f[i]]
  <2>1. jobs' = [i \in 1..m |-> jobs[f[i]]]
    BY <1>1
  <2>2. m \in Nat
    BY <1>2
  <2>3. \A i \in 1..m : jobs[f[i]] \in Job
    BY <1>0, <1>3, ListFacts
  <2> HIDE DEF m
  <2> QED
    BY <2>1, <2>2, <2>3
<1>14. m <= Len(jobs) /\ m \in Nat
  BY <1>2
<1> HIDE DEF kept, m
<1>15. /\ pc' = Notified(pc) /\ removed' = (removed \/ jobs' # jobs)
       /\ overlap' = (overlap \/ (jobs' # jobs /\ pc \in {"copy", "dispatch"}))
       /\ UNCHANGED <<now, drafts, made, lastId, stopping, spc, batch, cur, nearest, scanNow, wakeAt, fired>>
       /\ ~Locked /\ Alive
  BY DEF RemoveJob
<1> USE <1>15, <1>0 DEF IInv
<1>7. TypeOK'
  <2>1. Notified(pc) \in LoopPc
    BY DEF TypeOK, LoopPc, Notified
  <2>2. removed' \in BOOLEAN /\ overlap' \in BOOLEAN
    OBVIOUS
  <2> QED
    BY <1>6, <2>1, <2>2 DEF TypeOK, LoopPc
<1>8. UidInv'
  <2>1. \A i \in 1..m : f[i] \in DOMAIN jobs /\ jobs'[i].uid = jobs[f[i]].uid
    BY <1>3, <1>6
  <2>2. \A i, k \in 1..m : jobs'[i].uid = jobs'[k].uid => i = k
    BY <2>1, <1>5 DEF UidInv
  <2>3. \A i \in 1..m : jobs'[i].uid <= made /\ \A j \in drafts : j.uid # jobs'[i].uid
    BY <2>1 DEF UidInv
  <2> QED
    BY <2>2, <2>3, <1>6 DEF UidInv
<1>9. CountInv'
  <2>1. Cardinality(drafts) \in Nat
    BY FS_CardinalityType DEF CountInv
  <2> QED
    BY <1>6, <1>14, <2>1, ListFacts DEF CountInv
<1>10. Pending' <=> Pending
  BY DEF Pending, Notified
<1>11. BatchInv'
  <2>1. CASE jobs' = jobs
    BY <1>10, <2>1 DEF BatchInv
  <2>2. CASE jobs' # jobs
    BY <1>10, <2>2 DEF BatchInv, Pending
  <2> QED
    BY <2>1, <2>2
<1>12. FiredInv'
  <2>1. \A i \in 1..m : f[i] \in DOMAIN jobs /\ jobs'[i] = jobs[f[i]]
    BY <1>3, <1>6
  <2>2. ~overlap' => ~overlap
    OBVIOUS
  <2> QED
    BY <2>1, <2>2, <1>6 DEF FiredInv
<1>13. WaitInv' /\ CrashExplained'
  BY DEF WaitInv, CrashExplained, Locked, Alive, Notified
<1> QED
  BY <1>7, <1>8, <1>9, <1>11, <1>12, <1>13

(* The copy of a job leaves the uids, the number of jobs and the drafts    *)
(* alone and moves its time to a later minute.                             *)
LEMMA CopyKeeps == IInv /\ CopyJob => IInv'
<1> SUFFICES ASSUME IInv, CopyJob PROVE IInv'
  OBVIOUS
<1> USE DEF IInv
<1> DEFINE i == First
           u == NextTime(jobs[i].spec, now)
<1>1. /\ pc = "copy" /\ batch # {} /\ i <= Len(jobs) /\ Ahead(jobs[i].spec, now) # {}
      /\ jobs' = [jobs EXCEPT ![i].next = u]
      /\ cur' = jobs[i] /\ fired' = fired \cup {<<jobs[i].uid, jobs[i].next>>}
      /\ batch' = batch \ {i} /\ pc' = "dispatch"
      /\ UNCHANGED <<now, drafts, made, lastId, stopping, spc, nearest, scanNow, wakeAt, removed, overlap>>
  BY DEF CopyJob, Take
<1>2. i \in batch /\ i \in DOMAIN jobs
  BY <1>1, FirstFacts, ListFacts
<1>3. u \in Nat /\ now < u /\ jobs[i] \in Job
  BY <1>1, <1>2, NextTimeFacts, ListFacts
<1> HIDE DEF u, i
<1>4. /\ jobs' \in Seq(Job) /\ DOMAIN jobs' = DOMAIN jobs /\ Len(jobs') = Len(jobs)
      /\ \A k \in DOMAIN jobs : jobs'[k].uid = jobs[k].uid /\ (k # i => jobs'[k] = jobs[k])
      /\ jobs'[i].next = u
  <2>1. jobs \in Seq(Job)
    BY DEF TypeOK
  <2> DEFINE j == [jobs[i] EXCEPT !.next = u]
  <2>2. j \in Job /\ j.uid = jobs[i].uid /\ j.next = u
    BY <1>3 DEF Job
  <2>3. jobs' = [jobs EXCEPT ![i] = j]
    BY <1>1, <1>2, <2>1
  <2> HIDE DEF j
  <2>4. DOMAIN jobs = 1..Len(jobs) /\ Len(jobs) \in Nat
    BY <2>1
  <2>5. jobs' \in Seq(Job) /\ DOMAIN jobs' = DOMAIN jobs /\ Len(jobs') = Len(jobs)
    BY <2>1, <2>2, <2>3, <2>4, <1>2
  <2>6. \A k \in DOMAIN jobs : jobs'[k] = IF k = i THEN j ELSE jobs[k]
    BY <2>3
  <2> QED
    BY <2>2, <2>5, <2>6, <1>2
<1>5. TypeOK'
  <2>1. jobs[i].uid \in 1..MaxJobs /\ jobs[i].next \in Nat
    BY <1>2, ListFacts
  <2>2. fired' \subseteq ((1..MaxJobs) \X Nat)
    BY <1>1, <2>1 DEF TypeOK
  <2> QED
    BY <1>1, <1>3, <1>4, <2>2 DEF TypeOK
<1>6. UidInv'
  BY <1>1, <1>4 DEF UidInv
<1>7. CountInv'
  BY <1>1, <1>4 DEF CountInv
<1>8. BatchInv'
  BY <1>1, <1>4 DEF BatchInv, Pending
<1>9. FiredInv'
  <2>1. \A e \in fired' : e \in fired \/ e = <<jobs[i].uid, jobs[i].next>>
    BY <1>1
  <2>2. \A e \in fired' : e[1] <= made
    BY <1>2, <2>1 DEF FiredInv, UidInv
  <2>3. \A e \in fired' : \A j \in drafts : e[1] # j.uid
    BY <1>2, <2>1 DEF FiredInv, UidInv
  <2>4. ASSUME ~overlap, NEW k \in DOMAIN jobs, NEW e \in fired', e[1] = jobs[k].uid
        PROVE  e[2] < jobs'[k].next
    <3>1. jobs[i].next <= now /\ jobs[i].next \in Nat /\ now \in Nat
      BY <1>1, <1>2, <2>4, ListFacts DEF BatchInv, Pending
    <3>2. CASE k # i
      <4>1. jobs[k].uid # jobs[i].uid
        BY <1>2, <3>2 DEF UidInv
      <4>2. e \in fired
        BY <2>1, <2>4, <4>1
      <4> QED
        BY <1>4, <2>4, <3>2, <4>2 DEF FiredInv
    <3>3. CASE k = i
      <4>1. CASE e \in fired
        <5>1. e[2] < jobs[i].next /\ e[2] \in Nat
          BY <1>2, <2>4, <3>3, <4>1 DEF FiredInv, TypeOK
        <5> QED
          BY <1>3, <1>4, <3>1, <3>3, <5>1
      <4>2. CASE e = <<jobs[i].uid, jobs[i].next>>
        BY <1>3, <1>4, <3>1, <3>3, <4>2
      <4> QED
        BY <2>1, <4>1, <4>2
    <3> QED
      BY <3>2, <3>3
  <2> QED
    BY <1>1, <1>4, <2>2, <2>3, <2>4 DEF FiredInv
<1>10. WaitInv' /\ CrashExplained'
  BY <1>1 DEF WaitInv, CrashExplained
<1> QED
  BY <1>5, <1>6, <1>7, <1>8, <1>9, <1>10

(* An index beyond the end is the trace of a removal. *)
LEMMA BeyondTheEnd ==
    ASSUME IInv, pc = "copy", batch # {}, First > Len(jobs) PROVE removed /\ overlap
<1>1. First \in batch /\ First \notin DOMAIN jobs
  BY FirstFacts, ListFacts DEF IInv
<1>2. removed \in BOOLEAN
  BY DEF IInv, TypeOK
<1> QED
  BY <1>1, <1>2 DEF IInv, BatchInv, Pending

(* The first job is triggered in place of one that is gone. *)
LEMMA FrontKeeps == IInv /\ CopyFront => IInv'
<1> SUFFICES ASSUME IInv, CopyFront PROVE IInv'
  OBVIOUS
<1> USE DEF IInv
<1>1. /\ pc = "copy" /\ batch # {} /\ First > Len(jobs) /\ jobs # <<>> /\ jobs' = jobs
      /\ cur' = jobs[1] /\ fired' = fired \cup {<<jobs[1].uid, jobs[1].next>>}
      /\ batch' = batch \ {First} /\ pc' = "dispatch"
      /\ UNCHANGED <<now, drafts, made, lastId, stopping, spc, nearest, scanNow, wakeAt, removed, overlap>>
  BY DEF CopyFront, Take
<1>2. removed /\ overlap
  BY <1>1, BeyondTheEnd
<1>3. 1 \in DOMAIN jobs /\ jobs[1] \in Job /\ jobs[1].uid \in 1..MaxJobs /\ jobs[1].next \in Nat
  BY <1>1, ListFacts
<1>4. TypeOK'
  <2>1. fired' \subseteq ((1..MaxJobs) \X Nat)
    BY <1>1, <1>3 DEF TypeOK
  <2> QED
    BY <1>1, <1>3, <2>1 DEF TypeOK
<1>5. UidInv' /\ CountInv' /\ BatchInv'
  BY <1>1, <1>2 DEF UidInv, CountInv, BatchInv
<1>6. FiredInv'
  BY <1>1, <1>2, <1>3 DEF FiredInv, UidInv
<1>7. WaitInv' /\ CrashExplained'
  BY <1>1 DEF WaitInv, CrashExplained
<1> QED
  BY <1>4, <1>5, <1>6, <1>7

(* The loop dies for one of the two reasons. *)
LEMMA CrashKeeps == IInv /\ Crash => IInv'
<1> SUFFICES ASSUME IInv, Crash PROVE IInv'
  OBVIOUS
<1> USE DEF IInv, Crash, apiVars, histVars
<1>1. TypeOK'
  BY DEF TypeOK
<1>2. UidInv' /\ CountInv' /\ BatchInv' /\ FiredInv' /\ WaitInv'
  BY DEF UidInv, CountInv, BatchInv, FiredInv, WaitInv, Pending
<1>3. CrashExplained'
  <2>1. CASE First > Len(jobs)
    <3>1. overlap /\ jobs = <<>>
      BY <2>1, BeyondTheEnd
    <3> QED
      BY <3>1 DEF CrashExplained
  <2>2. CASE ~(First > Len(jobs))
    <3>1. First \in DOMAIN jobs /\ Ahead(jobs[First].spec, now) = {}
      BY <2>2, FirstFacts, ListFacts
    <3> QED
      BY <3>1 DEF CrashExplained, Ahead
  <2> QED
    BY <2>1, <2>2
<1> QED
  BY <1>1, <1>2, <1>3

(* What is due stays due. *)
LEMMA TickKeeps == IInv /\ Tick => IInv'
<1> SUFFICES ASSUME IInv, Tick PROVE IInv'
  OBVIOUS
<1> USE DEF IInv, Tick, apiVars, loopVars, histVars
<1>1. TypeOK'
  BY BoundAssumption DEF TypeOK
<1>2. UidInv' /\ CountInv' /\ FiredInv' /\ WaitInv'
  BY DEF UidInv, CountInv, FiredInv, WaitInv
<1>3. BatchInv'
  BY ListFacts DEF BatchInv, Pending
<1>4. CrashExplained'
  BY DEF CrashExplained, Alive
<1> QED
  BY <1>1, <1>2, <1>3, <1>4

-----------------------------------------------------------------------------
(***************************************************************************)
(* The theorems.                                                           *)
(***************************************************************************)
(* A scheduler without jobs. *)
LEMMA InitInv == Init => IInv
<1> SUFFICES ASSUME Init PROVE IInv
  OBVIOUS
<1> USE DEF Init
<1>1. TypeOK
  <2>1. jobs \in Seq(Job) /\ drafts \subseteq Job /\ fired \subseteq ((1..MaxJobs) \X Nat)
    OBVIOUS
  <2>2. now \in 0..Horizon /\ made \in 0..MaxJobs /\ lastId \in 0..MaxJobs /\ batch \subseteq 1..MaxJobs
    BY BoundAssumption
  <2>3. nearest \in Nat /\ scanNow \in Nat /\ wakeAt \in Nat /\ cur \in Job \cup {NoJob}
    OBVIOUS
  <2> QED
    BY <2>1, <2>2, <2>3 DEF TypeOK
<1>2. DOMAIN jobs = {} /\ Len(jobs) = 0 /\ Cardinality(drafts) = 0 /\ IsFiniteSet(drafts)
  BY FS_EmptySet
<1>3. UidInv /\ CountInv
  BY <1>2 DEF UidInv, CountInv
<1>4. BatchInv /\ FiredInv /\ WaitInv /\ CrashExplained
  BY DEF BatchInv, FiredInv, WaitInv, CrashExplained, Pending
<1> QED
  BY <1>1, <1>3, <1>4 DEF IInv

(* Every step keeps the invariant. *)
LEMMA StepInv == IInv /\ [Next]_vars => IInv'
<1> SUFFICES ASSUME IInv, [Next]_vars PROVE IInv'
  OBVIOUS
<1>1. CASE UNCHANGED vars
  <2>1. TypeOK'
    BY <1>1 DEF vars, apiVars, loopVars, histVars, IInv, TypeOK
  <2> QED
    BY <1>1, <2>1, QuietKeeps DEF vars, loopVars, Pending
<1>2. CASE Handlers
  BY <1>2, CreateKeeps, AddKeeps, RemoveKeeps DEF Handlers
<1>3. CASE Loop
  BY <1>3, WaitKeeps, ScanKeeps, CopyKeeps, FrontKeeps, CrashKeeps DEF Loop
<1> QED
  BY <1>1, <1>2, <1>3, StopKeeps, TickKeeps DEF Next, Gone

(* The inductive invariant holds in every state. *)
LEMMA InvHolds == Spec => []IInv
  BY InitInv, StepInv, PTL DEF Spec

(* The state of the scheduler is well typed, and the loop thread dies only *)
(* when a removal emptied the list while a batch was pending, or when an   *)
(* expression has no further match within the window of CronExpr::next.    *)
THEOREM CronIsSound == Spec => []CronSound
<1>1. IInv => CronSound
  BY DEF IInv, CronSound
<1> QED
  BY <1>1, InvHolds, PTL

(* Only the two copying steps trigger a job. *)
LEMMA TriggerSteps == ASSUME IInv, Next, Triggers PROVE CopyJob \/ CopyFront
<1> USE DEF Triggers
<1>1. ~Handlers
  BY DEF Handlers, CreateJob, AddJob, RemoveJob, Notified, loopVars
<1>2. ~(SetStopping \/ StopNotify \/ Join \/ SpuriousWake \/ Tick \/ Gone)
  BY DEF SetStopping, StopNotify, Join, SpuriousWake, Tick, Gone, Notified, loopVars, vars
<1>3. Loop => CopyJob \/ CopyFront
  BY DEF Loop, LoopTop, Scan, JobPredicate, BlockJob, StartTimedWait, TimePredicate, BlockTime,
         TimeUp, BatchDone, Crash, Dispatch, EndIteration
<1> QED
  BY <1>1, <1>2, <1>3 DEF Next

(* A triggered job is due, and was not triggered for its minute before,    *)
(* unless a removal came in between.                                       *)
LEMMA TriggerRight ==
    ASSUME IInv, Next, Triggers
    PROVE  /\ cur'.next <= now \/ removed
           /\ <<cur'.uid, cur'.next>> \notin fired \/ overlap
<1>1. CASE CopyFront
  <2>1. removed /\ overlap
    BY <1>1, BeyondTheEnd DEF CopyFront
  <2> QED
    BY <2>1
<1>2. CASE CopyJob
  <2> DEFINE i == First
  <2>1. i \in batch /\ i \in DOMAIN jobs /\ cur' = jobs[i] /\ pc = "copy"
    BY <1>2, FirstFacts, ListFacts DEF IInv, CopyJob, Take
  <2> HIDE DEF i
  <2>2. jobs[i].next <= now \/ removed
    BY <2>1 DEF IInv, BatchInv, Pending
  <2>3. ASSUME ~overlap, <<jobs[i].uid, jobs[i].next>> \in fired PROVE FALSE
    <3>1. jobs[i].next < jobs[i].next
      BY <2>1, <2>3 DEF IInv, FiredInv
    <3>2. jobs[i].next \in Nat
      BY <2>1, ListFacts DEF IInv
    <3> QED
      BY <3>1, <3>2
  <2> QED
    BY <2>1, <2>2, <2>3
<1> QED
  BY <1>1, <1>2, TriggerSteps

(* The loop triggers a job whose time has not come only when a removal     *)
(* came between the scan and the use of its indices, and triggers a job    *)
(* twice for a minute only after a removal fell into a pending batch.      *)
THEOREM TriggersAreRight == Spec => TriggersRight
<1>1. IInv /\ [Next]_vars => [Triggers => (cur'.next <= now \/ removed)]_vars
  BY TriggerRight
<1>2. IInv /\ [Next]_vars => [Triggers => (<<cur'.uid, cur'.next>> \notin fired \/ overlap)]_vars
  BY TriggerRight
<1> QED
  BY <1>1, <1>2, InvHolds, PTL DEF Spec, TriggersRight, TriggersDue, OncePerMinute

=============================================================================
