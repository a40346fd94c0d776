---------------------------- MODULE CronScheduler ----------------------------
(***************************************************************************)
(* CronScheduler (server/src/scheduler/cron_scheduler.cpp): the background *)
(* loop, the HTTP handlers that add and remove jobs, and stop().           *)
(*                                                                         *)
(* A section under _mutex is one action; the loop keeps the mutex in the   *)
(* states of Locked, where only stop(), which takes no lock, can interfere.*)
(* A job carries a uid, a history value that tells jobs apart: ids are     *)
(* millisecond timestamps, and two requests of one millisecond share one.  *)
(* CronJob::enabled is never cleared by the program and is left out, and   *)
(* so is the id that addJob makes up, as create_job always passes one.     *)
(***************************************************************************)
EXTENDS Integers, Sequences, FiniteSets

CONSTANTS Spec5,     \* the cron expressions in use
          Slots,     \* Slots[s]: the minutes that match expression s
          Window,    \* how far CronExpr::next looks ahead (365 days)
          Horizon,   \* bound: the clock stands for "this late or later"
          MaxJobs,   \* bound: jobs ever created
          NoJob      \* "no job copied yet"

ASSUME SlotsAssumption == \A s \in Spec5 : Slots[s] \subseteq Nat
ASSUME BoundAssumption == Window \in Nat /\ Horizon \in Nat /\ MaxJobs \in Nat

VARIABLES
    now,       \* system_clock, in minutes
    jobs,      \* _jobs
    drafts,    \* jobs a create_job handler has built and not yet added
    made,      \* history: number of jobs built, and the last uid
    lastId,    \* the last millisecond in which a job was built
    stopping,  \* _stopping
    spc,       \* where the caller of stop() is
    pc,        \* where the loop is
    batch,     \* pending: the indices still to be triggered, in their order
    cur,       \* jobCopy
    nearest,   \* scan.nearestNext
    scanNow,   \* the time at which the scan was made
    wakeAt,    \* when the timed wait gives up
    fired,     \* history: the <<uid, minute>> pairs triggered
    removed,   \* history: a job was removed since the last scan
    overlap    \* history: a job was ever removed while a batch was pending

apiVars  == <<jobs, drafts, made, lastId>>
loopVars == <<pc, batch, cur, nearest, scanNow, wakeAt>>
histVars == <<fired, removed, overlap>>
vars     == <<now, apiVars, stopping, spc, loopVars, histVars>>

(* CronExpr::next: the first matching minute after t; it throws when there *)
(* is none within the window.                                              *)
Ahead(s, t)   == {m \in Slots[s] : t < m /\ m <= t + Window}
NextTime(s, t) == CHOOSE m \in Ahead(s, t) : \A k \in Ahead(s, t) : m <= k

(* scanJobsLocked *)
Nexts == {jobs[i].next : i \in DOMAIN jobs}
Nearest == CHOOSE t \in Nexts : \A u \in Nexts : t <= u
PendingIndices == {i \in DOMAIN jobs : jobs[i].next <= now}
First == CHOOSE i \in batch : \A k \in batch : i <= k

Locked == pc \in {"noJob", "blockJob", "future", "blockTime"}
Alive  == pc # "crashed"
Expired == now >= wakeAt \/ now = Horizon

Init ==
    /\ now = 0
    /\ jobs = <<>>
    /\ drafts = {}
    /\ made = 0
    /\ lastId = 0
    /\ stopping = FALSE
    /\ spc = "idle"
    /\ pc = "top"
    /\ batch = {}
    /\ cur = NoJob
    /\ nearest = 0
    /\ scanNow = 0
    /\ wakeAt = 0
    /\ fired = {}
    /\ removed = FALSE
    /\ overlap = FALSE

-----------------------------------------------------------------------------
(***************************************************************************)
(* The HTTP threads.  Notified(p) is where _cv.notify_all leaves the loop. *)
(***************************************************************************)
Notified(p) == CASE p = "waitJob"  -> "wokenJob"
                 [] p = "waitTime" -> "wokenTime"
                 [] OTHER          -> p

(* create_job builds the CronJob, whose constructor computes nextTime; an  *)
(* expression without a match is refused with 400.                         *)
CreateJob(s) ==
    /\ made < MaxJobs /\ Alive
    /\ Ahead(s, now) # {}
    /\ \E id \in {lastId, lastId + 1} :
          /\ lastId' = id
          /\ drafts' = drafts \cup
                {[uid |-> made + 1, id |-> id, spec |-> s, next |-> NextTime(s, now)]}
    /\ made' = made + 1
    /\ UNCHANGED <<now, jobs, stopping, spc, loopVars, histVars>>

(* Mutant: addJob does not notify. *)
AddJob_NoNotify(j) ==
    /\ ~Locked /\ Alive
    /\ jobs' = Append(jobs, j)
    /\ drafts' = drafts \ {j}
    /\ UNCHANGED <<now, made, lastId, stopping, spc, loopVars, histVars>>

AddJob(j) ==
    /\ ~Locked /\ Alive
    /\ jobs' = Append(jobs, j)
    /\ drafts' = drafts \ {j}
    /\ pc' = Notified(pc)
    /\ UNCHANGED <<now, made, lastId, stopping, spc, batch, cur, nearest, scanNow, wakeAt, histVars>>

(* delete_job and removeJob: every job with the id goes, the others move   *)
(* up in their order (std::remove_if).                                     *)
RemoveJob(id) ==
    /\ ~Locked /\ Alive
    /\ LET kept == {i \in DOMAIN jobs : jobs[i].id # id}
       IN  \E f \in [1..Cardinality(kept) -> kept] :
              /\ \A i, k \in DOMAIN f : i < k => f[i] < f[k]
              /\ jobs' = [i \in DOMAIN f |-> jobs[f[i]]]
    /\ pc' = Notified(pc)
    /\ removed' = (removed \/ jobs' # jobs)
    /\ overlap' = (overlap \/ (jobs' # jobs /\ pc \in {"copy", "dispatch"}))
    /\ UNCHANGED <<now, drafts, made, lastId, stopping, spc, batch, cur, nearest, scanNow, wakeAt, fired>>

(* stop(): the flag is set and the notification sent without _mutex. *)
SetStopping ==
    /\ spc = "idle" /\ Alive
    /\ stopping' = TRUE
    /\ spc' = "notify"
    /\ UNCHANGED <<now, apiVars, loopVars, histVars>>

StopNotify ==
    /\ spc = "notify" /\ Alive
    /\ pc' = Notified(pc)
    /\ spc' = "join"
    /\ UNCHANGED <<now, apiVars, stopping, batch, cur, nearest, scanNow, wakeAt, histVars>>

Join ==
    /\ spc = "join"
    /\ pc = "exited"
    /\ spc' = "stopped"
    /\ UNCHANGED <<now, apiVars, stopping, loopVars, histVars>>

-----------------------------------------------------------------------------
(***************************************************************************)
(* The loop.                                                               *)
(***************************************************************************)
(* The locals of an iteration end with it. *)
EndIteration ==
    /\ pc' = "top"
    /\ batch' = {} /\ cur' = NoJob
    /\ nearest' = 0 /\ scanNow' = 0 /\ wakeAt' = 0

LoopTop ==
    /\ pc = "top"
    /\ pc' = IF stopping THEN "exited" ELSE "scan"
    /\ UNCHANGED <<now, apiVars, stopping, spc, batch, cur, nearest, scanNow, wakeAt, histVars>>

Scan ==
    /\ pc = "scan"
    /\ removed' = FALSE
    /\ CASE jobs = <<>> ->
               pc' = "noJob" /\ UNCHANGED <<batch, nearest, scanNow>>
         [] jobs # <<>> /\ PendingIndices # {} ->
               pc' = "copy" /\ batch' = PendingIndices /\ UNCHANGED <<nearest, scanNow>>
         [] OTHER ->
               pc' = "future" /\ nearest' = Nearest /\ scanNow' = now /\ UNCHANGED batch
    /\ UNCHANGED <<now, apiVars, stopping, spc, cur, wakeAt, fired, overlap>>

(* The predicate of the untimed wait. *)
JobPredicate ==
    /\ pc \in {"noJob", "wokenJob"}
    /\ IF stopping \/ jobs # <<>>
          THEN EndIteration
          ELSE pc' = "blockJob" /\ UNCHANGED <<batch, cur, nearest, scanNow, wakeAt>>
    /\ UNCHANGED <<now, apiVars, stopping, spc, histVars>>

BlockJob ==
    /\ pc = "blockJob"
    /\ pc' = "waitJob"
    /\ UNCHANGED <<now, apiVars, stopping, spc, batch, cur, nearest, scanNow, wakeAt, histVars>>

(* wait_for: the deadline is fixed when the wait starts; the predicate is  *)
(* the stop flag alone.                                                    *)
StartTimedWait ==
    /\ pc = "future"
    /\ IF stopping
          THEN EndIteration
          ELSE /\ wakeAt' = now + (nearest - scanNow)
               /\ pc' = "blockTime"
               /\ UNCHANGED <<batch, cur, nearest, scanNow>>
    /\ UNCHANGED <<now, apiVars, stopping, spc, histVars>>

TimePredicate ==
    /\ pc = "wokenTime"
    /\ IF stopping \/ Expired
          THEN EndIteration
          ELSE pc' = "blockTime" /\ UNCHANGED <<batch, cur, nearest, scanNow, wakeAt>>
    /\ UNCHANGED <<now, apiVars, stopping, spc, histVars>>

BlockTime ==
    /\ pc = "blockTime"
    /\ pc' = "waitTime"
    /\ UNCHANGED <<now, apiVars, stopping, spc, batch, cur, nearest, scanNow, wakeAt, histVars>>

TimeUp ==
    /\ pc = "waitTime"
    /\ Expired
    /\ EndIteration
    /\ UNCHANGED <<now, apiVars, stopping, spc, histVars>>

BatchDone ==
    /\ pc = "copy"
    /\ batch = {}
    /\ EndIteration
    /\ UNCHANGED <<now, apiVars, stopping, spc, histVars>>

(* A copy of job j is taken to be triggered. *)
Take(j) ==
    /\ cur' = j
    /\ fired' = fired \cup {<<j.uid, j.next>>}
    /\ batch' = batch \ {First}
    /\ pc' = "dispatch"
    /\ UNCHANGED <<now, drafts, made, lastId, stopping, spc, nearest, scanNow, wakeAt, removed, overlap>>

(* Mutant: nextTime is not updated. *)
CopyJob_KeepsTime ==
    /\ pc = "copy"
    /\ batch # {}
    /\ First <= Len(jobs)
    /\ Ahead(jobs[First].spec, now) # {}
    /\ Take(jobs[First])
    /\ UNCHANGED jobs

(* The mutex is taken again: the index may name another job by now. *)
CopyJob ==
    /\ pc = "copy"
    /\ batch # {}
    /\ First <= Len(jobs)
    /\ LET i == First
       IN  /\ Ahead(jobs[i].spec, now) # {}
           /\ Take(jobs[i])
           /\ jobs' = [jobs EXCEPT ![i].next = NextTime(jobs[i].spec, now)]

(* The index is beyond the end: the first job is triggered instead, its    *)
(* nextTime left alone.                                                    *)
CopyFront ==
    /\ pc = "copy"
    /\ batch # {}
    /\ First > Len(jobs)
    /\ jobs # <<>>
    /\ Take(jobs[1])
    /\ UNCHANGED jobs

(* Mutant: an index beyond the end throws. *)
Crash_At ==
    /\ pc = "copy"
    /\ batch # {}
    /\ First <= Len(jobs) => Ahead(jobs[First].spec, now) = {}
    /\ pc' = "crashed"
    /\ UNCHANGED <<now, apiVars, stopping, spc, batch, cur, nearest, scanNow, wakeAt, histVars>>

(* front() of an empty vector, or an exception of next() outside the try   *)
(* block: the thread, and with it the process, is lost.                    *)
Crash ==
    /\ pc = "copy"
    /\ batch # {}
    /\ IF First > Len(jobs) THEN jobs = <<>>
                                  ELSE Ahead(jobs[First].spec, now) = {}
    /\ pc' = "crashed"
    /\ UNCHANGED <<now, apiVars, stopping, spc, batch, cur, nearest, scanNow, wakeAt, histVars>>

(* dispatch_job runs to its end on this thread; exceptions are caught. *)
Dispatch ==
    /\ pc = "dispatch"
    /\ pc' = "copy"
    /\ cur' = NoJob
    /\ UNCHANGED <<now, apiVars, stopping, spc, batch, nearest, scanNow, wakeAt, histVars>>

Loop == \/ LoopTop \/ Scan \/ JobPredicate \/ BlockJob \/ StartTimedWait \/ TimePredicate
        \/ BlockTime \/ TimeUp \/ BatchDone \/ CopyJob \/ CopyFront \/ Crash \/ Dispatch

SpuriousWake ==
    /\ pc \in {"waitJob", "waitTime"}
    /\ pc' = Notified(pc)
    /\ UNCHANGED <<now, apiVars, stopping, spc, batch, cur, nearest, scanNow, wakeAt, histVars>>

(* std::terminate: nothing happens any more. *)
Gone == ~Alive /\ UNCHANGED vars

Tick ==
    /\ now < Horizon /\ Alive
    /\ now' = now + 1
    /\ UNCHANGED <<apiVars, stopping, spc, loopVars, histVars>>

Handlers == \/ \E s \in Spec5 : CreateJob(s)
            \/ \E j \in drafts : AddJob(j)
            \/ \E id \in 0..lastId : RemoveJob(id)

Next == Handlers \/ SetStopping \/ StopNotify \/ Join \/ Loop \/ SpuriousWake \/ Tick \/ Gone

Spec == Init /\ [][Next]_vars

(* The loop thread is scheduled, the clock moves on, and a caller inside   *)
(* stop() continues; nobody has to call anything.                          *)
Fairness == WF_vars(Loop) /\ WF_vars(Tick) /\ WF_vars(StopNotify) /\ WF_vars(Join)
FairSpec == Spec /\ Fairness
-----------------------------------------------------------------------------
(***************************************************************************)
(* Properties.                                                             *)
(***************************************************************************)
Job == [uid : 1..MaxJobs, id : 0..MaxJobs, spec : Spec5, next : Nat]

(* The type invariant of the scheduler's state. *)
TypeOK ==
    /\ now \in 0..Horizon
    /\ jobs \in Seq(Job)
    /\ drafts \subseteq Job
    /\ made \in 0..MaxJobs
    /\ lastId \in 0..MaxJobs
    /\ stopping \in BOOLEAN
    /\ spc \in {"idle", "notify", "join", "stopped"}
    /\ pc \in {"top", "scan", "noJob", "blockJob", "waitJob", "wokenJob", "future", "blockTime",
               "waitTime", "wokenTime", "copy", "dispatch", "exited", "crashed"}
    /\ batch \subseteq 1..MaxJobs
    /\ cur \in Job \cup {NoJob}
    /\ nearest \in Nat /\ scanNow \in Nat /\ wakeAt \in Nat
    /\ fired \subseteq ((1..MaxJobs) \X Nat)
    /\ removed \in BOOLEAN /\ overlap \in BOOLEAN

Triggers == pc = "copy" /\ pc' = "dispatch"

(* loop() triggers a job whose time has not come only when a removal came  *)
(* between the scan and the use of its indices.                            *)
TriggersDue == [][Triggers => (cur'.next <= now \/ removed)]_vars

(* A job is triggered at most once for each of its minutes, however late   *)
(* the loop is (dispatch_job is synchronous), unless a removal ever fell   *)
(* into a pending batch.                                                   *)
OncePerMinute == [][Triggers => (<<cur'.uid, cur'.next>> \notin fired \/ overlap)]_vars

(* The loop loses no job: one that is listed and due is triggered, or      *)
(* removed, unless the scheduler is being stopped or has crashed.          *)
DueJobs == {jobs[i].uid : i \in {k \in DOMAIN jobs : jobs[k].next <= now}}
DueIsTriggered == \A u \in 1..MaxJobs :
    (u \in DueJobs) ~> (u \notin DueJobs \/ stopping \/ pc = "crashed")

(* stop() returns once the loop has a job to wait for: the lost            *)
(* notification is made good by the timeout.                               *)
StopsWithJobs == (spc = "join" /\ pc \in {"blockTime", "waitTime"}) ~> (spc = "stopped")

(* The loop thread dies, and the process with it, for two reasons only: a  *)
(* removal emptied the list while a batch was pending, or an expression    *)
(* has no further match within the window of CronExpr::next.               *)
CrashExplained ==
    pc = "crashed" => (overlap /\ jobs = <<>>) \/ (\E i \in DOMAIN jobs : Ahead(jobs[i].spec, now) = {})

(* The state of the scheduler is well typed, and the loop thread dies only  *)
(* for the two reasons above.                                               *)
CronSound == TypeOK /\ CrashExplained

(* What loop() triggers is due and was not triggered before, up to the      *)
(* removals named above.                                                    *)
TriggersRight == TriggersDue /\ OncePerMinute

(* Due jobs are triggered and stop() ends a timed wait.                     *)
CronLive == DueIsTriggered /\ StopsWithJobs
=============================================================================
