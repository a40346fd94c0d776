--------------------------- MODULE RemoteDispatch ---------------------------
(***************************************************************************)
(* RemoteExecutionStrategy (server/src/execution/remote_strategy.cpp): the *)
(* dispatch of sub-DAGs to workers, over WorkerRegistry.                   *)
(*                                                                         *)
(* A call of POST /api/worker/execute ends in one of the Answers; only the *)
(* first two mean that the worker has taken the DAG.  A result of Success  *)
(* is an acknowledgement: the outcome of the sub-DAG is never awaited.     *)
(***************************************************************************)
EXTENDS WorkerRegistry

CONSTANTS Dispatch,    \* the Remote nodes executed concurrently
          QueueOf,     \* QueueOf[d]: TaskConfig::queue
          MaxRetries,  \* dispatch.max_retries
          NoWorker

ASSUME DispatchAssumption ==
    /\ MaxRetries \in Int /\ \A d \in Dispatch : QueueOf[d] \in Queue
    /\ NoWorker \notin Worker

VARIABLES
    dpc,      \* where execute() is
    tries,    \* the attempt under way
    target,   \* the worker picked last
    abort,    \* what pre_dispatch_abort would return
    result,   \* the status returned
    runs,     \* history: how often a worker took the sub-DAG
    late,     \* history: calls made after the abort
    shunned   \* history: the worker whose cooldown stems from this dispatch

callVars == <<dpc, tries, target, result, runs, late>>
vars     == <<registryVars, workerVars, callVars, abort, shunned>>

MaxAttempts == 1 + (IF MaxRetries < 0 THEN 0 ELSE MaxRetries)

Init ==
    /\ RegistryInit
    /\ dpc = [d \in Dispatch |-> "start"]
    /\ tries = [d \in Dispatch |-> 1]
    /\ target = [d \in Dispatch |-> NoWorker]
    /\ abort = [d \in Dispatch |-> "none"]
    /\ result = [d \in Dispatch |-> "Pending"]
    /\ runs = [d \in Dispatch |-> 0]
    /\ late = [d \in Dispatch |-> 0]
    /\ shunned = [d \in Dispatch |-> NoWorker]

Goto(d, p) == dpc' = [dpc EXCEPT ![d] = p]
Give(d, s) == result' = [result EXCEPT ![d] = s]

-----------------------------------------------------------------------------
(* The head of execute(), where extractDagBody may fail. *)
Start(d, parsed) ==
    /\ dpc[d] = "start"
    /\ abort[d] = "none"
    /\ IF parsed THEN Goto(d, "pick") /\ UNCHANGED result
                 ELSE Goto(d, "returned") /\ Give(d, "Failed")
    /\ UNCHANGED <<registryVars, workerVars, tries, target, runs, late, abort, shunned>>

(* The head of the retry loop: abort, as at the head of execute(), no      *)
(* worker, or a copy of the picked worker's entry.                         *)
PickAborted(d) ==
    /\ dpc[d] \in {"start", "pick"}
    /\ abort[d] # "none"
    /\ Give(d, abort[d]) /\ Goto(d, "returned")
    /\ UNCHANGED <<registryVars, workerVars, tries, target, runs, late, abort, shunned>>

(* Mutant: the loop waits for a worker. *)
PickNone_Waits(d) ==
    /\ dpc[d] = "pick"
    /\ abort[d] = "none"
    /\ Candidates(QueueOf[d]) = {}
    /\ UNCHANGED vars

PickNone(d) ==
    /\ dpc[d] = "pick"
    /\ abort[d] = "none"
    /\ Candidates(QueueOf[d]) = {}
    /\ Give(d, "Failed") /\ Goto(d, "returned")
    /\ UNCHANGED <<registryVars, workerVars, tries, target, runs, late, abort, shunned>>

Pick(d) ==
    /\ dpc[d] = "pick"
    /\ abort[d] = "none"
    /\ Candidates(QueueOf[d]) # {}
    /\ target' = [target EXCEPT ![d] = pickWorkerForQueue(QueueOf[d])]
    /\ cursor' = CursorAfter(QueueOf[d])
    /\ Goto(d, "post")
    /\ UNCHANGED <<workers, strategy, workerVars, tries, result, runs, late, abort, shunned>>

(***************************************************************************)
(* dispatch_once.  "ack": 2xx with ok or a run id; "lost": the worker took *)
(* the DAG and the response did not arrive; "none": nothing arrived;       *)
(* "5xx": an answer that is retried; "other": any other status, or a body  *)
(* that is not JSON.                                                       *)
(***************************************************************************)
Answers   == {"ack", "lost", "none", "5xx", "other"}
Possible(w) == IF up[w] THEN Answers ELSE {"none"}
Silent(a) == a \in {"lost", "none"}
Taken(a)  == a \in {"ack", "lost"}

(* Mutant: a missing response is no failure. *)
Outcome_Optimistic(d, a) == CASE a = "ack" \/ Silent(a) -> "Success" [] OTHER -> "Failed"
Outcome(d, a) == CASE a = "ack"                           -> "Success"
                   [] Silent(a) /\ abort[d] # "none"      -> abort[d]
                   [] OTHER                               -> "Failed"
Retryable(d, a) == a = "5xx" \/ (Silent(a) /\ abort[d] = "none")

Post(d, a) ==
    /\ dpc[d] = "post"
    /\ a \in Possible(target[d])
    /\ runs' = [runs EXCEPT ![d] = IF Taken(a) THEN @ + 1 ELSE @]
    /\ late' = [late EXCEPT ![d] = IF abort[d] # "none" THEN @ + 1 ELSE @]
    /\ Give(d, Outcome(d, a))
    /\ Goto(d, IF Retryable(d, a) THEN "mark" ELSE "returned")
    /\ UNCHANGED <<registryVars, workerVars, tries, target, abort, shunned>>

(* The deadline is looked at again before the call is made. *)
PostTooLate(d) ==
    /\ dpc[d] = "post"
    /\ abort[d] = "Timeout"
    /\ Give(d, "Timeout") /\ Goto(d, "returned")
    /\ UNCHANGED <<registryVars, workerVars, tries, target, runs, late, abort, shunned>>

(* A retryable failure: the worker cools down, and the loop goes on. *)
Mark(d) ==
    /\ dpc[d] = "mark"
    /\ workers' = markDispatchFailure(target[d])
    /\ shunned' = [shunned EXCEPT ![d] = IF target[d] \in Known THEN target[d] ELSE NoWorker]
    /\ IF tries[d] = MaxAttempts
          THEN Goto(d, "returned") /\ UNCHANGED tries
          ELSE Goto(d, "pick") /\ tries' = [tries EXCEPT ![d] = @ + 1]
    /\ UNCHANGED <<cursor, strategy, workerVars, target, result, runs, late, abort>>

Execute(d) == \/ \E parsed \in BOOLEAN : Start(d, parsed)
              \/ PickAborted(d) \/ PickNone(d) \/ Pick(d) \/ PostTooLate(d) \/ Mark(d)
              \/ \E a \in Answers : Post(d, a)

(* The cancel flag is raised or the deadline passes. *)
Abort(d) ==
    /\ abort[d] = "none" /\ dpc[d] # "returned"
    /\ \E s \in {"Canceled", "Timeout"} : abort' = [abort EXCEPT ![d] = s]
    /\ UNCHANGED <<registryVars, workerVars, callVars, shunned>>

(* A cooldown ends with time, with the entry and with a new registration.  *)
StillShunned == shunned' = [d \in Dispatch |->
    IF /\ shunned[d] # NoWorker
       /\ workers'[shunned[d]] # Absent
       /\ workers'[shunned[d]].cool > 0 THEN shunned[d] ELSE NoWorker]

Registry == (RegistryStep \/ Tick) /\ StillShunned /\ UNCHANGED <<callVars, abort>>

Next == (\E d \in Dispatch : Execute(d) \/ Abort(d)) \/ Registry

Spec == Init /\ [][Next]_vars

(***************************************************************************)
(* A call ends; a client whose worker stays up goes on registering or      *)
(* sending heartbeats, and not every response is lost.                     *)
(***************************************************************************)
Answered(w) == (Register(w, TRUE) \/ Heartbeat(w, TRUE)) /\ StillShunned /\ UNCHANGED <<callVars, abort>>
Fairness == /\ \A d \in Dispatch : WF_vars(Execute(d))
            /\ \A w \in Worker : WF_vars(Answered(w))
FairSpec == Spec /\ Fairness
-----------------------------------------------------------------------------
(***************************************************************************)
(* Properties.                                                             *)
(***************************************************************************)
(* The type invariant; the cursor of a queue stays below the number of     *)
(* workers and the attempts within dispatch.max_retries.                   *)
TypeOK ==
    /\ workers \in [Worker -> Entry \cup {Absent}]
    /\ cursor \in [Queue -> 0..(Cardinality(Worker) - 1)]
    /\ strategy \in {"rr", "least-load"}
    /\ up \in [Worker -> BOOLEAN] /\ registered \in [Worker -> BOOLEAN]
    /\ down \in [Worker -> 0..AliveFor]
    /\ dpc \in [Dispatch -> {"start", "pick", "post", "mark", "returned"}]
    /\ tries \in [Dispatch -> 1..MaxAttempts]
    /\ target \in [Dispatch -> Worker \cup {NoWorker}]
    /\ abort \in [Dispatch -> {"none", "Canceled", "Timeout"}]
    /\ result \in [Dispatch -> {"Pending", "Success", "Failed", "Canceled", "Timeout"}]
    /\ runs \in [Dispatch -> 0..MaxAttempts] /\ late \in [Dispatch -> 0..MaxAttempts]
    /\ shunned \in [Dispatch -> Worker \cup {NoWorker}]

Picks(d, w) == dpc[d] = "pick" /\ dpc'[d] = "post" /\ target'[d] = w

(* A worker that has been down for as long as isAlive allows is not        *)
(* picked, whatever heartbeats, registrations and lost responses came      *)
(* before.                                                                 *)
CrashedNotPicked ==
    [][\A d \in Dispatch, w \in Worker : (Picks(d, w) /\ ~up[w]) => down[w] < AliveFor]_vars

(* A retry goes to another worker while the cooldown of the failure lasts  *)
(* and another one can take it.                                            *)
RetryElsewhere ==
    [][\A d \in Dispatch, w \in Worker :
          (Picks(d, w) /\ w = shunned[d]) => Rested(QueueOf[d]) = {}]_vars

(* Success is reported exactly for a sub-DAG whose last call was           *)
(* acknowledged: some worker has taken it; a dispatch runs it at most once *)
(* per attempt.                                                            *)
RunsAccounted ==
    \A d \in Dispatch : /\ runs[d] <= tries[d]
                        /\ result[d] = "Success" => runs[d] > 0
                        /\ (dpc[d] = "pick" /\ tries[d] = 1) => runs[d] = 0

(* After the cancellation or the deadline at most the call under way is    *)
(* still made.                                                             *)
OneLateCall == \A d \in Dispatch : late[d] <= 1

(* The safety of dispatching: cursors and attempts stay in their bounds,    *)
(* and the calls made, acknowledged and reported agree.                     *)
DispatchSound == TypeOK /\ RunsAccounted /\ OneLateCall

(* Every dispatch ends, whatever the workers do. *)
DispatchEnds == \A d \in Dispatch : <>(dpc[d] = "returned")

(* A worker that stays up is again and again known as alive, although its  *)
(* entry may be pruned while its heartbeats are lost.                      *)
ComesBack == \A w \in Worker : <>[]up[w] => []<>(w \in Known /\ isAlive(w))
=============================================================================
