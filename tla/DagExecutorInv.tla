--------------------------- MODULE DagExecutorInv ---------------------------
(***************************************************************************)
(* The inductive invariant of DagExecutor, in named parts.  TLC checks it  *)
(* on the instances of MCDagExecutor; DagProofs proves it.                 *)
(***************************************************************************)
EXTENDS DagExecutor

Unsuccessful == FailureLike \cup {"Skipped"}
Unstarted    == {"Pending", "Skipped"}

(* The edges into n that no job has passed in its downstream loop. *)
OpenEdges(n) == {e \in InEdges(n) : e[2] >= idx[e[1]]}

(* The jobs that hold a slot of the run. *)
Active == {n \in Node : wpc[n] \notin {"idle", "notify", "done"}}

(* The scheduler has popped cur and not yet started or dropped it. *)
Holding(n) == mpc \in {"filter", "failfast", "recheck", "start"} /\ cur = n
Queued(n)  == \E i \in DOMAIN readyQueue : readyQueue[i] = n
Pushing(n) == \E p \in Node : wpc[p] = "push" /\ Down(p)[idx[p] - 1] = n
Ready(n)   == Queued(n) \/ Pushing(n) \/ Holding(n)

(* Where a job is determines the status of its node. *)
JobInv ==
    \A n \in Node :
        /\ wpc[n] = "idle" => \/ status[n] \in Unstarted
                              \/ status[n] = "Running" /\ mpc = "post" /\ cur = n
        /\ wpc[n] \in {"run", "status"} => status[n] = "Running"
        /\ wpc[n] \notin {"idle", "run"} => result[n] \in Outcomes
        /\ wpc[n] \notin {"idle", "run", "status"} => status[n] = result[n]
        /\ wpc[n] \in {"release", "decrement", "push"} => status[n] = "Success"
        /\ wpc[n] \in {"fail", "skip", "expand"} => status[n] \in FailureLike

(* The position of the downstream loop. *)
LoopInv ==
    \A n \in Node :
        /\ idx[n] \in 1..(Len(Down(n)) + 1)
        /\ idx[n] > 1 => status[n] = "Success"
        /\ wpc[n] = "decrement" => idx[n] <= Len(Down(n))
        /\ wpc[n] = "push" => idx[n] > 1
        /\ wpc[n] \in {"leave", "notify", "done"} /\ status[n] = "Success"
              => idx[n] = Len(Down(n)) + 1

(* The indegree counters count the open edges; only for a skipped node,    *)
(* which no job decrements, may the counter be larger.                     *)
CountInv ==
    \A n \in Node :
        /\ indegree[n] >= Cardinality(OpenEdges(n))
        /\ status[n] # "Skipped" => indegree[n] = Cardinality(OpenEdges(n))

(* A node on its way to execution, and one that was started, has no open   *)
(* edge; the scheduler marks only a pending node as running.               *)
ReadyInv ==
    /\ \A n \in Node : Ready(n) => indegree[n] = 0
    /\ \A n \in Node : status[n] \notin Unstarted => OpenEdges(n) = {}
    /\ mpc \in {"filter", "failfast", "recheck", "start", "post", "inline"} =>
          cur \in Node \ cfg.nameless
    /\ mpc = "start" => status[cur] = "Pending"
    /\ mpc = "post" => status[cur] = "Running" /\ wpc[cur] = "idle"

(* What a skip traversal holds is below an unsuccessful node. *)
HasUnsuccessfulDep(n) == Deps(n) \cap NodesIn(Unsuccessful) # {}

SkipInv ==
    /\ \A n \in Node : status[n] = "Skipped" =>
          HasUnsuccessfulDep(n) /\ cfg.policy = "SkipDownstream"
    /\ \A p \in Node :
          /\ wpc[p] \in {"skip", "expand"} => cfg.policy = "SkipDownstream"
          /\ wpc[p] \notin {"skip", "expand"} => toVisit[p] = {}
          /\ \A n \in toVisit[p] : HasUnsuccessfulDep(n)
          /\ wpc[p] = "expand" => skipping[p] \in Node /\ status[skipping[p]] = "Skipped"
          /\ \A n \in visited[p] : n \in toVisit[p] \/ status[n] = "Skipped"

(* The counter of running nodes is exact and below the limit while the     *)
(* scheduler submits.                                                      *)
SlotInv ==
    /\ running = Cardinality(Active)
    /\ running <= MaxParallel
    /\ mpc \in {"pop", "filter", "failfast", "recheck", "start", "post"} => running < MaxParallel

(* No node with a name whose dependencies are done is forgotten, unless    *)
(* FailFast dropped it; and whatever lies below an unsuccessful node is    *)
(* skipped or on some traversal's list.                                    *)
NoneForgotten ==
    mpc # "init" /\ (cfg.policy = "FailFast" => ~failed) =>
        \A n \in Node \ cfg.nameless :
            status[n] = "Pending" /\ indegree[n] = 0 => Ready(n)

SkipReaches ==
    cfg.policy = "SkipDownstream" =>
        \A p \in Node : status[p] \in Unsuccessful =>
            \A n \in Children(p) :
                \/ status[n] = "Skipped"
                \/ wpc[p] = "fail"
                \/ \E q \in Node : n \in toVisit[q]
                \/ \E q \in Node : wpc[q] = "expand" /\ skipping[q] = p

FailedInv ==
    /\ failed => NodesIn(FailureLike) # {}
    /\ \A n \in Node : status[n] \in FailureLike => failed \/ wpc[n] = "fail"

EndInv ==
    /\ mpc = "init" => /\ readyQueue = <<>>
                       /\ \A n \in Node : status[n] = "Pending" /\ wpc[n] = "idle"
    /\ mpc \in {"verdict", "returned"} => readyQueue = <<>> /\ running = 0
    /\ verdict = IF mpc = "returned" THEN (IF failed THEN "Failed" ELSE "Success")
                                     ELSE "none"

RowInv ==
    \A n \in Node :
        /\ status[n] = "Pending" => taskRun[n] = "Pending"
        /\ status[n] = "Skipped" =>
              taskRun[n] = "Skipped" \/ \E p \in Node : wpc[p] = "expand" /\ skipping[p] = n
        /\ wpc[n] = "run" => taskRun[n] = "Running"
        /\ wpc[n] \notin {"idle", "run"} => taskRun[n] = result[n]

LateInv ==
    cfg.policy = "FailFast" /\ late # {} =>
        /\ failed
        /\ mpc \notin {"recheck", "start"}
        /\ \E n \in Node : late = {n}

(* What the refinement by the rows needs beyond RowInv: a row is started   *)
(* and skipped only from Pending, and when a traversal gets to a node the  *)
(* row of one of its dependencies already says that it was unsuccessful.   *)
RowBelow(n) == \E p \in Deps(n) : taskRun[p] \in Unsuccessful

RowsTrail ==
    \A n \in Node :
        /\ wpc[n] = "idle" /\ status[n] = "Running" => taskRun[n] = "Pending"
        /\ status[n] = "Skipped" => taskRun[n] \in {"Pending", "Skipped"}

RowsSkip ==
    \A p \in Node :
        /\ \A n \in toVisit[p] : RowBelow(n)
        /\ wpc[p] = "expand" => RowBelow(skipping[p])

CoreInv == /\ TypeOK /\ JobInv /\ LoopInv /\ CountInv /\ ReadyInv /\ SkipInv
EndsInv == /\ SlotInv /\ NoneForgotten /\ SkipReaches /\ FailedInv /\ EndInv /\ RowInv /\ LateInv

(* The inductive invariant: the parts above, each of which is needed to    *)
(* carry another through a step of execute() or onNodeFinished().          *)
IInv == CoreInv /\ EndsInv
=============================================================================
