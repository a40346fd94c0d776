------------------------------- MODULE DagRun -------------------------------
(***************************************************************************)
(* What one run of a DAG promises, with no threads, queues or counters: a  *)
(* node starts only when everything it depends on has succeeded and a slot *)
(* is free, ends with one outcome, may be skipped only below a node that   *)
(* did not succeed, and the verdict of the run says whether a node failed. *)
(* A node whose id is the empty string is never started, and neither is    *)
(* what depends on it: the run ends with those nodes pending.              *)
(*                                                                         *)
(* DagExecutor (server/src/dag/dag_executor.cpp) is shown to implement it. *)
(***************************************************************************)
EXTENDS Integers, FiniteSets, Sequences

CONSTANTS Node,      \* the nodes of the graph (DagGraph::_nodes)
          Configs,   \* the runs considered: graph, policy, parallelism, thread
          Outcomes   \* the statuses TaskRunner::run may return for a node

(***************************************************************************)
(* core::TaskStatus.  Canceled and Timeout are "failure like" for the DAG. *)
(***************************************************************************)
FailureLike == {"Failed", "Timeout", "Canceled"}
Terminal    == FailureLike \cup {"Success", "Skipped"}
TaskStatus  == Terminal \cup {"Pending", "Running"}
Verdict     == {"none", "Success", "Failed"}
FailPolicy  == {"FailFast", "SkipDownstream"}

(***************************************************************************)
(* A configuration: down[p] lists the downstream nodes of p in the order   *)
(* in which DagBuilder::build appends them (a repeated dependency appears  *)
(* twice), nameless holds the node whose id is the empty string, if there  *)
(* is one, maxParallel is DagConfig::maxParallel before it is normalised,  *)
(* and inline says that execute() runs on a worker of the DAG pool.        *)
(***************************************************************************)
Config == [down        : [Node -> Seq(Node)],
           nameless    : {{}} \cup {{n} : n \in Node},
           policy      : FailPolicy,
           maxParallel : Int,
           inline      : BOOLEAN]

ChildrenIn(down, p) == {down[p][i] : i \in DOMAIN down[p]}

(* Every non-empty set of nodes has a member on which no member depends... *)
(* read from below: a member with no dependency inside the set.            *)
Acyclic(down) == \A S \in SUBSET Node :
    S # {} => \E n \in S : \A p \in S : n \notin ChildrenIn(down, p)

ASSUME NodeAssumption    == IsFiniteSet(Node)
ASSUME ConfigAssumption  == /\ Configs \subseteq Config
                            /\ \A c \in Configs : Acyclic(c.down)
ASSUME OutcomeAssumption == Outcomes \subseteq (FailureLike \cup {"Success"})

VARIABLES cfg,      \* the configuration of the run; never changes
          status,   \* status of every node
          verdict   \* what execute() returned

runVars == <<cfg, status, verdict>>

(* execute(): a non-positive limit is replaced by 1. *)
MaxParallel == IF cfg.maxParallel <= 0 THEN 1 ELSE cfg.maxParallel
Children(p) == ChildrenIn(cfg.down, p)
Deps(n)     == {p \in Node : n \in Children(p)}
NodesIn(S)  == {n \in Node : status[n] \in S}

RunInit == /\ cfg \in Configs
           /\ status = [n \in Node |-> "Pending"]
           /\ verdict = "none"

(* The pending nodes are the nameless one and what waits for it: a pending *)
(* node with a name has a pending dependency, and the graph has no cycle.  *)
OnlyStranded == \A n \in NodesIn({"Pending"}) \ cfg.nameless :
                    Deps(n) \cap NodesIn({"Pending"}) # {}

Start(n) ==
    /\ verdict = "none"
    /\ n \notin cfg.nameless
    /\ status[n] = "Pending"
    /\ Deps(n) \subseteq NodesIn({"Success"})
    /\ Cardinality(NodesIn({"Running"})) < MaxParallel
    /\ status' = [status EXCEPT ![n] = "Running"]
    /\ UNCHANGED <<cfg, verdict>>

Finish(n, r) ==
    /\ status[n] = "Running"
    /\ status' = [status EXCEPT ![n] = r]
    /\ UNCHANGED <<cfg, verdict>>

Skip(n) ==
    /\ verdict = "none"
    /\ cfg.policy = "SkipDownstream"
    /\ status[n] = "Pending"
    /\ Deps(n) \cap NodesIn(FailureLike \cup {"Skipped"}) # {}
    /\ status' = [status EXCEPT ![n] = "Skipped"]
    /\ UNCHANGED <<cfg, verdict>>

(* The verdict: no node is running any more; after a run without failure   *)
(* every node succeeded or is stranded, and under SkipDownstream the       *)
(* stranded nodes are the only ones left pending.                          *)
Return(v) ==
    /\ verdict = "none"
    /\ NodesIn({"Running"}) = {}
    /\ v = IF NodesIn(FailureLike) # {} THEN "Failed" ELSE "Success"
    /\ v = "Success" => NodesIn({"Success", "Pending"}) = Node /\ OnlyStranded
    /\ cfg.policy = "SkipDownstream" => OnlyStranded
    /\ verdict' = v
    /\ UNCHANGED <<cfg, status>>

RunNext == \/ \E n \in Node : Start(n) \/ Skip(n) \/ (\E r \in Outcomes : Finish(n, r))
           \/ \E v \in Verdict : Return(v)

RunSpec == RunInit /\ [][RunNext]_runVars
=============================================================================
