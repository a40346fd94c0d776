------------------------------ MODULE DagBuilder ------------------------------
(***************************************************************************)
(* DagBuilder::validate and build (server/src/dag/dag_builder.cpp), called *)
(* in this order by DagService::runDag: the check for missing              *)
(* dependencies, Kahn's algorithm, the depth-first search that names a     *)
(* cycle, and the graph handed to the executor.                            *)
(*                                                                         *)
(* A task list is a sequence of records [id, deps].  Ids and dependencies  *)
(* may repeat, and both may be the empty string (Empty).  The hash maps    *)
(* are iterated in no particular order, so the queue is a set and the      *)
(* search takes roots and edges in any order.                              *)
(***************************************************************************)
EXTENDS Integers, Sequences, FiniteSets

CONSTANTS Name,       \* the id strings
          Empty,      \* the empty string
          TaskLists   \* the lists considered

TaskSpec == [id : Name, deps : Seq(Name)]

ASSUME NameAssumption  == IsFiniteSet(Name) /\ Empty \in Name
ASSUME ListsAssumption == TaskLists \subseteq Seq(TaskSpec)

VARIABLES
    specs,      \* _specs
    pc,         \* where runDag is
    error,      \* DagValidateResult::errorMessage: "none", "missing", "cycle"
    degree,     \* indegree of validate
    queue,      \* q
    popped,     \* the ids popped from q
    count,      \* visitedCount
    color,      \* 0 not met, 1 on the stack, 2 finished
    stack,      \* the path of the search
    left,       \* the downstream ids a node on the stack has still to try
    cycle,      \* DagValidateResult::cycleNodes
    nodes,      \* the ids of the graph built
    nodeIn      \* their DagNode::_indegree

kahnVars  == <<degree, queue, popped, count>>
dfsVars   == <<color, stack, left, cycle>>
graphVars == <<nodes, nodeIn>>
builderVars == <<specs, pc, error, kahnVars, dfsVars, graphVars>>

Ids  == {specs[i].id : i \in DOMAIN specs}
(* One edge <<i, k>> for the k-th dependency of the i-th task. *)
Edges == UNION {{<<i, k>> : k \in DOMAIN specs[i].deps} : i \in DOMAIN specs}
From(e) == specs[e[1]].deps[e[2]]
To(e)   == specs[e[1]].id
Into(n)    == {e \in Edges : To(e) = n}
Between(m, n) == {e \in Edges : From(e) = m /\ To(e) = n}
Downstream(m) == {To(e) : e \in {d \in Edges : From(d) = m}}
DepsKnown  == \A e \in Edges : From(e) \in Ids

(* What the executor needs: every set of nodes has a member that depends   *)
(* on no member (Acyclic of DagRun).                                       *)
HasSource(S) == \E n \in S : \A m \in S : Between(m, n) = {}
CycleFree    == \A S \in SUBSET Ids : S # {} => HasSource(S)

BuilderInit ==
    /\ specs \in TaskLists
    /\ pc = "deps"
    /\ error = "none"
    /\ degree = [n \in Name |-> 0]
    /\ queue = {}
    /\ popped = {}
    /\ count = 0
    /\ color = [n \in Name |-> 0]
    /\ stack = <<>>
    /\ left = [n \in Name |-> {}]
    /\ cycle = <<>>
    /\ nodes = {}
    /\ nodeIn = [n \in Name |-> 0]

(* Step 1: an unknown dependency is an error, unless its name is empty. *)
CheckDeps ==
    /\ pc = "deps"
    /\ IF \E e \in Edges : From(e) # Empty /\ From(e) \notin Ids
          THEN pc' = "rejected" /\ error' = "missing"
          ELSE pc' = "tables" /\ UNCHANGED error
    /\ UNCHANGED <<specs, kahnVars, dfsVars, graphVars>>

(* Step 2: the indegrees, and the ids without dependency. *)
InitTables ==
    /\ pc = "tables"
    /\ degree' = [n \in Name |-> Cardinality(Into(n))]
    /\ queue' = {n \in Ids : Into(n) = {}}
    /\ pc' = "kahn"
    /\ UNCHANGED <<specs, error, popped, count, dfsVars, graphVars>>

(* One id leaves the queue: every edge it has lowers an indegree, and an   *)
(* id whose indegree becomes 0 is queued.                                  *)
Pop(m) ==
    /\ pc = "kahn"
    /\ m \in queue
    /\ LET after == [n \in Name |-> degree[n] - Cardinality(Between(m, n))]
       IN  /\ degree' = after
           /\ queue' = (queue \ {m}) \cup {n \in Downstream(m) : after[n] = 0}
    /\ popped' = popped \cup {m}
    /\ count' = count + 1
    /\ UNCHANGED <<specs, pc, error, dfsVars, graphVars>>

(* Mutant: the count is not looked at. *)
CountVisited_Ignored ==
    /\ pc = "kahn"
    /\ queue = {}
    /\ pc' = "build"
    /\ UNCHANGED <<specs, error, kahnVars, dfsVars, graphVars>>

(* Not every id was reached: there is a cycle. *)
CountVisited ==
    /\ pc = "kahn"
    /\ queue = {}
    /\ IF count # Cardinality(Ids)
          THEN pc' = "roots" /\ error' = "cycle"
          ELSE pc' = "build" /\ UNCHANGED error
    /\ UNCHANGED <<specs, kahnVars, dfsVars, graphVars>>

-----------------------------------------------------------------------------
(***************************************************************************)
(* The search for the nodes of a cycle: dfs(node) with an explicit stack.  *)
(***************************************************************************)
Enter(n) ==
    /\ color' = [color EXCEPT ![n] = 1]
    /\ stack' = Append(stack, n)
    /\ left' = [left EXCEPT ![n] = Downstream(n)]
    /\ pc' = "dfs"
    /\ UNCHANGED cycle

Top == stack[Len(stack)]

DfsRoot(n) ==
    /\ pc = "roots"
    /\ n \in Ids
    /\ color[n] = 0
    /\ Enter(n)
    /\ UNCHANGED <<specs, error, kahnVars, graphVars>>

DfsEnd ==
    /\ pc = "roots"
    /\ \A n \in Ids : color[n] # 0
    /\ pc' = "rejected"
    /\ UNCHANGED <<specs, error, kahnVars, dfsVars, graphVars>>

DfsDescend(t) ==
    /\ pc = "dfs"
    /\ t \in left[Top]
    /\ color[t] = 0
    /\ Enter(t)
    /\ UNCHANGED <<specs, error, kahnVars, graphVars>>

(* A node that was already finished is passed over. *)
DfsPass(t) ==
    /\ pc = "dfs"
    /\ t \in left[Top]
    /\ color[t] = 2
    /\ left' = [left EXCEPT ![Top] = @ \ {t}]
    /\ UNCHANGED <<specs, pc, error, kahnVars, color, stack, cycle, graphVars>>

(* Mutant: the whole path is reported, from the node the search started at. *)
DfsFound_WholePath(t) ==
    /\ pc = "dfs"
    /\ t \in left[Top]
    /\ color[t] = 1
    /\ cycle' = stack
    /\ pc' = "rejected"
    /\ UNCHANGED <<specs, error, kahnVars, color, stack, left, graphVars>>

(* A node of the path is met again: the path from there on is the cycle. *)
DfsFound(t) ==
    /\ pc = "dfs"
    /\ t \in left[Top]
    /\ color[t] = 1
    /\ \E i \in DOMAIN stack : stack[i] = t /\ cycle' = SubSeq(stack, i, Len(stack))
    /\ pc' = "rejected"
    /\ UNCHANGED <<specs, error, kahnVars, color, stack, left, graphVars>>

(* A node without further downstream ids is finished; its caller goes on   *)
(* with the next one.                                                      *)
DfsLeave ==
    /\ pc = "dfs"
    /\ left[Top] = {}
    /\ color' = [color EXCEPT ![Top] = 2]
    /\ stack' = SubSeq(stack, 1, Len(stack) - 1)
    /\ left' = IF Len(stack) = 1 THEN left
                  ELSE [left EXCEPT ![stack[Len(stack) - 1]] = @ \ {Top}]
    /\ pc' = IF Len(stack) = 1 THEN "roots" ELSE "dfs"
    /\ UNCHANGED <<specs, error, kahnVars, cycle, graphVars>>

Dfs == \/ \E n \in Name : DfsRoot(n) \/ DfsDescend(n) \/ DfsPass(n) \/ DfsFound(n)
       \/ DfsLeave \/ DfsEnd

-----------------------------------------------------------------------------
(* build(): ensureNode also makes a node for every dependency. *)
Build ==
    /\ pc = "build"
    /\ nodes' = Ids \cup {From(e) : e \in Edges}
    /\ nodeIn' = [n \in Name |-> Cardinality(Into(n))]
    /\ pc' = "built"
    /\ UNCHANGED <<specs, error, kahnVars, dfsVars>>

Finished == pc \in {"built", "rejected"} /\ UNCHANGED builderVars

BuilderNext == CheckDeps \/ InitTables \/ (\E m \in Name : Pop(m)) \/ CountVisited
        \/ Dfs \/ Build \/ Finished

BuilderSpec == BuilderInit /\ [][BuilderNext]_builderVars
-----------------------------------------------------------------------------
(***************************************************************************)
(* Properties.                                                             *)
(***************************************************************************)
(* The type invariant of validate and build; the indegrees of Kahn's       *)
(* algorithm never become negative.                                        *)
BuilderTypeOK ==
    /\ specs \in Seq(TaskSpec)
    /\ pc \in {"deps", "tables", "kahn", "roots", "dfs", "build", "built", "rejected"}
    /\ error \in {"none", "missing", "cycle"}
    /\ degree \in [Name -> Nat]
    /\ queue \subseteq Name
    /\ popped \subseteq Name
    /\ count \in Nat
    /\ color \in [Name -> 0..2]
    /\ stack \in Seq(Name)
    /\ left \in [Name -> SUBSET Name]
    /\ cycle \in Seq(Name)
    /\ nodes \subseteq Name
    /\ nodeIn \in [Name -> Nat]

(* A list is built exactly when every dependency names a task and the      *)
(* dependencies have no cycle: Kahn's count, with repeated ids, repeated   *)
(* dependencies and self-dependencies, decides what the executor needs.    *)
AcceptsExactlyDags ==
    /\ pc \in {"build", "built"} => DepsKnown /\ CycleFree
    /\ pc \in {"roots", "dfs", "rejected"} => ~(DepsKnown /\ CycleFree)

(* The graph handed to the executor has the validated tasks as its nodes   *)
(* and nothing else: build() invents no node for a dependency.             *)
BuiltFromTasks == pc = "built" => nodes = Ids

(***************************************************************************)
(* The inductive invariant behind AcceptsExactlyDags.  Once the tables are *)
(* filled, the indegree of an id counts its edges from ids not yet popped, *)
(* the queue holds the ids without such an edge, and no id of a set        *)
(* without a source is ever popped.                                        *)
(***************************************************************************)
Open(n) == {e \in Into(n) : From(e) \notin popped}
Refused == pc \in {"roots", "dfs"} \/ (pc = "rejected" /\ error = "cycle")
Judged  == pc \in {"kahn", "build", "built"} \/ Refused
OpenCounted == \A n \in Name : degree[n] = Cardinality(Open(n))
QueueReady  == queue = {n \in Ids : Open(n) = {}} \ popped
PoppedReady == /\ popped \subseteq Ids
               /\ count = Cardinality(popped)
               /\ \A n \in popped : Open(n) = {}
StuckUnpopped == \A S \in SUBSET Ids : (S # {} /\ ~HasSource(S)) => S \cap popped = {}
Outcome ==
    /\ pc \in {"deps", "tables"} => popped = {} /\ count = 0
    /\ pc \in {"build", "built"} => popped = Ids
    /\ pc \in {"roots", "dfs"} => error = "cycle"
    /\ Refused => queue = {} /\ popped # Ids
    /\ pc = "rejected" => error = "cycle" \/ ~DepsKnown
    /\ pc = "dfs" => stack # <<>>

(* Kahn's algorithm between its steps: the indegree counts, the queue and  *)
(* the popped ids agree with the edges that are still open.                *)
KahnInv == (Judged => (OpenCounted /\ QueueReady /\ PoppedReady /\ StuckUnpopped)) /\ Outcome

(* The nodes reported with a cycle form one, in order. *)
CycleIsReal ==
    (pc = "rejected" /\ error = "cycle" /\ DepsKnown) =>
        /\ cycle # <<>>
        /\ \A i \in DOMAIN cycle :
              Between(cycle[i], cycle[IF i = Len(cycle) THEN 1 ELSE i + 1]) # {}

(***************************************************************************)
(* The inductive invariant behind CycleIsReal.  The stack is a path whose  *)
(* nodes are those of colour 1, each once, and every node on it is waiting *)
(* for the next one; from a finished node only finished ones are reached,  *)
(* so that the finished nodes have no cycle, and a search that ends        *)
(* without a report contradicts the count that started it.                 *)
(***************************************************************************)
Done == {n \in Name : color[n] = 2}
OnStack(n) == \E i \in DOMAIN stack : stack[i] = n
PathInv ==
    /\ pc \notin {"dfs", "rejected"} => stack = <<>>
    /\ \A n \in Name : color[n] = 1 <=> OnStack(n)
    /\ \A i, j \in DOMAIN stack : stack[i] = stack[j] => i = j
    /\ \A i \in DOMAIN stack : i < Len(stack) => stack[i + 1] \in left[stack[i]]
    /\ \A n \in Name : left[n] \subseteq Downstream(n)
DoneInv ==
    /\ \A n \in Done : Downstream(n) \subseteq Done
    /\ \A n \in Name : color[n] = 1 => Downstream(n) \subseteq Done \cup left[n]
    /\ \A S \in SUBSET Done : S # {} => HasSource(S)

(* The search between its steps. *)
SearchInv == PathInv /\ DoneInv /\ CycleIsReal
=============================================================================
