---------------------------- MODULE MCDagExecutor ----------------------------
(***************************************************************************)
(* Instances of DagExecutor for TLC: every acyclic graph on three nodes up *)
(* to renaming, repeated dependencies included.                            *)
(***************************************************************************)
EXTENDS DagExecutorInv, TLC

CONSTANTS a, b, c    \* model values

(* Edges go from a to b and c and from b to c.  A list may name a node     *)
(* twice; both orders of two children are there.                           *)
SmallGraphs ==
    {(a :> x) @@ (b :> y) @@ (c :> <<>>) :
        x \in {<<>>, <<b>>, <<c>>, <<b, c>>, <<c, b>>, <<c, c>>},
        y \in {<<>>, <<c>>}}

ConfigsOver(graphs, unnamed, limits, threads) ==
    [down : graphs, nameless : unnamed, policy : FailPolicy, maxParallel : limits,
     inline : threads]

(* A root, an inner node or a leaf may have the empty id. *)
SmallConfigs   == ConfigsOver(SmallGraphs, {{}, {a}, {b}}, {0, 2}, BOOLEAN)
PoolConfigs    == ConfigsOver(SmallGraphs, {{}}, {0, 2}, {FALSE})
TwoOutcomes    == {"Success", "Failed"}
ThreeOutcomes  == {"Success", "Failed", "Timeout"}
=============================================================================
