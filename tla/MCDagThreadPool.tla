--------------------------- MODULE MCDagThreadPool ---------------------------
(***************************************************************************)
(* Instances of DagThreadPool for TLC: one initial worker (four at most)   *)
(* and jobs of different priorities.                                       *)
(***************************************************************************)
EXTENDS DagThreadPool, TLC

CONSTANTS j1, j2, j3    \* model values

ThreePriorities == (j1 :> 0) @@ (j2 :> 2) @@ (j3 :> 2)
=============================================================================
