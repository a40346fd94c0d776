---------------------------- MODULE MCDagBuilder ----------------------------
(***************************************************************************)
(* Instances of DagBuilder for TLC: all lists of three distinct tasks with *)
(* at most two dependencies each (repeated, unknown and empty names        *)
(* included), and lists in which an id occurs twice.                       *)
(***************************************************************************)
EXTENDS DagBuilder, TLC

CONSTANTS a, b, c    \* model values

DepLists(S) == {<<>>} \cup {<<x>> : x \in S} \cup {<<x, y>> : x \in S, y \in S}

ListsWith(ids, depNames) ==
    {[i \in 1..Len(ids) |-> [id |-> ids[i], deps |-> f[i]]] :
        f \in [1..Len(ids) -> DepLists(depNames)]}

AllLists == ListsWith(<<a, b, c>>, {a, b, c}) \cup ListsWith(<<a, b, a>>, {a, b, c, Empty})
                \cup ListsWith(<<a, Empty>>, {a, b, Empty})
=============================================================================
