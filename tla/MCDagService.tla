---------------------------- MODULE MCDagService ----------------------------
(***************************************************************************)
(* DagService on two servers: a master, to which clients talk, and one     *)
(* worker.  Run ids are numbers; 0 is the one clients choose.              *)
(***************************************************************************)
EXTENDS DagService

CONSTANTS a, b, master, worker, none,
          leaves, nested, loop, chain, single, one, wrap, deep, broken, cyclic, garbled, badConfig,
          unnamed, lowered, raised

MCRunId == 0..5
Leaf(t, d)        == [id |-> t, kind |-> "leaf", sub |-> none, rid |-> none, deps |-> d, parses |-> TRUE]
Sub(t, k, s, r)   == [id |-> t, kind |-> k, sub |-> s, rid |-> r, deps |-> {}, parses |-> TRUE]
Dag(ts)           == [form |-> "tasks", depth |-> 0, config |-> TRUE, valid |-> TRUE, failFast |-> FALSE, tasks |-> ts]

(* Two tasks in a row; a DAG node before a leaf; DAGs nested too deep, and *)
(* a template that refers to itself; a remote node with a DAG that nests   *)
(* another, beside a task without a name; nested DAGs that are missing or  *)
(* throw; bodies that are refused at each of the checks; a task without a  *)
(* name before another; and bodies that say themselves how deep they are.  *)
MCContent == [x \in Body |->
    CASE x = leaves    -> [Dag(<<Leaf(a, {}), Leaf(b, {a})>>) EXCEPT !.failFast = TRUE]
      [] x = nested    -> Dag(<<Sub(a, "dag", one, none), Leaf(b, {a})>>)
      [] x = broken    -> Dag(<<Sub(a, "dag", none, none), Sub(b, "dag", badConfig, none)>>)
      [] x = deep      -> Dag(<<Sub(a, "dag", nested, none)>>)
      [] x = wrap      -> Dag(<<Sub(a, "dag", one, none)>>)
      [] x = one       -> [Dag(<<Leaf(a, {})>>) EXCEPT !.form = "task"]
      [] x = cyclic    -> [Dag(<<Leaf(a, {a})>>) EXCEPT !.valid = FALSE]
      [] x = loop      -> Dag(<<Sub(a, "template", loop, none)>>)
      [] x = chain     -> Dag(<<Sub(a, "remote", wrap, none), Leaf(none, {})>>)
      [] x = single    -> [Dag(<<Leaf(a, {})>>) EXCEPT !.form = "id"]
      [] x = garbled   -> Dag(<<Leaf(a, {}), [Leaf(b, {}) EXCEPT !.parses = FALSE]>>)
      [] x = unnamed   -> Dag(<<Leaf(none, {}), Leaf(a, {none}), Leaf(b, {})>>)
      [] x = lowered   -> [Dag(<<Sub(a, "template", loop, none)>>) EXCEPT !.depth = -1]
      [] x = raised    -> [Dag(<<Sub(a, "dag", one, none)>>) EXCEPT !.depth = 2]
      [] x = badConfig -> [Dag(<<Leaf(a, {}), Leaf(none, {})>>) EXCEPT !.config = FALSE]]
Workers == [s \in Server |-> IF s = master THEN {worker} ELSE {}]
=============================================================================
