---------------------------- MODULE MCTaskRunner ----------------------------
(***************************************************************************)
(* Instances of TaskRunner for TLC: a negative count, none, one and two    *)
(* retries.                                                                *)
(***************************************************************************)
EXTENDS TaskRunner

Counts == {-1, 0, 1, 2}
=============================================================================
