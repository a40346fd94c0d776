--------------------------- MODULE MCCronScheduler ---------------------------
(***************************************************************************)
(* Instances of CronScheduler for TLC: a job for every minute, and one     *)
(* that matches once and then not for longer than the window.              *)
(***************************************************************************)
EXTENDS CronScheduler, TLC

CONSTANTS often, rare    \* model values

Matches == (often :> (0..8)) @@ (rare :> {2, 9})
=============================================================================
