-------------------------- MODULE MCRemoteDispatch --------------------------
(***************************************************************************)
(* An instance of RemoteDispatch for TLC: a worker without queues, which   *)
(* serves the default queue, and one that serves two.                      *)
(***************************************************************************)
EXTENDS RemoteDispatch, TLC

TwoQueues  == (1 :> {}) @@ (2 :> {"default", "gpu"})
OneEach    == (1 :> 1) @@ (2 :> 1)
AllDefault == (1 :> "default") @@ (2 :> "default")
=============================================================================
