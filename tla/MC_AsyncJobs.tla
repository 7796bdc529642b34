---------------------------- MODULE MC_AsyncJobs ----------------------------
(* Bounded instances of AsyncJobs for TLC: a job over two media alone, or  *)
(* a job and a synchronous batch on the same medium.                       *)
EXTENDS AsyncJobs, TLC

CONSTANTS j1, k1

MCKeyAction == k1 :> "update"
MCScenes == {j1 :> {1, 2} @@ k1 :> {}, j1 :> {1} @@ k1 :> {1}}
=============================================================================
