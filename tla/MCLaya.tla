------------------------------- MODULE MCLaya -------------------------------
(***************************************************************************)
(* The Laya adapter for TLC.  Threads are interchangeable, and so are the  *)
(* callers, in the runs that check no liveness.                            *)
(***************************************************************************)
EXTENDS LayaProperties, TLC

Interchangeable == Permutations(Threads) \cup Permutations(Callers) \cup Permutations(States)
=============================================================================
