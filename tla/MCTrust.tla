------------------------------- MODULE MCTrust -------------------------------
(***************************************************************************)
(* The trust registry for TLC.                                             *)
(***************************************************************************)
EXTENDS Trust

MCFakes == <<"sybil-walker-000", "sybil-walker-001", "sybil-walker-002", "sybil-walker-003">>
=============================================================================
