-------------------------- MODULE MCCommandCenter --------------------------
(***************************************************************************)
(* Two server threads of the Command Center for TLC, requests of one host; *)
(* MCTwoApps gives the second thread to the decision service.              *)
(***************************************************************************)
EXTENDS CommandCenter, TLC

CONSTANTS c1, c2, h1
MCClients == {c1, c2}
MCHostOf  == [c \in MCClients |-> h1]
MCOneApp  == [c \in MCClients |-> "center"]
MCSymmetry == Permutations(Images) \cup Permutations(MCClients)
MCTwoApps == [c \in MCClients |-> IF c = c1 THEN "center" ELSE "adip"]
=============================================================================
