---------------------------- MODULE MCDecisions ----------------------------
(***************************************************************************)
(* The decision service for TLC: a plain request, an urgent one without    *)
(* level masses, one whose routing depends on the calibration, and one the *)
(* model has no distribution for.                                          *)
(***************************************************************************)
EXTENDS Decisions

CONSTANTS t1, t2

MCThreads == {t1, t2}

Ans(dist, score, refund) ==
    [choice |-> 0, dist |-> dist, mass |-> <<>>, score |-> score, refund |-> refund]

MCAnswerOf ==
    [t \in {"plain", "unsure", "unreadable"} |->
        CASE t = "plain"      -> [Ans(<<70, 20, 10>>, 0, 10) EXCEPT
                                    !.mass = <<[level |-> 0, p |-> 60], [level |-> 1, p |-> 40]>>]
          [] t = "unsure"     -> [Ans(<<45, 35, 20>>, 150, 60) EXCEPT !.choice = 1]
          [] t = "unreadable" -> Ans(<<>>, 0, 50)]
=============================================================================
