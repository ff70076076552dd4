---------------------------- MODULE MCFeedManager ----------------------------
(***************************************************************************)
(* The feeds for TLC: documents with at most two rows, on both sides of    *)
(* every test a poller makes.                                              *)
(***************************************************************************)
EXTENDS Feeds

None_ == [answer |-> "none", rows |-> <<>>, flood |-> FALSE]
Garbled == [None_ EXCEPT !.answer = "garbled"]
Quiet == [None_ EXCEPT !.answer = "object"]
Hit == [placed |-> TRUE, near |-> TRUE, strong |-> TRUE]
Misses == {[Hit EXCEPT !.placed = FALSE], [Hit EXCEPT !.near = FALSE], [Hit EXCEPT !.strong = FALSE]}

MCAnswers == {None_, Garbled, Quiet, [Quiet EXCEPT !.rows = <<Hit, Hit>>, !.flood = TRUE]}
                \cup {[Quiet EXCEPT !.rows = <<row>>] : row \in Misses}
MCAll == <<"weather", "seismic", "gdacs", "reliefweb">>
MCTwo == <<"seismic", "reliefweb">>
=============================================================================
