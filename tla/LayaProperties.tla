--------------------------- MODULE LayaProperties ---------------------------
(***************************************************************************)
(* What the LIVE path of the Laya adapter promises.                        *)
(***************************************************************************)
EXTENDS LayaAdapter

\* The state is well typed, and a caller waits for a thread that runs.
LayaTypeOK ==
    /\ current \in Adapters /\ mode \in {"live", "mock"}
    /\ failures \in [Adapters -> Nat] /\ blocked \in [Adapters -> Nat]
    /\ call \in [Callers -> Call] /\ thread \in [Threads -> Thread]
    /\ agent \in BOOLEAN /\ service \in {"up", "failing", "slow"}

\* A reading answers the state of the very call that returns it: neither an
\* earlier attempt's thread nor another caller's, done late, gets into it
\* (_live_call: box and done are the attempt's own).
AnswersItsOwnState ==
    \A c \in Callers : call[c].result = "ok" => call[c].about = call[c].state

\* Calls that passed the breaker of an adapter and are not recorded.
InFlight(a) == {c \in Callers : /\ call[c].at \in {"attempt", "waiting", "record"}
                                /\ call[c].with = a}

\* A model that is down costs few calls: beyond the Threshold, and beyond the
\* calls that were already let through when the breaker opened, every failure
\* is paid for by ProbeEvery - 1 calls answered at once (_breaker_allows,
\* _breaker_record).
FailuresArePaid ==
    \A a \in Adapters :
        failures[a] + Cardinality(InFlight(a))
            <= Threshold + Cardinality(Callers) - 1 + blocked[a] \div ProbeEvery

\* Every call of ask() is answered, whatever the model does: hang, fail, or
\* come back when nobody waits (LAYA_FAILURE_MODES.md: no failure path
\* crashes the pipeline).
EveryCallIsAnswered == \A c \in Callers : ~At(c, "idle") ~> At(c, "idle")

\* When the model is up for good and calls keep coming to one adapter, its
\* breaker closes and stays closed, however long it was open (the half-open
\* probe).
RecoveredModelIsUsed ==
    (<>[](service = "up") /\ []<>(\E c \in Callers : At(c, "asked") /\ call[c].with = current))
        => <>[]~Open(current)

\* Documented (adapter.py:47, "Load (once)"): the checkpoint is loaded by one
\* thread, and by none when it is loaded.
LoadsOnce ==
    LET loading == {t \in Threads : thread[t].at = "loading"} IN
    /\ Cardinality(loading) <= 1
    /\ agent => loading = {}

\* Documented (LAYA_FAILURE_MODES.md:19, "retry then breaker" for a predict
\* that raises): an error is answered after all attempts.
ErrorsAreRetried ==
    \A c \in Callers : At(c, "idle") /\ call[c].result = "error"
                          => call[c].tries = MaxAttempts
=============================================================================
