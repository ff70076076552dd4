-------------------------------- MODULE Feeds --------------------------------
(***************************************************************************)
(* feeds/: the manager of the live feeds.  A cycle asks the pollers one    *)
(* after the other, skips those that are held open, keeps a health record  *)
(* per feed and appends what was polled to the session, whose batches      *)
(* decide it later.  Cycles run in the requests of POST /api/feeds/refresh *)
(* and in the daemon thread, several at a time, without a lock (_lock is   *)
(* never taken).  Upstream services fail, answer garbage and recover.      *)
(***************************************************************************)
EXTENDS Integers, Sequences, FiniteSets

CONSTANTS
    Pollers,      \* the feeds in the order of create_app, by name
    Clients,      \* server threads that may handle a refresh
    Daemons,      \* feed-manager threads that may be started
    Flaky,        \* feeds whose upstream may fail
    Threshold,    \* CIRCUIT_BREAKER_THRESHOLD
    Answers,      \* the documents upstream services may answer
    MaxItems,     \* items polled in a behaviour (bound of the model)
    MaxFailures,  \* failures in a row of a feed (bound of the model)
    MaxHolds,     \* holds that end without a success (bound of the model)
    None

Names == {Pollers[i] : i \in DOMAIN Pollers}
Threads == Clients \cup Daemons

Row == [placed: BOOLEAN,   \* two coordinates at least
        near: BOOLEAN,     \* in the box, or within MAX_DISTANCE_KM
        strong: BOOLEAN]   \* MIN_MAGNITUDE or more
Documents == [answer: {"none", "garbled", "object"}, rows: Seq(Row), flood: BOOLEAN]

ASSUME FeedsAssumption ==
    /\ Pollers \in Seq({"weather", "seismic", "gdacs", "reliefweb"})
    /\ Len(Pollers) > 0 /\ Flaky \subseteq Names
    /\ Threshold \in Nat \ {0}
    /\ {MaxItems, MaxFailures, MaxHolds} \subseteq Nat
    /\ IsFiniteSet(Threads)
    /\ MaxFailures <= Threshold - 1 + Cardinality(Threads) * MaxHolds
    /\ Answers \subseteq Documents
    /\ Clients \cap Daemons = {} /\ None \notin Daemons

VARIABLES
    health,   \* FeedHealth of every feed: ok, consecutive_failures, total_events
    held,     \* time.monotonic() < _held_until
    ended,    \* holds that ended since the feed last succeeded (history)
    cycle,    \* where every thread is in poll_once, and what it has to append
    daemon,   \* _thread
    stopped,  \* _stop is set
    log,      \* what append_replay put into raw_events and events
    cursor,   \* engine._processed
    decided,  \* positions of the log that were decided
    down      \* feeds whose upstream fails (environment)

record == <<health, held, ended>>
session == <<log, cursor, decided>>
vars == <<record, cycle, daemon, stopped, session, down>>

Item == [feed: Names, kind: {"event", "advisory"}]
Health == [ok: BOOLEAN, failures: Nat, total: Nat]
Cycle == [at: {"idle", "gate", "upstream", "append", "sleep"},
          feed: DOMAIN Pollers, items: Seq(Item)]

Idle == [at |-> "idle", feed |-> 1, items |-> <<>>]

Init == /\ health = [f \in Names |-> [ok |-> FALSE, failures |-> 0, total |-> 0]]
        /\ held = [f \in Names |-> FALSE]
        /\ ended = [f \in Names |-> 0]
        /\ cycle = [t \in Threads |-> Idle]
        /\ daemon = None /\ stopped = FALSE
        /\ log = <<>> /\ cursor = 0 /\ decided = {}
        /\ down \in SUBSET Flaky

At(t, place) == cycle[t].at = place
Feed(t) == Pollers[cycle[t].feed]

-----------------------------------------------------------------------------
(* The pollers.  What makes poll() raise, FeedError or not, is one failure.  *)

Events(f, n) == [i \in 1..n |-> [feed |-> f, kind |-> "event"]]
Polled(items) == [ok |-> TRUE, items |-> items]
Raised == [ok |-> FALSE, items |-> <<>>]

\* Rain over FLOOD_RAIN_MM_H suggests one flood.
PollWeather(doc) ==
    IF doc.answer = "object" THEN Polled(Events("weather", IF doc.flood THEN 1 ELSE 0))
                             ELSE Raised

PollSeismic(doc) ==
    LET felt == {k \in DOMAIN doc.rows :
                    doc.rows[k].placed /\ doc.rows[k].near /\ doc.rows[k].strong} IN
    IF doc.answer = "object" THEN Polled(Events("seismic", Cardinality(felt)))
                             ELSE Raised

\* A document that is no object has no features: nothing happened.
PollGdacs(doc) ==
    LET rows  == IF doc.answer = "object" THEN doc.rows ELSE <<>>
        close == {k \in DOMAIN rows : rows[k].placed /\ rows[k].near} IN
    IF doc.answer = "none" THEN Raised
                           ELSE Polled(Events("gdacs", Cardinality(close)))

\* Advisories, which are no EventEnvelopes.
PollReliefWeb(doc) ==
    IF doc.answer = "object"
    THEN Polled([i \in DOMAIN doc.rows |-> [feed |-> "reliefweb", kind |-> "advisory"]])
    ELSE Raised

Poll(f, doc) == CASE f = "weather"   -> PollWeather(doc)
                  [] f = "seismic"   -> PollSeismic(doc)
                  [] f = "gdacs"     -> PollGdacs(doc)
                  [] f = "reliefweb" -> PollReliefWeb(doc)

-----------------------------------------------------------------------------
(* A cycle, poll_once.                                                     *)

\* The cycle a thread begins.
Begun == [at |-> "gate", feed |-> 1, items |-> <<>>]

\* A thread that is through: a request answers, the daemon sleeps.
Done(t) == IF t \in Daemons THEN [Idle EXCEPT !.at = "sleep"] ELSE Idle

\* On to the next feed.
Moved(t) == IF cycle[t].feed < Len(Pollers)
            THEN [at |-> "gate", feed |-> cycle[t].feed + 1, items |-> <<>>]
            ELSE Done(t)

\* POST /api/feeds/refresh.
Refresh(c) ==
    /\ At(c, "idle")
    /\ cycle' = [cycle EXCEPT ![c] = Begun]
    /\ UNCHANGED <<record, daemon, stopped, session, down>>

\* held_open: a feed on hold is passed over.
Gate(t) ==
    /\ At(t, "gate")
    /\ cycle' = [cycle EXCEPT ![t] = IF held[Feed(t)] THEN Moved(t)
                                     ELSE [@ EXCEPT !.at = "upstream"]]
    /\ UNCHANGED <<record, daemon, stopped, session, down>>

\* The counts of the model stop at their bounds.
Capped(n, bound) == IF n <= bound THEN n ELSE bound

\* Broken: the feed is held by the failure that reaches the threshold only.
RecordFailureOnce(f) ==
    LET n == health[f].failures + 1 IN
    /\ health' = [health EXCEPT ![f] = [ok |-> FALSE, failures |-> Capped(n, MaxFailures),
                                         total |-> @.total]]
    /\ held' = [held EXCEPT ![f] = @ \/ n = Threshold]
    /\ UNCHANGED ended

\* record_failure.
RecordFailure(f) ==
    LET n == health[f].failures + 1 IN
    /\ health' = [health EXCEPT ![f] = [ok |-> FALSE, failures |-> Capped(n, MaxFailures),
                                         total |-> @.total]]
    /\ held' = [held EXCEPT ![f] = @ \/ n >= Threshold]
    /\ UNCHANGED ended

\* record_success, which closes the breaker too.
RecordSuccess(f, n) ==
    /\ health' = [health EXCEPT ![f] = [ok |-> TRUE, failures |-> 0, total |-> @.total + n]]
    /\ held' = [held EXCEPT ![f] = FALSE]
    /\ ended' = [ended EXCEPT ![f] = 0]

\* Items polled so far.
Polls == Cardinality({p \in Names \X (1..MaxItems) : p[2] <= health[p[1]].total})

\* The upstream service did not answer, or not with a document.
PollFails(t) ==
    /\ At(t, "upstream") /\ Feed(t) \in down
    /\ \E doc \in Answers : /\ doc.answer # "object"
                            /\ ~Poll(Feed(t), doc).ok
    /\ RecordFailure(Feed(t))
    /\ cycle' = [cycle EXCEPT ![t] = Moved(t)]
    /\ UNCHANGED <<daemon, stopped, session, down>>

\* What was polled is counted at once and appended afterwards.
PollSucceeds(t) ==
    \E doc \in Answers :
        LET polled == Poll(Feed(t), doc)  n == Len(polled.items) IN
        /\ At(t, "upstream") /\ polled.ok
        /\ Feed(t) \in down <=> doc.answer # "object"
        /\ Polls + n <= MaxItems
        /\ RecordSuccess(Feed(t), n)
        /\ cycle' = [cycle EXCEPT ![t] = IF n = 0 THEN Moved(t)
                                         ELSE [at |-> "append", feed |-> @.feed, items |-> polled.items]]
        /\ UNCHANGED <<daemon, stopped, session, down>>

\* Broken: only the first event of a poll is appended.
AppendFirst(t) ==
    /\ At(t, "append")
    /\ log' = Append(log, Head(cycle[t].items))
    /\ cycle' = [cycle EXCEPT ![t] = Moved(t)]
    /\ UNCHANGED <<record, daemon, stopped, cursor, decided, down>>

\* append_replay. An advisory gets as far as the two lists; registering it
\* raises, and so does the handler, which reads its event_id: the cycle ends
\* there, with a 500 or with the daemon's thread.
AppendItem(t) ==
    LET item == Head(cycle[t].items)  rest == Tail(cycle[t].items) IN
    /\ At(t, "append")
    /\ log' = Append(log, item)
    /\ cycle' = [cycle EXCEPT ![t] = IF item.kind = "advisory" THEN Idle
                                     ELSE IF rest = <<>> THEN Moved(t)
                                     ELSE [@ EXCEPT !.items = rest]]
    /\ UNCHANGED <<record, daemon, stopped, cursor, decided, down>>

-----------------------------------------------------------------------------
(* The daemon, the batches, time and the upstream services.                *)

\* start(). A thread that raised or stopped is idle, i.e. not alive.
Start(d) ==
    /\ daemon # None => At(daemon, "idle")
    /\ At(d, "idle")
    /\ stopped' = FALSE /\ daemon' = d
    /\ cycle' = [cycle EXCEPT ![d] = Begun]
    /\ UNCHANGED <<record, session, down>>

\* stop() waits five seconds for the thread and forgets it.
Stop ==
    /\ daemon # None
    /\ stopped' = TRUE /\ daemon' = None
    /\ UNCHANGED <<record, cycle, session, down>>

\* _run: the pause between two cycles is over.
Wake(d) ==
    /\ At(d, "sleep")
    /\ cycle' = [cycle EXCEPT ![d] = IF stopped THEN Idle ELSE Begun]
    /\ UNCHANGED <<record, daemon, stopped, session, down>>

\* process_pending: the cursor moves first; deciding an event collects the
\* reports of its incident from all events, which raises at an advisory.
Batch ==
    LET new == {i \in (cursor + 1)..Len(log) : log[i].kind = "event"} IN
    /\ cursor < Len(log)
    /\ cursor' = Len(log)
    /\ decided' = IF \E i \in DOMAIN log : log[i].kind = "advisory"
                  THEN decided ELSE decided \cup new
    /\ UNCHANGED <<record, cycle, daemon, stopped, log, down>>

\* Broken: a hold lasts as long as the count of failures.
HoldStays(f) ==
    /\ held[f] /\ ended[f] < MaxHolds
    /\ ended' = [ended EXCEPT ![f] = @ + 1]
    /\ UNCHANGED <<health, held, cycle, daemon, stopped, session, down>>

\* PROBE_INTERVAL_S after the last failure.
HoldEnds(f) ==
    /\ held[f]
    /\ held' = [held EXCEPT ![f] = FALSE]
    /\ ended' = [ended EXCEPT ![f] = Capped(@ + 1, MaxHolds)]
    /\ UNCHANGED <<health, cycle, daemon, stopped, session, down>>

UpstreamChanges(f) ==
    /\ down' = IF f \in down THEN down \ {f} ELSE down \cup {f}
    /\ UNCHANGED <<record, cycle, daemon, stopped, session>>

Work(t) == Gate(t) \/ PollFails(t) \/ PollSucceeds(t) \/ AppendItem(t)

Next == \/ \E c \in Clients : Refresh(c)
        \/ \E t \in Threads : Work(t)
        \/ \E d \in Daemons : Start(d) \/ Wake(d)
        \/ Stop \/ Batch
        \/ \E f \in Names : HoldEnds(f)
        \/ \E f \in Flaky : UpstreamChanges(f)

Spec == Init /\ [][Next]_vars

\* The threads run, time passes; nobody is made to ask for a refresh.
Fair == /\ \A t \in Threads : WF_vars(Work(t))
        /\ \A d \in Daemons : WF_vars(Wake(d))
        /\ \A f \in Names : WF_vars(HoldEnds(f))

FairSpec == Spec /\ Fair

-----------------------------------------------------------------------------
(* Properties.                                                             *)

\* The state is well typed.
FeedsTypeOK ==
    /\ health \in [Names -> Health] /\ held \in [Names -> BOOLEAN]
    /\ ended \in [Names -> Nat] /\ cycle \in [Threads -> Cycle]
    /\ daemon \in Daemons \cup {None} /\ stopped \in BOOLEAN
    /\ log \in Seq(Item) /\ cursor \in Nat /\ decided \subseteq Nat
    /\ down \subseteq Flaky

\* Threads that wait for the upstream service of a feed.
Asking(f) == {t \in Threads : At(t, "upstream") /\ Feed(t) = f}

\* A dead upstream costs few calls however many requests and daemons poll at
\* a time: beyond those that pass before the threshold is noticed, each hold
\* that ends lets every thread in once (held_open, record_failure).
DeadFeedCostsLittle ==
    \A f \in Names :
        health[f].failures + Cardinality(Asking(f))
            <= Threshold - 1 + Cardinality(Threads) * (1 + ended[f])

\* What a feed of events counted is in the session's list or about to be
\* appended, once, under overlapping cycles (record_success counts first).
PolledIsKept ==
    \A f \in Names \ {"reliefweb"} :
        health[f].total =
            Cardinality({i \in DOMAIN log : log[i].feed = f})
            + Cardinality({p \in Threads \X (1..MaxItems) :
                              /\ p[2] <= Len(cycle[p[1]].items)
                              /\ cycle[p[1]].items[p[2]].feed = f})

\* A feed whose upstream recovers for good is shown as well again and stays
\* so while cycles are made, however long it was held and whatever the other
\* feeds do (the hold ends; one dead feed does not stop a cycle).
RecoveredFeedIsUsed ==
    \A f \in Names :
        (<>[](f \notin down) /\ []<>(\E t \in Threads : cycle[t] = Begun))
            => <>[]health[f].ok

\* Documented (feeds/base.py:4-6): the engine decides the events of feeds as
\* it does simulated ones; a batch that passed an event decided it.
FedEventsAreDecided ==
    \A i \in 1..cursor : log[i].kind = "event" => i \in decided

\* Documented (feeds/base.py:147, USER_GUIDE.md:45): an item that cannot be
\* appended is a failure of its feed, which is then not shown as well.
RejectedItemIsAFailure ==
    [][\A t \in Threads : AppendItem(t) /\ Head(cycle[t].items).kind = "advisory"
                              => ~health'[Feed(t)].ok]_vars

\* Documented (ARCHITECTURE.md:41): one daemon thread cycles the feeds.
OneDaemon == Cardinality({d \in Daemons : ~At(d, "idle")}) <= 1
=============================================================================
