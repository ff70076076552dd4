-------------------------------- MODULE Trust --------------------------------
(***************************************************************************)
(* ingestion/trust.py: the trust registry, and what moves it.  Every       *)
(* decision observes all reports of its incident: batches, reoptimisations *)
(* and What-If runs, the last in a sandbox that copies the registry and    *)
(* puts the copy back.  A reset renews the registry, a start does not.     *)
(* Observing is a loop over the reports, and other threads run between its *)
(* turns; whoever replaces the registry leaves them with the old one.      *)
(*                                                                         *)
(* Scores are percentages.  Reports come in the order of simulated time,   *)
(* one second apart, or later when a recording or a feed brings its own.   *)
(***************************************************************************)
EXTENDS Integers, Sequences, FiniteSets, Functions

CONSTANTS
    Clients,     \* server threads
    Requests,    \* what the clients ask for
    Fakes,       \* sybil-walker-000 and so on, in order
    Floods,      \* numbers of fabricated reports asked for
    Severities,  \* of incidents, 1 to 3
    Gap,         \* seconds to an event that brings its own time
    MaxEvents,   \* reports of a session (bound of the model)
    MaxClock,    \* simulated time (bound of the model)
    MaxAgain     \* incidents decided again in a behaviour (bound of the model)

FLAG_THRESHOLD == 60
CONTRADICTION_PENALTY == 25
SYBIL_DISAGREE_PENALTY == 45
RATE_PENALTY == 40
RECOVERY_GAIN == 5
AVAILABILITY_DECAY == 8
AVAILABILITY_RECOVERY == 5
RATE_WINDOW_SECONDS == 120
RATE_LIMIT == 3
SYBIL_CLUSTER_MIN == 4

\* The default source of an incident, and that of contradicting reports.
Sensor == "sensor-auto-01"
Alt == "sensor-alt-02"
Sources == {Sensor, Alt} \cup Range(Fakes)

ASSUME TrustAssumption ==
    /\ Fakes \in Seq(STRING) /\ Severities \subseteq 1..3
    /\ Floods \subseteq 0..Len(Fakes)
    /\ {Gap, MaxEvents, MaxClock, MaxAgain} \subseteq Nat

VARIABLES
    events,   \* the reports of the session
    clock,    \* simulated seconds
    cursor,   \* engine._processed
    trust,    \* engine.trust
    task,     \* what every client has still to do
    loop,     \* its call of observe()
    saved,    \* the sandbox's snapshot: trust, events, clock
    again     \* incidents decided again (bound of the model)

trustVars == <<events, clock, cursor, trust, task, loop, saved, again>>

Event == [id: Nat, inc: Nat, src: Sources, time: Nat, sev: 1..3]
Registry == [veracity: [Sources -> 0..100], availability: [Sources -> 0..100],
             known: SUBSET Sources,      \* sources that have scores
             seen: SUBSET Sources,       \* _ever_seen
             observed: SUBSET Nat,       \* _observed_events
             recent: [Sources -> SUBSET [id: Nat, time: Nat]]]
Task == [kind: {"idle", "flood", "batch", "deciding", "reoptimise", "whatIf"},
         left: Seq(Sources), inc: Nat, sev: 1..3,  \* of a flood: who, where and what
         due: SUBSET Event]                        \* of a batch: what it still has to decide
Loop == [on: BOOLEAN,
         live: BOOLEAN,                            \* its registry is still the engine's
         reports: SUBSET Event, todo: SUBSET Event, new: SUBSET Sources]

NewRegistry == [veracity     |-> [s \in Sources |-> 100],
                availability |-> [s \in Sources |-> 100],
                known |-> {}, seen |-> {}, observed |-> {},
                recent |-> [s \in Sources |-> {}]]
AtRest == [kind |-> "idle", left |-> <<>>, inc |-> 0, sev |-> 1, due |-> {}]
NoLoop == [on |-> FALSE, live |-> TRUE, reports |-> {}, todo |-> {}, new |-> {}]
Snapshot == [trust: Registry, length: Nat, clock: Nat]
NoSnapshot == [trust |-> NewRegistry, length |-> 0, clock |-> 0]

TrustInit == /\ events = <<>> /\ clock = 0 /\ cursor = 0
             /\ trust = NewRegistry
             /\ task = [c \in Clients |-> AtRest]
             /\ loop = [c \in Clients |-> NoLoop]
             /\ saved = [c \in Clients |-> NoSnapshot]
             /\ again = 0

-----------------------------------------------------------------------------
(* TrustRegistry.                                                          *)

Least(n, m) == IF n < m THEN n ELSE m
Most(n, m) == IF n > m THEN n ELSE m

\* Reports are numbered in the order in which they came.
First(reports) == CHOOSE r \in reports : \A q \in reports : r.id <= q.id

\* The earliest of them, the first to come if there are two: its severity is
\* the measure.
Primary(reports) ==
    CHOOSE r \in reports :
        \A q \in reports : r.time < q.time \/ (r.time = q.time /\ r.id <= q.id)

Disagrees(r, reports) == LET p == Primary(reports) IN r.sev # p.sev /\ r.id # p.id

\* Broken: four strangers are no cluster.
ClusterOver(new) == Cardinality(new) > SYBIL_CLUSTER_MIN

Cluster(new) == Cardinality(new) >= SYBIL_CLUSTER_MIN

\* Broken: the third report of a window is one too many.
TooManyEarly(window) == Cardinality(window) >= RATE_LIMIT

TooMany(window) == Cardinality(window) > RATE_LIMIT

\* What one report does to the veracity of its source.
Moved(score, window, disagrees, clustered) ==
    IF TooMany(window) THEN Most(0, score - RATE_PENALTY)
    ELSE IF disagrees /\ clustered THEN Most(0, score - SYBIL_DISAGREE_PENALTY)
    ELSE IF disagrees THEN Most(0, score - CONTRADICTION_PENALTY)
    ELSE Least(100, score + RECOVERY_GAIN)

\* What of the times of a source is left when r has come.
Window(reg, r) == {t \in reg.recent[r.src] \cup {[id |-> r.id, time |-> r.time]} :
                       r.time - t.time <= RATE_WINDOW_SECONDS}

\* One turn of the loop of observe: a report counts once.
Weighed(reg, r, reports, new) ==
    LET window == Window(reg, r)
        score == Moved(reg.veracity[r.src], window, Disagrees(r, reports),
                       Cluster(new) /\ r.src \in new)
    IN IF r.id \in reg.observed THEN reg
       ELSE [reg EXCEPT !.observed = @ \cup {r.id}, !.known = @ \cup {r.src},
                        !.recent[r.src] = window, !.veracity[r.src] = score]

\* The end of observe: who is heard gains, all others lose, every time.
Available(reg, present) ==
    [s \in Sources |->
        IF s \notin reg.known THEN reg.availability[s]
        ELSE IF s \in present THEN Least(100, reg.availability[s] + AVAILABILITY_RECOVERY)
        ELSE Most(0, reg.availability[s] - AVAILABILITY_DECAY)]

Settled(reg, present) == [reg EXCEPT !.availability = Available(reg, present),
                                     !.seen = @ \cup present]

Present(reports) == {r.src : r \in reports}

\* flagged().
Flagged(reg) == {s \in reg.known : reg.veracity[s] < FLAG_THRESHOLD}

-----------------------------------------------------------------------------
(* The session.                                                            *)

ReportsFor(i) == {r \in Range(events) : r.inc = i}
Incidents == {r.inc : r \in Range(events)}
\* _next_unique_incident_id: a number that is not taken.
NextIncident == CHOOSE i \in 1..(Len(events) + 1) : i \notin Incidents

Is(c, kind) == task[c].kind = kind
Asks(c, request) == Is(c, "idle") /\ request \in Requests
Goes(c, kind) == task' = [task EXCEPT ![c] = [AtRest EXCEPT !.kind = kind]]

Room(n) == Len(events) + n <= MaxEvents /\ clock + n <= MaxClock

\* next_event_id: a session numbers its reports from one.
Report(n, i, src, time, sev) ==
    [id |-> Len(events) + n, inc |-> i, src |-> src, time |-> time, sev |-> sev]

\* The next severity, if there is one.
Bumped(sev) == Least(3, sev + 1)

\* inject_incident, alone or with a contradicting second report.
Inject(c) ==
    \E sev \in Severities, multi \in BOOLEAN :
        LET first  == Report(1, NextIncident, Sensor, clock + 1, sev)
            second == Report(2, NextIncident, Alt, clock + 2, Bumped(sev))
            n == IF multi THEN 2 ELSE 1 IN
        /\ Asks(c, "inject") /\ Room(n)
        /\ events' = IF multi THEN Append(Append(events, first), second)
                              ELSE Append(events, first)
        /\ clock' = clock + n
        /\ Goes(c, "batch")
        /\ UNCHANGED <<cursor, trust, loop, saved, again>>

\* append_replay of a report that was recorded or fed some time later.
Replay(c) ==
    \E sev \in Severities, src \in {Sensor, Alt} :
        /\ Asks(c, "replay") /\ Room(1) /\ clock + Gap <= MaxClock
        /\ events' = Append(events, Report(1, NextIncident, src, clock + Gap, sev))
        /\ clock' = clock + Gap
        /\ Goes(c, "batch")
        /\ UNCHANGED <<cursor, trust, loop, saved, again>>

\* inject_sybil: an honest report, then the fabricated ones of the same
\* incident, appended one by one.  Their severity is MINOR, or SEVERE where that
\* is the truth.
Flood(c) ==
    \E sev \in Severities, n \in Floods :
        /\ Asks(c, "sybil") /\ Room(n + 1)
        /\ events' = Append(events, Report(1, NextIncident, Sensor, clock + 1, sev))
        /\ clock' = clock + 1
        /\ task' = [task EXCEPT ![c] = [AtRest EXCEPT
                       !.kind = "flood", !.left = SubSeq(Fakes, 1, n),
                       !.inc = NextIncident, !.sev = IF sev = 1 THEN 3 ELSE 1]]
        /\ UNCHANGED <<cursor, trust, loop, saved, again>>

Fabricate(c) ==
    LET t == task[c] IN
    /\ Is(c, "flood")
    /\ IF t.left = <<>>
       THEN Goes(c, "batch") /\ UNCHANGED <<events, clock>>
       ELSE /\ Room(1)
            /\ events' = Append(events, Report(1, t.inc, Head(t.left), clock + 1, t.sev))
            /\ clock' = clock + 1
            /\ task' = [task EXCEPT ![c].left = Tail(@)]
    /\ UNCHANGED <<cursor, trust, loop, saved, again>>

\* process_pending takes up what is new ...
Batch(c) ==
    /\ Is(c, "batch")
    /\ cursor' = Len(events)
    /\ task' = [task EXCEPT ![c] = [AtRest EXCEPT
                   !.kind = "deciding", !.due = Range(SubSeq(events, cursor + 1, Len(events)))]]
    /\ UNCHANGED <<events, clock, trust, loop, saved, again>>

\* observe() is called with some reports.
Observe(c, reports) ==
    loop' = [loop EXCEPT ![c] = [on |-> TRUE, live |-> TRUE, reports |-> reports,
                                 todo |-> reports, new |-> Present(reports) \ trust.seen]]

\* ... and decides each incident once, in the order of its first new report.  If
\* a new session has taken its reports away, that fails.
Decide(c) ==
    LET i == First(task[c].due).inc IN
    /\ Is(c, "deciding") /\ ~loop[c].on /\ task[c].due # {}
    /\ IF ReportsFor(i) = {}
       THEN Goes(c, "idle") /\ UNCHANGED loop
       ELSE /\ Observe(c, ReportsFor(i))
            /\ task' = [task EXCEPT ![c].due = {r \in @ : r.inc # i}]
    /\ UNCHANGED <<events, clock, cursor, trust, saved, again>>

\* An incident decided again: by switch_policy, or by a dry run.
Reoptimise(c) ==
    /\ Asks(c, "reoptimise") /\ again < MaxAgain
    /\ again' = again + 1
    /\ \E i \in Incidents : Observe(c, ReportsFor(i))
    /\ Goes(c, "reoptimise")
    /\ UNCHANGED <<events, clock, cursor, trust, saved>>

Answer(c) ==
    /\ ~loop[c].on
    /\ (Is(c, "deciding") /\ task[c].due = {}) \/ Is(c, "reoptimise")
    /\ Goes(c, "idle")
    /\ UNCHANGED <<events, clock, cursor, trust, loop, saved, again>>

\* A turn of observe's loop, and its end.
Weigh(c) ==
    LET o == loop[c]
        r == First(o.todo) IN
    /\ o.on /\ o.todo # {}
    /\ trust' = IF o.live THEN Weighed(trust, r, o.reports, o.new) ELSE trust
    /\ loop' = [loop EXCEPT ![c].todo = @ \ {r}]
    /\ UNCHANGED <<events, clock, cursor, task, saved, again>>

Settle(c) ==
    LET o == loop[c] IN
    /\ o.on /\ o.todo = {}
    /\ trust' = IF o.live THEN Settled(trust, Present(o.reports)) ELSE trust
    /\ loop' = [loop EXCEPT ![c] = NoLoop]
    /\ UNCHANGED <<events, clock, cursor, task, saved, again>>

\* The registry is replaced: who observes goes on with the old one.
Orphaned == [c \in Clients |-> [loop[c] EXCEPT !.live = @ /\ ~loop[c].on]]

\* sandbox_scope around a second emergency, which it observes.
EnterWhatIf(c) ==
    LET report == Report(1, NextIncident, Sensor, clock + 1, 3) IN
    /\ Asks(c, "whatIf") /\ Room(1)
    /\ saved' = [saved EXCEPT ![c] = [trust |-> trust, length |-> Len(events), clock |-> clock]]
    /\ events' = Append(events, report)
    /\ clock' = clock + 1
    /\ Observe(c, {report})
    /\ Goes(c, "whatIf")
    /\ UNCHANGED <<cursor, trust, again>>

ExitWhatIf(c) ==
    /\ Is(c, "whatIf") /\ ~loop[c].on
    /\ trust' = saved[c].trust
    /\ loop' = Orphaned
    /\ events' = SubSeq(events, 1, Least(Len(events), saved[c].length))
    /\ clock' = saved[c].clock
    /\ saved' = [saved EXCEPT ![c] = NoSnapshot]
    /\ Goes(c, "idle")
    /\ UNCHANGED <<cursor, again>>

\* POST /api/simulation/reset, and /start, which leaves the registry alone.
NewSession(c) ==
    \E kind \in {"start", "reset"} :
        /\ Asks(c, kind)
        /\ events' = <<>> /\ clock' = 0 /\ cursor' = 0
        /\ IF kind = "reset" THEN trust' = NewRegistry /\ loop' = Orphaned
                             ELSE UNCHANGED <<trust, loop>>
        /\ UNCHANGED <<task, saved, again>>

TrustNext == \E c \in Clients :
                 \/ Inject(c) \/ Replay(c) \/ Flood(c) \/ Fabricate(c)
                 \/ Batch(c) \/ Decide(c) \/ Reoptimise(c) \/ Answer(c)
                 \/ Weigh(c) \/ Settle(c)
                 \/ EnterWhatIf(c) \/ ExitWhatIf(c) \/ NewSession(c)

TrustSpec == TrustInit /\ [][TrustNext]_trustVars

-----------------------------------------------------------------------------
(* Properties.                                                             *)

\* The state is well typed, and every score is one.
TrustTypeOK ==
    /\ events \in Seq(Event) /\ clock \in Nat /\ cursor \in Nat
    /\ trust \in Registry /\ task \in [Clients -> Task] /\ loop \in [Clients -> Loop]
    /\ saved \in [Clients -> Snapshot] /\ again \in 0..MaxAgain

Heard(i) == {r.id : r \in ReportsFor(i)} \subseteq trust.observed

\* Identities that have only ever been heard to contradict one incident.
Liars(i) ==
    LET reports == ReportsFor(i) IN
    {s \in Sources : /\ \E r \in reports : r.src = s
                     /\ \A r \in Range(events) :
                            r.src = s => r.inc = i /\ Disagrees(r, reports)}

\* A flood that brings a cluster of strangers is seen through: once its
\* reports have been observed every one of them is flagged, whatever was decided
\* again, tried in a sandbox or reset before (test_trust.py:86).
FloodIsFlagged ==
    \A i \in Incidents :
        Heard(i) /\ Cardinality(Liars(i)) >= SYBIL_CLUSTER_MIN
            => Liars(i) \subseteq Flagged(trust)

\* Reports of a source no more than RATE_LIMIT of which lie in one window.
WithinRate(s) ==
    \A r \in Range(events) :
        r.src = s => Cardinality({q \in Range(events) : /\ q.src = s
                                                        /\ q.time <= r.time
                                                        /\ r.time - q.time <= RATE_WINDOW_SECONDS})
                        <= RATE_LIMIT

\* A source that never contradicted the first report of an incident and kept
\* to the rate has lost nothing, whatever the others did (test_trust.py:63).
CleanSourceStaysTrusted ==
    \A s \in Sources :
        /\ WithinRate(s)
        /\ \A r \in Range(events) : r.src = s => ~Disagrees(r, ReportsFor(r.inc))
        => trust.veracity[s] = 100

\* Documented (test_trust.py:64): agreeing sources stay trusted.
AgreeingSourceStaysTrusted ==
    \A s \in Sources :
        (\A r \in Range(events) : r.src = s => ~Disagrees(r, ReportsFor(r.inc)))
            => s \notin Flagged(trust)

\* Documented (trust.py:29): observing an incident again penalises nobody.
ReobservingIsFree ==
    [][\A c \in Clients : (Weigh(c) \/ Settle(c)) /\ Is(c, "reoptimise")
            => \A s \in Sources : /\ trust'.veracity[s] >= trust.veracity[s]
                                  /\ trust'.availability[s] >= trust.availability[s]]_trustVars
=============================================================================
