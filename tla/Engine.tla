------------------------------- MODULE Engine -------------------------------
(***************************************************************************)
(* JevCity's decision engine over the simulation state, as the HTTP API    *)
(* drives it: decision_engine/engine.py, simulation/state.py,              *)
(* simulation/resource_pool.py, decision_engine/friction.py, api/app.py.   *)
(*                                                                         *)
(* A client is one worker of the API's thread pool.  The engine holds no   *)
(* lock, so a request is a sequence of steps that other requests may       *)
(* interleave with; one client gives the sequential behaviour.  A decision *)
(* is two steps, before and after Laya is asked (adapter.ask), which may   *)
(* take seconds; What-If asks a mock, which does not.                      *)
(*                                                                         *)
(* Guardrail!Decide is the real policy; what the models, the trust scores  *)
(* and Laya say of an incident is any member of Assessments at each        *)
(* decision.                                                               *)
(***************************************************************************)
EXTENDS Guardrail, FiniteSets

CONSTANTS
    Clients,        \* API workers
    Requests,       \* the endpoints these clients use
    SimIncidents,   \* numbers of the ids inc-00001, inc-00002, ...
    FeedIncidents,  \* numbers standing for the ids the live feeds bring
    Kinds,          \* what may happen: [type, zone]
    Bursts,         \* how many reports one injection brings
    Recordings,     \* replayable recordings: sequences of [ev, inc, kind]
    OverrideKinds,  \* the override types operators use
    UsedPositions,  \* the governance positions they switch to
    Assessments,    \* what may be found out about an incident
    MaxDecisions, MaxIds, MaxReports, MaxRejects   \* bounds of the model

RequestNames == {"start", "reset", "pause", "inject", "injectBad", "report",
                 "feeds", "override", "policy", "image", "whatIf"}
OverrideTypes == {"CHANGE_PRIORITY", "ASSIGN_RESOURCES", "DISMISS_INCIDENT",
                  "ESCALATE_TO_HUMAN", "MARK_DATA_UNTRUSTED",
                  "OVERRIDE_AUTOMATION_HOLD"}
Incidents == SimIncidents \cup FeedIncidents
Kind      == [type : IncidentTypes, zone : Zones]
Free      == 0    \* "no incident", where the code stores None

ASSUME EngineAssumption ==
    /\ Requests \subseteq RequestNames
    /\ SimIncidents \subseteq Nat \ {Free}
    /\ FeedIncidents \subseteq Nat \ {Free}
    /\ Kinds \subseteq Kind
    /\ Bursts \subseteq Nat \ {0}
    /\ \A rec \in Recordings :
          rec \in Seq([ev : Nat \ {0}, inc : SimIncidents, kind : Kinds])
    /\ OverrideKinds \subseteq OverrideTypes
    /\ UsedPositions \subseteq Positions
    /\ Assessments \subseteq Assessment
    /\ MaxDecisions \in Nat /\ MaxIds \in Nat /\ MaxReports \in Nat /\ MaxRejects \in Nat

VARIABLES
    raw,         \* simulation.raw_events; events are those that are not hard
    processed,   \* engine._processed, the cursor into raw
    incidents,   \* simulation.incidents
    generated,   \* generator._incident_counter
    numbered,    \* generator._event_counter
    paused,      \* simulation.paused
    pool,        \* the incident a unit is assigned to, or Free
    validated,   \* engine.validation_by_event: event id -> [inc, hard]
    hardIndex,   \* incidents with a hard entry in _validation_by_incident
    history,     \* engine.decision_history
    counter,     \* engine._counter, the last decision id
    cache,       \* engine._latest_by_incident
    cachedLen,   \* engine._latest_cached_len
    position,    \* engine.policy_position
    auditFailed, \* engine.audit_write_failed
    rejects,     \* writes the audit store has rejected
    tasks        \* what each client's request has still to do

simVars   == <<raw, incidents, generated, numbered, paused>>
validVars == <<processed, validated, hardIndex>>
indexVars == <<history, cache, cachedLen, counter>>
auditVars == <<auditFailed, rejects>>
vars == <<simVars, validVars, indexVars, auditVars, pool, position, tasks>>

-----------------------------------------------------------------------------
(* Rows and lookups *)

\* The numbers of a finite set, ascending.
InOrder(S) == [n \in 1..Cardinality(S) |->
                 CHOOSE k \in S : Cardinality({j \in S : j < k}) = n - 1]

Elems(s)     == {s[k] : k \in DOMAIN s}
Put(f, i, v) == [j \in DOMAIN f \cup {i} |-> IF j = i THEN v ELSE f[j]]
Without(f, S) == [j \in DOMAIN f \ S |-> f[j]]

NewIncident(kind) == [kind |-> kind, lifecycle |-> "DETECTED", hard |-> FALSE,
                      units |-> <<>>, evidence |-> 0]

\* Broken: a placeholder without a type.
ShellUntyped == [NewIncident([type |-> "UNKNOWN", zone |-> "NORTH"]) EXCEPT !.hard = TRUE]

\* _rejected_shell: a placeholder for an id that nothing valid described.
Shell == [NewIncident([type |-> "ACCIDENT", zone |-> "NORTH"]) EXCEPT !.hard = TRUE]

Reports(i) == {k \in DOMAIN raw : raw[k].inc = i /\ ~raw[k].hard}

Register(i, kind) == IF i \in DOMAIN incidents THEN incidents
                                               ELSE Put(incidents, i, NewIncident(kind))

\* _next_unique_incident_id: the next number no registered incident carries.
UnusedIds == {i \in SimIncidents : i > generated /\ i \notin DOMAIN incidents}
NextId    == Least(UnusedIds)

\* Broken: a unit's status is not looked at.
FreeUnitsUnchecked(held) == Units

FreeUnits(held) == {u \in Units : held[u] = Free}

NoRecord == [id |-> 0]

LastRecord(i) == LET mine == {k \in DOMAIN history : history[k].inc = i}
                 IN  IF mine = {} THEN NoRecord
                     ELSE history[CHOOSE k \in mine : \A j \in mine : j <= k]

\* _latest_decision rebuilds its map only when the lengths differ.
Refreshed == IF Len(history) = cachedLen THEN cache
             ELSE [i \in Incidents |-> LastRecord(i)]

Refresh == cache' = Refreshed /\ cachedLen' = Len(history)

Idle == [op |-> "idle"]
Continue(c, task) == tasks' = [tasks EXCEPT ![c] = task]
Accepts(c, name)  == tasks[c] = Idle /\ name \in Requests

\* Requests keep the incident objects they found; those of incidents that are
\* gone no longer are the registered ones, whatever is registered later.
Forget(found, gone) ==
    [n \in DOMAIN found |-> [inc  |-> found[n].inc,
                             kept |-> found[n].kept /\ found[n].inc \notin gone]]

Orphaned(gone) ==
    [c \in Clients |->
        CASE tasks[c].op = "reoptimise" ->
                [tasks[c] EXCEPT !.todo = Forget(@, gone)]
          [] tasks[c].op = "dryRuns" ->
                [tasks[c] EXCEPT !.open = Forget(@, gone)]
          [] tasks[c].op = "asking" ->
                [tasks[c] EXCEPT !.rest = IF tasks[c].back = "batch" THEN @
                                          ELSE Forget(@, gone),
                                 !.about.kept = @ /\ tasks[c].about.inc \notin gone]
          [] OTHER -> tasks[c]]

-----------------------------------------------------------------------------
(* Sessions *)

Init ==
    /\ raw = <<>> /\ incidents = <<>> /\ generated = 0 /\ numbered = 0
    /\ paused = FALSE
    /\ processed = 0 /\ validated = <<>> /\ hardIndex = {}
    /\ pool = [u \in Units |-> Free]
    /\ history = <<>> /\ counter = 0
    /\ cache = [i \in Incidents |-> NoRecord] /\ cachedLen = 0
    /\ position = "RESPONSE_TIME"
    /\ auditFailed = FALSE /\ rejects = 0
    /\ tasks = [c \in Clients |-> Idle]

RawEvent(ev, i, kind, hard) == [ev |-> ev, inc |-> i, kind |-> kind, hard |-> hard]

Replayed(rec) == [k \in DOMAIN rec |->
                    RawEvent(rec[k].ev, rec[k].inc, rec[k].kind, FALSE)]

\* The first event of an incident describes it.
RecordedIncidents(rec) ==
    [i \in {rec[k].inc : k \in DOMAIN rec} |->
        NewIncident(rec[Least({k \in DOMAIN rec : rec[k].inc = i})].kind)]

\* A decision that is being asked keeps the pool it was given, which a new session
\* replaces.  What was free there may still be assigned, by this or another one.
Stranded ==
    [c \in Clients |->
        IF tasks[c].op # "asking" \/ tasks[c].about.stale THEN Orphaned(DOMAIN incidents)[c]
        ELSE [Orphaned(DOMAIN incidents)[c] EXCEPT !.about.stale = TRUE,
                                                  !.about.free = FreeUnits(pool)]]

\* What both entry points clear.  Decision ids, the latest-decision cache and
\* the position survive; the generator starts again at 1.
NewSession(rec) ==
    /\ raw' = Replayed(rec) /\ incidents' = RecordedIncidents(rec)
    /\ generated' = 0 /\ numbered' = 0 /\ paused' = FALSE
    /\ processed' = 0 /\ validated' = <<>> /\ hardIndex' = {}
    /\ pool' = [u \in Units |-> Free]
    /\ history' = <<>>
    /\ UNCHANGED <<counter, cache, cachedLen, position, rejects>>

Start(c) == \E rec \in Recordings \cup {<<>>} :
    /\ Accepts(c, "start")
    /\ NewSession(rec)
    /\ tasks' = [Stranded EXCEPT
                    ![c] = IF rec = <<>> THEN Idle ELSE [op |-> "pending"]]
    /\ UNCHANGED auditFailed

Reset(c) == /\ Accepts(c, "reset")
            /\ NewSession(<<>>)
            /\ auditFailed' = FALSE
            /\ tasks' = Stranded

PauseOrResume(c) ==
    /\ Accepts(c, "pause")
    /\ paused' = ~paused
    /\ UNCHANGED <<raw, incidents, generated, numbered, validVars, indexVars,
                   auditVars, pool, position, tasks>>

-----------------------------------------------------------------------------
(* Reports arrive *)

HasRoom(n) == Len(raw) + n <= MaxReports

\* n reports of incident i are generated and appended.
AppendReports(i, kind, hard, n) ==
    /\ HasRoom(n)
    /\ numbered' = numbered + n
    /\ raw' = raw \o [k \in 1..n |-> RawEvent(numbered + k, i, kind, hard)]

\* One new incident, reported n times in one request: inject_incident,
\* multi_report, second_emergency, inject_sybil, soft bad data.
InjectNew(kind, n) == /\ UnusedIds # {}
                      /\ AppendReports(NextId, kind, FALSE, n)
                      /\ incidents' = Put(incidents, NextId, NewIncident(kind))
                      /\ generated' = NextId
                      /\ UNCHANGED paused

Inject(c) == \E kind \in Kinds, n \in Bursts :
    /\ Accepts(c, "inject") /\ ~paused
    /\ InjectNew(kind, n)
    /\ Continue(c, [op |-> "pending"])
    /\ UNCHANGED <<validVars, indexVars, auditVars, pool, position>>

\* A new incident whose only report breaks the schema: the id is used up, the
\* incident is not registered.
InjectBad(c) == \E kind \in Kinds :
    /\ Accepts(c, "injectBad") /\ ~paused
    /\ UnusedIds # {}
    /\ AppendReports(NextId, kind, TRUE, 1)
    /\ generated' = NextId
    /\ Continue(c, [op |-> "pending"])
    /\ UNCHANGED <<incidents, paused, validVars, indexVars, auditVars, pool, position>>

\* inject_bad_data on an incident that has a report.
Report(c) == \E i \in Incidents, hard \in BOOLEAN :
    LET kind == raw[Least(Reports(i))].kind
    IN  /\ Accepts(c, "report") /\ ~paused
        /\ Reports(i) # {}
        /\ AppendReports(i, kind, hard, 1)
        /\ incidents' = IF hard THEN incidents ELSE Register(i, kind)
        /\ Continue(c, [op |-> "pending"])
        /\ UNCHANGED <<generated, paused, validVars, indexVars, auditVars, pool, position>>

\* A feed refresh appends what the feeds bring and returns.  A feed derives the
\* event id from the upstream alert, like the incident id.
RefreshFeeds(c) == \E i \in FeedIncidents, kind \in Kinds :
    /\ Accepts(c, "feeds") /\ HasRoom(1)
    /\ raw' = Append(raw, RawEvent(i, i, kind, FALSE))
    /\ incidents' = Register(i, kind)
    /\ UNCHANGED <<generated, numbered, paused, validVars, indexVars, auditVars, pool,
                   position, tasks>>

-----------------------------------------------------------------------------
(* Decisions *)

\* Broken: the cursor is taken for an index of the last event.
PendingAfterNext == (processed + 2)..Len(raw)

Pending == (processed + 1)..Len(raw)

\* The pending positions whose key no earlier pending event has: where an
\* insertion-ordered dict meets its keys.
Firsts(key) == {k \in Pending : \A j \in Pending : j < k => key[j] # key[k]}

IncOf == [k \in DOMAIN raw |-> raw[k].inc]
EvOf  == [k \in DOMAIN raw |-> raw[k].ev]

LastPending(i) == CHOOSE k \in Pending :
                    /\ raw[k].inc = i
                    /\ \A j \in Pending : raw[j].inc = i => j <= k

\* Broken: results of incidents that are already known are not filed.
FiledOfUnknown == {k \in Firsts(EvOf) : raw[k].inc \notin DOMAIN incidents}

\* What is filed by incident: the first result of an event id.
Filed == {k \in Firsts(EvOf) : raw[k].ev \notin DOMAIN validated}

\* An event id already validated is overwritten by event, not filed by incident.
Validate ==
    LET ids   == {raw[k].ev : k \in Pending}
        last  == [e \in ids |-> CHOOSE k \in Pending :
                     raw[k].ev = e /\ \A j \in Pending : raw[j].ev = e => j <= k]
    IN  /\ validated' = [e \in DOMAIN validated \cup ids |->
                            IF e \in ids
                            THEN [inc |-> raw[last[e]].inc, hard |-> raw[last[e]].hard]
                            ELSE validated[e]]
        /\ hardIndex' = hardIndex \cup {raw[k].inc : k \in {k \in Filed : raw[k].hard}}

\* The cursor passes the whole batch before any of it is decided; there is one
\* decision per incident and its last raw event says how it is treated.
BeginBatch(c) ==
    LET firsts == InOrder(Firsts(IncOf))
    IN  /\ tasks[c].op = "pending"
        /\ processed' = Len(raw)
        /\ Validate
        /\ Continue(c, [op   |-> "batch",
                        todo |-> [n \in DOMAIN firsts |->
                            [inc  |-> raw[firsts[n]].inc,
                             hard |-> raw[LastPending(raw[firsts[n]].inc)].hard]]])
        /\ UNCHANGED <<simVars, indexVars, auditVars, pool, position>>

\* Broken: only the last report is asked, earlier rejections are not.
QuestionOfLastReport(i, book, kept) ==
    [inc |-> i, hard |-> FALSE, kind |-> book[i].kind, kept |-> kept,
     stale |-> FALSE, free |-> {}]

\* What decide_for reads before it asks.  kept: the record is about the registered
\* incident; stale: a new session has replaced the pool; free: what was free in it.
Question(i, book, kept) ==
    [inc |-> i, hard |-> i \in hardIndex, kind |-> book[i].kind, kept |-> kept,
     stale |-> FALSE, free |-> {}]

ContextFor(q, a) == [hard |-> q.hard, type |-> q.kind.type, zone |-> q.kind.zone,
                     a |-> a, position |-> position]

\* Broken: the units are assigned but not written down.
NewRecordUnlisted(i, d) ==
    [id |-> counter + 1, inc |-> i, state |-> d.state, priority |-> d.priority,
     recommended |-> d.recommended, units |-> <<>>, over |-> "NONE", glass |-> FALSE]

NewRecord(i, d) ==
    [id |-> counter + 1, inc |-> i, state |-> d.state, priority |-> d.priority,
     recommended |-> d.recommended, units |-> d.units, over |-> "NONE", glass |-> FALSE]

\* The bounds on ids, which may be given back, and on decisions.
MayDecide == counter < MaxIds /\ Len(history) < MaxDecisions

\* Broken: the length is noted, the record is not.
IndexCounts(record) == /\ history' = Append(history, record)
                       /\ cache' = cache
                       /\ cachedLen' = Len(history) + 1

Index(record) == /\ history' = Append(history, record)
                 /\ cache' = [cache EXCEPT ![record.inc] = record]
                 /\ cachedLen' = Len(history) + 1

Advanced(incident, d) ==
    IF d.state = "REJECTED_INPUT" THEN [incident EXCEPT !.hard = TRUE]
    ELSE IF d.units # <<>>
         THEN [incident EXCEPT !.units = d.units, !.lifecycle = "RESOURCE_ASSIGNED"]
    ELSE IF d.state \in {"AUTO_APPROVED", "MODEL_DEGRADED"}
         THEN [incident EXCEPT !.lifecycle = "PRIORITIZED"]
    ELSE IF incident.lifecycle = "DETECTED"
         THEN [incident EXCEPT !.lifecycle = "VALIDATED"]
    ELSE incident

AuditRejects == rejects < MaxRejects /\ rejects' = rejects + 1

\* _append_audit swallows a rejected write and raises the banner instead.
AuditDecision == \/ rejects' = rejects /\ auditFailed' = FALSE
                 \/ AuditRejects /\ auditFailed' = TRUE

\* decide() has answered d: the units taken from the live pool are assigned, the
\* record is indexed, the incident advanced, the audit written.
\* live: the incident this is about is the registered one.
Persist(i, d, book, live, taken) ==
    /\ MayDecide
    /\ counter' = counter + 1
    /\ Index(NewRecord(i, d))
    /\ pool' = [u \in Units |-> IF u \in taken THEN i ELSE pool[u]]
    /\ incidents' = IF live THEN [book EXCEPT ![i] = Advanced(@, d)] ELSE book
    /\ AuditDecision

Rejection == [state |-> "REJECTED_INPUT", priority |-> LOW, source |-> "HUMAN_REQUIRED",
              recommended |-> <<>>, units |-> <<>>]

Rest(task) == [task EXCEPT !.todo = Tail(task.todo)]

Decidable(i) == i \in DOMAIN incidents /\ Reports(i) # {}

\* The request goes on asking about the head of its queue.
Ask(c, q) == Continue(c, [op |-> "asking", back |-> tasks[c].op,
                          rest |-> Tail(tasks[c].todo), about |-> q])

\* _process_one up to the question; without a report decide_for raises, the
\* request ends and the rest of its batch is lost.
DecideOne(c) ==
    LET item == Head(tasks[c].todo)
        i    == item.inc
        book == IF i \in DOMAIN incidents THEN incidents ELSE Put(incidents, i, Shell)
    IN  /\ tasks[c].op = "batch" /\ tasks[c].todo # <<>>
        /\ \/ /\ item.hard
              /\ Persist(i, Rejection, book, TRUE, {})
              /\ Continue(c, Rest(tasks[c]))
           \/ /\ ~item.hard
              /\ incidents' = book
              /\ IF Reports(i) # {} THEN Ask(c, Question(i, book, TRUE))
                                    ELSE Continue(c, Idle)
              /\ UNCHANGED <<indexVars, auditVars, pool>>
        /\ UNCHANGED <<raw, generated, numbered, paused, validVars, position>>

\* Laya has answered, or failed to: decide() looks at the pool it was given and at
\* the position in force now, and the record is persisted.
Answered(c) ==
    LET q == tasks[c].about
    IN  /\ tasks[c].op = "asking"
        /\ \E a \in Assessments,
              free \in IF q.stale THEN SUBSET q.free ELSE {FreeUnits(pool)} :
                LET d == Decide(ContextFor(q, a), free)
                IN  Persist(q.inc, d, incidents, q.kept,
                            IF q.stale THEN {} ELSE Elems(d.units))
        /\ Continue(c, [op |-> tasks[c].back, todo |-> tasks[c].rest])
        /\ UNCHANGED <<raw, generated, numbered, paused, validVars, position>>

EndBatch(c) == /\ tasks[c].op = "batch" /\ tasks[c].todo = <<>>
               /\ Continue(c, Idle)
               /\ UNCHANGED <<simVars, validVars, indexVars, auditVars, pool, position>>

-----------------------------------------------------------------------------
(* The governance position *)

\* Open incidents in the order they were registered.  Nothing sets RESOLVED.
OpenQueue ==
    LET isOpen(i) == i \in DOMAIN incidents /\ ~incidents[i].hard
        firsts == InOrder({k \in DOMAIN raw : /\ ~raw[k].hard /\ isOpen(raw[k].inc)
                                              /\ \A j \in Reports(raw[k].inc) : k <= j})
    IN  [n \in DOMAIN firsts |-> [inc |-> raw[firsts[n]].inc, kept |-> TRUE]]

\* The same position again is a no-op.
SwitchPolicy(c) == \E p \in UsedPositions \ {position}, reoptimise \in BOOLEAN :
    /\ Accepts(c, "policy")
    /\ Continue(c, [op   |-> "dryRuns", to |-> p, saved |-> counter,
                    todo |-> OpenQueue,
                    open |-> IF reoptimise THEN OpenQueue ELSE <<>>])
    /\ UNCHANGED <<simVars, validVars, indexVars, auditVars, pool, position>>

\* Two dry runs on copies of the pool, under either position; each asks and then
\* draws an id.  An incident that is gone, before or between them, makes the
\* request raise; the position stays and the ids are not given back.
DryRunOne(c) ==
    LET i == Head(tasks[c].todo).inc
    IN  /\ tasks[c].op = "dryRuns" /\ tasks[c].todo # <<>>
        /\ Refresh
        /\ \/ /\ Refreshed[i] = NoRecord
              /\ UNCHANGED counter
              /\ Continue(c, Rest(tasks[c]))
           \/ /\ Refreshed[i] # NoRecord /\ Decidable(i) /\ counter + 2 <= MaxIds
              /\ counter' = counter + 2
              /\ Continue(c, Rest(tasks[c]))
           \/ /\ Refreshed[i] # NoRecord /\ ~Decidable(i)
              /\ \E drawn \in 0..1 : /\ counter + drawn <= MaxIds
                                     /\ counter' = counter + drawn
              /\ Continue(c, Idle)
        /\ UNCHANGED <<simVars, validVars, history, auditVars, pool, position>>

\* The ids of the dry runs are given back, whoever drew others meanwhile.
EndDryRuns(c) ==
    /\ tasks[c].op = "dryRuns" /\ tasks[c].todo = <<>>
    /\ counter' = tasks[c].saved
    /\ position' = tasks[c].to
    /\ Continue(c, [op |-> "reoptimise", todo |-> tasks[c].open])
    /\ UNCHANGED <<simVars, validVars, history, cache, cachedLen, auditVars, pool>>

\* Broken: whoever holds a listed unit loses it.
ReleasedUnchecked(i, latest) ==
    [u \in Units |-> IF u \in Elems(latest.units) THEN Free ELSE pool[u]]

\* The units the latest decision lists, where the incident still holds them.
Released(i, latest) ==
    [u \in Units |-> IF u \in Elems(latest.units) /\ pool[u] = i THEN Free ELSE pool[u]]

ReoptimiseOne(c) ==
    LET item   == Head(tasks[c].todo)
        i      == item.inc
        latest == Refreshed[i]
    IN  /\ tasks[c].op = "reoptimise" /\ tasks[c].todo # <<>>
        /\ Refresh
        /\ \/ /\ latest = NoRecord
              /\ Continue(c, Rest(tasks[c]))
              /\ UNCHANGED pool
           \/ /\ latest # NoRecord
              /\ pool' = Released(i, latest)
              /\ IF Decidable(i) THEN Ask(c, Question(i, incidents, item.kept))
                                 ELSE Continue(c, Idle)
        /\ UNCHANGED <<simVars, validVars, history, counter, auditVars, position>>

\* A rejected audit write fails a request, after its effects.
AuditRequest == \/ UNCHANGED rejects
                \/ AuditRejects

EndSwitch(c) == /\ tasks[c].op = "reoptimise" /\ tasks[c].todo = <<>>
                /\ Continue(c, Idle)
                /\ AuditRequest
                /\ UNCHANGED <<simVars, validVars, indexVars, auditFailed, pool, position>>

-----------------------------------------------------------------------------
(* Operator overrides *)

Consents == {"none", "ack", "breakGlass"}  \* impact_ack + context_code, break_glass

\* friction.assess grades an override against the decision it names.
Raises(r, t, p)  == t = "CHANGE_PRIORITY" /\ p > r.priority
LifeSafety(i)    == incidents[i].kind.type \in {"FIRE", "ACCIDENT"}
Tier(r, t, p)    ==
    CASE Raises(r, t, p) /\ LifeSafety(r.inc)            -> "BREAK_GLASS"
      [] Raises(r, t, p) /\ ~LifeSafety(r.inc)           -> "HIGH"
      [] t = "DISMISS_INCIDENT" /\ r.units # <<>>        -> "HIGH"
      [] OTHER                                           -> "LOW"

Enforced(tier, consent) == /\ tier = "HIGH" => consent = "ack"
                           /\ tier = "BREAK_GLASS" => consent = "breakGlass"

\* _assign_recommended: the least free unit of every recommended type.
AssignedTo(r) ==
    LET candidates(k) == OfType(FreeUnits(pool), r.recommended[k])
        served == InOrder({k \in DOMAIN r.recommended : candidates(k) # {}})
    IN  [n \in DOMAIN served |-> Least(candidates(served[n]))]

\* A decision is named by its id; of two with the same id the later is meant.
Names(r) == \E k \in DOMAIN history :
               history[k] = r /\ \A j \in DOMAIN history : history[j].id = r.id => j <= k

ApplyOverride(r, t, p, consent) ==
    LET extra == IF t = "ASSIGN_RESOURCES" THEN AssignedTo(r) ELSE <<>>
        units == r.units \o extra
    IN  /\ r.inc \in DOMAIN incidents
        /\ Enforced(Tier(r, t, p), consent)
        /\ MayDecide
        /\ counter' = counter + 1
        /\ Index([r EXCEPT !.id = counter + 1, !.state = "OVERRIDE_ACTIVE",
                           !.priority = IF t = "CHANGE_PRIORITY" THEN p ELSE @,
                           !.units = units, !.over = t,
                           !.glass = (consent = "breakGlass")])
        /\ pool' = [u \in Units |-> IF u \in Elems(extra) THEN r.inc ELSE pool[u]]
        \* The audit write comes before the incident's list is brought up to date.
        /\ \/ /\ incidents' = [incidents EXCEPT ![r.inc].units =
                                    IF extra = <<>> THEN @ ELSE units]
              /\ UNCHANGED rejects
           \/ /\ AuditRejects
              /\ UNCHANGED incidents

Override(c) == \E k \in DOMAIN history, t \in OverrideKinds, p \in Priorities,
                  consent \in Consents :
    /\ Accepts(c, "override")
    /\ Names(history[k])
    /\ t # "CHANGE_PRIORITY" => p = history[k].priority
    /\ ApplyOverride(history[k], t, p, consent)
    /\ UNCHANGED <<raw, generated, numbered, paused, validVars, auditFailed, position,
                   tasks>>

-----------------------------------------------------------------------------
(* Vision evidence *)

\* The audit write comes last; a rejected one leaves the attachment in place.
AttachImage(c) == \E i \in DOMAIN incidents :
    /\ Accepts(c, "image")
    /\ Refresh
    /\ incidents' = [incidents EXCEPT ![i].evidence = Refreshed[i].id]
    /\ AuditRequest
    /\ UNCHANGED <<raw, generated, numbered, paused, validVars, history, counter,
                   auditFailed, pool, position, tasks>>

-----------------------------------------------------------------------------
(* What-If *)

Snapshot == [rawLen |-> Len(raw), known |-> DOMAIN incidents, counter |-> counter,
             generated |-> generated, numbered |-> numbered]

\* Broken: the decision counter is recomputed, the event counter forgotten.
RolledBackRecounted(saved) ==
    [raw       |-> SubSeq(raw, 1, saved.rawLen),
     incidents |-> Without(incidents, DOMAIN incidents \ saved.known),
     counter   |-> Len(history),
     generated |-> saved.generated,
     numbered  |-> numbered]

\* The finally clause of sandbox_scope, given what was saved on entry.
RolledBack(saved) ==
    [raw       |-> IF Len(raw) > saved.rawLen THEN SubSeq(raw, 1, saved.rawLen)
                  ELSE raw,
     incidents |-> Without(incidents, DOMAIN incidents \ saved.known),
     counter   |-> saved.counter,
     generated |-> saved.generated,
     numbered  |-> saved.numbered]

\* run_what_if up to its decision, which is thrown away but numbered.  Only the
\* SECOND_EMERGENCY scenario touches the simulation.
EnterWhatIf(c) == \E scenario \in {"SECOND_EMERGENCY", "OTHER"} :
    /\ Accepts(c, "whatIf")
    /\ \E i \in DOMAIN incidents : Reports(i) # {}
    /\ MayDecide
    /\ counter' = counter + 1
    /\ IF scenario = "SECOND_EMERGENCY"
       THEN InjectNew([type |-> "FIRE", zone |-> "NORTH"], 1)
       ELSE UNCHANGED simVars
    /\ Continue(c, [op |-> "whatIf", saved |-> Snapshot])
    /\ UNCHANGED <<validVars, history, cache, cachedLen, auditVars, pool, position>>

ExitWhatIf(c) ==
    LET live == RolledBack(tasks[c].saved)
    IN  /\ tasks[c].op = "whatIf"
        /\ raw' = live.raw /\ incidents' = live.incidents /\ counter' = live.counter
        /\ generated' = live.generated /\ numbered' = live.numbered
        /\ tasks' = [Orphaned(DOMAIN incidents \ tasks[c].saved.known) EXCEPT ![c] = Idle]
        /\ UNCHANGED <<paused, validVars, history, cache, cachedLen, auditVars, pool,
                       position>>

-----------------------------------------------------------------------------
Next == \E c \in Clients :
    \/ Start(c) \/ Reset(c) \/ PauseOrResume(c)
    \/ Inject(c) \/ InjectBad(c) \/ Report(c) \/ RefreshFeeds(c)
    \/ BeginBatch(c) \/ DecideOne(c) \/ Answered(c) \/ EndBatch(c)
    \/ SwitchPolicy(c) \/ DryRunOne(c) \/ EndDryRuns(c)
    \/ ReoptimiseOne(c) \/ EndSwitch(c)
    \/ Override(c) \/ AttachImage(c)
    \/ EnterWhatIf(c) \/ ExitWhatIf(c)

Spec == Init /\ [][Next]_vars

=============================================================================
