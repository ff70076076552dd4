----------------------------- MODULE Decisions -----------------------------
(***************************************************************************)
(* The ADIP decision service: the stages of serving/pipeline.py, its audit *)
(* table behind one connection per thread, the counters of serving/app.py. *)
(*                                                                         *)
(* A probability is a whole percentage and a temperature T is the inverse  *)
(* of a whole exponent k, so p^(1/T) is p^k; calibrated values are ten     *)
(* thousandths.  A text is known by what the model answers to it.          *)
(***************************************************************************)
EXTENDS Integers, FiniteSets, SequencesExt

CONSTANTS
    Threads,      \* server threads
    Texts,        \* texts that are sent
    AnswerOf,     \* what the model answers to a text
    Exponents,    \* calibrations that are deployed
    MaxRequests,  \* bound of the model: calls of POST /decide
    MaxStarts,    \* bound of the model: starts of the process
    Cap           \* samples kept for the summary

Answers == [choice : Nat, dist : Seq(0..100), mass : Seq([level : Int, p : 0..100]),
            score : Nat, refund : 0..100]

ASSUME DecisionsAssumption ==
    /\ \A t \in Texts : AnswerOf[t] \in Answers
    /\ Exponents \subseteq Nat \ {0}
    /\ {MaxRequests, MaxStarts, Cap} \subseteq Nat \ {0}
    /\ "no one" \notin Threads

VARIABLES
    rows,      \* the table: committed rows
    pending,   \* per thread: rows inserted and not committed
    exponent,  \* the calibration of the running code
    starts,    \* starts of the process so far
    agent,     \* the model is loaded
    loader,    \* thread that holds _AGENT_LOCK
    loads,     \* loads of the model since the start
    counter,   \* holder of _METRICS_LOCK and the label last set
    decisions, \* per route: DECISIONS_TOTAL
    errors,    \* ERRORS_TOTAL
    observed,  \* PIPELINE_MS.count, the count of every child of STAGE_MS
    samples,   \* decisions in the summary's lists
    job,       \* per thread: its request
    requests,  \* requests so far: the last decision_id
    answered,  \* decisions clients were given
    failed     \* requests answered 500, decision or none

table   == <<rows, pending>>
model   == <<agent, loader, loads>>
metrics == <<counter, decisions, errors, observed, samples>>
clients == <<requests, answered, failed>>
vars    == <<table, exponent, starts, model, metrics, job, clients>>

-----------------------------------------------------------------------------
(* The stages.                                                             *)

Routes == {"AUTO", "REVIEW", "ESCALATE"}
NoOne  == "no one"
Unit   == 10000

Total(s) == FoldSeq(LAMBDA a, b : a + b, 0, s)

\* apply_temperature_dist raises for no distribution and for one without mass.
Unreadable(a) == Total(a.dist) = 0

\* apply_temperature_dist, apply_temperature.
Scaled(p, others, k) == (Unit * p^k) \div others
Conf(a, dept, k) ==
    Scaled(a.dist[dept], Total([i \in DOMAIN a.dist |-> a.dist[i]^k]), k)
Refund(a, k) == Scaled(a.refund, a.refund^k + (100 - a.refund)^k, k)

\* max() of the weights w: the first of the heaviest.
Heaviest(w) ==
    CHOOSE i \in DOMAIN w : /\ \A j \in DOMAIN w : w[j] <= w[i]
                            /\ \A j \in 1..(i - 1) : w[j] < w[i]

\* The department named, or the heaviest one.
Selected(a) == IF a.choice # 0 THEN a.choice
               ELSE Heaviest(a.dist)

Clipped(n) == IF n < 0 THEN 0 ELSE IF n > 2 THEN 2 ELSE n
\* round() of hundredths, half to even.
Rounded(x) == LET q == x \div 100 IN
              IF x % 100 > 50 \/ (x % 100 = 50 /\ q % 2 = 1) THEN q + 1 ELSE q

\* urgency_level: the heaviest level, or the rounded expected score.
UrgencyLevel(a) ==
    IF a.mass = <<>> THEN Clipped(Rounded(a.score))
    ELSE Clipped(a.mass[Heaviest([i \in DOMAIN a.mass |-> a.mass[i].p])].level)

\* typed_decision of a readable answer.
TypedDecision(a, k) ==
    [department |-> Selected(a), conf |-> Conf(a, Selected(a), k),
     urgency |-> UrgencyLevel(a), refund |-> Refund(a, k)]

\* policy_router, with CONF_REVIEW, CONF_AUTO, REFUND_THRESHOLD, REFUND_REVIEW_HI.
PolicyRoute(d) ==
    IF d.conf < 3500 THEN "ESCALATE"
    ELSE IF \/ d.conf < 6000
            \/ d.urgency = 2
            \/ d.refund \in 5000..6999
         THEN "REVIEW" ELSE "AUTO"

\* A row is the text, the route and the decision; an ERROR row has none.
NoDecision == [department |-> 0, conf |-> 0, urgency |-> 0, refund |-> 0]
DecisionRow(id, t, d) == [id |-> id, text |-> t, route |-> PolicyRoute(d), decision |-> d]
ErrorRow(id, t) == [id |-> id, text |-> t, route |-> "ERROR", decision |-> NoDecision]

\* replay: the stored text is decided again by the code that runs now.
Replays(row) == TypedDecision(AnswerOf[row.text], exponent) = row.decision

-----------------------------------------------------------------------------
Idle == [at |-> "idle", id |-> 0, text |-> "", route |-> "ERROR", decision |-> NoDecision]
At(c, place)   == job[c].at = place
Goes(c, place) == job' = [job EXCEPT ![c].at = place]

NoCount  == [r \in Routes |-> 0]
Unlocked == [lock |-> NoOne, last |-> "AUTO"]
Nothing  == [c \in Threads |-> <<>>]
AllIdle  == [c \in Threads |-> Idle]

Init ==
    /\ rows = {} /\ pending = Nothing
    /\ exponent \in Exponents /\ starts = 1
    /\ agent = FALSE /\ loader = NoOne /\ loads = 0
    /\ counter = Unlocked /\ decisions = NoCount
    /\ errors = 0 /\ observed = 0 /\ samples = 0
    /\ job = AllIdle
    /\ requests = 0 /\ answered = {} /\ failed = {}

\* POST /decide with the token and known images; the privacy scan and the
\* fairness screen are pure.
Begin(c, t) ==
    /\ At(c, "idle") /\ requests < MaxRequests
    /\ requests' = requests + 1
    /\ job' = [job EXCEPT ![c] = [Idle EXCEPT !.at = "load", !.id = requests + 1, !.text = t]]
    /\ UNCHANGED <<table, exponent, starts, model, metrics, answered, failed>>

\* _get_agent: the test without the lock ...
LookForAgent(c) ==
    /\ At(c, "load")
    /\ Goes(c, IF agent THEN "predict" ELSE "lock")
    /\ UNCHANGED <<table, exponent, starts, model, metrics, clients>>

\* Broken: no second test under the lock.
LockAndLoad(c) ==
    /\ At(c, "lock") /\ loader = NoOne
    /\ loader' = c /\ Goes(c, "loading")
    /\ UNCHANGED <<table, exponent, starts, agent, loads, metrics, clients>>

\* ... and again under the lock.
LockAgent(c) ==
    /\ At(c, "lock") /\ loader = NoOne
    /\ IF agent THEN UNCHANGED loader /\ Goes(c, "predict")
       ELSE loader' = c /\ Goes(c, "loading")
    /\ UNCHANGED <<table, exponent, starts, agent, loads, metrics, clients>>

\* laya.load, or its exception.
Load(c) ==
    /\ At(c, "loading")
    /\ loader' = NoOne
    /\ \/ agent' = TRUE /\ loads' = loads + 1 /\ Goes(c, "predict")
       \/ UNCHANGED <<agent, loads>> /\ Goes(c, "failed")
    /\ UNCHANGED <<table, exponent, starts, metrics, clients>>

\* typed_decision, policy_router, explanation: the model may raise.
Predict(c) ==
    LET a == AnswerOf[job[c].text]
        d == TypedDecision(a, exponent)
    IN
    /\ At(c, "predict")
    /\ \/ /\ ~Unreadable(a)
          /\ job' = [job EXCEPT ![c].at = "insert", ![c].route = PolicyRoute(d),
                                ![c].decision = d]
       \/ Goes(c, "failed")
    /\ UNCHANGED <<table, exponent, starts, model, metrics, clients>>

-----------------------------------------------------------------------------
(* AuditLog.append.  The first INSERT of a transaction takes the write     *)
(* lock of the database, the commit gives it back.                         *)

MayWrite(c) == \A d \in Threads \ {c} : pending[d] = <<>>

\* The row of a decision that was made, or _record_error's, with an id of its own.
RowOf(c) == IF At(c, "insert") THEN DecisionRow(job[c].id, job[c].text, job[c].decision)
            ELSE ErrorRow(job[c].id, job[c].text)

Insert(c) ==
    /\ At(c, "insert") \/ At(c, "record")
    /\ MayWrite(c)
    /\ pending' = [pending EXCEPT ![c] = Append(@, RowOf(c))]
    /\ Goes(c, IF At(c, "insert") THEN "commit" ELSE "commit error")
    /\ UNCHANGED <<rows, exponent, starts, model, metrics, clients>>

\* The exception of a decision goes to the handler, the one of an ERROR row
\* is swallowed: "never mask the original failure".
Raised(c) ==
    IF job[c].at \in {"insert", "commit"}
    THEN Goes(c, "failed") /\ UNCHANGED failed
    ELSE job' = [job EXCEPT ![c] = Idle] /\ failed' = failed \cup {job[c].id}

\* INSERT or COMMIT fails: the database was locked for busy_timeout, or the
\* disk; SQLite may or may not have rolled the transaction back.
AppendFails(c) ==
    /\ job[c].at \in {"insert", "record", "commit", "commit error"}
    /\ \/ UNCHANGED pending
       \/ MayWrite(c) /\ pending' = [pending EXCEPT ![c] = <<>>]
    /\ Raised(c)
    /\ UNCHANGED <<rows, exponent, starts, model, metrics, requests, answered>>

\* Broken: the commit is left to the next writer of the thread.
CommitLater(c) ==
    /\ At(c, "commit") \/ At(c, "commit error")
    /\ IF At(c, "commit")
       THEN Goes(c, "sample") /\ UNCHANGED <<table, failed>>
       ELSE /\ rows' = rows \cup Range(pending[c])
            /\ pending' = [pending EXCEPT ![c] = <<>>]
            /\ job' = [job EXCEPT ![c] = Idle] /\ failed' = failed \cup {job[c].id}
    /\ UNCHANGED <<exponent, starts, model, metrics, requests, answered>>

Commit(c) ==
    /\ At(c, "commit") \/ At(c, "commit error")
    /\ rows' = rows \cup Range(pending[c])
    /\ pending' = [pending EXCEPT ![c] = <<>>]
    /\ IF At(c, "commit") THEN Goes(c, "sample") /\ UNCHANGED failed
       ELSE job' = [job EXCEPT ![c] = Idle] /\ failed' = failed \cup {job[c].id}
    /\ UNCHANGED <<exponent, starts, model, metrics, requests, answered>>

-----------------------------------------------------------------------------
\* DecisionService._lock: one more sample, until the lists are full.
Sample(c) ==
    /\ At(c, "sample")
    /\ samples' = IF samples < Cap THEN samples + 1 ELSE samples
    /\ Goes(c, "label")
    /\ UNCHANGED <<table, exponent, starts, model, counter, decisions, errors, observed, clients>>

\* Broken: DECISIONS_TOTAL.labels(..).inc() without the lock.
LabelUnlocked(c) ==
    /\ At(c, "label")
    /\ counter' = [counter EXCEPT !.last = job[c].route]
    /\ Goes(c, "count")
    /\ UNCHANGED <<table, exponent, starts, model, decisions, errors, observed, samples, clients>>

\* _METRICS_LOCK; labels() leaves the label in the counter for inc().
Label(c) ==
    /\ At(c, "label") /\ counter.lock = NoOne
    /\ counter' = [lock |-> c, last |-> job[c].route]
    /\ Goes(c, "count")
    /\ UNCHANGED <<table, exponent, starts, model, decisions, errors, observed, samples, clients>>

Inc(c) ==
    /\ At(c, "count")
    /\ decisions' = [decisions EXCEPT ![counter.last] = @ + 1]
    /\ Goes(c, "observe")
    /\ UNCHANGED <<table, exponent, starts, model, counter, errors, observed, samples, clients>>

\* The histograms, then the answer.
Answer(c) ==
    /\ At(c, "observe")
    /\ observed' = observed + 1
    /\ counter' = [counter EXCEPT !.lock = NoOne]
    /\ answered' = answered \cup
         {[id |-> job[c].id, start |-> starts, route |-> job[c].route, decision |-> job[c].decision]}
    /\ job' = [job EXCEPT ![c] = Idle]
    /\ UNCHANGED <<table, exponent, starts, model, decisions, errors, samples, requests, failed>>

\* The handler of an exception counts it before the ERROR row is written.
CountError(c) ==
    /\ At(c, "failed") /\ counter.lock = NoOne
    /\ errors' = errors + 1
    /\ Goes(c, "record")
    /\ UNCHANGED <<table, exponent, starts, model, counter, decisions, observed, samples, clients>>

\* An idle thread of the pool ends, and its connection with it.
ThreadEnds(c) ==
    /\ At(c, "idle") /\ pending[c] # <<>>
    /\ pending' = [pending EXCEPT ![c] = <<>>]
    /\ UNCHANGED <<rows, exponent, starts, model, metrics, job, clients>>

\* The process dies or is deployed anew; what was committed stays.
Restart ==
    /\ starts < MaxStarts
    /\ starts' = starts + 1
    /\ exponent' \in Exponents
    /\ pending' = Nothing /\ job' = AllIdle
    /\ agent' = FALSE /\ loader' = NoOne /\ loads' = 0
    /\ counter' = Unlocked /\ decisions' = NoCount
    /\ errors' = 0 /\ observed' = 0 /\ samples' = 0
    /\ UNCHANGED <<rows, clients>>

Next ==
    \/ \E c \in Threads :
          \/ \E t \in Texts : Begin(c, t)
          \/ LookForAgent(c) \/ LockAgent(c) \/ Load(c) \/ Predict(c)
          \/ Insert(c) \/ AppendFails(c) \/ Commit(c) \/ Sample(c)
          \/ Label(c) \/ Inc(c) \/ Answer(c) \/ CountError(c) \/ ThreadEnds(c)
    \/ Restart

Spec == Init /\ [][Next]_vars

-----------------------------------------------------------------------------
(* Properties.                                                             *)

(* Every decision a client was given is in the table, with its route and   *)
(* its values, whatever failed, was rolled back or was restarted since     *)
(* (DecisionService.decide appends before it answers).                     *)
AnsweredIsOnRecord ==
    \A a \in answered : \E r \in rows :
        r.id = a.id /\ r.route = a.route /\ r.decision = a.decision

\* Decisions given since the process started.
Given(r) == {a \in answered : a.start = starts /\ a.route = r}

(* A scrape of /metrics sees each decision given since the start once,     *)
(* under its own route, and as many latencies as decisions ("a lost        *)
(* increment silently under-reports route counts under load", app.py:47).  *)
CountsAgree ==
    counter.lock = NoOne =>
        /\ \A r \in Routes : decisions[r] = Cardinality(Given(r))
        /\ observed = Cardinality(UNION {Given(r) : r \in Routes})

(* However many first requests arrive together, and however many loads     *)
(* failed before, the checkpoint is in memory once (_get_agent).           *)
LoadedOnce == loads <= 1

(* "Audit-always: a decide that raised still lands in the audit table,     *)
(* marked ERROR" (app.py:100).                                             *)
AuditAlways == \A id \in failed : \E r \in rows : r.id = id /\ r.route = "ERROR"

(* A request that was answered 500 left no decision behind.                *)
FailedHasNoDecision == \A id \in failed : \A r \in rows : r.id = id => r.route = "ERROR"

(* "bit-for-bit match proves the audit row fully determines the decision"  *)
(* (replay, pipeline.py:349).                                              *)
ReplayVerifies == \A r \in rows : r.route = "ERROR" \/ Replays(r)

(* adip_pipeline_p50_ms is a "live p50": its samples are those of every    *)
(* decision recorded since the start.                                      *)
SummaryIsLive == samples >= observed

=============================================================================
