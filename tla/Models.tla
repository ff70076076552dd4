------------------------------- MODULE Models -------------------------------
(***************************************************************************)
(* How a decision comes by its evidence (engine.py, decide_for): three     *)
(* model calls, one after the other, through the pool of models/wrapper.py *)
(* that every server thread shares, then Laya, then the policy.            *)
(*                                                                         *)
(* The pool has few workers and a queue.  A call waits for its deadline    *)
(* only; the job it leaves behind is still run.  A model that hangs keeps  *)
(* the worker that runs it until the prediction ends.                      *)
(***************************************************************************)
EXTENDS LayaAnswers, FiniteSets, SequencesExt

CONSTANTS
    Clients,      \* server threads that decide incidents
    Workers,      \* threads of the pool (_POOL: two)
    Cases,        \* what the reports of an incident amount to
    Raw,          \* what the trained models compute: model -> answers
    LiveResults,  \* what a live Laya hands back
    Modes,        \* of the Laya adapter
    MaxJobs,      \* unfinished jobs of the pool (bound of the model)
    NoJob

ModelNames == {"severity", "traffic", "anomaly"}
Case == [type : IncidentTypes, zone : Zones, hard : BOOLEAN,
         contradicted : BOOLEAN, injected : BOOLEAN]

ASSUME ModelsAssumption ==
    /\ Cases \subseteq Case /\ Cases # {} /\ Modes \subseteq {"mock", "cache", "live"}
    /\ Raw.severity \subseteq [ok : BOOLEAN, pred : Priorities, conf : Percent]
    /\ Raw.traffic \subseteq [ok : BOOLEAN, delta : Percent, conf : Percent]
    /\ Raw.anomaly \subseteq [failed : BOOLEAN, score : Percent, situational : BOOLEAN]
    /\ MaxJobs \in Nat /\ Clients # {} /\ Workers # {}
    /\ NoJob \notin [client : Clients, model : ModelNames, live : BOOLEAN]

VARIABLES
    request,  \* per client: where it is, its case and the evidence so far
    future,   \* per client: what became of the job it waits for
    queue,    \* jobs not yet taken
    running,  \* per worker: its job
    slow,     \* models that hang at present
    hung,     \* workers whose job began while its model hung
    record    \* per client: its last decision, <<>> before it

vars == <<request, future, queue, running, slow, hung, record>>

Job == [client : Clients, model : ModelNames, live : BOOLEAN]

\* The wrappers' answers for a model that raised or was late.
Failed == [severity |-> [ok |-> FALSE, pred |-> LOW, conf |-> 0],
           traffic  |-> [ok |-> FALSE, delta |-> 0, conf |-> 0],
           anomaly  |-> [failed |-> TRUE, score |-> 100, situational |-> FALSE]]

\* Broken: a failed anomaly model finds nothing.
FailedOpen(m) == IF m = "anomaly" THEN [failed |-> FALSE, score |-> 0, situational |-> FALSE]
                 ELSE Failed[m]

FailedOutput(m) == Failed[m]

AtLeast(score, floor) == IF score < floor THEN floor ELSE score

\* AnomalyDetector.predict: the rules over the trained score.
QualityScore(case, raw) ==
    IF case.hard THEN 100
    ELSE IF case.contradicted \/ case.injected THEN AtLeast(raw, AnomalyAt) ELSE raw

\* predict of SeverityModel, TrafficModel and AnomalyDetector.
Output(m, case, raw) ==
    IF m # "anomaly" THEN raw
    ELSE [raw EXCEPT !.score = QualityScore(case, raw.score)]

NoAssessment == [sev |-> Failed.severity, traffic |-> Failed.traffic,
                 anomaly |-> Failed.anomaly, laya |-> NoAdvice, trust |-> 100]
Idle == [at |-> "idle", case |-> CHOOSE c \in Cases : TRUE, a |-> NoAssessment]

Init == /\ request = [c \in Clients |-> Idle]
        /\ future = [c \in Clients |-> "none"]
        /\ queue = <<>>
        /\ running = [w \in Workers |-> NoJob]
        /\ slow = {} /\ hung = {}
        /\ record = [c \in Clients |-> <<>>]

-----------------------------------------------------------------------------
At(c, place) == request[c].at = place
Waits(c) == request[c].at \in ModelNames
Following == [severity |-> "traffic", traffic |-> "anomaly", anomaly |-> "laya"]
Key == [severity |-> "sev", traffic |-> "traffic", anomaly |-> "anomaly"]

NewJob(c, m) == [client |-> c, model |-> m, live |-> TRUE]
\* Broken: the job is not cut off from the call that gave it up.
NeverAbandoned(j) == j

Abandoned(j) == [j EXCEPT !.live = FALSE]
IsOf(j, c) == j # NoJob /\ j.client = c /\ j.live

\* Jobs that have not ended, and those that calls begun will still bring.
Unfinished == Len(queue) + Cardinality({w \in Workers : running[w] # NoJob})
Room == Unfinished + 3 * (Cardinality({c \in Clients : ~At(c, "idle")}) + 1) <= MaxJobs

\* A decision is asked for; the first model is called.
Begin(c) ==
    /\ At(c, "idle") /\ Room
    /\ \E case \in Cases :
           request' = [request EXCEPT ![c] = [Idle EXCEPT !.at = "severity", !.case = case]]
    /\ queue' = Append(queue, NewJob(c, "severity"))
    /\ future' = [future EXCEPT ![c] = "pending"]
    /\ record' = [record EXCEPT ![c] = <<>>]
    /\ UNCHANGED <<running, slow, hung>>

\* The output of the model the client waits for, and the next call.
Receives(c, output) ==
    LET m == request[c].at
        next == Following[m]
        a == request[c].a
        b == CASE m = "severity" -> [a EXCEPT !.sev = output]
               [] m = "traffic"  -> [a EXCEPT !.traffic = output]
               [] m = "anomaly"  -> [a EXCEPT !.anomaly = output]
        rest == [k \in DOMAIN queue |->
                    IF IsOf(queue[k], c) THEN Abandoned(queue[k]) ELSE queue[k]]
    IN  /\ request' = [request EXCEPT ![c].at = next, ![c].a = b]
        /\ running' = [w \in Workers |->
                          IF IsOf(running[w], c) THEN Abandoned(running[w]) ELSE running[w]]
        /\ IF next = "laya"
           THEN queue' = rest /\ future' = [future EXCEPT ![c] = "none"]
           ELSE /\ queue' = Append(rest, NewJob(c, next))
                /\ future' = [future EXCEPT ![c] = "pending"]
        /\ UNCHANGED <<slow, hung, record>>

\* future.result returns, or raises what the model raised.
Receive(c) ==
    /\ Waits(c)
    /\ \/ /\ future[c] = "ok"
          /\ \E raw \in Raw[request[c].at] :
                 Receives(c, Output(request[c].at, request[c].case, raw))
       \/ future[c] = "raised" /\ Receives(c, FailedOutput(request[c].at))

\* A prediction takes milliseconds of its half second: a call is late only
\* while its job hangs on a worker, or all workers hang and it is queued.
Late(c) == \/ \E w \in hung : IsOf(running[w], c)
           \/ (\E k \in DOMAIN queue : IsOf(queue[k], c)) /\ hung = Workers

\* Broken: only a job that was taken has a deadline.
TimeOutTaken(c) ==
    /\ Waits(c) /\ future[c] = "pending" /\ \E w \in hung : IsOf(running[w], c)
    /\ Receives(c, FailedOutput(request[c].at))

\* FuturesTimeout: the caller goes on, the job stays.
TimeOut(c) ==
    /\ Waits(c) /\ future[c] = "pending" /\ Late(c)
    /\ Receives(c, FailedOutput(request[c].at))

Take(w) ==
    /\ running[w] = NoJob /\ queue # <<>>
    /\ running' = [running EXCEPT ![w] = Head(queue)]
    /\ queue' = Tail(queue)
    /\ hung' = IF Head(queue).model \in slow THEN hung \cup {w} ELSE hung
    /\ UNCHANGED <<request, future, slow, record>>

\* Broken: the worker of an abandoned job is not given back.
EndForWaiting(w) ==
    /\ running[w] # NoJob /\ running[w].live
    /\ running' = [running EXCEPT ![w] = NoJob]
    /\ \E outcome \in {"ok", "raised"} :
           future' = [future EXCEPT ![running[w].client] = outcome]
    /\ hung' = hung \ {w}
    /\ UNCHANGED <<request, queue, slow, record>>

\* The prediction ends, well or with an exception; nobody may be waiting.
End(w) ==
    /\ running[w] # NoJob
    /\ running' = [running EXCEPT ![w] = NoJob]
    /\ \E outcome \in {"ok", "raised"} :
           future' = IF running[w].live
                     THEN [future EXCEPT ![running[w].client] = outcome] ELSE future
    /\ hung' = hung \ {w}
    /\ UNCHANGED <<request, queue, slow, record>>

\* Laya is asked in the adapter's mode, and the policy decides.
Advise(c) ==
    /\ At(c, "laya")
    /\ \E free \in SUBSET Units, mode \in Modes :
       \E advice \in IF mode = "live" THEN {NoAdvice} \cup {AdviceOf(r) : r \in LiveResults}
                     ELSE {AdviceOf(MockAnswers(StateOf(request[c].case.type, request[c].a,
                              Cardinality(OfType(free, "AMBULANCE")))))} :
           LET case == request[c].case
               a    == [request[c].a EXCEPT !.laya = advice]
               asked == [hard |-> case.hard, type |-> case.type, zone |-> case.zone,
                         a |-> a, position |-> "RESPONSE_TIME"]
           IN  /\ record' = [record EXCEPT ![c] = <<Decide(asked, free)>>]
               /\ request' = [request EXCEPT ![c].at = "idle", ![c].a = a]
    /\ UNCHANGED <<future, queue, running, slow, hung>>

\* A model begins to hang, or recovers.
SpeedChanges ==
    /\ \E m \in ModelNames : slow' = IF m \in slow THEN slow \ {m} ELSE slow \cup {m}
    /\ UNCHANGED <<request, future, queue, running, hung, record>>

Next == \/ \E c \in Clients : Begin(c) \/ Receive(c) \/ TimeOut(c) \/ Advise(c)
        \/ \E w \in Workers : Take(w) \/ End(w)
        \/ SpeedChanges

Spec == Init /\ [][Next]_vars

\* Server threads and the pool's threads run; a prediction ends, one that
\* hangs not before its model recovers, which it need not.
Hangs(w) == w \in hung /\ running[w].model \in slow
Fair == /\ \A c \in Clients : WF_vars(Receive(c) \/ TimeOut(c) \/ Advise(c))
        /\ WF_vars(\E w \in Workers : Take(w))
        /\ \A w \in Workers : WF_vars(End(w) /\ ~Hangs(w))

FairSpec == Spec /\ Fair

-----------------------------------------------------------------------------
(* Properties.                                                             *)

Jobs(c) == Cardinality({k \in DOMAIN queue : IsOf(queue[k], c)})
           + Cardinality({w \in Workers : IsOf(running[w], c)})

(* The state is well typed, and an answer reaches the call it was computed *)
(* for: a client that waits has one unfinished job, for the model it waits *)
(* for, and any other client none; what late jobs bring is lost.           *)
EachCallHasItsJob ==
    /\ \A c \in Clients :
          /\ request[c].at \in ModelNames \cup {"idle", "laya"}
          /\ request[c].case \in Cases /\ request[c].a \in Assessment
          /\ Jobs(c) = Bit(Waits(c) /\ future[c] = "pending")
    /\ \A j \in Range(queue) \cup Range(running) :
          j # NoJob => j \in Job /\ (j.live => At(j.client, j.model))

(* A unit moves without a human only on the word of three models, over     *)
(* reports that agree with each other and carry no injected data, whatever *)
(* hung, raised or came late on the way; Laya's word counts only with half *)
(* the mass of a proper distribution behind it (Invariants 2, 4 and 12).   *)
DispatchRestsOnEvidence ==
    \A c \in Clients :
        record[c] # <<>> /\ record[c][1].units # <<>> =>
            LET case == request[c].case
                a == request[c].a
            IN  /\ a.sev.ok /\ a.traffic.ok /\ ~a.anomaly.failed
                /\ ~case.hard /\ ~case.contradicted /\ ~case.injected
                /\ a.laya.ok => a.laya.conf >= AnswerGate

(* Whatever hangs, and for ever, every decision asked for is made: the     *)
(* deadlines of wrapper.py stand between a server thread and the models.   *)
EveryDecisionIsMade == \A c \in Clients : ~At(c, "idle") ~> At(c, "idle")

(* Once the models answer in time again the jobs left behind are worked    *)
(* off and no later call is given up.                                      *)
BacklogDrains ==
    <>[](slow = {}) => <>[](\A j \in Range(queue) \cup Range(running) : j = NoJob \/ j.live)

(* wrapper.py:1 promises "error containment": a model that does not hang   *)
(* is not given up.                                                        *)
HungModelIsContained ==
    [][\A c \in Clients : TimeOut(c) => request[c].at \in slow]_vars

=============================================================================
