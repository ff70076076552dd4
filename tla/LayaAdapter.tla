----------------------------- MODULE LayaAdapter -----------------------------
(***************************************************************************)
(* laya_adapter/adapter.py, the LIVE path: requests ask the adapter the     *)
(* engine holds at that moment; a circuit breaker lets the call through or *)
(* not; each of at most MaxAttempts attempts predicts on a thread of its   *)
(* own and waits for it until a deadline; a thread that misses it goes on  *)
(* running.  A mode switch or a session start replaces the adapter under   *)
(* the calls in flight.                                                    *)
(*                                                                         *)
(* The two methods of the breaker are one step each: neither calls         *)
(* anything nor loops, so CPython (pyproject.toml: 3.11 or later) does not *)
(* switch threads inside them.                                             *)
(***************************************************************************)
EXTENDS Integers, FiniteSets

CONSTANTS
    Callers,      \* requests that decide, each in a server thread
    States,       \* what Laya may be asked about
    Threads,      \* prediction threads alive at a time (bound of the model)
    Threshold,    \* LIVE_BREAKER_THRESHOLD
    ProbeEvery,   \* LIVE_BREAKER_PROBE_EVERY
    MaxAttempts,  \* LIVE_MAX_ATTEMPTS
    MaxAdapters,  \* adapters built in a behaviour (bound of the model)
    MaxBlocked,   \* blocked calls per adapter (bound of the model)
    None

\* LayaStatus and error_code of an answer: a reading, live_timeout,
\* live_error, circuit_open, raw_extract_failed.
Outcomes == {"ok", "timeout", "error", "open", "invalid"}

ASSUME LayaAssumption ==
    /\ {Threshold, ProbeEvery, MaxAttempts, MaxAdapters} \subseteq Nat \ {0}
    /\ MaxBlocked \in Nat
    /\ None \notin Threads \cup States \cup Outcomes
    /\ IsFiniteSet(Callers)

VARIABLES
    current,   \* engine.adapter
    mode,      \* its mode
    failures,  \* _live_failures of every adapter
    blocked,   \* _live_blocked of every adapter
    call,      \* what every caller is doing
    thread,    \* the prediction threads and their boxes
    agent,     \* _LIVE_AGENT holds the loaded model
    service    \* how the model behaves (environment)

adapters == <<current, mode, failures, blocked>>
vars == <<adapters, call, thread, agent, service>>

Adapters == 1..MaxAdapters

Call == [at: {"idle", "asked", "attempt", "waiting", "record"},
         with: Adapters,                \* self
         state: States \cup {None},
         tries: 0..MaxAttempts,         \* attempts that are over
         box: Threads \cup {None},      \* the thread it waits for
         result: Outcomes \cup {None},
         about: States \cup {None}]     \* the state the result describes

Thread == [at: {"none", "begun", "loading", "predicting", "done"},
           state: States \cup {None},
           result: {"ok", "error", None}]

NoCall == [at |-> "idle", with |-> 1, state |-> None, tries |-> 0,
           box |-> None, result |-> None, about |-> None]
NoThread == [at |-> "none", state |-> None, result |-> None]

\* build_engine takes the mode of the first adapter.
Init == /\ current = 1 /\ mode \in {"live", "mock"}
        /\ failures = [a \in Adapters |-> 0]
        /\ blocked = [a \in Adapters |-> 0]
        /\ call = [c \in Callers |-> NoCall]
        /\ thread = [t \in Threads |-> NoThread]
        /\ agent = FALSE
        /\ service \in {"up", "failing", "slow"}

At(c, place) == call[c].at = place
Busy == {c \in Callers : ~At(c, "idle")}
Free == {t \in Threads : thread[t].at = "none"}
Open(a) == failures[a] >= Threshold

-----------------------------------------------------------------------------
(* A call of ask() in LIVE mode. The other modes answer at once.           *)

\* The bounds of the model leave every call under way its threads and its
\* place in the count of blocked calls.
RoomToAsk == /\ Cardinality(Free) >= MaxAttempts * (Cardinality(Busy) + 1)
             /\ blocked[current] + Cardinality(Busy) < MaxBlocked

Asked(s) == [at |-> "asked", with |-> current, state |-> s, tries |-> 0,
             box |-> None, result |-> None, about |-> None]

Ask(c, s) ==
    /\ At(c, "idle") /\ mode = "live" /\ RoomToAsk
    /\ call' = [call EXCEPT ![c] = Asked(s)]
    /\ UNCHANGED <<adapters, thread, agent, service>>

\* What is left of a call that returned: its answer.
Answered(this, outcome) == [this EXCEPT !.at = "idle", !.with = 1, !.result = outcome]

\* Broken: once enough calls were blocked, every one is a probe.
ProbesAlways(n) == n >= ProbeEvery

Probes(n) == n % ProbeEvery = 0

\* _breaker_allows, and the answer circuit_open if it does not.
Admit(c) ==
    LET a == call[c].with  n == blocked[a] + 1 IN
    /\ At(c, "asked")
    /\ blocked' = [blocked EXCEPT ![a] = IF Open(a) THEN n ELSE @]
    /\ call' = [call EXCEPT ![c] = IF ~Open(a) \/ Probes(n)
                                   THEN [@ EXCEPT !.at = "attempt"]
                                   ELSE Answered(@, "open")]
    /\ UNCHANGED <<current, mode, failures, thread, agent, service>>

\* Broken: an attempt joins a prediction that still runs.
StartAttemptShared(c) ==
    /\ At(c, "attempt")
    /\ \E t \in Threads :
        /\ IF Free = Threads THEN t \in Free ELSE t \notin Free
        /\ call' = [call EXCEPT ![c].at = "waiting", ![c].box = t]
        /\ thread' = [thread EXCEPT ![t] = IF @.at # "none" THEN @
                                           ELSE [NoThread EXCEPT !.at = "begun",
                                                                 !.state = call[c].state]]
    /\ UNCHANGED <<adapters, agent, service>>

\* _live_call up to the wait: a new box, a new thread.
StartAttempt(c) ==
    /\ At(c, "attempt")
    /\ \E t \in Free :
        /\ call' = [call EXCEPT ![c].at = "waiting", ![c].box = t]
        /\ thread' = [thread EXCEPT ![t] = [NoThread EXCEPT !.at = "begun",
                                                            !.state = call[c].state]]
    /\ UNCHANGED <<adapters, agent, service>>

\* Broken: one attempt too many.
TimeOutOnceMore(c) ==
    /\ At(c, "waiting") /\ service = "slow"
    /\ thread[call[c].box].at # "done"
    /\ LET tries == call[c].tries + 1 IN
       call' = [call EXCEPT ![c] =
                  IF tries <= MaxAttempts
                  THEN [@ EXCEPT !.at = "attempt", !.tries = tries, !.box = None]
                  ELSE [@ EXCEPT !.at = "record", !.tries = tries, !.box = None,
                                 !.result = "timeout"]]
    /\ UNCHANGED <<adapters, thread, agent, service>>

\* Broken: the attempts are not counted.
TimeOutUncounted(c) ==
    /\ At(c, "waiting") /\ service = "slow"
    /\ thread[call[c].box].at # "done"
    /\ call' = [call EXCEPT ![c].at = "attempt", ![c].box = None]
    /\ UNCHANGED <<adapters, thread, agent, service>>

\* done.wait ran into its deadline; the thread is left behind.
TimeOut(c) ==
    /\ At(c, "waiting") /\ service = "slow"
    /\ thread[call[c].box].at # "done"
    /\ LET tries == call[c].tries + 1 IN
       call' = [call EXCEPT ![c] =
                  IF tries < MaxAttempts
                  THEN [@ EXCEPT !.at = "attempt", !.tries = tries, !.box = None]
                  ELSE [@ EXCEPT !.at = "record", !.tries = tries, !.box = None,
                                 !.result = "timeout"]]
    /\ UNCHANGED <<adapters, thread, agent, service>>

\* The thread was done in time: its result, or its error and no retry.
Take(c) ==
    /\ At(c, "waiting")
    /\ LET t == call[c].box IN
       /\ thread[t].at = "done"
       /\ call' = [call EXCEPT ![c] = [@ EXCEPT !.at = "record", !.tries = call[c].tries + 1,
                                                !.box = None,
                                                !.result = thread[t].result,
                                                !.about = thread[t].state]]
       /\ thread' = [thread EXCEPT ![t] = NoThread]
    /\ UNCHANGED <<adapters, agent, service>>

\* Broken: a success leaves the failures standing.
RecordedKeepsFailures(c, ok) ==
    LET a == call[c].with IN
    /\ failures' = [failures EXCEPT ![a] = IF ok THEN @ ELSE @ + 1]
    /\ blocked' = [blocked EXCEPT ![a] = IF ok THEN 0 ELSE @]

\* _breaker_record.
Recorded(c, ok) ==
    LET a == call[c].with IN
    /\ failures' = [failures EXCEPT ![a] = IF ok THEN 0 ELSE @ + 1]
    /\ blocked' = [blocked EXCEPT ![a] = IF ok THEN 0 ELSE @]

\* The breaker counts the call, and a result is read: to_raw finds answers
\* in it or does not.
Record(c) ==
    LET ok == call[c].result = "ok" IN
    /\ At(c, "record")
    /\ Recorded(c, ok)
    /\ \E outcome \in IF ok THEN {"ok", "invalid"} ELSE {call[c].result} :
          call' = [call EXCEPT ![c] = Answered(@, outcome)]
    /\ UNCHANGED <<current, mode, thread, agent, service>>

-----------------------------------------------------------------------------
(* A prediction thread: _run and _live_agent.                              *)

\* Is the model loaded?
Begin(t) ==
    /\ thread[t].at = "begun"
    /\ thread' = [thread EXCEPT ![t].at = IF agent THEN "predicting" ELSE "loading"]
    /\ UNCHANGED <<adapters, call, agent, service>>

Load(t) ==
    /\ thread[t].at = "loading" /\ service # "failing"
    /\ agent' = TRUE
    /\ thread' = [thread EXCEPT ![t].at = "predicting"]
    /\ UNCHANGED <<adapters, call, service>>

\* The box of a thread nobody waits for goes with it.
Ended(t, result) ==
    thread' = [thread EXCEPT ![t] = IF \E c \in Callers : call[c].box = t
                                    THEN [@ EXCEPT !.at = "done", !.result = result]
                                    ELSE NoThread]

Predict(t) ==
    /\ thread[t].at = "predicting" /\ service # "failing"
    /\ Ended(t, "ok")
    /\ UNCHANGED <<adapters, call, agent, service>>

\* laya.load or agent.predict raises.
Raise(t) ==
    /\ thread[t].at \in {"loading", "predicting"} /\ service = "failing"
    /\ Ended(t, "error")
    /\ UNCHANGED <<adapters, call, agent, service>>

Run(t) == Begin(t) \/ Load(t) \/ Predict(t) \/ Raise(t)

-----------------------------------------------------------------------------
(* The engine's adapter is replaced, and the model's fortunes change.      *)

\* A new LayaAdapter: closed breaker, counters at zero.
Replaced == /\ current < MaxAdapters
            /\ current' = current + 1
            /\ UNCHANGED <<failures, blocked, call, thread, agent, service>>

\* POST /api/simulation/laya-mode, for another mode.
SwitchMode == /\ mode' = IF mode = "live" THEN "mock" ELSE "live"
              /\ Replaced

\* POST /api/simulation/start.
StartSession == mode' = mode /\ Replaced

ServiceChange == /\ service' \in {"up", "failing", "slow"} \ {service}
                 /\ UNCHANGED <<adapters, call, thread, agent>>

Next == \/ \E c \in Callers : \/ \E s \in States : Ask(c, s)
                              \/ Admit(c) \/ StartAttempt(c)
                              \/ TimeOut(c) \/ Take(c) \/ Record(c)
        \/ \E t \in Threads : Run(t)
        \/ SwitchMode \/ StartSession \/ ServiceChange

Spec == Init /\ [][Next]_vars

\* A server thread runs on; a deadline passes however the model behaves, so
\* a service that is slow again and again lets it pass; a prediction thread
\* comes to its end unless the model hangs.  Nobody has to ask, and nothing
\* makes a slow model fast.
Fairness ==
    /\ \A c \in Callers : /\ WF_vars(Admit(c)) /\ WF_vars(StartAttempt(c))
                          /\ WF_vars(Take(c)) /\ WF_vars(Record(c))
                          /\ SF_vars(TimeOut(c))
    /\ \A t \in Threads : WF_vars(service # "slow" /\ Run(t))

FairSpec == Spec /\ Fairness
=============================================================================
