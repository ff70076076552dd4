-------------------------- MODULE LayaTrustProofs --------------------------
(***************************************************************************)
(* Proofs about two services of the engine that share nothing: the LIVE    *)
(* path of the Laya adapter, for any number of callers, threads and        *)
(* adapters and any constants of breaker and retry, and the trust          *)
(* registry, for any sources, floods and clocks.                           *)
(*                                                                         *)
(* Of the registry, typing holds for any number of clients.  What it may   *)
(* conclude of a source holds when requests do not overlap and every new   *)
(* session has a registry of its own (Serial), and rests on TrustInv: the  *)
(* reports observed are the first ones of the session, what is unheard is  *)
(* one incident, and a call of observe() that is on its way has all of it  *)
(* before it.                                                              *)
(***************************************************************************)
EXTENDS LayaProperties, Trust, SequenceTheorems, FiniteSetTheorems, NaturalsInduction,
        WellFoundedInduction, TLAPS

-----------------------------------------------------------------------------
(* The Laya adapter *)

\* A caller waits for a thread of its own, which works on its state; its
\* attempts are not used up; a result it holds came from that thread.
CallInv(c) ==
    LET k == call[c] IN
    /\ k.at \in {"attempt", "waiting"} => k.tries < MaxAttempts
    /\ k.at \in {"asked", "attempt", "waiting"} => k.result = None
    /\ k.at = "asked" => k.tries = 0
    /\ k.at # "idle" => k.state \in States
    /\ k.at = "record" => k.result \in {"ok", "error", "timeout"}
    /\ k.at # "waiting" => k.box = None
    /\ k.at = "waiting" => /\ k.box \in Threads
                           /\ thread[k.box].at # "none"
                           /\ thread[k.box].state = k.state
    /\ k.result = "ok" => k.about = k.state

NoSharing == \A c, d \in Callers :
                call[c].box = call[d].box /\ call[c].box # None => c = d

ResultInv == \A t \in Threads :
                thread[t].at = "done" => thread[t].result \in {"ok", "error"}

LInv == LayaTypeOK /\ (\A c \in Callers : CallInv(c)) /\ NoSharing /\ ResultInv

LEMMA Constants ==
    /\ Threshold \in Nat \ {0} /\ ProbeEvery \in Nat \ {0}
    /\ MaxAttempts \in Nat \ {0} /\ MaxAdapters \in Nat \ {0}
    /\ None \notin Threads /\ None \notin States /\ None # "ok"
    /\ 1 \in Adapters
BY LayaAssumption DEF LayaAssumption, Adapters, Outcomes

LEMMA InitInv == Init => LInv
<1> SUFFICES ASSUME Init PROVE LInv
  OBVIOUS
<1> USE Constants DEF Init
<1>1. LayaTypeOK
  <2>1. NoCall \in Call
    BY DEF NoCall, Call
  <2>2. NoThread \in Thread
    BY DEF NoThread, Thread
  <2>3. mode \in {"live", "mock"} /\ service \in {"up", "failing", "slow"}
    OBVIOUS
  <2>4. /\ current \in Adapters /\ agent \in BOOLEAN
        /\ failures \in [Adapters -> Nat] /\ blocked \in [Adapters -> Nat]
    OBVIOUS
  <2>5. call \in [Callers -> Call] /\ thread \in [Threads -> Thread]
    BY <2>1, <2>2
  <2> QED BY <2>3, <2>4, <2>5 DEF LayaTypeOK
<1>2. ASSUME NEW c \in Callers PROVE CallInv(c)
  BY DEF CallInv, NoCall
<1>3. NoSharing /\ ResultInv
  BY DEF NoSharing, ResultInv, NoCall, NoThread
<1> QED BY <1>1, <1>2, <1>3 DEF LInv

LEMMA StepInv == LInv /\ [Next]_vars => LInv'
<1> SUFFICES ASSUME LInv, [Next]_vars PROVE LInv'
  OBVIOUS
<1> USE Constants DEF LInv
<1>1. ASSUME NEW c \in Callers, NEW s \in States, Ask(c, s) PROVE LInv'
  <2> USE <1>1 DEF Ask, Asked, adapters
  <2>1. LayaTypeOK'
    <3>1. Asked(s) \in Call
      <4>1. current \in Adapters /\ 0 \in 0..MaxAttempts
        BY DEF LayaTypeOK
      <4> QED BY <4>1 DEF Call
    <3>2. call' \in [Callers -> Call]
      BY <3>1 DEF LayaTypeOK
    <3> QED BY <3>2 DEF LayaTypeOK
  <2>2. ASSUME NEW d \in Callers PROVE CallInv(d)'
    BY DEF LayaTypeOK, CallInv
  <2>3. NoSharing'
    <3>1. call'[c].box = None /\ \A d \in Callers \ {c} : call'[d] = call[d]
      BY DEF LayaTypeOK
    <3> QED BY <3>1 DEF NoSharing
  <2>4. ResultInv'
    BY DEF ResultInv
  <2> QED BY <2>1, <2>2, <2>3, <2>4
<1>2. ASSUME NEW c \in Callers, Admit(c) PROVE LInv'
  <2> USE <1>2 DEF Admit, At, Answered
  <2>0. call[c] \in Call /\ call[c].with \in Adapters /\ CallInv(c)
    BY DEF LayaTypeOK, Call
  <2>1. LayaTypeOK'
    <3>1. call' \in [Callers -> Call]
      BY <2>0 DEF LayaTypeOK, Call, Outcomes
    <3>2. blocked' \in [Adapters -> Nat]
      BY <2>0 DEF LayaTypeOK
    <3> QED BY <3>1, <3>2 DEF LayaTypeOK
  <2>2. ASSUME NEW d \in Callers PROVE CallInv(d)'
    BY <2>0 DEF LayaTypeOK, CallInv, Call
  <2>3. NoSharing' /\ ResultInv'
    BY DEF LayaTypeOK, NoSharing, ResultInv, Call
  <2> QED BY <2>1, <2>2, <2>3
<1>3. ASSUME NEW c \in Callers, StartAttempt(c) PROVE LInv'
  <2> PICK t \in Free :
        /\ call' = [call EXCEPT ![c].at = "waiting", ![c].box = t]
        /\ thread' = [thread EXCEPT ![t] = [NoThread EXCEPT !.at = "begun",
                                                            !.state = call[c].state]]
    BY <1>3 DEF StartAttempt
  <2> USE <1>3 DEF StartAttempt, At, Free
  <2>0. call[c] \in Call /\ CallInv(c) /\ t \in Threads /\ thread[t].at = "none"
    BY DEF LayaTypeOK
  <2>1. LayaTypeOK'
    BY <2>0 DEF LayaTypeOK, Call, Thread, NoThread, CallInv, adapters
  <2>2. ASSUME NEW d \in Callers PROVE CallInv(d)'
    BY <2>0 DEF LayaTypeOK, CallInv, Call, Thread, NoThread
  <2>3. NoSharing'
    BY <2>0 DEF LayaTypeOK, NoSharing, CallInv, Call
  <2>4. ResultInv'
    BY <2>0 DEF LayaTypeOK, ResultInv, NoThread
  <2> QED BY <2>1, <2>2, <2>3, <2>4
<1>4. ASSUME NEW c \in Callers, TimeOut(c) PROVE LInv'
  <2> USE <1>4 DEF TimeOut, At
  <2>0. call[c] \in Call /\ CallInv(c)
    BY DEF LayaTypeOK
  <2>1. LayaTypeOK'
    <3> DEFINE tries == call[c].tries + 1
    <3>1. call[c].tries \in 0..MaxAttempts /\ call[c].tries < MaxAttempts
      BY <2>0 DEF Call, CallInv
    <3>2. tries \in 0..MaxAttempts
      BY <3>1
    <3>3. call'[c] \in Call
      BY <2>0, <3>2 DEF LayaTypeOK, Call, Outcomes
    <3>4. call' \in [Callers -> Call]
      BY <3>3 DEF LayaTypeOK
    <3> QED BY <3>4 DEF LayaTypeOK, adapters
  <2>2. ASSUME NEW d \in Callers PROVE CallInv(d)'
    BY <2>0 DEF LayaTypeOK, CallInv, Call
  <2>3. NoSharing' /\ ResultInv'
    BY <2>0 DEF LayaTypeOK, NoSharing, ResultInv, Call
  <2> QED BY <2>1, <2>2, <2>3
<1>5. ASSUME NEW c \in Callers, Take(c) PROVE LInv'
  <2> DEFINE t == call[c].box
  <2> USE <1>5 DEF Take, At
  <2>0. call[c] \in Call /\ CallInv(c) /\ t \in Threads
        /\ thread[t].at = "done" /\ thread[t].result \in {"ok", "error"}
        /\ thread[t].state = call[c].state /\ thread[t] \in Thread
    BY DEF LayaTypeOK, CallInv, ResultInv
  <2>1. LayaTypeOK'
    <3>1. call[c].tries \in 0..MaxAttempts /\ call[c].tries < MaxAttempts
      BY <2>0 DEF Call, CallInv
    <3>2. call[c].tries + 1 \in 0..MaxAttempts
      BY <3>1
    <3>3. call'[c] \in Call
      BY <2>0, <3>2 DEF LayaTypeOK, Call, Thread, Outcomes
    <3>4. call' \in [Callers -> Call]
      BY <3>3 DEF LayaTypeOK
    <3>5. thread' \in [Threads -> Thread]
      BY <2>0 DEF LayaTypeOK, Thread, NoThread
    <3> QED BY <3>4, <3>5 DEF LayaTypeOK, adapters
  <2>2. ASSUME NEW d \in Callers PROVE CallInv(d)'
    BY <2>0 DEF LayaTypeOK, CallInv, Call, NoSharing
  <2>3. NoSharing' /\ ResultInv'
    BY <2>0 DEF LayaTypeOK, NoSharing, ResultInv, Call, NoThread
  <2> QED BY <2>1, <2>2, <2>3
<1>6. ASSUME NEW c \in Callers, Record(c) PROVE LInv'
  <2> DEFINE ok == call[c].result = "ok"
  <2> PICK outcome \in IF ok THEN {"ok", "invalid"} ELSE {call[c].result} :
          call' = [call EXCEPT ![c] = Answered(@, outcome)]
    BY <1>6 DEF Record
  <2> USE <1>6 DEF Record, At, Answered, Recorded
  <2>0. call[c] \in Call /\ CallInv(c) /\ call[c].with \in Adapters
        /\ outcome \in Outcomes /\ (outcome = "ok" => ok)
    BY DEF LayaTypeOK, CallInv, Call, Outcomes
  <2>1. LayaTypeOK'
    <3>1. call' \in [Callers -> Call]
      BY <2>0 DEF LayaTypeOK, Call
    <3>2. failures' \in [Adapters -> Nat] /\ blocked' \in [Adapters -> Nat]
      BY <2>0 DEF LayaTypeOK
    <3> QED BY <3>1, <3>2 DEF LayaTypeOK
  <2>2. ASSUME NEW d \in Callers PROVE CallInv(d)'
    BY <2>0 DEF LayaTypeOK, CallInv, Call
  <2>3. NoSharing' /\ ResultInv'
    BY <2>0 DEF LayaTypeOK, NoSharing, ResultInv, Call
  <2> QED BY <2>1, <2>2, <2>3
<1>7. ASSUME NEW t \in Threads, Run(t) PROVE LInv'
  <2> USE DEF adapters
  <2>0. thread[t] \in Thread /\ thread[t].at # "none"
    BY <1>7 DEF LayaTypeOK, Run, Begin, Load, Predict, Raise
  <2>1. ASSUME NEW p \in {"loading", "predicting"}, agent' \in BOOLEAN,
               thread' = [thread EXCEPT ![t].at = p],
               UNCHANGED <<adapters, call, service>>
        PROVE LInv'
    <3> USE <2>0, <2>1
    <3>1. LayaTypeOK'
      <4>1. thread' \in [Threads -> Thread]
        BY DEF LayaTypeOK, Thread
      <4> QED BY <4>1 DEF LayaTypeOK
    <3>2. ASSUME NEW d \in Callers PROVE CallInv(d)'
      BY DEF LayaTypeOK, CallInv, Thread
    <3>3. NoSharing' /\ ResultInv'
      BY DEF LayaTypeOK, NoSharing, ResultInv, Thread
    <3> QED BY <3>1, <3>2, <3>3
  <2>3. CASE Begin(t)
    <3>1. PICK p \in {"loading", "predicting"} : thread' = [thread EXCEPT ![t].at = p]
      BY <2>3 DEF Begin
    <3> QED BY <2>1, <2>3, <3>1 DEF Begin, LayaTypeOK
  <2>4. CASE Load(t)
    BY <2>1, <2>4 DEF Load
  <2>2. ASSUME NEW r \in {"ok", "error"}, Ended(t, r),
               UNCHANGED <<adapters, call, agent, service>>
        PROVE LInv'
    <3> USE <2>0, <2>2 DEF Ended
    <3>1. LayaTypeOK'
      BY DEF LayaTypeOK, Thread, NoThread
    <3>2. ASSUME NEW d \in Callers PROVE CallInv(d)'
      BY DEF LayaTypeOK, CallInv, Thread
    <3>3. NoSharing' /\ ResultInv'
      BY DEF LayaTypeOK, NoSharing, ResultInv, Thread, NoThread
    <3> QED BY <3>1, <3>2, <3>3
  <2> QED BY <1>7, <2>2, <2>3, <2>4 DEF Run, Predict, Raise
<1>8. CASE SwitchMode \/ StartSession \/ ServiceChange
  <2> USE <1>8 DEF SwitchMode, StartSession, Replaced, ServiceChange, adapters
  <2>1. LayaTypeOK'
    BY DEF LayaTypeOK, Adapters
  <2>2. ASSUME NEW d \in Callers PROVE CallInv(d)'
    BY DEF CallInv
  <2>3. NoSharing' /\ ResultInv'
    BY DEF NoSharing, ResultInv
  <2> QED BY <2>1, <2>2, <2>3
<1>9. CASE UNCHANGED vars
  BY <1>9 DEF vars, adapters, LayaTypeOK, CallInv, NoSharing, ResultInv
<1> QED BY <1>1, <1>2, <1>3, <1>4, <1>5, <1>6, <1>7, <1>8, <1>9 DEF Next

\* The strengthened invariant of the LIVE path.
THEOREM LayaInvariant == Spec => []LInv
BY InitInv, StepInv, PTL DEF Spec

\* Every state of the adapter, its calls and its threads is well typed.
THEOREM LayaTypeCorrect == Spec => []LayaTypeOK
<1>1. LInv => LayaTypeOK
  BY DEF LInv
<1> QED BY <1>1, LayaInvariant, PTL

\* A reading is about the state its call asked about, however many threads of
\* earlier attempts are still running (_live_call).
THEOREM AnswersItsOwnStateHolds == Spec => []AnswersItsOwnState
<1>1. LInv => AnswersItsOwnState
  BY DEF LInv, CallInv, AnswersItsOwnState
<1> QED BY <1>1, LayaInvariant, PTL

-----------------------------------------------------------------------------
(* The price of an open breaker.                                           *)

LEMMA Division ==
    ASSUME NEW n \in Nat
    PROVE  /\ n \div ProbeEvery \in Nat
           /\ (n + 1) \div ProbeEvery >= n \div ProbeEvery
           /\ Probes(n + 1) => (n + 1) \div ProbeEvery = n \div ProbeEvery + 1
BY Constants DEF Probes

\* A call enters or leaves the calls in flight of its adapter.
LEMMA FlightSize ==
    ASSUME NEW a \in Adapters
    PROVE  /\ IsFiniteSet(InFlight(a))
           /\ Cardinality(InFlight(a)) \in Nat
           /\ Cardinality(InFlight(a)) <= Cardinality(Callers)
           /\ Cardinality(Callers) \in Nat
<1>1. IsFiniteSet(Callers) /\ InFlight(a) \subseteq Callers
  BY LayaAssumption DEF LayaAssumption, InFlight
<1> QED BY <1>1, FS_Subset, FS_CardinalityType

\* The invariant of the breaker, one adapter at a time.
Paid(a) == failures[a] + Cardinality(InFlight(a))
             <= Threshold + Cardinality(Callers) - 1 + blocked[a] \div ProbeEvery

LEMMA PaidStart == Init => FailuresArePaid
<1> SUFFICES ASSUME Init, NEW a \in Adapters PROVE Paid(a)
  BY DEF FailuresArePaid, Paid
<1>1. InFlight(a) = {} /\ failures[a] = 0 /\ blocked[a] = 0
  BY DEF Init, InFlight, NoCall
<1>2. Cardinality({}) = 0
  BY FS_EmptySet
<1>3. 0 \div ProbeEvery \in Nat
  BY Division
<1> QED BY <1>1, <1>2, <1>3, Constants, FlightSize DEF Paid

LEMMA PaidStep == LInv /\ FailuresArePaid /\ [Next]_vars => FailuresArePaid'
<1> SUFFICES ASSUME LInv, FailuresArePaid, [Next]_vars, NEW a \in Adapters
             PROVE  Paid(a)'
  BY DEF FailuresArePaid, Paid
<1>0. /\ Paid(a) /\ failures[a] \in Nat /\ blocked[a] \in Nat
      /\ failures \in [Adapters -> Nat] /\ blocked \in [Adapters -> Nat]
      /\ call \in [Callers -> Call]
  BY DEF FailuresArePaid, Paid, LInv, LayaTypeOK
<1>s. /\ IsFiniteSet(InFlight(a)) /\ Cardinality(InFlight(a)) \in Nat
      /\ IsFiniteSet(InFlight(a)') /\ Cardinality(InFlight(a)') \in Nat
      /\ Cardinality(InFlight(a)') <= Cardinality(Callers)
      /\ Cardinality(Callers) \in Nat
  <2>1. IsFiniteSet(Callers) /\ InFlight(a)' \subseteq Callers
    BY LayaAssumption DEF LayaAssumption, InFlight
  <2> QED BY <2>1, FlightSize, FS_Subset, FS_CardinalityType
\* Steps that leave the counters and the calls in flight alone.
<1>1. ASSUME failures' = failures, blocked' = blocked, InFlight(a)' = InFlight(a)
      PROVE  Paid(a)'
  BY <1>0, <1>1 DEF Paid
<1>2. ASSUME NEW c \in Callers, Admit(c) PROVE Paid(a)'
  <2> DEFINE n == blocked[a] + 1
  <2>1. CASE call[c].with # a
    <3>1. InFlight(a)' = InFlight(a)
      BY <1>0, <1>2, <2>1 DEF Admit, InFlight, At, Answered
    <3>2. failures'[a] = failures[a] /\ blocked'[a] = blocked[a]
      BY <1>0, <1>2, <2>1 DEF Admit
    <3> QED BY <1>0, <3>1, <3>2 DEF Paid
  <2>2. CASE call[c].with = a /\ ~Open(a)
    <3>1. failures'[a] = failures[a] /\ blocked'[a] = blocked[a] /\ failures[a] < Threshold
      BY <1>0, <1>2, <2>2, Constants DEF Admit, Open
    <3>2. blocked[a] \div ProbeEvery \in Nat
      BY <1>0, Division
    <3> QED BY <1>0, <1>s, <3>1, <3>2, Constants DEF Paid
  <2>3. CASE call[c].with = a /\ Open(a)
    <3>1. failures'[a] = failures[a] /\ blocked'[a] = n
      BY <1>0, <1>2, <2>3 DEF Admit
    <3>2. CASE Probes(n)
      <4>1. InFlight(a)' = InFlight(a) \cup {c} /\ c \notin InFlight(a)
        BY <1>0, <1>2, <2>3, <3>2 DEF Admit, InFlight, At
      <4>2. Cardinality(InFlight(a)') = Cardinality(InFlight(a)) + 1
        BY <1>s, <4>1, FS_AddElement
      <4>3. n \div ProbeEvery = blocked[a] \div ProbeEvery + 1
            /\ blocked[a] \div ProbeEvery \in Nat
        BY <1>0, <3>2, Division
      <4> QED BY <1>0, <1>s, <3>1, <4>2, <4>3, Constants DEF Paid
    <3>3. CASE ~Probes(n)
      <4>1. InFlight(a)' = InFlight(a)
        BY <1>0, <1>2, <2>3, <3>3 DEF Admit, InFlight, At, Answered
      <4>2. n \div ProbeEvery >= blocked[a] \div ProbeEvery
            /\ n \div ProbeEvery \in Nat /\ blocked[a] \div ProbeEvery \in Nat
        BY <1>0, Division
      <4> QED BY <1>0, <1>s, <3>1, <4>1, <4>2, Constants DEF Paid
    <3> QED BY <3>2, <3>3
  <2> QED BY <2>1, <2>2, <2>3
<1>3. ASSUME NEW c \in Callers, Record(c) PROVE Paid(a)'
  <2> DEFINE ok == call[c].result = "ok"
  <2>0. PICK outcome : call' = [call EXCEPT ![c] = Answered(@, outcome)]
    BY <1>3 DEF Record
  <2>1. CASE call[c].with # a
    <3>1. InFlight(a)' = InFlight(a)
      BY <1>0, <2>0, <2>1 DEF InFlight, Answered, Call
    <3>2. failures'[a] = failures[a] /\ blocked'[a] = blocked[a]
      BY <1>0, <1>3, <2>1 DEF Record, Recorded
    <3> QED BY <1>0, <3>1, <3>2 DEF Paid
  <2>2. CASE call[c].with = a /\ ok
    <3>1. failures'[a] = 0 /\ blocked'[a] = 0
      BY <1>0, <1>3, <2>2 DEF Record, Recorded
    <3>2. 0 \div ProbeEvery \in Nat
      BY Division
    <3> QED BY <1>s, <3>1, <3>2, Constants DEF Paid
  <2>3. CASE call[c].with = a /\ ~ok
    <3>1. failures'[a] = failures[a] + 1 /\ blocked'[a] = blocked[a]
      BY <1>0, <1>3, <2>3 DEF Record, Recorded
    <3>2. InFlight(a)' = InFlight(a) \ {c} /\ c \in InFlight(a)
      BY <1>0, <1>3, <2>0, <2>3 DEF Record, InFlight, At, Answered, Call
    <3>3. Cardinality(InFlight(a)') = Cardinality(InFlight(a)) - 1
      BY <1>s, <3>2, FS_RemoveElement
    <3>4. blocked[a] \div ProbeEvery \in Nat
      BY <1>0, Division
    <3> QED BY <1>0, <1>s, <3>1, <3>3, <3>4, Constants DEF Paid
  <2> QED BY <2>1, <2>2, <2>3
<1>4. ASSUME NEW c \in Callers, NEW s \in States, Ask(c, s) PROVE Paid(a)'
  <2>1. InFlight(a)' = InFlight(a)
    BY <1>0, <1>4 DEF Ask, Asked, InFlight, At
  <2> QED BY <1>1, <1>4, <2>1 DEF Ask, adapters
<1>5. ASSUME NEW c \in Callers, StartAttempt(c) \/ TimeOut(c) \/ Take(c) PROVE Paid(a)'
  <2>1. CASE StartAttempt(c)
    <3>1. InFlight(a)' = InFlight(a)
      BY <1>0, <2>1 DEF StartAttempt, InFlight, At, Call
    <3> QED BY <1>1, <2>1, <3>1 DEF StartAttempt, adapters
  <2>2. CASE TimeOut(c)
    <3>1. InFlight(a)' = InFlight(a)
      BY <1>0, <2>2 DEF TimeOut, InFlight, At, Call
    <3> QED BY <1>1, <2>2, <3>1 DEF TimeOut, adapters
  <2>3. CASE Take(c)
    <3>1. InFlight(a)' = InFlight(a)
      BY <1>0, <2>3 DEF Take, InFlight, At, Call
    <3> QED BY <1>1, <2>3, <3>1 DEF Take, adapters
  <2> QED BY <1>5, <2>1, <2>2, <2>3
<1>6. CASE call' = call /\ failures' = failures /\ blocked' = blocked
  BY <1>1, <1>6 DEF InFlight
<1>7. ASSUME NEW t \in Threads, Run(t) PROVE Paid(a)'
  BY <1>6, <1>7 DEF Run, Begin, Load, Predict, Raise, adapters
<1>8. CASE SwitchMode \/ StartSession \/ ServiceChange \/ UNCHANGED vars
  BY <1>6, <1>8 DEF SwitchMode, StartSession, Replaced, ServiceChange, vars, adapters
<1> QED BY <1>2, <1>3, <1>4, <1>5, <1>7, <1>8 DEF Next

\* Beyond the Threshold and the calls that passed before the breaker opened,
\* every failure of a model that is down was paid for by blocked calls
\* (_breaker_allows, _breaker_record), under any number of callers.
THEOREM FailuresArePaidHolds == Spec => []FailuresArePaid
<1>1. FailuresArePaid /\ LInv /\ [Next]_vars => FailuresArePaid'
  BY PaidStep
<1> QED BY <1>1, PaidStart, LayaInvariant, PTL DEF Spec

-----------------------------------------------------------------------------
(* The trust registry: what its operators return *)

(* A non-empty set of numbers has a least one. *)
LEMMA SomeLeast ==
    ASSUME NEW T, T \subseteq Nat, T # {}
    PROVE  \E n \in T : \A m \in T : n <= m
<1>1. PICK x \in T : \A y \in T : ~(<<y, x>> \in OpToRel(<, Nat))
  BY WFMin, NatLessThanWellFounded
<1>2. OpToRel(<, Nat) = {ss \in Nat \X Nat : ss[1] < ss[2]}
  BY Zenon DEF OpToRel
<1>3. ASSUME NEW y \in T
      PROVE  x <= y
  <2>1. <<y, x>> \notin {ss \in Nat \X Nat : ss[1] < ss[2]}
    BY <1>1, <1>2, Zenon
  <2>2. ~(y < x)
    BY <2>1
  <2> QED
    BY <2>2
<1> QED
  BY <1>3

(* A set of reports has one with the least number. *)
LEMMA FirstIsFirst ==
    ASSUME NEW S, S \subseteq Event, S # {}
    PROVE  First(S) \in S /\ \A q \in S : First(S).id <= q.id
<1> DEFINE ids == {r.id : r \in S}
<1>1. ids \in SUBSET Nat /\ ids # {}
  BY DEF Event
<1>2. PICK n \in ids : \A m \in ids : n <= m
  <2> HIDE DEF ids
  <2> QED
    BY <1>1, SomeLeast
<1>3. PICK r \in S : r.id = n
  BY <1>2
<1>4. \A q \in S : r.id <= q.id
  BY <1>2, <1>3
<1> QED
  BY <1>3, <1>4 DEF First

(* A new incident gets a number that no report has. *)
LEMMA NextIsFresh ==
    ASSUME events \in Seq(Event)
    PROVE  NextIncident \in Nat /\ NextIncident \notin Incidents
<1> DEFINE n == Len(events)
<1>1. n \in Nat /\ DOMAIN events = 1..n
  BY LenProperties
<1>2. \E i \in 1..(n + 1) : i \notin Incidents
  <2> SUFFICES ASSUME \A i \in 1..(n + 1) : i \in Incidents PROVE FALSE
    OBVIOUS
  <2>1. \A i \in 1..(n + 1) : \E k \in 1..n : events[k].inc = i
    BY <1>1 DEF Incidents, Range
  <2> DEFINE at == [i \in 1..(n + 1) |-> CHOOSE k \in 1..n : events[k].inc = i]
  <2>2. at \in [1..(n + 1) -> 1..n] /\ \A i \in 1..(n + 1) : events[at[i]].inc = i
    BY <2>1
  <2>3. /\ IsFiniteSet(1..(n + 1)) /\ Cardinality(1..(n + 1)) = n + 1
        /\ IsFiniteSet(1..n) /\ Cardinality(1..n) = n
    BY <1>1, FS_Interval
  <2>4. \E i, j \in 1..(n + 1) : i # j /\ at[i] = at[j]
    <3>1. n < n + 1
      BY <1>1
    <3> HIDE DEF at, n
    <3> QED
      BY <2>2, <2>3, <3>1, FS_PigeonHole
  <2> QED
    BY <2>2, <2>4
<1>3. NextIncident \in 1..(n + 1) /\ NextIncident \notin Incidents
  BY <1>2 DEF NextIncident
<1> QED
  BY <1>1, <1>3

LEMMA MovedIsScore ==
    ASSUME NEW v \in 0..100, NEW window, NEW d, NEW k
    PROVE  Moved(v, window, d, k) \in 0..100
BY DEF Moved, Most, Least, RATE_PENALTY, SYBIL_DISAGREE_PENALTY, CONTRADICTION_PENALTY,
       RECOVERY_GAIN

LEMMA WeighedType ==
    ASSUME NEW reg \in Registry, NEW r \in Event, NEW reports, NEW new
    PROVE  Weighed(reg, r, reports, new) \in Registry
<1> DEFINE window == Window(reg, r)
<1> DEFINE score == Moved(reg.veracity[r.src], window, Disagrees(r, reports),
                          Cluster(new) /\ r.src \in new)
<1>1. r.src \in Sources /\ r.id \in Nat /\ r.time \in Nat
  BY DEF Event
<1>2. /\ reg.veracity \in [Sources -> 0..100]
      /\ reg.recent \in [Sources -> SUBSET [id : Nat, time : Nat]]
      /\ reg.known \in SUBSET Sources /\ reg.observed \in SUBSET Nat
  BY DEF Registry
<1>3. window \in SUBSET [id : Nat, time : Nat]
  BY <1>1, <1>2 DEF Window
<1>4. score \in 0..100
  BY <1>1, <1>2, MovedIsScore
<1> HIDE DEF window, score
<1>5. [reg EXCEPT !.observed = @ \cup {r.id}, !.known = @ \cup {r.src},
                  !.recent[r.src] = window, !.veracity[r.src] = score] \in Registry
  BY <1>1, <1>2, <1>3, <1>4 DEF Registry
<1> QED
  BY <1>5 DEF Weighed, window, score

LEMMA SettledType ==
    ASSUME NEW reg \in Registry, NEW present \in SUBSET Sources
    PROVE  Settled(reg, present) \in Registry
<1>1. ASSUME NEW s \in Sources
      PROVE  /\ Least(100, reg.availability[s] + AVAILABILITY_RECOVERY) \in 0..100
             /\ Most(0, reg.availability[s] - AVAILABILITY_DECAY) \in 0..100
             /\ reg.availability[s] \in 0..100
  <2>1. reg.availability[s] \in 0..100
    BY DEF Registry
  <2> QED
    BY <2>1 DEF Least, Most, AVAILABILITY_RECOVERY, AVAILABILITY_DECAY
<1>2. Available(reg, present) \in [Sources -> 0..100]
  BY <1>1 DEF Available
<1> QED
  BY <1>2 DEF Settled, Registry

-----------------------------------------------------------------------------
(* Typing *)

LEMMA ReportType ==
    ASSUME events \in Seq(Event), NEW n \in Nat, NEW i \in Nat, NEW src \in Sources,
           NEW time \in Nat, NEW sev \in 1..3
    PROVE  Report(n, i, src, time, sev) \in Event
<1>1. Len(events) + n \in Nat
  BY LenProperties
<1> QED
  BY <1>1 DEF Report, Event

LEMMA SourcesNamed ==
    /\ Sensor \in Sources /\ Alt \in Sources
    /\ Fakes \in Seq(Sources)
<1>1. Fakes \in Seq(STRING)
  BY TrustAssumption DEF TrustAssumption
<1>2. Fakes \in Seq(Range(Fakes)) /\ Range(Fakes) \subseteq Sources
  BY <1>1, SeqOfRange DEF Sources
<1>3. Fakes \in Seq(Sources)
  BY <1>2, SeqMonotonic
<1> QED
  BY <1>3 DEF Sources

LEMMA AtRestType == AtRest \in Task
<1>1. <<>> \in Seq(Sources) /\ {} \in SUBSET Event
  BY EmptySeq
<1> QED
  BY <1>1 DEF AtRest, Task

LEMMA KindsOfTask ==
    ASSUME TrustTypeOK, NEW c \in Clients,
           NEW kind \in {"idle", "flood", "batch", "deciding", "reoptimise", "whatIf"}
    PROVE  /\ [AtRest EXCEPT !.kind = kind] \in Task
           /\ (Goes(c, kind) => task' \in [Clients -> Task])
<1>1. [AtRest EXCEPT !.kind = kind] \in Task
  BY AtRestType DEF Task
<1> QED
  BY <1>1 DEF Goes, TrustTypeOK

(* Reports of an incident are reports. *)
LEMMA ReportsAreEvents ==
    ASSUME events \in Seq(Event)
    PROVE  /\ \A i : ReportsFor(i) \subseteq Event
           /\ Range(events) \subseteq Event /\ Incidents \subseteq Nat
<1>1. Range(events) \in SUBSET Event
  BY RangeOfSeq
<1> QED
  BY <1>1 DEF ReportsFor, Incidents, Event

LEMMA ObserveType ==
    ASSUME TrustTypeOK, NEW c \in Clients, NEW reports, reports \subseteq Event,
           Observe(c, reports)
    PROVE  loop' \in [Clients -> Loop]
<1>1. Present(reports) \ trust.seen \in SUBSET Sources
  BY DEF Present, Event
<1>2. [on |-> TRUE, live |-> TRUE, reports |-> reports,
       todo |-> reports, new |-> Present(reports) \ trust.seen] \in Loop
  BY <1>1 DEF Loop
<1> QED
  BY <1>2 DEF Observe, TrustTypeOK

LEMMA NewRegistryType == NewRegistry \in Registry
BY DEF NewRegistry, Registry

LEMMA OrphanedType ==
    ASSUME TrustTypeOK
    PROVE  Orphaned \in [Clients -> Loop]
BY DEF Orphaned, Loop, TrustTypeOK

LEMMA BumpedType ==
    ASSUME NEW sev \in 1..3
    PROVE  Bumped(sev) \in 1..3
BY DEF Bumped, Least

LEMMA TrustTypeStep ==
    ASSUME TrustTypeOK, [TrustNext]_trustVars
    PROVE  TrustTypeOK'
<1> USE DEF TrustTypeOK
<1>0. /\ NextIncident \in Nat /\ Severities \subseteq 1..3 /\ Gap \in Nat /\ MaxAgain \in Nat
      /\ Len(events) \in Nat /\ DOMAIN events = 1..Len(events)
  <2>1. Severities \subseteq 1..3 /\ Gap \in Nat /\ MaxAgain \in Nat
    BY TrustAssumption DEF TrustAssumption
  <2> QED
    BY <2>1, NextIsFresh, LenProperties
<1>1. ASSUME NEW c \in Clients, Inject(c)
      PROVE  TrustTypeOK'
  <2>1. PICK sev \in Severities, multi \in BOOLEAN :
           LET first  == Report(1, NextIncident, Sensor, clock + 1, sev)
               second == Report(2, NextIncident, Alt, clock + 2, Bumped(sev))
               n == IF multi THEN 2 ELSE 1 IN
           /\ events' = IF multi THEN Append(Append(events, first), second)
                                 ELSE Append(events, first)
           /\ clock' = clock + n
           /\ Goes(c, "batch")
           /\ UNCHANGED <<cursor, trust, loop, saved, again>>
    BY <1>1 DEF Inject
  <2>2. sev \in 1..3 /\ clock + 1 \in Nat /\ clock + 2 \in Nat
    BY <1>0
  <2> DEFINE first == Report(1, NextIncident, Sensor, clock + 1, sev)
  <2> DEFINE second == Report(2, NextIncident, Alt, clock + 2, Bumped(sev))
  <2>3. first \in Event
    BY <1>0, <2>2, SourcesNamed, ReportType
  <2>4. second \in Event
    BY <1>0, <2>2, BumpedType, SourcesNamed, ReportType
  <2>5. Append(events, first) \in Seq(Event)
    BY <2>3, AppendProperties
  <2>6. Append(Append(events, first), second) \in Seq(Event)
    BY <2>4, <2>5, AppendProperties
  <2>7. events' \in Seq(Event) /\ clock' \in Nat
    BY <2>1, <2>2, <2>5, <2>6
  <2>8. task' \in [Clients -> Task]
    BY <2>1, KindsOfTask
  <2> QED
    BY <2>1, <2>7, <2>8
<1>2. ASSUME NEW c \in Clients, Replay(c)
      PROVE  TrustTypeOK'
  <2>1. PICK sev \in Severities, src \in {Sensor, Alt} :
           /\ events' = Append(events, Report(1, NextIncident, src, clock + Gap, sev))
           /\ clock' = clock + Gap /\ Goes(c, "batch")
           /\ UNCHANGED <<cursor, trust, loop, saved, again>>
    BY <1>2 DEF Replay
  <2>2. Report(1, NextIncident, src, clock + Gap, sev) \in Event /\ clock + Gap \in Nat
    BY <1>0, SourcesNamed, ReportType
  <2>3. task' \in [Clients -> Task]
    BY <2>1, KindsOfTask
  <2> QED
    BY <2>1, <2>2, <2>3, AppendProperties
<1>3. ASSUME NEW c \in Clients, Flood(c)
      PROVE  TrustTypeOK'
  <2>1. PICK sev \in Severities, n \in Floods :
           /\ events' = Append(events, Report(1, NextIncident, Sensor, clock + 1, sev))
           /\ clock' = clock + 1
           /\ task' = [task EXCEPT ![c] = [AtRest EXCEPT
                         !.kind = "flood", !.left = SubSeq(Fakes, 1, n),
                         !.inc = NextIncident, !.sev = IF sev = 1 THEN 3 ELSE 1]]
           /\ UNCHANGED <<cursor, trust, loop, saved, again>>
    BY <1>3 DEF Flood
  <2>2. Report(1, NextIncident, Sensor, clock + 1, sev) \in Event /\ clock + 1 \in Nat
    BY <1>0, SourcesNamed, ReportType
  <2>3. SubSeq(Fakes, 1, n) \in Seq(Sources)
    <3>1. Fakes \in Seq(Sources) /\ Len(Fakes) \in Nat
      BY SourcesNamed, LenProperties
    <3>2. n \in 0..Len(Fakes)
      BY TrustAssumption DEF TrustAssumption
    <3>3. \A i \in 1..n : Fakes[i] \in Sources
      BY <3>1, <3>2, ElementOfSeq
    <3> QED
      BY <3>1, <3>2, <3>3, SubSeqProperties
  <2>4. ASSUME NEW left \in Seq(Sources), NEW inc \in Nat, NEW lie \in 1..3
        PROVE  [AtRest EXCEPT !.kind = "flood", !.left = left, !.inc = inc, !.sev = lie] \in Task
    <3>1. AtRest \in Task
      BY AtRestType
    <3> HIDE DEF TrustTypeOK
    <3> QED
      BY <3>1 DEF Task
  <2>10. (IF sev = 1 THEN 3 ELSE 1) \in 1..3
    OBVIOUS
  <2>5. task' \in [Clients -> Task]
    BY <1>0, <2>1, <2>3, <2>4, <2>10
  <2> QED
    BY <2>1, <2>2, <2>5, AppendProperties
<1>4. ASSUME NEW c \in Clients, Fabricate(c)
      PROVE  TrustTypeOK'
  <2> DEFINE t == task[c]
  <2>1. t \in Task
    OBVIOUS
  <2>2. CASE t.left = <<>>
    <3>1. Goes(c, "batch") /\ UNCHANGED <<events, clock, cursor, trust, loop, saved, again>>
      BY <1>4, <2>2 DEF Fabricate
    <3> QED
      BY <3>1, KindsOfTask
  <2>3. CASE t.left # <<>>
    <3>1. /\ events' = Append(events, Report(1, t.inc, Head(t.left), clock + 1, t.sev))
          /\ clock' = clock + 1
          /\ task' = [task EXCEPT ![c].left = Tail(@)]
          /\ UNCHANGED <<cursor, trust, loop, saved, again>>
      BY <1>4, <2>3 DEF Fabricate
    <3>2. t.left \in Seq(Sources) /\ t.inc \in Nat /\ t.sev \in 1..3
      BY <2>1 DEF Task
    <3>3. Head(t.left) \in Sources /\ Tail(t.left) \in Seq(Sources)
      BY <2>3, <3>2, HeadTailProperties
    <3>4. Report(1, t.inc, Head(t.left), clock + 1, t.sev) \in Event
      BY <3>2, <3>3, ReportType
    <3>5. task' \in [Clients -> Task]
      BY <3>1, <3>3 DEF Task
    <3> QED
      BY <3>1, <3>4, <3>5, AppendProperties
  <2> QED
    BY <2>2, <2>3
<1>5. ASSUME NEW c \in Clients, Batch(c)
      PROVE  TrustTypeOK'
  <2>1. SubSeq(events, cursor + 1, Len(events)) \in Seq(Event)
    <3>1. \A i \in (cursor + 1)..Len(events) : events[i] \in Event
      BY <1>0, ElementOfSeq
    <3> QED
      BY <1>0, <3>1, SubSeqProperties
  <2>2. Range(SubSeq(events, cursor + 1, Len(events))) \in SUBSET Event
    BY <2>1, RangeOfSeq
  <2>3. [AtRest EXCEPT !.kind = "deciding",
            !.due = Range(SubSeq(events, cursor + 1, Len(events)))] \in Task
    BY <2>2, AtRestType DEF Task
  <2> QED
    BY <1>0, <1>5, <2>3 DEF Batch
<1>6. ASSUME NEW c \in Clients, Decide(c)
      PROVE  TrustTypeOK'
  <2> DEFINE i == First(task[c].due).inc
  <2>1. UNCHANGED <<events, clock, cursor, trust, saved, again>>
    BY <1>6 DEF Decide
  <2>2. CASE ReportsFor(i) = {}
    BY <1>6, <2>1, <2>2, KindsOfTask DEF Decide
  <2>3. CASE ReportsFor(i) # {}
    <3>1. /\ Observe(c, ReportsFor(i))
          /\ task' = [task EXCEPT ![c].due = {r \in @ : r.inc # i}]
      BY <1>6, <2>3 DEF Decide
    <3>2. loop' \in [Clients -> Loop]
      BY <3>1, ReportsAreEvents, ObserveType
    <3>3. task' \in [Clients -> Task]
      <4> HIDE DEF i
      <4> QED
        BY <3>1 DEF Task
    <3> QED
      BY <2>1, <3>2, <3>3
  <2> QED
    BY <2>2, <2>3
<1>7. ASSUME NEW c \in Clients, Reoptimise(c)
      PROVE  TrustTypeOK'
  <2>1. PICK i \in Incidents : Observe(c, ReportsFor(i))
    BY <1>7 DEF Reoptimise
  <2>2. loop' \in [Clients -> Loop]
    BY <2>1, ReportsAreEvents, ObserveType
  <2>3. again' \in 0..MaxAgain /\ task' \in [Clients -> Task]
    BY <1>0, <1>7, KindsOfTask DEF Reoptimise
  <2> QED
    BY <1>7, <2>2, <2>3 DEF Reoptimise
<1>8. ASSUME NEW c \in Clients, Answer(c)
      PROVE  TrustTypeOK'
  BY <1>8, KindsOfTask DEF Answer
<1>9. ASSUME NEW c \in Clients, Weigh(c)
      PROVE  TrustTypeOK'
  <2> DEFINE o == loop[c]
  <2>1. o \in Loop /\ o.todo \in SUBSET Event /\ o.todo # {}
    BY <1>9 DEF Weigh, Loop
  <2>2. First(o.todo) \in Event
    BY <2>1, FirstIsFirst
  <2>3. trust' \in Registry
    <3>1. trust' = trust \/ trust' = Weighed(trust, First(o.todo), o.reports, o.new)
      BY <1>9 DEF Weigh
    <3> QED
      BY <2>2, <3>1, WeighedType
  <2>4. loop' \in [Clients -> Loop]
    <3>1. loop' = [loop EXCEPT ![c].todo = @ \ {First(o.todo)}]
      BY <1>9 DEF Weigh
    <3> QED
      BY <3>1 DEF Loop
  <2> QED
    BY <1>9, <2>3, <2>4 DEF Weigh
<1>10. ASSUME NEW c \in Clients, Settle(c)
       PROVE  TrustTypeOK'
  <2> DEFINE o == loop[c]
  <2>1. o \in Loop /\ Present(o.reports) \in SUBSET Sources
    BY DEF Loop, Present, Event
  <2>2. trust' \in Registry
    <3>1. trust' = trust \/ trust' = Settled(trust, Present(o.reports))
      BY <1>10 DEF Settle
    <3> QED
      BY <2>1, <3>1, SettledType
  <2>3. loop' \in [Clients -> Loop]
    BY <1>10 DEF Settle, NoLoop, Loop
  <2> QED
    BY <1>10, <2>2, <2>3 DEF Settle
<1>11. ASSUME NEW c \in Clients, EnterWhatIf(c)
       PROVE  TrustTypeOK'
  <2> DEFINE report == Report(1, NextIncident, Sensor, clock + 1, 3)
  <2>1. report \in Event /\ clock + 1 \in Nat
    BY <1>0, SourcesNamed, ReportType
  <2>2. loop' \in [Clients -> Loop]
    BY <1>11, <2>1, ObserveType DEF EnterWhatIf
  <2>3. saved' \in [Clients -> Snapshot]
    BY <1>0, <1>11 DEF EnterWhatIf, Snapshot
  <2>4. events' \in Seq(Event) /\ clock' \in Nat
    BY <1>11, <2>1, AppendProperties DEF EnterWhatIf
  <2>5. task' \in [Clients -> Task]
    BY <1>11, KindsOfTask DEF EnterWhatIf
  <2> QED
    BY <1>11, <2>2, <2>3, <2>4, <2>5 DEF EnterWhatIf
<1>12. ASSUME NEW c \in Clients, ExitWhatIf(c)
       PROVE  TrustTypeOK'
  <2>1. saved[c].trust \in Registry /\ saved[c].length \in Nat /\ saved[c].clock \in Nat
    BY DEF Snapshot
  <2>2. SubSeq(events, 1, Least(Len(events), saved[c].length)) \in Seq(Event)
    <3> DEFINE n == Least(Len(events), saved[c].length)
    <3>1. n \in Nat /\ n <= Len(events)
      BY <1>0, <2>1 DEF Least
    <3>2. \A i \in 1..n : events[i] \in Event
      BY <1>0, <3>1, ElementOfSeq
    <3> HIDE DEF n
    <3>3. SubSeq(events, 1, n) \in Seq(Event)
      BY <3>1, <3>2, SubSeqProperties
    <3> QED
      BY <3>3 DEF n
  <2>3. saved' \in [Clients -> Snapshot]
    BY <1>12, NewRegistryType DEF ExitWhatIf, NoSnapshot, Snapshot
  <2>4. loop' \in [Clients -> Loop]
    BY <1>12, OrphanedType DEF ExitWhatIf
  <2>5. task' \in [Clients -> Task]
    BY <1>12, KindsOfTask DEF ExitWhatIf
  <2> QED
    BY <1>12, <2>1, <2>2, <2>3, <2>4, <2>5 DEF ExitWhatIf
<1>13. ASSUME NEW c \in Clients, NewSession(c)
       PROVE  TrustTypeOK'
  <2>1. trust' \in Registry /\ loop' \in [Clients -> Loop]
    BY <1>13, NewRegistryType, OrphanedType DEF NewSession
  <2> QED
    BY <1>13, <2>1, EmptySeq DEF NewSession
<1>14. ASSUME UNCHANGED trustVars
       PROVE  TrustTypeOK'
  BY <1>14 DEF trustVars
<1> QED
  BY <1>1, <1>2, <1>3, <1>4, <1>5, <1>6, <1>7, <1>8, <1>9, <1>10, <1>11, <1>12, <1>13, <1>14
     DEF TrustNext

(* However requests interleave, the registry and everything around it stay *)
(* well formed: scores are between nought and one, and a loop of observe() *)
(* that lost its registry to a reset still only handles reports.           *)
THEOREM TrustTypeCorrect == TrustSpec => []TrustTypeOK
<1>1. TrustInit => TrustTypeOK
  <2>1. <<>> \in Seq(Event) /\ <<>> \in Seq(Sources) /\ MaxAgain \in Nat
    BY EmptySeq, TrustAssumption DEF TrustAssumption
  <2> QED
    BY <2>1, NewRegistryType
       DEF TrustInit, TrustTypeOK, AtRest, Task, NoLoop, Loop, NoSnapshot, Snapshot
<1>2. TrustTypeOK /\ [TrustNext]_trustVars => TrustTypeOK'
  BY TrustTypeStep
<1> QED
  BY <1>1, <1>2, PTL DEF TrustSpec

-----------------------------------------------------------------------------
(* What a registry knows of a set of reports *)

Of(E, i) == {r \in E : r.inc = i}

\* Reports are numbered as they come, and time does not run back.
Ordered(E) ==
    /\ E \subseteq Event /\ IsFiniteSet(E)
    /\ \A q, r \in E : (q.id = r.id => q = r) /\ (q.id <= r.id => q.time <= r.time)

Unheard(reg, E) == {r \in E : r.id \notin reg.observed}

Mark(r) == [id |-> r.id, time |-> r.time]

Truthful(E, s) == \A r \in E : r.src = s => ~Disagrees(r, Of(E, r.inc))
Around(E, r) == {q \in E : /\ q.src = r.src /\ q.time <= r.time
                           /\ r.time - q.time <= RATE_WINDOW_SECONDS}
Paced(E, s) == \A r \in E : r.src = s => Cardinality(Around(E, r)) <= RATE_LIMIT

Lying(E, S) == {s \in Sources : /\ \E r \in E : r.src = s
                                /\ \A r \in E : r.src = s => r \in S /\ Disagrees(r, S)}
Caught(reg, s) == s \in reg.known /\ reg.veracity[s] <= 55

\* The registry has observed the first of the reports, and remembers nothing else.
Following(reg, E) ==
    /\ reg.observed \subseteq {r.id : r \in E}
    /\ \A q, r \in E : r.id \in reg.observed /\ q.id <= r.id => q.id \in reg.observed
    /\ \A s \in Sources : \A t \in reg.recent[s] :
           \E r \in E : r.src = s /\ r.id \in reg.observed /\ t = Mark(r)
    /\ \A s \in reg.seen : \E r \in E : r.src = s /\ r.id \in reg.observed

Fair(reg, E) == \A s \in Sources : Truthful(E, s) /\ Paced(E, s) => reg.veracity[s] = 100

Wary(reg, E) ==
    \A i \in Nat : /\ \A r \in Of(E, i) : r.id \in reg.observed
                   /\ Cardinality(Lying(E, Of(E, i))) >= SYBIL_CLUSTER_MIN
                   => \A s \in Lying(E, Of(E, i)) : Caught(reg, s)

Sane(reg, E) == Following(reg, E) /\ Fair(reg, E) /\ Wary(reg, E)

\* A call of observe() that handles whatever is new.
Hearing(reg, E, o) ==
    /\ o.live
    /\ o.reports # {} /\ \E i \in Nat : o.reports = Of(E, i)
    /\ o.todo \subseteq o.reports
    /\ Unheard(reg, E) \subseteq o.todo
    /\ Unheard(reg, E) # {} =>
         /\ Lying(E, o.reports) \subseteq o.new
         /\ Cardinality(Lying(E, o.reports)) >= SYBIL_CLUSTER_MIN
            => \A r \in E : r.src \in Lying(E, o.reports) /\ r.id \in reg.observed
                                => Caught(reg, r.src)

(* The measure of an incident is its first report. *)
LEMMA PrimaryIsFirst ==
    ASSUME NEW E, Ordered(E), NEW S, S \subseteq E, S # {}
    PROVE  Primary(S) = First(S) /\ First(S) \in S /\ \A q \in S : First(S).id <= q.id
<1> DEFINE f == First(S)
<1>1. f \in S /\ \A q \in S : f.id <= q.id
  BY FirstIsFirst DEF Ordered
<1>2. \A q \in S : q.id \in Nat /\ q.time \in Nat
  BY DEF Ordered, Event
<1>3. \A q \in S : f.time <= q.time
  BY <1>1 DEF Ordered
<1> HIDE DEF f
<1>4. \A q \in S : f.time < q.time \/ (f.time = q.time /\ f.id <= q.id)
  BY <1>1, <1>2, <1>3
<1>5. /\ Primary(S) \in S
      /\ \A q \in S : \/ Primary(S).time < q.time
                      \/ (Primary(S).time = q.time /\ Primary(S).id <= q.id)
  BY <1>1, <1>4 DEF Primary
<1> DEFINE p == Primary(S)
<1>6. p \in S /\ (p.time < f.time \/ (p.time = f.time /\ p.id <= f.id))
  BY <1>1, <1>5
<1> HIDE DEF p
<1>7. p.id = f.id
  BY <1>1, <1>2, <1>3, <1>6
<1>8. p = f
  BY <1>1, <1>6, <1>7 DEF Ordered
<1> QED
  BY <1>1, <1>8 DEF f, p

(* Later reports of an incident do not move its measure. *)
LEMMA MeasureStays ==
    ASSUME NEW E, NEW e, Ordered(E \cup {e}), \A r \in E : r.id < e.id,
           NEW S, S \subseteq E, NEW r \in S
    PROVE  Disagrees(r, S \cup {e}) <=> Disagrees(r, S)
<1> DEFINE F == E \cup {e}
<1>1. S # {} /\ S \subseteq F /\ S \cup {e} # {} /\ S \cup {e} \subseteq F
  OBVIOUS
<1>2. Ordered(F)
  OBVIOUS
<1> HIDE DEF F
<1>3. Primary(S) = First(S) /\ First(S) \in S /\ \A q \in S : First(S).id <= q.id
  BY <1>1, <1>2, PrimaryIsFirst
<1> DEFINE T == S \cup {e}
<1>4. Primary(T) = First(T) /\ First(T) \in T /\ \A q \in T : First(T).id <= q.id
  <2> T # {} /\ T \subseteq F
    BY <1>1
  <2> HIDE DEF T
  <2> QED
    BY <1>2, PrimaryIsFirst
<1>5. \A q \in F : q.id \in Nat
  BY <1>2 DEF Ordered, Event
<1>6. First(T).id <= First(S).id /\ First(S).id < e.id
  BY <1>3, <1>4
<1>7. First(T) \in S
  BY <1>1, <1>3, <1>4, <1>5, <1>6
<1>8. First(S).id <= First(T).id
  BY <1>3, <1>7
<1>9. First(T).id = First(S).id
  BY <1>1, <1>3, <1>4, <1>5, <1>6, <1>8
<1>10. First(T) = First(S)
  BY <1>1, <1>2, <1>3, <1>7, <1>9 DEF Ordered
<1> QED
  BY <1>3, <1>4, <1>10 DEF Disagrees

LEMMA OfGrows ==
    ASSUME NEW E, NEW e, NEW i
    PROVE  Of(E \cup {e}, i) = IF e.inc = i THEN Of(E, i) \cup {e} ELSE Of(E, i)
BY DEF Of

(* Who has always told the truth, or lied, had done so before. *)
LEMMA TruthStays ==
    ASSUME NEW E, NEW e, Ordered(E \cup {e}), \A r \in E : r.id < e.id,
           NEW s \in Sources, Truthful(E \cup {e}, s)
    PROVE  Truthful(E, s)
<1> SUFFICES ASSUME NEW r \in E, r.src = s
             PROVE  ~Disagrees(r, Of(E, r.inc))
  BY DEF Truthful
<1>1. ~Disagrees(r, Of(E \cup {e}, r.inc))
  BY DEF Truthful
<1>2. CASE e.inc = r.inc
  <2>1. ~Disagrees(r, Of(E, r.inc) \cup {e})
    BY <1>1, <1>2, OfGrows
  <2>2. Of(E, r.inc) \subseteq E /\ r \in Of(E, r.inc)
    BY DEF Of
  <2> QED
    BY <2>1, <2>2, MeasureStays
<1>3. CASE e.inc # r.inc
  BY <1>1, <1>3, OfGrows
<1> QED
  BY <1>2, <1>3

LEMMA PaceStays ==
    ASSUME NEW E, NEW e, Ordered(E \cup {e}), NEW s \in Sources, Paced(E \cup {e}, s)
    PROVE  Paced(E, s)
<1> SUFFICES ASSUME NEW r \in E, r.src = s
             PROVE  Cardinality(Around(E, r)) <= RATE_LIMIT
  BY DEF Paced
<1>1. Cardinality(Around(E \cup {e}, r)) <= RATE_LIMIT
  BY DEF Paced
<1>2. Around(E, r) \subseteq Around(E \cup {e}, r) /\ Around(E \cup {e}, r) \subseteq E \cup {e}
  BY DEF Around
<1>3. IsFiniteSet(Around(E \cup {e}, r))
  BY <1>2, FS_Subset DEF Ordered
<1>4. Cardinality(Around(E, r)) <= Cardinality(Around(E \cup {e}, r))
  BY <1>2, <1>3, FS_Subset
<1>5. Cardinality(Around(E, r)) \in Nat /\ Cardinality(Around(E \cup {e}, r)) \in Nat
  BY <1>2, <1>3, FS_Subset, FS_CardinalityType
<1> QED
  BY <1>1, <1>4, <1>5 DEF RATE_LIMIT

LEMMA SourcesFinite == IsFiniteSet(Sources)
<1>1. Fakes \in Seq(STRING)
  BY TrustAssumption DEF TrustAssumption
<1>2. Len(Fakes) \in Nat /\ Fakes \in [1..Len(Fakes) -> STRING]
  BY <1>1, LenProperties
<1>3. Fakes \in Surjection(1..Len(Fakes), Range(Fakes))
  BY <1>2 DEF Surjection, Range
<1>4. IsFiniteSet(Range(Fakes))
  BY <1>2, <1>3, FS_Interval, FS_Surjection
<1>5. IsFiniteSet({Sensor} \cup {Alt})
  BY FS_Singleton, FS_Union
<1>6. IsFiniteSet(({Sensor} \cup {Alt}) \cup Range(Fakes))
  BY <1>4, <1>5, FS_Union
<1>7. Sources = ({Sensor} \cup {Alt}) \cup Range(Fakes)
  BY DEF Sources
<1> QED
  BY <1>6, <1>7

LEMMA LyingIsFinite ==
    ASSUME NEW E, NEW S
    PROVE  IsFiniteSet(Lying(E, S)) /\ Cardinality(Lying(E, S)) \in Nat
<1>1. IsFiniteSet(Sources)
  BY SourcesFinite
<1>2. Lying(E, S) \subseteq Sources
  BY DEF Lying
<1> QED
  BY <1>1, <1>2, FS_Subset, FS_CardinalityType

(* A registry that follows the reports follows them when one more comes. *)
LEMMA SaneGrows ==
    ASSUME NEW reg \in Registry, NEW E, NEW e, Ordered(E \cup {e}), \A r \in E : r.id < e.id,
           Sane(reg, E)
    PROVE  Sane(reg, E \cup {e}) /\ Unheard(reg, E \cup {e}) = Unheard(reg, E) \cup {e}
<1> DEFINE F == E \cup {e}
<1>0. \A q \in F : q.id \in Nat
  BY DEF Ordered, Event
<1>1. e.id \notin reg.observed
  <2>1. \A n \in reg.observed : \E r \in E : n = r.id
    BY DEF Sane, Following
  <2> QED
    BY <1>0, <2>1
<1>2. Following(reg, F)
  <2>1. reg.observed \subseteq {r.id : r \in F}
    BY DEF Sane, Following
  <2>2. ASSUME NEW q \in F, NEW r \in F, r.id \in reg.observed, q.id <= r.id
        PROVE  q.id \in reg.observed
    <3>1. r \in E
      BY <1>1, <2>2
    <3>2. q \in E
      BY <1>0, <2>2, <3>1
    <3> QED
      BY <2>2, <3>1, <3>2 DEF Sane, Following
  <2> QED
    BY <2>1, <2>2 DEF Sane, Following
<1>3. Fair(reg, F)
  <2> SUFFICES ASSUME NEW s \in Sources, Truthful(F, s), Paced(F, s)
               PROVE  reg.veracity[s] = 100
    BY DEF Fair
  <2>1. Truthful(E, s)
    BY TruthStays
  <2>2. Paced(E, s)
    BY PaceStays
  <2> QED
    BY <2>1, <2>2 DEF Sane, Fair
<1>4. Wary(reg, F)
  <2> SUFFICES ASSUME NEW i \in Nat, \A r \in Of(F, i) : r.id \in reg.observed,
                      Cardinality(Lying(F, Of(F, i))) >= SYBIL_CLUSTER_MIN,
                      NEW s \in Lying(F, Of(F, i))
               PROVE  Caught(reg, s)
    BY DEF Wary
  <2>1. e.inc # i
    BY <1>1 DEF Of
  <2>2. Of(F, i) = Of(E, i)
    BY <2>1, OfGrows
  <2>3. Lying(F, Of(F, i)) \subseteq Lying(E, Of(E, i))
    <3> SUFFICES ASSUME NEW z \in Lying(F, Of(F, i))
                 PROVE  z \in Lying(E, Of(E, i))
      OBVIOUS
    <3>1. /\ z \in Sources /\ \E r \in F : r.src = z
          /\ \A r \in F : r.src = z => r \in Of(E, i) /\ Disagrees(r, Of(E, i))
      BY <2>2 DEF Lying
    <3>2. \A r \in Of(E, i) : r \in E
      BY DEF Of
    <3>3. \E r \in E : r.src = z
      BY <3>1, <3>2
    <3> QED
      BY <3>1, <3>3 DEF Lying
  <2>4. Cardinality(Lying(F, Of(F, i))) <= Cardinality(Lying(E, Of(E, i)))
    BY <2>3, LyingIsFinite, FS_Subset
  <2>5. Cardinality(Lying(E, Of(E, i))) >= SYBIL_CLUSTER_MIN
    BY <2>4, LyingIsFinite DEF SYBIL_CLUSTER_MIN
  <2> QED
    BY <2>2, <2>3, <2>5 DEF Sane, Wary
<1>5. Unheard(reg, F) = Unheard(reg, E) \cup {e}
  BY <1>1 DEF Unheard
<1> QED
  BY <1>2, <1>3, <1>4, <1>5 DEF Sane

LEMMA WeighedFields ==
    ASSUME NEW reg \in Registry, NEW r \in Event, NEW reports, NEW new, r.id \notin reg.observed,
           NEW reg2, reg2 = Weighed(reg, r, reports, new)
    PROVE  /\ reg2.observed = reg.observed \cup {r.id} /\ reg2.known = reg.known \cup {r.src}
           /\ reg2.seen = reg.seen
           /\ reg2.recent = [reg.recent EXCEPT ![r.src] = Window(reg, r)]
           /\ reg2.veracity = [reg.veracity EXCEPT ![r.src] =
                  Moved(@, Window(reg, r), Disagrees(r, reports), Cluster(new) /\ r.src \in new)]
<1> DEFINE window == Window(reg, r)
<1> DEFINE score == Moved(reg.veracity[r.src], window, Disagrees(r, reports),
                          Cluster(new) /\ r.src \in new)
<1> HIDE DEF window, score
<1>1. reg2 = [reg EXCEPT !.observed = @ \cup {r.id}, !.known = @ \cup {r.src},
                         !.recent[r.src] = window, !.veracity[r.src] = score]
  BY DEF Weighed, window, score
<1>2. /\ reg2.observed = reg.observed \cup {r.id} /\ reg2.known = reg.known \cup {r.src}
      /\ reg2.seen = reg.seen
      /\ reg2.recent = [reg.recent EXCEPT ![r.src] = window]
      /\ reg2.veracity = [reg.veracity EXCEPT ![r.src] = score]
  BY <1>1 DEF Registry
<1> QED
  BY <1>2 DEF window, score

(* The window of a report that is next in turn holds only reports around it. *)
LEMMA WindowFits ==
    ASSUME NEW reg \in Registry, NEW E, Ordered(E), Following(reg, E), NEW r \in E,
           r.id \notin reg.observed
    PROVE  /\ Cardinality(Window(reg, r)) \in Nat
           /\ Cardinality(Window(reg, r)) <= Cardinality(Around(E, r))
<1> DEFINE W == Window(reg, r)
<1> DEFINE A == Around(E, r)
<1>1. \A q \in E : q.id \in Nat /\ q.time \in Nat /\ q.src \in Sources
  BY DEF Ordered, Event
<1>2. ASSUME NEW t \in W
      PROVE  \E q \in A : t = Mark(q)
  <2>1. r.time - t.time <= RATE_WINDOW_SECONDS
    BY DEF Window
  <2>2. CASE t \in reg.recent[r.src]
    <3>1. PICK q \in E : q.src = r.src /\ q.id \in reg.observed /\ t = Mark(q)
      BY <1>1, <2>2 DEF Following
    <3>2. ~(r.id <= q.id)
      BY <3>1 DEF Following
    <3>3. q.id <= r.id
      BY <1>1, <3>2
    <3>4. q.time <= r.time
      BY <3>3 DEF Ordered
    <3>5. q \in A
      BY <2>1, <3>1, <3>4 DEF Around, Mark
    <3> QED
      BY <3>1, <3>5
  <2>3. CASE t = Mark(r)
    <3>1. r \in A
      BY <1>1, <2>1, <2>3 DEF Around, Mark
    <3> QED
      BY <2>3, <3>1
  <2> QED
    BY <2>2, <2>3 DEF Window, Mark
<1>3. IsFiniteSet(A)
  BY FS_Subset DEF Around, Ordered
<1> DEFINE f == [t \in W |-> CHOOSE q \in A : t = Mark(q)]
<1>4. \A t \in W : f[t] \in A /\ t = Mark(f[t])
  BY <1>2
<1> HIDE DEF f, W, A
<1>5. f \in [W -> A]
  <2> USE DEF f
  <2> QED
    BY <1>2
<1>6. \A s, t \in W : f[s] = f[t] => s = t
  BY <1>4
<1>7. f \in Injection(W, A)
  BY <1>5, <1>6 DEF Injection, IsInjective
<1> QED
  BY <1>3, <1>7, FS_Injection, FS_CardinalityType DEF W, A

LEMMA MovedDown ==
    ASSUME NEW v \in 0..100, NEW window, NEW k
    PROVE  /\ v <= 55 => Moved(v, window, TRUE, k) <= 55
           /\ ~TooMany(window) /\ k => Moved(v, window, TRUE, k) <= 55
BY DEF Moved, Most, Least, RATE_PENALTY, SYBIL_DISAGREE_PENALTY, CONTRADICTION_PENALTY,
       RECOVERY_GAIN

(* A turn of the loop leaves the registry fair and wary. *)
LEMMA SaneWeighed ==
    ASSUME NEW reg \in Registry, NEW E, Ordered(E), Sane(reg, E),
           NEW o \in Loop, Hearing(reg, E, o), o.todo # {},
           NEW r, r = First(o.todo),
           NEW reg2, reg2 = Weighed(reg, r, o.reports, o.new)
    PROVE  Sane(reg2, E) /\ Hearing(reg2, E, [o EXCEPT !.todo = @ \ {r}])
<1> DEFINE o2 == [o EXCEPT !.todo = @ \ {r}]
<1> DEFINE L == Lying(E, o.reports)
<1>1. PICK j \in Nat : o.reports = Of(E, j)
  BY DEF Hearing
<1>2. o.reports \subseteq E /\ o.todo \subseteq o.reports /\ o.reports # {}
  BY <1>1 DEF Hearing, Of
<1>3. o.todo \subseteq Event
  BY <1>2 DEF Ordered
<1>4. r \in o.todo /\ \A q \in o.todo : r.id <= q.id
  BY <1>3, FirstIsFirst
<1>5. r \in E /\ r \in Event /\ r \in o.reports /\ r.inc = j
  BY <1>1, <1>2, <1>3, <1>4 DEF Of
<1>6. /\ o2.live = o.live /\ o2.reports = o.reports /\ o2.new = o.new
      /\ o2.todo = o.todo \ {r}
  BY DEF Loop
<1>7. /\ \A q \in E : q.id \in Nat /\ q.src \in Sources
      /\ \A q, x \in E : q.id = x.id => q = x
  BY DEF Ordered, Event
<1>8. CASE r.id \in reg.observed
  <2>1. reg2 = reg
    BY <1>8 DEF Weighed
  <2>2. Unheard(reg, E) \subseteq o2.todo
    BY <1>6, <1>8 DEF Hearing, Unheard
  <2> HIDE DEF o2
  <2>3. Hearing(reg, E, o2)
    BY <1>6, <2>2 DEF Hearing
  <2> QED
    BY <2>1, <2>3 DEF o2
<1>9. CASE r.id \notin reg.observed
  <2> DEFINE W == Window(reg, r)
  <2>1. /\ reg2.observed = reg.observed \cup {r.id} /\ reg2.known = reg.known \cup {r.src}
        /\ reg2.seen = reg.seen
        /\ reg2.recent = [reg.recent EXCEPT ![r.src] = W]
        /\ reg2.veracity = [reg.veracity EXCEPT ![r.src] =
               Moved(@, W, Disagrees(r, o.reports), Cluster(o.new) /\ r.src \in o.new)]
    BY <1>5, <1>9, WeighedFields
  <2>2. /\ reg.veracity \in [Sources -> 0..100]
        /\ reg.recent \in [Sources -> SUBSET [id: Nat, time: Nat]]
        /\ r.src \in Sources /\ r.id \in Nat
        /\ reg.seen \in SUBSET Sources
    BY <1>5 DEF Registry, Event
  <2> HIDE DEF W
  <2>3. /\ \A s \in Sources : s # r.src => /\ reg2.veracity[s] = reg.veracity[s]
                                           /\ reg2.recent[s] = reg.recent[s]
        /\ reg2.recent[r.src] = W
        /\ reg2.veracity[r.src] = Moved(reg.veracity[r.src], W, Disagrees(r, o.reports),
                                        Cluster(o.new) /\ r.src \in o.new)
    BY <2>1, <2>2
  <2>4. Following(reg, E) /\ Fair(reg, E) /\ Wary(reg, E)
    BY DEF Sane
  <2>5. Unheard(reg2, E) = Unheard(reg, E) \ {r} /\ r \in Unheard(reg, E)
    BY <1>5, <1>7, <1>9, <2>1 DEF Unheard
  <2>6. Following(reg2, E)
    <3>1. reg2.observed \subseteq {x.id : x \in E}
      BY <1>5, <2>1, <2>4 DEF Following
    <3>2. ASSUME NEW q \in E, NEW x \in E, x.id \in reg2.observed, q.id <= x.id
          PROVE  q.id \in reg2.observed
      <4>1. CASE x.id \in reg.observed
        BY <2>1, <2>4, <3>2, <4>1 DEF Following
      <4>2. CASE x.id = r.id
        <5>1. CASE q.id \in reg.observed
          BY <2>1, <5>1
        <5>2. CASE q.id \notin reg.observed
          <6>1. q \in o.todo
            BY <5>2 DEF Hearing, Unheard
          <6>2. q.id = r.id
            BY <1>4, <1>5, <1>7, <3>2, <4>2, <6>1
          <6> QED
            BY <2>1, <6>2
        <5> QED
          BY <5>1, <5>2
      <4> QED
        BY <2>1, <3>2, <4>1, <4>2
    <3>3. ASSUME NEW s \in Sources, NEW t \in reg2.recent[s]
          PROVE  \E x \in E : x.src = s /\ x.id \in reg2.observed /\ t = Mark(x)
      <4>1. CASE t \in reg.recent[s]
        BY <2>1, <2>4, <4>1 DEF Following
      <4>2. CASE t \notin reg.recent[s]
        <5>1. s = r.src /\ t \in W
          BY <2>3, <3>3, <4>2
        <5>2. t = Mark(r)
          BY <4>2, <5>1 DEF W, Window, Mark
        <5> QED
          BY <1>5, <2>1, <5>1, <5>2
      <4> QED
        BY <4>1, <4>2
    <3>4. \A s \in reg2.seen : \E x \in E : x.src = s /\ x.id \in reg2.observed
      BY <2>1, <2>4 DEF Following
    <3> QED
      BY <3>1, <3>2, <3>3, <3>4 DEF Following
  <2>7. Fair(reg2, E)
    <3> SUFFICES ASSUME NEW s \in Sources, Truthful(E, s), Paced(E, s)
                 PROVE  reg2.veracity[s] = 100
      BY DEF Fair
    <3>1. reg.veracity[s] = 100
      BY <2>4 DEF Fair
    <3>2. CASE s # r.src
      BY <2>3, <3>1, <3>2
    <3>3. CASE s = r.src
      <4>1. ~Disagrees(r, o.reports)
        BY <1>1, <1>5, <3>3 DEF Truthful
      <4>2. Cardinality(Around(E, r)) <= RATE_LIMIT
        BY <1>5, <3>3 DEF Paced
      <4>3. Cardinality(W) <= Cardinality(Around(E, r)) /\ Cardinality(W) \in Nat
        BY <1>5, <1>9, <2>4, WindowFits DEF W
      <4>4. IsFiniteSet(Around(E, r)) /\ Cardinality(Around(E, r)) \in Nat
        <5>1. Around(E, r) \subseteq E /\ IsFiniteSet(E)
          BY DEF Around, Ordered
        <5> QED
          BY <5>1, FS_Subset, FS_CardinalityType
      <4>5. ~TooMany(W)
        <5>1. ASSUME Cardinality(W) > RATE_LIMIT PROVE FALSE
          BY <4>2, <4>3, <4>4, <5>1 DEF RATE_LIMIT
        <5> QED
          BY <5>1 DEF TooMany
      <4>6. Disagrees(r, o.reports) = FALSE
        BY <4>1 DEF Disagrees
      <4>7. Moved(100, W, FALSE, Cluster(o.new) /\ r.src \in o.new) = 100
        BY <4>5 DEF Moved, Least, RECOVERY_GAIN
      <4> QED
        BY <2>3, <3>1, <3>3, <4>6, <4>7
    <3> QED
      BY <3>2, <3>3
  <2>8. ASSUME Cardinality(L) >= SYBIL_CLUSTER_MIN, NEW x \in E, x.src \in L,
               x.id \in reg2.observed
        PROVE  Caught(reg2, x.src)
    <3>1. /\ L \subseteq o.new
          /\ \A y \in E : y.src \in L /\ y.id \in reg.observed => Caught(reg, y.src)
      BY <2>5, <2>8 DEF Hearing
    <3>2. CASE x.src # r.src
      <4>1. x.id \in reg.observed
        BY <1>5, <1>7, <2>1, <2>8, <3>2
      <4>2. Caught(reg, x.src) /\ x.src \in Sources
        BY <1>7, <2>8, <3>1, <4>1
      <4> QED
        BY <2>1, <2>3, <3>2, <4>2 DEF Caught
    <3>3. CASE x.src = r.src
      <4>1. Disagrees(r, o.reports) = TRUE
        BY <1>5, <2>8, <3>3 DEF Lying, Disagrees
      <4>2. reg.veracity[r.src] \in 0..100
        BY <2>2
      <4>3. CASE \E y \in E : y.src = r.src /\ y.id \in reg.observed
        <5>1. Caught(reg, r.src)
          BY <2>8, <3>1, <3>3, <4>3
        <5>2. Moved(reg.veracity[r.src], W, TRUE, Cluster(o.new) /\ r.src \in o.new) <= 55
          BY <4>2, <5>1, MovedDown DEF Caught
        <5> QED
          BY <2>1, <2>3, <3>3, <4>1, <5>2 DEF Caught
      <4>4. CASE ~\E y \in E : y.src = r.src /\ y.id \in reg.observed
        <5>1. reg.recent[r.src] = {}
          BY <2>2, <2>4, <4>4 DEF Following
        <5>2. W \subseteq {Mark(r)}
          BY <5>1 DEF W, Window, Mark
        <5>3. Cardinality({Mark(r)}) = 1 /\ IsFiniteSet({Mark(r)})
          BY FS_Singleton
        <5>4. Cardinality(W) <= 1 /\ Cardinality(W) \in Nat
          BY <5>2, <5>3, FS_Subset, FS_CardinalityType
        <5>5. ~TooMany(W)
          BY <5>4 DEF TooMany, RATE_LIMIT
        <5>6. Cluster(o.new) /\ r.src \in o.new
          <6>1. IsFiniteSet(o.new)
            <7>1. o.new \subseteq Sources
              BY DEF Loop
            <7>2. IsFiniteSet(Sources)
              BY SourcesFinite
            <7> QED
              BY <7>1, <7>2, FS_Subset
          <6>2. Cardinality(L) <= Cardinality(o.new) /\ Cardinality(o.new) \in Nat
            BY <3>1, <6>1, FS_Subset, FS_CardinalityType
          <6>3. Cardinality(L) \in Nat
            BY LyingIsFinite
          <6>4. Cardinality(o.new) >= SYBIL_CLUSTER_MIN
            BY <2>8, <6>2, <6>3 DEF SYBIL_CLUSTER_MIN
          <6> QED
            BY <2>8, <3>1, <3>3, <6>4 DEF Cluster
        <5>7. Moved(reg.veracity[r.src], W, TRUE, Cluster(o.new) /\ r.src \in o.new) <= 55
          BY <4>2, <5>5, <5>6, MovedDown
        <5> QED
          BY <2>1, <2>3, <3>3, <4>1, <5>7 DEF Caught
      <4> QED
        BY <4>3, <4>4
    <3> QED
      BY <3>2, <3>3
  <2>9. Wary(reg2, E)
    <3> SUFFICES ASSUME NEW i \in Nat, \A x \in Of(E, i) : x.id \in reg2.observed,
                        Cardinality(Lying(E, Of(E, i))) >= SYBIL_CLUSTER_MIN,
                        NEW s \in Lying(E, Of(E, i))
                 PROVE  Caught(reg2, s)
      BY DEF Wary
    <3>1. s \in Sources /\ \A x \in E : x.src = s => x \in Of(E, i)
      BY DEF Lying
    <3>2. PICK x \in E : x.src = s /\ x \in Of(E, i)
      BY <3>1 DEF Lying
    <3>3. CASE i = j
      BY <1>1, <2>8, <3>2, <3>3
    <3>4. CASE i # j
      <4>1. \A y \in Of(E, i) : y.id \in reg.observed
        <5> SUFFICES ASSUME NEW y \in Of(E, i) PROVE y.id \in reg.observed
          OBVIOUS
        <5>1. y \in E /\ y # r
          BY <1>5, <3>4 DEF Of
        <5> QED
          BY <1>5, <1>7, <2>1, <5>1
      <4>2. Caught(reg, s)
        BY <2>4, <4>1 DEF Wary
      <4>3. s # r.src
        BY <1>5, <3>1, <3>4 DEF Of
      <4> QED
        BY <2>1, <2>3, <3>1, <4>2, <4>3 DEF Caught
    <3> QED
      BY <3>3, <3>4
  <2>10. Hearing(reg2, E, o2)
    <3> HIDE DEF o2, L
    <3>1. Unheard(reg2, E) \subseteq o2.todo
      BY <1>6, <2>5 DEF Hearing
    <3>2. L \subseteq o.new
      BY <2>5 DEF Hearing, L
    <3> QED
      BY <1>6, <2>8, <3>1, <3>2 DEF Hearing, L
  <2> QED
    BY <2>6, <2>7, <2>9, <2>10 DEF Sane
<1> QED
  BY <1>8, <1>9

(* So does its end. *)
LEMMA SaneSettled ==
    ASSUME NEW reg \in Registry, NEW E, Sane(reg, E), NEW reports, reports \subseteq E,
           Unheard(reg, E) = {}
    PROVE  /\ Sane(Settled(reg, Present(reports)), E)
           /\ Unheard(Settled(reg, Present(reports)), E) = {}
<1> DEFINE reg2 == Settled(reg, Present(reports))
<1>1. /\ reg2.observed = reg.observed /\ reg2.known = reg.known
      /\ reg2.seen = reg.seen \cup Present(reports)
      /\ reg2.recent = reg.recent /\ reg2.veracity = reg.veracity
  <2> DEFINE a == Available(reg, Present(reports))
  <2> HIDE DEF a
  <2>1. reg2 = [reg EXCEPT !.availability = a, !.seen = @ \cup Present(reports)]
    BY DEF Settled, a
  <2> QED
    BY <2>1 DEF Registry
<1> HIDE DEF reg2
<1>2. \A s \in Present(reports) : \E r \in E : r.src = s /\ r.id \in reg.observed
  BY DEF Present, Unheard
<1>3. Following(reg2, E)
  BY <1>1, <1>2 DEF Sane, Following
<1>4. Fair(reg2, E)
  BY <1>1 DEF Sane, Fair
<1>5. Wary(reg2, E)
  BY <1>1 DEF Sane, Wary, Caught
<1>6. Unheard(reg2, E) = {}
  BY <1>1 DEF Unheard
<1> QED
  BY <1>3, <1>4, <1>5, <1>6 DEF Sane, reg2

(* observe() is called with all there is new, or with nothing new. *)
LEMMA HearingStarts ==
    ASSUME NEW reg \in Registry, NEW E, Ordered(E), Sane(reg, E),
           NEW i \in Nat, Of(E, i) # {}, Unheard(reg, E) \in {{}, Of(E, i)}
    PROVE  Hearing(reg, E, [on |-> TRUE, live |-> TRUE, reports |-> Of(E, i),
                            todo |-> Of(E, i), new |-> Present(Of(E, i)) \ reg.seen])
<1> DEFINE S == Of(E, i)
<1> DEFINE new == Present(S) \ reg.seen
<1> DEFINE L == Lying(E, S)
<1>1. ASSUME Unheard(reg, E) # {}
      PROVE  /\ L \subseteq new
             /\ \A r \in E : r.src \in L => r.id \notin reg.observed
  <2>1. Unheard(reg, E) = S
    BY <1>1
  <2>2. ASSUME NEW r \in E, r.src \in L
        PROVE  r.id \notin reg.observed
    <3>1. r \in S
      BY <2>2 DEF Lying
    <3> QED
      BY <2>1, <3>1 DEF Unheard
  <2>3. ASSUME NEW s \in L
        PROVE  s \in new
    <3>1. PICK r \in E : r.src = s /\ r \in S
      BY DEF Lying
    <3>2. s \in Present(S)
      BY <3>1 DEF Present
    <3>3. s \notin reg.seen
      BY <2>2 DEF Sane, Following
    <3> QED
      BY <3>2, <3>3
  <2> QED
    BY <2>2, <2>3
<1> HIDE DEF new, S, L
<1> SUFFICES Hearing(reg, E, [on |-> TRUE, live |-> TRUE, reports |-> S, todo |-> S, new |-> new])
  BY DEF S, new
<1>2. S # {} /\ S = Of(E, i) /\ Unheard(reg, E) \subseteq S
  BY DEF S
<1> QED
  BY <1>1, <1>2 DEF Hearing, L

-----------------------------------------------------------------------------
(* A session and its registry *)

Fresh(E, n) == {r \in E : r.id > n}

Session(reg, evs, now) ==
    /\ evs \in Seq(Event) /\ \A k \in 1..Len(evs) : evs[k].id = k
    /\ Ordered(Range(evs)) /\ \A r \in Range(evs) : r.time <= now
    /\ Sane(reg, Range(evs))

LEMMA SessionFacts ==
    ASSUME NEW reg, NEW evs, NEW now, Session(reg, evs, now)
    PROVE  /\ Len(evs) \in Nat /\ Range(evs) \subseteq Event
           /\ \A r \in Range(evs) : r.id \in 1..Len(evs) /\ evs[r.id] = r
           /\ \A k \in 1..Len(evs) : evs[k] \in Range(evs) /\ evs[k].id = k
           /\ Fresh(Range(evs), Len(evs)) = {}
<1>1. evs \in Seq(Event) /\ \A k \in 1..Len(evs) : evs[k].id = k
  BY DEF Session
<1>2. Len(evs) \in Nat /\ DOMAIN evs = 1..Len(evs)
  BY <1>1, LenProperties
<1>3. \A r \in Range(evs) : r.id \in 1..Len(evs) /\ evs[r.id] = r
  BY <1>1, <1>2 DEF Range
<1>4. \A k \in 1..Len(evs) : evs[k] \in Range(evs)
  BY <1>2 DEF Range
<1>5. Range(evs) \subseteq Event
  BY <1>1, RangeOfSeq
<1> QED
  BY <1>1, <1>2, <1>3, <1>4, <1>5 DEF Fresh

(* A report is appended. *)
LEMMA Appended ==
    ASSUME NEW reg \in Registry, NEW evs, NEW now \in Nat, Session(reg, evs, now),
           NEW e \in Event, e.id = Len(evs) + 1, now <= e.time
    PROVE  /\ Session(reg, Append(evs, e), e.time)
           /\ Range(Append(evs, e)) = Range(evs) \cup {e}
           /\ Len(Append(evs, e)) = Len(evs) + 1
           /\ SubSeq(Append(evs, e), 1, Len(evs)) = evs
           /\ Unheard(reg, Range(Append(evs, e))) = Unheard(reg, Range(evs)) \cup {e}
           /\ \A n \in 0..Len(evs) :
                  Fresh(Range(Append(evs, e)), n) = Fresh(Range(evs), n) \cup {e}
<1> DEFINE ev2 == Append(evs, e)
<1> DEFINE E == Range(evs)
<1>1. evs \in Seq(Event) /\ Ordered(E) /\ Sane(reg, E) /\ \A r \in E : r.time <= now
  BY DEF Session
<1>2. /\ Len(evs) \in Nat /\ E \subseteq Event
      /\ \A r \in E : r.id \in 1..Len(evs) /\ evs[r.id] = r
      /\ \A k \in 1..Len(evs) : evs[k] \in E /\ evs[k].id = k
  BY SessionFacts
<1>3. /\ ev2 \in Seq(Event) /\ Len(ev2) = Len(evs) + 1 /\ ev2[Len(evs) + 1] = e
      /\ \A k \in 1..Len(evs) : ev2[k] = evs[k]
  BY <1>1, AppendProperties
<1>4. DOMAIN ev2 = 1..Len(ev2) /\ DOMAIN evs = 1..Len(evs)
  BY <1>1, <1>3, LenProperties
<1>5. Range(ev2) = E \cup {e}
  <2> HIDE DEF ev2
  <2> QED
    BY <1>2, <1>3, <1>4 DEF Range
<1>6. \A k \in 1..Len(ev2) : ev2[k].id = k
  BY <1>2, <1>3
<1>7. \A r \in E : r.id < e.id /\ r.time <= e.time
  <2> SUFFICES ASSUME NEW r \in E PROVE r.id < e.id /\ r.time <= e.time
    OBVIOUS
  <2>1. r.time \in Nat /\ e.time \in Nat /\ r.time <= now /\ r.id \in 1..Len(evs)
    BY <1>1, <1>2 DEF Event
  <2> QED
    BY <1>2, <2>1
<1>8. e.id \in Nat /\ e.time \in Nat /\ \A r \in E : r.id \in Nat /\ r.time \in Nat
  BY <1>2 DEF Event
<1>9. Ordered(E \cup {e})
  <2>1. IsFiniteSet(E \cup {e})
    BY <1>1, FS_AddElement DEF Ordered
  <2>2. \A q, r \in E \cup {e} : (q.id = r.id => q = r) /\ (q.id <= r.id => q.time <= r.time)
    BY <1>1, <1>7, <1>8 DEF Ordered
  <2> HIDE DEF E
  <2> QED
    BY <1>2, <2>1, <2>2 DEF Ordered
<1>10. Sane(reg, E \cup {e}) /\ Unheard(reg, E \cup {e}) = Unheard(reg, E) \cup {e}
  <2> HIDE DEF E
  <2> QED
    BY <1>1, <1>7, <1>9, SaneGrows
<1>11. \A r \in E \cup {e} : r.time <= e.time
  BY <1>7, <1>8
<1>12. Session(reg, ev2, e.time)
  <2> HIDE DEF ev2, E
  <2> QED
    BY <1>3, <1>5, <1>6, <1>9, <1>10, <1>11 DEF Session
<1>13. SubSeq(ev2, 1, Len(evs)) = evs
  <2> HIDE DEF ev2
  <2>1. \A k \in 1..Len(evs) : ev2[k] \in Event
    BY <1>2, <1>3
  <2>2. /\ SubSeq(ev2, 1, Len(evs)) \in Seq(Event)
        /\ Len(SubSeq(ev2, 1, Len(evs))) = IF 1 <= Len(evs) THEN Len(evs) - 1 + 1 ELSE 0
        /\ \A i \in 1..(Len(evs) - 1 + 1) : SubSeq(ev2, 1, Len(evs))[i] = ev2[1 + i - 1]
    BY <1>2, <2>1, SubSeqProperties
  <2> DEFINE q == SubSeq(ev2, 1, Len(evs))
  <2>3. q \in Seq(Event) /\ Len(q) = Len(evs) /\ \A i \in 1..Len(evs) : q[i] = ev2[i]
    BY <1>2, <2>2
  <2> HIDE DEF q
  <2>4. q = evs
    BY <1>1, <1>3, <2>3, SeqEqual
  <2> QED
    BY <2>4 DEF q
<1>14. \A n \in 0..Len(evs) : Fresh(E \cup {e}, n) = Fresh(E, n) \cup {e}
  BY <1>2 DEF Fresh
<1> QED
  BY <1>3, <1>5, <1>10, <1>12, <1>13, <1>14

(* What a batch takes up: the reports after the cursor. *)
LEMMA TakenUp ==
    ASSUME NEW reg, NEW evs, NEW now, Session(reg, evs, now), NEW n \in 0..Len(evs)
    PROVE  Range(SubSeq(evs, n + 1, Len(evs))) = Fresh(Range(evs), n)
<1> DEFINE q == SubSeq(evs, n + 1, Len(evs))
<1>1. /\ Len(evs) \in Nat /\ Range(evs) \subseteq Event
      /\ \A r \in Range(evs) : r.id \in 1..Len(evs) /\ evs[r.id] = r
      /\ \A k \in 1..Len(evs) : evs[k] \in Range(evs) /\ evs[k].id = k
  BY SessionFacts
<1>2. \A k \in (n + 1)..Len(evs) : evs[k] \in Event
  BY <1>1
<1>3. /\ q \in Seq(Event)
      /\ Len(q) = IF n + 1 <= Len(evs) THEN Len(evs) - (n + 1) + 1 ELSE 0
      /\ \A i \in 1..(Len(evs) - (n + 1) + 1) : q[i] = evs[(n + 1) + i - 1]
  BY <1>1, <1>2, SubSeqProperties
<1> HIDE DEF q
<1>4. Len(q) = Len(evs) - n /\ \A i \in 1..(Len(evs) - n) : q[i] = evs[n + i]
  BY <1>1, <1>3
<1>5. DOMAIN q = 1..(Len(evs) - n)
  BY <1>3, <1>4, LenProperties
<1>6. ASSUME NEW r \in Range(q)
      PROVE  r \in Fresh(Range(evs), n)
  <2>1. PICK i \in 1..(Len(evs) - n) : r = q[i]
    BY <1>5 DEF Range
  <2>2. r = evs[n + i] /\ n + i \in 1..Len(evs) /\ n + i > n
    BY <1>1, <1>4, <2>1
  <2> QED
    BY <1>1, <2>2 DEF Fresh
<1>7. ASSUME NEW r \in Fresh(Range(evs), n)
      PROVE  r \in Range(q)
  <2>1. r.id \in 1..Len(evs) /\ r.id > n /\ evs[r.id] = r
    BY <1>1 DEF Fresh
  <2> DEFINE i == r.id - n
  <2>2. i \in 1..(Len(evs) - n) /\ n + i = r.id
    BY <1>1, <2>1
  <2>3. q[i] = r
    BY <1>4, <2>1, <2>2
  <2> QED
    BY <1>5, <2>2, <2>3 DEF Range
<1> QED
  BY <1>6, <1>7 DEF q

-----------------------------------------------------------------------------
(* One client at a time *)

\* Requests are served one after the other, and every new session has a registry
\* of its own.
Serial == (\A b, c \in Clients : b = c) /\ "start" \notin Requests

Stage(c) ==
    LET t == task[c]
        o == loop[c]
        new == Unheard(trust, Range(events)) IN
    /\ o.on => /\ t.kind \in {"deciding", "reoptimise", "whatIf"}
               /\ t.due = {} /\ Hearing(trust, Range(events), o)
    /\ ~o.on => /\ t.kind \in {"idle", "reoptimise", "whatIf"} => new = {}
                /\ t.kind = "deciding" => t.due = new
                /\ new # {} => \E i \in Nat : new = Of(Range(events), i)
    /\ t.kind \in {"flood", "batch"} => new = Fresh(Range(events), cursor) /\ new # {}
    /\ t.kind = "flood" => new = Of(Range(events), t.inc)
    /\ t.kind \in {"idle", "deciding", "reoptimise"} => cursor = Len(events)
    /\ t.kind = "whatIf" =>
          LET before == SubSeq(events, 1, saved[c].length) IN
          /\ cursor = saved[c].length /\ Len(events) = cursor + 1
          /\ Session(saved[c].trust, before, saved[c].clock) /\ Len(before) = cursor
          /\ Unheard(saved[c].trust, Range(before)) = {}

TrustInv == /\ Session(trust, events, clock)
            /\ cursor \in 0..Len(events)
            /\ \A c \in Clients : Stage(c)

LEMMA EmptySession == Session(NewRegistry, <<>>, 0) /\ Unheard(NewRegistry, Range(<<>>)) = {}
<1>1. Range(<<>>) = {} /\ <<>> \in Seq(Event) /\ Len(<<>>) = 0
  BY EmptySeq DEF Range
<1>2. Ordered({})
  BY FS_EmptySet DEF Ordered
<1>3. Following(NewRegistry, {})
  BY DEF Following, NewRegistry
<1>4. Fair(NewRegistry, {})
  BY DEF Fair, NewRegistry
<1>5. Wary(NewRegistry, {})
  <2> SUFFICES ASSUME NEW i \in Nat, NEW s \in Lying({}, Of({}, i)) PROVE FALSE
    BY DEF Wary
  <2> QED
    BY DEF Lying
<1> QED
  BY <1>1, <1>2, <1>3, <1>4, <1>5 DEF Session, Sane, Unheard

LEMMA OfIsReportsFor == \A i : ReportsFor(i) = Of(Range(events), i)
BY DEF ReportsFor, Of

(* An idle client appends the first report of a new incident. *)
LEMMA FirstReport ==
    ASSUME TrustTypeOK, Session(trust, events, clock), Unheard(trust, Range(events)) = {},
           NEW e \in Event, e.id = Len(events) + 1, clock <= e.time, e.inc = NextIncident
    PROVE  /\ Session(trust, Append(events, e), e.time)
           /\ Range(Append(events, e)) = Range(events) \cup {e}
           /\ Len(Append(events, e)) = Len(events) + 1
           /\ SubSeq(Append(events, e), 1, Len(events)) = events
           /\ Unheard(trust, Range(Append(events, e))) = {e}
           /\ Fresh(Range(Append(events, e)), Len(events)) = {e}
           /\ Of(Range(Append(events, e)), e.inc) = {e}
           /\ Len(events) \in Nat
<1>1. Len(events) \in Nat /\ Fresh(Range(events), Len(events)) = {}
  BY SessionFacts
<1>2. trust \in Registry /\ clock \in Nat /\ events \in Seq(Event)
  BY DEF TrustTypeOK
<1>3. /\ Session(trust, Append(events, e), e.time)
      /\ Range(Append(events, e)) = Range(events) \cup {e}
      /\ Len(Append(events, e)) = Len(events) + 1
      /\ SubSeq(Append(events, e), 1, Len(events)) = events
      /\ Unheard(trust, Range(Append(events, e))) = Unheard(trust, Range(events)) \cup {e}
      /\ \A n \in 0..Len(events) :
             Fresh(Range(Append(events, e)), n) = Fresh(Range(events), n) \cup {e}
  BY <1>2, Appended
<1>4. Of(Range(events), e.inc) = {}
  BY <1>2, NextIsFresh DEF Of, Incidents
<1>5. Of(Range(events) \cup {e}, e.inc) = {e}
  BY <1>4, OfGrows
<1>6. Fresh(Range(Append(events, e)), Len(events)) = {} \cup {e}
  <2>1. Len(events) \in 0..Len(events)
    BY <1>1
  <2> QED
    BY <1>1, <1>3, <2>1
<1> QED
  BY <1>1, <1>3, <1>5, <1>6

LEMMA TrustInvInit == TrustInit => TrustInv
<1> SUFFICES ASSUME TrustInit PROVE TrustInv
  OBVIOUS
<1>1. /\ events = <<>> /\ clock = 0 /\ cursor = 0 /\ trust = NewRegistry
      /\ task = [c \in Clients |-> AtRest] /\ loop = [c \in Clients |-> NoLoop]
      /\ Len(events) = 0
  BY EmptySeq DEF TrustInit
<1>2. \A c \in Clients : task[c].kind = "idle" /\ loop[c].on = FALSE
  BY <1>1 DEF AtRest, NoLoop
<1>3. Session(trust, events, clock) /\ Unheard(trust, Range(events)) = {}
  BY <1>1, EmptySession
<1>4. \A c \in Clients : Stage(c)
  BY <1>1, <1>2, <1>3 DEF Stage
<1> QED
  BY <1>1, <1>3, <1>4 DEF TrustInv

\* What the invariant says of a client that is alone.
LEMMA TrustInvFor ==
    ASSUME Serial, NEW c \in Clients, Session(trust, events, clock),
           cursor \in 0..Len(events), Stage(c)
    PROVE  TrustInv
BY DEF Serial, TrustInv

LEMMA StepInject ==
    ASSUME Serial, TrustTypeOK, TrustInv, NEW c \in Clients,
           Inject(c) \/ Replay(c) \/ Flood(c)
    PROVE  TrustInv'
<1>1. /\ task[c].kind = "idle" /\ ~loop[c].on /\ cursor = Len(events)
      /\ Unheard(trust, Range(events)) = {} /\ Session(trust, events, clock)
      /\ UNCHANGED <<cursor, trust, loop, saved>>
  BY DEF Inject, Replay, Flood, Asks, Is, TrustInv, Stage
<1>2. /\ NextIncident \in Nat /\ Severities \subseteq 1..3 /\ Gap \in Nat /\ clock \in Nat
      /\ Len(events) \in Nat /\ events \in Seq(Event) /\ trust \in Registry
      /\ task \in [Clients -> Task]
  BY <1>1, TrustAssumption, NextIsFresh, SessionFacts DEF TrustAssumption, TrustTypeOK
\* A first report, and what is said of it.
<1>3. ASSUME NEW src \in Sources, NEW time \in Nat, clock <= time, NEW sev \in 1..3,
             NEW e, e = Report(1, NextIncident, src, time, sev)
      PROVE  /\ e \in Event /\ e.id = Len(events) + 1 /\ e.time = time /\ e.inc = NextIncident
             /\ Session(trust, Append(events, e), time)
             /\ Range(Append(events, e)) = Range(events) \cup {e}
             /\ Len(Append(events, e)) = Len(events) + 1
             /\ Unheard(trust, Range(Append(events, e))) = {e}
             /\ Fresh(Range(Append(events, e)), Len(events)) = {e}
             /\ Of(Range(Append(events, e)), NextIncident) = {e}
  <2>1. e \in Event /\ e.id = Len(events) + 1 /\ e.time = time /\ e.inc = NextIncident
    BY <1>2, <1>3, ReportType DEF Report
  <2> QED
    BY <1>1, <1>3, <2>1, FirstReport
\* The stage after one or two reports of a new incident.
<1>4. ASSUME Session(trust, events', clock'), cursor <= Len(events'), Len(events') \in Nat,
             task'[c].kind \in {"flood", "batch"},
             task'[c].kind = "flood" => task'[c].inc = NextIncident,
             Unheard(trust, Range(events')) # {},
             Unheard(trust, Range(events')) = Fresh(Range(events'), cursor),
             Unheard(trust, Range(events')) = Of(Range(events'), NextIncident)
      PROVE  TrustInv'
  <2>1. Stage(c)'
    BY <1>1, <1>2, <1>4 DEF Stage
  <2>2. cursor' \in 0..Len(events')
    BY <1>1, <1>2, <1>4
  <2> QED
    BY <1>1, <1>4, <2>1, <2>2, TrustInvFor DEF Serial, TrustInv
<1>5. ASSUME Inject(c)
      PROVE  TrustInv'
  <2>1. PICK sev \in Severities, multi \in BOOLEAN :
           LET first  == Report(1, NextIncident, Sensor, clock + 1, sev)
               second == Report(2, NextIncident, Alt, clock + 2, Bumped(sev))
               n == IF multi THEN 2 ELSE 1 IN
           /\ events' = IF multi THEN Append(Append(events, first), second)
                                 ELSE Append(events, first)
           /\ clock' = clock + n
           /\ Goes(c, "batch")
    BY <1>5 DEF Inject
  <2> DEFINE e == Report(1, NextIncident, Sensor, clock + 1, sev)
  <2> DEFINE f == Report(2, NextIncident, Alt, clock + 2, Bumped(sev))
  <2> DEFINE one == Append(events, e)
  <2>2. /\ e \in Event /\ e.id = Len(events) + 1 /\ e.time = clock + 1 /\ e.inc = NextIncident
        /\ Session(trust, one, clock + 1) /\ Range(one) = Range(events) \cup {e}
        /\ Len(one) = Len(events) + 1
        /\ Unheard(trust, Range(one)) = {e} /\ Fresh(Range(one), Len(events)) = {e}
        /\ Of(Range(one), NextIncident) = {e}
    <3>1. clock + 1 \in Nat /\ clock <= clock + 1 /\ sev \in 1..3 /\ Sensor \in Sources
      BY <1>2, SourcesNamed
    <3> HIDE DEF e
    <3>2. e = Report(1, NextIncident, Sensor, clock + 1, sev)
      BY DEF e
    <3> QED
      BY <1>3, <3>1, <3>2
  <2>3. task'[c].kind = "batch"
    BY <1>2, <2>1 DEF Goes, AtRest
  <2>4. CASE ~multi
    <3>1. events' = one /\ clock' = clock + 1
      BY <2>1, <2>4
    <3> HIDE DEF e, f, one
    <3>2. /\ Unheard(trust, Range(events')) = {e} /\ Fresh(Range(events'), cursor) = {e}
          /\ Of(Range(events'), NextIncident) = {e}
      BY <1>1, <2>2, <3>1
    <3>4. Session(trust, events', clock')
      BY <2>2, <3>1
    <3>5. cursor <= Len(events') /\ Len(events') \in Nat
      BY <1>1, <1>2, <2>2, <3>1
    <3>3. /\ Unheard(trust, Range(events')) # {}
          /\ Unheard(trust, Range(events')) = Fresh(Range(events'), cursor)
          /\ Unheard(trust, Range(events')) = Of(Range(events'), NextIncident)
      BY <3>2
    <3> QED
      BY <1>4, <2>3, <3>3, <3>4, <3>5
  <2>5. CASE multi
    <3>1. events' = Append(one, f) /\ clock' = clock + 2
      BY <2>1, <2>5
    <3>2. Bumped(sev) \in 1..3
      BY <1>2, BumpedType
    <3>3. f \in Event
      BY <1>2, <3>2, SourcesNamed, ReportType
    <3>4. f.id = Len(one) + 1 /\ f.time = clock + 2 /\ f.inc = NextIncident
      <4>1. f.id = Len(events) + 2 /\ f.time = clock + 2 /\ f.inc = NextIncident
        BY DEF Report
      <4> HIDE DEF f, one
      <4> QED
        BY <1>2, <2>2, <4>1
    <3> HIDE DEF e, f, one
    <3> DEFINE now == clock + 1
    <3>5. now \in Nat /\ now <= f.time /\ Session(trust, one, now)
      BY <1>2, <2>2, <3>4
    <3> HIDE DEF now
    <3>6. /\ Session(trust, Append(one, f), f.time)
          /\ Range(Append(one, f)) = Range(one) \cup {f}
          /\ Len(Append(one, f)) = Len(one) + 1
          /\ Unheard(trust, Range(Append(one, f))) = Unheard(trust, Range(one)) \cup {f}
          /\ \A n \in 0..Len(one) : Fresh(Range(Append(one, f)), n) = Fresh(Range(one), n) \cup {f}
      BY <1>2, <3>3, <3>4, <3>5, Appended
    <3>7. Of(Range(one) \cup {f}, NextIncident) = {e} \cup {f}
      BY <2>2, <3>4 DEF Of
    <3>8. Len(events) \in 0..Len(one)
      BY <1>2, <2>2
    <3>9. /\ Unheard(trust, Range(events')) = {e} \cup {f}
          /\ Fresh(Range(events'), cursor) = {e} \cup {f}
          /\ Of(Range(events'), NextIncident) = {e} \cup {f}
          /\ Session(trust, events', clock') /\ Len(events') = Len(one) + 1
      BY <1>1, <2>2, <3>1, <3>4, <3>6, <3>7, <3>8
    <3> QED
      BY <1>1, <1>2, <1>4, <2>2, <2>3, <3>9
  <2> QED
    BY <2>4, <2>5
<1>6. ASSUME Replay(c)
      PROVE  TrustInv'
  <2>1. PICK sev \in Severities, src \in {Sensor, Alt} :
           /\ events' = Append(events, Report(1, NextIncident, src, clock + Gap, sev))
           /\ clock' = clock + Gap /\ Goes(c, "batch")
    BY <1>6 DEF Replay
  <2> DEFINE e == Report(1, NextIncident, src, clock + Gap, sev)
  <2>2. clock + Gap \in Nat /\ clock <= clock + Gap /\ sev \in 1..3 /\ src \in Sources
    BY <1>2, SourcesNamed
  <2>3. e = Report(1, NextIncident, src, clock + Gap, sev) /\ events' = Append(events, e)
    BY <2>1
  <2>4. task'[c].kind = "batch"
    BY <1>2, <2>1 DEF Goes, AtRest
  <2> HIDE DEF e
  <2>5. /\ Session(trust, events', clock + Gap) /\ Len(events') = Len(events) + 1
        /\ Unheard(trust, Range(events')) = {e} /\ Fresh(Range(events'), Len(events)) = {e}
        /\ Of(Range(events'), NextIncident) = {e}
    BY <1>3, <2>2, <2>3
  <2>6. Session(trust, events', clock') /\ cursor <= Len(events') /\ Len(events') \in Nat
    BY <1>1, <1>2, <2>1, <2>5
  <2>7. /\ Unheard(trust, Range(events')) # {}
        /\ Unheard(trust, Range(events')) = Fresh(Range(events'), cursor)
        /\ Unheard(trust, Range(events')) = Of(Range(events'), NextIncident)
    BY <1>1, <2>5
  <2> QED
    BY <1>4, <2>4, <2>6, <2>7
<1>7. ASSUME Flood(c)
      PROVE  TrustInv'
  <2>1. PICK sev \in Severities, n \in Floods :
           /\ events' = Append(events, Report(1, NextIncident, Sensor, clock + 1, sev))
           /\ clock' = clock + 1
           /\ task' = [task EXCEPT ![c] = [AtRest EXCEPT
                         !.kind = "flood", !.left = SubSeq(Fakes, 1, n),
                         !.inc = NextIncident, !.sev = IF sev = 1 THEN 3 ELSE 1]]
    BY <1>7 DEF Flood
  <2> DEFINE e == Report(1, NextIncident, Sensor, clock + 1, sev)
  <2>2. clock + 1 \in Nat /\ clock <= clock + 1 /\ sev \in 1..3 /\ Sensor \in Sources
    BY <1>2, SourcesNamed
  <2>3. e = Report(1, NextIncident, Sensor, clock + 1, sev) /\ events' = Append(events, e)
    BY <2>1
  <2>4. task'[c].kind = "flood" /\ task'[c].inc = NextIncident
    BY <1>2, <2>1 DEF AtRest
  <2> HIDE DEF e
  <2>5. /\ Session(trust, events', clock + 1) /\ Len(events') = Len(events) + 1
        /\ Unheard(trust, Range(events')) = {e} /\ Fresh(Range(events'), Len(events)) = {e}
        /\ Of(Range(events'), NextIncident) = {e}
    BY <1>3, <2>2, <2>3
  <2>6. Session(trust, events', clock') /\ cursor <= Len(events') /\ Len(events') \in Nat
    BY <1>1, <1>2, <2>1, <2>5
  <2>7. /\ Unheard(trust, Range(events')) # {}
        /\ Unheard(trust, Range(events')) = Fresh(Range(events'), cursor)
        /\ Unheard(trust, Range(events')) = Of(Range(events'), NextIncident)
    BY <1>1, <2>5
  <2> QED
    BY <1>4, <2>4, <2>6, <2>7
<1> QED
  BY <1>5, <1>6, <1>7

LEMMA StepFabricate ==
    ASSUME Serial, TrustTypeOK, TrustInv, NEW c \in Clients, Fabricate(c)
    PROVE  TrustInv'
<1> DEFINE t == task[c]
<1> DEFINE U == Unheard(trust, Range(events))
<1>1. /\ t.kind = "flood" /\ ~loop[c].on /\ U = Fresh(Range(events), cursor) /\ U # {}
      /\ U = Of(Range(events), t.inc) /\ Session(trust, events, clock)
      /\ cursor \in 0..Len(events)
      /\ UNCHANGED <<cursor, trust, loop, saved>>
  BY DEF Fabricate, Is, TrustInv, Stage
<1>2. /\ t \in Task /\ task \in [Clients -> Task] /\ clock \in Nat /\ trust \in Registry
      /\ events \in Seq(Event) /\ Len(events) \in Nat
  BY <1>1, SessionFacts DEF TrustTypeOK
<1>3. t.left \in Seq(Sources) /\ t.inc \in Nat /\ t.sev \in 1..3
  BY <1>2 DEF Task
<1>4. CASE t.left = <<>>
  <2>1. Goes(c, "batch") /\ UNCHANGED <<events, clock>>
    BY <1>4 DEF Fabricate
  <2>2. task'[c].kind = "batch"
    BY <1>2, <2>1 DEF Goes, AtRest
  <2>3. Stage(c)'
    BY <1>1, <1>3, <2>1, <2>2 DEF Stage
  <2> QED
    BY <1>1, <2>1, <2>3 DEF TrustInv, Serial
<1>5. CASE t.left # <<>>
  <2> DEFINE e == Report(1, t.inc, Head(t.left), clock + 1, t.sev)
  <2>1. /\ events' = Append(events, e) /\ clock' = clock + 1
        /\ task' = [task EXCEPT ![c].left = Tail(@)]
    BY <1>5 DEF Fabricate
  <2>2. Head(t.left) \in Sources
    BY <1>3, <1>5, HeadTailProperties
  <2>3. e \in Event /\ e.id = Len(events) + 1 /\ e.time = clock + 1 /\ e.inc = t.inc
    <3>1. clock + 1 \in Nat
      BY <1>2
    <3>2. e \in Event
      BY <1>2, <1>3, <2>2, <3>1, ReportType
    <3> QED
      BY <3>2 DEF Report
  <2>4. task'[c].kind = "flood" /\ task'[c].inc = t.inc
    BY <1>1, <1>2, <2>1 DEF Task
  <2> HIDE DEF e
  <2>5. clock <= e.time
    BY <1>2, <2>3
  <2>6. /\ Session(trust, events', e.time)
        /\ Range(events') = Range(events) \cup {e}
        /\ Len(events') = Len(events) + 1
        /\ Unheard(trust, Range(events')) = U \cup {e}
        /\ \A n \in 0..Len(events) : Fresh(Range(events'), n) = Fresh(Range(events), n) \cup {e}
    BY <1>1, <1>2, <2>1, <2>3, <2>5, Appended
  <2>7. Of(Range(events'), t.inc) = U \cup {e}
    BY <1>1, <2>3, <2>6 DEF Of
  <2>8. Fresh(Range(events'), cursor) = U \cup {e}
    BY <1>1, <2>6
  <2> HIDE DEF U, t
  <2>9. Stage(c)'
    BY <1>1, <1>3, <2>4, <2>6, <2>7, <2>8 DEF Stage
  <2>10. Session(trust', events', clock') /\ cursor' \in 0..Len(events')
    BY <1>1, <1>2, <2>1, <2>3, <2>6
  <2> QED
    BY <2>9, <2>10 DEF TrustInv, Serial
<1> QED
  BY <1>4, <1>5

LEMMA Alone ==
    ASSUME Serial, NEW c \in Clients, Stage(c)', Session(trust, events, clock)',
           (cursor \in 0..Len(events))'
    PROVE  TrustInv'
BY DEF TrustInv, Serial

LEMMA StepBatch ==
    ASSUME Serial, TrustTypeOK, TrustInv, NEW c \in Clients, Batch(c)
    PROVE  TrustInv'
<1> DEFINE U == Unheard(trust, Range(events))
<1>1. /\ task[c].kind = "batch" /\ ~loop[c].on /\ U = Fresh(Range(events), cursor)
      /\ U # {} => \E i \in Nat : U = Of(Range(events), i)
      /\ Session(trust, events, clock) /\ cursor \in 0..Len(events)
      /\ UNCHANGED <<events, clock, trust, loop, saved>> /\ cursor' = Len(events)
  BY DEF Batch, Is, TrustInv, Stage
<1>2. task \in [Clients -> Task] /\ Len(events) \in Nat
  BY <1>1, SessionFacts DEF TrustTypeOK
<1>3. task'[c].kind = "deciding" /\ task'[c].due = Range(SubSeq(events, cursor + 1, Len(events)))
  BY <1>2 DEF Batch, AtRest
<1>4. task'[c].due = U
  BY <1>1, <1>3, TakenUp
<1>5. Stage(c)'
  BY <1>1, <1>3, <1>4 DEF Stage
<1> QED
  BY <1>1, <1>2, <1>5, Alone

LEMMA StepDecide ==
    ASSUME Serial, TrustTypeOK, TrustInv, NEW c \in Clients, Decide(c)
    PROVE  TrustInv'
<1> DEFINE U == Unheard(trust, Range(events))
<1> DEFINE due == task[c].due
<1>1. /\ task[c].kind = "deciding" /\ ~loop[c].on /\ due = U /\ due # {}
      /\ Session(trust, events, clock) /\ cursor \in 0..Len(events) /\ cursor = Len(events)
      /\ UNCHANGED <<events, clock, cursor, trust, saved>>
  BY DEF Decide, Is, TrustInv, Stage
<1>2. PICK i \in Nat : U = Of(Range(events), i)
  BY <1>1 DEF TrustInv, Stage
<1>3. task \in [Clients -> Task] /\ loop \in [Clients -> Loop] /\ trust \in Registry
  BY DEF TrustTypeOK
<1>4. First(due) \in due
  <2>1. due \subseteq Event
    BY <1>3 DEF Task
  <2> QED
    BY <1>1, <2>1, FirstIsFirst
<1>5. First(due).inc = i /\ ReportsFor(i) = due /\ \A r \in due : r.inc = i
  BY <1>1, <1>2, <1>4, OfIsReportsFor DEF Of
<1>6. Observe(c, ReportsFor(i)) /\ task' = [task EXCEPT ![c].due = {r \in @ : r.inc # i}]
  BY <1>1, <1>5 DEF Decide
<1>7. task'[c].kind = "deciding" /\ task'[c].due = {}
  BY <1>1, <1>3, <1>5, <1>6 DEF Task
<1>8. Hearing(trust, Range(events), loop'[c]) /\ loop'[c].on
  <2>1. loop'[c] = [on |-> TRUE, live |-> TRUE, reports |-> Of(Range(events), i),
                    todo |-> Of(Range(events), i),
                    new |-> Present(Of(Range(events), i)) \ trust.seen]
    BY <1>3, <1>6, OfIsReportsFor DEF Observe
  <2>2. Ordered(Range(events)) /\ Sane(trust, Range(events))
    BY <1>1 DEF Session
  <2> QED
    BY <1>1, <1>2, <1>3, <2>1, <2>2, HearingStarts
<1>9. Stage(c)'
  BY <1>1, <1>7, <1>8 DEF Stage
<1> QED
  BY <1>1, <1>9, Alone

LEMMA StepReoptimise ==
    ASSUME Serial, TrustTypeOK, TrustInv, NEW c \in Clients, Reoptimise(c)
    PROVE  TrustInv'
<1> DEFINE U == Unheard(trust, Range(events))
<1>1. /\ task[c].kind = "idle" /\ ~loop[c].on /\ U = {}
      /\ Session(trust, events, clock) /\ cursor \in 0..Len(events) /\ cursor = Len(events)
      /\ UNCHANGED <<events, clock, cursor, trust, saved>> /\ Goes(c, "reoptimise")
  BY DEF Reoptimise, Asks, Is, TrustInv, Stage
<1>2. PICK i \in Incidents : Observe(c, ReportsFor(i))
  BY DEF Reoptimise
<1>3. /\ task \in [Clients -> Task] /\ loop \in [Clients -> Loop] /\ trust \in Registry
      /\ events \in Seq(Event)
  BY DEF TrustTypeOK
<1>4. i \in Nat /\ Of(Range(events), i) # {}
  BY <1>3, ReportsAreEvents DEF Incidents, Of
<1>5. task'[c].kind = "reoptimise" /\ task'[c].due = {}
  BY <1>1, <1>3 DEF Goes, AtRest
<1>6. Hearing(trust, Range(events), loop'[c]) /\ loop'[c].on
  <2>1. loop'[c] = [on |-> TRUE, live |-> TRUE, reports |-> Of(Range(events), i),
                    todo |-> Of(Range(events), i),
                    new |-> Present(Of(Range(events), i)) \ trust.seen]
    BY <1>2, <1>3, OfIsReportsFor DEF Observe
  <2>2. Ordered(Range(events)) /\ Sane(trust, Range(events))
    BY <1>1 DEF Session
  <2> QED
    BY <1>1, <1>3, <1>4, <2>1, <2>2, HearingStarts
<1>7. Stage(c)'
  BY <1>1, <1>5, <1>6 DEF Stage
<1> QED
  BY <1>1, <1>7, Alone

LEMMA StepAnswer ==
    ASSUME Serial, TrustTypeOK, TrustInv, NEW c \in Clients, Answer(c)
    PROVE  TrustInv'
<1>1. /\ ~loop[c].on /\ Unheard(trust, Range(events)) = {} /\ Session(trust, events, clock)
      /\ cursor \in 0..Len(events) /\ cursor = Len(events)
      /\ UNCHANGED <<events, clock, cursor, trust, loop, saved>> /\ Goes(c, "idle")
  BY DEF Answer, Is, TrustInv, Stage
<1>2. task'[c].kind = "idle"
  BY <1>1 DEF Goes, AtRest, TrustTypeOK
<1>3. Stage(c)'
  BY <1>1, <1>2 DEF Stage
<1> QED
  BY <1>1, <1>3, Alone

LEMMA StepWeigh ==
    ASSUME Serial, TrustTypeOK, TrustInv, NEW c \in Clients, Weigh(c)
    PROVE  TrustInv'
<1> DEFINE o == loop[c]
<1> DEFINE r == First(o.todo)
<1>1. /\ o.on /\ o.todo # {} /\ o.live /\ Hearing(trust, Range(events), o)
      /\ trust' = Weighed(trust, r, o.reports, o.new)
      /\ loop' = [loop EXCEPT ![c].todo = @ \ {r}]
      /\ UNCHANGED <<events, clock, cursor, task, saved>>
      /\ Session(trust, events, clock) /\ cursor \in 0..Len(events)
      /\ task[c].kind \in {"deciding", "reoptimise", "whatIf"} /\ task[c].due = {}
  BY DEF Weigh, TrustInv, Stage, Hearing
<1>2. trust \in Registry /\ loop \in [Clients -> Loop] /\ o \in Loop
  BY DEF TrustTypeOK
<1>3. Ordered(Range(events)) /\ Sane(trust, Range(events))
  BY <1>1 DEF Session
<1>4. Sane(trust', Range(events)) /\ Hearing(trust', Range(events), [o EXCEPT !.todo = @ \ {r}])
  <2> HIDE DEF o
  <2> QED
    BY <1>1, <1>2, <1>3, SaneWeighed
<1>5. loop'[c] = [o EXCEPT !.todo = @ \ {r}] /\ loop'[c].on
  BY <1>1, <1>2 DEF Loop
<1>6. Session(trust, events, clock)'
  BY <1>1, <1>4 DEF Session
<1>7. Stage(c)'
  <2>1. task[c].kind = "whatIf" =>
          LET before == SubSeq(events, 1, saved[c].length) IN
          /\ cursor = saved[c].length /\ Len(events) = cursor + 1
          /\ Session(saved[c].trust, before, saved[c].clock) /\ Len(before) = cursor
          /\ Unheard(saved[c].trust, Range(before)) = {}
    BY DEF TrustInv, Stage
  <2>2. task[c].kind \in {"idle", "deciding", "reoptimise"} => cursor = Len(events)
    BY DEF TrustInv, Stage
  <2> HIDE DEF o, r
  <2> QED
    BY <1>1, <1>4, <1>5, <2>1, <2>2 DEF Stage
<1> QED
  BY <1>1, <1>6, <1>7, Alone

LEMMA StepSettle ==
    ASSUME Serial, TrustTypeOK, TrustInv, NEW c \in Clients, Settle(c)
    PROVE  TrustInv'
<1> DEFINE o == loop[c]
<1>1. /\ o.on /\ o.todo = {} /\ o.live /\ Hearing(trust, Range(events), o)
      /\ trust' = Settled(trust, Present(o.reports))
      /\ loop' = [loop EXCEPT ![c] = NoLoop]
      /\ UNCHANGED <<events, clock, cursor, task, saved>>
      /\ Session(trust, events, clock) /\ cursor \in 0..Len(events)
      /\ task[c].kind \in {"deciding", "reoptimise", "whatIf"} /\ task[c].due = {}
  BY DEF Settle, TrustInv, Stage, Hearing
<1>2. trust \in Registry /\ loop \in [Clients -> Loop]
  BY DEF TrustTypeOK
<1>3. /\ Sane(trust, Range(events)) /\ Unheard(trust, Range(events)) = {}
      /\ o.reports \subseteq Range(events)
  BY <1>1 DEF Session, Hearing, Of
<1>4. Sane(trust', Range(events)) /\ Unheard(trust', Range(events)) = {}
  <2> HIDE DEF o
  <2> QED
    BY <1>1, <1>2, <1>3, SaneSettled
<1>5. ~loop'[c].on
  BY <1>1, <1>2 DEF NoLoop
<1>6. Session(trust, events, clock)'
  BY <1>1, <1>4 DEF Session
<1>7. Stage(c)'
  <2>1. task[c].kind = "whatIf" =>
          LET before == SubSeq(events, 1, saved[c].length) IN
          /\ cursor = saved[c].length /\ Len(events) = cursor + 1
          /\ Session(saved[c].trust, before, saved[c].clock) /\ Len(before) = cursor
          /\ Unheard(saved[c].trust, Range(before)) = {}
    BY DEF TrustInv, Stage
  <2>2. task[c].kind \in {"idle", "deciding", "reoptimise"} => cursor = Len(events)
    BY DEF TrustInv, Stage
  <2> QED
    BY <1>1, <1>4, <1>5, <2>1, <2>2 DEF Stage
<1> QED
  BY <1>1, <1>6, <1>7, Alone

LEMMA StepEnterWhatIf ==
    ASSUME Serial, TrustTypeOK, TrustInv, NEW c \in Clients, EnterWhatIf(c)
    PROVE  TrustInv'
<1> DEFINE e == Report(1, NextIncident, Sensor, clock + 1, 3)
<1>1. /\ task[c].kind = "idle" /\ ~loop[c].on /\ Unheard(trust, Range(events)) = {}
      /\ Session(trust, events, clock) /\ cursor \in 0..Len(events) /\ cursor = Len(events)
  BY DEF EnterWhatIf, Asks, Is, TrustInv, Stage
<1>2. /\ saved' = [saved EXCEPT ![c] = [trust |-> trust, length |-> Len(events), clock |-> clock]]
      /\ events' = Append(events, e) /\ clock' = clock + 1
      /\ Observe(c, {e}) /\ Goes(c, "whatIf") /\ UNCHANGED <<cursor, trust>>
  BY DEF EnterWhatIf
<1>3. /\ task \in [Clients -> Task] /\ loop \in [Clients -> Loop] /\ saved \in [Clients -> Snapshot]
      /\ trust \in Registry /\ events \in Seq(Event) /\ clock \in Nat /\ NextIncident \in Nat
  BY NextIsFresh DEF TrustTypeOK
<1>4. e \in Event /\ e.id = Len(events) + 1 /\ clock <= e.time /\ e.inc = NextIncident
      /\ e.time = clock + 1
  <2>1. clock + 1 \in Nat /\ clock <= clock + 1 /\ 3 \in 1..3 /\ 1 \in Nat
    BY <1>3
  <2>2. e \in Event
    BY <1>3, <2>1, SourcesNamed, ReportType
  <2> QED
    BY <2>1, <2>2 DEF Report
<1> HIDE DEF e
<1>5. /\ Session(trust, events', e.time) /\ Len(events') = Len(events) + 1
      /\ SubSeq(events', 1, Len(events)) = events /\ Unheard(trust, Range(events')) = {e}
      /\ Of(Range(events'), e.inc) = {e} /\ Len(events) \in Nat
  BY <1>1, <1>2, <1>4, FirstReport
<1>6. Hearing(trust, Range(events'), loop'[c]) /\ loop'[c].on
  <2> DEFINE E == Range(events')
  <2>1. loop'[c] = [on |-> TRUE, live |-> TRUE, reports |-> {e}, todo |-> {e},
                    new |-> Present({e}) \ trust.seen]
    BY <1>2, <1>3 DEF Observe
  <2>2. /\ Ordered(E) /\ Sane(trust, E) /\ e.inc \in Nat
        /\ Of(E, e.inc) = {e} /\ Unheard(trust, E) = {e}
    BY <1>3, <1>4, <1>5 DEF Session
  <2> HIDE DEF E
  <2>3. Of(E, e.inc) # {} /\ Unheard(trust, E) \in {{}, Of(E, e.inc)}
    BY <2>2
  <2>4. Hearing(trust, E, [on |-> TRUE, live |-> TRUE, reports |-> Of(E, e.inc),
                           todo |-> Of(E, e.inc), new |-> Present(Of(E, e.inc)) \ trust.seen])
    BY <1>3, <2>2, <2>3, HearingStarts
  <2> QED
    BY <2>1, <2>2, <2>4 DEF E
<1>7. task'[c].kind = "whatIf" /\ task'[c].due = {}
  BY <1>2, <1>3 DEF Goes, AtRest
<1>8. saved'[c].trust = trust /\ saved'[c].length = Len(events) /\ saved'[c].clock = clock
  BY <1>2, <1>3
<1>9. Stage(c)'
  BY <1>1, <1>2, <1>5, <1>6, <1>7, <1>8 DEF Stage
<1>10. Session(trust, events, clock)' /\ (cursor \in 0..Len(events))'
  BY <1>1, <1>2, <1>4, <1>5
<1> QED
  BY <1>9, <1>10, Alone

LEMMA StepExitWhatIf ==
    ASSUME Serial, TrustTypeOK, TrustInv, NEW c \in Clients, ExitWhatIf(c)
    PROVE  TrustInv'
<1> DEFINE before == SubSeq(events, 1, saved[c].length)
<1>1. /\ task[c].kind = "whatIf" /\ ~loop[c].on
      /\ cursor = saved[c].length /\ Len(events) = cursor + 1 /\ cursor \in 0..Len(events)
      /\ Session(saved[c].trust, before, saved[c].clock) /\ Len(before) = cursor
      /\ Unheard(saved[c].trust, Range(before)) = {}
  BY DEF ExitWhatIf, Is, TrustInv, Stage
<1>2. /\ trust' = saved[c].trust /\ loop' = Orphaned /\ clock' = saved[c].clock /\ cursor' = cursor
      /\ events' = SubSeq(events, 1, Least(Len(events), saved[c].length)) /\ Goes(c, "idle")
  BY DEF ExitWhatIf
<1>3. Least(Len(events), saved[c].length) = saved[c].length
  BY <1>1 DEF Least
<1>4. events' = before
  BY <1>2, <1>3
<1>5. task'[c].kind = "idle" /\ ~loop'[c].on
  BY <1>1, <1>2 DEF Goes, AtRest, Orphaned, TrustTypeOK, Loop
<1> HIDE DEF before
<1>6. Stage(c)'
  BY <1>1, <1>2, <1>4, <1>5 DEF Stage
<1>7. cursor' \in 0..Len(events')
  <2>1. Len(events') = cursor /\ cursor' = cursor
    BY <1>1, <1>2, <1>4
  <2>2. cursor \in Nat
    BY DEF TrustTypeOK
  <2> QED
    BY <2>1, <2>2
<1>8. Session(trust', events', clock')
  BY <1>1, <1>2, <1>4
<1> QED
  BY <1>6, <1>7, <1>8, Alone

LEMMA StepNewSession ==
    ASSUME Serial, TrustTypeOK, TrustInv, NEW c \in Clients, NewSession(c)
    PROVE  TrustInv'
<1>1. /\ task[c].kind = "idle" /\ ~loop[c].on
      /\ events' = <<>> /\ clock' = 0 /\ cursor' = 0 /\ trust' = NewRegistry
      /\ loop' = Orphaned /\ UNCHANGED task
  BY DEF NewSession, Asks, Is, Serial, TrustInv, Stage
<1>2. task'[c].kind = "idle" /\ ~loop'[c].on
  BY <1>1 DEF Orphaned, TrustTypeOK, Loop
<1>3. Len(events') = 0
  BY <1>1, EmptySeq
<1>4. Session(trust, events, clock)' /\ Unheard(trust', Range(events')) = {}
  BY <1>1, EmptySession
<1>5. Stage(c)'
  BY <1>1, <1>2, <1>3, <1>4 DEF Stage
<1> QED
  BY <1>1, <1>3, <1>4, <1>5, Alone

LEMMA TrustInvStep ==
    ASSUME Serial, TrustTypeOK, TrustInv, [TrustNext]_trustVars
    PROVE  TrustInv'
<1>1. CASE UNCHANGED trustVars
  BY <1>1 DEF trustVars, TrustInv, Stage
<1>2. ASSUME NEW c \in Clients,
             \/ Inject(c) \/ Replay(c) \/ Flood(c) \/ Fabricate(c)
             \/ Batch(c) \/ Decide(c) \/ Reoptimise(c) \/ Answer(c)
             \/ Weigh(c) \/ Settle(c)
             \/ EnterWhatIf(c) \/ ExitWhatIf(c) \/ NewSession(c)
      PROVE  TrustInv'
  BY <1>2, StepInject, StepFabricate, StepBatch, StepDecide, StepReoptimise, StepAnswer,
     StepWeigh, StepSettle, StepEnterWhatIf, StepExitWhatIf, StepNewSession
<1> QED
  BY <1>1, <1>2 DEF TrustNext

LEMMA TrustInvHolds ==
    ASSUME Serial
    PROVE  TrustSpec => [](TrustTypeOK /\ TrustInv)
<1>1. TrustInit => TrustInv
  BY TrustInvInit
<1>2. TrustTypeOK /\ TrustInv /\ [TrustNext]_trustVars => TrustInv'
  BY TrustInvStep
<1> QED
  BY <1>1, <1>2, TrustTypeCorrect, PTL DEF TrustSpec

(* A flood that brings a cluster of strangers is seen through, whatever was *)
(* decided again, tried in a sandbox or reset before: the loop of observe() *)
(* knows all of them for strangers when it starts, and the first report of  *)
(* each costs it enough to be flagged for as long as it only contradicts.   *)
THEOREM FloodsAreFlagged ==
    ASSUME Serial
    PROVE  TrustSpec => []FloodIsFlagged
<1>1. ASSUME TrustTypeOK, TrustInv
      PROVE  FloodIsFlagged
  <2> SUFFICES ASSUME NEW i \in Incidents, Heard(i), Cardinality(Liars(i)) >= SYBIL_CLUSTER_MIN,
                      NEW s \in Liars(i)
               PROVE  s \in Flagged(trust)
    BY DEF FloodIsFlagged
  <2> DEFINE E == Range(events)
  <2>1. i \in Nat /\ ReportsFor(i) = Of(E, i)
    BY <1>1, ReportsAreEvents, OfIsReportsFor DEF TrustTypeOK
  <2>2. Liars(i) = Lying(E, Of(E, i))
    <3>1. \A r \in E : r.inc = i <=> r \in Of(E, i)
      BY DEF Of
    <3>2. \A r \in Of(E, i) : r \in E
      BY DEF Of
    <3> HIDE DEF E
    <3>3. Lying(E, Of(E, i)) = {z \in Sources : /\ \E r \in Of(E, i) : r.src = z
                                                /\ \A r \in E : r.src = z =>
                                                       r.inc = i /\ Disagrees(r, Of(E, i))}
      BY <3>1, <3>2 DEF Lying
    <3> QED
      BY <2>1, <3>3 DEF Liars, E
  <2>3. \A r \in Of(E, i) : r.id \in trust.observed
    BY <2>1 DEF Heard
  <2>4. Caught(trust, s)
    BY <1>1, <2>1, <2>2, <2>3 DEF TrustInv, Session, Sane, Wary
  <2>5. s \in Sources /\ trust.veracity[s] \in 0..100
    BY <1>1 DEF Liars, TrustTypeOK, Registry
  <2> QED
    BY <2>4, <2>5 DEF Caught, Flagged, FLAG_THRESHOLD
<1> QED
  BY <1>1, TrustInvHolds, PTL

(* A source that never contradicted the first report of an incident and kept *)
(* to the rate has lost nothing, however often it was observed: the times    *)
(* that observe() remembers are those of reports the registry has observed,  *)
(* and each of them once.                                                    *)
THEOREM CleanSourcesKeepTrust ==
    ASSUME Serial
    PROVE  TrustSpec => []CleanSourceStaysTrusted
<1>1. ASSUME TrustTypeOK, TrustInv
      PROVE  CleanSourceStaysTrusted
  <2> SUFFICES ASSUME NEW s \in Sources, WithinRate(s),
                      \A r \in Range(events) : r.src = s => ~Disagrees(r, ReportsFor(r.inc))
               PROVE  trust.veracity[s] = 100
    BY DEF CleanSourceStaysTrusted
  <2>1. Truthful(Range(events), s)
    BY OfIsReportsFor DEF Truthful
  <2>2. Paced(Range(events), s)
    <3> SUFFICES ASSUME NEW r \in Range(events), r.src = s
                 PROVE  Cardinality(Around(Range(events), r)) <= RATE_LIMIT
      BY DEF Paced
    <3>1. Around(Range(events), r) =
             {q \in Range(events) : /\ q.src = s /\ q.time <= r.time
                                    /\ r.time - q.time <= RATE_WINDOW_SECONDS}
      BY DEF Around
    <3> QED
      BY <3>1 DEF WithinRate
  <2> QED
    BY <1>1, <2>1, <2>2 DEF TrustInv, Session, Sane, Fair
<1> QED
  BY <1>1, TrustInvHolds, PTL
=============================================================================
