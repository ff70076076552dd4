--------------------------- MODULE DecisionsProofs ---------------------------
(***************************************************************************)
(* What the decision service promises, for any number of threads, texts,   *)
(* calibrations, requests and restarts.                                    *)
(***************************************************************************)
EXTENDS Decisions, FiniteSetTheorems, TLAPS

Places == {"idle", "load", "lock", "loading", "predict", "insert", "commit", "record",
           "commit error", "sample", "label", "count", "observe", "failed"}

\* What the stages can come to, and the rows that can hold it.
Decided == {TypedDecision(AnswerOf[t], k) : t \in Texts, k \in Exponents} \cup {NoDecision}
RowT == {DecisionRow(i, t, d) : i \in Nat, t \in Texts, d \in Decided}
            \cup {ErrorRow(i, t) : i \in Nat, t \in Texts}

JobT == [at : Places, id : Nat, text : Texts \cup {""}, route : Routes \cup {"ERROR"},
         decision : Decided]

JobsOK == /\ job \in [Threads -> JobT]
          /\ \A c \in Threads : job[c].at # "idle" => job[c].text \in Texts
TableOK == pending \in [Threads -> Seq(RowT)]
ModelOK == /\ agent \in BOOLEAN /\ loader \in Threads \cup {NoOne} /\ loads \in Nat
MetricsOK == /\ counter \in [lock : Threads \cup {NoOne}, last : Routes \cup {"ERROR"}]
             /\ decisions \in [Routes -> Nat] /\ observed \in Nat
TypeInv == /\ JobsOK /\ TableOK /\ ModelOK /\ MetricsOK
           /\ exponent \in Exponents /\ starts \in Nat /\ requests \in Nat

LEMMA Constants == NoOne \notin Threads /\ Exponents \subseteq Nat
BY DecisionsAssumption DEF DecisionsAssumption, NoOne

LEMMA RouteIsOne == \A d : PolicyRoute(d) \in Routes
BY DEF PolicyRoute, Routes

LEMMA IdleIsJob == NoDecision \in Decided /\ Idle \in JobT /\ Idle.at = "idle"
<1>1. NoDecision \in Decided
  BY DEF Decided
<1> QED BY <1>1 DEF Idle, JobT, Places

\* A thread's request becomes j.
LEMMA JobBecomes ==
    ASSUME JobsOK, NEW c \in Threads, NEW j \in JobT,
           j.at # "idle" => j.text \in Texts,
           job' = [job EXCEPT ![c] = j]
    PROVE  JobsOK'
BY DEF JobsOK

\* A thread's request goes on to another place.
LEMMA JobGoes ==
    ASSUME JobsOK, NEW c \in Threads, NEW place \in Places,
           job[c].at # "idle", Goes(c, place)
    PROVE  JobsOK'
<1> DEFINE j == [job[c] EXCEPT !.at = place]
<1>1. job[c] \in JobT /\ job[c].text \in Texts
  BY DEF JobsOK
<1>2. j \in JobT /\ j.text \in Texts
  BY <1>1 DEF JobT
<1>3. job' = [job EXCEPT ![c] = j]
  BY DEF Goes
<1> HIDE DEF j
<1> QED BY <1>2, <1>3, JobBecomes

\* inc() adds to a count, or to none.
LEMMA CountMoves ==
    ASSUME NEW f \in [Routes -> Nat], NEW l
    PROVE  [f EXCEPT ![l] = @ + 1] \in [Routes -> Nat]
<1>1. CASE l \in Routes
  <2>1. f[l] + 1 \in Nat
    BY <1>1
  <2> QED BY <2>1
<1>2. CASE l \notin Routes
  <2>1. [f EXCEPT ![l] = @ + 1] = f
    BY <1>2
  <2> QED BY <2>1
<1> QED BY <1>1, <1>2

LEMMA EmptyIsSeq == <<>> \in Seq(RowT)
OBVIOUS

\* A thread's pending rows become s.
LEMMA PendingBecomes ==
    ASSUME TableOK, NEW c \in Threads, NEW s \in Seq(RowT),
           pending' = [pending EXCEPT ![c] = s]
    PROVE  TableOK'
<1> DEFINE S == Seq(RowT)
<1>1. pending \in [Threads -> S] /\ s \in S
  BY DEF TableOK
<1> HIDE DEF S
<1>2. pending' \in [Threads -> S]
  BY <1>1
<1> QED BY <1>2 DEF TableOK, S

LEMMA InitType == Init => TypeInv
<1> SUFFICES ASSUME Init PROVE TypeInv
  OBVIOUS
<1>1. JobsOK
  BY IdleIsJob DEF Init, JobsOK, AllIdle
<1>2. TableOK
  BY EmptyIsSeq DEF Init, TableOK, Nothing
<1>3. ModelOK /\ MetricsOK
  BY DEF Init, ModelOK, MetricsOK, Unlocked, NoCount, Routes
<1> QED BY <1>1, <1>2, <1>3, Constants DEF TypeInv, Init

LEMMA StepType == TypeInv /\ [Next]_vars => TypeInv'
<1> SUFFICES ASSUME TypeInv, [Next]_vars PROVE TypeInv'
  OBVIOUS
<1> USE DEF TypeInv
<1>p. {"idle", "load", "lock", "loading", "predict", "insert", "commit", "record",
       "commit error", "sample", "label", "count", "observe", "failed"} = Places
  BY DEF Places
<1>j. \A c \in Threads : job[c] \in JobT
  BY DEF JobsOK
<1>i. ASSUME NEW c \in Threads, job' = [job EXCEPT ![c] = Idle] PROVE JobsOK'
  BY <1>i, IdleIsJob, JobBecomes
<1>1. ASSUME NEW c \in Threads, NEW t \in Texts, Begin(c, t) PROVE TypeInv'
  <2> DEFINE j == [Idle EXCEPT !.at = "load", !.id = requests + 1, !.text = t]
  <2>0. requests + 1 \in Nat /\ Idle \in JobT
    BY IdleIsJob
  <2>1. j \in JobT /\ j.text \in Texts
    BY <2>0, <1>p DEF JobT
  <2>2. job' = [job EXCEPT ![c] = j]
    BY <1>1 DEF Begin
  <2> HIDE DEF j
  <2>3. JobsOK'
    BY <2>1, <2>2, JobBecomes
  <2> QED BY <1>1, <2>3 DEF Begin, table, model, metrics, TableOK, ModelOK, MetricsOK
<1>2. ASSUME NEW c \in Threads, LookForAgent(c) PROVE TypeInv'
  <2>1. JobsOK'
    BY <1>2, <1>p, JobGoes DEF LookForAgent, At
  <2> QED BY <1>2, <2>1 DEF LookForAgent, table, model, metrics, clients, TableOK, ModelOK, MetricsOK
<1>3. ASSUME NEW c \in Threads, LockAgent(c) PROVE TypeInv'
  <2>1. JobsOK'
    BY <1>3, <1>p, JobGoes DEF LockAgent, At
  <2> QED BY <1>3, <2>1 DEF LockAgent, table, metrics, clients, TableOK, ModelOK, MetricsOK
<1>4. ASSUME NEW c \in Threads, Load(c) PROVE TypeInv'
  <2>1. JobsOK'
    BY <1>4, <1>p, JobGoes DEF Load, At
  <2>2. ModelOK'
    <3>1. CASE agent' = TRUE /\ loads' = loads + 1
      BY <1>4, <3>1 DEF Load, ModelOK
    <3>2. CASE UNCHANGED <<agent, loads>>
      BY <1>4, <3>2 DEF Load, ModelOK
    <3> QED BY <1>4, <3>1, <3>2 DEF Load
  <2> QED BY <1>4, <2>1, <2>2 DEF Load, table, metrics, clients, TableOK, MetricsOK
<1>5. ASSUME NEW c \in Threads, Predict(c) PROVE TypeInv'
  <2> DEFINE d == TypedDecision(AnswerOf[job[c].text], exponent)
             j == [job[c] EXCEPT !.at = "insert", !.route = PolicyRoute(d), !.decision = d]
  <2>0. job[c].text \in Texts /\ job[c].at # "idle"
    BY <1>5 DEF Predict, At, JobsOK
  <2>1. d \in Decided
    BY <2>0 DEF Decided
  <2>2. \/ job' = [job EXCEPT ![c] = j]
        \/ Goes(c, "failed")
    BY <1>5 DEF Predict
  <2> HIDE DEF d
  <2>3. j \in JobT /\ j.text \in Texts
    BY <2>0, <2>1, <1>j, <1>p, RouteIsOne DEF JobT
  <2> HIDE DEF j
  <2>4. JobsOK'
    BY <2>0, <2>2, <2>3, <1>p, JobBecomes, JobGoes
  <2> QED BY <1>5, <2>4 DEF Predict, table, model, metrics, clients, TableOK, ModelOK, MetricsOK
<1>6. ASSUME NEW c \in Threads, Insert(c) PROVE TypeInv'
  <2>1. job[c].id \in Nat /\ job[c].text \in Texts /\ job[c].decision \in Decided
    BY <1>6, <1>j DEF Insert, At, JobsOK, JobT
  <2>2. RowOf(c) \in RowT
    BY <2>1 DEF RowT, RowOf
  <2>3. JobsOK'
    BY <1>6, <1>p, JobGoes DEF Insert, At
  <2>4. TableOK'
    <3>1. pending[c] \in Seq(RowT)
      BY DEF TableOK
    <3>2. Append(pending[c], RowOf(c)) \in Seq(RowT)
      BY <2>2, <3>1
    <3>3. pending' = [pending EXCEPT ![c] = Append(pending[c], RowOf(c))]
      BY <1>6 DEF Insert
    <3> QED BY <3>2, <3>3, PendingBecomes
  <2> QED BY <1>6, <2>3, <2>4 DEF Insert, model, metrics, clients, ModelOK, MetricsOK
<1>7. ASSUME NEW c \in Threads, AppendFails(c) PROVE TypeInv'
  <2>1. JobsOK'
    BY <1>7, <1>i, <1>p, JobGoes DEF AppendFails, Raised
  <2>2. TableOK'
    <3>1. UNCHANGED pending \/ pending' = [pending EXCEPT ![c] = <<>>]
      BY <1>7 DEF AppendFails
    <3> QED BY <3>1, EmptyIsSeq, PendingBecomes DEF TableOK
  <2> QED BY <1>7, <2>1, <2>2 DEF AppendFails, model, metrics, ModelOK, MetricsOK
<1>8. ASSUME NEW c \in Threads, Commit(c) PROVE TypeInv'
  <2>1. JobsOK'
    BY <1>8, <1>i, <1>p, JobGoes DEF Commit, At
  <2>2. TableOK'
    BY <1>8, EmptyIsSeq, PendingBecomes DEF Commit
  <2> QED BY <1>8, <2>1, <2>2 DEF Commit, model, metrics, ModelOK, MetricsOK
<1>9. ASSUME NEW c \in Threads, Sample(c) PROVE TypeInv'
  <2>1. JobsOK'
    BY <1>9, <1>p, JobGoes DEF Sample, At
  <2> QED BY <1>9, <2>1 DEF Sample, table, model, clients, TableOK, ModelOK, MetricsOK
<1>10. ASSUME NEW c \in Threads, Label(c) PROVE TypeInv'
  <2>1. JobsOK' /\ job[c].route \in Routes \cup {"ERROR"}
    BY <1>10, <1>p, <1>j, JobGoes DEF Label, At, JobT
  <2> QED BY <1>10, <2>1 DEF Label, table, model, clients, TableOK, ModelOK, MetricsOK
<1>11. ASSUME NEW c \in Threads, Inc(c) PROVE TypeInv'
  <2>1. JobsOK'
    BY <1>11, <1>p, JobGoes DEF Inc, At
  <2>2. decisions' \in [Routes -> Nat]
    BY <1>11, CountMoves DEF Inc, MetricsOK
  <2> QED BY <1>11, <2>1, <2>2 DEF Inc, table, model, clients, TableOK, ModelOK, MetricsOK
<1>12. ASSUME NEW c \in Threads, Answer(c) PROVE TypeInv'
  <2>1. JobsOK'
    BY <1>12, <1>i DEF Answer
  <2>2. counter' \in [lock : Threads \cup {NoOne}, last : Routes \cup {"ERROR"}]
    BY <1>12 DEF Answer, MetricsOK
  <2>3. observed' \in Nat /\ decisions' \in [Routes -> Nat]
    BY <1>12 DEF Answer, MetricsOK
  <2> QED BY <1>12, <2>1, <2>2, <2>3 DEF Answer, table, model, TableOK, ModelOK, MetricsOK
<1>13. ASSUME NEW c \in Threads, CountError(c) PROVE TypeInv'
  <2>1. JobsOK'
    BY <1>13, <1>p, JobGoes DEF CountError, At
  <2> QED BY <1>13, <2>1 DEF CountError, table, model, clients, TableOK, ModelOK, MetricsOK
<1>14. ASSUME NEW c \in Threads, ThreadEnds(c) PROVE TypeInv'
  <2>1. TableOK'
    BY <1>14, EmptyIsSeq, PendingBecomes DEF ThreadEnds
  <2> QED BY <1>14, <2>1 DEF ThreadEnds, model, metrics, clients, JobsOK, ModelOK, MetricsOK
<1>15. CASE Restart
  <2>1. JobsOK'
    BY <1>15, IdleIsJob DEF Restart, JobsOK, AllIdle
  <2>2. TableOK'
    BY <1>15, EmptyIsSeq DEF Restart, TableOK, Nothing
  <2>3. ModelOK' /\ MetricsOK'
    BY <1>15 DEF Restart, ModelOK, MetricsOK, Unlocked, NoCount, Routes
  <2> QED BY <1>15, <2>1, <2>2, <2>3 DEF Restart, clients
<1>16. CASE UNCHANGED vars
  BY <1>16 DEF vars, table, model, metrics, clients, JobsOK, TableOK, ModelOK, MetricsOK
<1> QED BY <1>1, <1>2, <1>3, <1>4, <1>5, <1>6, <1>7, <1>8, <1>9, <1>10, <1>11, <1>12, <1>13,
           <1>14, <1>15, <1>16 DEF Next

(* The state is well typed in every reachable state. *)
THEOREM DecisionsTyped == Spec => []TypeInv
<1>1. Init => TypeInv
  BY InitType
<1>2. TypeInv /\ [Next]_vars => TypeInv'
  BY StepType
<1> QED BY <1>1, <1>2, PTL DEF Spec

-----------------------------------------------------------------------------
(* One load.  The lock is held exactly while a thread loads, and nobody    *)
(* takes it to load a model that is there.                                 *)
LoadInv ==
    /\ loads = IF agent THEN 1 ELSE 0
    /\ \A c \in Threads : At(c, "loading") <=> loader = c
    /\ loader # NoOne => ~agent

\* Nothing of the load is touched and no thread comes to it or leaves it.
LEMMA LoadStays ==
    ASSUME LoadInv, JobsOK, UNCHANGED model, NEW c \in Threads, NEW j,
           job' = [job EXCEPT ![c] = j], ~At(c, "loading"), j.at # "loading"
    PROVE  LoadInv'
BY DEF LoadInv, JobsOK, model, At

LEMMA LoadStep == TypeInv /\ LoadInv /\ [Next]_vars => LoadInv'
<1> SUFFICES ASSUME TypeInv, LoadInv, [Next]_vars PROVE LoadInv'
  OBVIOUS
<1>t. JobsOK /\ NoOne \notin Threads /\ Idle.at = "idle"
  BY Constants, IdleIsJob DEF TypeInv
<1>g. ASSUME NEW c \in Threads, NEW place, Goes(c, place), UNCHANGED model,
             ~At(c, "loading"), place # "loading"
      PROVE  LoadInv'
  <2> DEFINE j == [job[c] EXCEPT !.at = place]
  <2>1. j.at = place /\ job' = [job EXCEPT ![c] = j]
    BY <1>g, <1>t DEF Goes, JobsOK, JobT
  <2> HIDE DEF j
  <2> QED BY <2>1, <1>g, <1>t, LoadStays
<1>i. ASSUME NEW c \in Threads, job' = [job EXCEPT ![c] = Idle], UNCHANGED model,
             ~At(c, "loading")
      PROVE  LoadInv'
  BY <1>i, <1>t, LoadStays
<1>1. ASSUME NEW c \in Threads, NEW t \in Texts, Begin(c, t) PROVE LoadInv'
  <2> DEFINE j == [Idle EXCEPT !.at = "load", !.id = requests + 1, !.text = t]
  <2>1. j.at = "load" /\ job' = [job EXCEPT ![c] = j] /\ UNCHANGED model /\ ~At(c, "loading")
    BY <1>1 DEF Begin, At, Idle
  <2> HIDE DEF j
  <2> QED BY <2>1, <1>t, LoadStays
<1>2. ASSUME NEW c \in Threads, LookForAgent(c) PROVE LoadInv'
  BY <1>2, <1>g DEF LookForAgent, At
<1>3. ASSUME NEW c \in Threads, LockAgent(c) PROVE LoadInv'
  <2>1. CASE agent
    BY <1>3, <2>1, <1>g DEF LockAgent, At, model
  <2>2. CASE ~agent
    <3>1. loader = NoOne /\ loader' = c /\ UNCHANGED <<agent, loads>>
      BY <1>3, <2>2 DEF LockAgent
    <3>2. job' = [job EXCEPT ![c].at = "loading"] /\ job[c] \in JobT
      BY <1>3, <2>2, <1>t DEF LockAgent, Goes, JobsOK
    <3>3. \A d \in Threads : At(d, "loading")' <=> d = c
      BY <3>1, <3>2, <1>t DEF LoadInv, At, JobsOK, JobT
    <3> QED BY <3>1, <3>3, <2>2 DEF LoadInv
  <2> QED BY <2>1, <2>2
<1>4. ASSUME NEW c \in Threads, Load(c) PROVE LoadInv'
  <2>1. loader = c /\ ~agent /\ loads = 0 /\ loader' = NoOne
    BY <1>4, <1>t DEF Load, LoadInv
  <2>2. PICK place \in {"predict", "failed"} : Goes(c, place)
    BY <1>4 DEF Load
  <2>3. \A d \in Threads : ~At(d, "loading")'
    BY <2>1, <2>2, <1>t DEF LoadInv, At, Goes, JobsOK, JobT
  <2>4. \/ agent' = TRUE /\ loads' = 1
        \/ agent' = FALSE /\ loads' = 0
    BY <1>4, <2>1 DEF Load
  <2> QED BY <2>1, <2>3, <2>4, <1>t DEF LoadInv
<1>5. ASSUME NEW c \in Threads, Predict(c) PROVE LoadInv'
  <2> DEFINE d == TypedDecision(AnswerOf[job[c].text], exponent)
             j == [job[c] EXCEPT !.at = "insert", !.route = PolicyRoute(d), !.decision = d]
  <2>1. (job' = [job EXCEPT ![c] = j]) \/ Goes(c, "failed")
    BY <1>5 DEF Predict
  <2>2. UNCHANGED model /\ ~At(c, "loading") /\ job[c] \in JobT
    BY <1>5, <1>t DEF Predict, At, JobsOK
  <2> HIDE DEF d
  <2>3. j.at = "insert"
    BY <2>2 DEF JobT
  <2> HIDE DEF j
  <2> QED BY <2>1, <2>2, <2>3, <1>t, <1>g, LoadStays
<1>6. ASSUME NEW c \in Threads, Insert(c) PROVE LoadInv'
  BY <1>6, <1>g DEF Insert, At
<1>7. ASSUME NEW c \in Threads, AppendFails(c) PROVE LoadInv'
  BY <1>7, <1>g, <1>i DEF AppendFails, Raised, At
<1>8. ASSUME NEW c \in Threads, Commit(c) PROVE LoadInv'
  BY <1>8, <1>g, <1>i DEF Commit, At
<1>9. ASSUME NEW c \in Threads, Sample(c) PROVE LoadInv'
  BY <1>9, <1>g DEF Sample, At
<1>10. ASSUME NEW c \in Threads, Label(c) PROVE LoadInv'
  BY <1>10, <1>g DEF Label, At
<1>11. ASSUME NEW c \in Threads, Inc(c) PROVE LoadInv'
  BY <1>11, <1>g DEF Inc, At
<1>12. ASSUME NEW c \in Threads, Answer(c) PROVE LoadInv'
  BY <1>12, <1>i DEF Answer, At
<1>13. ASSUME NEW c \in Threads, CountError(c) PROVE LoadInv'
  BY <1>13, <1>g DEF CountError, At
<1>14. ASSUME NEW c \in Threads, ThreadEnds(c) PROVE LoadInv'
  BY <1>14 DEF ThreadEnds, LoadInv, model, At
<1>15. CASE Restart
  <2>1. \A c \in Threads : ~At(c, "loading")' /\ c # NoOne
    BY <1>15, <1>t DEF Restart, AllIdle, At
  <2> QED BY <1>15, <2>1 DEF Restart, LoadInv
<1>16. CASE UNCHANGED vars
  BY <1>16 DEF vars, model, LoadInv, At
<1> QED BY <1>1, <1>2, <1>3, <1>4, <1>5, <1>6, <1>7, <1>8, <1>9, <1>10, <1>11, <1>12, <1>13,
           <1>14, <1>15, <1>16 DEF Next

(* However many threads ask for the model at once and however often it     *)
(* failed to load, one start of the process loads it once (_get_agent).    *)
THEOREM ModelLoadedOnce == Spec => []LoadedOnce
<1>1. ASSUME Init PROVE LoadInv
  <2>1. \A c \in Threads : ~At(c, "loading") /\ c # NoOne
    BY <1>1, Constants DEF Init, At, AllIdle, Idle
  <2> QED BY <1>1, <2>1 DEF Init, LoadInv
<1>2. TypeInv /\ LoadInv /\ [Next]_vars => LoadInv'
  BY LoadStep
<1>3. LoadInv => LoadedOnce
  BY DEF LoadInv, LoadedOnce
<1> QED BY <1>1, <1>2, <1>3, DecisionsTyped, PTL DEF Spec

-----------------------------------------------------------------------------
(* The record.  From the INSERT to the answer a decision is in the thread's *)
(* transaction or in the table, with the route the policy gives it; rows    *)
(* are only ever added.                                                     *)
Kept == {"sample", "label", "count", "observe"}
RowFor(c) == DecisionRow(job[c].id, job[c].text, job[c].decision)
OnItsWay(c) ==
    /\ job[c].at \in Kept \cup {"insert", "commit"} => job[c].route = PolicyRoute(job[c].decision)
    /\ At(c, "commit") => RowFor(c) \in Range(pending[c])
    /\ job[c].at \in Kept => RowFor(c) \in rows
RecordInv == (\A c \in Threads : OnItsWay(c)) /\ AnsweredIsOnRecord

\* A step of one thread that answers nobody.
LEMMA RecordStays ==
    ASSUME RecordInv, JobsOK, TableOK, rows \subseteq rows', UNCHANGED answered,
           NEW c \in Threads, NEW j, job' = [job EXCEPT ![c] = j], OnItsWay(c)',
           \A d \in Threads \ {c} : pending'[d] = pending[d]
    PROVE  RecordInv'
<1>1. ASSUME NEW d \in Threads \ {c} PROVE OnItsWay(d)'
  <2>1. job'[d] = job[d] /\ pending'[d] = pending[d] /\ OnItsWay(d)
    BY DEF JobsOK, RecordInv
  <2> QED BY <2>1 DEF OnItsWay, At, RowFor
<1>2. AnsweredIsOnRecord'
  BY DEF RecordInv, AnsweredIsOnRecord
<1> QED BY <1>1, <1>2 DEF RecordInv

\* What a thread's place tells after the step.
LEMMA OnItsWayAt ==
    ASSUME JobsOK, NEW c \in Threads, NEW place, Goes(c, place)
    PROVE  /\ job' = [job EXCEPT ![c] = [job[c] EXCEPT !.at = place]]
           /\ job'[c].at = place /\ job'[c].id = job[c].id /\ job'[c].text = job[c].text
           /\ job'[c].route = job[c].route /\ job'[c].decision = job[c].decision
BY DEF JobsOK, JobT, Goes

LEMMA RecordStep == TypeInv /\ RecordInv /\ [Next]_vars => RecordInv'
<1> SUFFICES ASSUME TypeInv, RecordInv, [Next]_vars PROVE RecordInv'
  OBVIOUS
<1>t. JobsOK /\ TableOK /\ Idle.at = "idle" /\ \A c \in Threads : OnItsWay(c)
  BY IdleIsJob DEF TypeInv, RecordInv
<1>e. ASSUME NEW c \in Threads, NEW place, Goes(c, place), UNCHANGED answered,
             rows \subseteq rows', \A d \in Threads \ {c} : pending'[d] = pending[d],
             place \notin Kept \cup {"insert", "commit"}
      PROVE  RecordInv'
  <2>1. OnItsWay(c)'
    BY <1>e, <1>t, OnItsWayAt DEF OnItsWay, Kept, At
  <2> QED BY <1>e, <1>t, <2>1, OnItsWayAt, RecordStays
<1>k. ASSUME NEW c \in Threads, NEW place \in Kept, Goes(c, place), UNCHANGED answered,
             UNCHANGED table, job[c].at \in Kept
      PROVE  RecordInv'
  <2>1. OnItsWay(c)'
    BY <1>k, <1>t, OnItsWayAt DEF OnItsWay, Kept, At, RowFor, table
  <2> QED BY <1>k, <1>t, <2>1, OnItsWayAt, RecordStays DEF table
<1>i. ASSUME NEW c \in Threads, job' = [job EXCEPT ![c] = Idle], UNCHANGED answered,
             rows \subseteq rows', \A d \in Threads \ {c} : pending'[d] = pending[d]
      PROVE  RecordInv'
  <2>1. job'[c].at = "idle"
    BY <1>i, <1>t DEF JobsOK
  <2>2. OnItsWay(c)'
    BY <2>1 DEF OnItsWay, Kept, At
  <2> QED BY <1>i, <1>t, <2>2, RecordStays
<1>1. ASSUME NEW c \in Threads, NEW t \in Texts, Begin(c, t) PROVE RecordInv'
  <2> DEFINE j == [Idle EXCEPT !.at = "load", !.id = requests + 1, !.text = t]
  <2>1. j.at = "load" /\ job' = [job EXCEPT ![c] = j] /\ UNCHANGED <<table, answered>>
    BY <1>1 DEF Begin, Idle
  <2> HIDE DEF j
  <2>2. OnItsWay(c)'
    BY <2>1, <1>t DEF OnItsWay, Kept, At, JobsOK
  <2> QED BY <2>1, <2>2, <1>t, RecordStays DEF table
<1>2. ASSUME NEW c \in Threads, LookForAgent(c) PROVE RecordInv'
  BY <1>2, <1>e DEF LookForAgent, table, clients, Kept
<1>3. ASSUME NEW c \in Threads, LockAgent(c) PROVE RecordInv'
  BY <1>3, <1>e DEF LockAgent, table, clients, Kept
<1>4. ASSUME NEW c \in Threads, Load(c) PROVE RecordInv'
  BY <1>4, <1>e DEF Load, table, clients, Kept
<1>5. ASSUME NEW c \in Threads, Predict(c) PROVE RecordInv'
  <2> DEFINE d == TypedDecision(AnswerOf[job[c].text], exponent)
             j == [job[c] EXCEPT !.at = "insert", !.route = PolicyRoute(d), !.decision = d]
  <2>1. (job' = [job EXCEPT ![c] = j]) \/ Goes(c, "failed")
    BY <1>5 DEF Predict
  <2>2. UNCHANGED <<table, answered>> /\ job[c] \in JobT
    BY <1>5, <1>t DEF Predict, JobsOK, clients
  <2>3. CASE Goes(c, "failed")
    BY <2>2, <2>3, <1>e DEF table, Kept
  <2>4. CASE job' = [job EXCEPT ![c] = j]
    <3> HIDE DEF d
    <3>1. j.at = "insert" /\ j.route = PolicyRoute(d) /\ j.decision = d
      BY <2>2 DEF JobT
    <3> HIDE DEF j
    <3>2. job'[c] = j
      BY <2>4, <1>t DEF JobsOK
    <3>3. OnItsWay(c)'
      BY <3>1, <3>2 DEF OnItsWay, Kept, At
    <3> QED BY <2>2, <2>4, <3>3, <1>t, RecordStays DEF table
  <2> QED BY <2>1, <2>3, <2>4
<1>6. ASSUME NEW c \in Threads, Insert(c) PROVE RecordInv'
  <2>1. /\ UNCHANGED <<rows, answered>>
        /\ pending' = [pending EXCEPT ![c] = Append(@, RowOf(c))]
        /\ pending[c] \in Seq(RowT)
    BY <1>6, <1>t DEF Insert, clients, TableOK
  <2>2. \A d \in Threads \ {c} : pending'[d] = pending[d]
    BY <2>1, <1>t DEF TableOK
  <2>3. CASE At(c, "insert")
    <3>1. Goes(c, "commit") /\ RowOf(c) = RowFor(c)
      BY <1>6, <2>3 DEF Insert, RowOf, RowFor
    <3>2. RowFor(c)' = RowFor(c)
      BY <3>1, <1>t, OnItsWayAt DEF RowFor
    <3>3. RowFor(c) \in Range(pending'[c])
      <4> DEFINE s == pending[c]
      <4>1. pending'[c] = Append(s, RowFor(c))
        BY <2>1, <3>1, <1>t DEF TableOK
      <4>2. s \in Seq(RowT)
        BY <2>1
      <4> HIDE DEF s
      <4>3. /\ Len(s) + 1 \in DOMAIN Append(s, RowFor(c))
            /\ Append(s, RowFor(c))[Len(s) + 1] = RowFor(c)
        BY <4>2
      <4> QED BY <4>1, <4>3 DEF Range
    <3>4. OnItsWay(c)'
      BY <3>1, <3>2, <3>3, <2>3, <1>t, OnItsWayAt DEF OnItsWay, Kept, At
    <3> QED BY <3>1, <3>4, <2>1, <2>2, <1>t, OnItsWayAt, RecordStays
  <2>4. CASE ~At(c, "insert")
    BY <1>6, <2>1, <2>2, <2>4, <1>e DEF Insert, Kept
  <2> QED BY <2>3, <2>4
<1>7. ASSUME NEW c \in Threads, AppendFails(c) PROVE RecordInv'
  <2>1. UNCHANGED <<rows, answered>> /\ \A d \in Threads \ {c} : pending'[d] = pending[d]
    BY <1>7, <1>t DEF AppendFails, TableOK
  <2> QED BY <1>7, <2>1, <1>e, <1>i DEF AppendFails, Raised, Kept
<1>8. ASSUME NEW c \in Threads, Commit(c) PROVE RecordInv'
  <2>1. /\ rows \subseteq rows' /\ UNCHANGED answered
        /\ \A d \in Threads \ {c} : pending'[d] = pending[d]
    BY <1>8, <1>t DEF Commit, TableOK
  <2>2. CASE At(c, "commit")
    <3>1. Goes(c, "sample") /\ RowFor(c) \in rows'
      BY <1>8, <2>2, <1>t DEF Commit, OnItsWay
    <3>2. OnItsWay(c)'
      BY <3>1, <2>2, <1>t, OnItsWayAt DEF OnItsWay, Kept, At, RowFor
    <3> QED BY <3>1, <3>2, <2>1, <1>t, OnItsWayAt, RecordStays
  <2>3. CASE ~At(c, "commit")
    BY <1>8, <2>1, <2>3, <1>i DEF Commit
  <2> QED BY <2>2, <2>3
<1>9. ASSUME NEW c \in Threads, Sample(c) PROVE RecordInv'
  BY <1>9, <1>k DEF Sample, At, clients, Kept
<1>10. ASSUME NEW c \in Threads, Label(c) PROVE RecordInv'
  BY <1>10, <1>k DEF Label, At, clients, Kept
<1>11. ASSUME NEW c \in Threads, Inc(c) PROVE RecordInv'
  BY <1>11, <1>k DEF Inc, At, clients, Kept
<1>12. ASSUME NEW c \in Threads, Answer(c) PROVE RecordInv'
  <2> DEFINE a == [id |-> job[c].id, start |-> starts, route |-> job[c].route,
                   decision |-> job[c].decision]
  <2>1. UNCHANGED <<rows, pending>> /\ answered' = answered \cup {a}
    BY <1>12 DEF Answer, table
  <2>2. RowFor(c) \in rows /\ job[c].route = PolicyRoute(job[c].decision)
    BY <1>12, <1>t DEF Answer, At, OnItsWay, Kept
  <2>3. /\ RowFor(c).id = a.id /\ RowFor(c).route = a.route
        /\ RowFor(c).decision = a.decision
    BY <2>2 DEF RowFor, DecisionRow
  <2> HIDE DEF a
  <2>4. AnsweredIsOnRecord'
    BY <2>1, <2>2, <2>3 DEF AnsweredIsOnRecord, RecordInv
  <2>5. ASSUME NEW d \in Threads PROVE OnItsWay(d)'
    <3>1. job' = [job EXCEPT ![c] = Idle]
      BY <1>12 DEF Answer
    <3>2. CASE d = c
      <4>1. job'[d].at = "idle"
        BY <3>1, <3>2, <1>t DEF JobsOK
      <4> QED BY <4>1 DEF OnItsWay, At, Kept
    <3>3. CASE d # c
      <4>1. job'[d] = job[d] /\ OnItsWay(d)
        BY <3>1, <3>3, <1>t DEF JobsOK
      <4> QED BY <4>1, <2>1 DEF OnItsWay, At, RowFor
    <3> QED BY <3>2, <3>3
  <2> QED BY <2>4, <2>5 DEF RecordInv
<1>13. ASSUME NEW c \in Threads, CountError(c) PROVE RecordInv'
  BY <1>13, <1>e DEF CountError, table, clients, Kept
<1>14. ASSUME NEW c \in Threads, ThreadEnds(c) PROVE RecordInv'
  <2>1. /\ UNCHANGED <<rows, answered, job>> /\ At(c, "idle")
        /\ \A d \in Threads \ {c} : pending'[d] = pending[d]
    BY <1>14, <1>t DEF ThreadEnds, clients, TableOK
  <2>2. ASSUME NEW d \in Threads PROVE OnItsWay(d)'
    BY <2>1, <1>t DEF OnItsWay, At, RowFor, Kept
  <2> QED BY <2>1, <2>2 DEF RecordInv, AnsweredIsOnRecord
<1>15. CASE Restart
  <2>1. UNCHANGED <<rows, answered>> /\ job' = AllIdle
    BY <1>15 DEF Restart, clients
  <2>2. ASSUME NEW d \in Threads PROVE OnItsWay(d)'
    BY <2>1, <1>t DEF OnItsWay, At, Kept, AllIdle
  <2> QED BY <2>1, <2>2 DEF RecordInv, AnsweredIsOnRecord
<1>16. CASE UNCHANGED vars
  <2>1. UNCHANGED <<rows, pending, answered, job>>
    BY <1>16 DEF vars, table, clients
  <2>2. ASSUME NEW d \in Threads PROVE OnItsWay(d)'
    BY <2>1, <1>t DEF OnItsWay, At, RowFor
  <2> QED BY <2>1, <2>2 DEF RecordInv, AnsweredIsOnRecord
<1> QED BY <1>1, <1>2, <1>3, <1>4, <1>5, <1>6, <1>7, <1>8, <1>9, <1>10, <1>11, <1>12, <1>13,
           <1>14, <1>15, <1>16 DEF Next

(* Every decision a client was given is in the table with its route and its *)
(* values, whatever failed, was rolled back or was restarted since: append  *)
(* commits before decide() answers.                                         *)
THEOREM AnswersAreOnRecord == Spec => []AnsweredIsOnRecord
<1>1. ASSUME Init PROVE RecordInv
  <2>1. answered = {} /\ \A c \in Threads : job[c].at = "idle"
    BY <1>1, IdleIsJob DEF Init, AllIdle
  <2> QED BY <2>1 DEF RecordInv, OnItsWay, AnsweredIsOnRecord, Kept, At
<1>2. TypeInv /\ RecordInv /\ [Next]_vars => RecordInv'
  BY RecordStep
<1>3. RecordInv => AnsweredIsOnRecord
  BY DEF RecordInv
<1> QED BY <1>1, <1>2, <1>3, DecisionsTyped, PTL DEF Spec

-----------------------------------------------------------------------------
(* The counters.  Whoever is between labels() and the answer holds the lock *)
(* and the label is its own; the identifier of a request was given to no    *)
(* other; a counter is ahead of the answers by the request that counted     *)
(* itself and has not answered.                                             *)
Holding == {"count", "observe"}
HolderInv ==
    \A c \in Threads : /\ job[c].at \in Holding <=> counter.lock = c
                       /\ At(c, "count") => counter.last = job[c].route

NewId(c) == job[c].at # "idle" =>
    /\ job[c].id <= requests
    /\ \A d \in Threads \ {c} : job[d].at # "idle" => job[d].id # job[c].id
    /\ \A a \in answered : a.id # job[c].id
AnswersOK ==
    /\ IsFiniteSet(answered)
    /\ \A a \in answered : a.id \in Nat /\ a.id <= requests /\ a.start \in Nat /\ a.start <= starts
IdsInv == AnswersOK /\ \A c \in Threads : NewId(c)

InFlight(r) == {c \in Threads : At(c, "observe") /\ job[c].route = r}
Ahead(r) == IF InFlight(r) = {} THEN 0 ELSE 1
AllGiven == {a \in answered : a.start = starts /\ a.route \in Routes}
CountInv ==
    /\ \A r \in Routes : decisions[r] = Cardinality(Given(r)) + Ahead(r)
    /\ observed = Cardinality(AllGiven)

\* A thread goes on, or ends its request, outside the lock and answers nobody.
LEMMA CountsStay ==
    ASSUME JobsOK, HolderInv, IdsInv, CountInv, NoOne \notin Threads,
           NEW c \in Threads, NEW j, job' = [job EXCEPT ![c] = j],
           job[c].at \notin Holding, j.at \notin Holding,
           job[c].at # "idle", j.at # "idle" => j.id = job[c].id,
           UNCHANGED <<counter, decisions, observed, answered, starts, requests>>
    PROVE  HolderInv' /\ IdsInv' /\ CountInv'
<1>1. job'[c] = j /\ \A d \in Threads \ {c} : job'[d] = job[d]
  BY DEF JobsOK
<1>2. HolderInv'
  BY <1>1 DEF HolderInv, Holding, At
<1>3. IdsInv'
  <2>1. AnswersOK'
    BY DEF IdsInv, AnswersOK
  <2>2. ASSUME NEW d \in Threads PROVE NewId(d)'
    BY <1>1 DEF IdsInv, NewId
  <2> QED BY <2>1, <2>2 DEF IdsInv
<1>4. CountInv'
  <2>1. \A r \in Routes : InFlight(r)' = InFlight(r)
    BY <1>1 DEF InFlight, At, Holding
  <2>2. \A r \in Routes : Ahead(r)' = Ahead(r)
    BY <2>1 DEF Ahead
  <2>3. \A r \in Routes : Given(r)' = Given(r)
    BY DEF Given
  <2>4. AllGiven' = AllGiven
    BY DEF AllGiven
  <2> QED BY <2>2, <2>3, <2>4 DEF CountInv
<1> QED BY <1>2, <1>3, <1>4

\* Only one request is between its increment and its answer.
LEMMA OneInFlight ==
    ASSUME HolderInv, NEW c \in Threads, NEW d \in Threads,
           job[c].at \in Holding, job[d].at \in Holding
    PROVE  c = d
BY DEF HolderInv

LEMMA CountStep ==
    /\ TypeInv /\ RecordInv /\ HolderInv /\ IdsInv /\ CountInv
    /\ [Next]_vars
    => HolderInv' /\ IdsInv' /\ CountInv'
<1> DEFINE Good == HolderInv /\ IdsInv /\ CountInv
<1> SUFFICES ASSUME TypeInv, RecordInv, Good, [Next]_vars PROVE Good'
  OBVIOUS
<1>t. /\ JobsOK /\ NoOne \notin Threads /\ Idle.at = "idle"
      /\ starts \in Nat /\ requests \in Nat
      /\ decisions \in [Routes -> Nat] /\ observed \in Nat
      /\ \A c \in Threads : job[c] \in JobT
  BY IdleIsJob, Constants DEF TypeInv, MetricsOK, JobsOK
<1>g. ASSUME NEW c \in Threads, NEW place, Goes(c, place),
             job[c].at \notin Holding, place \notin Holding, job[c].at # "idle",
             UNCHANGED <<counter, decisions, observed, answered, starts, requests>>
      PROVE  Good'
  <2> DEFINE j == [job[c] EXCEPT !.at = place]
  <2>1. job' = [job EXCEPT ![c] = j] /\ j.at = place /\ j.id = job[c].id
    BY <1>g, <1>t, OnItsWayAt DEF JobT
  <2> HIDE DEF j
  <2> QED BY <2>1, <1>g, <1>t, CountsStay
<1>i. ASSUME NEW c \in Threads, job' = [job EXCEPT ![c] = Idle],
             job[c].at \notin Holding, job[c].at # "idle",
             UNCHANGED <<counter, decisions, observed, answered, starts, requests>>
      PROVE  Good'
  BY <1>i, <1>t, CountsStay DEF Holding
<1>1. ASSUME NEW c \in Threads, NEW t \in Texts, Begin(c, t) PROVE Good'
  <2> DEFINE j == [Idle EXCEPT !.at = "load", !.id = requests + 1, !.text = t]
  <2>1. j.at = "load" /\ j.id = requests + 1 /\ job' = [job EXCEPT ![c] = j]
    BY <1>1 DEF Begin, Idle
  <2>2. /\ requests' = requests + 1 /\ At(c, "idle")
        /\ UNCHANGED <<counter, decisions, observed, answered, starts>>
    BY <1>1 DEF Begin, metrics
  <2> HIDE DEF j
  <2>3. job'[c] = j /\ \A d \in Threads \ {c} : job'[d] = job[d]
    BY <2>1, <1>t DEF JobsOK
  <2>4. HolderInv'
    BY <2>1, <2>2, <2>3 DEF HolderInv, Holding, At
  <2>5. AnswersOK'
    BY <2>2, <1>t DEF IdsInv, AnswersOK
  <2>6. ASSUME NEW d \in Threads PROVE NewId(d)'
    <3>1. \A e \in Threads \ {c} : job[e].at # "idle" => job[e].id <= requests /\ job[e].id \in Nat
      BY <1>t DEF IdsInv, NewId, JobT
    <3>2. CASE d = c
      <4>1. \A e \in Threads \ {c} : job[e].at # "idle" => job[e].id # j.id
        BY <3>1, <2>1, <1>t
      <4>2. \A a \in answered : a.id # j.id
        BY <2>1, <1>t DEF IdsInv, AnswersOK
      <4> QED BY <4>1, <4>2, <3>2, <2>1, <2>2, <2>3, <1>t DEF NewId
    <3>3. CASE d # c
      BY <3>1, <3>3, <2>1, <2>2, <2>3, <1>t DEF NewId, IdsInv
    <3> QED BY <3>2, <3>3
  <2>7. CountInv'
    <3>1. \A r \in Routes : InFlight(r)' = InFlight(r)
      BY <2>1, <2>2, <2>3 DEF InFlight, At
    <3>2. \A r \in Routes : Ahead(r)' = Ahead(r) /\ Given(r)' = Given(r)
      BY <3>1, <2>2 DEF Ahead, Given
    <3> QED BY <3>2, <2>2 DEF CountInv, AllGiven
  <2> QED BY <2>4, <2>5, <2>6, <2>7 DEF IdsInv
<1>2. ASSUME NEW c \in Threads, LookForAgent(c) PROVE Good'
  BY <1>2, <1>g DEF LookForAgent, At, Holding, metrics, clients
<1>3. ASSUME NEW c \in Threads, LockAgent(c) PROVE Good'
  BY <1>3, <1>g DEF LockAgent, At, Holding, metrics, clients
<1>4. ASSUME NEW c \in Threads, Load(c) PROVE Good'
  BY <1>4, <1>g DEF Load, At, Holding, metrics, clients
<1>5. ASSUME NEW c \in Threads, Predict(c) PROVE Good'
  <2> DEFINE d == TypedDecision(AnswerOf[job[c].text], exponent)
             j == [job[c] EXCEPT !.at = "insert", !.route = PolicyRoute(d), !.decision = d]
  <2>1. (job' = [job EXCEPT ![c] = j]) \/ Goes(c, "failed")
    BY <1>5 DEF Predict
  <2>2. /\ UNCHANGED <<counter, decisions, observed, answered, starts, requests>>
        /\ At(c, "predict") /\ job[c] \in JobT
    BY <1>5, <1>t DEF Predict, metrics, clients
  <2> HIDE DEF d
  <2>3. j.at = "insert" /\ j.id = job[c].id
    BY <2>2 DEF JobT
  <2> HIDE DEF j
  <2>4. CASE job' = [job EXCEPT ![c] = j]
    BY <2>2, <2>3, <2>4, <1>t, CountsStay DEF Holding, At
  <2>5. CASE Goes(c, "failed")
    BY <2>2, <2>5, <1>g DEF Holding, At
  <2> QED BY <2>1, <2>4, <2>5
<1>6. ASSUME NEW c \in Threads, Insert(c) PROVE Good'
  BY <1>6, <1>g DEF Insert, At, Holding, metrics, clients
<1>7. ASSUME NEW c \in Threads, AppendFails(c) PROVE Good'
  BY <1>7, <1>g, <1>i DEF AppendFails, Raised, Holding, metrics
<1>8. ASSUME NEW c \in Threads, Commit(c) PROVE Good'
  BY <1>8, <1>g, <1>i DEF Commit, At, Holding, metrics
<1>9. ASSUME NEW c \in Threads, Sample(c) PROVE Good'
  BY <1>9, <1>g DEF Sample, At, Holding, clients
<1>10. ASSUME NEW c \in Threads, Label(c) PROVE Good'
  <2>1. /\ At(c, "label") /\ counter.lock = NoOne /\ Goes(c, "count")
        /\ counter' = [lock |-> c, last |-> job[c].route]
        /\ UNCHANGED <<decisions, observed, answered, starts, requests>>
    BY <1>10 DEF Label, clients
  <2>2. /\ job'[c].at = "count" /\ job'[c].id = job[c].id /\ job'[c].route = job[c].route
        /\ \A d \in Threads \ {c} : job'[d] = job[d]
    BY <2>1, <1>t, OnItsWayAt DEF JobsOK
  <2>3. \A d \in Threads : job[d].at \notin Holding
    BY <2>1, <1>t DEF HolderInv
  <2>4. HolderInv'
    BY <2>1, <2>2, <2>3 DEF HolderInv, Holding, At
  <2>5. AnswersOK'
    BY <2>1 DEF IdsInv, AnswersOK
  <2>6. ASSUME NEW d \in Threads PROVE NewId(d)'
    BY <2>1, <2>2 DEF IdsInv, NewId, At
  <2>7. CountInv'
    <3>1. \A r \in Routes : InFlight(r)' = InFlight(r)
      BY <2>1, <2>2 DEF InFlight, At
    <3>2. \A r \in Routes : Ahead(r)' = Ahead(r) /\ Given(r)' = Given(r)
      BY <3>1, <2>1 DEF Ahead, Given
    <3> QED BY <3>2, <2>1 DEF CountInv, AllGiven
  <2> QED BY <2>4, <2>5, <2>6, <2>7 DEF IdsInv
<1>11. ASSUME NEW c \in Threads, Inc(c) PROVE Good'
  <2>0. PICK l : l = job[c].route
    OBVIOUS
  <2>1. /\ At(c, "count") /\ Goes(c, "observe")
        /\ decisions' = [decisions EXCEPT ![counter.last] = @ + 1]
        /\ UNCHANGED <<counter, observed, answered, starts, requests>>
    BY <1>11 DEF Inc, clients
  <2>2. counter.last = l /\ l \in Routes
    BY <2>0, <2>1, RouteIsOne DEF HolderInv, RecordInv, OnItsWay, Kept, At
  <2>3. /\ job'[c].at = "observe" /\ job'[c].id = job[c].id /\ job'[c].route = l
        /\ \A d \in Threads \ {c} : job'[d] = job[d]
    BY <2>0, <2>1, <1>t, OnItsWayAt DEF JobsOK
  <2>4. HolderInv'
    BY <2>1, <2>3 DEF HolderInv, Holding, At
  <2>5. AnswersOK'
    BY <2>1 DEF IdsInv, AnswersOK
  <2>6. ASSUME NEW d \in Threads PROVE NewId(d)'
    BY <2>1, <2>3 DEF IdsInv, NewId, At
  <2>7. CountInv'
    <3>1. \A r \in Routes : InFlight(r) = {}
      BY <2>1, OneInFlight DEF InFlight, At, Holding
    <3>2. \A r \in Routes : InFlight(r)' = {} <=> r # l
      <4>1. c \in InFlight(l)'
        BY <2>3 DEF InFlight, At
      <4>2. ASSUME NEW r \in Routes, r # l, NEW d \in InFlight(r)' PROVE FALSE
        <5>1. d # c /\ d \in Threads
          BY <4>2, <2>3 DEF InFlight
        <5>2. d \in InFlight(r)
          BY <4>2, <5>1, <2>3 DEF InFlight, At
        <5> QED BY <5>2, <3>1
      <4> QED BY <4>1, <4>2
    <3>3. \A r \in Routes : Given(r)' = Given(r) /\ decisions[r] = Cardinality(Given(r)) + 0
      BY <3>1, <2>1 DEF Given, CountInv, Ahead
    <3>4. ASSUME NEW r \in Routes PROVE decisions'[r] = Cardinality(Given(r)') + Ahead(r)'
      <4>1. CASE r = l
        <5>0. Ahead(r)' = 1
          BY <4>1, <3>2 DEF Ahead
        <5>1. decisions'[r] = decisions[r] + 1 /\ Ahead(r)' = 1
          BY <5>0, <4>1, <2>1, <2>2, <1>t
        <5>2. decisions[r] = Cardinality(Given(r)) + 0 /\ decisions[r] \in Nat
          BY <3>3, <1>t
        <5>3. CASE Cardinality(Given(r)) \in Nat
          BY <5>1, <5>2, <5>3, <3>3
        <5>4. Cardinality(Given(r)) \in Nat
          BY FS_Subset, FS_CardinalityType DEF Given, IdsInv, AnswersOK
        <5> QED BY <5>3, <5>4
      <4>2. CASE r # l
        <5>1. decisions'[r] = decisions[r] /\ Ahead(r)' = 0
          BY <4>2, <2>1, <2>2, <3>2, <1>t DEF Ahead
        <5> QED BY <5>1, <3>3
      <4> QED BY <4>1, <4>2
    <3> QED BY <3>4, <2>1 DEF CountInv, AllGiven
  <2> QED BY <2>4, <2>5, <2>6, <2>7 DEF IdsInv
<1>12. ASSUME NEW c \in Threads, Answer(c) PROVE Good'
  <2> DEFINE l == job[c].route
             a == [id |-> job[c].id, start |-> starts, route |-> l, decision |-> job[c].decision]
  <2>1. /\ At(c, "observe") /\ job' = [job EXCEPT ![c] = Idle]
        /\ observed' = observed + 1 /\ counter' = [counter EXCEPT !.lock = NoOne]
        /\ answered' = answered \cup {a}
        /\ UNCHANGED <<decisions, starts, requests>>
    BY <1>12 DEF Answer
  <2>2. a.id = job[c].id /\ a.start = starts /\ a.route = l /\ l \in Routes
    BY <2>1, RouteIsOne DEF RecordInv, OnItsWay, Kept, At
  <2>3. job'[c].at = "idle" /\ \A d \in Threads \ {c} : job'[d] = job[d]
    BY <2>1, <1>t DEF JobsOK
  <2>4. /\ job[c].id \in Nat /\ job[c].id <= requests /\ a \notin answered
        /\ \A d \in Threads \ {c} : job[d].at # "idle" => job[d].id # a.id
    BY <2>1, <2>2, <1>t DEF IdsInv, NewId, At, JobT
  <2> HIDE DEF a
  <2>5. HolderInv'
    <3>1. counter'.lock = NoOne
      BY <2>1 DEF TypeInv, MetricsOK
    <3>2. \A d \in Threads : job'[d].at \notin Holding
      BY <2>1, <2>3, OneInFlight DEF Holding, At
    <3> QED BY <3>1, <3>2, <1>t DEF HolderInv, At, Holding
  <2>6. AnswersOK'
    <3>1. IsFiniteSet(answered')
      BY <2>1, FS_AddElement DEF IdsInv, AnswersOK
    <3> QED BY <3>1, <2>1, <2>2, <2>4, <1>t DEF IdsInv, AnswersOK
  <2>7. ASSUME NEW d \in Threads PROVE NewId(d)'
    <3>1. CASE d = c
      BY <3>1, <2>3 DEF NewId
    <3>2. CASE d # c
      BY <3>2, <2>1, <2>3, <2>4 DEF NewId, IdsInv
    <3> QED BY <3>1, <3>2
  <2>8. CountInv'
    <3>1. c \in InFlight(l) /\ \A r \in Routes : r # l => InFlight(r) = {}
      BY <2>1, OneInFlight DEF InFlight, At, Holding
    <3>2. \A r \in Routes : InFlight(r)' = {}
      BY <2>1, <2>3, OneInFlight DEF InFlight, At, Holding
    <3>3. \A r \in Routes : IsFiniteSet(Given(r)) /\ Cardinality(Given(r)) \in Nat
      BY FS_Subset, FS_CardinalityType DEF Given, IdsInv, AnswersOK
    <3>4. ASSUME NEW r \in Routes PROVE decisions'[r] = Cardinality(Given(r)') + Ahead(r)'
      <4>1. Ahead(r)' = 0 /\ decisions'[r] = decisions[r]
        BY <3>2, <2>1 DEF Ahead
      <4>2. CASE r = l
        <5>1. Given(r)' = Given(r) \cup {a} /\ a \notin Given(r)
          BY <4>2, <2>1, <2>2, <2>4 DEF Given
        <5>2. Cardinality(Given(r)') = Cardinality(Given(r)) + 1
          BY <5>1, <3>3, FS_AddElement
        <5>3. decisions[r] = Cardinality(Given(r)) + 1
          BY <3>1, <4>2 DEF CountInv, Ahead
        <5> QED BY <4>1, <5>2, <5>3, <3>3
      <4>3. CASE r # l
        <5>1. Given(r)' = Given(r)
          BY <4>3, <2>1, <2>2 DEF Given
        <5>2. decisions[r] = Cardinality(Given(r)) + 0
          BY <3>1, <4>3 DEF CountInv, Ahead
        <5> QED BY <4>1, <5>1, <5>2
      <4> QED BY <4>2, <4>3
    <3>5. observed' = Cardinality(AllGiven')
      <4>1. AllGiven' = AllGiven \cup {a} /\ a \notin AllGiven
        BY <2>1, <2>2, <2>4 DEF AllGiven
      <4>2. IsFiniteSet(AllGiven)
        BY FS_Subset DEF AllGiven, IdsInv, AnswersOK
      <4>3. Cardinality(AllGiven') = Cardinality(AllGiven) + 1
        BY <4>1, <4>2, FS_AddElement
      <4> QED BY <4>3, <2>1 DEF CountInv
    <3> QED BY <3>4, <3>5 DEF CountInv
  <2> QED BY <2>5, <2>6, <2>7, <2>8 DEF IdsInv
<1>13. ASSUME NEW c \in Threads, CountError(c) PROVE Good'
  BY <1>13, <1>g DEF CountError, At, Holding, clients
<1>14. ASSUME NEW c \in Threads, ThreadEnds(c) PROVE Good'
  <2>1. UNCHANGED <<job, counter, decisions, observed, answered, starts, requests>>
    BY <1>14 DEF ThreadEnds, metrics, clients
  <2> QED BY <2>1 DEF HolderInv, IdsInv, AnswersOK, NewId, CountInv, Given, AllGiven, Ahead,
                      InFlight, At
<1>15. CASE Restart
  <2>1. /\ job' = AllIdle /\ counter' = Unlocked /\ decisions' = NoCount /\ observed' = 0
        /\ starts' = starts + 1 /\ UNCHANGED <<answered, requests>>
    BY <1>15 DEF Restart, clients
  <2>2. \A c \in Threads : job'[c].at = "idle" /\ c # NoOne
    BY <2>1, <1>t DEF AllIdle
  <2>3. HolderInv'
    BY <2>1, <2>2 DEF HolderInv, Holding, At, Unlocked
  <2>4. IdsInv'
    BY <2>1, <2>2, <1>t DEF IdsInv, AnswersOK, NewId
  <2>5. CountInv'
    <3>1. \A x \in answered : x.start # starts'
      BY <2>1, <1>t DEF IdsInv, AnswersOK
    <3>2. AllGiven' = {} /\ \A r \in Routes : Given(r)' = {} /\ InFlight(r)' = {}
      BY <3>1, <2>1, <2>2 DEF AllGiven, Given, InFlight, At
    <3>3. \A r \in Routes : decisions'[r] = 0 /\ Ahead(r)' = 0
      BY <3>2, <2>1 DEF Ahead, NoCount
    <3>4. Cardinality({}) = 0
      BY FS_EmptySet
    <3>5. \A r \in Routes : decisions'[r] = Cardinality(Given(r)') + Ahead(r)'
      BY <3>2, <3>3, <3>4
    <3> QED BY <3>2, <3>4, <3>5, <2>1 DEF CountInv
  <2> QED BY <2>3, <2>4, <2>5
<1>16. CASE UNCHANGED vars
  <2>1. UNCHANGED <<job, counter, decisions, observed, answered, starts, requests>>
    BY <1>16 DEF vars, metrics, clients
  <2> QED BY <2>1 DEF HolderInv, IdsInv, AnswersOK, NewId, CountInv, Given, AllGiven, Ahead,
                      InFlight, At
<1> QED BY <1>1, <1>2, <1>3, <1>4, <1>5, <1>6, <1>7, <1>8, <1>9, <1>10, <1>11, <1>12, <1>13,
           <1>14, <1>15, <1>16 DEF Next

(* A scrape that finds the lock free sees each decision given since the     *)
(* start once, under its own route, and as many latencies (the label and    *)
(* the increment are under _METRICS_LOCK, app.py:156).                      *)
THEOREM ScrapesCount == Spec => []CountsAgree
<1> DEFINE Good == HolderInv /\ IdsInv /\ CountInv
<1>1. ASSUME Init PROVE Good /\ RecordInv
  <2>1. /\ answered = {} /\ \A c \in Threads : job[c].at = "idle" /\ c # NoOne
        /\ counter = Unlocked /\ decisions = NoCount /\ observed = 0
    BY <1>1, IdleIsJob, Constants DEF Init, AllIdle
  <2>2. HolderInv /\ RecordInv
    BY <2>1 DEF HolderInv, Holding, At, Unlocked, RecordInv, OnItsWay, AnsweredIsOnRecord, Kept
  <2>3. IdsInv
    BY <2>1, FS_EmptySet DEF IdsInv, AnswersOK, NewId
  <2>4. AllGiven = {} /\ \A r \in Routes : Given(r) = {} /\ InFlight(r) = {}
    BY <2>1 DEF AllGiven, Given, InFlight, At
  <2>5. CountInv
    BY <2>1, <2>4, FS_EmptySet DEF CountInv, Ahead, NoCount
  <2> QED BY <2>2, <2>3, <2>5
<1>2. TypeInv /\ RecordInv /\ Good /\ [Next]_vars => RecordInv' /\ Good'
  BY RecordStep, CountStep
<1>3. ASSUME Good, TypeInv PROVE CountsAgree
  <2> SUFFICES ASSUME counter.lock = NoOne
               PROVE  /\ \A r \in Routes : decisions[r] = Cardinality(Given(r))
                      /\ observed = Cardinality(UNION {Given(r) : r \in Routes})
    BY DEF CountsAgree
  <2>1. \A r \in Routes : InFlight(r) = {}
    BY <1>3, Constants DEF HolderInv, InFlight, At, Holding
  <2>2. \A r \in Routes : decisions[r] = Cardinality(Given(r)) + 0
    BY <1>3, <2>1 DEF CountInv, Ahead
  <2>3. \A r \in Routes : Cardinality(Given(r)) \in Nat
    BY <1>3, FS_Subset, FS_CardinalityType DEF Given, IdsInv, AnswersOK
  <2>4. UNION {Given(r) : r \in Routes} = AllGiven
    BY DEF Given, AllGiven
  <2> QED BY <1>3, <2>2, <2>3, <2>4 DEF CountInv
<1> QED BY <1>1, <1>2, <1>3, DecisionsTyped, PTL DEF Spec

=============================================================================
