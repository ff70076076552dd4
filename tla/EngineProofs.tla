---------------------------- MODULE EngineProofs ----------------------------
(***************************************************************************)
(* The engine for any number of clients, any fleet, incidents, recordings  *)
(* and bounds. However requests interleave: no unit is dispatched without  *)
(* a decision that lists it, no unit is taken from one incident for        *)
(* another, the map behind the lookups of decisions is never behind the    *)
(* history, and a What-If leaves nothing behind. While no session is       *)
(* replaced, the units of an incident's latest decision are held for it.   *)
(* Four more hold under a premise, stated with each: record ids stay fresh *)
(* (OneClient), the event log and the raw reports agree (OwnIds), a hard   *)
(* rejection is not undone (both), and no report waits for ever for a      *)
(* request to decide it (Attended).                                        *)
(*                                                                         *)
(* EngineTypeOK is not inductive: what a request still has to do comes     *)
(* from its task, and a decision's rows from the reports. TypeInv types    *)
(* the queues of the tasks as well, and the stores as sequences and        *)
(* functions.                                                              *)
(*                                                                         *)
(* The promises about units follow from what a step can do to the pool and *)
(* the history at the same time (FleetEffect): it frees units of the       *)
(* incident that is being decided again; or it starts a session; or it     *)
(* appends one decision, and the units it sends somewhere were free and    *)
(* are listed. That of the latest dispatch looks at the incidents as well: *)
(* Calm steps leave dispatches as they are, Dispatched ones add a decision *)
(* with its units.                                                         *)
(*                                                                         *)
(* Those about the history follow from what a step files (FilingEffect):   *)
(* CacheInv says up to which record the map is true, IdsInv that a request *)
(* in progress goes back to no id it has not drawn itself. BookInv and     *)
(* AgreeInv add what a sandbox will put back, HardInv and CaughtUp what a  *)
(* batch has still to decide.                                              *)
(***************************************************************************)
EXTENDS EngineProperties, GuardrailTheorems, SequenceTheorems, FiniteSetTheorems

-----------------------------------------------------------------------------
(* Numbers in order *)

(* A finite set of numbers of at least n members has one with n - 1 below. *)
LEMMA RankExists ==
    ASSUME NEW S, S \subseteq Nat, IsFiniteSet(S),
           NEW n \in 1..Cardinality(S)
    PROVE  \E k \in S : Cardinality({j \in S : j < k}) = n - 1
<1> DEFINE ranked(m) == \E k \in S : Cardinality({j \in S : j < k}) = m - 1
<1> DEFINE missing   == {m \in 1..Cardinality(S) : ~ranked(m)}
<1>1. Cardinality(S) \in Nat /\ \A k \in S : k \in Int
  BY FS_CardinalityType
<1>2. missing = {}
  <2> SUFFICES ASSUME missing # {} PROVE FALSE
    OBVIOUS
  <2>1. missing \subseteq Nat
    BY <1>1
  <2>2. PICK m \in missing : \A i \in missing : m <= i
    <3> HIDE DEF missing
    <3> QED
      BY <2>1, LeastIsLeast
  <2>3. m \in 1..Cardinality(S) /\ ~ranked(m) /\ m \in Int
    BY <2>2, <1>1
  <2>4. \A i \in 1..Cardinality(S) : i < m => ranked(i)
    BY <2>2, <2>3, <1>1
  <2> HIDE DEF missing
  <2>5. CASE m = 1
    <3>1. S # {}
      BY <1>1, <2>3, FS_EmptySet
    <3>2. PICK k \in S : \A v \in S : k <= v
      BY <3>1, LeastIsLeast
    <3>3. {j \in S : j < k} = {}
      <4>1. \A j \in S : ~(j < k)
        BY <1>1, <3>2
      <4> QED
        BY <4>1
    <3>4. Cardinality({j \in S : j < k}) = m - 1
      BY <2>5, <3>3, FS_EmptySet
    <3> QED
      BY <2>3, <3>4
  <2>6. CASE m # 1
    <3>1. m - 1 \in 1..Cardinality(S) /\ m - 1 < m
      BY <1>1, <2>3, <2>6
    <3>2. PICK k \in S : Cardinality({j \in S : j < k}) = (m - 1) - 1
      BY <2>4, <3>1
    <3> DEFINE below == {j \in S : j < k}
    <3> DEFINE above == {j \in S : j > k}
    <3>3. below \in SUBSET S /\ IsFiniteSet(below) /\ ~(k < k) /\ k \notin below
      <4>1. below \in SUBSET S
        OBVIOUS
      <4>2. IsFiniteSet(below)
        BY <4>1, FS_Subset
      <4>3. ~(k < k)
        BY <1>1
      <4> QED
        BY <4>1, <4>2, <4>3
    <3>4. IsFiniteSet(below \cup {k}) /\ Cardinality(below \cup {k}) = m - 1
      <4>1. /\ IsFiniteSet(below \cup {k})
            /\ Cardinality(below \cup {k}) = Cardinality(below) + 1
        <5> HIDE DEF below
        <5> QED
          BY <3>3, FS_AddElement
      <4>2. Cardinality(below) = (m - 1) - 1
        BY <3>2
      <4>3. ((m - 1) - 1) + 1 = m - 1
        BY <2>3
      <4> QED
        BY <4>1, <4>2, <4>3
    <3>5. S = below \cup {k} \cup above
      <4>1. \A j \in S : j < k \/ j = k \/ j > k
        BY <1>1
      <4> QED
        BY <4>1
    <3>6. above # {}
      <4> SUFFICES ASSUME above = {} PROVE FALSE
        OBVIOUS
      <4>1. S = below \cup {k}
        BY <3>5
      <4>2. Cardinality(S) = m - 1
        BY <3>4, <4>1
      <4> QED
        BY <2>3, <4>2
    <3>7. PICK l \in above : \A v \in above : l <= v
      <4>1. above \subseteq Nat
        OBVIOUS
      <4> HIDE DEF above
      <4> QED
        BY <3>6, <4>1, LeastIsLeast
    <3>8. l \in S /\ l > k /\ l \in Int /\ k \in Int
      BY <1>1, <3>7
    <3>9. \A j \in S : j < l <=> (j < k \/ j = k)
      BY <1>1, <3>7, <3>8
    <3>10. {j \in S : j < l} = below \cup {k}
      BY <3>9
    <3>11. Cardinality({j \in S : j < l}) = m - 1
      BY <3>4, <3>10
    <3> QED
      BY <2>3, <3>8, <3>11
  <2> QED
    BY <2>5, <2>6
<1> QED
  BY <1>2

(* InOrder lists members of the set. *)
LEMMA InOrderLists ==
    ASSUME NEW S, S \subseteq Nat, IsFiniteSet(S)
    PROVE  /\ InOrder(S) \in Seq(S)
           /\ DOMAIN InOrder(S) = 1..Cardinality(S)
           /\ \A n \in DOMAIN InOrder(S) : InOrder(S)[n] \in S
<1>1. Cardinality(S) \in Nat
  BY FS_CardinalityType
<1>2. ASSUME NEW n \in 1..Cardinality(S)
      PROVE  (CHOOSE k \in S : Cardinality({j \in S : j < k}) = n - 1) \in S
  BY RankExists
<1>3. InOrder(S) \in [1..Cardinality(S) -> S]
  BY <1>2 DEF InOrder
<1>4. InOrder(S) \in Seq(S)
  BY <1>1, <1>3, SeqDef
<1> QED
  BY <1>3, <1>4

(* A non-empty set of positions of a sequence has a last one. *)
LEMMA LastExists ==
    ASSUME NEW n \in Nat, NEW T, T \subseteq 1..n, T # {}
    PROVE  \E k \in T : \A j \in T : j <= k
<1> DEFINE gaps == {n - k : k \in T}
<1>1. gaps \subseteq Nat /\ gaps # {} /\ \A k \in T : k \in Int
  <2>1. \A k \in T : k \in Int /\ n - k \in Nat
    OBVIOUS
  <2> QED
    BY <2>1
<1>2. Least(gaps) \in gaps /\ \A g \in gaps : Least(gaps) <= g
  <2> HIDE DEF gaps
  <2> QED
    BY <1>1, LeastIsLeast
<1>3. PICK k \in T : Least(gaps) = n - k
  BY <1>2
<1>4. ASSUME NEW j \in T PROVE j <= k
  <2>1. n - k <= n - j
    BY <1>2, <1>3
  <2>2. \A x, y \in Int : n - x <= n - y => y <= x
    OBVIOUS
  <2> QED
    BY <1>1, <2>1, <2>2
<1> QED
  BY <1>4

-----------------------------------------------------------------------------
(* The type invariant *)

Event == [ev : Nat, inc : Incidents, kind : Kind, hard : BOOLEAN]
Item  == [inc : Incidents, hard : BOOLEAN]
Found == [inc : Incidents, kept : BOOLEAN]
Saved == [rawLen : Nat, known : SUBSET Incidents, counter : 0..MaxIds,
          generated : Nat, numbered : Nat]
Asked == [inc : Incidents, hard : BOOLEAN, kind : Kind, kept : BOOLEAN,
          stale : BOOLEAN, free : SUBSET Units]

Batch      == [op : {"batch"}, todo : Seq(Item)]
Reoptimise == [op : {"reoptimise"}, todo : Seq(Found)]
DryRuns    == [op : {"dryRuns"}, to : Positions, saved : 0..MaxIds,
               todo : Seq(Found), open : Seq(Found)]
AskBatch   == [op : {"asking"}, back : {"batch"}, rest : Seq(Item), about : Asked]
AskAgain   == [op : {"asking"}, back : {"reoptimise"}, rest : Seq(Found), about : Asked]
WhatIf     == [op : {"whatIf"}, saved : Saved]
Task  == [op : {"idle", "pending"}] \cup Batch \cup Reoptimise \cup DryRuns
         \cup AskBatch \cup AskAgain \cup WhatIf

\* A registry of incidents, the engine's or a step's working copy.
Registry(book) == /\ DOMAIN book \subseteq Incidents
                  /\ \A i \in DOMAIN book : book[i] \in IncidentRecord

StreamOK  == raw \in Seq(Event) /\ generated \in Nat /\ numbered \in Nat
ValidOK   == /\ processed \in Nat /\ hardIndex \subseteq Incidents
             /\ \A e \in DOMAIN validated : validated[e] \in Item
HistoryOK == /\ history \in Seq(Record) /\ counter \in 0..MaxIds
             /\ cachedLen \in Nat
             /\ cache \in [Incidents -> Record \cup {NoRecord}]
FlagsOK   == /\ position \in Positions /\ paused \in BOOLEAN
             /\ auditFailed \in BOOLEAN /\ rejects \in 0..MaxRejects
FleetOK   == pool \in [Units -> Incidents \cup {Free}]

TypeInv == /\ StreamOK /\ Registry(incidents) /\ ValidOK /\ HistoryOK
           /\ FlagsOK /\ FleetOK
           /\ tasks \in [Clients -> Task]

(* What TypeInv says of every state includes EngineTypeOK. *)
LEMMA TypeInvImpliesTypeOK == TypeInv => EngineTypeOK
<1> SUFFICES ASSUME TypeInv PROVE EngineTypeOK
  OBVIOUS
<1>1. \A k \in DOMAIN raw : raw[k] \in Event
  BY LenProperties, ElementOfSeq DEF TypeInv, StreamOK
<1>2. \A k \in DOMAIN history : history[k] \in Record
  BY LenProperties, ElementOfSeq DEF TypeInv, HistoryOK
<1>3. \A c \in Clients : tasks[c].op \in {"idle", "pending", "batch", "asking", "dryRuns",
                                          "reoptimise", "whatIf"}
  <2>1. \A t \in Task : t.op \in {"idle", "pending", "batch", "asking", "dryRuns",
                                  "reoptimise", "whatIf"}
    BY DEF Task, Batch, Reoptimise, DryRuns, AskBatch, AskAgain, WhatIf
  <2> QED
    BY <2>1 DEF TypeInv
<1> QED
  BY <1>1, <1>2, <1>3
     DEF EngineTypeOK, TypeInv, StreamOK, Registry, ValidOK, HistoryOK, FlagsOK, FleetOK,
         Event, Item

(* Constants as the assumptions give them. *)
LEMMA ConstantTypes ==
    /\ SimIncidents \subseteq Nat /\ SimIncidents \subseteq Incidents
    /\ Incidents \subseteq Nat \ {Free}
    /\ Kinds \subseteq Kind /\ Units \subseteq Nat
    /\ MaxDecisions \in Nat /\ MaxIds \in Nat /\ MaxReports \in Nat /\ MaxRejects \in Nat
BY EngineAssumption, FleetAssumption DEF Incidents, Free

(* The shape a fresh incident and a placeholder have. *)
LEMMA NewIncidentType ==
    /\ \A kind \in Kind : NewIncident(kind) \in IncidentRecord
    /\ Shell \in IncidentRecord
<1>1. <<>> \in Seq(Units) /\ 0 \in 0..MaxIds
  BY EmptySeq, ConstantTypes
<1>2. \A kind \in Kind : NewIncident(kind) \in IncidentRecord
  BY <1>1 DEF NewIncident, IncidentRecord
<1>3. [type |-> "ACCIDENT", zone |-> "NORTH"] \in Kind
  BY DEF Kind, IncidentTypes, Zones
<1>4. \A r \in IncidentRecord : [r EXCEPT !.hard = TRUE] \in IncidentRecord
  BY DEF IncidentRecord
<1> QED
  BY <1>2, <1>3, <1>4 DEF Shell

(* A registry stays one when a well-formed incident is put in. *)
LEMMA RegistryPut ==
    ASSUME NEW book, Registry(book), NEW i \in Incidents, NEW v \in IncidentRecord
    PROVE  Registry(Put(book, i, v)) /\ i \in DOMAIN Put(book, i, v)
BY DEF Registry, Put

(* A registry stays one when one of its incidents is changed. *)
LEMMA RegistryUpdate ==
    ASSUME NEW book, Registry(book), NEW i, NEW v,
           i \in DOMAIN book => v \in IncidentRecord
    PROVE  Registry([book EXCEPT ![i] = v])
BY DEF Registry

(* Reports of an incident name it, and say what it is. *)
LEMMA ReportsType ==
    ASSUME TypeInv, NEW i, Reports(i) # {}
    PROVE  /\ i \in Incidents
           /\ raw[Least(Reports(i))].kind \in Kind
<1>1. DOMAIN raw \subseteq Nat /\ \A k \in DOMAIN raw : raw[k] \in Event
  BY LenProperties, ElementOfSeq DEF TypeInv, StreamOK
<1>2. Reports(i) \subseteq DOMAIN raw /\ \A k \in Reports(i) : raw[k].inc = i
  BY DEF Reports
<1>3. Least(Reports(i)) \in Reports(i)
  BY <1>1, <1>2, LeastIsLeast
<1> QED
  BY <1>1, <1>2, <1>3 DEF Event

(* The latest decision of an incident is a decision of that incident, and  *)
(* there is one as soon as the incident has any.                           *)
LEMMA LastRecordType ==
    ASSUME history \in Seq(Record), NEW i
    PROVE  /\ LastRecord(i) \in Record \cup {NoRecord}
           /\ (\E k \in DOMAIN history : history[k].inc = i) =>
                \E k \in DOMAIN history : /\ history[k] = LastRecord(i)
                                         /\ history[k].inc = i
<1> DEFINE mine == {k \in DOMAIN history : history[k].inc = i}
<1>1. /\ Len(history) \in Nat /\ DOMAIN history = 1..Len(history)
      /\ \A k \in DOMAIN history : history[k] \in Record
  BY LenProperties, ElementOfSeq
<1>2. CASE mine = {}
  BY <1>2 DEF LastRecord
<1>3. CASE mine # {}
  <2>1. mine \subseteq 1..Len(history)
    BY <1>1
  <2>2. \E k \in mine : \A j \in mine : j <= k
    <3> HIDE DEF mine
    <3> QED
      BY <1>1, <1>3, <2>1, LastExists
  <2> DEFINE k == CHOOSE k \in mine : \A j \in mine : j <= k
  <2>3. k \in mine
    BY <2>2
  <2>4. LastRecord(i) = history[k]
    BY <1>3 DEF LastRecord
  <2> HIDE DEF k
  <2> QED
    BY <1>1, <2>3, <2>4
<1> QED
  BY <1>2, <1>3

(* So is what a lookup through the cache returns. *)
LEMMA RefreshedType ==
    ASSUME HistoryOK
    PROVE  /\ Refreshed \in [Incidents -> Record \cup {NoRecord}]
           /\ Len(history) \in Nat
BY LastRecordType, LenProperties DEF Refreshed, HistoryOK

-----------------------------------------------------------------------------
(* Decisions *)

\* What decide() answers and a rejection have in common.
Answers(d) == /\ d.state \in DecisionStates /\ d.priority \in Priorities
              /\ d.recommended \in Seq(ResourceTypes) /\ d.units \in Seq(Units)

(* A decision about what was asked has that shape. *)
LEMMA DecideAnswers ==
    ASSUME TypeInv, NEW q \in Asked, NEW a \in Assessments, NEW S, S \subseteq Units
    PROVE  Answers(Decide(ContextFor(q, a), S))
<1> DEFINE c == ContextFor(q, a)
<1>1. c \in DecisionContext
  <2>1. q.kind.type \in IncidentTypes /\ q.kind.zone \in Zones /\ q.hard \in BOOLEAN
    BY DEF Asked, Kind
  <2>2. a \in Assessment /\ position \in Positions
    BY EngineAssumption DEF TypeInv, FlagsOK
  <2> QED
    BY <2>1, <2>2 DEF ContextFor, DecisionContext
<1> HIDE DEF c
<1>2. Decide(c, S).units \in Seq(Units)
  <2>1. CASE Decide(c, S).units = <<>>
    BY <2>1, EmptySeq
  <2>2. CASE \E u \in S : Decide(c, S).units = <<u>>
    <3>1. PICK u \in S : Decide(c, S).units = <<u>>
      BY <2>2
    <3>2. u \in Units
      OBVIOUS
    <3> QED
      BY <3>1, <3>2
  <2> QED
    BY <1>1, <2>1, <2>2, DecidedRecord
<1>3. Answers(Decide(c, S))
  BY <1>1, <1>2, DecidedRecord DEF Answers
<1> QED
  BY <1>3 DEF c

(* So has the rejection of a report that breaks the schema. *)
LEMMA RejectionAnswers == Answers(Rejection)
<1>1. <<>> \in Seq(ResourceTypes) /\ <<>> \in Seq(Units)
  BY EmptySeq
<1> QED
  BY <1>1 DEF Answers, Rejection, DecisionStates, Priorities, LOW, CRITICAL

(* Advancing an incident leaves it well formed. *)
LEMMA AdvancedType ==
    ASSUME NEW r \in IncidentRecord, NEW d, Answers(d)
    PROVE  Advanced(r, d) \in IncidentRecord
<1>1. d.units \in Seq(Units)
  BY DEF Answers
<1> QED
  BY <1>1 DEF Advanced, IncidentRecord

(* Indexing a record: the history and the cache stay well formed. *)
LEMMA IndexType ==
    ASSUME HistoryOK, NEW r \in Record, MayDecide, counter' = counter + 1, Index(r)
    PROVE  HistoryOK'
<1>1. Len(history) \in Nat /\ Append(history, r) \in Seq(Record)
  BY LenProperties, AppendProperties DEF HistoryOK
<1>2. [cache EXCEPT ![r.inc] = r] \in [Incidents -> Record \cup {NoRecord}]
  BY DEF HistoryOK
<1>3. counter + 1 \in 0..MaxIds
  BY ConstantTypes DEF HistoryOK, MayDecide
<1> QED
  BY <1>1, <1>2, <1>3 DEF HistoryOK, Index

(* Whether the audit write is rejected or not, banner and count are typed. *)
LEMMA AuditDecisionType ==
    ASSUME FlagsOK, AuditDecision
    PROVE  auditFailed' \in BOOLEAN /\ rejects' \in 0..MaxRejects
<1>1. auditFailed' \in BOOLEAN
  BY Zenon DEF AuditDecision
<1>2. rejects < MaxRejects => rejects + 1 \in 0..MaxRejects
  BY ConstantTypes DEF FlagsOK
<1>3. rejects' \in 0..MaxRejects
  BY <1>2 DEF FlagsOK, AuditDecision, AuditRejects
<1> QED
  BY <1>1, <1>3

(* Persisting a decision leaves every store well formed. *)
LEMMA PersistType ==
    ASSUME TypeInv, NEW i \in Incidents, NEW d, Answers(d),
           NEW book, Registry(book), NEW live, NEW taken,
           Persist(i, d, book, live, taken)
    PROVE  /\ HistoryOK' /\ FleetOK' /\ Registry(incidents)'
           /\ auditFailed' \in BOOLEAN /\ rejects' \in 0..MaxRejects
<1>1. HistoryOK'
  <2>1. counter + 1 \in 1..MaxIds
    BY ConstantTypes DEF Persist, MayDecide, TypeInv, HistoryOK
  <2>2. NewRecord(i, d) \in Record
    BY <2>1 DEF NewRecord, Record, Answers, OverrideTypes
  <2> QED
    BY <2>2, IndexType DEF Persist, TypeInv
<1>2. FleetOK'
  BY DEF Persist, TypeInv, FleetOK
<1>3. Registry(incidents)'
  <2>1. i \in DOMAIN book => Advanced(book[i], d) \in IncidentRecord
    BY AdvancedType DEF Registry
  <2>2. Registry([book EXCEPT ![i] = Advanced(book[i], d)])
    BY <2>1, RegistryUpdate
  <2>3. incidents' = IF live THEN [book EXCEPT ![i] = Advanced(book[i], d)] ELSE book
    BY DEF Persist
  <2> QED
    BY <2>2, <2>3 DEF Registry
<1>4. auditFailed' \in BOOLEAN /\ rejects' \in 0..MaxRejects
  BY AuditDecisionType DEF Persist, TypeInv
<1> QED
  BY <1>1, <1>2, <1>3, <1>4

(* What a task's operation says of its other fields. *)
LEMMA TaskFields ==
    ASSUME NEW t \in Task
    PROVE  /\ t.op = "batch" => t \in Batch
           /\ t.op = "reoptimise" => t \in Reoptimise
           /\ t.op = "dryRuns" => t \in DryRuns
           /\ t.op = "asking" => t \in AskBatch \cup AskAgain
           /\ t.op = "whatIf" => t \in WhatIf
BY DEF Task, Batch, Reoptimise, DryRuns, AskBatch, AskAgain, WhatIf

(* A queue without its head is still one, and its head is well formed; so  *)
(* is the task that asks about the head.                                   *)
LEMMA TaskRest ==
    ASSUME NEW t \in Task, t.op \in {"batch", "reoptimise", "dryRuns"}, t.todo # <<>>
    PROVE  /\ Rest(t) \in Task
           /\ t.op = "batch" => Head(t.todo) \in Item /\ Tail(t.todo) \in Seq(Item)
           /\ t.op # "batch" => Head(t.todo) \in Found /\ Tail(t.todo) \in Seq(Found)
<1>1. CASE t.op = "batch"
  <2>1. t \in Batch
    BY <1>1, TaskFields
  <2>2. Head(t.todo) \in Item /\ Tail(t.todo) \in Seq(Item)
    BY <2>1, HeadTailProperties DEF Batch
  <2>3. Rest(t) \in Batch
    BY <2>1, <2>2 DEF Rest, Batch
  <2> QED
    BY <1>1, <2>2, <2>3 DEF Task
<1>2. CASE t.op = "reoptimise"
  <2>1. t \in Reoptimise
    BY <1>2, TaskFields
  <2>2. Head(t.todo) \in Found /\ Tail(t.todo) \in Seq(Found)
    BY <2>1, HeadTailProperties DEF Reoptimise
  <2>3. Rest(t) \in Reoptimise
    BY <2>1, <2>2 DEF Rest, Reoptimise
  <2> QED
    BY <1>2, <2>2, <2>3 DEF Task
<1>3. CASE t.op = "dryRuns"
  <2>1. t \in DryRuns
    BY <1>3, TaskFields
  <2>2. Head(t.todo) \in Found /\ Tail(t.todo) \in Seq(Found)
    BY <2>1, HeadTailProperties DEF DryRuns
  <2>3. Rest(t) \in DryRuns
    BY <2>1, <2>2 DEF Rest, DryRuns
  <2> QED
    BY <1>3, <2>2, <2>3 DEF Task
<1> QED
  BY <1>1, <1>2, <1>3

(* Idle and pending are tasks; a client that continues keeps them typed. *)
LEMMA ContinueType ==
    ASSUME tasks \in [Clients -> Task], NEW c, NEW t \in Task, Continue(c, t)
    PROVE  tasks' \in [Clients -> Task]
BY DEF Continue

(* A request that is over, or has only its batch to decide, is a task. *)
LEMMA PlainTasks == Idle \in Task /\ [op |-> "pending"] \in Task
BY DEF Idle, Task

(* Incident objects that are forgotten leave a queue typed. *)
LEMMA ForgetType ==
    ASSUME NEW q \in Seq(Found), NEW gone
    PROVE  Forget(q, gone) \in Seq(Found)
<1>1. /\ Len(q) \in Nat /\ DOMAIN q = 1..Len(q)
      /\ \A n \in DOMAIN q : q[n] \in Found
  BY LenProperties, ElementOfSeq
<1>2. \A n \in DOMAIN q : [inc  |-> q[n].inc,
                          kept |-> q[n].kept /\ q[n].inc \notin gone] \in Found
  BY <1>1, Zenon DEF Found
<1>3. Forget(q, gone) \in [1..Len(q) -> Found]
  BY <1>1, <1>2 DEF Forget
<1> QED
  BY <1>1, <1>3, SeqDef

(* Orphaned tasks are tasks, and keep their operation. *)
LEMMA OrphanedType ==
    ASSUME tasks \in [Clients -> Task], NEW gone
    PROVE  /\ Orphaned(gone) \in [Clients -> Task]
           /\ \A c \in Clients : Orphaned(gone)[c].op = tasks[c].op
<1> SUFFICES ASSUME NEW c \in Clients
             PROVE  Orphaned(gone)[c] \in Task /\ Orphaned(gone)[c].op = tasks[c].op
  BY DEF Orphaned
<1> DEFINE t == tasks[c]
<1>1. t \in Task
  OBVIOUS
<1>2. CASE t.op = "reoptimise"
  <2>1. t \in Reoptimise /\ Orphaned(gone)[c] = [t EXCEPT !.todo = Forget(t.todo, gone)]
    BY <1>1, <1>2, TaskFields DEF Orphaned
  <2>2. Forget(t.todo, gone) \in Seq(Found)
    BY <2>1, ForgetType DEF Reoptimise
  <2>3. [t EXCEPT !.todo = Forget(t.todo, gone)] \in Reoptimise
    BY <2>1, <2>2 DEF Reoptimise
  <2> QED
    BY <1>2, <2>1, <2>3 DEF Task, Reoptimise
<1>3. CASE t.op = "dryRuns"
  <2>1. t \in DryRuns /\ Orphaned(gone)[c] = [t EXCEPT !.open = Forget(t.open, gone)]
    BY <1>1, <1>3, TaskFields DEF Orphaned
  <2>2. Forget(t.open, gone) \in Seq(Found)
    BY <2>1, ForgetType DEF DryRuns
  <2>3. [t EXCEPT !.open = Forget(t.open, gone)] \in DryRuns
    BY <2>1, <2>2 DEF DryRuns
  <2> QED
    BY <1>3, <2>1, <2>3 DEF Task, DryRuns
<1>4. CASE t.op = "asking"
  <2> DEFINE kept == t.about.kept /\ t.about.inc \notin gone
  <2> DEFINE rest == IF t.back = "batch" THEN t.rest ELSE Forget(t.rest, gone)
  <2>1. /\ t \in AskBatch \cup AskAgain
        /\ Orphaned(gone)[c] = [t EXCEPT !.rest = rest, !.about.kept = kept]
    BY <1>1, <1>4, TaskFields DEF Orphaned
  <2>2. kept \in BOOLEAN
    BY Zenon
  <2> HIDE DEF kept
  <2>3. [t.about EXCEPT !.kept = kept] \in Asked
    BY <2>1, <2>2 DEF AskBatch, AskAgain, Asked
  <2>4. CASE t \in AskBatch
    <3>1. [t EXCEPT !.rest = rest, !.about.kept = kept] \in AskBatch
      BY <2>3, <2>4 DEF AskBatch
    <3> QED
      BY <1>4, <2>1, <3>1 DEF Task, AskBatch
  <2>5. CASE t \in AskAgain
    <3>1. rest \in Seq(Found)
      BY <2>5, ForgetType DEF AskAgain
    <3> HIDE DEF rest
    <3>2. [t EXCEPT !.rest = rest, !.about.kept = kept] \in AskAgain
      BY <2>3, <2>5, <3>1 DEF AskAgain
    <3> QED
      BY <1>4, <2>1, <3>2 DEF Task, AskAgain
  <2> QED
    BY <2>1, <2>4, <2>5
<1>5. CASE t.op \notin {"reoptimise", "dryRuns", "asking"}
  BY <1>5 DEF Orphaned
<1> QED
  BY <1>2, <1>3, <1>4, <1>5

(* So are those whose pool is replaced. *)
LEMMA StrandedType ==
    ASSUME tasks \in [Clients -> Task]
    PROVE  /\ Stranded \in [Clients -> Task]
           /\ \A c \in Clients : Stranded[c].op = tasks[c].op
<1> SUFFICES ASSUME NEW c \in Clients
             PROVE  Stranded[c] \in Task /\ Stranded[c].op = tasks[c].op
  BY DEF Stranded
<1> DEFINE t == Orphaned(DOMAIN incidents)[c]
<1>1. t \in Task /\ t.op = tasks[c].op
  BY OrphanedType
<1>2. CASE Stranded[c] = t
  BY <1>1, <1>2
<1>3. CASE tasks[c].op = "asking" /\ Stranded[c] = [t EXCEPT !.about.stale = TRUE,
                                                          !.about.free = FreeUnits(pool)]
  <2>1. t \in AskBatch \cup AskAgain
    BY <1>1, <1>3, TaskFields
  <2> HIDE DEF t
  <2>2. FreeUnits(pool) \in SUBSET Units
    BY DEF FreeUnits
  <2>3. [t EXCEPT !.about.stale = TRUE, !.about.free = FreeUnits(pool)]
           \in AskBatch \cup AskAgain
    BY <2>1, <2>2 DEF AskBatch, AskAgain, Asked
  <2>4. Stranded[c].op = "asking"
    BY <1>3, <2>3 DEF AskBatch, AskAgain
  <2> QED
    BY <1>3, <2>3, <2>4 DEF Task
<1> QED
  BY <1>2, <1>3 DEF Stranded

-----------------------------------------------------------------------------
(* One lemma per action: it preserves TypeInv. *)

(* A new session, whatever recording it plays. *)
LEMMA NewSessionType ==
    ASSUME TypeInv, NEW rec \in Recordings \cup {<<>>}, NewSession(rec)
    PROVE  /\ StreamOK' /\ Registry(incidents)' /\ ValidOK' /\ HistoryOK' /\ FleetOK'
           /\ position' \in Positions /\ paused' \in BOOLEAN /\ rejects' \in 0..MaxRejects
<1> DEFINE Row == [ev : Nat \ {0}, inc : SimIncidents, kind : Kinds]
<1>1. rec \in Seq(Row)
  BY EngineAssumption, EmptySeq
<1> HIDE DEF Row
<1>2. /\ Len(rec) \in Nat /\ DOMAIN rec = 1..Len(rec)
      /\ \A k \in DOMAIN rec : rec[k] \in Row
  BY <1>1, LenProperties, ElementOfSeq
<1>3. \A k \in DOMAIN rec : rec[k].ev \in Nat /\ rec[k].inc \in Incidents /\ rec[k].kind \in Kind
  BY <1>2, ConstantTypes DEF Row
<1>4. Replayed(rec) \in Seq(Event)
  <2>1. \A k \in DOMAIN rec : RawEvent(rec[k].ev, rec[k].inc, rec[k].kind, FALSE) \in Event
    BY <1>3 DEF RawEvent, Event
  <2>2. Replayed(rec) \in [1..Len(rec) -> Event]
    BY <1>2, <2>1 DEF Replayed
  <2> QED
    BY <1>2, <2>2, SeqDef
<1>5. Registry(RecordedIncidents(rec))
  <2> SUFFICES ASSUME NEW i \in {rec[k].inc : k \in DOMAIN rec}
               PROVE  /\ i \in Incidents
                      /\ NewIncident(rec[Least({k \in DOMAIN rec : rec[k].inc = i})].kind)
                            \in IncidentRecord
    BY DEF RecordedIncidents, Registry
  <2> DEFINE mine == {k \in DOMAIN rec : rec[k].inc = i}
  <2>1. mine # {} /\ mine \subseteq Nat
    BY <1>2
  <2>2. Least(mine) \in mine
    <3> HIDE DEF mine
    <3> QED
      BY <2>1, LeastIsLeast
  <2> QED
    BY <1>3, <2>2, NewIncidentType
<1>6. ValidOK'
  BY DEF NewSession, ValidOK
<1>7. HistoryOK'
  BY EmptySeq DEF NewSession, TypeInv, HistoryOK
<1>8. FleetOK' /\ StreamOK' /\ Registry(incidents)'
  BY <1>4, <1>5 DEF NewSession, FleetOK, StreamOK, Registry
<1> QED
  BY <1>6, <1>7, <1>8 DEF NewSession, TypeInv, FlagsOK

(* Starting, resetting, pausing and resuming the simulation. *)
LEMMA SessionStep ==
    ASSUME TypeInv, NEW c \in Clients, Start(c) \/ Reset(c) \/ PauseOrResume(c)
    PROVE  TypeInv'
<1>1. CASE Start(c)
  <2>1. PICK rec \in Recordings \cup {<<>>} :
          /\ NewSession(rec)
          /\ tasks' = [Stranded EXCEPT
                          ![c] = IF rec = <<>> THEN Idle ELSE [op |-> "pending"]]
          /\ UNCHANGED auditFailed
    BY <1>1 DEF Start
  <2>2. tasks' \in [Clients -> Task]
    BY <2>1, StrandedType, PlainTasks DEF TypeInv
  <2>3. FlagsOK'
    BY <2>1, NewSessionType DEF TypeInv, FlagsOK
  <2> QED
    BY <2>1, <2>2, <2>3, NewSessionType DEF TypeInv
<1>2. CASE Reset(c)
  <2>1. <<>> \in Recordings \cup {<<>>}
    OBVIOUS
  <2>2. tasks' \in [Clients -> Task]
    BY <1>2, StrandedType DEF Reset, TypeInv
  <2>3. FlagsOK'
    BY <1>2, <2>1, NewSessionType DEF FlagsOK, Reset
  <2> QED
    BY <1>2, <2>1, <2>2, <2>3, NewSessionType DEF TypeInv, Reset
<1>3. CASE PauseOrResume(c)
  BY <1>3 DEF PauseOrResume, TypeInv, StreamOK, Registry, ValidOK, HistoryOK, FlagsOK,
              FleetOK, validVars, indexVars, auditVars
<1> QED
  BY <1>1, <1>2, <1>3

(* Generated reports extend the stream. *)
LEMMA AppendReportsType ==
    ASSUME TypeInv, NEW i \in Incidents, NEW kind \in Kind, NEW hard \in BOOLEAN,
           NEW n \in Nat, AppendReports(i, kind, hard, n)
    PROVE  raw' \in Seq(Event) /\ numbered' \in Nat
<1> DEFINE new == [k \in 1..n |-> RawEvent(numbered + k, i, kind, hard)]
<1>1. numbered \in Nat /\ raw \in Seq(Event)
  BY DEF TypeInv, StreamOK
<1>2. \A k \in 1..n : RawEvent(numbered + k, i, kind, hard) \in Event
  <2>1. \A k \in 1..n : numbered + k \in Nat
    BY <1>1
  <2> QED
    BY <2>1 DEF RawEvent, Event
<1>3. new \in Seq(Event)
  BY <1>2, SeqDef
<1>4. raw' = raw \o new /\ numbered' = numbered + n
  BY DEF AppendReports
<1> HIDE DEF new
<1>5. raw \o new \in Seq(Event)
  BY <1>1, <1>3, ConcatProperties
<1> QED
  BY <1>1, <1>4, <1>5

(* The next id is one of the simulation's. *)
LEMMA NextIdType ==
    ASSUME UnusedIds # {}
    PROVE  NextId \in Incidents /\ NextId \in Nat
<1>1. UnusedIds \subseteq Nat /\ UnusedIds \subseteq Incidents
  BY ConstantTypes DEF UnusedIds
<1>2. NextId \in UnusedIds
  BY <1>1, LeastIsLeast DEF NextId
<1> QED
  BY <1>1, <1>2

(* A new incident with its reports keeps the simulation well formed. *)
LEMMA InjectNewType ==
    ASSUME TypeInv, NEW kind \in Kind, NEW n \in Nat, InjectNew(kind, n)
    PROVE  StreamOK' /\ Registry(incidents)' /\ paused' = paused
<1>1. NextId \in Incidents /\ NextId \in Nat
  BY NextIdType DEF InjectNew
<1>2. raw' \in Seq(Event) /\ numbered' \in Nat
  BY <1>1, AppendReportsType DEF InjectNew
<1>3. Registry(Put(incidents, NextId, NewIncident(kind)))
  BY <1>1, RegistryPut, NewIncidentType DEF TypeInv
<1> QED
  BY <1>1, <1>2, <1>3 DEF InjectNew, StreamOK, Registry

(* Registering an incident that may be known already. *)
LEMMA RegisterType ==
    ASSUME Registry(incidents), NEW i \in Incidents, NEW kind \in Kind
    PROVE  Registry(Register(i, kind))
BY RegistryPut, NewIncidentType DEF Register

(* Reports of every origin: injections, bad data, feeds. *)
LEMMA ArrivalStep ==
    ASSUME TypeInv, NEW c \in Clients,
           Inject(c) \/ InjectBad(c) \/ Report(c) \/ RefreshFeeds(c)
    PROVE  TypeInv'
<1>1. CASE Inject(c)
  <2>1. PICK kind \in Kinds, n \in Bursts : InjectNew(kind, n)
    BY <1>1 DEF Inject
  <2>2. kind \in Kind /\ n \in Nat
    BY ConstantTypes, EngineAssumption
  <2>3. StreamOK' /\ Registry(incidents)' /\ paused' = paused
    BY <2>1, <2>2, InjectNewType
  <2>4. tasks' \in [Clients -> Task]
    BY <1>1, PlainTasks, ContinueType DEF Inject, TypeInv
  <2> QED
    BY <1>1, <2>3, <2>4
       DEF Inject, TypeInv, ValidOK, HistoryOK, FlagsOK, FleetOK, validVars, indexVars, auditVars
<1>2. CASE InjectBad(c)
  <2>1. PICK kind \in Kinds : AppendReports(NextId, kind, TRUE, 1)
    BY <1>2 DEF InjectBad
  <2>2. kind \in Kind /\ NextId \in Incidents /\ NextId \in Nat
    BY <1>2, ConstantTypes, NextIdType DEF InjectBad
  <2>3. raw' \in Seq(Event) /\ numbered' \in Nat
    BY <2>1, <2>2, AppendReportsType
  <2>4. tasks' \in [Clients -> Task]
    BY <1>2, PlainTasks, ContinueType DEF InjectBad, TypeInv
  <2> QED
    BY <1>2, <2>2, <2>3, <2>4
       DEF InjectBad, TypeInv, StreamOK, Registry, ValidOK, HistoryOK, FlagsOK, FleetOK,
           validVars, indexVars, auditVars
<1>3. CASE Report(c)
  <2>1. PICK i \in Incidents, hard \in BOOLEAN :
          /\ Reports(i) # {}
          /\ AppendReports(i, raw[Least(Reports(i))].kind, hard, 1)
          /\ incidents' = IF hard THEN incidents
                          ELSE Register(i, raw[Least(Reports(i))].kind)
          /\ Continue(c, [op |-> "pending"])
          /\ UNCHANGED <<generated, paused, validVars, indexVars, auditVars, pool, position>>
    BY <1>3 DEF Report
  <2>2. raw[Least(Reports(i))].kind \in Kind
    BY <2>1, ReportsType
  <2>3. raw' \in Seq(Event) /\ numbered' \in Nat
    BY <2>1, <2>2, AppendReportsType
  <2>4. Registry(incidents')
    BY <2>1, <2>2, RegisterType DEF TypeInv
  <2>5. tasks' \in [Clients -> Task]
    BY <2>1, PlainTasks, ContinueType DEF TypeInv
  <2> QED
    BY <2>1, <2>3, <2>4, <2>5
       DEF TypeInv, StreamOK, Registry, ValidOK, HistoryOK, FlagsOK, FleetOK,
           validVars, indexVars, auditVars
<1>4. CASE RefreshFeeds(c)
  <2>1. PICK i \in FeedIncidents, kind \in Kinds :
          /\ raw' = Append(raw, RawEvent(i, i, kind, FALSE))
          /\ incidents' = Register(i, kind)
          /\ UNCHANGED <<generated, numbered, paused, validVars, indexVars, auditVars, pool,
                         position, tasks>>
    BY <1>4 DEF RefreshFeeds
  <2>2. i \in Incidents /\ i \in Nat /\ kind \in Kind
    BY EngineAssumption DEF Incidents
  <2>3. RawEvent(i, i, kind, FALSE) \in Event
    BY <2>2 DEF RawEvent, Event
  <2>4. raw' \in Seq(Event)
    BY <2>1, <2>3, AppendProperties DEF TypeInv, StreamOK
  <2>5. Registry(incidents')
    BY <2>1, <2>2, RegisterType DEF TypeInv
  <2> QED
    BY <2>1, <2>4, <2>5
       DEF TypeInv, StreamOK, Registry, ValidOK, HistoryOK, FlagsOK, FleetOK,
           validVars, indexVars, auditVars
<1> QED
  BY <1>1, <1>2, <1>3, <1>4

(* Positions of pending reports are positions of the stream. *)
LEMMA PendingType ==
    ASSUME TypeInv
    PROVE  /\ Len(raw) \in Nat /\ DOMAIN raw = 1..Len(raw)
           /\ Pending \subseteq 1..Len(raw)
           /\ \A k \in Pending : raw[k] \in Event
           /\ \A T : T \subseteq 1..Len(raw) => T \subseteq Nat /\ IsFiniteSet(T)
<1>1. /\ Len(raw) \in Nat /\ DOMAIN raw = 1..Len(raw)
      /\ \A k \in DOMAIN raw : raw[k] \in Event
  BY LenProperties, ElementOfSeq DEF TypeInv, StreamOK
<1>2. Pending \subseteq 1..Len(raw)
  BY <1>1 DEF Pending, TypeInv, ValidOK
<1>3. IsFiniteSet(1..Len(raw)) /\ 1..Len(raw) \subseteq Nat
  BY <1>1, FS_Interval
<1>4. \A T : T \subseteq 1..Len(raw) => T \subseteq Nat /\ IsFiniteSet(T)
  BY <1>3, FS_Subset
<1> QED
  BY <1>1, <1>2, <1>4

(* A pending report that satisfies a condition is followed by a last one.  *)
LEMMA LastPendingExists ==
    ASSUME TypeInv, NEW T, T \subseteq Pending, T # {}
    PROVE  \E k \in T : \A j \in T : j <= k
<1>1. T \subseteq 1..Len(raw) /\ Len(raw) \in Nat
  BY PendingType
<1> QED
  BY <1>1, LastExists

(* Validation files well-formed results. *)
LEMMA ValidateType ==
    ASSUME TypeInv, Validate, processed' = Len(raw)
    PROVE  ValidOK'
<1> DEFINE ids  == {raw[k].ev : k \in Pending}
<1> DEFINE last == [e \in ids |-> CHOOSE k \in Pending :
                     raw[k].ev = e /\ \A j \in Pending : raw[j].ev = e => j <= k]
<1>1. ASSUME NEW e \in ids
      PROVE  last[e] \in Pending
  <2> DEFINE T == {k \in Pending : raw[k].ev = e}
  <2>1. T # {} /\ T \subseteq Pending
    OBVIOUS
  <2>2. \E k \in T : \A j \in T : j <= k
    <3> HIDE DEF T
    <3> QED
      BY <2>1, LastPendingExists
  <2> QED
    BY <2>2
<1>2. \A k \in Pending : raw[k] \in Event
  BY PendingType
<1>3. \A e \in ids : [inc |-> raw[last[e]].inc, hard |-> raw[last[e]].hard] \in Item
  <2> HIDE DEF last, ids
  <2> QED
    BY <1>1, <1>2 DEF Event, Item
<1>4. validated' = [e \in DOMAIN validated \cup ids |->
                     IF e \in ids
                     THEN [inc |-> raw[last[e]].inc, hard |-> raw[last[e]].hard]
                     ELSE validated[e]]
  BY DEF Validate
<1> HIDE DEF last, ids
<1>5. \A e \in DOMAIN validated' : validated'[e] \in Item
  BY <1>3, <1>4 DEF TypeInv, ValidOK
<1>6. hardIndex' \subseteq Incidents
  BY <1>2 DEF Validate, Filed, Firsts, Event, TypeInv, ValidOK
<1>7. processed' \in Nat
  BY PendingType
<1> QED
  BY <1>5, <1>6, <1>7 DEF ValidOK

(* The batch lists incidents. *)
LEMMA BeginBatchStep ==
    ASSUME TypeInv, NEW c \in Clients, BeginBatch(c)
    PROVE  TypeInv'
<1> DEFINE firsts == InOrder(Firsts(IncOf))
<1> DEFINE todo   == [n \in DOMAIN firsts |->
                        [inc  |-> raw[firsts[n]].inc,
                         hard |-> raw[LastPending(raw[firsts[n]].inc)].hard]]
<1>1. Firsts(IncOf) \subseteq Pending /\ Firsts(IncOf) \subseteq Nat
      /\ IsFiniteSet(Firsts(IncOf))
  <2>1. Firsts(IncOf) \subseteq Pending
    BY DEF Firsts
  <2>2. Firsts(IncOf) \subseteq 1..Len(raw)
    BY <2>1, PendingType
  <2> QED
    BY <2>1, <2>2, PendingType
<1>2. /\ Cardinality(Firsts(IncOf)) \in Nat
      /\ DOMAIN firsts = 1..Cardinality(Firsts(IncOf))
      /\ \A n \in DOMAIN firsts : firsts[n] \in Pending
  BY <1>1, InOrderLists, FS_CardinalityType
<1>3. ASSUME NEW k \in Pending
      PROVE  LastPending(raw[k].inc) \in Pending
  <2> DEFINE T == {j \in Pending : raw[j].inc = raw[k].inc}
  <2>1. T # {} /\ T \subseteq Pending
    OBVIOUS
  <2>2. \E l \in T : \A j \in T : j <= l
    <3> HIDE DEF T
    <3> QED
      BY <2>1, LastPendingExists
  <2> QED
    BY <2>2 DEF LastPending
<1> HIDE DEF firsts
<1>4. \A n \in DOMAIN firsts :
         [inc  |-> raw[firsts[n]].inc,
          hard |-> raw[LastPending(raw[firsts[n]].inc)].hard] \in Item
  <2>1. \A k \in Pending : raw[k] \in Event
    BY PendingType
  <2> QED
    BY <1>2, <1>3, <2>1 DEF Event, Item
<1>5. todo \in Seq(Item)
  <2>1. todo \in [1..Cardinality(Firsts(IncOf)) -> Item]
    BY <1>2, <1>4
  <2> HIDE DEF todo
  <2> QED
    BY <1>2, <2>1, SeqDef
<1>6. Continue(c, [op |-> "batch", todo |-> todo])
  BY DEF BeginBatch, firsts
<1> HIDE DEF todo
<1>7. [op |-> "batch", todo |-> todo] \in Task
  BY <1>5 DEF Task, Batch
<1>8. tasks' \in [Clients -> Task]
  BY <1>6, <1>7, ContinueType DEF TypeInv
<1>9. ValidOK'
  BY ValidateType DEF BeginBatch
<1> QED
  BY <1>8, <1>9
     DEF BeginBatch, TypeInv, StreamOK, Registry, HistoryOK, FlagsOK, FleetOK,
         simVars, indexVars, auditVars

(* What is kept while Laya is asked is well formed. *)
LEMMA AskType ==
    ASSUME TypeInv, NEW c \in Clients, tasks[c].op \in {"batch", "reoptimise"},
           tasks[c].todo # <<>>, NEW book, Registry(book), NEW i \in DOMAIN book,
           NEW kept \in BOOLEAN, Ask(c, Question(i, book, kept))
    PROVE  tasks' \in [Clients -> Task]
<1> DEFINE q == Question(i, book, kept)
<1> DEFINE t == [op |-> "asking", back |-> tasks[c].op, rest |-> Tail(tasks[c].todo),
                 about |-> q]
<1>1. q \in Asked
  <2>1. i \in Incidents /\ book[i].kind \in Kind
    BY DEF Registry, IncidentRecord
  <2>2. (i \in hardIndex) \in BOOLEAN
    OBVIOUS
  <2> QED
    BY <2>1, <2>2 DEF Question, Asked
<1> HIDE DEF q
<1>2. tasks[c] \in Task
  BY DEF TypeInv
<1>3. t \in Task
  <2>1. CASE tasks[c].op = "batch"
    <3>1. Tail(tasks[c].todo) \in Seq(Item)
      BY <1>2, <2>1, TaskRest
    <3>2. t \in AskBatch
      BY <1>1, <2>1, <3>1 DEF AskBatch
    <3> QED
      BY <3>2 DEF Task
  <2>2. CASE tasks[c].op = "reoptimise"
    <3>1. Tail(tasks[c].todo) \in Seq(Found)
      BY <1>2, <2>2, TaskRest
    <3>2. t \in AskAgain
      BY <1>1, <2>2, <3>1 DEF AskAgain
    <3> QED
      BY <3>2 DEF Task
  <2> QED
    BY <2>1, <2>2
<1>4. Continue(c, t)
  BY DEF Ask, q
<1> HIDE DEF t
<1> QED
  BY <1>3, <1>4, ContinueType DEF TypeInv

(* One report of a batch: rejected, or asked about. *)
LEMMA DecideOneStep ==
    ASSUME TypeInv, NEW c \in Clients, DecideOne(c)
    PROVE  TypeInv'
<1> DEFINE item == Head(tasks[c].todo)
<1> DEFINE i    == item.inc
<1> DEFINE book == IF i \in DOMAIN incidents THEN incidents ELSE Put(incidents, i, Shell)
<1>1. tasks[c] \in Task /\ tasks[c].op = "batch" /\ tasks[c].todo # <<>>
  BY DEF DecideOne, TypeInv
<1>2. item \in Item /\ Rest(tasks[c]) \in Task
  BY <1>1, TaskRest
<1>3. i \in Incidents
  BY <1>2 DEF Item
<1> HIDE DEF i
<1>4. Registry(book) /\ i \in DOMAIN book
  BY <1>3, RegistryPut, NewIncidentType DEF TypeInv
<1>5. \/ /\ Persist(i, Rejection, book, TRUE, {})
         /\ Continue(c, Rest(tasks[c]))
      \/ /\ incidents' = book
         /\ Ask(c, Question(i, book, TRUE)) \/ Continue(c, Idle)
         /\ UNCHANGED <<indexVars, auditVars, pool>>
  BY DEF DecideOne, i
<1> HIDE DEF book
<1>6. tasks' \in [Clients -> Task]
  BY <1>1, <1>2, <1>4, <1>5, PlainTasks, ContinueType, AskType DEF TypeInv
<1>7. /\ HistoryOK' /\ FleetOK' /\ Registry(incidents)'
      /\ auditFailed' \in BOOLEAN /\ rejects' \in 0..MaxRejects
  <2>1. CASE Persist(i, Rejection, book, TRUE, {})
    BY <1>3, <1>4, <2>1, PersistType, RejectionAnswers
  <2>2. CASE incidents' = book /\ UNCHANGED <<indexVars, auditVars, pool>>
    BY <1>4, <2>2 DEF TypeInv, HistoryOK, FleetOK, FlagsOK, indexVars, auditVars
  <2> QED
    BY <1>5, <2>1, <2>2
<1> QED
  BY <1>6, <1>7 DEF DecideOne, TypeInv, StreamOK, ValidOK, FlagsOK, validVars

(* The answer's parts: who asked about what, and what was decided from     *)
(* units that were free in the pool the request was given.                 *)
LEMMA AnsweredParts ==
    ASSUME TypeInv, NEW c \in Clients, Answered(c)
    PROVE  /\ tasks[c] \in AskBatch \cup AskAgain
           /\ tasks[c].about \in Asked
           /\ \E a \in Assessments, free \in SUBSET Units :
                LET d == Decide(ContextFor(tasks[c].about, a), free)
                IN  /\ tasks[c].about.stale \/ free = FreeUnits(pool)
                    /\ Persist(tasks[c].about.inc, d, incidents, tasks[c].about.kept,
                               IF tasks[c].about.stale THEN {} ELSE Elems(d.units))
<1> DEFINE q == tasks[c].about
<1>1. tasks[c] \in AskBatch \cup AskAgain
  BY TaskFields DEF Answered, TypeInv
<1>2. q \in Asked
  BY <1>1 DEF AskBatch, AskAgain
<1>3. PICK a \in Assessments, free \in IF q.stale THEN SUBSET q.free ELSE {FreeUnits(pool)} :
        LET d == Decide(ContextFor(q, a), free)
        IN  Persist(q.inc, d, incidents, q.kept, IF q.stale THEN {} ELSE Elems(d.units))
  BY DEF Answered
<1>4. free \in SUBSET Units /\ (q.stale \/ free = FreeUnits(pool))
  BY <1>2, <1>3 DEF Asked, FreeUnits
<1> QED
  BY <1>1, <1>2, <1>3, <1>4

(* An answered decision, persisted. *)
LEMMA AnsweredStep ==
    ASSUME TypeInv, NEW c \in Clients, Answered(c)
    PROVE  TypeInv'
<1> DEFINE q == tasks[c].about
<1>1. tasks[c] \in AskBatch \cup AskAgain /\ q \in Asked
  BY AnsweredParts
<1>2. PICK d, taken : Answers(d) /\ Persist(q.inc, d, incidents, q.kept, taken)
  <2>1. PICK a \in Assessments, free \in SUBSET Units :
          Persist(q.inc, Decide(ContextFor(q, a), free), incidents, q.kept,
                  IF q.stale THEN {} ELSE Elems(Decide(ContextFor(q, a), free).units))
    BY AnsweredParts
  <2>2. Answers(Decide(ContextFor(q, a), free))
    BY <1>1, DecideAnswers
  <2> QED
    BY <2>1, <2>2
<1>3. [op |-> tasks[c].back, todo |-> tasks[c].rest] \in Batch \cup Reoptimise
  BY <1>1 DEF AskBatch, AskAgain, Batch, Reoptimise
<1>4. tasks' \in [Clients -> Task]
  <2>1. [op |-> tasks[c].back, todo |-> tasks[c].rest] \in Task
    BY <1>3 DEF Task
  <2>2. Continue(c, [op |-> tasks[c].back, todo |-> tasks[c].rest])
    BY DEF Answered
  <2> QED
    BY <2>1, <2>2, ContinueType DEF TypeInv
<1>5. q.inc \in Incidents /\ Registry(incidents)
  BY <1>1 DEF Asked, TypeInv
<1> HIDE DEF q
<1>6. /\ HistoryOK' /\ FleetOK' /\ Registry(incidents)'
      /\ auditFailed' \in BOOLEAN /\ rejects' \in 0..MaxRejects
  BY <1>2, <1>5, PersistType
<1> QED
  BY <1>4, <1>6 DEF Answered, TypeInv, StreamOK, ValidOK, FlagsOK, validVars

(* The end of a batch or of a change of position. *)
LEMMA EndStep ==
    ASSUME TypeInv, NEW c \in Clients, EndBatch(c) \/ EndSwitch(c)
    PROVE  TypeInv'
<1>1. tasks' \in [Clients -> Task]
  BY PlainTasks, ContinueType DEF EndBatch, EndSwitch, TypeInv
<1>2. FlagsOK'
  BY ConstantTypes DEF EndBatch, EndSwitch, TypeInv, FlagsOK, AuditRequest, AuditRejects,
                       auditVars, simVars
<1> QED
  BY <1>1, <1>2 DEF EndBatch, EndSwitch, TypeInv, StreamOK, Registry, ValidOK, HistoryOK,
                    FleetOK, simVars, validVars, indexVars

(* The queue of a change of position lists incidents. *)
LEMMA OpenQueueType ==
    ASSUME TypeInv
    PROVE  OpenQueue \in Seq(Found)
<1> DEFINE isOpen(i) == i \in DOMAIN incidents /\ ~incidents[i].hard
<1> DEFINE open   == {k \in DOMAIN raw : /\ ~raw[k].hard /\ isOpen(raw[k].inc)
                                        /\ \A j \in Reports(raw[k].inc) : k <= j}
<1> DEFINE firsts == InOrder(open)
<1>1. open \subseteq DOMAIN raw /\ open \subseteq Nat /\ IsFiniteSet(open)
  <2>1. open \subseteq DOMAIN raw
    OBVIOUS
  <2> HIDE DEF open
  <2> QED
    BY <2>1, PendingType
<1>2. OpenQueue = [n \in DOMAIN firsts |-> [inc |-> raw[firsts[n]].inc, kept |-> TRUE]]
  BY DEF OpenQueue
<1> HIDE DEF open
<1>3. /\ Cardinality(open) \in Nat /\ DOMAIN firsts = 1..Cardinality(open)
      /\ \A n \in DOMAIN firsts : firsts[n] \in DOMAIN raw
  BY <1>1, InOrderLists, FS_CardinalityType
<1> HIDE DEF firsts
<1>4. \A k \in DOMAIN raw : raw[k].inc \in Incidents
  <2>1. \A k \in DOMAIN raw : raw[k] \in Event
    BY LenProperties, ElementOfSeq DEF TypeInv, StreamOK
  <2> QED
    BY <2>1 DEF Event
<1>5. \A n \in DOMAIN firsts : [inc |-> raw[firsts[n]].inc, kept |-> TRUE] \in Found
  BY <1>3, <1>4 DEF Found
<1>6. OpenQueue \in [1..Cardinality(open) -> Found]
  BY <1>2, <1>3, <1>5
<1> QED
  BY <1>3, <1>6, SeqDef

(* Asking for a change of position. *)
LEMMA SwitchPolicyStep ==
    ASSUME TypeInv, NEW c \in Clients, SwitchPolicy(c)
    PROVE  TypeInv'
<1>1. PICK p \in UsedPositions, reoptimise \in BOOLEAN :
        /\ Continue(c, [op   |-> "dryRuns", to |-> p, saved |-> counter,
                        todo |-> OpenQueue,
                        open |-> IF reoptimise THEN OpenQueue ELSE <<>>])
        /\ UNCHANGED <<simVars, validVars, indexVars, auditVars, pool, position>>
  BY DEF SwitchPolicy
<1> DEFINE t == [op   |-> "dryRuns", to |-> p, saved |-> counter, todo |-> OpenQueue,
                 open |-> IF reoptimise THEN OpenQueue ELSE <<>>]
<1>2. t \in Task
  <2>1. OpenQueue \in Seq(Found) /\ <<>> \in Seq(Found)
    BY OpenQueueType, EmptySeq
  <2>2. p \in Positions /\ counter \in 0..MaxIds
    BY EngineAssumption DEF TypeInv, HistoryOK
  <2>3. t \in DryRuns
    BY <2>1, <2>2 DEF DryRuns
  <2> QED
    BY <2>3 DEF Task
<1> HIDE DEF t
<1>3. tasks' \in [Clients -> Task]
  BY <1>1, <1>2, ContinueType DEF TypeInv, t
<1> QED
  BY <1>1, <1>3 DEF TypeInv, StreamOK, Registry, ValidOK, HistoryOK, FlagsOK, FleetOK,
                    simVars, validVars, indexVars, auditVars

(* Looking up the latest decisions leaves history and cache well formed. *)
LEMMA RefreshStep ==
    ASSUME TypeInv, Refresh, history' = history, counter' \in 0..MaxIds
    PROVE  HistoryOK'
BY RefreshedType DEF Refresh, TypeInv, HistoryOK

(* The dry runs for one open incident. *)
LEMMA DryRunOneStep ==
    ASSUME TypeInv, NEW c \in Clients, DryRunOne(c)
    PROVE  TypeInv'
<1>1. tasks[c] \in Task /\ tasks[c].op = "dryRuns" /\ tasks[c].todo # <<>>
  BY DEF DryRunOne, TypeInv
<1>2. Rest(tasks[c]) \in Task
  BY <1>1, TaskRest
<1>3. tasks' \in [Clients -> Task]
  <2>1. Continue(c, Rest(tasks[c])) \/ Continue(c, Idle)
    BY DEF DryRunOne
  <2> QED
    BY <1>2, <2>1, PlainTasks, ContinueType DEF TypeInv
<1>4. counter' \in 0..MaxIds
  BY ConstantTypes DEF DryRunOne, TypeInv, HistoryOK
<1>5. HistoryOK'
  BY <1>4, RefreshStep DEF DryRunOne
<1> QED
  BY <1>3, <1>5 DEF DryRunOne, TypeInv, StreamOK, Registry, ValidOK, FlagsOK, FleetOK,
                    simVars, validVars, auditVars

(* The new position takes effect. *)
LEMMA EndDryRunsStep ==
    ASSUME TypeInv, NEW c \in Clients, EndDryRuns(c)
    PROVE  TypeInv'
<1>1. tasks[c] \in DryRuns
  BY TaskFields DEF EndDryRuns, TypeInv
<1>2. [op |-> "reoptimise", todo |-> tasks[c].open] \in Task
  BY <1>1 DEF Task, Reoptimise, DryRuns
<1>3. tasks' \in [Clients -> Task]
  BY <1>2, ContinueType DEF EndDryRuns, TypeInv
<1>4. counter' \in 0..MaxIds /\ position' \in Positions
  BY <1>1 DEF EndDryRuns, DryRuns
<1> QED
  BY <1>3, <1>4 DEF EndDryRuns, TypeInv, StreamOK, Registry, ValidOK, HistoryOK, FlagsOK,
                    FleetOK, simVars, validVars, auditVars

(* One open incident: its units are released, and Laya is asked again. *)
LEMMA ReoptimiseStep ==
    ASSUME TypeInv, NEW c \in Clients, ReoptimiseOne(c)
    PROVE  TypeInv'
<1> DEFINE item   == Head(tasks[c].todo)
<1> DEFINE i      == item.inc
<1>1. tasks[c] \in Task /\ tasks[c].op = "reoptimise" /\ tasks[c].todo # <<>>
  BY DEF ReoptimiseOne, TypeInv
<1>2. item \in Found /\ Rest(tasks[c]) \in Task
  BY <1>1, TaskRest
<1>3. item.kept \in BOOLEAN /\ Registry(incidents)
  BY <1>2 DEF Found, TypeInv
<1>4. \/ Continue(c, Rest(tasks[c])) \/ Continue(c, Idle)
      \/ i \in DOMAIN incidents /\ Ask(c, Question(i, incidents, item.kept))
  BY DEF ReoptimiseOne, Decidable
<1>5. /\ Refresh
      /\ UNCHANGED pool \/ pool' = Released(i, Refreshed[i])
      /\ UNCHANGED <<simVars, validVars, history, counter, auditVars, position>>
  BY DEF ReoptimiseOne
<1> HIDE DEF i, item
<1>6. tasks' \in [Clients -> Task]
  BY <1>1, <1>2, <1>3, <1>4, PlainTasks, ContinueType, AskType DEF TypeInv
<1>7. FleetOK'
  BY <1>5 DEF Released, TypeInv, FleetOK
<1>8. counter' \in 0..MaxIds
  BY <1>5 DEF TypeInv, HistoryOK
<1>9. HistoryOK'
  BY <1>5, <1>8, RefreshStep
<1> QED
  BY <1>5, <1>6, <1>7, <1>9
     DEF TypeInv, StreamOK, Registry, ValidOK, FlagsOK, simVars, validVars, auditVars

(* The units an override assigns are units, and free. *)
LEMMA AssignedToType ==
    ASSUME TypeInv, NEW r \in Record
    PROVE  /\ AssignedTo(r) \in Seq(Units)
           /\ \A u \in Elems(AssignedTo(r)) : u \in FreeUnits(pool)
<1> DEFINE candidates(k) == OfType(FreeUnits(pool), r.recommended[k])
<1> DEFINE places == {k \in DOMAIN r.recommended : candidates(k) # {}}
<1> DEFINE served == InOrder(places)
<1>1. /\ Len(r.recommended) \in Nat /\ DOMAIN r.recommended = 1..Len(r.recommended)
  BY LenProperties DEF Record
<1>2. places \subseteq 1..Len(r.recommended) /\ places \subseteq Nat /\ IsFiniteSet(places)
  <2>1. places \subseteq 1..Len(r.recommended)
    BY <1>1
  <2>2. IsFiniteSet(1..Len(r.recommended)) /\ 1..Len(r.recommended) \subseteq Nat
    BY <1>1, FS_Interval
  <2> HIDE DEF places
  <2> QED
    BY <2>1, <2>2, FS_Subset
<1>3. /\ Cardinality(places) \in Nat /\ DOMAIN served = 1..Cardinality(places)
      /\ \A n \in DOMAIN served : served[n] \in places
  <2> HIDE DEF places
  <2> QED
    BY <1>2, InOrderLists, FS_CardinalityType
<1>4. ASSUME NEW k \in places
      PROVE  Least(candidates(k)) \in FreeUnits(pool)
  <2>1. candidates(k) # {} /\ candidates(k) \subseteq FreeUnits(pool)
    BY DEF OfType
  <2>2. candidates(k) \subseteq Nat
    BY <2>1, ConstantTypes DEF FreeUnits
  <2>3. Least(candidates(k)) \in candidates(k)
    <3> HIDE DEF candidates
    <3> QED
      BY <2>1, <2>2, LeastIsLeast
  <2> QED
    BY <2>1, <2>3
<1>5. AssignedTo(r) = [n \in DOMAIN served |-> Least(candidates(served[n]))]
  BY DEF AssignedTo
<1> HIDE DEF served, candidates, places
<1>6. /\ DOMAIN AssignedTo(r) = 1..Cardinality(places)
      /\ \A n \in 1..Cardinality(places) : AssignedTo(r)[n] \in FreeUnits(pool)
      /\ AssignedTo(r) \in [1..Cardinality(places) -> FreeUnits(pool)]
  BY <1>3, <1>4, <1>5
<1>7. FreeUnits(pool) \subseteq Units
  BY DEF FreeUnits
<1>8. AssignedTo(r) \in [1..Cardinality(places) -> Units]
  BY <1>6, <1>7
<1>9. AssignedTo(r) \in Seq(Units)
  BY <1>3, <1>8, SeqDef
<1> QED
  BY <1>6, <1>9 DEF Elems

(* An override of any kind. *)
LEMMA OverrideStep ==
    ASSUME TypeInv, NEW c \in Clients, Override(c)
    PROVE  TypeInv'
<1>1. PICK k \in DOMAIN history, t \in OverrideKinds, p \in Priorities,
           consent \in Consents : ApplyOverride(history[k], t, p, consent)
  BY DEF Override
<1> DEFINE r     == history[k]
<1> DEFINE extra == IF t = "ASSIGN_RESOURCES" THEN AssignedTo(r) ELSE <<>>
<1> DEFINE units == r.units \o extra
<1> DEFINE new   == [r EXCEPT !.id = counter + 1, !.state = "OVERRIDE_ACTIVE",
                           !.priority = IF t = "CHANGE_PRIORITY" THEN p ELSE @,
                           !.units = units, !.over = t,
                           !.glass = (consent = "breakGlass")]
<1>2. r \in Record
  BY LenProperties, ElementOfSeq DEF TypeInv, HistoryOK
<1>3. units \in Seq(Units) /\ r.inc \in Incidents
  <2>1. r.units \in Seq(Units) /\ r.inc \in Incidents
    BY <1>2 DEF Record
  <2>2. extra \in Seq(Units)
    BY <1>2, AssignedToType, EmptySeq
  <2> HIDE DEF extra, r
  <2> QED
    BY <2>1, <2>2, ConcatProperties
<1>4. /\ MayDecide /\ counter' = counter + 1 /\ Index(new)
      /\ pool' = [u \in Units |-> IF u \in Elems(extra) THEN r.inc ELSE pool[u]]
      /\ \/ /\ incidents' = [incidents EXCEPT ![r.inc].units =
                                    IF extra = <<>> THEN @ ELSE units]
            /\ UNCHANGED rejects
         \/ /\ AuditRejects
            /\ UNCHANGED incidents
  BY <1>1 DEF ApplyOverride
<1> HIDE DEF extra, units
<1>5. new \in Record
  <2>1. t \in OverrideTypes
    BY EngineAssumption
  <2>2. counter + 1 \in 1..MaxIds
    BY <1>4, ConstantTypes DEF MayDecide, TypeInv, HistoryOK
  <2> HIDE DEF r
  <2> QED
    BY <1>2, <1>3, <2>1, <2>2 DEF Record
<1> HIDE DEF new, r
<1>6. HistoryOK'
  <2>1. HistoryOK
    BY DEF TypeInv
  <2> QED
    BY <1>4, <1>5, <2>1, IndexType
<1>7. FleetOK'
  BY <1>3, <1>4 DEF TypeInv, FleetOK
<1>8. Registry(incidents)'
  <2> DEFINE v == [incidents[r.inc] EXCEPT !.units = IF extra = <<>> THEN @ ELSE units]
  <2>1. r.inc \in DOMAIN incidents => v \in IncidentRecord
    BY <1>3 DEF TypeInv, Registry, IncidentRecord
  <2>2. Registry([incidents EXCEPT ![r.inc] = v])
    <3> HIDE DEF v
    <3> QED
      BY <2>1, RegistryUpdate DEF TypeInv
  <2>3. incidents' \in {incidents, [incidents EXCEPT ![r.inc] = v]}
    BY <1>4
  <2> HIDE DEF v
  <2> QED
    BY <2>2, <2>3 DEF TypeInv, Registry
<1>9. FlagsOK'
  <2>1. rejects' \in 0..MaxRejects
    BY <1>4, ConstantTypes DEF AuditRejects, TypeInv, FlagsOK
  <2> QED
    BY <2>1 DEF Override, TypeInv, FlagsOK
<1> QED
  BY <1>6, <1>7, <1>8, <1>9 DEF Override, TypeInv, StreamOK, ValidOK, validVars

(* Attaching an image. *)
LEMMA AttachImageStep ==
    ASSUME TypeInv, NEW c \in Clients, AttachImage(c)
    PROVE  TypeInv'
<1>1. PICK i \in DOMAIN incidents :
        /\ Refresh
        /\ incidents' = [incidents EXCEPT ![i].evidence = Refreshed[i].id]
        /\ AuditRequest
  BY DEF AttachImage
<1>2. Refreshed \in [Incidents -> Record \cup {NoRecord}] /\ Len(history) \in Nat
  BY RefreshedType DEF TypeInv
<1>3. HistoryOK'
  BY <1>1, <1>2 DEF Refresh, AttachImage, TypeInv, HistoryOK
<1>4. Registry(incidents)'
  <2>1. i \in Incidents /\ incidents[i] \in IncidentRecord
    BY DEF TypeInv, Registry
  <2>2. Refreshed[i].id \in 0..MaxIds
    BY <1>2, <2>1, ConstantTypes DEF Record, NoRecord
  <2>3. [incidents[i] EXCEPT !.evidence = Refreshed[i].id] \in IncidentRecord
    BY <2>1, <2>2 DEF IncidentRecord
  <2>4. Registry([incidents EXCEPT ![i] = [incidents[i] EXCEPT !.evidence = Refreshed[i].id]])
    BY <2>3, RegistryUpdate DEF TypeInv
  <2> QED
    BY <1>1, <2>4 DEF Registry
<1>5. FlagsOK'
  BY <1>1, ConstantTypes DEF AttachImage, AuditRequest, AuditRejects, TypeInv, FlagsOK
<1> QED
  BY <1>3, <1>4, <1>5 DEF AttachImage, TypeInv, StreamOK, ValidOK, FleetOK, validVars

(* Entering What-If: a hypothetical emergency or none. *)
LEMMA EnterWhatIfStep ==
    ASSUME TypeInv, NEW c \in Clients, EnterWhatIf(c)
    PROVE  TypeInv'
<1>1. /\ MayDecide /\ counter' = counter + 1
      /\ Continue(c, [op |-> "whatIf", saved |-> Snapshot])
      /\ UNCHANGED <<validVars, history, cache, cachedLen, auditVars, pool, position>>
      /\ InjectNew([type |-> "FIRE", zone |-> "NORTH"], 1) \/ UNCHANGED simVars
  BY DEF EnterWhatIf
<1>2. Snapshot \in Saved
  <2>1. Len(raw) \in Nat
    BY LenProperties DEF TypeInv, StreamOK
  <2> QED
    BY <2>1 DEF Snapshot, Saved, TypeInv, StreamOK, Registry, HistoryOK
<1>3. tasks' \in [Clients -> Task]
  <2>1. [op |-> "whatIf", saved |-> Snapshot] \in Task
    BY <1>2 DEF Task, WhatIf
  <2> QED
    BY <1>1, <2>1, ContinueType DEF TypeInv
<1>4. StreamOK' /\ Registry(incidents)' /\ paused' = paused
  <2>1. [type |-> "FIRE", zone |-> "NORTH"] \in Kind
    BY DEF Kind, IncidentTypes, Zones
  <2>2. CASE InjectNew([type |-> "FIRE", zone |-> "NORTH"], 1)
    BY <2>1, <2>2, InjectNewType
  <2>3. CASE UNCHANGED simVars
    BY <2>3 DEF simVars, TypeInv, StreamOK, Registry
  <2> QED
    BY <1>1, <2>2, <2>3
<1>5. counter' \in 0..MaxIds
  BY <1>1, ConstantTypes DEF MayDecide, TypeInv, HistoryOK
<1> QED
  BY <1>1, <1>3, <1>4, <1>5
     DEF TypeInv, ValidOK, HistoryOK, FlagsOK, FleetOK, validVars, auditVars

(* Leaving What-If: the rollback. *)
LEMMA ExitWhatIfStep ==
    ASSUME TypeInv, NEW c \in Clients, ExitWhatIf(c)
    PROVE  TypeInv'
<1> DEFINE saved == tasks[c].saved
<1>1. tasks[c] \in [op : {"whatIf"}, saved : Saved]
  <2>1. tasks[c] \in Task /\ tasks[c].op = "whatIf"
    BY DEF ExitWhatIf, TypeInv
  <2> QED
    BY <2>1, TaskFields DEF WhatIf
<1>2. /\ saved.rawLen \in Nat /\ saved.counter \in 0..MaxIds
      /\ saved.generated \in Nat /\ saved.numbered \in Nat
  BY <1>1 DEF Saved
<1>3. /\ raw' = IF Len(raw) > saved.rawLen THEN SubSeq(raw, 1, saved.rawLen) ELSE raw
      /\ incidents' = Without(incidents, DOMAIN incidents \ saved.known)
      /\ counter' = saved.counter
      /\ generated' = saved.generated /\ numbered' = saved.numbered
      /\ tasks' = [Orphaned(DOMAIN incidents \ saved.known) EXCEPT ![c] = Idle]
      /\ UNCHANGED <<paused, validVars, history, cache, cachedLen, auditVars, pool, position>>
  BY DEF ExitWhatIf, RolledBack
<1> HIDE DEF saved
<1>4. raw' \in Seq(Event)
  <2>1. raw \in Seq(Event) /\ Len(raw) \in Nat
    BY LenProperties DEF TypeInv, StreamOK
  <2>2. ASSUME Len(raw) > saved.rawLen
        PROVE  SubSeq(raw, 1, saved.rawLen) \in Seq(Event)
    <3>1. \A k \in 1..saved.rawLen : raw[k] \in Event
      <4>1. \A k \in 1..saved.rawLen : k \in 1..Len(raw)
        BY <1>2, <2>1, <2>2
      <4> QED
        BY <2>1, <4>1, ElementOfSeq
    <3>2. 1 \in Int /\ saved.rawLen \in Int
      BY <1>2
    <3> QED
      BY <3>1, <3>2, SubSeqProperties
  <2> QED
    BY <1>3, <2>1, <2>2
<1>5. Registry(incidents)'
  BY <1>3 DEF Without, TypeInv, Registry
<1>6. tasks' \in [Clients -> Task]
  BY <1>3, OrphanedType, PlainTasks DEF TypeInv
<1> QED
  BY <1>2, <1>3, <1>4, <1>5, <1>6
     DEF TypeInv, StreamOK, ValidOK, HistoryOK, FlagsOK, FleetOK, validVars, auditVars

-----------------------------------------------------------------------------
(* The invariant *)

(* The empty engine is well typed. *)
LEMMA TypeInvInit == Init => TypeInv
<1> SUFFICES ASSUME Init PROVE TypeInv
  OBVIOUS
<1>1. StreamOK /\ Registry(incidents)
  BY EmptySeq DEF Init, StreamOK, Registry
<1>2. ValidOK
  BY DEF Init, ValidOK
<1>3. HistoryOK
  BY EmptySeq, ConstantTypes DEF Init, HistoryOK
<1>4. FlagsOK
  <2>1. paused \in BOOLEAN /\ auditFailed \in BOOLEAN
    BY DEF Init
  <2>2. rejects \in 0..MaxRejects
    BY ConstantTypes DEF Init
  <2>3. position \in Positions
    BY DEF Init, Positions
  <2> QED
    BY <2>1, <2>2, <2>3 DEF FlagsOK
<1>5. FleetOK
  BY DEF Init, FleetOK
<1>6. tasks \in [Clients -> Task]
  BY PlainTasks DEF Init
<1> QED
  BY <1>1, <1>2, <1>3, <1>4, <1>5, <1>6 DEF TypeInv

(* Every step keeps it so. *)
LEMMA TypeInvStep == TypeInv /\ [Next]_vars => TypeInv'
<1> SUFFICES ASSUME TypeInv, [Next]_vars PROVE TypeInv'
  OBVIOUS
<1>1. CASE UNCHANGED vars
  BY <1>1 DEF vars, simVars, validVars, indexVars, auditVars, TypeInv, StreamOK, Registry,
              ValidOK, HistoryOK, FlagsOK, FleetOK
<1>2. ASSUME NEW c \in Clients, Start(c) \/ Reset(c) \/ PauseOrResume(c) PROVE TypeInv'
  BY <1>2, SessionStep
<1>3. ASSUME NEW c \in Clients, Inject(c) \/ InjectBad(c) \/ Report(c) \/ RefreshFeeds(c)
      PROVE  TypeInv'
  BY <1>3, ArrivalStep
<1>4. ASSUME NEW c \in Clients, BeginBatch(c) PROVE TypeInv'
  BY <1>4, BeginBatchStep
<1>5. ASSUME NEW c \in Clients, DecideOne(c) \/ Answered(c) PROVE TypeInv'
  BY <1>5, DecideOneStep, AnsweredStep
<1>6. ASSUME NEW c \in Clients, EndBatch(c) \/ EndSwitch(c) PROVE TypeInv'
  BY <1>6, EndStep
<1>7. ASSUME NEW c \in Clients, SwitchPolicy(c) \/ DryRunOne(c) \/ EndDryRuns(c)
      PROVE  TypeInv'
  BY <1>7, SwitchPolicyStep, DryRunOneStep, EndDryRunsStep
<1>8. ASSUME NEW c \in Clients, ReoptimiseOne(c) PROVE TypeInv'
  BY <1>8, ReoptimiseStep
<1>9. ASSUME NEW c \in Clients, Override(c) PROVE TypeInv'
  BY <1>9, OverrideStep
<1>10. ASSUME NEW c \in Clients, AttachImage(c) PROVE TypeInv'
  BY <1>10, AttachImageStep
<1>11. ASSUME NEW c \in Clients, EnterWhatIf(c) PROVE TypeInv'
  BY <1>11, EnterWhatIfStep
<1>12. ASSUME NEW c \in Clients, ExitWhatIf(c) PROVE TypeInv'
  BY <1>12, ExitWhatIfStep
<1> QED
  BY <1>1, <1>2, <1>3, <1>4, <1>5, <1>6, <1>7, <1>8, <1>9, <1>10, <1>11, <1>12 DEF Next

(* The stores and the requests' queues are well typed in every state. *)
THEOREM EngineTyped == Spec => []TypeInv
BY TypeInvInit, TypeInvStep, PTL DEF Spec

(* So the rows the API serialises refer only to units, incidents and       *)
(* decisions that exist, for every number of clients.                      *)
THEOREM EngineTypeCorrect == Spec => []EngineTypeOK
BY EngineTyped, TypeInvImpliesTypeOK, PTL

-----------------------------------------------------------------------------
(* What one step does to the fleet *)

FreesOnly ==
    /\ history' = history
    /\ \A u \in Units : \/ pool'[u] = pool[u]
                        \/ pool'[u] = Free /\ (pool[u] = Free \/ TakenUpAgain(pool[u]))
Cleared   == history' = <<>>    /\ \A u \in Units : pool'[u] = Free

Recorded(r) ==
    /\ history' = Append(history, r)
    /\ \A u \in Units :
          \/ pool'[u] = pool[u]
          \/ pool[u] = Free /\ pool'[u] = r.inc /\ u \in Elems(r.units)

FleetEffect == FreesOnly \/ Cleared \/ \E r \in Record : Recorded(r)

(* decide() answers with units that it was told are free. *)
LEMMA DecideTakesFree ==
    ASSUME TypeInv, NEW q \in Asked, NEW a \in Assessments, NEW S, S \subseteq Units
    PROVE  Elems(Decide(ContextFor(q, a), S).units) \subseteq S
<1> DEFINE c == ContextFor(q, a)
<1>1. c \in DecisionContext
  <2>1. q.kind.type \in IncidentTypes /\ q.kind.zone \in Zones /\ q.hard \in BOOLEAN
    BY DEF Asked, Kind
  <2>2. a \in Assessment /\ position \in Positions
    BY EngineAssumption DEF TypeInv, FlagsOK
  <2> QED
    BY <2>1, <2>2 DEF ContextFor, DecisionContext
<1> HIDE DEF c
<1>2. Decide(c, S).units = <<>> \/ \E u \in S : Decide(c, S).units = <<u>>
  BY <1>1, DecidedRecord
<1>3. Elems(Decide(c, S).units) \subseteq S
  BY <1>2 DEF Elems
<1> QED
  BY <1>3 DEF c

(* A decision is persisted with the free units of the pool that it takes,  *)
(* or with none of them where it was given a pool that is replaced.        *)
LEMMA PersistEffect ==
    ASSUME TypeInv, NEW i \in Incidents, NEW d, Answers(d), NEW book, NEW live, NEW taken,
           taken \subseteq Elems(d.units), taken \subseteq FreeUnits(pool),
           Persist(i, d, book, live, taken)
    PROVE  \E r \in Record : /\ Recorded(r) /\ r.inc = i /\ r.units = d.units
                             /\ \A u \in taken : pool'[u] = i
<1> DEFINE r == NewRecord(i, d)
<1>1. /\ history' = Append(history, r)
      /\ pool' = [u \in Units |-> IF u \in taken THEN i ELSE pool[u]]
      /\ r.units = d.units /\ r.inc = i
  BY DEF Persist, Index, NewRecord
<1>2. r \in Record
  <2>1. counter + 1 \in 1..MaxIds
    BY ConstantTypes DEF Persist, MayDecide, TypeInv, HistoryOK
  <2> QED
    BY <2>1 DEF NewRecord, Record, Answers, OverrideTypes
<1> HIDE DEF r
<1>3. ASSUME NEW u \in Units
      PROVE  \/ pool'[u] = pool[u]
             \/ pool[u] = Free /\ pool'[u] = r.inc /\ u \in Elems(r.units)
  BY <1>1 DEF FreeUnits
<1>4. \A u \in taken : pool'[u] = i
  BY <1>1 DEF FreeUnits
<1> QED
  BY <1>1, <1>2, <1>3, <1>4 DEF Recorded

(* One report of a batch: a rejection takes no unit, a question none yet. *)
LEMMA DecideOneEffect ==
    ASSUME TypeInv, NEW c \in Clients, DecideOne(c)
    PROVE  FleetEffect
<1> DEFINE item == Head(tasks[c].todo)
<1> DEFINE i    == item.inc
<1> DEFINE book == IF i \in DOMAIN incidents THEN incidents ELSE Put(incidents, i, Shell)
<1>1. tasks[c] \in Task /\ tasks[c].op = "batch" /\ tasks[c].todo # <<>>
  BY DEF DecideOne, TypeInv
<1>2. i \in Incidents
  BY <1>1, TaskRest DEF Item
<1>3. \/ Persist(i, Rejection, book, TRUE, {})
      \/ UNCHANGED <<history, pool>>
  BY DEF DecideOne, indexVars
<1> HIDE DEF i, book
<1>4. CASE Persist(i, Rejection, book, TRUE, {})
  <2>1. \E r \in Record : Recorded(r)
    <3>1. PICK none : none = {}
      OBVIOUS
    <3>2. none \subseteq Elems(Rejection.units) /\ none \subseteq FreeUnits(pool)
      BY <3>1
    <3>3. Persist(i, Rejection, book, TRUE, none)
      BY <1>4, <3>1
    <3>4. Answers(Rejection)
      BY RejectionAnswers
    <3> QED
      BY <1>2, <3>2, <3>3, <3>4, PersistEffect
  <2> QED
    BY <2>1 DEF FleetEffect
<1>5. CASE UNCHANGED <<history, pool>>
  BY <1>5 DEF FleetEffect, FreesOnly
<1> QED
  BY <1>3, <1>4, <1>5

(* The answer: what the pool holds is looked at after Laya was asked, so   *)
(* the units it takes are free whatever happened in between.               *)
LEMMA AnsweredEffect ==
    ASSUME TypeInv, NEW c \in Clients, Answered(c)
    PROVE  FleetEffect
<1> DEFINE q == tasks[c].about
<1>1. q \in Asked /\ q.inc \in Incidents
  BY AnsweredParts DEF Asked
<1>2. PICK a \in Assessments, free \in SUBSET Units :
        LET d == Decide(ContextFor(q, a), free)
        IN  /\ q.stale \/ free = FreeUnits(pool)
            /\ Persist(q.inc, d, incidents, q.kept, IF q.stale THEN {} ELSE Elems(d.units))
  BY AnsweredParts
<1> HIDE DEF q
<1> DEFINE d == Decide(ContextFor(q, a), free)
<1>3. Answers(d) /\ Elems(d.units) \subseteq free
  BY <1>1, DecideAnswers, DecideTakesFree
<1>4. PICK taken : /\ taken \subseteq Elems(d.units) /\ taken \subseteq FreeUnits(pool)
                   /\ Persist(q.inc, d, incidents, q.kept, taken)
  <2>1. CASE q.stale
    <3>1. Persist(q.inc, d, incidents, q.kept, {})
      BY <1>2, <2>1
    <3> QED
      BY <3>1
  <2>2. CASE ~q.stale
    <3>1. Persist(q.inc, d, incidents, q.kept, Elems(d.units)) /\ free = FreeUnits(pool)
      BY <1>2, <2>2
    <3> HIDE DEF d
    <3> QED
      BY <1>3, <3>1
  <2> QED
    BY <2>1, <2>2
<1> HIDE DEF d
<1> QED
  BY <1>1, <1>3, <1>4, PersistEffect DEF FleetEffect

(* A reoptimisation releases units where the incident itself holds them.   *)
LEMMA ReoptimiseEffect ==
    ASSUME TypeInv, NEW c \in Clients, ReoptimiseOne(c)
    PROVE  FleetEffect
<1> DEFINE i == Head(tasks[c].todo).inc
<1>1. UNCHANGED history
  BY DEF ReoptimiseOne
<1>2. CASE UNCHANGED pool
  BY <1>1, <1>2 DEF FleetEffect, FreesOnly
<1>3. CASE /\ pool' = Released(i, Refreshed[i])
           /\ Ask(c, Question(i, incidents, Head(tasks[c].todo).kept)) \/ Continue(c, Idle)
  <2>1. tasks'[c].op # "reoptimise"
    BY <1>3 DEF Ask, Continue, Idle, TypeInv
  <2>2. TakenUpAgain(i)
    BY <2>1 DEF TakenUpAgain, ReoptimiseOne
  <2> HIDE DEF i
  <2>3. \A u \in Units : pool'[u] = pool[u] \/ (pool'[u] = Free /\ pool[u] = i)
    BY <1>3 DEF Released
  <2>4. FreesOnly
    BY <1>1, <2>2, <2>3 DEF FreesOnly
  <2> QED
    BY <2>4 DEF FleetEffect
<1> QED
  BY <1>2, <1>3 DEF ReoptimiseOne

(* An override of any kind; it never releases, and copies the unit list of *)
(* the decision it names.                                                  *)
LEMMA OverrideEffect ==
    ASSUME TypeInv, NEW c \in Clients, Override(c), TypeInv'
    PROVE  \E r \in Record : Recorded(r) /\ r.over # "NONE"
<1>1. PICK k \in DOMAIN history, t \in OverrideKinds, p \in Priorities,
           consent \in Consents : ApplyOverride(history[k], t, p, consent)
  BY DEF Override
<1> DEFINE r     == history[k]
<1> DEFINE extra == IF t = "ASSIGN_RESOURCES" THEN AssignedTo(r) ELSE <<>>
<1> DEFINE new   == [r EXCEPT !.id = counter + 1, !.state = "OVERRIDE_ACTIVE",
                           !.priority = IF t = "CHANGE_PRIORITY" THEN p ELSE @,
                           !.units = r.units \o extra, !.over = t,
                           !.glass = (consent = "breakGlass")]
<1>2. /\ history' = Append(history, new)
      /\ pool' = [u \in Units |-> IF u \in Elems(extra) THEN r.inc ELSE pool[u]]
  BY <1>1 DEF ApplyOverride, Index
<1>3. r \in Record /\ Len(history) \in Nat
  BY LenProperties, ElementOfSeq DEF TypeInv, HistoryOK
<1>4. new.inc = r.inc /\ new.units = r.units \o extra /\ new.over # "NONE"
  <2>1. t # "NONE"
    BY EngineAssumption DEF OverrideTypes
  <2> HIDE DEF r
  <2> QED
    BY <1>3, <2>1 DEF Record
<1>5. extra \in Seq(Units) /\ \A u \in Elems(extra) : u \in FreeUnits(pool)
  BY <1>3, AssignedToType, EmptySeq DEF Elems
<1>6. \A u \in Elems(extra) : u \in Elems(r.units \o extra)
  <2>1. r.units \in Seq(Units)
    BY <1>3 DEF Record
  <2> HIDE DEF extra, r
  <2>2. /\ Len(r.units) \in Nat /\ Len(extra) \in Nat
        /\ DOMAIN extra = 1..Len(extra)
        /\ DOMAIN (r.units \o extra) = 1..(Len(r.units) + Len(extra))
        /\ \A n \in 1..Len(extra) : (r.units \o extra)[Len(r.units) + n] = extra[n]
    BY <1>5, <2>1, LenProperties, ConcatProperties
  <2>3. \A n \in 1..Len(extra) : Len(r.units) + n \in 1..(Len(r.units) + Len(extra))
    BY <2>2
  <2> QED
    BY <2>2, <2>3 DEF Elems
<1>7. new \in Record
  <2> HIDE DEF new
  <2>1. history' \in Seq(Record) /\ history \in Seq(Record)
    BY DEF TypeInv, HistoryOK
  <2>2. Append(history, new)[Len(history) + 1] = new
        /\ DOMAIN Append(history, new) = 1..(Len(history) + 1)
    BY <2>1, SMT
  <2>3. Len(history) + 1 \in 1..(Len(history) + 1)
    BY <1>3
  <2>4. history'[Len(history) + 1] \in Record
    <3>1. DOMAIN history' = 1..Len(history')
      BY <2>1, LenProperties
    <3>2. Len(history) + 1 \in 1..Len(history')
      BY <1>2, <2>2, <2>3, <3>1
    <3> QED
      BY <2>1, <3>2, ElementOfSeq
  <2> QED
    BY <1>2, <2>2, <2>4
<1> HIDE DEF extra, new, r
<1>8. Recorded(new)
  BY <1>2, <1>4, <1>5, <1>6 DEF Recorded, FreeUnits
<1> QED
  BY <1>4, <1>7, <1>8

(* A step does nothing else to the pool. *)
LEMMA StepEffect ==
    ASSUME TypeInv, TypeInv', [Next]_vars
    PROVE  FleetEffect
<1>1. CASE UNCHANGED <<history, pool>>
  BY <1>1 DEF FleetEffect, FreesOnly
<1>2. ASSUME NEW c \in Clients, Start(c) \/ Reset(c) PROVE FleetEffect
  BY <1>2 DEF Start, Reset, NewSession, FleetEffect, Cleared
<1>3. ASSUME NEW c \in Clients,
             \/ PauseOrResume(c) \/ Inject(c) \/ InjectBad(c) \/ Report(c)
             \/ RefreshFeeds(c) \/ BeginBatch(c) \/ EndBatch(c)
             \/ SwitchPolicy(c) \/ DryRunOne(c) \/ EndDryRuns(c) \/ EndSwitch(c)
             \/ AttachImage(c)
             \/ EnterWhatIf(c) \/ ExitWhatIf(c)
      PROVE  UNCHANGED <<history, pool>>
  BY <1>3 DEF PauseOrResume, Inject, InjectBad, Report, RefreshFeeds, BeginBatch, EndBatch,
              SwitchPolicy, DryRunOne, EndDryRuns, EndSwitch, AttachImage, EnterWhatIf, ExitWhatIf, indexVars
<1>4. CASE UNCHANGED vars
  BY <1>1, <1>4 DEF vars, indexVars
<1>5. ASSUME NEW c \in Clients, Override(c) PROVE FleetEffect
  BY <1>5, OverrideEffect DEF FleetEffect
<1> QED
  BY <1>1, <1>2, <1>3, <1>4, <1>5, DecideOneEffect, AnsweredEffect, ReoptimiseEffect DEF Next

-----------------------------------------------------------------------------
(* No phantom dispatch *)

(* A step that has such an effect keeps every dispatch accounted for. *)
LEMMA AccountedStep ==
    ASSUME TypeInv, NoPhantomDispatch, FleetEffect
    PROVE  NoPhantomDispatch'
<1> SUFFICES ASSUME NEW u \in Units, pool'[u] # Free
             PROVE  \E k \in DOMAIN history' : /\ history'[k].inc = pool'[u]
                                               /\ u \in Elems(history'[k].units)
  BY DEF NoPhantomDispatch
<1>1. CASE FreesOnly
  BY <1>1 DEF FreesOnly, NoPhantomDispatch
<1>2. CASE Cleared
  BY <1>2 DEF Cleared
<1>3. ASSUME NEW r \in Record, Recorded(r)
      PROVE  \E k \in DOMAIN history' : /\ history'[k].inc = pool'[u]
                                        /\ u \in Elems(history'[k].units)
  <2>1. history \in Seq(Record) /\ history' = Append(history, r) /\ Len(history) \in Nat
    BY <1>3, LenProperties DEF TypeInv, HistoryOK, Recorded
  <2>2. /\ DOMAIN history = 1..Len(history) /\ DOMAIN history' = 1..(Len(history) + 1)
        /\ \A k \in DOMAIN history : history'[k] = history[k]
        /\ history'[Len(history) + 1] = r
    BY <2>1
  <2>3. CASE pool'[u] = pool[u]
    <3>1. PICK k \in DOMAIN history : history[k].inc = pool[u] /\ u \in Elems(history[k].units)
      BY <2>3 DEF NoPhantomDispatch
    <3>2. k \in DOMAIN history' /\ history'[k] = history[k]
      BY <2>1, <2>2
    <3> QED
      BY <2>3, <3>1, <3>2
  <2>4. CASE pool'[u] = r.inc /\ u \in Elems(r.units)
    <3>1. Len(history) + 1 \in DOMAIN history'
      BY <2>1, <2>2
    <3> QED
      BY <2>2, <2>4, <3>1
  <2> QED
    BY <1>3, <2>3, <2>4 DEF Recorded
<1> QED
  BY <1>1, <1>2, <1>3 DEF FleetEffect

(* engine._persist, apply_override and switch_policy never leave a unit    *)
(* driving to an incident for which no decision of the session lists it,   *)
(* however requests interleave and whatever audit write fails.             *)
THEOREM NoPhantomDispatchHolds == Spec => []NoPhantomDispatch
<1>1. Init => NoPhantomDispatch
  BY DEF Init, NoPhantomDispatch
<1>2. TypeInv /\ TypeInv' /\ NoPhantomDispatch /\ [Next]_vars => NoPhantomDispatch'
  BY StepEffect, AccountedStep
<1> QED
  BY <1>1, <1>2, EngineTyped, PTL DEF Spec

-----------------------------------------------------------------------------
(* No silent steal *)

(* A unit that is on its way somewhere stays assigned there after any      *)
(* step, unless a new session begins or the engine decides that very       *)
(* incident again: no decision, override, What-If run or reoptimisation of *)
(* another incident takes it away.                                         *)
THEOREM NoSilentStealHolds == Spec => NoSilentSteal
<1>1. TypeInv /\ FleetEffect
        => \A u \in Units : pool[u] # Free =>
              \/ pool'[u] = pool[u]
              \/ pool'[u] = Free /\ (history' = <<>> \/ TakenUpAgain(pool[u]))
  BY DEF FleetEffect, FreesOnly, Cleared, Recorded
<1>2. TypeInv /\ TypeInv' /\ [Next]_vars
        => [\A u \in Units : pool[u] # Free =>
              \/ pool'[u] = pool[u]
              \/ pool'[u] = Free /\ (history' = <<>> \/ TakenUpAgain(pool[u]))]_vars
  BY <1>1, StepEffect
<1> QED
  BY <1>2, EngineTyped, PTL DEF Spec, NoSilentSteal
-----------------------------------------------------------------------------
(* Dispatches that last *)

\* No session is replaced and no What-If run rolled back.
Undisturbed == Requests \cap {"start", "reset", "whatIf"} = {}

\* The incidents a request will still decide again, and their queue.
RedoQueue(t) == CASE t.op = "reoptimise" -> t.todo
                  [] t.op = "dryRuns"    -> t.open
                  [] t.op = "asking" /\ t.back = "reoptimise" -> t.rest
                  [] OTHER -> <<>>
ToRedo(t)    == {RedoQueue(t)[n].inc : n \in DOMAIN RedoQueue(t)}

\* They can be decided, and Laya is asked for a pool that is the live one.
SteadyTask(t) == /\ t.op # "whatIf"
                 /\ t.op = "asking" => ~t.about.stale
                 /\ \A i \in ToRedo(t) : Decidable(i)
SteadyInv == \A c \in Clients : SteadyTask(tasks[c])

\* What a step may do to one request's task.
MovesTo(c, t) == /\ tasks' = [tasks EXCEPT ![c] = t]
                 /\ t.op # "whatIf"
                 /\ t.op = "asking" => ~t.about.stale
                 /\ \A i \in ToRedo(t) : i \in ToRedo(tasks[c]) \/ Decidable(i)

\* Nothing that was reported or registered disappears.
Grows == /\ \A k \in DOMAIN raw : k \in DOMAIN raw' /\ raw'[k] = raw[k]
         /\ DOMAIN incidents \subseteq DOMAIN incidents'

(* What can be decided stays so. *)
LEMMA DecidableStays ==
    ASSUME Grows, NEW i, Decidable(i)
    PROVE  Decidable(i)'
BY DEF Grows, Decidable, Reports

(* Sessions are not replaced, and nothing is rolled back. *)
LEMMA Excluded ==
    ASSUME Undisturbed, SteadyInv, NEW c \in Clients
    PROVE  ~Start(c) /\ ~Reset(c) /\ ~EnterWhatIf(c) /\ ~ExitWhatIf(c)
<1>1. tasks[c].op # "whatIf"
  BY DEF SteadyInv, SteadyTask
<1>2. \A name \in {"start", "reset", "whatIf"} : ~Accepts(c, name)
  BY DEF Undisturbed, Accepts
<1> QED
  BY <1>1, <1>2 DEF Start, Reset, EnterWhatIf, ExitWhatIf

(* Generated reports come after those that are there. *)
LEMMA AppendGrows ==
    ASSUME TypeInv, NEW i \in Incidents, NEW kind \in Kind, NEW hard \in BOOLEAN,
           NEW n \in Nat, AppendReports(i, kind, hard, n),
           DOMAIN incidents \subseteq DOMAIN incidents'
    PROVE  Grows
<1> DEFINE new == [k \in 1..n |-> RawEvent(numbered + k, i, kind, hard)]
<1>1. numbered \in Nat /\ raw \in Seq(Event) /\ Len(raw) \in Nat
      /\ DOMAIN raw = 1..Len(raw)
  BY LenProperties DEF TypeInv, StreamOK
<1>2. \A k \in 1..n : RawEvent(numbered + k, i, kind, hard) \in Event
  <2>1. \A k \in 1..n : numbered + k \in Nat
    BY <1>1
  <2> QED
    BY <2>1 DEF RawEvent, Event
<1>3. new \in Seq(Event)
  BY <1>2, SeqDef
<1>4. raw' = raw \o new
  BY DEF AppendReports
<1> HIDE DEF new
<1>5. /\ Len(new) \in Nat
      /\ raw \o new \in Seq(Event) /\ Len(raw \o new) = Len(raw) + Len(new)
      /\ \A k \in 1..Len(raw) + Len(new) :
            (raw \o new)[k] = IF k <= Len(raw) THEN raw[k] ELSE new[k - Len(raw)]
  BY <1>1, <1>3, LenProperties, ConcatProperties
<1>6. DOMAIN (raw \o new) = 1..Len(raw) + Len(new)
  BY <1>5, LenProperties
<1>7. \A k \in 1..Len(raw) : k \in 1..Len(raw) + Len(new) /\ k <= Len(raw)
  BY <1>1, <1>5
<1> QED
  BY <1>1, <1>4, <1>5, <1>6, <1>7 DEF Grows

(* Arrivals: the request has its batch to decide next, or nothing. *)
LEMMA ArrivalMoves ==
    ASSUME TypeInv, NEW c \in Clients,
           Inject(c) \/ InjectBad(c) \/ Report(c) \/ RefreshFeeds(c)
    PROVE  /\ Grows
           /\ tasks' = tasks \/ tasks' = [tasks EXCEPT ![c] = [op |-> "pending"]]
<1>1. CASE Inject(c)
  <2>1. PICK kind \in Kinds, n \in Bursts :
          /\ AppendReports(NextId, kind, FALSE, n)
          /\ incidents' = Put(incidents, NextId, NewIncident(kind))
    BY <1>1 DEF Inject, InjectNew
  <2>2. kind \in Kind /\ n \in Nat /\ NextId \in Incidents
    BY <1>1, ConstantTypes, EngineAssumption, NextIdType DEF Inject, InjectNew
  <2>3. DOMAIN incidents \subseteq DOMAIN incidents'
    BY <2>1 DEF Put
  <2>4. Grows
    BY <2>1, <2>2, <2>3, AppendGrows
  <2> QED
    BY <1>1, <2>4 DEF Inject, Continue
<1>2. CASE InjectBad(c)
  <2>1. PICK kind \in Kinds : AppendReports(NextId, kind, TRUE, 1)
    BY <1>2 DEF InjectBad
  <2>2. kind \in Kind /\ NextId \in Incidents
    BY <1>2, ConstantTypes, NextIdType DEF InjectBad
  <2>3. Grows
    BY <1>2, <2>1, <2>2, AppendGrows DEF InjectBad
  <2> QED
    BY <1>2, <2>3 DEF InjectBad, Continue
<1>3. CASE Report(c)
  <2>1. PICK i \in Incidents, hard \in BOOLEAN :
          /\ Reports(i) # {}
          /\ AppendReports(i, raw[Least(Reports(i))].kind, hard, 1)
          /\ incidents' = IF hard THEN incidents
                          ELSE Register(i, raw[Least(Reports(i))].kind)
          /\ Continue(c, [op |-> "pending"])
    BY <1>3 DEF Report
  <2>2. raw[Least(Reports(i))].kind \in Kind
    BY <2>1, ReportsType
  <2>3. DOMAIN incidents \subseteq DOMAIN incidents'
    BY <2>1 DEF Register, Put
  <2>4. Grows
    BY <2>1, <2>2, <2>3, AppendGrows
  <2> QED
    BY <2>1, <2>4 DEF Continue
<1>4. CASE RefreshFeeds(c)
  <2>1. PICK i \in FeedIncidents, kind \in Kinds :
          /\ raw' = Append(raw, RawEvent(i, i, kind, FALSE))
          /\ incidents' = Register(i, kind)
          /\ UNCHANGED tasks
    BY <1>4 DEF RefreshFeeds
  <2>2. i \in Incidents /\ i \in Nat /\ kind \in Kind
    BY EngineAssumption DEF Incidents
  <2>3. RawEvent(i, i, kind, FALSE) \in Event /\ raw \in Seq(Event) /\ Len(raw) \in Nat
        /\ DOMAIN raw = 1..Len(raw)
    BY <2>2, LenProperties DEF RawEvent, Event, TypeInv, StreamOK
  <2>4. /\ DOMAIN raw' = 1..(Len(raw) + 1)
        /\ \A k \in 1..Len(raw) : raw'[k] = raw[k]
    BY <2>1, <2>3, AppendProperties, LenProperties
  <2>5. \A k \in 1..Len(raw) : k \in 1..(Len(raw) + 1)
    BY <2>3
  <2>6. DOMAIN incidents \subseteq DOMAIN incidents'
    BY <2>1 DEF Register, Put
  <2> QED
    BY <2>1, <2>3, <2>4, <2>5, <2>6 DEF Grows
<1> QED
  BY <1>1, <1>2, <1>3, <1>4

(* Requests that need no queue: an override, an attachment, a pause. *)
LEMMA OneStepMoves ==
    ASSUME TypeInv, NEW c \in Clients,
           PauseOrResume(c) \/ Override(c) \/ AttachImage(c)
    PROVE  Grows /\ tasks' = tasks
<1>1. CASE PauseOrResume(c)
  BY <1>1 DEF PauseOrResume, Grows
<1>2. CASE Override(c)
  <2>1. PICK k \in DOMAIN history, t \in OverrideKinds, p \in Priorities,
             consent \in Consents : ApplyOverride(history[k], t, p, consent)
    BY <1>2 DEF Override
  <2>2. DOMAIN incidents' = DOMAIN incidents
    BY <2>1 DEF ApplyOverride
  <2>3. raw' = raw /\ tasks' = tasks
    BY <1>2 DEF Override
  <2> QED
    BY <2>2, <2>3 DEF Grows
<1>3. CASE AttachImage(c)
  <2>1. raw' = raw /\ tasks' = tasks /\ DOMAIN incidents' = DOMAIN incidents
    BY <1>3 DEF AttachImage
  <2> QED
    BY <2>1 DEF Grows
<1> QED
  BY <1>1, <1>2, <1>3

(* A queue without its head asks for no incident the whole did not. *)
LEMMA TailAsksLess ==
    ASSUME NEW q \in Seq(Found), q # <<>>
    PROVE  {Tail(q)[n].inc : n \in DOMAIN Tail(q)} \subseteq {q[n].inc : n \in DOMAIN q}
<1>1. /\ Len(q) \in Nat /\ DOMAIN q = 1..Len(q)
      /\ Tail(q) \in Seq(Found) /\ Len(Tail(q)) = Len(q) - 1
      /\ \A n \in 1..Len(Tail(q)) : Tail(q)[n] = q[n + 1]
  BY HeadTailProperties, LenProperties
<1>2. DOMAIN Tail(q) = 1..Len(q) - 1
  BY <1>1, LenProperties
<1>3. \A n \in 1..Len(q) - 1 : n + 1 \in 1..Len(q)
  BY <1>1
<1> QED
  BY <1>1, <1>2, <1>3

(* The head of a queue is one of the incidents it asks for. *)
LEMMA HeadIsAsked ==
    ASSUME NEW q \in Seq(Found), q # <<>>
    PROVE  Head(q).inc \in {q[n].inc : n \in DOMAIN q}
<1>1. /\ Len(q) \in Nat /\ DOMAIN q = 1..Len(q) /\ Len(q) # 0
  BY LenProperties, EmptySeq
<1>2. 1 \in DOMAIN q /\ Head(q) = q[1]
  BY <1>1
<1> QED
  BY <1>2

(* Requests that are over or decide a batch have no incident to redo. *)
LEMMA NothingToRedo ==
    ASSUME NEW t, \/ t.op \in {"idle", "pending", "batch"}
                  \/ t.op = "asking" /\ t.back = "batch"
    PROVE  ToRedo(t) = {}
<1>1. RedoQueue(t) = <<>>
  BY DEF RedoQueue
<1>2. \A s : s = <<>> => DOMAIN s = {}
  OBVIOUS
<1> QED
  BY <1>1, <1>2 DEF ToRedo

(* A batch, and the end of a request. *)
LEMMA BatchMoves ==
    ASSUME TypeInv, NEW c \in Clients,
           BeginBatch(c) \/ DecideOne(c) \/ EndBatch(c) \/ EndSwitch(c)
    PROVE  Grows /\ tasks[c].op # "asking" /\ \E t : MovesTo(c, t)
<1>1. CASE BeginBatch(c)
  <2>1. PICK t : Continue(c, t) /\ t.op = "batch"
    BY <1>1 DEF BeginBatch
  <2>2. MovesTo(c, t)
    BY <2>1, NothingToRedo DEF MovesTo, Continue
  <2>3. Grows /\ tasks[c].op # "asking"
    BY <1>1 DEF BeginBatch, simVars, Grows
  <2> QED
    BY <2>2, <2>3
<1>2. CASE DecideOne(c)
  <2> DEFINE i    == Head(tasks[c].todo).inc
  <2> DEFINE book == IF i \in DOMAIN incidents THEN incidents ELSE Put(incidents, i, Shell)
  <2>1. /\ tasks[c].op = "batch" /\ raw' = raw
        /\ \/ Persist(i, Rejection, book, TRUE, {}) \/ incidents' = book
        /\ \/ Continue(c, Rest(tasks[c])) \/ Continue(c, Idle)
           \/ Ask(c, Question(i, book, TRUE))
    BY <1>2 DEF DecideOne
  <2>2. DOMAIN incidents \subseteq DOMAIN book
    BY DEF Put
  <2> HIDE DEF i, book
  <2>3. Grows
    BY <2>1, <2>2 DEF Grows, Persist
  <2>4. ASSUME NEW t, Continue(c, t), t.op \in {"batch", "idle"}
        PROVE  MovesTo(c, t)
    BY <2>4, NothingToRedo DEF MovesTo, Continue
  <2>5. Rest(tasks[c]).op = "batch"
    <3>1. tasks[c] \in Batch
      BY <2>1, TaskFields DEF TypeInv
    <3> QED
      BY <3>1 DEF Rest, Batch
  <2>6. CASE Continue(c, Rest(tasks[c])) \/ Continue(c, Idle)
    <3>1. Idle.op = "idle"
      BY DEF Idle
    <3> QED
      BY <2>1, <2>3, <2>4, <2>5, <2>6, <3>1
  <2>7. CASE Ask(c, Question(i, book, TRUE))
    <3> DEFINE t == [op |-> "asking", back |-> tasks[c].op, rest |-> Tail(tasks[c].todo),
                     about |-> Question(i, book, TRUE)]
    <3>1. t.op = "asking" /\ t.back = "batch" /\ ~t.about.stale
      BY <2>1 DEF Question
    <3>2. Continue(c, t)
      BY <2>7 DEF Ask
    <3> HIDE DEF t
    <3>3. MovesTo(c, t)
      BY <3>1, <3>2, NothingToRedo DEF MovesTo, Continue
    <3> QED
      BY <2>1, <2>3, <3>3
  <2> QED
    BY <2>1, <2>6, <2>7
<1>3. CASE EndBatch(c) \/ EndSwitch(c)
  <2>1. Continue(c, Idle) /\ tasks[c].op # "asking" /\ UNCHANGED simVars
    BY <1>3 DEF EndBatch, EndSwitch
  <2>2. Idle.op = "idle"
    BY DEF Idle
  <2>3. MovesTo(c, Idle)
    BY <2>1, <2>2, NothingToRedo DEF MovesTo, Continue
  <2>4. Grows
    BY <2>1 DEF simVars, Grows
  <2> QED
    BY <2>1, <2>3, <2>4
<1> QED
  BY <1>1, <1>2, <1>3

(* Open incidents can be decided. *)
LEMMA OpenQueueDecidable ==
    ASSUME TypeInv
    PROVE  \A n \in DOMAIN OpenQueue : Decidable(OpenQueue[n].inc)
<1> DEFINE isOpen(i) == i \in DOMAIN incidents /\ ~incidents[i].hard
<1> DEFINE S == {k \in DOMAIN raw : /\ ~raw[k].hard /\ isOpen(raw[k].inc)
                                    /\ \A j \in Reports(raw[k].inc) : k <= j}
<1>1. S \subseteq Nat /\ IsFiniteSet(S)
  <2>1. S \subseteq 1..Len(raw)
    BY PendingType
  <2> HIDE DEF S
  <2> QED
    BY <2>1, PendingType
<1>2. \A k \in S : Decidable(raw[k].inc)
  BY DEF Decidable, Reports
<1>3. OpenQueue = [n \in DOMAIN InOrder(S) |-> [inc |-> raw[InOrder(S)[n]].inc, kept |-> TRUE]]
  BY DEF OpenQueue
<1> HIDE DEF S
<1>4. \A n \in DOMAIN InOrder(S) : InOrder(S)[n] \in S
  BY <1>1, InOrderLists
<1> QED
  BY <1>2, <1>3, <1>4

(* A policy switch, up to its reoptimisation. *)
LEMMA SwitchMoves ==
    ASSUME TypeInv, NEW c \in Clients, SwitchPolicy(c) \/ DryRunOne(c) \/ EndDryRuns(c)
    PROVE  Grows /\ tasks[c].op # "asking" /\ \E t : MovesTo(c, t)
<1>1. Grows
  BY DEF SwitchPolicy, DryRunOne, EndDryRuns, simVars, Grows
<1>2. CASE SwitchPolicy(c)
  <2>1. PICK p \in Positions, open \in {OpenQueue, <<>>} :
          Continue(c, [op |-> "dryRuns", to |-> p, saved |-> counter,
                       todo |-> OpenQueue, open |-> open])
    BY <1>2, EngineAssumption DEF SwitchPolicy
  <2> DEFINE t == [op |-> "dryRuns", to |-> p, saved |-> counter,
                   todo |-> OpenQueue, open |-> open]
  <2>2. t.op = "dryRuns" /\ RedoQueue(t) = open
    BY DEF RedoQueue
  <2>3. \A n \in DOMAIN open : Decidable(open[n].inc)
    <3>1. CASE open = OpenQueue
      BY <3>1, OpenQueueDecidable
    <3>2. CASE open = <<>>
      BY <3>2
    <3> QED
      BY <2>1, <3>1, <3>2
  <2> HIDE DEF t
  <2>4. \A i \in ToRedo(t) : Decidable(i)
    BY <2>2, <2>3 DEF ToRedo
  <2>5. MovesTo(c, t)
    BY <2>1, <2>2, <2>4 DEF MovesTo, Continue, t
  <2>6. tasks[c].op # "asking"
    BY <1>2 DEF SwitchPolicy, Accepts, Idle
  <2> QED
    BY <1>1, <2>5, <2>6
<1>3. CASE DryRunOne(c)
  <2>1. tasks[c] \in DryRuns /\ tasks[c].op = "dryRuns"
    BY <1>3, TaskFields DEF DryRunOne, TypeInv
  <2>2. Continue(c, Rest(tasks[c])) \/ Continue(c, Idle)
    BY <1>3 DEF DryRunOne
  <2>3. Rest(tasks[c]).op = "dryRuns" /\ Rest(tasks[c]).open = tasks[c].open
    BY <2>1 DEF Rest, DryRuns
  <2>4. ToRedo(Rest(tasks[c])) = ToRedo(tasks[c])
    BY <2>1, <2>3 DEF ToRedo, RedoQueue
  <2>5. Idle.op = "idle" /\ ToRedo(Idle) = {}
    BY NothingToRedo DEF Idle
  <2>6. MovesTo(c, Rest(tasks[c])) \/ MovesTo(c, Idle)
    BY <2>2, <2>3, <2>4, <2>5 DEF MovesTo, Continue
  <2> QED
    BY <1>1, <2>1, <2>6
<1>4. CASE EndDryRuns(c)
  <2> DEFINE t == [op |-> "reoptimise", todo |-> tasks[c].open]
  <2>1. tasks[c].op = "dryRuns" /\ Continue(c, t)
    BY <1>4 DEF EndDryRuns
  <2>2. t.op = "reoptimise" /\ RedoQueue(t) = tasks[c].open /\ RedoQueue(tasks[c]) = tasks[c].open
    BY <2>1 DEF RedoQueue
  <2> HIDE DEF t
  <2>3. MovesTo(c, t)
    BY <2>1, <2>2 DEF MovesTo, Continue, ToRedo
  <2> QED
    BY <1>1, <2>1, <2>3
<1> QED
  BY <1>2, <1>3, <1>4

(* One reoptimised incident: its units are released only if it can be      *)
(* decided again, and then it is being redone.                             *)
LEMMA ReoptimiseMoves ==
    ASSUME TypeInv, SteadyInv, NEW c \in Clients, ReoptimiseOne(c)
    PROVE  /\ Grows /\ tasks[c].op # "asking" /\ history' = history
           /\ \E t : MovesTo(c, t)
           /\ \A u \in Units, i \in Incidents :
                 pool[u] = i => pool'[u] = i \/ BeingRedone(i)'
<1> DEFINE item == Head(tasks[c].todo)
<1>1. tasks[c] \in Reoptimise /\ tasks[c].op = "reoptimise" /\ tasks[c].todo # <<>>
  BY TaskFields DEF ReoptimiseOne, TypeInv
<1>2. Grows /\ history' = history
  BY DEF ReoptimiseOne, simVars, Grows
<1>3. tasks[c].todo \in Seq(Found) /\ RedoQueue(tasks[c]) = tasks[c].todo
  BY <1>1 DEF Reoptimise, RedoQueue
<1>4. /\ Decidable(item.inc)
      /\ {Tail(tasks[c].todo)[n].inc : n \in DOMAIN Tail(tasks[c].todo)} \subseteq ToRedo(tasks[c])
  <2>1. item.inc \in ToRedo(tasks[c])
    BY <1>1, <1>3, HeadIsAsked DEF ToRedo
  <2>2. Decidable(item.inc)
    BY <2>1 DEF SteadyInv, SteadyTask
  <2>3. {Tail(tasks[c].todo)[n].inc : n \in DOMAIN Tail(tasks[c].todo)} \subseteq ToRedo(tasks[c])
    BY <1>1, <1>3, TailAsksLess DEF ToRedo
  <2> QED
    BY <2>2, <2>3
<1>5. CASE Continue(c, Rest(tasks[c])) /\ UNCHANGED pool
  <2>1. Rest(tasks[c]).op = "reoptimise" /\ RedoQueue(Rest(tasks[c])) = Tail(tasks[c].todo)
    BY <1>1 DEF Rest, Reoptimise, RedoQueue
  <2>2. MovesTo(c, Rest(tasks[c]))
    BY <1>4, <1>5, <2>1 DEF MovesTo, Continue, ToRedo
  <2> QED
    BY <1>1, <1>2, <1>5, <2>2
<1>6. CASE /\ pool' = Released(item.inc, Refreshed[item.inc])
           /\ Ask(c, Question(item.inc, incidents, item.kept))
  <2> DEFINE t == [op |-> "asking", back |-> tasks[c].op, rest |-> Tail(tasks[c].todo),
                   about |-> Question(item.inc, incidents, item.kept)]
  <2>1. /\ t.op = "asking" /\ t.back = "reoptimise" /\ ~t.about.stale
        /\ t.about.inc = item.inc /\ t.rest = Tail(tasks[c].todo)
    BY <1>1 DEF Question
  <2>2. Continue(c, t)
    BY <1>6 DEF Ask
  <2> HIDE DEF t, item
  <2>3. RedoQueue(t) = Tail(tasks[c].todo)
    BY <2>1 DEF RedoQueue
  <2>4. MovesTo(c, t)
    BY <1>4, <2>1, <2>2, <2>3 DEF MovesTo, Continue, ToRedo
  <2>5. tasks'[c] = t
    BY <2>2 DEF Continue, TypeInv
  <2>6. PICK j : j = item.inc
    OBVIOUS
  <2>7. BeingRedone(j)'
    BY <2>1, <2>5, <2>6 DEF BeingRedone
  <2>8. \A u \in Units : pool'[u] = pool[u] \/ pool[u] = j
    BY <1>6, <2>6 DEF Released
  <2>9. \A u \in Units, i \in Incidents : pool[u] = i => pool'[u] = i \/ BeingRedone(i)'
    BY <2>7, <2>8
  <2> QED
    BY <1>1, <1>2, <2>4, <2>9
<1>7. \/ Continue(c, Rest(tasks[c])) /\ UNCHANGED pool
      \/ /\ pool' = Released(item.inc, Refreshed[item.inc])
         /\ Ask(c, Question(item.inc, incidents, item.kept))
  BY <1>4 DEF ReoptimiseOne
<1> QED
  BY <1>5, <1>6, <1>7

(* An answer about the live pool: the units of the record are assigned to  *)
(* its incident, and the request goes on with its queue.                   *)
LEMMA AnsweredMoves ==
    ASSUME TypeInv, SteadyInv, NEW c \in Clients, Answered(c)
    PROVE  /\ Grows /\ \E t : MovesTo(c, t)
           /\ \E r \in Record : /\ Recorded(r) /\ r.inc = tasks[c].about.inc
                                /\ \A u \in Elems(r.units) : pool'[u] = r.inc
<1> DEFINE q == tasks[c].about
<1> DEFINE t == [op |-> tasks[c].back, todo |-> tasks[c].rest]
<1>1. tasks[c] \in AskBatch \cup AskAgain /\ q \in Asked /\ q.inc \in Incidents
  BY AnsweredParts DEF Asked
<1>2. tasks[c].op = "asking" /\ ~q.stale
  BY DEF Answered, SteadyInv, SteadyTask
<1>3. PICK a \in Assessments, free \in SUBSET Units :
        /\ free = FreeUnits(pool)
        /\ Persist(q.inc, Decide(ContextFor(q, a), free), incidents, q.kept,
                   Elems(Decide(ContextFor(q, a), free).units))
  BY <1>2, AnsweredParts
<1>4. Grows
  <2>1. raw' = raw /\ DOMAIN incidents' = DOMAIN incidents
    BY <1>3 DEF Answered, Persist
  <2> QED
    BY <2>1 DEF Grows
<1>5. MovesTo(c, t)
  <2>1. Continue(c, t)
    BY DEF Answered
  <2>2. CASE tasks[c] \in AskBatch
    <3>1. t.op = "batch"
      BY <2>2 DEF AskBatch
    <3> HIDE DEF t
    <3> QED
      BY <2>1, <3>1, NothingToRedo DEF MovesTo, Continue
  <2>3. CASE tasks[c] \in AskAgain
    <3>1. t.op = "reoptimise" /\ RedoQueue(t) = tasks[c].rest
      BY <2>3 DEF AskAgain, RedoQueue
    <3>2. RedoQueue(tasks[c]) = tasks[c].rest
      BY <2>3 DEF AskAgain, RedoQueue
    <3> HIDE DEF t
    <3> QED
      BY <2>1, <3>1, <3>2 DEF MovesTo, Continue, ToRedo
  <2> QED
    BY <1>1, <2>2, <2>3
<1>6. \E r \in Record : /\ Recorded(r) /\ r.inc = q.inc
                        /\ \A u \in Elems(r.units) : pool'[u] = r.inc
  <2> DEFINE d == Decide(ContextFor(q, a), free)
  <2>1. Answers(d) /\ Elems(d.units) \subseteq FreeUnits(pool)
    BY <1>1, <1>3, DecideAnswers, DecideTakesFree
  <2>2. PICK taken : taken = Elems(d.units)
    OBVIOUS
  <2>3. /\ taken \subseteq Elems(d.units) /\ taken \subseteq FreeUnits(pool)
        /\ Persist(q.inc, d, incidents, q.kept, taken)
    BY <1>3, <2>1, <2>2
  <2> HIDE DEF d, q
  <2>4. PICK r \in Record : /\ Recorded(r) /\ r.inc = q.inc /\ r.units = d.units
                            /\ \A u \in taken : pool'[u] = q.inc
    BY <1>1, <2>1, <2>3, PersistEffect
  <2> QED
    BY <2>2, <2>4
<1> QED
  BY <1>4, <1>5, <1>6

Calm == /\ history' = history
        /\ \A u \in Units, i \in Incidents :
              pool[u] = i => pool'[u] = i \/ BeingRedone(i)'
Dispatched(r) == /\ Recorded(r)
                 /\ r.over = "NONE" => \A u \in Elems(r.units) : pool'[u] = r.inc
StillRedone(i) == BeingRedone(i) => BeingRedone(i)'

(* Who is asked about an incident goes on asking while others move. *)
LEMMA OthersAsk ==
    ASSUME NEW c \in Clients, NEW i,
           \/ tasks' = tasks
           \/ tasks[c].op # "asking" /\ \E t : MovesTo(c, t)
           \/ tasks[c].about.inc # i /\ \E t : MovesTo(c, t),
           tasks \in [Clients -> Task]
    PROVE  StillRedone(i)
<1> SUFFICES ASSUME BeingRedone(i) PROVE BeingRedone(i)'
  BY DEF StillRedone
<1>1. PICK d \in Clients : /\ tasks[d].op = "asking" /\ tasks[d].back = "reoptimise"
                           /\ tasks[d].about.inc = i
  BY DEF BeingRedone
<1>2. tasks'[d] = tasks[d]
  BY <1>1 DEF MovesTo
<1> QED
  BY <1>1, <1>2 DEF BeingRedone

(* What any step does to tasks, pool and history while no session is       *)
(* replaced.                                                               *)
LEMMA SteadyEffect ==
    ASSUME TypeInv, TypeInv', Undisturbed, SteadyInv, Next
    PROVE  /\ Grows
           /\ tasks' = tasks \/ \E c \in Clients : \E t : MovesTo(c, t)
           /\ \/ Calm /\ \A i : StillRedone(i)
              \/ \E r \in Record : /\ Dispatched(r)
                                   /\ \A i : i # r.inc => StillRedone(i)
<1> DEFINE Goal == /\ Grows
                   /\ tasks' = tasks \/ \E c \in Clients : \E t : MovesTo(c, t)
                   /\ \/ Calm /\ \A i : StillRedone(i)
                      \/ \E r \in Record : /\ Dispatched(r)
                                           /\ \A i : i # r.inc => StillRedone(i)
<1>1. tasks \in [Clients -> Task] /\ (UNCHANGED <<history, pool>> => Calm)
  BY DEF TypeInv, Calm
<1>2. ASSUME NEW c \in Clients,
             Inject(c) \/ InjectBad(c) \/ Report(c) \/ RefreshFeeds(c)
      PROVE  Goal
  <2>1. Calm
    BY <1>1, <1>2 DEF Inject, InjectBad, Report, RefreshFeeds, indexVars
  <2>2. tasks' = tasks \/ (tasks[c].op # "asking" /\ \E t : MovesTo(c, t))
    <3>1. tasks' = tasks \/ tasks[c] = Idle
      BY <1>2 DEF Inject, InjectBad, Report, RefreshFeeds, Accepts
    <3>2. tasks' = tasks \/ MovesTo(c, [op |-> "pending"])
      BY <1>2, ArrivalMoves, NothingToRedo DEF MovesTo
    <3> QED
      BY <3>1, <3>2 DEF Idle
  <2> QED
    BY <1>1, <1>2, <2>1, <2>2, ArrivalMoves, OthersAsk
<1>3. ASSUME NEW c \in Clients, PauseOrResume(c) \/ AttachImage(c) PROVE Goal
  <2>1. Calm
    BY <1>1, <1>3 DEF PauseOrResume, AttachImage, indexVars
  <2> QED
    BY <1>1, <1>3, <2>1, OneStepMoves, OthersAsk
<1>4. ASSUME NEW c \in Clients, Override(c) PROVE Goal
  <2>1. PICK r \in Record : Recorded(r) /\ r.over # "NONE"
    BY <1>4, OverrideEffect
  <2>2. Dispatched(r)
    BY <2>1 DEF Dispatched
  <2> QED
    BY <1>1, <1>4, <2>2, OneStepMoves, OthersAsk
<1>5. ASSUME NEW c \in Clients,
             BeginBatch(c) \/ DecideOne(c) \/ EndBatch(c) \/ EndSwitch(c)
      PROVE  Goal
  <2>1. Calm \/ \E r \in Record : Dispatched(r)
    <3>1. CASE BeginBatch(c) \/ EndBatch(c) \/ EndSwitch(c)
      BY <1>1, <3>1 DEF BeginBatch, EndBatch, EndSwitch, indexVars
    <3>2. CASE DecideOne(c)
      <4> DEFINE i    == Head(tasks[c].todo).inc
      <4> DEFINE book == IF i \in DOMAIN incidents THEN incidents
                         ELSE Put(incidents, i, Shell)
      <4>1. i \in Incidents
        <5>1. tasks[c] \in Task /\ tasks[c].op = "batch" /\ tasks[c].todo # <<>>
          BY <3>2 DEF DecideOne, TypeInv
        <5> QED
          BY <5>1, TaskRest DEF Item
      <4>2. Persist(i, Rejection, book, TRUE, {}) \/ UNCHANGED <<history, pool>>
        BY <3>2 DEF DecideOne, indexVars
      <4> HIDE DEF i, book
      <4>3. ASSUME Persist(i, Rejection, book, TRUE, {})
            PROVE  \E r \in Record : Dispatched(r)
        <5>1. PICK none : none = {}
          OBVIOUS
        <5>2. none \subseteq Elems(Rejection.units) /\ none \subseteq FreeUnits(pool)
          BY <5>1
        <5>3. Persist(i, Rejection, book, TRUE, none)
          BY <4>3, <5>1
        <5>4. Answers(Rejection)
          BY RejectionAnswers
        <5>5. PICK r \in Record : Recorded(r) /\ r.units = Rejection.units
          BY <4>1, <5>2, <5>3, <5>4, PersistEffect
        <5>6. Elems(r.units) = {}
          <6>1. r.units = <<>>
            BY <5>5 DEF Rejection
          <6>2. \A s : s = <<>> => DOMAIN s = {}
            OBVIOUS
          <6> QED
            BY <6>1, <6>2 DEF Elems
        <5> QED
          BY <5>5, <5>6 DEF Dispatched
      <4> QED
        BY <1>1, <4>2, <4>3
    <3> QED
      BY <1>5, <3>1, <3>2
  <2>2. Grows /\ tasks[c].op # "asking" /\ \E t : MovesTo(c, t)
    BY <1>5, BatchMoves
  <2>3. \A i : StillRedone(i)
    BY <1>1, <2>2, OthersAsk
  <2> QED
    BY <2>1, <2>2, <2>3
<1>6. ASSUME NEW c \in Clients, SwitchPolicy(c) \/ DryRunOne(c) \/ EndDryRuns(c)
      PROVE  Goal
  <2>1. Calm
    BY <1>1, <1>6 DEF SwitchPolicy, DryRunOne, EndDryRuns, indexVars
  <2> QED
    BY <1>1, <1>6, <2>1, SwitchMoves, OthersAsk
<1>7. ASSUME NEW c \in Clients, ReoptimiseOne(c) PROVE Goal
  <2>1. Calm
    BY <1>7, ReoptimiseMoves DEF Calm
  <2> QED
    BY <1>1, <1>7, <2>1, ReoptimiseMoves, OthersAsk
<1>8. ASSUME NEW c \in Clients, Answered(c) PROVE Goal
  <2>1. PICK r \in Record : /\ Recorded(r) /\ r.inc = tasks[c].about.inc
                            /\ \A u \in Elems(r.units) : pool'[u] = r.inc
    BY <1>8, AnsweredMoves
  <2>2. Dispatched(r)
    BY <2>1 DEF Dispatched
  <2> QED
    BY <1>1, <1>8, <2>1, <2>2, AnsweredMoves, OthersAsk
<1> HIDE DEF Goal
<1>9. Goal
  BY <1>2, <1>3, <1>4, <1>5, <1>6, <1>7, <1>8, Excluded DEF Next
<1> QED
  BY <1>9 DEF Goal

(* Queues stay decidable, and questions about the live pool. *)
LEMMA SteadyStep ==
    ASSUME TypeInv, SteadyInv, Grows,
           tasks' = tasks \/ \E c \in Clients : \E t : MovesTo(c, t)
    PROVE  SteadyInv'
<1> SUFFICES ASSUME NEW d \in Clients PROVE SteadyTask(tasks[d])'
  BY DEF SteadyInv
<1>1. SteadyTask(tasks[d])
  BY DEF SteadyInv
<1>2. CASE tasks'[d] = tasks[d]
  BY <1>1, <1>2, DecidableStays DEF SteadyTask, ToRedo, RedoQueue
<1>3. CASE tasks'[d] # tasks[d]
  <2>1. PICK t : MovesTo(d, t)
    BY <1>3 DEF MovesTo, TypeInv
  <2>2. tasks'[d] = t
    BY <2>1 DEF MovesTo, TypeInv
  <2>3. \A i \in ToRedo(t) : Decidable(i)
    BY <1>1, <2>1 DEF MovesTo, SteadyTask
  <2>4. t.op # "whatIf" /\ (t.op = "asking" => ~t.about.stale)
    BY <2>1 DEF MovesTo
  <2> QED
    BY <2>2, <2>3, <2>4, DecidableStays DEF SteadyTask, ToRedo, RedoQueue
<1> QED
  BY <1>2, <1>3

(* A new record is the latest of its incident, and of no other. *)
LEMMA LastRecordAppended ==
    ASSUME history \in Seq(Record), NEW r \in Record, history' = Append(history, r),
           NEW i
    PROVE  LastRecord(i)' = IF i = r.inc THEN r ELSE LastRecord(i)
<1> DEFINE mine == {k \in DOMAIN history : history[k].inc = i}
<1> DEFINE next == {k \in DOMAIN history' : history'[k].inc = i}
<1>1. /\ Len(history) \in Nat /\ DOMAIN history = 1..Len(history)
      /\ DOMAIN history' = 1..(Len(history) + 1)
      /\ \A k \in 1..Len(history) : history'[k] = history[k]
      /\ history'[Len(history) + 1] = r
  <2>1. Len(history) \in Nat /\ DOMAIN history = 1..Len(history)
    BY LenProperties
  <2>2. /\ Append(history, r) \in Seq(Record) /\ Len(Append(history, r)) = Len(history) + 1
        /\ \A k \in 1..Len(history) : Append(history, r)[k] = history[k]
        /\ Append(history, r)[Len(history) + 1] = r
    BY AppendProperties
  <2> QED
    BY <2>1, <2>2, LenProperties
<1>2. CASE i = r.inc
  <2> DEFINE n == Len(history) + 1
  <2>1. n \in next /\ \A j \in next : j <= n
    BY <1>1, <1>2
  <2>2. \A k \in next : (\A j \in next : j <= k) => k = n
    BY <1>1, <2>1
  <2>3. (CHOOSE k \in next : \A j \in next : j <= k) = n
    <3> HIDE DEF next, n
    <3> QED
      BY <2>1, <2>2
  <2>4. LastRecord(i)' = history'[n]
    BY <2>1, <2>3 DEF LastRecord
  <2> QED
    BY <1>1, <1>2, <2>4
<1>3. CASE i # r.inc
  <2>1. next = mine
    BY <1>1, <1>3
  <2>2. CASE mine = {}
    BY <1>3, <2>1, <2>2 DEF LastRecord
  <2>3. CASE mine # {}
    <3> DEFINE last == CHOOSE k \in mine : \A j \in mine : j <= k
    <3>1. last \in mine
      <4>1. mine \subseteq 1..Len(history)
        BY <1>1
      <4> HIDE DEF mine
      <4> QED
        BY <1>1, <2>3, <4>1, LastExists
    <3>2. LastRecord(i) = history[last]
      BY <2>3 DEF LastRecord
    <3>3. LastRecord(i)' = history'[CHOOSE k \in next : \A j \in next : j <= k]
      BY <2>1, <2>3 DEF LastRecord
    <3>4. LastRecord(i)' = history'[last]
      BY <2>1, <3>3
    <3> HIDE DEF last
    <3> QED
      BY <1>1, <1>3, <3>1, <3>2, <3>4
  <2> QED
    BY <2>2, <2>3
<1> QED
  BY <1>2, <1>3

(* A calm step keeps what was dispatched. *)
LEMMA CalmStep ==
    ASSUME TypeInv, LatestDispatchHolds, Calm, \A i : StillRedone(i)
    PROVE  LatestDispatchHolds'
<1> SUFFICES ASSUME NEW i \in Incidents, NEW r, r = LastRecord(i)', r # NoRecord,
                    r.over = "NONE", ~BeingRedone(i)', NEW u \in Elems(r.units)
             PROVE  pool'[u] = i
  BY DEF LatestDispatchHolds
<1>1. r = LastRecord(i)
  BY DEF Calm, LastRecord
<1>2. ~BeingRedone(i)
  BY DEF StillRedone
<1>3. pool[u] = i
  BY <1>1, <1>2 DEF LatestDispatchHolds
<1>4. u \in Units
  <2>1. r \in Record
    BY <1>1, LastRecordType DEF TypeInv, HistoryOK
  <2>2. r.units \in Seq(Units)
    BY <2>1 DEF Record
  <2> QED
    BY <2>2, LenProperties, ElementOfSeq DEF Elems
<1> QED
  BY <1>3, <1>4 DEF Calm

(* So does a new record: its own units are dispatched, no other is taken.  *)
LEMMA DispatchedStep ==
    ASSUME TypeInv, LatestDispatchHolds, NEW n \in Record, Dispatched(n),
           \A i : i # n.inc => StillRedone(i)
    PROVE  LatestDispatchHolds'
<1> SUFFICES ASSUME NEW i \in Incidents, NEW r, r = LastRecord(i)', r # NoRecord,
                    r.over = "NONE", ~BeingRedone(i)', NEW u \in Elems(r.units)
             PROVE  pool'[u] = i
  BY DEF LatestDispatchHolds
<1>1. history \in Seq(Record) /\ history' = Append(history, n)
  BY DEF TypeInv, HistoryOK, Dispatched, Recorded
<1>2. CASE i = n.inc
  <2>1. r = n
    BY <1>1, <1>2, LastRecordAppended
  <2> QED
    BY <1>2, <2>1 DEF Dispatched
<1>3. CASE i # n.inc
  <2>1. r = LastRecord(i)
    BY <1>1, <1>3, LastRecordAppended
  <2>2. pool[u] = i
    BY <1>3, <2>1 DEF LatestDispatchHolds, StillRedone
  <2>3. r \in Record
    BY <1>1, <2>1, LastRecordType
  <2>4. u \in Units
    <3>1. r.units \in Seq(Units)
      BY <2>3 DEF Record
    <3> QED
      BY <3>1, LenProperties, ElementOfSeq DEF Elems
  <2>5. pool[u] # Free
    BY <2>2, ConstantTypes
  <2> QED
    BY <2>2, <2>4, <2>5 DEF Dispatched, Recorded
<1> QED
  BY <1>2, <1>3

(* As long as no session is replaced and no What-If run is rolled back,    *)
(* the units that the latest decision of an incident lists are held for    *)
(* it, however many requests decide, override and reoptimise while Laya is *)
(* asked: decide_for's reading of the reports and the answer may lie any   *)
(* number of steps apart.                                                  *)
THEOREM LatestDispatchLasts ==
    ASSUME Undisturbed
    PROVE  Spec => []LatestDispatchHolds
<1>1. Init => SteadyInv
  <2>1. Idle.op = "idle" /\ ToRedo(Idle) = {}
    BY NothingToRedo DEF Idle
  <2> QED
    BY <2>1 DEF Init, SteadyInv, SteadyTask
<1>2. Init => LatestDispatchHolds
  <2>1. Init => \A i : LastRecord(i) = NoRecord
    BY DEF Init, LastRecord
  <2> QED
    BY <2>1 DEF LatestDispatchHolds
<1>3. TypeInv /\ TypeInv' /\ SteadyInv /\ LatestDispatchHolds /\ [Next]_vars
        => SteadyInv' /\ LatestDispatchHolds'
  <2> SUFFICES ASSUME TypeInv, TypeInv', SteadyInv, LatestDispatchHolds, [Next]_vars
               PROVE  SteadyInv' /\ LatestDispatchHolds'
    OBVIOUS
  <2>1. CASE Next
    BY <2>1, SteadyEffect, SteadyStep, CalmStep, DispatchedStep
  <2>2. CASE UNCHANGED vars
    <3>1. Grows /\ tasks' = tasks
      BY <2>2 DEF vars, simVars, Grows
    <3>2. Calm
      BY <2>2 DEF vars, indexVars, Calm
    <3>3. \A i : StillRedone(i)
      BY <3>1 DEF StillRedone, BeingRedone
    <3> QED
      BY <3>1, <3>2, <3>3, SteadyStep, CalmStep
  <2> QED
    BY <2>1, <2>2
<1> QED
  BY <1>1, <1>2, <1>3, EngineTyped, PTL DEF Spec

-----------------------------------------------------------------------------
(* What one step does to the history and its index *)

\* A record with the next id is filed.
Filing(r) == Index(r) /\ r.id = counter + 1 /\ counter' = counter + 1

\* Nothing is filed; the map behind the lookups may be brought up to date.
NothingFiled == history' = history /\ (UNCHANGED <<cache, cachedLen>> \/ Refresh)
Forgotten    == history' = <<>> /\ UNCHANGED <<cache, cachedLen, counter>>

(* A decision that is persisted is filed as one of the system.             *)
LEMMA PersistFiles ==
    ASSUME TypeInv, NEW i \in Incidents, NEW d, Answers(d), NEW book, NEW live, NEW taken,
           Persist(i, d, book, live, taken)
    PROVE  \E r \in Record : /\ Filing(r) /\ r.inc = i
                             /\ r.over = "NONE" /\ r.state = d.state
<1> DEFINE r == NewRecord(i, d)
<1>1. Filing(r) /\ r.inc = i /\ r.over = "NONE" /\ r.state = d.state
  BY DEF Persist, Filing, NewRecord
<1>2. r \in Record
  <2>1. counter + 1 \in 1..MaxIds
    BY ConstantTypes DEF Persist, MayDecide, TypeInv, HistoryOK
  <2> QED
    BY <2>1 DEF NewRecord, Record, Answers, OverrideTypes
<1> QED
  BY <1>1, <1>2

(* An override files a record of its own, in a state no decision has.      *)
LEMMA OverrideFiles ==
    ASSUME TypeInv, NEW c \in Clients, Override(c)
    PROVE  \E r \in Record : /\ Filing(r) /\ r.over # "NONE"
                             /\ r.state = "OVERRIDE_ACTIVE"
<1>1. PICK k \in DOMAIN history, t \in OverrideKinds, p \in Priorities,
           consent \in Consents : ApplyOverride(history[k], t, p, consent)
  BY DEF Override
<1> DEFINE old   == history[k]
<1> DEFINE extra == IF t = "ASSIGN_RESOURCES" THEN AssignedTo(old) ELSE <<>>
<1> DEFINE units == old.units \o extra
<1> DEFINE new   == [old EXCEPT !.id = counter + 1, !.state = "OVERRIDE_ACTIVE",
                           !.priority = IF t = "CHANGE_PRIORITY" THEN p ELSE @,
                           !.units = units, !.over = t,
                           !.glass = (consent = "breakGlass")]
<1>2. Index(new) /\ MayDecide /\ counter' = counter + 1
  BY <1>1 DEF ApplyOverride
<1>3. old \in Record
  BY ElementOfSeq, LenProperties DEF TypeInv, HistoryOK
<1>4. units \in Seq(Units)
  <2>1. extra \in Seq(Units)
    BY <1>3, AssignedToType, EmptySeq
  <2>2. old.units \in Seq(Units)
    BY <1>3 DEF Record
  <2> HIDE DEF extra, old
  <2> QED
    BY <2>1, <2>2, ConcatProperties
<1>5. counter + 1 \in 1..MaxIds /\ t \in OverrideTypes /\ t # "NONE"
  BY <1>2, ConstantTypes, EngineAssumption DEF MayDecide, TypeInv, HistoryOK, OverrideTypes
<1>6. /\ new \in Record /\ new.id = counter + 1
      /\ new.over = t /\ new.state = "OVERRIDE_ACTIVE"
  <2> HIDE DEF old, units
  <2> QED
    BY <1>3, <1>4, <1>5 DEF Record
<1> HIDE DEF new
<1> QED
  BY <1>2, <1>5, <1>6 DEF Filing

(* No step does anything else to history, map and length.                  *)
LEMMA FilingEffect ==
    ASSUME TypeInv, [Next]_vars
    PROVE  NothingFiled \/ Forgotten \/ \E r \in Record : Filing(r)
<1> DEFINE Goal == NothingFiled \/ Forgotten \/ \E r \in Record : Filing(r)
<1>1. CASE UNCHANGED vars
  BY <1>1 DEF vars, indexVars, NothingFiled
<1>2. ASSUME NEW c \in Clients, Start(c) \/ Reset(c) PROVE Goal
  BY <1>2 DEF Start, Reset, NewSession, Forgotten
<1>3. ASSUME NEW c \in Clients,
             \/ PauseOrResume(c) \/ Inject(c) \/ InjectBad(c) \/ Report(c)
             \/ RefreshFeeds(c) \/ BeginBatch(c) \/ EndBatch(c)
             \/ SwitchPolicy(c) \/ EndDryRuns(c) \/ EndSwitch(c)
             \/ EnterWhatIf(c) \/ ExitWhatIf(c)
      PROVE  Goal
  BY <1>3 DEF PauseOrResume, Inject, InjectBad, Report, RefreshFeeds, BeginBatch, EndBatch,
              SwitchPolicy, EndDryRuns, EndSwitch, EnterWhatIf, ExitWhatIf, indexVars,
              NothingFiled
<1>4. ASSUME NEW c \in Clients, DryRunOne(c) \/ ReoptimiseOne(c) \/ AttachImage(c)
      PROVE  Goal
  BY <1>4 DEF DryRunOne, ReoptimiseOne, AttachImage, NothingFiled
<1>5. ASSUME NEW c \in Clients, Override(c) PROVE Goal
  BY <1>5, OverrideFiles
<1>6. ASSUME NEW c \in Clients, Answered(c) PROVE Goal
  <2> DEFINE q == tasks[c].about
  <2>1. q \in Asked /\ q.inc \in Incidents
    BY <1>6, AnsweredParts DEF Asked
  <2>2. PICK a \in Assessments, free \in SUBSET Units :
          Persist(q.inc, Decide(ContextFor(q, a), free), incidents, q.kept,
                  IF q.stale THEN {} ELSE Elems(Decide(ContextFor(q, a), free).units))
    BY <1>6, AnsweredParts
  <2> HIDE DEF q
  <2> DEFINE d == Decide(ContextFor(q, a), free)
  <2>3. Answers(d)
    BY <2>1, DecideAnswers
  <2> HIDE DEF d
  <2>4. PICK taken : Persist(q.inc, d, incidents, q.kept, taken)
    BY <2>2 DEF d
  <2> QED
    BY <2>1, <2>3, <2>4, PersistFiles
<1>7. ASSUME NEW c \in Clients, DecideOne(c) PROVE Goal
  <2> DEFINE i    == Head(tasks[c].todo).inc
  <2> DEFINE book == IF i \in DOMAIN incidents THEN incidents ELSE Put(incidents, i, Shell)
  <2>1. i \in Incidents
    <3>1. tasks[c] \in Task /\ tasks[c].op = "batch" /\ tasks[c].todo # <<>>
      BY <1>7 DEF DecideOne, TypeInv
    <3> QED
      BY <3>1, TaskRest DEF Item
  <2>2. Persist(i, Rejection, book, TRUE, {}) \/ UNCHANGED indexVars
    BY <1>7 DEF DecideOne
  <2> HIDE DEF i, book
  <2>3. PICK none : none = {}
    OBVIOUS
  <2>4. Persist(i, Rejection, book, TRUE, none) \/ UNCHANGED indexVars
    BY <2>2, <2>3
  <2> QED
    BY <2>1, <2>4, PersistFiles, RejectionAnswers DEF indexVars, NothingFiled
<1> QED
  BY <1>1, <1>2, <1>3, <1>4, <1>5, <1>6, <1>7 DEF Next

-----------------------------------------------------------------------------
(* The map behind the lookups *)

\* An append patches one entry of a map that may be out of date, but for a
\* history that is not empty it never is: a session that is over leaves entries
\* behind for incidents that have no record in the new one.
CacheInv == /\ history # <<>> => cachedLen = Len(history)
            /\ \A i \in Incidents : LastRecord(i) # NoRecord => cache[i] = LastRecord(i)

(* In a history without records there is no latest one.                    *)
LEMMA NothingRecorded ==
    ASSUME history = <<>>, NEW i
    PROVE  LastRecord(i) = NoRecord
BY DEF LastRecord

(* So the lookup is right, rebuilt or not.                                 *)
LEMMA CacheServes ==
    ASSUME CacheInv
    PROVE  LatestIsCurrent
BY DEF CacheInv, LatestIsCurrent, Refreshed

(* Every step keeps the map right.                                         *)
LEMMA CacheStep ==
    ASSUME TypeInv, CacheInv, [Next]_vars
    PROVE  CacheInv'
<1>1. CASE NothingFiled
  <2>1. \A i : LastRecord(i)' = LastRecord(i)
    BY <1>1 DEF NothingFiled, LastRecord
  <2>2. CASE UNCHANGED <<cache, cachedLen>>
    BY <1>1, <2>1, <2>2 DEF CacheInv, NothingFiled
  <2>3. CASE Refresh
    <3>1. \A i \in Incidents : LastRecord(i) # NoRecord => cache'[i] = LastRecord(i)
      BY <2>3, CacheServes DEF Refresh, LatestIsCurrent
    <3> QED
      BY <1>1, <2>1, <2>3, <3>1 DEF CacheInv, NothingFiled, Refresh
  <2> QED
    BY <1>1, <2>2, <2>3 DEF NothingFiled
<1>2. CASE Forgotten
  <2>1. \A i : LastRecord(i)' = NoRecord
    BY <1>2 DEF Forgotten, LastRecord
  <2> QED
    BY <1>2, <2>1 DEF CacheInv, Forgotten
<1>3. ASSUME NEW r \in Record, Filing(r) PROVE CacheInv'
  <2>1. /\ history' = Append(history, r) /\ cache' = [cache EXCEPT ![r.inc] = r]
        /\ cachedLen' = Len(history) + 1
    BY <1>3 DEF Filing, Index
  <2>2. history \in Seq(Record) /\ r.inc \in Incidents
        /\ cache \in [Incidents -> Record \cup {NoRecord}]
    BY DEF TypeInv, HistoryOK, Record
  <2>3. Len(history') = Len(history) + 1
    BY <2>1, <2>2, AppendProperties
  <2>4. \A i \in Incidents : LastRecord(i)' = IF i = r.inc THEN r ELSE LastRecord(i)
    BY <2>1, <2>2, LastRecordAppended
  <2>5. \A i \in Incidents : LastRecord(i)' # NoRecord => cache'[i] = LastRecord(i)'
    BY <2>1, <2>2, <2>4 DEF CacheInv
  <2> QED
    BY <2>1, <2>3, <2>5 DEF CacheInv
<1> QED
  BY <1>1, <1>2, <1>3, FilingEffect

(* Whoever asks for the latest decision of an incident gets the last one   *)
(* filed in this session, for any number of clients, resets and overrides, *)
(* although the map behind _latest_decision is checked by its length only  *)
(* and outlives the session.                                               *)
THEOREM LookupIsCurrent == Spec => []LatestIsCurrent
<1>1. Init => CacheInv
  BY NothingRecorded DEF Init, CacheInv
<1>2. CacheInv => LatestIsCurrent
  BY CacheServes
<1>3. TypeInv /\ CacheInv /\ [Next]_vars => CacheInv'
  BY CacheStep
<1> QED
  BY <1>1, <1>2, <1>3, EngineTyped, PTL DEF Spec

-----------------------------------------------------------------------------
(* Ids *)

\* Requests come one after the other.
OneClient == \A b, c \in Clients : b = c

\* The ids a request will go back to: that of the dry runs, that of the sandbox.
Marks(t) == CASE t.op = "dryRuns" -> {t.saved}
              [] t.op = "whatIf"  -> {t.saved.counter}
              [] OTHER            -> {}

Issued(n) == \A k \in DOMAIN history : history[k].id <= n
IdsInv    == /\ IdsAreFresh
             /\ \A c \in Clients : \A n \in Marks(tasks[c]) : Issued(n)

\* Ids are drawn, or given back, and no decision is filed.
DrawsIds(c) == /\ history' = history
               /\ counter' >= counter \/ counter' \in Marks(tasks[c])
               /\ Marks(tasks'[c]) \subseteq Marks(tasks[c]) \cup {counter}

(* Requests that draw ids and give them back.                              *)
LEMMA DrawingSteps ==
    ASSUME TypeInv, NEW c \in Clients,
           \/ SwitchPolicy(c) \/ DryRunOne(c) \/ EndDryRuns(c)
           \/ EnterWhatIf(c) \/ ExitWhatIf(c)
    PROVE  DrawsIds(c)
<1>0. tasks \in [Clients -> Task] /\ counter \in Nat
  BY ConstantTypes DEF TypeInv, HistoryOK
<1>1. CASE SwitchPolicy(c)
  <2>1. PICK t : Continue(c, t) /\ t.op = "dryRuns" /\ t.saved = counter
    BY <1>1 DEF SwitchPolicy
  <2>2. Marks(tasks'[c]) = {counter}
    BY <1>0, <2>1 DEF Continue, Marks
  <2> QED
    BY <1>0, <1>1, <2>2 DEF SwitchPolicy, indexVars, DrawsIds
<1>2. CASE DryRunOne(c)
  <2>1. tasks[c] \in DryRuns /\ tasks[c].op = "dryRuns"
    BY <1>2, TaskFields DEF DryRunOne, TypeInv
  <2>2. Rest(tasks[c]).op = "dryRuns" /\ Rest(tasks[c]).saved = tasks[c].saved
    BY <2>1 DEF Rest, DryRuns
  <2>3. Continue(c, Rest(tasks[c])) \/ Continue(c, Idle)
    BY <1>2 DEF DryRunOne
  <2>4. Marks(tasks'[c]) \subseteq Marks(tasks[c])
    BY <1>0, <2>1, <2>2, <2>3 DEF Continue, Marks, Idle
  <2>5. counter' >= counter
    BY <1>0, <1>2 DEF DryRunOne
  <2> QED
    BY <1>2, <2>4, <2>5 DEF DryRunOne, DrawsIds
<1>3. CASE EndDryRuns(c)
  <2>1. counter' \in Marks(tasks[c])
    BY <1>3 DEF EndDryRuns, Marks
  <2>2. Marks(tasks'[c]) = {}
    BY <1>0, <1>3 DEF EndDryRuns, Continue, Marks
  <2> QED
    BY <1>3, <2>1, <2>2 DEF EndDryRuns, DrawsIds
<1>4. CASE EnterWhatIf(c)
  <2>1. counter' = counter + 1 /\ Continue(c, [op |-> "whatIf", saved |-> Snapshot])
    BY <1>4 DEF EnterWhatIf
  <2>2. Marks(tasks'[c]) = {counter}
    BY <1>0, <2>1 DEF Continue, Marks, Snapshot
  <2> QED
    BY <1>0, <1>4, <2>1, <2>2 DEF EnterWhatIf, DrawsIds
<1>5. CASE ExitWhatIf(c)
  <2>1. counter' \in Marks(tasks[c])
    BY <1>5 DEF ExitWhatIf, RolledBack, Marks
  <2>2. tasks'[c] = Idle
    BY <1>5 DEF ExitWhatIf, Orphaned
  <2> QED
    BY <1>5, <2>1, <2>2 DEF ExitWhatIf, DrawsIds, Marks, Idle
<1> QED
  BY <1>1, <1>2, <1>3, <1>4, <1>5

(* Requests that draw no id they do not keep.                              *)
LEMMA PlainSteps ==
    ASSUME TypeInv, NEW c \in Clients,
           \/ PauseOrResume(c) \/ Inject(c) \/ InjectBad(c) \/ Report(c)
           \/ RefreshFeeds(c) \/ BeginBatch(c) \/ EndBatch(c) \/ EndSwitch(c)
           \/ ReoptimiseOne(c) \/ AttachImage(c)
    PROVE  DrawsIds(c)
<1>1. counter' = counter /\ history' = history /\ counter \in Nat
  <2>1. UNCHANGED <<counter, history>>
    <3>1. CASE ReoptimiseOne(c)
      BY <3>1 DEF ReoptimiseOne
    <3>2. CASE AttachImage(c)
      BY <3>2 DEF AttachImage
    <3>3. CASE ~ReoptimiseOne(c) /\ ~AttachImage(c)
      BY <3>3
         DEF PauseOrResume, Inject, InjectBad, Report, RefreshFeeds, BeginBatch, EndBatch,
             EndSwitch, indexVars
    <3> QED
      BY <3>1, <3>2, <3>3
  <2> QED
    BY <2>1, ConstantTypes DEF TypeInv, HistoryOK
<1>2. tasks' = tasks \/ \E t : Continue(c, t) /\ Marks(t) = {}
  <2>1. Marks(Idle) = {} /\ Marks([op |-> "pending"]) = {}
    BY DEF Marks, Idle
  <2>2. CASE PauseOrResume(c) \/ RefreshFeeds(c) \/ AttachImage(c)
    BY <2>2 DEF PauseOrResume, RefreshFeeds, AttachImage
  <2>3. CASE Inject(c) \/ InjectBad(c) \/ Report(c)
    BY <2>1, <2>3 DEF Inject, InjectBad, Report
  <2>4. CASE BeginBatch(c)
    <3>1. PICK t : Continue(c, t) /\ t.op = "batch"
      BY <2>4 DEF BeginBatch
    <3> QED
      BY <3>1 DEF Marks
  <2>5. CASE EndBatch(c) \/ EndSwitch(c)
    BY <2>1, <2>5 DEF EndBatch, EndSwitch
  <2>6. CASE ReoptimiseOne(c)
    <3>1. tasks[c] \in Reoptimise
      BY <2>6, TaskFields DEF ReoptimiseOne, TypeInv
    <3>2. Marks(Rest(tasks[c])) = {}
      BY <3>1 DEF Rest, Reoptimise, Marks
    <3>3. \A q : Ask(c, q) => \E t : Continue(c, t) /\ t.op = "asking"
      BY DEF Ask
    <3>4. \A t : t.op = "asking" => Marks(t) = {}
      BY DEF Marks
    <3> QED
      BY <2>1, <2>6, <3>2, <3>3, <3>4 DEF ReoptimiseOne
  <2> QED
    BY <2>2, <2>3, <2>4, <2>5, <2>6
<1>3. Marks(tasks'[c]) \subseteq Marks(tasks[c])
  BY <1>2 DEF Continue, TypeInv
<1> QED
  BY <1>1, <1>3 DEF DrawsIds

(* A request that decides has no mark.                                     *)
LEMMA DecidingSteps ==
    ASSUME TypeInv, NEW c \in Clients, DecideOne(c) \/ Answered(c) \/ Override(c)
    PROVE  /\ Marks(tasks'[c]) = {}
           /\ DrawsIds(c) \/ \E r \in Record : Filing(r)
<1>1. tasks \in [Clients -> Task] /\ counter \in Nat
  BY ConstantTypes DEF TypeInv, HistoryOK
<1>2. CASE Override(c)
  BY <1>2, OverrideFiles DEF Override, Accepts, Marks, Idle
<1>3. CASE Answered(c)
  <2>1. tasks[c].back \in {"batch", "reoptimise"}
    BY <1>3, AnsweredParts DEF AskBatch, AskAgain
  <2>2. Marks(tasks'[c]) = {}
    BY <1>1, <1>3, <2>1 DEF Answered, Continue, Marks
  <2>3. MayDecide
    BY <1>3 DEF Answered, Persist
  <2>4. history' # <<>> /\ ~NothingFiled
    <3>1. PICK r : history' = Append(history, r)
      BY <1>3 DEF Answered, Persist, Index
    <3>2. history \in Seq(Record) /\ Len(history) \in Nat
      BY LenProperties DEF TypeInv, HistoryOK
    <3>3. Len(history') = Len(history) + 1
      BY <3>1, <3>2
    <3> QED
      BY <3>2, <3>3, EmptySeq DEF NothingFiled
  <2>5. [Next]_vars
    BY <1>3 DEF Next
  <2> QED
    BY <2>2, <2>4, <2>5, FilingEffect DEF Forgotten
<1>4. CASE DecideOne(c)
  <2>1. tasks[c] \in Batch /\ tasks[c].op = "batch"
    BY <1>4, TaskFields DEF DecideOne, TypeInv
  <2>2. Marks(tasks'[c]) = {}
    <3>1. Rest(tasks[c]).op = "batch"
      BY <2>1 DEF Rest, Batch
    <3>2. \E t : Continue(c, t) /\ t.op \in {"batch", "idle", "asking"}
      <4>1. \A q : Ask(c, q) => \E t : Continue(c, t) /\ t.op = "asking"
        BY DEF Ask
      <4>2. \/ Continue(c, Rest(tasks[c])) \/ Continue(c, Idle) \/ \E q : Ask(c, q)
        BY <1>4 DEF DecideOne
      <4> QED
        BY <3>1, <4>1, <4>2 DEF Idle
    <3> QED
      BY <1>1, <3>2 DEF Continue, Marks
  <2>3. DrawsIds(c) \/ ~UNCHANGED indexVars
    BY <1>1, <2>2 DEF DrawsIds, indexVars
  <2>4. [Next]_vars
    BY <1>4 DEF Next
  <2>5. UNCHANGED indexVars \/ (history' # <<>> /\ ~NothingFiled)
    <3>1. UNCHANGED indexVars \/ \E r : history' = Append(history, r)
      BY <1>4 DEF DecideOne, Persist, Index
    <3>2. history \in Seq(Record) /\ Len(history) \in Nat
      BY LenProperties DEF TypeInv, HistoryOK
    <3>3. ASSUME NEW r, history' = Append(history, r)
          PROVE  history' # <<>> /\ ~NothingFiled
      <4>1. Len(history') = Len(history) + 1
        BY <3>2, <3>3
      <4> QED
        BY <3>2, <4>1, EmptySeq DEF NothingFiled
    <3> QED
      BY <3>1, <3>3
  <2> QED
    BY <2>2, <2>3, <2>4, <2>5, FilingEffect DEF Forgotten
<1> QED
  BY <1>2, <1>3, <1>4

(* Filing with the next id keeps the ids in order.                         *)
LEMMA FilingKeepsOrder ==
    ASSUME TypeInv, IdsAreFresh, NEW r \in Record, Filing(r)
    PROVE  IdsAreFresh'
<1>1. /\ history \in Seq(Record) /\ Len(history) \in Nat /\ counter \in Nat
      /\ DOMAIN history = 1..Len(history)
      /\ \A k \in DOMAIN history : history[k].id \in Nat
  <2>1. \A k \in DOMAIN history : history[k] \in Record
    BY ElementOfSeq, LenProperties DEF TypeInv, HistoryOK
  <2> QED
    BY <2>1, LenProperties, ConstantTypes DEF TypeInv, HistoryOK, Record
<1>2. /\ history' = Append(history, r) /\ r.id = counter + 1 /\ counter' = counter + 1
  BY DEF Filing, Index
<1>3. /\ DOMAIN history' = 1..(Len(history) + 1)
      /\ \A k \in 1..Len(history) : history'[k] = history[k]
      /\ history'[Len(history) + 1] = r
  <2>1. /\ Append(history, r) \in Seq(Record) /\ Len(Append(history, r)) = Len(history) + 1
        /\ \A k \in 1..Len(history) : Append(history, r)[k] = history[k]
        /\ Append(history, r)[Len(history) + 1] = r
    BY <1>1, AppendProperties
  <2> QED
    BY <1>2, <2>1, LenProperties
<1>4. \A k \in DOMAIN history' : k \in DOMAIN history \/ k = Len(history) + 1
  BY <1>1, <1>3
<1>5. \A k \in DOMAIN history' : history'[k].id <= counter'
  BY <1>1, <1>2, <1>3, <1>4 DEF IdsAreFresh
<1>6. ASSUME NEW j \in DOMAIN history', NEW k \in DOMAIN history', j < k
      PROVE  history'[j].id < history'[k].id
  <2>1. j \in DOMAIN history
    BY <1>1, <1>3, <1>6
  <2>2. CASE k \in DOMAIN history
    BY <1>1, <1>3, <1>6, <2>1, <2>2 DEF IdsAreFresh
  <2>3. CASE k = Len(history) + 1
    <3>1. history[j].id <= counter
      BY <2>1 DEF IdsAreFresh
    <3> QED
      BY <1>1, <1>2, <1>3, <2>1, <2>3, <3>1
  <2> QED
    BY <1>4, <2>2, <2>3
<1> QED
  BY <1>5, <1>6 DEF IdsAreFresh

(* With one client every step keeps the ids in order.                      *)
LEMMA IdsStep ==
    ASSUME OneClient, TypeInv, IdsInv, [Next]_vars
    PROVE  IdsInv'
<1>1. CASE UNCHANGED vars
  BY <1>1 DEF vars, indexVars, IdsInv, IdsAreFresh, Issued, Marks
<1>2. ASSUME NEW c \in Clients, DrawsIds(c) PROVE IdsInv'
  <2>1. /\ counter \in Nat /\ \A k \in DOMAIN history : history[k].id \in Nat
    <3>1. \A k \in DOMAIN history : history[k] \in Record
      BY ElementOfSeq, LenProperties DEF TypeInv, HistoryOK
    <3> QED
      BY <3>1, ConstantTypes DEF TypeInv, HistoryOK, Record
  <2>2. Issued(counter) /\ \A n \in Marks(tasks[c]) : Issued(n)
    BY DEF IdsInv, IdsAreFresh, Issued
  <2>3. counter' \in Int
    <3>1. \A n \in Marks(tasks[c]) : n \in Int
      <4>1. tasks[c].op = "dryRuns" => tasks[c] \in DryRuns
        BY TaskFields DEF TypeInv
      <4>2. tasks[c].op = "whatIf" => tasks[c] \in WhatIf
        BY TaskFields DEF TypeInv
      <4> QED
        BY <4>1, <4>2, ConstantTypes DEF Marks, DryRuns, WhatIf, Saved
    <3>2. [Next]_vars /\ TypeInv'
      BY TypeInvStep
    <3> QED
      BY <3>2, ConstantTypes DEF TypeInv, HistoryOK
  <2>4. Issued(counter)'
    <3>1. CASE counter' >= counter
      BY <1>2, <2>1, <2>2, <2>3, <3>1 DEF DrawsIds, Issued
    <3>2. CASE counter' \in Marks(tasks[c])
      BY <1>2, <2>2, <3>2 DEF DrawsIds, Issued
    <3> QED
      BY <1>2, <3>1, <3>2 DEF DrawsIds
  <2>5. IdsAreFresh'
    BY <1>2, <2>4 DEF IdsInv, IdsAreFresh, DrawsIds, Issued
  <2>6. \A n \in Marks(tasks'[c]) : \A k \in DOMAIN history' : history'[k].id <= n
    BY <1>2, <2>2 DEF DrawsIds, Issued
  <2>7. \A b \in Clients : b = c
    BY DEF OneClient
  <2> QED
    BY <2>5, <2>6, <2>7 DEF IdsInv, Issued, Marks
<1>3. ASSUME NEW c \in Clients, Start(c) \/ Reset(c) PROVE IdsInv'
  <2>1. history' = <<>>
    BY <1>3 DEF Start, Reset, NewSession
  <2>2. DOMAIN history' = {}
    BY <2>1
  <2> QED
    BY <2>2 DEF IdsInv, IdsAreFresh, Issued
<1>4. ASSUME NEW c \in Clients, NEW r \in Record, Filing(r), Marks(tasks'[c]) = {}
      PROVE  IdsInv'
  <2>1. IdsAreFresh'
    BY <1>4, FilingKeepsOrder DEF IdsInv
  <2>2. \A b \in Clients : b = c
    BY DEF OneClient
  <2>3. \A b \in Clients : Marks(tasks'[b]) = {}
    BY <1>4, <2>2
  <2>4. \A b \in Clients : Marks(tasks[b])' = {}
    BY <2>3 DEF Marks
  <2> QED
    BY <2>1, <2>4 DEF IdsInv
<1> QED
  BY <1>1, <1>2, <1>3, <1>4, DrawingSteps, PlainSteps, DecidingSteps DEF Next

(* Decision ids name one decision each and grow with time when requests do *)
(* not overlap, although dry runs and What-If runs give theirs back        *)
(* (switch_policy, sandbox_scope) and a reset keeps the counter.           *)
THEOREM IdsStayFresh ==
    ASSUME OneClient
    PROVE  Spec => []IdsAreFresh
<1>1. Init => IdsInv
  <2>1. Init => DOMAIN history = {} /\ \A c \in Clients : Marks(tasks[c]) = {}
    BY DEF Init, Marks, Idle
  <2> QED
    BY <2>1 DEF IdsInv, IdsAreFresh
<1>2. IdsInv => IdsAreFresh
  BY DEF IdsInv
<1>3. TypeInv /\ IdsInv /\ [Next]_vars => IdsInv'
  BY IdsStep
<1> QED
  BY <1>1, <1>2, <1>3, EngineTyped, PTL DEF Spec

-----------------------------------------------------------------------------
(* What-If *)

\* The registry is a function: what is put back entry by entry is put back.
BookInv == incidents = [i \in DOMAIN incidents |-> incidents[i]]

(* Every step leaves the registry a function.                              *)
LEMMA BookStep ==
    ASSUME BookInv, [Next]_vars
    PROVE  BookInv'
<1> DEFINE IsBook(f) == f = [i \in DOMAIN f |-> f[i]]
<1>1. ASSUME NEW f, NEW i, NEW v PROVE IsBook([f EXCEPT ![i] = v])
  OBVIOUS
<1>2. ASSUME NEW f, NEW i, NEW v PROVE IsBook(Put(f, i, v))
  BY DEF Put
<1>3. ASSUME NEW f, NEW S PROVE IsBook(Without(f, S))
  BY DEF Without
<1>4. IsBook(incidents)
  BY DEF BookInv
<1>5. ASSUME NEW c \in Clients, Start(c) \/ Reset(c) PROVE IsBook(incidents')
  <2>1. PICK rec : incidents' = RecordedIncidents(rec)
    BY <1>5 DEF Start, Reset, NewSession
  <2> QED
    BY <2>1 DEF RecordedIncidents
<1>6. ASSUME NEW c \in Clients,
             Inject(c) \/ Report(c) \/ RefreshFeeds(c) \/ EnterWhatIf(c)
      PROVE  IsBook(incidents')
  <2>1. incidents' = incidents \/ \E i, v : incidents' = Put(incidents, i, v)
    BY <1>6 DEF Inject, Report, RefreshFeeds, EnterWhatIf, InjectNew, Register, simVars
  <2> HIDE DEF IsBook
  <2> QED
    BY <1>2, <1>4, <2>1
<1>7. ASSUME NEW c \in Clients, DecideOne(c) PROVE IsBook(incidents')
  <2> DEFINE i    == Head(tasks[c].todo).inc
  <2> DEFINE book == IF i \in DOMAIN incidents THEN incidents ELSE Put(incidents, i, Shell)
  <2>1. IsBook(book)
    <3> HIDE DEF IsBook
    <3> QED
      BY <1>2, <1>4
  <2>2. incidents' = book \/ \E v : incidents' = [book EXCEPT ![i] = v]
    BY <1>7 DEF DecideOne, Persist
  <2> HIDE DEF IsBook, book, i
  <2>3. CASE incidents' = book
    BY <2>1, <2>3
  <2>4. ASSUME NEW v, incidents' = [book EXCEPT ![i] = v] PROVE IsBook(incidents')
    <3>1. IsBook([book EXCEPT ![i] = v])
      BY <1>1
    <3> QED
      BY <2>4, <3>1
  <2> QED
    BY <2>2, <2>3, <2>4
<1>8. ASSUME NEW c \in Clients, Answered(c) PROVE IsBook(incidents')
  <2>1. PICK i, d, live, taken : Persist(i, d, incidents, live, taken)
    BY <1>8 DEF Answered
  <2>2. incidents' = incidents \/ \E j, v : incidents' = [incidents EXCEPT ![j] = v]
    BY <2>1 DEF Persist
  <2> HIDE DEF IsBook
  <2> QED
    BY <1>1, <1>4, <2>2
<1>9. ASSUME NEW c \in Clients, Override(c) PROVE IsBook(incidents')
  <2>1. PICK r, t, p, consent : ApplyOverride(r, t, p, consent)
    BY <1>9 DEF Override
  <2>2. incidents' = incidents \/ \E i, v : incidents' = [incidents EXCEPT ![i] = v]
    BY <2>1 DEF ApplyOverride
  <2> HIDE DEF IsBook
  <2> QED
    BY <1>1, <1>4, <2>2
<1>10. ASSUME NEW c \in Clients, AttachImage(c) PROVE IsBook(incidents')
  <2>1. \E i, v : incidents' = [incidents EXCEPT ![i] = v]
    BY <1>10 DEF AttachImage
  <2> HIDE DEF IsBook
  <2> QED
    BY <1>1, <2>1
<1>11. ASSUME NEW c \in Clients, ExitWhatIf(c) PROVE IsBook(incidents')
  <2>1. \E S : incidents' = Without(incidents, S)
    BY <1>11 DEF ExitWhatIf, RolledBack
  <2> HIDE DEF IsBook
  <2> QED
    BY <1>3, <2>1
<1>12. ASSUME \/ UNCHANGED vars
              \/ \E c \in Clients :
                    \/ PauseOrResume(c) \/ InjectBad(c) \/ BeginBatch(c) \/ EndBatch(c)
                    \/ SwitchPolicy(c) \/ DryRunOne(c) \/ EndDryRuns(c)
                    \/ ReoptimiseOne(c) \/ EndSwitch(c)
       PROVE  IsBook(incidents')
  <2>1. incidents' = incidents
    BY <1>12 DEF vars, simVars, PauseOrResume, InjectBad, BeginBatch, EndBatch, SwitchPolicy,
                 DryRunOne, EndDryRuns, ReoptimiseOne, EndSwitch
  <2> QED
    BY <1>4, <2>1
<1> HIDE DEF IsBook
<1>13. IsBook(incidents')
  BY <1>5, <1>6, <1>7, <1>8, <1>9, <1>10, <1>11, <1>12 DEF Next
<1> QED
  BY <1>13 DEF IsBook, BookInv

(* Only the request that enters a sandbox is in one afterwards.            *)
LEMMA WhatIfEntered ==
    ASSUME TypeInv, [Next]_vars, NEW c \in Clients,
           tasks[c].op # "whatIf", tasks'[c].op = "whatIf"
    PROVE  EnterWhatIf(c)
<1>1. tasks \in [Clients -> Task] /\ tasks[c].op # "whatIf" /\ tasks' # tasks
  BY DEF TypeInv
<1>2. ASSUME NEW b \in Clients, NEW t, Continue(b, t), t.op # "whatIf" PROVE FALSE
  BY <1>1, <1>2 DEF Continue
<1>3. ASSUME NEW b \in Clients, Start(b) \/ Reset(b) PROVE FALSE
  <2>1. Stranded[c].op = tasks[c].op
    BY <1>1, StrandedType
  <2>2. \/ tasks' = Stranded
        \/ \E t : tasks' = [Stranded EXCEPT ![b] = t] /\ t.op # "whatIf"
    BY <1>3 DEF Start, Reset, Idle
  <2>3. Stranded \in [Clients -> Task]
    BY <1>1, StrandedType
  <2> QED
    BY <1>1, <2>1, <2>2, <2>3
<1>4. ASSUME NEW b \in Clients, ExitWhatIf(b) PROVE FALSE
  <2>1. \E gone : tasks' = [Orphaned(gone) EXCEPT ![b] = Idle]
    BY <1>4 DEF ExitWhatIf
  <2> QED
    BY <1>1, <2>1, OrphanedType DEF Idle
<1>5. ASSUME NEW b \in Clients, Inject(b) \/ InjectBad(b) \/ Report(b) PROVE FALSE
  BY <1>2, <1>5 DEF Inject, InjectBad, Report
<1>6. ASSUME NEW b \in Clients,
             PauseOrResume(b) \/ RefreshFeeds(b) \/ Override(b) \/ AttachImage(b)
      PROVE  FALSE
  BY <1>1, <1>6 DEF PauseOrResume, RefreshFeeds, Override, AttachImage
<1>7. ASSUME NEW b \in Clients, EndBatch(b) \/ EndSwitch(b) PROVE FALSE
  BY <1>2, <1>7 DEF EndBatch, EndSwitch, Idle
<1>8. ASSUME NEW b \in Clients,
             BeginBatch(b) \/ Answered(b) \/ SwitchPolicy(b) \/ EndDryRuns(b)
      PROVE  FALSE
  <2>1. Answered(b) => tasks[b].back # "whatIf"
    BY AnsweredParts DEF AskBatch, AskAgain
  <2>2. \E t : Continue(b, t) /\ t.op # "whatIf"
    <3>1. CASE BeginBatch(b)
      BY <3>1 DEF BeginBatch
    <3>2. CASE Answered(b)
      BY <2>1, <3>2 DEF Answered
    <3>3. CASE SwitchPolicy(b)
      BY <3>3 DEF SwitchPolicy
    <3>4. CASE EndDryRuns(b)
      BY <3>4 DEF EndDryRuns
    <3> QED
      BY <1>8, <3>1, <3>2, <3>3, <3>4
  <2> QED
    BY <1>2, <2>2
<1>9. ASSUME NEW b \in Clients, DecideOne(b) \/ DryRunOne(b) \/ ReoptimiseOne(b)
      PROVE  FALSE
  <2>1. /\ tasks[b] \in Batch \cup DryRuns \cup Reoptimise
    BY <1>9, TaskFields DEF DecideOne, DryRunOne, ReoptimiseOne, TypeInv
  <2>2. Rest(tasks[b]).op # "whatIf" /\ Idle.op # "whatIf"
    BY <2>1 DEF Rest, Batch, DryRuns, Reoptimise, Idle
  <2>3. \A q : Ask(b, q) => \E t : Continue(b, t) /\ t.op = "asking"
    BY DEF Ask
  <2>4. Continue(b, Rest(tasks[b])) \/ Continue(b, Idle) \/ \E q : Ask(b, q)
    <3>1. CASE DecideOne(b)
      BY <3>1 DEF DecideOne
    <3>2. CASE DryRunOne(b)
      BY <3>2 DEF DryRunOne
    <3>3. CASE ReoptimiseOne(b)
      BY <3>3 DEF ReoptimiseOne
    <3> QED
      BY <1>9, <3>1, <3>2, <3>3
  <2> QED
    BY <1>2, <2>2, <2>3, <2>4
<1>10. ASSUME NEW b \in Clients, EnterWhatIf(b) PROVE b = c
  BY <1>1, <1>10 DEF EnterWhatIf, Continue
<1>11. ~UNCHANGED vars
  BY <1>1 DEF vars
<1> QED
  BY <1>3, <1>4, <1>5, <1>6, <1>7, <1>8, <1>9, <1>10, <1>11 DEF Next

(* What the rollback would put back right after the sandbox was entered is *)
(* what was there before.                                                  *)
LEMMA SandboxRestores ==
    ASSUME TypeInv, BookInv, NEW c \in Clients, EnterWhatIf(c)
    PROVE  RolledBack(tasks[c].saved)' =
              [raw |-> raw, incidents |-> incidents, counter |-> counter,
               generated |-> generated, numbered |-> numbered]
<1>1. tasks'[c].saved = Snapshot
  BY DEF EnterWhatIf, Continue, TypeInv
<1> DEFINE live == RolledBack(tasks[c].saved)'
<1>2. live = [raw |-> IF Len(raw') > Len(raw) THEN SubSeq(raw', 1, Len(raw)) ELSE raw',
              incidents |-> Without(incidents', DOMAIN incidents' \ DOMAIN incidents),
              counter |-> counter, generated |-> generated, numbered |-> numbered]
  BY <1>1 DEF RolledBack, Snapshot
<1>3. raw \in Seq(Event) /\ Len(raw) \in Nat /\ DOMAIN raw = 1..Len(raw)
  BY LenProperties DEF TypeInv, StreamOK
<1>4. CASE UNCHANGED simVars
  <2>1. raw' = raw /\ incidents' = incidents
    BY <1>4 DEF simVars
  <2>2. Without(incidents, DOMAIN incidents \ DOMAIN incidents) = incidents
    BY DEF Without, BookInv
  <2> QED
    BY <1>2, <1>3, <2>1, <2>2
<1>5. CASE \E kind \in Kind : InjectNew(kind, 1)
  <2>1. PICK kind \in Kind : InjectNew(kind, 1)
    BY <1>5
  <2>2. NextId \in Incidents /\ NextId \notin DOMAIN incidents
    <3>1. UnusedIds # {} /\ UnusedIds \subseteq Nat
      BY <2>1, ConstantTypes DEF InjectNew, UnusedIds
    <3>2. NextId \in UnusedIds
      BY <3>1, LeastIsLeast DEF NextId
    <3> QED
      BY <3>2, ConstantTypes DEF UnusedIds
  <2> DEFINE e == RawEvent(numbered + 1, NextId, kind, FALSE)
  <2>3. raw' = Append(raw, e) /\ e \in Event
    <3>1. e \in Event
      BY <2>2 DEF RawEvent, Event, TypeInv, StreamOK
    <3> DEFINE new == [k \in 1..1 |-> RawEvent(numbered + k, NextId, kind, FALSE)]
    <3>2. new = <<e>>
      <4>1. new = [k \in 1..1 |-> e]
        <5>1. \A k \in 1..1 : k = 1
          OBVIOUS
        <5> QED
          BY <5>1
      <4> HIDE DEF e
      <4>2. [k \in 1..1 |-> e] = <<e>>
        OBVIOUS
      <4> QED
        BY <4>1, <4>2
    <3>3. raw' = raw \o new
      BY <2>1 DEF InjectNew, AppendReports
    <3> HIDE DEF new, e
    <3>4. raw \o <<e>> = Append(raw, e)
      BY <1>3, <3>1
    <3> QED
      BY <3>1, <3>2, <3>3, <3>4
  <2> HIDE DEF e
  <2>4. /\ Len(raw') = Len(raw) + 1 /\ raw' \in Seq(Event)
        /\ \A k \in 1..Len(raw) : raw'[k] = raw[k]
    BY <1>3, <2>3, AppendProperties
  <2>5. SubSeq(raw', 1, Len(raw)) = raw
    <3>1. SubSeq(raw', 1, Len(raw)) = [k \in 1..Len(raw) |-> raw'[k]]
      BY <1>3, <2>4
    <3>2. raw = [k \in 1..Len(raw) |-> raw[k]]
      BY <1>3
    <3> QED
      BY <2>4, <3>1, <3>2
  <2>6. incidents' = Put(incidents, NextId, NewIncident(kind))
    BY <2>1 DEF InjectNew
  <2>7. Without(incidents', DOMAIN incidents' \ DOMAIN incidents) = incidents
    <3>1. DOMAIN incidents' = DOMAIN incidents \cup {NextId}
      BY <2>6 DEF Put
    <3>2. DOMAIN incidents' \ (DOMAIN incidents' \ DOMAIN incidents) = DOMAIN incidents
      BY <3>1
    <3>3. \A j \in DOMAIN incidents : incidents'[j] = incidents[j]
      BY <2>2, <2>6 DEF Put
    <3>4. [j \in DOMAIN incidents |-> incidents'[j]] = [j \in DOMAIN incidents |-> incidents[j]]
      BY <3>3
    <3> QED
      BY <3>2, <3>4 DEF Without, BookInv
  <2>8. Len(raw') > Len(raw)
    BY <1>3, <2>4
  <2> HIDE DEF live
  <2> QED
    BY <1>2, <2>5, <2>7, <2>8 DEF live
<1>6. [type |-> "FIRE", zone |-> "NORTH"] \in Kind
  BY DEF Kind, IncidentTypes, Zones
<1> QED
  BY <1>4, <1>5, <1>6 DEF EnterWhatIf

(* Whatever a What-If run does to the live simulation, its rollback would  *)
(* put back exactly what was there, and what sandbox_scope does not save   *)
(* is not touched, for any number of clients and in every state.           *)
THEOREM WhatIfIsUndone == Spec => WhatIfLeavesNoTrace
<1>1. Init => BookInv
  BY DEF Init, BookInv
<1>2. BookInv /\ [Next]_vars => BookInv'
  BY BookStep
<1>3. TypeInv /\ BookInv /\ [Next]_vars =>
        [\A c \in Clients : (tasks[c] = Idle /\ tasks'[c].op = "whatIf")
           => /\ RolledBack(tasks[c].saved)' =
                     [raw |-> raw, incidents |-> incidents, counter |-> counter,
                      generated |-> generated, numbered |-> numbered]
              /\ UNCHANGED <<paused, validVars, history, cache, cachedLen, auditVars,
                             pool, position>>]_vars
  <2> SUFFICES ASSUME TypeInv, BookInv, [Next]_vars,
                      NEW c \in Clients, tasks[c] = Idle, tasks'[c].op = "whatIf"
               PROVE  /\ RolledBack(tasks[c].saved)' =
                             [raw |-> raw, incidents |-> incidents, counter |-> counter,
                              generated |-> generated, numbered |-> numbered]
                      /\ UNCHANGED <<paused, validVars, history, cache, cachedLen, auditVars,
                                     pool, position>>
    OBVIOUS
  <2>1. EnterWhatIf(c)
    BY WhatIfEntered DEF Idle
  <2>2. paused' = paused
    BY <2>1 DEF EnterWhatIf, InjectNew, simVars
  <2>3. UNCHANGED <<validVars, history, cache, cachedLen, auditVars, pool, position>>
    BY <2>1 DEF EnterWhatIf
  <2> QED
    BY <2>1, <2>2, <2>3, SandboxRestores
<1> QED
  BY <1>1, <1>2, <1>3, EngineTyped, PTL DEF Spec, WhatIfLeavesNoTrace

-----------------------------------------------------------------------------
(* The two views of the validations *)

\* No recording brings ids of its own, the feeds' ids are not the generator's, and
\* no other request runs while a sandbox has numbers to give back.
OwnIds == /\ Recordings = {}
          /\ \A i \in FeedIncidents : i > MaxReports
          /\ OneClient \/ "whatIf" \notin Requests

\* The first len events carry one of the n ids drawn, or one of a feed.
DrawnIds(len, n) ==
    /\ n <= len
    /\ \A k \in DOMAIN raw : k <= len => raw[k].ev \in 1..n \cup FeedIncidents
    /\ DOMAIN validated \subseteq 1..n \cup FeedIncidents

\* Events with the same id say the same, and so does the view by event.
EventsAgree ==
    /\ \A j, k \in DOMAIN raw : raw[j].ev = raw[k].ev =>
          raw[j].inc = raw[k].inc /\ raw[j].hard = raw[k].hard
    /\ \A k \in DOMAIN raw : raw[k].ev \in DOMAIN validated =>
          /\ validated[raw[k].ev].inc = raw[k].inc
          /\ validated[raw[k].ev].hard = raw[k].hard
FeedsAgree ==
    /\ \A k \in DOMAIN raw : raw[k].ev \in FeedIncidents =>
          raw[k].inc = raw[k].ev /\ ~raw[k].hard
    /\ \A e \in DOMAIN validated \cap FeedIncidents :
          validated[e].inc = e /\ ~validated[e].hard

SandboxInv == \A c \in Clients : tasks[c].op = "whatIf" =>
                 /\ OneClient /\ tasks[c].saved.rawLen <= Len(raw)
                 /\ DrawnIds(tasks[c].saved.rawLen, tasks[c].saved.numbered)

StreamAgrees == /\ Len(raw) <= MaxReports /\ DrawnIds(Len(raw), numbered)
                /\ EventsAgree /\ FeedsAgree /\ ViewsNeverDrift
AgreeInv     == StreamAgrees /\ SandboxInv

\* What a step does to the reports and what was found out about them.
Reported(i, kind, hard, n) == AppendReports(i, kind, hard, n) /\ UNCHANGED validVars
Fed(i, kind)  == /\ HasRoom(1) /\ raw' = Append(raw, RawEvent(i, i, kind, FALSE))
                 /\ UNCHANGED <<numbered, validVars>>
TakenUp       == UNCHANGED <<raw, numbered>> /\ Validate /\ processed' = Len(raw)
Emptied       == raw' = <<>> /\ numbered' = 0 /\ validated' = <<>> /\ hardIndex' = {}
NothingHeard  == UNCHANGED <<raw, numbered, validVars>>
Hearing == \/ NothingHeard \/ TakenUp \/ Emptied
           \/ \E i \in Incidents, kind \in Kind, hard \in BOOLEAN, n \in Nat :
                 Reported(i, kind, hard, n)
           \/ \E i \in FeedIncidents, kind \in Kind : Fed(i, kind)

(* Reports come at the end, numbered on.                                   *)
LEMMA ReportsAppended ==
    ASSUME TypeInv, NEW i \in Incidents, NEW kind \in Kind, NEW hard \in BOOLEAN,
           NEW n \in Nat, AppendReports(i, kind, hard, n)
    PROVE  /\ Len(raw') = Len(raw) + n /\ DOMAIN raw' = 1..Len(raw')
           /\ \A k \in 1..Len(raw) : raw'[k] = raw[k]
           /\ \A k \in (Len(raw) + 1)..Len(raw') :
                 raw'[k] = RawEvent(numbered + (k - Len(raw)), i, kind, hard)
<1> DEFINE new == [k \in 1..n |-> RawEvent(numbered + k, i, kind, hard)]
<1>1. numbered \in Nat /\ raw \in Seq(Event) /\ Len(raw) \in Nat
  BY LenProperties DEF TypeInv, StreamOK
<1>2. \A k \in 1..n : RawEvent(numbered + k, i, kind, hard) \in Event
  <2>1. \A k \in 1..n : numbered + k \in Nat
    BY <1>1
  <2> QED
    BY <2>1 DEF RawEvent, Event
<1>3. new \in Seq(Event) /\ Len(new) = n
  BY <1>2, SeqDef
<1>4. raw' = raw \o new
  BY DEF AppendReports
<1>5. \A k \in 1..n : new[k] = RawEvent(numbered + k, i, kind, hard)
  OBVIOUS
<1> HIDE DEF new
<1>6. /\ raw' \in Seq(Event) /\ Len(raw') = Len(raw) + n
      /\ \A k \in 1..Len(raw) + n :
            raw'[k] = IF k <= Len(raw) THEN raw[k] ELSE new[k - Len(raw)]
  BY <1>1, <1>3, <1>4, ConcatProperties
<1>7. DOMAIN raw' = 1..Len(raw')
  BY <1>6, LenProperties
<1>8. \A k \in (Len(raw) + 1)..Len(raw') :
         k - Len(raw) \in 1..n /\ k \in 1..Len(raw) + n /\ ~(k <= Len(raw))
  BY <1>1, <1>6
<1> QED
  BY <1>1, <1>5, <1>6, <1>7, <1>8

(* No step outside a sandbox does anything else to them.                   *)
LEMMA HearingStep ==
    ASSUME TypeInv, Recordings = {}, [Next]_vars, \A c \in Clients : ~ExitWhatIf(c)
    PROVE  Hearing
<1>1. CASE UNCHANGED vars
  BY <1>1 DEF vars, simVars, Hearing, NothingHeard
<1>2. ASSUME NEW c \in Clients, Start(c) \/ Reset(c) PROVE Hearing
  <2>1. NewSession(<<>>)
    BY <1>2 DEF Start, Reset
  <2>2. Replayed(<<>>) = <<>>
    BY DEF Replayed
  <2> QED
    BY <2>1, <2>2 DEF NewSession, Hearing, Emptied
<1>3. ASSUME NEW c \in Clients, Inject(c) \/ InjectBad(c) PROVE Hearing
  <2>1. CASE Inject(c)
    <3>1. PICK kind \in Kinds, n \in Bursts : InjectNew(kind, n) /\ UNCHANGED validVars
      BY <2>1 DEF Inject
    <3>2. kind \in Kind /\ n \in Nat /\ NextId \in Incidents
      BY <3>1, EngineAssumption, NextIdType DEF InjectNew
    <3> QED
      BY <3>1, <3>2 DEF InjectNew, Hearing, Reported
  <2>2. CASE InjectBad(c)
    <3>1. PICK kind \in Kinds : AppendReports(NextId, kind, TRUE, 1) /\ UNCHANGED validVars
      BY <2>2 DEF InjectBad
    <3>2. kind \in Kind /\ 1 \in Nat /\ NextId \in Incidents
      BY <2>2, <3>1, ConstantTypes, NextIdType DEF InjectBad
    <3> QED
      BY <3>1, <3>2 DEF Hearing, Reported
  <2> QED
    BY <1>3, <2>1, <2>2
<1>4. ASSUME NEW c \in Clients, Report(c) PROVE Hearing
  <2>1. PICK i \in Incidents, hard \in BOOLEAN :
          /\ Reports(i) # {} /\ UNCHANGED validVars
          /\ AppendReports(i, raw[Least(Reports(i))].kind, hard, 1)
    BY <1>4 DEF Report
  <2>2. raw[Least(Reports(i))].kind \in Kind /\ 1 \in Nat
    BY <2>1, ReportsType
  <2> QED
    BY <2>1, <2>2 DEF Hearing, Reported
<1>5. ASSUME NEW c \in Clients, RefreshFeeds(c) PROVE Hearing
  <2>1. PICK i \in FeedIncidents, kind \in Kinds : Fed(i, kind)
    BY <1>5 DEF RefreshFeeds, Fed
  <2> QED
    BY <2>1, ConstantTypes DEF Hearing
<1>6. ASSUME NEW c \in Clients, BeginBatch(c) PROVE Hearing
  BY <1>6 DEF BeginBatch, simVars, Hearing, TakenUp
<1>7. ASSUME NEW c \in Clients, EnterWhatIf(c) PROVE Hearing
  <2>1. CASE UNCHANGED simVars
    BY <1>7, <2>1 DEF EnterWhatIf, simVars, Hearing, NothingHeard
  <2>2. CASE InjectNew([type |-> "FIRE", zone |-> "NORTH"], 1)
    <3>1. [type |-> "FIRE", zone |-> "NORTH"] \in Kind /\ 1 \in Nat /\ NextId \in Incidents
      BY <2>2, NextIdType DEF Kind, IncidentTypes, Zones, InjectNew
    <3>2. UNCHANGED validVars
      BY <1>7 DEF EnterWhatIf
    <3> QED
      BY <2>2, <3>1, <3>2 DEF InjectNew, Hearing, Reported
  <2> QED
    BY <1>7, <2>1, <2>2 DEF EnterWhatIf
<1>8. ASSUME NEW c \in Clients,
             \/ PauseOrResume(c) \/ DecideOne(c) \/ Answered(c) \/ EndBatch(c)
             \/ Override(c) \/ AttachImage(c)
      PROVE  Hearing
  <2>1. NothingHeard
    BY <1>8 DEF PauseOrResume, DecideOne, Answered, EndBatch, Override, AttachImage, simVars,
                NothingHeard
  <2> QED
    BY <2>1 DEF Hearing
<1>9. ASSUME NEW c \in Clients,
             \/ SwitchPolicy(c) \/ DryRunOne(c) \/ EndDryRuns(c) \/ ReoptimiseOne(c)
             \/ EndSwitch(c)
      PROVE  Hearing
  <2>1. NothingHeard
    BY <1>9 DEF SwitchPolicy, DryRunOne, EndDryRuns, ReoptimiseOne, EndSwitch, simVars,
                NothingHeard
  <2> QED
    BY <2>1 DEF Hearing
<1> QED
  BY <1>1, <1>2, <1>3, <1>4, <1>5, <1>6, <1>7, <1>8, <1>9 DEF Next

(* A new report carries an id nothing else has.                            *)
LEMMA ReportedAgrees ==
    ASSUME TypeInv, OwnIds, StreamAgrees,
           NEW i \in Incidents, NEW kind \in Kind, NEW hard \in BOOLEAN, NEW n \in Nat,
           Reported(i, kind, hard, n)
    PROVE  StreamAgrees'
<1>1. /\ Len(raw') = Len(raw) + n /\ DOMAIN raw' = 1..Len(raw')
      /\ \A k \in 1..Len(raw) : raw'[k] = raw[k]
      /\ \A k \in (Len(raw) + 1)..Len(raw') :
            raw'[k] = RawEvent(numbered + (k - Len(raw)), i, kind, hard)
  BY ReportsAppended DEF Reported
<1>2. /\ numbered \in Nat /\ Len(raw) \in Nat /\ DOMAIN raw = 1..Len(raw)
      /\ MaxReports \in Nat /\ numbered <= Len(raw)
      /\ FeedIncidents \subseteq Nat /\ \A j \in FeedIncidents : j > MaxReports
  BY LenProperties, EngineAssumption, ConstantTypes
     DEF TypeInv, StreamOK, OwnIds, StreamAgrees, DrawnIds
<1>3. /\ numbered' = numbered + n /\ Len(raw) + n <= MaxReports
      /\ validated' = validated /\ hardIndex' = hardIndex
  BY DEF Reported, AppendReports, HasRoom, validVars
<1>4. \A k \in (Len(raw) + 1)..Len(raw') :
         /\ raw'[k].ev = numbered + (k - Len(raw))
         /\ raw'[k].inc = i /\ raw'[k].hard = hard
  <2>1. \A x : /\ RawEvent(x, i, kind, hard).ev = x
               /\ RawEvent(x, i, kind, hard).inc = i
               /\ RawEvent(x, i, kind, hard).hard = hard
    BY DEF RawEvent
  <2> QED
    BY <1>1, <2>1
<1>5. \A k \in (Len(raw) + 1)..Len(raw') :
         /\ raw'[k].ev \in (numbered + 1)..numbered' /\ raw'[k].ev \notin FeedIncidents
         /\ raw'[k].ev \notin 1..numbered
  BY <1>1, <1>2, <1>3, <1>4
<1>6. \A k \in DOMAIN raw : raw[k].ev \in 1..numbered \cup FeedIncidents
  BY <1>2 DEF StreamAgrees, DrawnIds
<1>7. DOMAIN validated \subseteq 1..numbered \cup FeedIncidents
  BY DEF StreamAgrees, DrawnIds
<1>8. \A k \in DOMAIN raw' : \/ k \in 1..Len(raw) /\ raw'[k] = raw[k]
                             \/ k \in (Len(raw) + 1)..Len(raw')
  BY <1>1, <1>2
<1>9. EventsAgree'
  <2>1. ASSUME NEW j \in DOMAIN raw', NEW k \in DOMAIN raw', raw'[j].ev = raw'[k].ev
        PROVE  raw'[j].inc = raw'[k].inc /\ raw'[j].hard = raw'[k].hard
    <3>1. CASE j \in 1..Len(raw) /\ k \in 1..Len(raw)
      BY <1>1, <1>2, <2>1, <3>1 DEF StreamAgrees, EventsAgree
    <3>2. CASE j \in (Len(raw) + 1)..Len(raw') /\ k \in (Len(raw) + 1)..Len(raw')
      BY <1>4, <3>2
    <3> QED
      BY <1>2, <1>5, <1>6, <1>8, <2>1, <3>1, <3>2
  <2>2. ASSUME NEW k \in DOMAIN raw', raw'[k].ev \in DOMAIN validated
        PROVE  /\ validated[raw'[k].ev].inc = raw'[k].inc
               /\ validated[raw'[k].ev].hard = raw'[k].hard
    <3>1. raw'[k] = raw[k] /\ k \in DOMAIN raw
      BY <1>2, <1>5, <1>7, <1>8, <2>2
    <3> QED
      BY <2>2, <3>1 DEF StreamAgrees, EventsAgree
  <2> QED
    BY <1>3, <2>1, <2>2 DEF EventsAgree
<1>10. FeedsAgree'
  BY <1>2, <1>3, <1>5, <1>8 DEF StreamAgrees, FeedsAgree
<1>11. DrawnIds(Len(raw), numbered)'
  <2>1. \A e \in 1..numbered : e \in 1..numbered'
    BY <1>2, <1>3
  <2>2. \A k \in DOMAIN raw' : raw'[k].ev \in 1..numbered' \cup FeedIncidents
    <3>1. \A k \in 1..Len(raw) : raw'[k].ev \in 1..numbered \cup FeedIncidents
      BY <1>1, <1>2, <1>6
    <3>2. \A k \in (Len(raw) + 1)..Len(raw') : raw'[k].ev \in 1..numbered'
      BY <1>2, <1>3, <1>5
    <3> QED
      BY <1>8, <2>1, <3>1, <3>2
  <2> QED
    BY <1>1, <1>2, <1>3, <1>7, <2>1, <2>2 DEF DrawnIds
<1> QED
  BY <1>1, <1>3, <1>9, <1>10, <1>11 DEF StreamAgrees, ViewsNeverDrift

(* So does an event of a feed, or it repeats one of the same feed.         *)
LEMMA FedAgrees ==
    ASSUME TypeInv, OwnIds, StreamAgrees,
           NEW i \in FeedIncidents, NEW kind \in Kind, Fed(i, kind)
    PROVE  StreamAgrees'
<1> DEFINE new == RawEvent(i, i, kind, FALSE)
<1>1. /\ i \in Nat /\ i \in Incidents /\ i \notin 1..numbered /\ numbered <= Len(raw)
      /\ numbered \in Nat /\ Len(raw) \in Nat /\ DOMAIN raw = 1..Len(raw)
  <2>1. i \in Nat /\ i > MaxReports /\ MaxReports \in Nat /\ Len(raw) <= MaxReports
    BY EngineAssumption, ConstantTypes DEF OwnIds, StreamAgrees
  <2> QED
    BY <2>1, LenProperties DEF TypeInv, StreamOK, StreamAgrees, DrawnIds, Incidents
<1>2. new \in Event
  BY <1>1 DEF RawEvent, Event
<1>3. new.ev = i /\ new.inc = i /\ new.hard = FALSE
  BY DEF RawEvent
<1>4. raw' = Append(raw, new)
  BY DEF Fed
<1> HIDE DEF new
<1>5. /\ Len(raw') = Len(raw) + 1 /\ DOMAIN raw' = 1..Len(raw')
      /\ \A k \in 1..Len(raw) : raw'[k] = raw[k]
      /\ raw'[Len(raw) + 1] = new
  BY <1>2, <1>4, AppendProperties, LenProperties DEF TypeInv, StreamOK
<1>6. \A k \in DOMAIN raw' : \/ k \in DOMAIN raw /\ raw'[k] = raw[k]
                             \/ raw'[k] = new
  BY <1>1, <1>5
<1>7. /\ numbered' = numbered /\ validated' = validated /\ hardIndex' = hardIndex
      /\ Len(raw) + 1 <= MaxReports
  BY DEF Fed, HasRoom, validVars
<1>8. EventsAgree'
  <2>1. ASSUME NEW j \in DOMAIN raw', NEW k \in DOMAIN raw', raw'[j].ev = raw'[k].ev
        PROVE  raw'[j].inc = raw'[k].inc /\ raw'[j].hard = raw'[k].hard
    <3>1. \A l \in DOMAIN raw : raw[l].ev = i => raw[l].inc = i /\ raw[l].hard = FALSE
      <4>1. \A l \in DOMAIN raw : raw[l].ev \in FeedIncidents =>
                raw[l].inc = raw[l].ev /\ ~raw[l].hard
        BY DEF StreamAgrees, FeedsAgree
      <4>2. \A l \in DOMAIN raw : raw[l] \in Event
        BY ElementOfSeq, LenProperties DEF TypeInv, StreamOK
      <4>3. \A l \in DOMAIN raw : raw[l].hard \in BOOLEAN
        BY <4>2 DEF Event
      <4> QED
        BY <4>1, <4>3
    <3>2. \A l, m \in DOMAIN raw : raw[l].ev = raw[m].ev =>
             raw[l].inc = raw[m].inc /\ raw[l].hard = raw[m].hard
      BY DEF StreamAgrees, EventsAgree
    <3>3. CASE raw'[j] = new
      BY <1>3, <1>6, <2>1, <3>1, <3>3
    <3>4. CASE raw'[k] = new
      BY <1>3, <1>6, <2>1, <3>1, <3>4
    <3> QED
      BY <1>6, <2>1, <3>2, <3>3, <3>4
  <2>2. ASSUME NEW k \in DOMAIN raw', raw'[k].ev \in DOMAIN validated
        PROVE  /\ validated[raw'[k].ev].inc = raw'[k].inc
               /\ validated[raw'[k].ev].hard = raw'[k].hard
    <3>1. CASE k \in DOMAIN raw /\ raw'[k] = raw[k]
      BY <2>2, <3>1 DEF StreamAgrees, EventsAgree
    <3>2. CASE raw'[k] = new
      <4>1. validated[i].inc = i /\ ~validated[i].hard
        BY <1>3, <2>2, <3>2 DEF StreamAgrees, FeedsAgree
      <4>2. validated[i].hard \in BOOLEAN
        BY <1>3, <2>2, <3>2 DEF TypeInv, ValidOK, Item
      <4> QED
        BY <1>3, <3>2, <4>1, <4>2
    <3> QED
      BY <1>6, <3>1, <3>2
  <2> QED
    BY <1>7, <2>1, <2>2 DEF EventsAgree
<1>9. FeedsAgree'
  BY <1>3, <1>6, <1>7 DEF StreamAgrees, FeedsAgree
<1>10. DrawnIds(Len(raw), numbered)'
  <2>1. \A k \in DOMAIN raw' : raw'[k].ev \in 1..numbered \cup FeedIncidents
    BY <1>1, <1>3, <1>6 DEF StreamAgrees, DrawnIds
  <2> QED
    BY <1>1, <1>5, <1>7, <2>1 DEF StreamAgrees, DrawnIds
<1> QED
  BY <1>5, <1>7, <1>8, <1>9, <1>10 DEF StreamAgrees, ViewsNeverDrift

(* By event, a validated id says what one of its pending events says.      *)
LEMMA ValidatedByEvent ==
    ASSUME TypeInv, Validate
    PROVE  /\ DOMAIN validated' = DOMAIN validated \cup {raw[k].ev : k \in Pending}
           /\ \A e \in DOMAIN validated' :
                 \/ \E k \in Pending : /\ raw[k].ev = e
                                       /\ validated'[e].inc = raw[k].inc
                                       /\ validated'[e].hard = raw[k].hard
                 \/ /\ \A k \in Pending : raw[k].ev # e
                    /\ e \in DOMAIN validated /\ validated'[e] = validated[e]
<1> DEFINE ids  == {raw[k].ev : k \in Pending}
<1> DEFINE last == [e \in ids |-> CHOOSE k \in Pending :
                     raw[k].ev = e /\ \A j \in Pending : raw[j].ev = e => j <= k]
<1>1. ASSUME NEW e \in ids
      PROVE  last[e] \in Pending /\ raw[last[e]].ev = e
  <2> DEFINE T == {k \in Pending : raw[k].ev = e}
  <2>1. T # {} /\ T \subseteq Pending
    OBVIOUS
  <2>2. \E k \in T : \A j \in T : j <= k
    <3> HIDE DEF T
    <3> QED
      BY <2>1, LastPendingExists
  <2> QED
    BY <2>2
<1>2. validated' = [e \in DOMAIN validated \cup ids |->
                     IF e \in ids
                     THEN [inc |-> raw[last[e]].inc, hard |-> raw[last[e]].hard]
                     ELSE validated[e]]
  BY DEF Validate
<1>3. \A e \in DOMAIN validated' : e \notin ids => \A k \in Pending : raw[k].ev # e
  OBVIOUS
<1> HIDE DEF last, ids
<1>4. DOMAIN validated' = DOMAIN validated \cup ids
  BY <1>2
<1>5. \A e \in ids : /\ validated'[e].inc = raw[last[e]].inc
                     /\ validated'[e].hard = raw[last[e]].hard
  BY <1>2
<1>6. \A e \in DOMAIN validated' : e \notin ids =>
         e \in DOMAIN validated /\ validated'[e] = validated[e]
  BY <1>2
<1> QED
  BY <1>1, <1>3, <1>4, <1>5, <1>6 DEF ids

(* A pending event whose id is new is filed by incident, or an event with  *)
(* the same id before it is.                                               *)
LEMMA FiledByIncident ==
    ASSUME TypeInv, NEW k \in Pending, raw[k].ev \notin DOMAIN validated
    PROVE  \E f \in Filed : f \in Pending /\ raw[f].ev = raw[k].ev
<1> DEFINE T == {j \in Pending : raw[j].ev = raw[k].ev}
<1>1. /\ T # {} /\ T \subseteq Pending /\ T \subseteq Nat
      /\ Pending \subseteq DOMAIN raw /\ \A j \in Pending : j \in Int
  <2>1. Pending \subseteq DOMAIN raw /\ Pending \subseteq Nat
    BY PendingType
  <2> QED
    BY <2>1
<1>2. PICK f \in T : \A j \in T : f <= j
  <2> HIDE DEF T
  <2> QED
    BY <1>1, LeastIsLeast
<1>3. f \in Pending /\ raw[f].ev = raw[k].ev /\ f \in DOMAIN raw
  BY <1>1, <1>2
<1>4. \A j \in Pending : j < f => raw[j].ev # raw[f].ev
  BY <1>1, <1>2, <1>3
<1>5. f \in Firsts(EvOf)
  BY <1>1, <1>3, <1>4 DEF Firsts, EvOf
<1> QED
  BY <1>3, <1>5 DEF Filed

(* A batch that is taken up keeps the views together.                      *)
LEMMA TakenUpAgrees ==
    ASSUME TypeInv, StreamAgrees, TakenUp
    PROVE  StreamAgrees'
<1> DEFINE ids == {raw[k].ev : k \in Pending}
<1>1. raw' = raw /\ numbered' = numbered /\ Validate
  BY DEF TakenUp
<1>2. /\ DOMAIN validated' = DOMAIN validated \cup ids
      /\ \A e \in DOMAIN validated' :
            \/ \E k \in Pending : /\ raw[k].ev = e
                                  /\ validated'[e].inc = raw[k].inc
                                  /\ validated'[e].hard = raw[k].hard
            \/ /\ \A k \in Pending : raw[k].ev # e
               /\ e \in DOMAIN validated /\ validated'[e] = validated[e]
  BY <1>1, ValidatedByEvent
<1>3. Pending \subseteq DOMAIN raw /\ DOMAIN raw = 1..Len(raw) /\ Len(raw) \in Nat
  BY PendingType
<1>4. \A j, k \in DOMAIN raw : raw[j].ev = raw[k].ev =>
         raw[j].inc = raw[k].inc /\ raw[j].hard = raw[k].hard
  BY DEF StreamAgrees, EventsAgree
<1>5. \A k \in DOMAIN raw : raw[k].ev \in DOMAIN validated =>
          /\ validated[raw[k].ev].inc = raw[k].inc
          /\ validated[raw[k].ev].hard = raw[k].hard
  BY DEF StreamAgrees, EventsAgree
<1>6. ids \subseteq {raw[k].ev : k \in DOMAIN raw}
  BY <1>3
<1>7. EventsAgree'
  <2>1. \A k \in DOMAIN raw : raw[k].ev \in DOMAIN validated' =>
           /\ validated'[raw[k].ev].inc = raw[k].inc
           /\ validated'[raw[k].ev].hard = raw[k].hard
    BY <1>2, <1>3, <1>4, <1>5
  <2> QED
    BY <1>1, <1>4, <2>1 DEF EventsAgree
<1>8. FeedsAgree'
  <2>1. ASSUME NEW e \in DOMAIN validated', e \in FeedIncidents
        PROVE  validated'[e].inc = e /\ ~validated'[e].hard
    <3>1. CASE \E k \in Pending : /\ raw[k].ev = e
                                  /\ validated'[e].inc = raw[k].inc
                                  /\ validated'[e].hard = raw[k].hard
      BY <1>3, <2>1, <3>1 DEF StreamAgrees, FeedsAgree
    <3>2. CASE e \in DOMAIN validated /\ validated'[e] = validated[e]
      BY <2>1, <3>2 DEF StreamAgrees, FeedsAgree
    <3> QED
      BY <1>2, <3>1, <3>2
  <2> QED
    BY <1>1, <2>1 DEF StreamAgrees, FeedsAgree
<1>9. DrawnIds(Len(raw), numbered)'
  <2>1. ids \subseteq 1..numbered \cup FeedIncidents
    BY <1>3 DEF StreamAgrees, DrawnIds
  <2> HIDE DEF ids
  <2> QED
    BY <1>1, <1>2, <2>1 DEF StreamAgrees, DrawnIds
<1>10. hardIndex' = hardIndex \cup {raw[k].inc : k \in {k \in Filed : raw[k].hard}}
  BY <1>1 DEF Validate
<1>11. Filed \subseteq Pending
  BY DEF Filed, Firsts
<1>12. ASSUME NEW i \in hardIndex'
       PROVE  \E e \in DOMAIN validated' : validated'[e].hard /\ validated'[e].inc = i
  <2>1. CASE i \in hardIndex
    <3>1. PICK e \in DOMAIN validated : validated[e].hard /\ validated[e].inc = i
      BY <2>1 DEF StreamAgrees, ViewsNeverDrift
    <3>2. validated'[e].hard /\ validated'[e].inc = i
      BY <1>2, <1>3, <1>5, <3>1
    <3> QED
      BY <1>2, <3>1, <3>2
  <2>2. CASE i \notin hardIndex
    <3>1. PICK k \in Pending : raw[k].hard /\ raw[k].inc = i
      BY <1>10, <1>11, <1>12, <2>2
    <3>2. raw[k].ev \in DOMAIN validated'
      BY <1>2
    <3>3. validated'[raw[k].ev].hard = raw[k].hard /\ validated'[raw[k].ev].inc = raw[k].inc
      BY <1>1, <1>3, <1>7, <3>2 DEF EventsAgree
    <3> QED
      BY <3>1, <3>2, <3>3
  <2> QED
    BY <2>1, <2>2
<1>13. ASSUME NEW e \in DOMAIN validated', validated'[e].hard
       PROVE  validated'[e].inc \in hardIndex'
  <2>1. CASE e \in DOMAIN validated
    <3>1. validated'[e].hard = validated[e].hard /\ validated'[e].inc = validated[e].inc
      BY <1>2, <1>3, <1>5, <2>1
    <3>2. validated[e].inc \in hardIndex
      BY <1>13, <2>1, <3>1 DEF StreamAgrees, ViewsNeverDrift
    <3> QED
      BY <1>10, <3>1, <3>2
  <2>2. CASE e \notin DOMAIN validated
    <3>1. PICK k \in Pending : /\ raw[k].ev = e
                               /\ validated'[e].inc = raw[k].inc
                               /\ validated'[e].hard = raw[k].hard
      BY <1>2, <2>2
    <3>2. PICK f \in Filed : f \in Pending /\ raw[f].ev = raw[k].ev
      BY <2>2, <3>1, FiledByIncident
    <3>3. raw[f].inc = raw[k].inc /\ raw[f].hard
      BY <1>3, <1>4, <1>13, <3>1, <3>2
    <3> QED
      BY <1>10, <3>1, <3>2, <3>3
  <2> QED
    BY <2>1, <2>2
<1>14. ViewsNeverDrift'
  BY <1>12, <1>13 DEF ViewsNeverDrift
<1> QED
  BY <1>1, <1>7, <1>8, <1>9, <1>14 DEF StreamAgrees

(* A rollback forgets the ids that nothing left in the stream carries.     *)
LEMMA RolledBackAgrees ==
    ASSUME TypeInv, StreamAgrees, SandboxInv, NEW c \in Clients, ExitWhatIf(c)
    PROVE  StreamAgrees'
<1> DEFINE saved == tasks[c].saved
<1>1. /\ saved.rawLen \in Nat /\ saved.rawLen <= Len(raw)
      /\ DrawnIds(saved.rawLen, saved.numbered)
  <2>1. tasks[c] \in WhatIf
    BY TaskFields DEF ExitWhatIf, TypeInv
  <2> QED
    BY <2>1 DEF WhatIf, Saved, SandboxInv, ExitWhatIf
<1>2. /\ raw' = (IF Len(raw) > saved.rawLen THEN SubSeq(raw, 1, saved.rawLen) ELSE raw)
      /\ numbered' = saved.numbered
      /\ processed' = processed /\ validated' = validated /\ hardIndex' = hardIndex
  BY DEF ExitWhatIf, RolledBack, validVars
<1> HIDE DEF saved
<1>3. raw \in Seq(Event) /\ Len(raw) \in Nat /\ DOMAIN raw = 1..Len(raw)
  BY LenProperties DEF TypeInv, StreamOK
<1>4. /\ Len(raw') = saved.rawLen /\ DOMAIN raw' \subseteq DOMAIN raw
      /\ \A k \in DOMAIN raw' : raw'[k] = raw[k] /\ k <= saved.rawLen
  <2>1. CASE Len(raw) > saved.rawLen
    <3>1. raw' = SubSeq(raw, 1, saved.rawLen)
      BY <1>2, <2>1
    <3>2. /\ Len(SubSeq(raw, 1, saved.rawLen)) = saved.rawLen
          /\ DOMAIN SubSeq(raw, 1, saved.rawLen) = 1..saved.rawLen
          /\ \A k \in 1..saved.rawLen : SubSeq(raw, 1, saved.rawLen)[k] = raw[k]
      BY <1>1, <1>3, <2>1
    <3> QED
      BY <1>1, <1>3, <3>1, <3>2
  <2>2. CASE ~(Len(raw) > saved.rawLen)
    BY <1>1, <1>2, <1>3, <2>2
  <2> QED
    BY <2>1, <2>2
<1>5. EventsAgree' /\ FeedsAgree'
  <2>1. EventsAgree'
    <3>1. \A j, k \in DOMAIN raw' : raw'[j].ev = raw'[k].ev =>
             raw'[j].inc = raw'[k].inc /\ raw'[j].hard = raw'[k].hard
      <4>1. \A j, k \in DOMAIN raw : raw[j].ev = raw[k].ev =>
               raw[j].inc = raw[k].inc /\ raw[j].hard = raw[k].hard
        BY DEF StreamAgrees, EventsAgree
      <4>2. DOMAIN raw' \subseteq DOMAIN raw /\ \A k \in DOMAIN raw' : raw'[k] = raw[k]
        BY <1>4
      <4> QED
        BY <4>1, <4>2
    <3>2. \A k \in DOMAIN raw' : raw'[k].ev \in DOMAIN validated =>
             /\ validated[raw'[k].ev].inc = raw'[k].inc
             /\ validated[raw'[k].ev].hard = raw'[k].hard
      BY <1>4 DEF StreamAgrees, EventsAgree
    <3> QED
      BY <1>2, <3>1, <3>2 DEF EventsAgree
  <2>2. FeedsAgree'
    BY <1>2, <1>4 DEF StreamAgrees, FeedsAgree
  <2> QED
    BY <2>1, <2>2
<1>6. DrawnIds(Len(raw), numbered)'
  BY <1>1, <1>2, <1>4 DEF DrawnIds
<1>7. Len(raw') <= MaxReports
  BY <1>1, <1>3, <1>4, ConstantTypes DEF StreamAgrees
<1> QED
  BY <1>2, <1>5, <1>6, <1>7 DEF StreamAgrees, ViewsNeverDrift

(* Entering a sandbox adds to the reports, if anything.                    *)
LEMMA SandboxExtends ==
    ASSUME TypeInv, NEW c \in Clients, EnterWhatIf(c)
    PROVE  /\ Len(raw) \in Nat /\ DOMAIN raw = 1..Len(raw)
           /\ Len(raw) <= Len(raw') /\ DOMAIN raw' \subseteq Nat \ {0}
           /\ \A k \in 1..Len(raw) : raw'[k] = raw[k]
<1>1. Len(raw) \in Nat /\ DOMAIN raw = 1..Len(raw)
  BY LenProperties DEF TypeInv, StreamOK
<1>2. /\ Len(raw) <= Len(raw') /\ DOMAIN raw' \subseteq Nat \ {0}
      /\ \A k \in 1..Len(raw) : raw'[k] = raw[k]
  <2>1. CASE UNCHANGED simVars
    BY <1>1, <2>1 DEF simVars
  <2>2. CASE InjectNew([type |-> "FIRE", zone |-> "NORTH"], 1)
    <3>1. [type |-> "FIRE", zone |-> "NORTH"] \in Kind /\ 1 \in Nat /\ NextId \in Incidents
      BY <2>2, NextIdType DEF Kind, IncidentTypes, Zones, InjectNew
    <3>2. AppendReports(NextId, [type |-> "FIRE", zone |-> "NORTH"], FALSE, 1)
      BY <2>2 DEF InjectNew
    <3>3. /\ Len(raw') = Len(raw) + 1 /\ DOMAIN raw' = 1..Len(raw')
          /\ \A k \in 1..Len(raw) : raw'[k] = raw[k]
      BY <3>1, <3>2, ReportsAppended
    <3> QED
      BY <1>1, <3>3
  <2> QED
    BY <2>1, <2>2 DEF EnterWhatIf
<1> QED
  BY <1>1, <1>2

(* A sandbox may give back what was there when it was entered.             *)
LEMMA SandboxEntered ==
    ASSUME TypeInv, StreamAgrees, NEW c \in Clients, EnterWhatIf(c)
    PROVE  /\ Len(raw) <= Len(raw') /\ numbered <= Len(raw)
           /\ \A k \in DOMAIN raw' : k <= Len(raw) =>
                 raw'[k].ev \in 1..numbered \cup FeedIncidents
           /\ DOMAIN validated' \subseteq 1..numbered \cup FeedIncidents
<1>1. Len(raw) \in Nat /\ DOMAIN raw = 1..Len(raw)
  BY LenProperties DEF TypeInv, StreamOK
<1>2. /\ Len(raw) <= Len(raw') /\ DOMAIN raw' \subseteq Nat \ {0}
      /\ \A k \in 1..Len(raw) : raw'[k] = raw[k]
  BY SandboxExtends
<1>3. \A k \in DOMAIN raw' : k <= Len(raw) => k \in 1..Len(raw)
  BY <1>1, <1>2
<1>4. validated' = validated
  BY DEF EnterWhatIf, validVars
<1> QED
  BY <1>1, <1>2, <1>3, <1>4 DEF StreamAgrees, DrawnIds

(* A request in its sandbox does nothing but leave it.                     *)
LEMMA SandboxBusy ==
    ASSUME NEW c \in Clients, tasks[c].op = "whatIf"
    PROVE  /\ ~Start(c) /\ ~Reset(c) /\ ~PauseOrResume(c)
           /\ ~Inject(c) /\ ~InjectBad(c) /\ ~Report(c) /\ ~RefreshFeeds(c)
           /\ ~BeginBatch(c) /\ ~DecideOne(c) /\ ~Answered(c) /\ ~EndBatch(c)
           /\ ~SwitchPolicy(c) /\ ~DryRunOne(c) /\ ~EndDryRuns(c)
           /\ ~ReoptimiseOne(c) /\ ~EndSwitch(c)
           /\ ~Override(c) /\ ~AttachImage(c)
<1>1. tasks[c] # Idle
  BY DEF Idle
<1>2. \A name : ~Accepts(c, name)
  BY <1>1 DEF Accepts
<1> QED
  BY <1>2 DEF Start, Reset, PauseOrResume, Inject, InjectBad, Report, RefreshFeeds, BeginBatch,
              DecideOne, Answered, EndBatch, SwitchPolicy, DryRunOne, EndDryRuns,
              ReoptimiseOne, EndSwitch, Override, AttachImage

(* Every step keeps events with one id in agreement.                       *)
LEMMA AgreeStep ==
    ASSUME TypeInv, OwnIds, AgreeInv, [Next]_vars
    PROVE  AgreeInv'
<1>0. tasks \in [Clients -> Task] /\ StreamAgrees /\ SandboxInv
  BY DEF TypeInv, AgreeInv
<1>1. CASE UNCHANGED vars
  BY <1>0, <1>1 DEF vars, simVars, validVars, AgreeInv, StreamAgrees, DrawnIds, EventsAgree,
                    FeedsAgree, SandboxInv, ViewsNeverDrift
<1>2. ASSUME NEW c \in Clients, ExitWhatIf(c) PROVE AgreeInv'
  <2>1. StreamAgrees'
    BY <1>0, <1>2, RolledBackAgrees
  <2>2. OneClient /\ tasks'[c] = Idle
    <3>1. tasks[c].op = "whatIf"
      BY <1>2 DEF ExitWhatIf
    <3>2. \E gone : tasks' = [Orphaned(gone) EXCEPT ![c] = Idle]
      BY <1>2 DEF ExitWhatIf
    <3>3. tasks'[c] = Idle
      BY <1>0, <3>2, OrphanedType
    <3> QED
      BY <1>0, <3>1, <3>3 DEF SandboxInv
  <2>3. \A b \in Clients : tasks'[b].op # "whatIf"
    BY <2>2 DEF OneClient, Idle
  <2>4. SandboxInv'
    BY <2>3 DEF SandboxInv
  <2> QED
    BY <2>1, <2>4 DEF AgreeInv
<1>3. ASSUME \A c \in Clients : ~ExitWhatIf(c)
      PROVE  StreamAgrees'
  <2>1. Hearing
    BY <1>3, HearingStep DEF OwnIds
  <2>2. CASE NothingHeard
    BY <1>0, <2>2 DEF NothingHeard, validVars, StreamAgrees, DrawnIds, EventsAgree,
                      FeedsAgree, ViewsNeverDrift
  <2>3. CASE Emptied
    <3>1. DOMAIN raw' = {} /\ Len(raw') = 0 /\ DOMAIN validated' = {}
      BY <2>3 DEF Emptied
    <3> QED
      BY <2>3, <3>1, ConstantTypes
         DEF Emptied, StreamAgrees, DrawnIds, EventsAgree, FeedsAgree, ViewsNeverDrift
  <2> QED
    BY <1>0, <2>1, <2>2, <2>3, TakenUpAgrees, ReportedAgrees, FedAgrees DEF Hearing
<1>4. ASSUME NEW c \in Clients, EnterWhatIf(c) PROVE AgreeInv'
  <2>1. OneClient
    BY <1>4 DEF EnterWhatIf, Accepts, OwnIds
  <2>2. tasks[c] = Idle /\ tasks'[c].saved = Snapshot
    BY <1>0, <1>4 DEF EnterWhatIf, Accepts, Continue
  <2>3. \A b \in Clients : ~ExitWhatIf(b)
    <3>1. \A b \in Clients : tasks[b].op = "idle"
      BY <2>1, <2>2 DEF OneClient, Idle
    <3> QED
      BY <3>1 DEF ExitWhatIf
  <2>4. StreamAgrees'
    BY <1>3, <2>3
  <2>5. \A b \in Clients : b = c
    BY <2>1 DEF OneClient
  <2>6. SandboxInv'
    <3>1. /\ Len(raw) <= Len(raw') /\ numbered <= Len(raw)
          /\ \A k \in DOMAIN raw' : k <= Len(raw) =>
                raw'[k].ev \in 1..numbered \cup FeedIncidents
          /\ DOMAIN validated' \subseteq 1..numbered \cup FeedIncidents
      BY <1>0, <1>4, SandboxEntered
    <3>2. tasks'[c].saved.rawLen = Len(raw) /\ tasks'[c].saved.numbered = numbered
      BY <2>2 DEF Snapshot
    <3> QED
      BY <2>1, <2>5, <3>1, <3>2 DEF SandboxInv, DrawnIds
  <2> QED
    BY <2>4, <2>6 DEF AgreeInv
<1>5. ASSUME \A c \in Clients : ~ExitWhatIf(c) /\ ~EnterWhatIf(c), ~UNCHANGED vars
      PROVE  SandboxInv'
  <2>1. \A b \in Clients : tasks[b].op # "whatIf"
    <3> SUFFICES ASSUME NEW b \in Clients, tasks[b].op = "whatIf" PROVE FALSE
      OBVIOUS
    <3>1. \A c \in Clients : c = b
      BY <1>0 DEF SandboxInv, OneClient
    <3>2. tasks[b] # Idle /\ tasks[b].op = "whatIf"
      BY DEF Idle
    <3> QED
      BY <1>5, <3>1, <3>2, SandboxBusy DEF Next
  <2>2. \A b \in Clients : tasks'[b].op # "whatIf"
    BY <1>5, <2>1, WhatIfEntered
  <2> QED
    BY <2>2 DEF SandboxInv
<1> QED
  BY <1>1, <1>2, <1>3, <1>4, <1>5 DEF AgreeInv

(* The comment of engine.py:676, that the two views of the validations can *)
(* never drift apart, holds for any number of clients as long as no event  *)
(* id is used twice: no recording is replayed under ids the generator will *)
(* draw again, and no sandbox gives back ids that another request has      *)
(* validated meanwhile.                                                    *)
THEOREM ViewsStayTogether ==
    ASSUME OwnIds
    PROVE  Spec => []ViewsNeverDrift
<1>1. Init => AgreeInv
  <2> SUFFICES ASSUME Init PROVE AgreeInv
    OBVIOUS
  <2>1. DOMAIN raw = {} /\ Len(raw) = 0 /\ DOMAIN validated = {} /\ numbered = 0
    BY DEF Init
  <2>2. \A c \in Clients : tasks[c].op # "whatIf"
    BY DEF Init, Idle
  <2> QED
    BY <2>1, <2>2, ConstantTypes
       DEF Init, AgreeInv, StreamAgrees, DrawnIds, EventsAgree, FeedsAgree, SandboxInv,
           ViewsNeverDrift
<1>2. AgreeInv => ViewsNeverDrift
  BY DEF AgreeInv, StreamAgrees
<1>3. TypeInv /\ AgreeInv /\ [Next]_vars => AgreeInv'
  BY AgreeStep
<1> QED
  BY <1>1, <1>2, <1>3, EngineTyped, PTL DEF Spec

-----------------------------------------------------------------------------
(* The batch *)

\* What a request has still to decide of its batch.
Items(t) == CASE t.op = "batch" -> t.todo
              [] t.op = "asking" /\ t.back = "batch" -> t.rest
              [] OTHER -> <<>>

(* A set of numbers in order lists every one of them.                      *)
LEMMA InOrderReaches ==
    ASSUME NEW S, S \subseteq Nat, IsFiniteSet(S), NEW k \in S
    PROVE  \E n \in DOMAIN InOrder(S) : InOrder(S)[n] = k
<1> DEFINE below(l) == {j \in S : j < l}
<1>1. \A l \in S : /\ IsFiniteSet(below(l)) /\ Cardinality(below(l)) \in Nat
                   /\ l \in Int /\ ~(l < l) /\ l \notin below(l)
  <2> TAKE l \in S
  <2>1. below(l) \in SUBSET S
    OBVIOUS
  <2>2. IsFiniteSet(below(l))
    BY <2>1, FS_Subset
  <2>3. l \in Int /\ ~(l < l)
    OBVIOUS
  <2> QED
    BY <2>2, <2>3, FS_CardinalityType
<1>2. ASSUME NEW l \in S, NEW m \in S, l < m
      PROVE  Cardinality(below(l)) < Cardinality(below(m))
  <2>1. below(l) \cup {l} \subseteq below(m)
    <3>1. \A j \in S : j < l => j < m
      BY <1>2
    <3> QED
      BY <1>2, <3>1
  <2>2. /\ IsFiniteSet(below(l) \cup {l})
        /\ Cardinality(below(l) \cup {l}) = Cardinality(below(l)) + 1
    <3>1. IsFiniteSet(below(l)) /\ l \notin below(l)
      BY <1>1
    <3> HIDE DEF below
    <3> QED
      BY <3>1, FS_AddElement
  <2>3. Cardinality(below(l) \cup {l}) <= Cardinality(below(m))
    BY <1>1, <2>1, FS_Subset
  <2> HIDE DEF below
  <2> QED
    BY <1>1, <2>2, <2>3
<1>3. ASSUME NEW l \in S, NEW m \in S, Cardinality(below(l)) = Cardinality(below(m))
      PROVE  l = m
  <2>1. l < m \/ l = m \/ m < l
    BY <1>1
  <2> HIDE DEF below
  <2> QED
    BY <1>1, <1>2, <1>3, <2>1
<1> DEFINE n == Cardinality(below(k)) + 1
<1>4. n \in 1..Cardinality(S)
  <2>1. Cardinality(below(k)) < Cardinality(S)
    <3>1. below(k) \subseteq S /\ k \notin below(k)
      BY <1>1
    <3>2. below(k) # S
      BY <3>1
    <3>3. Cardinality(below(k)) \in Nat /\ Cardinality(S) \in Nat
      BY <1>1, FS_CardinalityType
    <3> HIDE DEF below
    <3>4. /\ Cardinality(below(k)) <= Cardinality(S)
          /\ Cardinality(S) # Cardinality(below(k))
      BY <3>1, <3>2, FS_Subset
    <3> QED
      BY <3>3, <3>4
  <2>2. Cardinality(S) \in Nat
    BY FS_CardinalityType
  <2> HIDE DEF below
  <2> QED
    BY <1>1, <2>1, <2>2
<1>5. InOrder(S)[n] = k
  <2>1. Cardinality({j \in S : j < k}) = n - 1
    <3>1. Cardinality(below(k)) \in Nat
      BY <1>1
    <3> QED
      BY <3>1
  <2>2. \A l \in S : Cardinality({j \in S : j < l}) = n - 1 => l = k
    BY <1>3, <2>1
  <2>3. (CHOOSE l \in S : Cardinality({j \in S : j < l}) = n - 1) = k
    <3> HIDE DEF n
    <3> QED
      BY <2>1, <2>2
  <2> HIDE DEF n
  <2> QED
    BY <1>4, <2>3 DEF InOrder
<1> QED
  BY <1>4, <1>5, InOrderLists

(* A batch is its head and its tail.                                       *)
LEMMA HeadAndTail ==
    ASSUME NEW q \in Seq(Item), q # <<>>
    PROVE  /\ \A n \in DOMAIN Tail(q) : \E m \in DOMAIN q : Tail(q)[n] = q[m]
           /\ \E m \in DOMAIN q : Head(q) = q[m]
           /\ \A m \in DOMAIN q : \/ q[m] = Head(q)
                                  \/ \E n \in DOMAIN Tail(q) : q[m] = Tail(q)[n]
<1>1. /\ Len(q) \in Nat /\ DOMAIN q = 1..Len(q) /\ Len(q) # 0
      /\ Tail(q) \in Seq(Item) /\ Len(Tail(q)) = Len(q) - 1
      /\ \A n \in 1..Len(Tail(q)) : Tail(q)[n] = q[n + 1]
  BY HeadTailProperties, LenProperties, EmptySeq
<1>2. DOMAIN Tail(q) = 1..Len(q) - 1
  BY <1>1, LenProperties
<1>3. \A n \in 1..Len(q) - 1 : n + 1 \in 1..Len(q)
  BY <1>1
<1>4. 1 \in DOMAIN q /\ Head(q) = q[1]
  BY <1>1
<1>5. \A m \in 1..Len(q) : m = 1 \/ (m - 1 \in 1..Len(q) - 1 /\ (m - 1) + 1 = m)
  BY <1>1
<1>6. \A m \in 1..Len(q) : m # 1 => Tail(q)[m - 1] = q[m]
  BY <1>1, <1>5
<1> QED
  BY <1>1, <1>2, <1>3, <1>4, <1>5, <1>6

(* A batch has an item for every pending incident, and says of each what   *)
(* a pending report says.                                                  *)
LEMMA BatchTakesAll ==
    ASSUME TypeInv, NEW c \in Clients, BeginBatch(c)
    PROVE  /\ tasks'[c] \in Batch /\ tasks'[c].op = "batch"
           /\ \A n \in DOMAIN tasks'[c].todo :
                 \E k \in Pending : /\ raw[k].inc = tasks'[c].todo[n].inc
                                    /\ raw[k].hard = tasks'[c].todo[n].hard
           /\ \A k \in Pending :
                 \E n \in DOMAIN tasks'[c].todo : tasks'[c].todo[n].inc = raw[k].inc
<1> DEFINE firsts == InOrder(Firsts(IncOf))
<1> DEFINE todo   == [n \in DOMAIN firsts |->
                        [inc  |-> raw[firsts[n]].inc,
                         hard |-> raw[LastPending(raw[firsts[n]].inc)].hard]]
<1>1. /\ Firsts(IncOf) \subseteq Pending /\ Firsts(IncOf) \subseteq Nat
      /\ IsFiniteSet(Firsts(IncOf))
      /\ Pending \subseteq DOMAIN raw /\ Pending \subseteq Nat
  <2>1. Firsts(IncOf) \subseteq Pending
    BY DEF Firsts
  <2>2. Firsts(IncOf) \subseteq 1..Len(raw)
    BY <2>1, PendingType
  <2> QED
    BY <2>1, <2>2, PendingType
<1>2. \A n \in DOMAIN firsts : firsts[n] \in Pending
  BY <1>1, InOrderLists
<1>3. ASSUME NEW k \in Pending
      PROVE  LastPending(raw[k].inc) \in Pending /\ raw[LastPending(raw[k].inc)].inc = raw[k].inc
  <2> DEFINE T == {j \in Pending : raw[j].inc = raw[k].inc}
  <2>1. T # {} /\ T \subseteq Pending
    OBVIOUS
  <2>2. \E l \in T : \A j \in T : j <= l
    <3> HIDE DEF T
    <3> QED
      BY <2>1, LastPendingExists
  <2> QED
    BY <2>2 DEF LastPending
<1>4. ASSUME NEW k \in Pending
      PROVE  \E f \in Firsts(IncOf) : raw[f].inc = raw[k].inc
  <2> DEFINE T == {j \in Pending : raw[j].inc = raw[k].inc}
  <2>1. T # {} /\ T \subseteq Nat
    BY <1>1
  <2>2. PICK f \in T : \A j \in T : f <= j
    <3> HIDE DEF T
    <3> QED
      BY <2>1, LeastIsLeast
  <2>3. \A j \in Pending : j < f => raw[j].inc # raw[f].inc
    BY <1>1, <2>2
  <2>4. f \in Firsts(IncOf)
    BY <1>1, <2>2, <2>3 DEF Firsts, IncOf
  <2> QED
    BY <2>2, <2>4
<1>5. ASSUME NEW k \in Pending
      PROVE  \E n \in DOMAIN firsts : raw[firsts[n]].inc = raw[k].inc
  <2>1. PICK f \in Firsts(IncOf) : raw[f].inc = raw[k].inc
    BY <1>4
  <2>2. \E n \in DOMAIN firsts : firsts[n] = f
    BY <1>1, InOrderReaches
  <2> QED
    BY <2>1, <2>2
<1>6. tasks'[c] = [op |-> "batch", todo |-> todo] /\ tasks' \in [Clients -> Task]
  <2>1. TypeInv'
    BY BeginBatchStep
  <2> QED
    BY <2>1 DEF BeginBatch, Continue, TypeInv
<1>7. tasks'[c] \in Batch
  BY <1>6, TaskFields
<1> HIDE DEF firsts
<1>8. DOMAIN todo = DOMAIN firsts
  OBVIOUS
<1>9. \A n \in DOMAIN firsts :
         /\ todo[n].inc = raw[firsts[n]].inc
         /\ todo[n].hard = raw[LastPending(raw[firsts[n]].inc)].hard
  OBVIOUS
<1> HIDE DEF todo
<1>10. tasks'[c].op = "batch" /\ tasks'[c].todo = todo
  BY <1>6
<1> QED
  BY <1>2, <1>3, <1>5, <1>7, <1>8, <1>9, <1>10

-----------------------------------------------------------------------------
(* Hard rejections *)

RejectionsIndexed == \A k \in DOMAIN history :
    history[k].state = "REJECTED_INPUT" => history[k].inc \in hardIndex

\* What a request has noted of a rejection is what the index says.
Heeds(t) ==
    /\ \A n \in DOMAIN Items(t) : Items(t)[n].hard => Items(t)[n].inc \in hardIndex
    /\ t.op = "asking" => (t.about.hard <=> t.about.inc \in hardIndex)

HardInv == /\ RejectionsIndexed /\ HardRejectionSticks
           /\ \A c \in Clients : Heeds(tasks[c])

(* A record that heeds the index may be filed.                             *)
LEMMA FilingHeeds ==
    ASSUME TypeInv, RejectionsIndexed, HardRejectionSticks, NEW r \in Record, Filing(r),
           hardIndex' = hardIndex,
           r.state = "REJECTED_INPUT" => r.inc \in hardIndex,
           r.over = "NONE" /\ r.inc \in hardIndex => r.state = "REJECTED_INPUT"
    PROVE  RejectionsIndexed' /\ HardRejectionSticks'
<1>1. history \in Seq(Record) /\ Len(history) \in Nat /\ DOMAIN history = 1..Len(history)
  BY LenProperties DEF TypeInv, HistoryOK
<1>2. history' = Append(history, r)
  BY DEF Filing, Index
<1>3. /\ DOMAIN history' = 1..(Len(history) + 1)
      /\ \A k \in 1..Len(history) : history'[k] = history[k]
      /\ history'[Len(history) + 1] = r
  <2>1. /\ Append(history, r) \in Seq(Record) /\ Len(Append(history, r)) = Len(history) + 1
        /\ \A k \in 1..Len(history) : Append(history, r)[k] = history[k]
        /\ Append(history, r)[Len(history) + 1] = r
    BY <1>1, AppendProperties
  <2> QED
    BY <1>2, <2>1, LenProperties
<1>4. \A k \in DOMAIN history' : k \in DOMAIN history \/ k = Len(history) + 1
  BY <1>1, <1>3
<1>5. RejectionsIndexed'
  BY <1>1, <1>3, <1>4 DEF RejectionsIndexed
<1>6. ASSUME NEW j \in DOMAIN history', NEW k \in DOMAIN history', j < k,
             history'[j].inc = history'[k].inc,
             history'[j].state = "REJECTED_INPUT", history'[k].over = "NONE"
      PROVE  history'[k].state = "REJECTED_INPUT"
  <2>1. j \in DOMAIN history
    BY <1>1, <1>3, <1>6
  <2>2. CASE k \in DOMAIN history
    BY <1>1, <1>3, <1>6, <2>1, <2>2 DEF HardRejectionSticks
  <2>3. CASE k = Len(history) + 1
    <3>1. history[j].inc \in hardIndex
      BY <1>1, <1>3, <1>6, <2>1 DEF RejectionsIndexed
    <3>2. history[j].inc = r.inc
      BY <1>1, <1>3, <1>6, <2>1, <2>3
    <3> QED
      BY <1>3, <1>6, <2>3, <3>1, <3>2
  <2> QED
    BY <1>4, <2>2, <2>3
<1> QED
  BY <1>5, <1>6 DEF HardRejectionSticks

(* A decision rejects exactly what it was told is rejected.                *)
LEMMA RejectsAsTold ==
    ASSUME NEW q, NEW a, NEW S
    PROVE  Decide(ContextFor(q, a), S).state = "REJECTED_INPUT" <=> q.hard
<1>1. ContextFor(q, a).hard = q.hard
  BY DEF ContextFor
<1> DEFINE c == ContextFor(q, a)
<1> HIDE DEF c
<1>2. Decide(c, S).state = "REJECTED_INPUT" <=> c.hard
  BY DEF Decide, Outcome, Automated, AutomatedState
<1> QED
  BY <1>1, <1>2 DEF c

(* Requests that neither decide a batch nor ask have noted nothing.        *)
LEMMA NothingNoted ==
    ASSUME NEW t, t.op \notin {"batch", "asking"}
    PROVE  Items(t) = <<>> /\ DOMAIN Items(t) = {} /\ Heeds(t) /\ Heeds(t)'
<1>1. Items(t) = <<>>
  BY DEF Items
<1>2. DOMAIN Items(t) = {}
  <2>1. \A s : s = <<>> => DOMAIN s = {}
    OBVIOUS
  <2> QED
    BY <1>1, <2>1
<1> QED
  BY <1>1, <1>2 DEF Heeds

(* What is noted stays so while the index does.                            *)
LEMMA HeedsLasts ==
    ASSUME NEW t, Heeds(t), hardIndex' = hardIndex
    PROVE  Heeds(t)'
BY DEF Heeds, Items

(* Steps that decide nothing leave history and index, and note nothing.    *)
LEMMA NotingNothing ==
    ASSUME TypeInv, NEW c \in Clients,
           \/ PauseOrResume(c) \/ Inject(c) \/ InjectBad(c) \/ Report(c) \/ RefreshFeeds(c)
           \/ EndBatch(c) \/ SwitchPolicy(c) \/ DryRunOne(c) \/ EndDryRuns(c)
           \/ EndSwitch(c) \/ AttachImage(c) \/ EnterWhatIf(c) \/ ExitWhatIf(c)
    PROVE  /\ history' = history /\ hardIndex' = hardIndex
           /\ tasks' = tasks \/ tasks'[c].op \notin {"batch", "asking"}
<1>0. tasks \in [Clients -> Task]
  BY DEF TypeInv
<1>1. ASSUME NEW t, Continue(c, t), t.op \notin {"batch", "asking"}
      PROVE  tasks'[c].op \notin {"batch", "asking"}
  BY <1>0, <1>1 DEF Continue
<1>2. CASE PauseOrResume(c) \/ RefreshFeeds(c) \/ AttachImage(c)
  BY <1>2 DEF PauseOrResume, RefreshFeeds, AttachImage, validVars, indexVars
<1>3. CASE Inject(c) \/ InjectBad(c) \/ Report(c)
  BY <1>1, <1>3 DEF Inject, InjectBad, Report, validVars, indexVars
<1>4. CASE EndBatch(c) \/ EndSwitch(c)
  BY <1>1, <1>4 DEF EndBatch, EndSwitch, validVars, indexVars, Idle
<1>5. CASE SwitchPolicy(c)
  <2>1. \E t : Continue(c, t) /\ t.op = "dryRuns"
    BY <1>5 DEF SwitchPolicy
  <2> QED
    BY <1>1, <1>5, <2>1 DEF SwitchPolicy, validVars, indexVars
<1>6. CASE DryRunOne(c)
  <2>1. tasks[c] \in DryRuns
    BY <1>6, TaskFields DEF DryRunOne, TypeInv
  <2>2. Rest(tasks[c]).op = "dryRuns" /\ Idle.op = "idle"
    BY <2>1 DEF Rest, DryRuns, Idle
  <2>3. Continue(c, Rest(tasks[c])) \/ Continue(c, Idle)
    BY <1>6 DEF DryRunOne
  <2> QED
    BY <1>1, <1>6, <2>2, <2>3 DEF DryRunOne, validVars
<1>7. CASE EndDryRuns(c)
  BY <1>1, <1>7 DEF EndDryRuns, validVars
<1>8. CASE EnterWhatIf(c)
  BY <1>1, <1>8 DEF EnterWhatIf, validVars
<1>9. CASE ExitWhatIf(c)
  <2>1. \E gone : tasks' = [Orphaned(gone) EXCEPT ![c] = Idle]
    BY <1>9 DEF ExitWhatIf
  <2>2. tasks'[c] = Idle
    BY <1>0, <2>1, OrphanedType
  <2> QED
    BY <1>9, <2>2 DEF ExitWhatIf, validVars, Idle
<1> QED
  BY <1>2, <1>3, <1>4, <1>5, <1>6, <1>7, <1>8, <1>9

(* The batch notes of each incident what the index will say.               *)
LEMMA BatchHeeds ==
    ASSUME TypeInv, StreamAgrees, NEW c \in Clients, BeginBatch(c)
    PROVE  hardIndex \subseteq hardIndex' /\ Heeds(tasks[c])'
<1>1. /\ tasks'[c].op = "batch"
      /\ \A n \in DOMAIN tasks'[c].todo :
            \E k \in Pending : /\ raw[k].inc = tasks'[c].todo[n].inc
                               /\ raw[k].hard = tasks'[c].todo[n].hard
  BY BatchTakesAll
<1>2. TakenUp
  BY DEF BeginBatch, TakenUp, simVars
<1>3. ASSUME NEW k \in Pending, raw[k].hard PROVE raw[k].inc \in hardIndex'
  <2>1. StreamAgrees' /\ raw' = raw /\ k \in DOMAIN raw
    BY <1>2, TakenUpAgrees, PendingType DEF TakenUp
  <2>2. raw[k].ev \in DOMAIN validated'
    BY <1>2, ValidatedByEvent DEF TakenUp
  <2>3. validated'[raw[k].ev].hard = raw[k].hard /\ validated'[raw[k].ev].inc = raw[k].inc
    BY <2>1, <2>2 DEF StreamAgrees, EventsAgree
  <2> QED
    BY <1>3, <2>1, <2>2, <2>3 DEF StreamAgrees, ViewsNeverDrift
<1>4. hardIndex \subseteq hardIndex'
  BY <1>2 DEF TakenUp, Validate
<1>5. Items(tasks'[c]) = tasks'[c].todo
  BY <1>1 DEF Items
<1>6. \A n \in DOMAIN Items(tasks'[c]) :
         Items(tasks'[c])[n].hard => Items(tasks'[c])[n].inc \in hardIndex'
  BY <1>1, <1>3, <1>5
<1> QED
  BY <1>1, <1>4, <1>6 DEF Heeds, Items

(* What is asked is what the index says, and the rest of the batch is as   *)
(* it was.                                                                 *)
LEMMA AskHeeds ==
    ASSUME TypeInv, NEW c \in Clients, tasks[c].op \in {"batch", "reoptimise"},
           tasks[c].todo # <<>>, Heeds(tasks[c]), hardIndex' = hardIndex,
           NEW i, NEW book, NEW kept, Ask(c, Question(i, book, kept))
    PROVE  Heeds(tasks[c])'
<1> DEFINE t == [op |-> "asking", back |-> tasks[c].op, rest |-> Tail(tasks[c].todo),
                 about |-> Question(i, book, kept)]
<1>1. tasks'[c] = t
  BY DEF TypeInv, Ask, Continue
<1>2. /\ t.op = "asking" /\ t.back = tasks[c].op /\ t.rest = Tail(tasks[c].todo)
      /\ t.about.inc = i /\ (t.about.hard <=> i \in hardIndex)
  BY DEF Question
<1> HIDE DEF t
<1>3. CASE tasks[c].op = "reoptimise"
  <2>1. Items(t) = <<>>
    BY <1>2, <1>3 DEF Items
  <2>2. DOMAIN Items(t) = {}
    <3>1. \A s : s = <<>> => DOMAIN s = {}
      OBVIOUS
    <3> QED
      BY <2>1, <3>1
  <2>3. DOMAIN Items(tasks'[c]) = {}
    BY <1>1, <2>2
  <2> QED
    BY <1>1, <1>2, <2>3 DEF Heeds, Items
<1>4. CASE tasks[c].op = "batch"
  <2>1. Items(t) = Tail(tasks[c].todo) /\ Items(tasks[c]) = tasks[c].todo
    BY <1>2, <1>4 DEF Items
  <2>2. tasks[c].todo \in Seq(Item)
    BY <1>4, TaskFields DEF TypeInv, Batch
  <2>3. \A n \in DOMAIN Items(t) : Items(t)[n].hard => Items(t)[n].inc \in hardIndex
    BY <2>1, <2>2, HeadAndTail DEF Heeds
  <2>4. \A n \in DOMAIN Items(tasks'[c]) :
           Items(tasks'[c])[n].hard => Items(tasks'[c])[n].inc \in hardIndex'
    BY <1>1, <2>3
  <2> QED
    BY <1>1, <1>2, <2>4 DEF Heeds, Items
<1> QED
  BY <1>3, <1>4

(* The step of a batch keeps what the index says.                          *)
LEMMA DecideOneHeeds ==
    ASSUME TypeInv, HardInv, NEW c \in Clients, DecideOne(c)
    PROVE  RejectionsIndexed' /\ HardRejectionSticks' /\ Heeds(tasks[c])'
<1> DEFINE item == Head(tasks[c].todo)
<1> DEFINE i    == item.inc
<1> DEFINE book == IF i \in DOMAIN incidents THEN incidents ELSE Put(incidents, i, Shell)
<1>1. /\ tasks[c] \in Batch /\ tasks[c].op = "batch" /\ tasks[c].todo # <<>>
      /\ tasks[c].todo \in Seq(Item) /\ item \in Item
  <2>1. tasks[c] \in Task /\ tasks[c].op = "batch" /\ tasks[c].todo # <<>>
    BY DEF DecideOne, TypeInv
  <2> QED
    BY <2>1, TaskFields, TaskRest DEF Batch
<1>2. Heeds(tasks[c]) /\ hardIndex' = hardIndex /\ Items(tasks[c]) = tasks[c].todo
  BY <1>1 DEF HardInv, DecideOne, validVars, Items
<1>3. \/ item.hard /\ Persist(i, Rejection, book, TRUE, {}) /\ Continue(c, Rest(tasks[c]))
      \/ /\ Ask(c, Question(i, book, TRUE)) \/ Continue(c, Idle)
         /\ history' = history
  BY DEF DecideOne, indexVars
<1>4. CASE item.hard /\ Persist(i, Rejection, book, TRUE, {}) /\ Continue(c, Rest(tasks[c]))
  <2>1. i \in hardIndex /\ i \in Incidents
    <3>1. \E m \in DOMAIN tasks[c].todo : item = tasks[c].todo[m]
      BY <1>1, HeadAndTail
    <3> QED
      BY <1>1, <1>2, <1>4, <3>1 DEF Heeds, Item
  <2>2. PICK r \in Record : /\ Filing(r) /\ r.inc = i
                            /\ r.over = "NONE" /\ r.state = Rejection.state
    <3> HIDE DEF i, book
    <3> QED
      BY <1>4, <2>1, PersistFiles, RejectionAnswers
  <2>3. r.state = "REJECTED_INPUT" /\ r.inc \in hardIndex
    BY <2>1, <2>2 DEF Rejection
  <2>4. RejectionsIndexed' /\ HardRejectionSticks'
    BY <1>2, <2>2, <2>3, FilingHeeds DEF HardInv
  <2>5. tasks'[c] = Rest(tasks[c])
    BY <1>4 DEF Continue, TypeInv
  <2>6. Rest(tasks[c]).op = "batch" /\ Rest(tasks[c]).todo = Tail(tasks[c].todo)
    BY <1>1 DEF Rest, Batch
  <2>7. \A n \in DOMAIN Tail(tasks[c].todo) :
           Tail(tasks[c].todo)[n].hard => Tail(tasks[c].todo)[n].inc \in hardIndex
    BY <1>1, <1>2, HeadAndTail DEF Heeds
  <2>8. Heeds(tasks[c])'
    BY <1>2, <2>5, <2>6, <2>7 DEF Heeds, Items
  <2> QED
    BY <2>4, <2>8
<1>5. CASE /\ Ask(c, Question(i, book, TRUE)) \/ Continue(c, Idle)
           /\ history' = history
  <2>1. RejectionsIndexed' /\ HardRejectionSticks'
    BY <1>2, <1>5 DEF HardInv, RejectionsIndexed, HardRejectionSticks
  <2>2. CASE Ask(c, Question(i, book, TRUE))
    <3>1. Heeds(tasks[c])'
      <4> HIDE DEF i, book
      <4> QED
        BY <1>1, <1>2, <2>2, AskHeeds
    <3> QED
      BY <2>1, <3>1
  <2>3. CASE Continue(c, Idle)
    <3>1. tasks'[c].op = "idle"
      BY <2>3 DEF Continue, TypeInv, Idle
    <3> QED
      BY <2>1, <3>1, NothingNoted
  <2> QED
    BY <1>5, <2>2, <2>3
<1> QED
  BY <1>3, <1>4, <1>5

(* So does the answer.                                                     *)
LEMMA AnsweredHeeds ==
    ASSUME TypeInv, HardInv, NEW c \in Clients, Answered(c)
    PROVE  RejectionsIndexed' /\ HardRejectionSticks' /\ Heeds(tasks[c])'
<1> DEFINE q == tasks[c].about
<1>1. tasks[c] \in AskBatch \cup AskAgain /\ q \in Asked /\ tasks[c].op = "asking"
  BY AnsweredParts DEF Answered
<1>2. PICK a \in Assessments, free \in SUBSET Units :
        Persist(q.inc, Decide(ContextFor(q, a), free), incidents, q.kept,
                IF q.stale THEN {} ELSE Elems(Decide(ContextFor(q, a), free).units))
  BY AnsweredParts
<1>3. Answers(Decide(ContextFor(q, a), free)) /\ q.inc \in Incidents
  BY <1>1, DecideAnswers DEF Asked
<1> DEFINE d == Decide(ContextFor(q, a), free)
<1>4. Heeds(tasks[c]) /\ hardIndex' = hardIndex /\ (q.hard <=> q.inc \in hardIndex)
  BY <1>1 DEF HardInv, Heeds, Answered, validVars
<1>5. d.state = "REJECTED_INPUT" <=> q.hard
  BY RejectsAsTold
<1> HIDE DEF d, q
<1>6. PICK r \in Record : Filing(r) /\ r.inc = q.inc /\ r.over = "NONE" /\ r.state = d.state
  BY <1>2, <1>3, PersistFiles DEF d
<1>7. RejectionsIndexed' /\ HardRejectionSticks'
  BY <1>4, <1>5, <1>6, FilingHeeds DEF HardInv
<1>8. tasks'[c] = [op |-> tasks[c].back, todo |-> tasks[c].rest]
  BY DEF Answered, Continue, TypeInv
<1>9. Heeds(tasks[c])'
  <2>1. CASE tasks[c].back = "batch"
    <3>1. Items(tasks[c]) = tasks[c].rest
      BY <1>1, <2>1 DEF Items
    <3>2. tasks'[c].op = "batch" /\ tasks'[c].todo = tasks[c].rest
      BY <1>8, <2>1
    <3> QED
      BY <1>4, <3>1, <3>2 DEF Heeds, Items
  <2>2. CASE tasks[c].back = "reoptimise"
    <3>1. tasks'[c].op = "reoptimise"
      BY <1>8, <2>2
    <3> QED
      BY <3>1, NothingNoted
  <2> QED
    BY <1>1, <2>1, <2>2 DEF AskBatch, AskAgain
<1> QED
  BY <1>7, <1>9

(* Every step of requests that do not overlap keeps what was noted true.   *)
LEMMA HardStep ==
    ASSUME OneClient, TypeInv, StreamAgrees, HardInv, [Next]_vars
    PROVE  HardInv'
<1> DEFINE Kept == RejectionsIndexed' /\ HardRejectionSticks'
<1>1. CASE UNCHANGED vars
  BY <1>1 DEF vars, validVars, indexVars, HardInv, RejectionsIndexed, HardRejectionSticks,
              Heeds, Items
<1>2. ASSUME NEW c \in Clients, Kept, Heeds(tasks[c])' PROVE HardInv'
  <2>1. \A b \in Clients : b = c
    BY DEF OneClient
  <2> QED
    BY <1>2, <2>1 DEF HardInv
<1>3. history' = history /\ hardIndex \subseteq hardIndex' => Kept
  BY DEF HardInv, RejectionsIndexed, HardRejectionSticks
<1>4. ASSUME NEW c \in Clients, Start(c) \/ Reset(c) PROVE HardInv'
  <2>1. Kept
    <3>1. history' = <<>>
      BY <1>4 DEF Start, Reset, NewSession
    <3>2. DOMAIN history' = {}
      BY <3>1
    <3> QED
      BY <3>2 DEF RejectionsIndexed, HardRejectionSticks
  <2>2. tasks'[c].op \notin {"batch", "asking"}
    <3>1. tasks[c] = Idle
      BY <1>4 DEF Start, Reset, Accepts
    <3>2. Stranded[c].op = "idle" /\ Stranded \in [Clients -> Task]
      BY <3>1, StrandedType DEF TypeInv, Idle
    <3>3. \/ tasks' = Stranded
          \/ \E t : tasks' = [Stranded EXCEPT ![c] = t] /\ t.op \in {"idle", "pending"}
      <4>1. CASE Start(c)
        <5>1. PICK rec : tasks' = [Stranded EXCEPT ![c] = IF rec = <<>> THEN Idle
                                                          ELSE [op |-> "pending"]]
          BY <4>1 DEF Start
        <5>2. Idle.op = "idle" /\ [op |-> "pending"].op = "pending"
          BY DEF Idle
        <5> QED
          BY <5>1, <5>2
      <4>2. CASE Reset(c)
        BY <4>2 DEF Reset
      <4> QED
        BY <1>4, <4>1, <4>2
    <3>4. \A t : [Stranded EXCEPT ![c] = t][c] = t
      BY <3>2
    <3>5. CASE tasks' = Stranded
      BY <3>2, <3>5
    <3>6. CASE \E t : tasks' = [Stranded EXCEPT ![c] = t] /\ t.op \in {"idle", "pending"}
      <4>1. PICK t : tasks' = [Stranded EXCEPT ![c] = t] /\ t.op \in {"idle", "pending"}
        BY <3>6
      <4>2. tasks'[c] = t
        BY <3>4, <4>1
      <4> QED
        BY <4>1, <4>2
    <3> QED
      BY <3>3, <3>5, <3>6
  <2>3. Heeds(tasks[c])'
    BY <2>2, NothingNoted
  <2> HIDE DEF Kept
  <2> QED
    BY <1>2, <2>1, <2>3
<1>5. ASSUME NEW c \in Clients,
             \/ PauseOrResume(c) \/ Inject(c) \/ InjectBad(c) \/ Report(c) \/ RefreshFeeds(c)
             \/ EndBatch(c) \/ SwitchPolicy(c) \/ DryRunOne(c) \/ EndDryRuns(c)
             \/ EndSwitch(c) \/ AttachImage(c) \/ EnterWhatIf(c) \/ ExitWhatIf(c)
      PROVE  HardInv'
  <2>1. /\ history' = history /\ hardIndex' = hardIndex
        /\ tasks' = tasks \/ tasks'[c].op \notin {"batch", "asking"}
    BY <1>5, NotingNothing
  <2>2. Heeds(tasks[c]) /\ (tasks' = tasks => Heeds(tasks[c])')
    BY <2>1 DEF HardInv, Heeds, Items
  <2>3. Heeds(tasks[c])'
    BY <2>1, <2>2, NothingNoted
  <2> QED
    BY <1>2, <1>3, <2>1, <2>3
<1>6. ASSUME NEW c \in Clients, BeginBatch(c) PROVE HardInv'
  <2>1. history' = history
    BY <1>6 DEF BeginBatch, indexVars
  <2> QED
    BY <1>2, <1>3, <1>6, <2>1, BatchHeeds
<1>7. ASSUME NEW c \in Clients, ReoptimiseOne(c) PROVE HardInv'
  <2>1. /\ history' = history /\ hardIndex' = hardIndex
        /\ tasks[c].op = "reoptimise" /\ tasks[c].todo # <<>> /\ tasks[c] \in Reoptimise
    BY <1>7, TaskFields DEF ReoptimiseOne, validVars, TypeInv
  <2>2. Heeds(tasks[c]) /\ tasks \in [Clients -> Task]
    BY DEF HardInv, TypeInv
  <2>3. CASE \E i, book, kept : Ask(c, Question(i, book, kept))
    <3>1. Heeds(tasks[c])'
      BY <2>1, <2>2, <2>3, AskHeeds
    <3> QED
      BY <1>2, <1>3, <2>1, <3>1
  <2>4. CASE Continue(c, Rest(tasks[c])) \/ Continue(c, Idle)
    <3>1. Rest(tasks[c]).op = "reoptimise" /\ Idle.op = "idle"
      BY <2>1 DEF Rest, Reoptimise, Idle
    <3>2. tasks'[c].op \notin {"batch", "asking"}
      BY <2>2, <2>4, <3>1 DEF Continue
    <3>3. Heeds(tasks[c])'
      BY <3>2, NothingNoted
    <3> QED
      BY <1>2, <1>3, <2>1, <3>3
  <2> QED
    BY <1>7, <2>3, <2>4 DEF ReoptimiseOne
<1>8. ASSUME NEW c \in Clients, Override(c) PROVE HardInv'
  <2>1. PICK r \in Record : Filing(r) /\ r.over # "NONE" /\ r.state = "OVERRIDE_ACTIVE"
    BY <1>8, OverrideFiles
  <2>2. hardIndex' = hardIndex /\ tasks' = tasks
    BY <1>8 DEF Override, validVars
  <2>3. Kept
    BY <2>1, <2>2, FilingHeeds DEF HardInv
  <2>4. Heeds(tasks[c])'
    BY <2>2 DEF HardInv, Heeds, Items
  <2> HIDE DEF Kept
  <2> QED
    BY <1>2, <2>3, <2>4
<1>9. ASSUME NEW c \in Clients, DecideOne(c) \/ Answered(c) PROVE HardInv'
  BY <1>2, <1>9, DecideOneHeeds, AnsweredHeeds
<1> QED
  BY <1>1, <1>4, <1>5, <1>6, <1>7, <1>8, <1>9 DEF Next

(* Invariant 1 over time: after a hard rejection no system decision of the *)
(* session automates the incident, for requests that do not overlap and    *)
(* events whose ids are their own.  Only then does what decide_for read    *)
(* before it asked still hold when the answer comes.                       *)
THEOREM RejectionsStick ==
    ASSUME OneClient, OwnIds
    PROVE  Spec => []HardRejectionSticks
<1>1. Init => AgreeInv /\ HardInv
  <2> SUFFICES ASSUME Init PROVE AgreeInv /\ HardInv
    OBVIOUS
  <2>1. /\ DOMAIN raw = {} /\ Len(raw) = 0 /\ DOMAIN validated = {} /\ numbered = 0
        /\ DOMAIN history = {}
    BY DEF Init
  <2>2. \A c \in Clients : tasks[c].op = "idle"
    BY DEF Init, Idle
  <2>3. AgreeInv
    BY <2>1, <2>2, ConstantTypes
       DEF Init, AgreeInv, StreamAgrees, DrawnIds, EventsAgree, FeedsAgree, SandboxInv,
           ViewsNeverDrift
  <2>4. HardInv
    BY <2>1, <2>2, NothingNoted DEF HardInv, RejectionsIndexed, HardRejectionSticks
  <2> QED
    BY <2>3, <2>4
<1>2. HardInv => HardRejectionSticks
  BY DEF HardInv
<1>3. TypeInv /\ AgreeInv /\ HardInv /\ [Next]_vars => AgreeInv' /\ HardInv'
  BY AgreeStep, HardStep DEF AgreeInv
<1> QED
  BY <1>1, <1>2, <1>3, EngineTyped, PTL DEF Spec

-----------------------------------------------------------------------------
(* Nothing is left undecided *)

\* Every report comes with a request that takes it up, and no session or sandbox
\* cuts in on a batch.
Attended == "feeds" \notin Requests /\ (OneClient \/ Undisturbed)

Decided(i) == \E k \in DOMAIN history : history[k].inc = i
Waiting(i) == \E k \in Pending : raw[k].inc = i

\* The incidents a request has taken up and not yet decided.
Due(t) == {Items(t)[n].inc : n \in DOMAIN Items(t)}
          \cup (IF t.op = "asking" /\ t.back = "batch" THEN {t.about.inc} ELSE {})

\* Nothing in a batch is about an incident without a report.
Askable(t) == \A n \in DOMAIN Items(t) : ~Items(t)[n].hard => Reports(Items(t)[n].inc) # {}

UpToDate ==
    /\ processed <= Len(raw)
    /\ processed < Len(raw) => \E c \in Clients : tasks[c].op = "pending"
    /\ \A i \in DOMAIN incidents :
          Decided(i) \/ Waiting(i) \/ \E c \in Clients : i \in Due(tasks[c])
    /\ \A c \in Clients : Askable(tasks[c])

\* A sandbox is entered when everything is decided.
InSandbox(t) == /\ OneClient /\ t.op = "whatIf" /\ processed = t.saved.rawLen
                /\ \A i \in t.saved.known : Decided(i)

CaughtUp == IF \E c \in Clients : tasks[c].op = "whatIf"
            THEN \A c \in Clients : InSandbox(tasks[c]) /\ tasks[c].saved.rawLen <= Len(raw)
            ELSE UpToDate

(* Whoever is decided has a latest decision.                               *)
LEMMA DecidedIsFound ==
    ASSUME TypeInv, NEW i, Decided(i)
    PROVE  LastRecord(i) # NoRecord
<1>1. history \in Seq(Record)
  BY DEF TypeInv, HistoryOK
<1>2. \E k \in DOMAIN history : history[k] = LastRecord(i)
  BY <1>1, LastRecordType DEF Decided
<1>3. \A k \in DOMAIN history : history[k] \in Record
  BY <1>1, ElementOfSeq, LenProperties
<1>4. LastRecord(i) \in Record
  BY <1>2, <1>3
<1> QED
  BY <1>4, ConstantTypes DEF Record, NoRecord

(* Decisions stay while the session does.                                  *)
LEMMA DecidedStays ==
    ASSUME TypeInv, NothingFiled \/ \E r \in Record : Filing(r)
    PROVE  \A i : Decided(i) => Decided(i)'
<1>1. CASE NothingFiled
  BY <1>1 DEF NothingFiled, Decided
<1>2. CASE \E r \in Record : Filing(r)
  <2>1. PICK r \in Record : Filing(r)
    BY <1>2
  <2>2. /\ history' = Append(history, r) /\ Len(history) \in Nat
        /\ history \in Seq(Record) /\ DOMAIN history = 1..Len(history)
    BY <2>1, LenProperties DEF Filing, Index, TypeInv, HistoryOK
  <2>3. /\ DOMAIN history' = 1..(Len(history) + 1)
        /\ \A k \in 1..Len(history) : history'[k] = history[k]
    BY <2>2, AppendProperties, LenProperties
  <2>4. \A k \in DOMAIN history : k \in DOMAIN history' /\ history'[k] = history[k]
    BY <2>2, <2>3
  <2> QED
    BY <2>4 DEF Decided
<1> QED
  BY <1>1, <1>2

(* The incident of a decision that is filed is decided.                    *)
LEMMA FilingDecides ==
    ASSUME TypeInv, NEW r \in Record, Filing(r)
    PROVE  \A i : i = r.inc => Decided(i)'
<1>1. history \in Seq(Record) /\ Len(history) \in Nat /\ history' = Append(history, r)
  BY LenProperties DEF Filing, Index, TypeInv, HistoryOK
<1>2. Len(history) + 1 \in DOMAIN history' /\ history'[Len(history) + 1] = r
  BY <1>1, AppendProperties, LenProperties
<1> QED
  BY <1>2 DEF Decided

(* Requests outside a batch have nothing due.                              *)
LEMMA NothingDue ==
    ASSUME NEW t, \/ t.op \notin {"batch", "asking"}
                  \/ t.op = "asking" /\ t.back = "reoptimise"
                  \/ t.op = "batch" /\ t.todo = <<>>
    PROVE  DOMAIN Items(t) = {} /\ Due(t) = {}
<1>1. Items(t) = <<>>
  BY DEF Items
<1>2. DOMAIN Items(t) = {}
  <2>1. \A s : s = <<>> => DOMAIN s = {}
    OBVIOUS
  <2> QED
    BY <1>1, <2>1
<1>3. ~(t.op = "asking" /\ t.back = "batch")
  OBVIOUS
<1> QED
  BY <1>2, <1>3 DEF Due

(* Reports that wait go on waiting until they are taken up.                *)
LEMMA WaitingStays ==
    ASSUME TypeInv, TypeInv', Grows, processed' = processed
    PROVE  /\ \A i : Waiting(i) => Waiting(i)'
           /\ Len(raw) <= Len(raw')
           /\ \A i : Reports(i) # {} => Reports(i)' # {}
<1>1. /\ Len(raw) \in Nat /\ DOMAIN raw = 1..Len(raw)
      /\ Len(raw') \in Nat /\ DOMAIN raw' = 1..Len(raw')
  BY LenProperties DEF TypeInv, StreamOK
<1>2. /\ processed \in Nat
      /\ \A k \in DOMAIN raw : k \in DOMAIN raw' /\ raw'[k] = raw[k]
  BY DEF Grows, TypeInv, ValidOK
<1>3. Len(raw) <= Len(raw')
  BY <1>1, <1>2
<1>4. \A k \in Pending : k \in DOMAIN raw /\ k \in (processed' + 1)..Len(raw')
  BY <1>1, <1>2, <1>3 DEF Pending
<1>5. \A i : Waiting(i) => Waiting(i)'
  BY <1>2, <1>4 DEF Waiting, Pending
<1>6. \A i : Reports(i) # {} => Reports(i)' # {}
  BY <1>2 DEF Reports
<1> QED
  BY <1>3, <1>5, <1>6

(* One request's step keeps everything caught, if what is new or no longer *)
(* due is decided or still to come.                                        *)
LEMMA StaysCaught ==
    ASSUME TypeInv, TypeInv', UpToDate, NEW c \in Clients, NEW t,
           tasks' = [tasks EXCEPT ![c] = t], Grows, processed' = processed,
           NothingFiled \/ \E r \in Record : Filing(r),
           Len(raw') # Len(raw) \/ tasks[c].op = "pending" => t.op = "pending",
           \A i \in DOMAIN incidents' :
              i \in DOMAIN incidents \/ Decided(i)' \/ Waiting(i)' \/ i \in Due(t),
           \A i \in Due(tasks[c]) : Decided(i)' \/ i \in Due(t),
           \A n \in DOMAIN Items(t) : ~Items(t)[n].hard => Reports(Items(t)[n].inc)' # {}
    PROVE  UpToDate'
<1>1. /\ tasks \in [Clients -> Task] /\ tasks'[c] = t
      /\ \A b \in Clients : b # c => tasks'[b] = tasks[b]
  BY DEF TypeInv
<1>2. Len(raw) \in Nat /\ Len(raw') \in Nat /\ processed \in Nat
  BY LenProperties DEF TypeInv, StreamOK, ValidOK
<1>3. /\ \A i : Waiting(i) => Waiting(i)'
      /\ Len(raw) <= Len(raw')
      /\ \A i : Reports(i) # {} => Reports(i)' # {}
  BY WaitingStays
<1>4. \A i : Decided(i) => Decided(i)'
  BY DecidedStays
<1>5. processed' <= Len(raw')
  BY <1>2, <1>3 DEF UpToDate
<1>6. processed' < Len(raw') => \E b \in Clients : tasks'[b].op = "pending"
  <2> SUFFICES ASSUME processed' < Len(raw') PROVE \E b \in Clients : tasks'[b].op = "pending"
    OBVIOUS
  <2>1. CASE Len(raw') = Len(raw)
    <3>1. PICK b \in Clients : tasks[b].op = "pending"
      BY <2>1 DEF UpToDate
    <3> QED
      BY <1>1, <3>1
  <2>2. CASE Len(raw') # Len(raw)
    BY <1>1, <2>2
  <2> QED
    BY <2>1, <2>2
<1>7. ASSUME NEW i \in DOMAIN incidents'
      PROVE  Decided(i)' \/ Waiting(i)' \/ \E b \in Clients : i \in Due(tasks'[b])
  <2>1. CASE i \in DOMAIN incidents
    <3>1. Decided(i) \/ Waiting(i) \/ \E b \in Clients : i \in Due(tasks[b])
      BY <2>1 DEF UpToDate
    <3>2. ASSUME NEW b \in Clients, i \in Due(tasks[b])
          PROVE  Decided(i)' \/ \E d \in Clients : i \in Due(tasks'[d])
      BY <1>1, <3>2
    <3> QED
      BY <1>3, <1>4, <3>1, <3>2
  <2>2. CASE i \notin DOMAIN incidents
    BY <1>1, <2>2
  <2> QED
    BY <2>1, <2>2
<1>8. ASSUME NEW b \in Clients, NEW n \in DOMAIN Items(tasks'[b]),
             ~Items(tasks'[b])[n].hard, NEW i, i = Items(tasks'[b])[n].inc
      PROVE  Reports(i)' # {}
  <2>1. CASE b = c
    BY <1>1, <1>8, <2>1
  <2>2. CASE b # c
    <3>1. Reports(i) # {}
      BY <1>1, <1>8, <2>2 DEF UpToDate, Askable
    <3> QED
      BY <1>3, <3>1
  <2> QED
    BY <2>1, <2>2
<1>9. (\A b \in Clients : Askable(tasks[b]))'
  BY <1>8 DEF Askable, Items
<1>10. (\A i \in DOMAIN incidents :
          Decided(i) \/ Waiting(i) \/ \E b \in Clients : i \in Due(tasks[b]))'
  BY <1>7 DEF Due, Items
<1> QED
  BY <1>5, <1>6, <1>9, <1>10 DEF UpToDate

(* Switching the position, a batch that is over.                           *)
LEMMA CaughtAside ==
    ASSUME TypeInv, TypeInv', UpToDate, NEW c \in Clients,
           \/ SwitchPolicy(c) \/ DryRunOne(c) \/ EndDryRuns(c) \/ ReoptimiseOne(c)
           \/ EndSwitch(c) \/ EndBatch(c)
    PROVE  UpToDate'
<1>0. tasks \in [Clients -> Task]
  BY DEF TypeInv
<1>1. /\ raw' = raw /\ incidents' = incidents /\ processed' = processed /\ NothingFiled
  <2>1. CASE SwitchPolicy(c)
    BY <2>1 DEF SwitchPolicy, simVars, validVars, indexVars, NothingFiled
  <2>2. CASE EndSwitch(c)
    BY <2>2 DEF EndSwitch, simVars, validVars, indexVars, NothingFiled
  <2>3. CASE EndBatch(c)
    BY <2>3 DEF EndBatch, simVars, validVars, indexVars, NothingFiled
  <2>4. CASE DryRunOne(c)
    BY <2>4 DEF DryRunOne, simVars, validVars, NothingFiled
  <2>5. CASE EndDryRuns(c)
    BY <2>5 DEF EndDryRuns, simVars, validVars, NothingFiled
  <2>6. CASE ReoptimiseOne(c)
    BY <2>6 DEF ReoptimiseOne, simVars, validVars, NothingFiled
  <2> QED
    BY <2>1, <2>2, <2>3, <2>4, <2>5, <2>6
<1>2. tasks[c].op # "pending" /\ Due(tasks[c]) = {}
  <2>1. \/ tasks[c].op \in {"idle", "dryRuns", "reoptimise"}
        \/ tasks[c].op = "batch" /\ tasks[c].todo = <<>>
    <3>1. CASE SwitchPolicy(c)
      BY <3>1 DEF SwitchPolicy, Accepts, Idle
    <3>2. CASE EndSwitch(c)
      BY <3>2 DEF EndSwitch
    <3>3. CASE EndBatch(c)
      BY <3>3 DEF EndBatch
    <3>4. CASE DryRunOne(c)
      BY <3>4 DEF DryRunOne
    <3>5. CASE EndDryRuns(c)
      BY <3>5 DEF EndDryRuns
    <3>6. CASE ReoptimiseOne(c)
      BY <3>6 DEF ReoptimiseOne
    <3> QED
      BY <3>1, <3>2, <3>3, <3>4, <3>5, <3>6
  <2> QED
    BY <2>1, NothingDue
<1>3. PICK t : /\ tasks' = [tasks EXCEPT ![c] = t]
               /\ \/ t.op \notin {"batch", "asking"}
                  \/ t.op = "asking" /\ t.back = "reoptimise"
  <2> DEFINE Aside(t) == \/ t.op \notin {"batch", "asking"}
                         \/ t.op = "asking" /\ t.back = "reoptimise"
  <2>1. CASE SwitchPolicy(c)
    <3>1. \E t : Continue(c, t) /\ t.op = "dryRuns"
      BY <2>1 DEF SwitchPolicy
    <3> QED
      BY <3>1 DEF Continue
  <2>2. CASE EndDryRuns(c) \/ EndSwitch(c) \/ EndBatch(c)
    BY <2>2 DEF EndDryRuns, EndSwitch, EndBatch, Continue, Idle
  <2>3. CASE DryRunOne(c)
    <3>1. tasks[c] \in DryRuns
      BY <2>3, TaskFields DEF DryRunOne, TypeInv
    <3>2. Aside(Rest(tasks[c])) /\ Aside(Idle)
      BY <3>1 DEF Rest, DryRuns, Idle
    <3>3. Continue(c, Rest(tasks[c])) \/ Continue(c, Idle)
      BY <2>3 DEF DryRunOne
    <3> QED
      BY <3>2, <3>3 DEF Continue
  <2>4. CASE ReoptimiseOne(c)
    <3>1. tasks[c] \in Reoptimise /\ tasks[c].op = "reoptimise"
      BY <2>4, TaskFields DEF ReoptimiseOne, TypeInv
    <3>2. Aside(Rest(tasks[c])) /\ Aside(Idle)
      BY <3>1 DEF Rest, Reoptimise, Idle
    <3>3. \A q : Ask(c, q) => \E t : tasks' = [tasks EXCEPT ![c] = t] /\ Aside(t)
      BY <3>1 DEF Ask, Continue
    <3>4. Continue(c, Rest(tasks[c])) \/ Continue(c, Idle) \/ \E q : Ask(c, q)
      BY <2>4 DEF ReoptimiseOne
    <3> QED
      BY <3>2, <3>3, <3>4 DEF Continue
  <2> QED
    BY <2>1, <2>2, <2>3, <2>4
<1>4. DOMAIN Items(t) = {} /\ Due(t) = {}
  BY <1>3, NothingDue
<1>5. Grows
  BY <1>1 DEF Grows
<1> QED
  BY <1>1, <1>2, <1>3, <1>4, <1>5, StaysCaught

(* What takes one step: an override, an attachment, a pause.               *)
LEMMA CaughtInOne ==
    ASSUME TypeInv, TypeInv', UpToDate, NEW c \in Clients,
           PauseOrResume(c) \/ Override(c) \/ AttachImage(c)
    PROVE  UpToDate'
<1>1. Grows /\ tasks' = tasks
  BY OneStepMoves
<1>2. raw' = raw /\ DOMAIN incidents' = DOMAIN incidents /\ processed' = processed
  <2>1. CASE PauseOrResume(c)
    BY <2>1 DEF PauseOrResume, validVars
  <2>2. CASE Override(c)
    <3>1. PICK k \in DOMAIN history, o \in OverrideKinds, p \in Priorities,
               consent \in Consents : ApplyOverride(history[k], o, p, consent)
      BY <2>2 DEF Override
    <3>2. DOMAIN incidents' = DOMAIN incidents
      BY <3>1 DEF ApplyOverride
    <3> QED
      BY <2>2, <3>2 DEF Override, validVars
  <2>3. CASE AttachImage(c)
    BY <2>3 DEF AttachImage, validVars
  <2> QED
    BY <2>1, <2>2, <2>3
<1>3. NothingFiled \/ \E r \in Record : Filing(r)
  <2>1. CASE PauseOrResume(c) \/ AttachImage(c)
    BY <2>1 DEF PauseOrResume, AttachImage, indexVars, NothingFiled
  <2>2. CASE Override(c)
    BY <2>2, OverrideFiles
  <2> QED
    BY <2>1, <2>2
<1>4. PICK t : t = tasks[c]
  OBVIOUS
<1>5. tasks' = [tasks EXCEPT ![c] = t]
  BY <1>1, <1>4 DEF TypeInv
<1>6. \A n \in DOMAIN Items(t) : ~Items(t)[n].hard => Reports(Items(t)[n].inc)' # {}
  <2>1. \A i : Reports(i) # {} => Reports(i)' # {}
    BY <1>1, <1>2, WaitingStays
  <2>2. \A n \in DOMAIN Items(t) : ~Items(t)[n].hard => Reports(Items(t)[n].inc) # {}
    BY <1>4 DEF UpToDate, Askable
  <2> QED
    BY <2>1, <2>2
<1>7. \A i \in Due(tasks[c]) : i \in Due(t)
  BY <1>4
<1> QED
  BY <1>1, <1>2, <1>3, <1>4, <1>5, <1>6, <1>7, StaysCaught

(* Reports that a request brings: it takes them up next.                   *)
LEMMA CaughtArrival ==
    ASSUME TypeInv, TypeInv', UpToDate, NEW c \in Clients,
           Inject(c) \/ InjectBad(c) \/ Report(c)
    PROVE  UpToDate'
<1>1. Grows
  BY ArrivalMoves
<1>2. /\ tasks' = [tasks EXCEPT ![c] = [op |-> "pending"]] /\ tasks[c] = Idle
      /\ processed' = processed /\ NothingFiled
  BY DEF Inject, InjectBad, Report, Continue, Accepts, validVars, indexVars, NothingFiled
<1>3. PICK t : t = [op |-> "pending"] /\ tasks' = [tasks EXCEPT ![c] = t]
  BY <1>2
<1>4. DOMAIN Items(t) = {} /\ t.op = "pending"
  BY <1>3, NothingDue
<1>5. Due(tasks[c]) = {}
  BY <1>2, NothingDue DEF Idle
<1>6. \A i \in DOMAIN incidents' : i \in DOMAIN incidents \/ Waiting(i)'
  <2>1. \/ DOMAIN incidents' = DOMAIN incidents
        \/ \E i \in Incidents, kind \in Kind, n \in Nat \ {0} :
              /\ AppendReports(i, kind, FALSE, n)
              /\ DOMAIN incidents' \subseteq DOMAIN incidents \cup {i}
    <3>1. CASE Inject(c)
      <4>1. PICK kind \in Kinds, n \in Bursts :
              /\ AppendReports(NextId, kind, FALSE, n)
              /\ incidents' = Put(incidents, NextId, NewIncident(kind))
        BY <3>1 DEF Inject, InjectNew
      <4>2. kind \in Kind /\ n \in Nat \ {0} /\ NextId \in Incidents
        BY <3>1, <4>1, ConstantTypes, EngineAssumption, NextIdType DEF Inject, InjectNew
      <4>3. DOMAIN incidents' \subseteq DOMAIN incidents \cup {NextId}
        BY <4>1 DEF Put
      <4> QED
        BY <4>1, <4>2, <4>3
    <3>2. CASE InjectBad(c)
      BY <3>2 DEF InjectBad
    <3>3. CASE Report(c)
      <4>1. PICK i \in Incidents, hard \in BOOLEAN :
              /\ Reports(i) # {}
              /\ AppendReports(i, raw[Least(Reports(i))].kind, hard, 1)
              /\ incidents' = IF hard THEN incidents
                              ELSE Register(i, raw[Least(Reports(i))].kind)
        BY <3>3 DEF Report
      <4>2. raw[Least(Reports(i))].kind \in Kind /\ 1 \in Nat \ {0}
        BY <4>1, ReportsType
      <4>3. DOMAIN incidents' \subseteq DOMAIN incidents \cup {i}
        BY <4>1 DEF Register, Put
      <4>4. CASE hard
        BY <4>1, <4>4
      <4>5. CASE ~hard
        <5>1. AppendReports(i, raw[Least(Reports(i))].kind, FALSE, 1)
          BY <4>1, <4>5
        <5> QED
          BY <4>2, <4>3, <5>1
      <4> QED
        BY <4>4, <4>5
    <3> QED
      BY <3>1, <3>2, <3>3
  <2>2. ASSUME NEW i \in Incidents, NEW kind \in Kind, NEW n \in Nat \ {0},
               AppendReports(i, kind, FALSE, n)
        PROVE  Waiting(i)'
    <3>1. /\ Len(raw') = Len(raw) + n
          /\ \A k \in (Len(raw) + 1)..Len(raw') :
                raw'[k] = RawEvent(numbered + (k - Len(raw)), i, kind, FALSE)
      BY <2>2, ReportsAppended
    <3>2. /\ Len(raw) \in Nat /\ processed \in Nat /\ processed <= Len(raw)
          /\ Len(raw') \in Nat
      BY LenProperties DEF TypeInv, StreamOK, ValidOK, UpToDate
    <3>3. Len(raw') \in (Len(raw) + 1)..Len(raw') /\ Len(raw') \in (processed' + 1)..Len(raw')
      BY <1>2, <3>1, <3>2
    <3>4. raw'[Len(raw')].inc = i
      <4>1. \A ev : RawEvent(ev, i, kind, FALSE).inc = i
        BY DEF RawEvent
      <4> QED
        BY <3>1, <3>3, <4>1
    <3> QED
      BY <3>3, <3>4 DEF Waiting, Pending
  <2> QED
    BY <2>1, <2>2
<1> QED
  BY <1>1, <1>2, <1>3, <1>4, <1>5, <1>6, StaysCaught

(* A batch takes up every report that waits.                               *)
LEMMA CaughtBatch ==
    ASSUME TypeInv, TypeInv', UpToDate, NEW c \in Clients, BeginBatch(c)
    PROVE  UpToDate'
<1>1. /\ raw' = raw /\ incidents' = incidents /\ history' = history
      /\ processed' = Len(raw) /\ Len(raw) \in Nat /\ tasks[c].op = "pending"
      /\ Pending \subseteq DOMAIN raw
  BY PendingType, LenProperties DEF BeginBatch, simVars, indexVars, TypeInv, StreamOK
<1>2. /\ tasks \in [Clients -> Task]
      /\ \A b \in Clients : b # c => tasks'[b] = tasks[b]
  BY DEF BeginBatch, Continue, TypeInv
<1>3. /\ tasks'[c].op = "batch"
      /\ \A n \in DOMAIN tasks'[c].todo :
            \E k \in Pending : /\ raw[k].inc = tasks'[c].todo[n].inc
                               /\ raw[k].hard = tasks'[c].todo[n].hard
      /\ \A k \in Pending :
            \E n \in DOMAIN tasks'[c].todo : tasks'[c].todo[n].inc = raw[k].inc
  BY BatchTakesAll
<1>4. Items(tasks'[c]) = tasks'[c].todo
  BY <1>3 DEF Items
<1>5. processed' <= Len(raw') /\ ~(processed' < Len(raw'))
  BY <1>1
<1>6. ASSUME NEW i \in DOMAIN incidents'
      PROVE  Decided(i)' \/ \E b \in Clients : i \in Due(tasks'[b])
  <2>1. Decided(i) \/ Waiting(i) \/ \E b \in Clients : i \in Due(tasks[b])
    BY <1>1, <1>6 DEF UpToDate
  <2>2. CASE Decided(i)
    BY <1>1, <2>2 DEF Decided
  <2>3. CASE Waiting(i)
    <3>1. \E n \in DOMAIN Items(tasks'[c]) : Items(tasks'[c])[n].inc = i
      BY <1>3, <1>4, <2>3 DEF Waiting
    <3> QED
      BY <3>1 DEF Due
  <2>4. ASSUME NEW b \in Clients, i \in Due(tasks[b]) PROVE i \in Due(tasks'[b])
    <3>1. Due(tasks[c]) = {}
      BY <1>1, NothingDue
    <3> QED
      BY <1>2, <2>4, <3>1
  <2> QED
    BY <2>1, <2>2, <2>3, <2>4
<1>7. ASSUME NEW b \in Clients, NEW n \in DOMAIN Items(tasks'[b]),
             ~Items(tasks'[b])[n].hard, NEW i, i = Items(tasks'[b])[n].inc
      PROVE  Reports(i)' # {}
  <2>1. Reports(i)' = Reports(i)
    BY <1>1 DEF Reports
  <2>2. CASE b = c
    <3>1. \E k \in Pending : raw[k].inc = i /\ raw[k].hard = Items(tasks'[c])[n].hard
      BY <1>3, <1>4, <1>7, <2>2
    <3> QED
      BY <1>1, <1>7, <2>1, <2>2, <3>1 DEF Reports
  <2>3. CASE b # c
    BY <1>2, <1>7, <2>1, <2>3 DEF UpToDate, Askable
  <2> QED
    BY <2>2, <2>3
<1>8. (\A b \in Clients : Askable(tasks[b]))'
  BY <1>7 DEF Askable, Items
<1>9. (\A i \in DOMAIN incidents :
          Decided(i) \/ Waiting(i) \/ \E b \in Clients : i \in Due(tasks[b]))'
  BY <1>6 DEF Due, Items
<1> QED
  BY <1>5, <1>8, <1>9 DEF UpToDate

(* The next of a batch is rejected, or asked about and still due.          *)
LEMMA CaughtDecide ==
    ASSUME TypeInv, TypeInv', UpToDate, NEW c \in Clients, DecideOne(c)
    PROVE  UpToDate'
<1> DEFINE item == Head(tasks[c].todo)
<1> DEFINE i    == item.inc
<1> DEFINE book == IF i \in DOMAIN incidents THEN incidents ELSE Put(incidents, i, Shell)
<1>1. /\ tasks[c] \in Batch /\ tasks[c].op = "batch" /\ tasks[c].todo # <<>>
      /\ tasks[c].todo \in Seq(Item) /\ item \in Item /\ i \in Incidents
  <2>1. tasks[c] \in Task /\ tasks[c].op = "batch" /\ tasks[c].todo # <<>>
    BY DEF DecideOne, TypeInv
  <2>2. item \in Item /\ tasks[c] \in Batch
    BY <2>1, TaskFields, TaskRest
  <2> QED
    BY <2>1, <2>2 DEF Batch, Item
<1>2. /\ Items(tasks[c]) = tasks[c].todo /\ processed' = processed /\ raw' = raw
      /\ DOMAIN book = DOMAIN incidents \cup {i}
  BY <1>1 DEF DecideOne, validVars, Items, Put
<1>3. /\ \A n \in DOMAIN Tail(tasks[c].todo) :
            \E m \in DOMAIN tasks[c].todo : Tail(tasks[c].todo)[n] = tasks[c].todo[m]
      /\ \E m \in DOMAIN tasks[c].todo : item = tasks[c].todo[m]
      /\ \A m \in DOMAIN tasks[c].todo :
            \/ tasks[c].todo[m] = item
            \/ \E n \in DOMAIN Tail(tasks[c].todo) :
                  tasks[c].todo[m] = Tail(tasks[c].todo)[n]
  BY <1>1, HeadAndTail
<1>4. Due(tasks[c]) = {tasks[c].todo[m].inc : m \in DOMAIN tasks[c].todo}
  BY <1>1, <1>2 DEF Due
<1>5. /\ \A l : Reports(l)' = Reports(l)
      /\ \A m \in DOMAIN tasks[c].todo :
            ~tasks[c].todo[m].hard => Reports(tasks[c].todo[m].inc) # {}
  BY <1>2 DEF UpToDate, Askable, Reports
<1>6. \/ item.hard /\ Persist(i, Rejection, book, TRUE, {}) /\ Continue(c, Rest(tasks[c]))
      \/ /\ ~item.hard /\ incidents' = book
         /\ Ask(c, Question(i, book, TRUE))
         /\ history' = history /\ NothingFiled
  <2>1. ~item.hard => Reports(i) # {}
    BY <1>3, <1>5
  <2> QED
    BY <2>1 DEF DecideOne, indexVars, NothingFiled
<1> HIDE DEF book, item, i
<1>7. CASE item.hard /\ Persist(i, Rejection, book, TRUE, {}) /\ Continue(c, Rest(tasks[c]))
  <2>1. PICK r \in Record : Filing(r) /\ r.inc = i
    BY <1>1, <1>7, PersistFiles, RejectionAnswers
  <2>2. \A l : l = i => Decided(l)'
    BY <2>1, FilingDecides
  <2>3. DOMAIN incidents' = DOMAIN incidents \cup {i}
    BY <1>2, <1>7 DEF Persist
  <2>4. PICK t : t = Rest(tasks[c])
    OBVIOUS
  <2>5. tasks' = [tasks EXCEPT ![c] = t] /\ t.op = "batch" /\ t.todo = Tail(tasks[c].todo)
    BY <1>1, <1>7, <2>4 DEF Continue, Rest, Batch
  <2>6. Items(t) = Tail(tasks[c].todo)
    BY <2>5 DEF Items
  <2>7. \A l \in Due(tasks[c]) : l = i \/ l \in Due(t)
    <3>1. \A n \in DOMAIN Tail(tasks[c].todo) : Tail(tasks[c].todo)[n].inc \in Due(t)
      BY <2>6 DEF Due
    <3>2. \A m \in DOMAIN tasks[c].todo :
             tasks[c].todo[m].inc = i \/ tasks[c].todo[m].inc \in Due(t)
      BY <1>3, <3>1 DEF i
    <3> QED
      BY <1>4, <3>2
  <2>8. \A n \in DOMAIN Items(t) : ~Items(t)[n].hard => Reports(Items(t)[n].inc)' # {}
    BY <1>3, <1>5, <2>6
  <2>9. Grows
    BY <1>2, <2>3 DEF Grows
  <2> QED
    BY <1>1, <1>2, <2>1, <2>2, <2>3, <2>5, <2>7, <2>8, <2>9, StaysCaught
<1>8. CASE /\ ~item.hard /\ incidents' = book
           /\ Ask(c, Question(i, book, TRUE))
           /\ history' = history /\ NothingFiled
  <2>1. PICK t : t = [op |-> "asking", back |-> "batch", rest |-> Tail(tasks[c].todo),
                      about |-> Question(i, book, TRUE)]
    OBVIOUS
  <2>2. /\ tasks' = [tasks EXCEPT ![c] = t] /\ t.op = "asking" /\ t.back = "batch"
        /\ t.rest = Tail(tasks[c].todo) /\ t.about.inc = i
    BY <1>1, <1>8, <2>1 DEF Ask, Continue, Question
  <2>3. Items(t) = Tail(tasks[c].todo) /\ i \in Due(t)
    BY <2>2 DEF Items, Due
  <2>4. \A l \in Due(tasks[c]) : l \in Due(t)
    <3>1. \A n \in DOMAIN Tail(tasks[c].todo) : Tail(tasks[c].todo)[n].inc \in Due(t)
      BY <2>3 DEF Due
    <3>2. \A m \in DOMAIN tasks[c].todo : tasks[c].todo[m].inc \in Due(t)
      BY <1>3, <2>3, <3>1 DEF i
    <3> QED
      BY <1>4, <3>2
  <2>5. \A n \in DOMAIN Items(t) : ~Items(t)[n].hard => Reports(Items(t)[n].inc)' # {}
    BY <1>3, <1>5, <2>3
  <2>6. DOMAIN incidents' = DOMAIN incidents \cup {i}
    BY <1>2, <1>8
  <2>7. Grows
    BY <1>2, <2>6 DEF Grows
  <2> QED
    BY <1>1, <1>2, <1>8, <2>2, <2>3, <2>4, <2>5, <2>6, <2>7, StaysCaught
<1> QED
  BY <1>6, <1>7, <1>8

(* The answer decides what was asked; the rest of the batch stays due.     *)
LEMMA CaughtAnswer ==
    ASSUME TypeInv, TypeInv', UpToDate, NEW c \in Clients, Answered(c)
    PROVE  UpToDate'
<1> DEFINE q == tasks[c].about
<1>1. tasks[c] \in AskBatch \cup AskAgain /\ q \in Asked /\ tasks[c].op = "asking"
  BY AnsweredParts DEF Answered
<1>2. PICK a \in Assessments, free \in SUBSET Units :
        Persist(q.inc, Decide(ContextFor(q, a), free), incidents, q.kept,
                IF q.stale THEN {} ELSE Elems(Decide(ContextFor(q, a), free).units))
  BY AnsweredParts
<1>3. Answers(Decide(ContextFor(q, a), free)) /\ q.inc \in Incidents
  BY <1>1, DecideAnswers DEF Asked
<1> DEFINE d == Decide(ContextFor(q, a), free)
<1> HIDE DEF d, q
<1>4. PICK r \in Record : Filing(r) /\ r.inc = q.inc
  BY <1>2, <1>3, PersistFiles DEF d
<1>5. \A l : l = q.inc => Decided(l)'
  BY <1>4, FilingDecides
<1>6. /\ DOMAIN incidents' = DOMAIN incidents /\ raw' = raw /\ processed' = processed
      /\ Grows
  <2>1. DOMAIN incidents' = DOMAIN incidents
    BY <1>2 DEF Persist
  <2> QED
    BY <2>1 DEF Answered, Grows, validVars
<1>7. PICK t : t = [op |-> tasks[c].back, todo |-> tasks[c].rest]
  OBVIOUS
<1>8. tasks' = [tasks EXCEPT ![c] = t] /\ t.op = tasks[c].back /\ t.todo = tasks[c].rest
  BY <1>7 DEF Answered, Continue
<1>9. /\ \A l \in Due(tasks[c]) : l = q.inc \/ l \in Due(t)
      /\ \A n \in DOMAIN Items(t) : ~Items(t)[n].hard => Reports(Items(t)[n].inc)' # {}
  <2>1. CASE tasks[c].back = "batch"
    <3>1. Items(tasks[c]) = tasks[c].rest /\ Items(t) = tasks[c].rest
      BY <1>1, <1>8, <2>1 DEF Items
    <3>2. \A l \in Due(tasks[c]) : l = q.inc \/ l \in Due(t)
      BY <3>1 DEF Due, q
    <3>3. \A l : Reports(l)' = Reports(l)
      BY <1>6 DEF Reports
    <3>4. \A n \in DOMAIN Items(t) : ~Items(t)[n].hard => Reports(Items(t)[n].inc) # {}
      BY <3>1 DEF UpToDate, Askable
    <3> QED
      BY <3>2, <3>3, <3>4
  <2>2. CASE tasks[c].back = "reoptimise"
    <3>1. Due(tasks[c]) = {} /\ DOMAIN Items(t) = {}
      BY <1>1, <1>8, <2>2, NothingDue
    <3> QED
      BY <3>1
  <2> QED
    BY <1>1, <2>1, <2>2 DEF AskBatch, AskAgain
<1> QED
  BY <1>1, <1>4, <1>5, <1>6, <1>8, <1>9, StaysCaught

(* A new session has everything before it.                                 *)
LEMMA CaughtSession ==
    ASSUME OneClient, TypeInv, TypeInv', NEW c \in Clients, Start(c) \/ Reset(c)
    PROVE  UpToDate' /\ tasks'[c].op # "whatIf"
<1>1. /\ tasks[c] = Idle /\ Stranded[c].op = "idle" /\ Stranded \in [Clients -> Task]
      /\ \A b \in Clients : b = c
  <2>1. tasks[c] = Idle
    BY DEF Start, Reset, Accepts
  <2> QED
    BY <2>1, StrandedType DEF TypeInv, Idle, OneClient
<1>2. PICK rec \in Recordings \cup {<<>>} :
        /\ NewSession(rec)
        /\ tasks'[c].op = IF rec = <<>> THEN "idle" ELSE "pending"
  <2>1. CASE Start(c)
    <3>1. PICK rec \in Recordings \cup {<<>>} :
            /\ NewSession(rec)
            /\ tasks' = [Stranded EXCEPT
                           ![c] = IF rec = <<>> THEN Idle ELSE [op |-> "pending"]]
      BY <2>1 DEF Start
    <3>2. tasks'[c] = IF rec = <<>> THEN Idle ELSE [op |-> "pending"]
      BY <1>1, <3>1
    <3>3. Idle.op = "idle" /\ [op |-> "pending"].op = "pending"
      BY DEF Idle
    <3> QED
      BY <3>1, <3>2, <3>3
  <2>2. CASE Reset(c)
    <3>1. NewSession(<<>>) /\ tasks' = Stranded
      BY <2>2 DEF Reset
    <3>2. tasks'[c].op = "idle"
      BY <1>1, <3>1
    <3> QED
      BY <3>1, <3>2
  <2> QED
    BY <2>1, <2>2
<1>3. /\ raw' = Replayed(rec) /\ incidents' = RecordedIncidents(rec) /\ processed' = 0
      /\ rec \in Seq([ev : Nat \ {0}, inc : SimIncidents, kind : Kinds])
  BY <1>2, EngineAssumption, EmptySeq DEF NewSession
<1>4. /\ Len(rec) \in Nat /\ DOMAIN rec = 1..Len(rec)
      /\ Len(raw') \in Nat /\ DOMAIN raw' = 1..Len(raw')
  BY <1>3, LenProperties DEF TypeInv, StreamOK
<1>5. DOMAIN raw' = DOMAIN rec /\ \A k \in DOMAIN rec : raw'[k].inc = rec[k].inc
  BY <1>3 DEF Replayed, RawEvent
<1>6. processed' <= Len(raw') /\ (processed' < Len(raw') => tasks'[c].op = "pending")
  <2>1. rec = <<>> => DOMAIN rec = {}
    OBVIOUS
  <2>2. processed' < Len(raw') => 1 \in DOMAIN raw'
    BY <1>3, <1>4
  <2> QED
    BY <1>2, <1>3, <1>4, <1>5, <2>1, <2>2
<1>7. DOMAIN Items(tasks'[c]) = {}
  BY <1>2, NothingDue
<1>8. (\A i \in DOMAIN incidents : Waiting(i))'
  <2> SUFFICES ASSUME NEW i \in DOMAIN incidents'
               PROVE  \E k \in (processed' + 1)..Len(raw') : raw'[k].inc = i
    BY DEF Waiting, Pending
  <2>1. PICK k \in DOMAIN rec : rec[k].inc = i
    BY <1>3 DEF RecordedIncidents
  <2>2. k \in (processed' + 1)..Len(raw')
    BY <1>3, <1>4, <1>5, <2>1
  <2> QED
    BY <1>5, <2>1, <2>2
<1>9. (\A b \in Clients : Askable(tasks[b]))'
  BY <1>1, <1>7 DEF Askable, Items
<1>10. UpToDate'
  BY <1>6, <1>8, <1>9 DEF UpToDate
<1> QED
  BY <1>2, <1>10

(* A sandbox is entered when nothing waits and everything is decided ...   *)
LEMMA CaughtEntering ==
    ASSUME OneClient, TypeInv, TypeInv', UpToDate, NEW c \in Clients, EnterWhatIf(c)
    PROVE  tasks'[c].op = "whatIf" /\ InSandbox(tasks[c])'
           /\ tasks'[c].saved.rawLen <= Len(raw')
<1>1. /\ tasks[c] = Idle /\ processed' = processed /\ history' = history
      /\ \A b \in Clients : b = c
      /\ Len(raw) \in Nat /\ processed \in Nat /\ Len(raw) <= Len(raw')
  BY SandboxExtends DEF EnterWhatIf, Accepts, validVars, OneClient, TypeInv, ValidOK
<1>2. tasks'[c] = [op |-> "whatIf", saved |-> Snapshot]
  BY DEF EnterWhatIf, Continue, TypeInv
<1>3. /\ tasks'[c].op = "whatIf" /\ tasks'[c].saved.rawLen = Len(raw)
      /\ tasks'[c].saved.known = DOMAIN incidents
  BY <1>2 DEF Snapshot
<1>4. tasks[c].op = "idle" /\ Due(tasks[c]) = {}
  BY <1>1, NothingDue DEF Idle
<1>5. processed = Len(raw)
  BY <1>1, <1>4 DEF UpToDate
<1>6. Pending = {}
  BY <1>1, <1>5 DEF Pending
<1>7. \A i \in DOMAIN incidents : Decided(i)
  BY <1>1, <1>4, <1>6 DEF UpToDate, Waiting
<1>8. (\A i \in tasks[c].saved.known : Decided(i))'
  BY <1>1, <1>3, <1>7 DEF Decided
<1> QED
  BY <1>1, <1>3, <1>5, <1>8 DEF InSandbox

(* ... and that is how things are when it is left.                         *)
LEMMA CaughtLeaving ==
    ASSUME TypeInv, TypeInv', NEW c \in Clients, ExitWhatIf(c), InSandbox(tasks[c]),
           tasks[c].saved.rawLen <= Len(raw)
    PROVE  UpToDate' /\ tasks'[c].op # "whatIf"
<1> DEFINE saved == tasks[c].saved
<1>1. /\ saved.rawLen \in Nat /\ raw \in Seq(Event) /\ Len(raw) \in Nat
      /\ DOMAIN raw = 1..Len(raw)
  <2>1. tasks[c] \in WhatIf
    BY TaskFields DEF ExitWhatIf, TypeInv
  <2> QED
    BY <2>1, LenProperties DEF WhatIf, Saved, TypeInv, StreamOK
<1>2. /\ raw' = (IF Len(raw) > saved.rawLen THEN SubSeq(raw, 1, saved.rawLen) ELSE raw)
      /\ incidents' = Without(incidents, DOMAIN incidents \ saved.known)
      /\ processed' = processed /\ history' = history
  BY DEF ExitWhatIf, RolledBack, validVars
<1>3. Len(raw') = saved.rawLen
  <2>1. CASE Len(raw) > saved.rawLen
    <3>1. Len(SubSeq(raw, 1, saved.rawLen)) = saved.rawLen
      BY <1>1, <2>1
    <3> QED
      BY <1>2, <2>1, <3>1
  <2>2. CASE ~(Len(raw) > saved.rawLen)
    BY <1>1, <1>2, <2>2
  <2> QED
    BY <2>1, <2>2
<1>4. tasks'[c] = Idle
  <2>1. \E gone : tasks' = [Orphaned(gone) EXCEPT ![c] = Idle]
    BY DEF ExitWhatIf
  <2> QED
    BY <2>1, OrphanedType DEF TypeInv
<1>5. tasks'[c].op = "idle" /\ DOMAIN Items(tasks'[c]) = {}
  BY <1>4, NothingDue DEF Idle
<1>6. (\A b \in Clients : Askable(tasks[b]))'
  BY <1>5 DEF Askable, Items, InSandbox, OneClient
<1>7. (\A i \in DOMAIN incidents : Decided(i))'
  BY <1>2 DEF Without, InSandbox, Decided
<1>8. processed' <= Len(raw') /\ ~(processed' < Len(raw'))
  BY <1>1, <1>2, <1>3 DEF InSandbox
<1> QED
  BY <1>5, <1>6, <1>7, <1>8 DEF UpToDate

(* Every step keeps what is undecided within somebody's reach.             *)
LEMMA CaughtStep ==
    ASSUME Attended, TypeInv, TypeInv', CaughtUp, [Next]_vars
    PROVE  CaughtUp'
<1> DEFINE Boxed == \E c \in Clients : tasks[c].op = "whatIf"
<1>1. CASE UNCHANGED vars
  BY <1>1 DEF vars, simVars, validVars, indexVars, CaughtUp, UpToDate, InSandbox, Decided,
              Waiting, Pending, Due, Items, Askable, Reports
<1>2. ASSUME Boxed, NEW c \in Clients, ExitWhatIf(c) PROVE CaughtUp'
  <2>1. InSandbox(tasks[c]) /\ tasks[c].saved.rawLen <= Len(raw)
    BY <1>2 DEF CaughtUp
  <2>2. UpToDate' /\ tasks'[c].op # "whatIf"
    BY <1>2, <2>1, CaughtLeaving
  <2>3. \A b \in Clients : tasks'[b].op # "whatIf"
    BY <2>1, <2>2 DEF InSandbox, OneClient
  <2> QED
    BY <2>2, <2>3 DEF CaughtUp
<1>3. ASSUME Boxed, Next PROVE CaughtUp'
  <2>1. PICK b \in Clients : tasks[b].op = "whatIf"
    BY <1>3
  <2>2. \A c \in Clients : c = b
    BY <1>3, <2>1 DEF CaughtUp, InSandbox, OneClient
  <2>3. PICK c \in Clients :
          \/ Start(c) \/ Reset(c) \/ PauseOrResume(c)
          \/ Inject(c) \/ InjectBad(c) \/ Report(c) \/ RefreshFeeds(c)
          \/ BeginBatch(c) \/ DecideOne(c) \/ Answered(c) \/ EndBatch(c)
          \/ SwitchPolicy(c) \/ DryRunOne(c) \/ EndDryRuns(c)
          \/ ReoptimiseOne(c) \/ EndSwitch(c) \/ Override(c) \/ AttachImage(c)
          \/ EnterWhatIf(c) \/ ExitWhatIf(c)
    BY <1>3 DEF Next
  <2>4. tasks[c].op = "whatIf" /\ ~EnterWhatIf(c)
    BY <2>1, <2>2 DEF EnterWhatIf, Accepts, Idle
  <2>5. ExitWhatIf(c)
    BY <2>3, <2>4, SandboxBusy
  <2> QED
    BY <1>2, <1>3, <2>5
<1>4. ASSUME ~Boxed, NEW c \in Clients, EnterWhatIf(c) PROVE CaughtUp'
  <2>1. OneClient
    BY <1>4 DEF Attended, Undisturbed, EnterWhatIf, Accepts
  <2>2. /\ tasks'[c].op = "whatIf" /\ InSandbox(tasks[c])'
        /\ tasks'[c].saved.rawLen <= Len(raw')
    BY <1>4, <2>1, CaughtEntering DEF CaughtUp
  <2>3. (\A b \in Clients : InSandbox(tasks[b]) /\ tasks[b].saved.rawLen <= Len(raw))'
    BY <2>1, <2>2 DEF OneClient, InSandbox, Decided
  <2> QED
    BY <2>2, <2>3 DEF CaughtUp
<1>5. ASSUME ~Boxed, \A c \in Clients : ~EnterWhatIf(c), UpToDate' PROVE CaughtUp'
  <2>1. \A c \in Clients : tasks'[c].op # "whatIf"
    BY <1>5, WhatIfEntered
  <2> QED
    BY <1>5, <2>1 DEF CaughtUp
<1>6. ASSUME ~Boxed, NEW c \in Clients, Start(c) \/ Reset(c) PROVE UpToDate'
  <2>1. OneClient
    BY <1>6 DEF Attended, Undisturbed, Start, Reset, Accepts
  <2> QED
    BY <1>6, <2>1, CaughtSession
<1>7. ASSUME ~Boxed, Next, \A c \in Clients : ~EnterWhatIf(c) PROVE UpToDate'
  <2>1. UpToDate /\ \A c \in Clients : tasks[c].op # "whatIf"
    BY <1>7 DEF CaughtUp
  <2>2. \A c \in Clients : ~RefreshFeeds(c) /\ ~ExitWhatIf(c)
    BY <2>1 DEF RefreshFeeds, ExitWhatIf, Accepts, Attended
  <2>3. PICK c \in Clients :
          \/ Start(c) \/ Reset(c)
          \/ PauseOrResume(c) \/ Override(c) \/ AttachImage(c)
          \/ Inject(c) \/ InjectBad(c) \/ Report(c)
          \/ BeginBatch(c) \/ DecideOne(c) \/ Answered(c)
          \/ SwitchPolicy(c) \/ DryRunOne(c) \/ EndDryRuns(c) \/ ReoptimiseOne(c)
          \/ EndSwitch(c) \/ EndBatch(c)
    BY <1>7, <2>2 DEF Next
  <2> QED
    BY <1>6, <1>7, <2>1, <2>3, CaughtInOne, CaughtArrival, CaughtBatch, CaughtDecide,
       CaughtAnswer, CaughtAside
<1> QED
  BY <1>1, <1>3, <1>4, <1>5, <1>7

(* When no request is running, every report has been taken up and every    *)
(* incident has a decision -- for requests that bring their own reports    *)
(* and, unless they come one at a time, leave the session alone.           *)
THEOREM NothingStaysUndecided ==
    ASSUME Attended
    PROVE  Spec => []NothingLeftUndecided
<1>1. Init => CaughtUp
  <2> SUFFICES ASSUME Init PROVE CaughtUp
    OBVIOUS
  <2>1. /\ processed = 0 /\ Len(raw) = 0 /\ DOMAIN incidents = {}
        /\ \A c \in Clients : tasks[c].op = "idle"
    BY DEF Init, Idle
  <2>2. \A c \in Clients : DOMAIN Items(tasks[c]) = {}
    BY <2>1, NothingDue
  <2> QED
    BY <2>1, <2>2 DEF CaughtUp, UpToDate, Askable
<1>2. TypeInv /\ CaughtUp => NothingLeftUndecided
  <2> SUFFICES ASSUME TypeInv, CaughtUp, AllIdle
               PROVE  /\ processed = Len(raw)
                      /\ \A i \in DOMAIN incidents : LastRecord(i) # NoRecord
    BY DEF NothingLeftUndecided
  <2>1. \A c \in Clients : tasks[c].op = "idle"
    BY DEF AllIdle, Idle
  <2>2. UpToDate /\ \A c \in Clients : Due(tasks[c]) = {}
    BY <2>1, NothingDue DEF CaughtUp
  <2>3. processed = Len(raw) /\ Len(raw) \in Nat
    BY <2>1, <2>2, LenProperties DEF UpToDate, TypeInv, StreamOK, ValidOK
  <2>4. Pending = {}
    BY <2>3 DEF Pending
  <2> QED
    BY <2>2, <2>3, <2>4, DecidedIsFound DEF UpToDate, Waiting
<1>3. TypeInv /\ CaughtUp /\ [Next]_vars => CaughtUp'
  BY CaughtStep, TypeInvStep
<1> QED
  BY <1>1, <1>2, <1>3, EngineTyped, PTL DEF Spec
=============================================================================
