----------------------------- MODULE FeedsProofs -----------------------------
(***************************************************************************)
(* A dead upstream service costs few calls, and what was polled is kept,   *)
(* for any feeds, any number of threads and any threshold.                 *)
(*                                                                         *)
(* DeadFeedCostsLittle is not inductive: what lets a thread in is that the *)
(* feed is not held, and then its failures leave room for every thread     *)
(* (Roomy). A hold that ends adds that room.                               *)
(*                                                                         *)
(* PolledIsKept says what a feed's counter means once every thread has     *)
(* appended what it brought. KeptInv says it of every moment: what was     *)
(* counted is in the log or in the hands of a thread, which holds the      *)
(* items of one poll, of one feed, until it has appended the last.         *)
(***************************************************************************)
EXTENDS Feeds, FiniteSetTheorems, SequenceTheorems, TLAPS

Places == {"idle", "gate", "upstream", "append", "sleep"}
CycleT(c) == /\ c = [at |-> c.at, feed |-> c.feed, items |-> c.items]
             /\ c.at \in Places /\ c.feed \in DOMAIN Pollers
CycleOK == /\ cycle = [t \in Threads |-> cycle[t]]
           /\ \A t \in Threads : CycleT(cycle[t])

HealthT(h) == \E b, n, k : h = [ok |-> b, failures |-> n, total |-> k]
RecordOK ==
    /\ health = [f \in Names |-> health[f]]
    /\ held \in [Names -> BOOLEAN] /\ ended \in [Names -> 0..MaxHolds]
    /\ \A f \in Names : HealthT(health[f]) /\ health[f].failures \in 0..MaxFailures

LEMMA HealthIs ==
    ASSUME NEW b, NEW n, NEW k PROVE HealthT([ok |-> b, failures |-> n, total |-> k])
BY Zenon DEF HealthT

N == Cardinality(Threads)
\* Failures that pass by the time e holds have ended and none is on.
Passed(e) == Threshold - 1 + N * e

Cheap(f) == health[f].failures + Cardinality(Asking(f)) <= Passed(ended[f]) + N
Roomy(f) == ~held[f] => health[f].failures <= Passed(ended[f])
CostInv == CycleOK /\ RecordOK /\ \A f \in Names : Cheap(f) /\ Roomy(f)

LEMMA Bounds == /\ Threshold \in Nat \ {0} /\ MaxFailures \in Nat /\ MaxHolds \in Nat
                /\ N \in Nat /\ IsFiniteSet(Threads) /\ MaxFailures <= Passed(MaxHolds)
                /\ DOMAIN Pollers = 1..Len(Pollers) /\ Len(Pollers) \in Nat /\ 1 \in DOMAIN Pollers
<1>1. IsFiniteSet(Threads) /\ N \in Nat
  BY FeedsAssumption, FS_CardinalityType DEF FeedsAssumption, N
<1> QED BY <1>1, FeedsAssumption DEF FeedsAssumption, Passed, N

LEMMA PassedGrows ==
    ASSUME NEW e \in Nat
    PROVE  Passed(e) \in Int /\ Passed(e + 1) = Passed(e) + N /\ Passed(e) >= 0
<1>1. N * e \in Int /\ N * (e + 1) = N * e + N /\ N * e >= 0
  BY Bounds, Z3
<1> QED BY <1>1, Bounds DEF Passed

LEMMA AskingFinite ==
    \A f : IsFiniteSet(Asking(f)) /\ Cardinality(Asking(f)) \in 0..N
<1> TAKE f
<1>1. Asking(f) \subseteq Threads
  BY DEF Asking
<1>2. IsFiniteSet(Asking(f)) /\ Cardinality(Asking(f)) <= Cardinality(Threads)
  BY <1>1, Bounds, FS_Subset
<1>3. Cardinality(Asking(f)) \in Nat
  BY <1>2, FS_CardinalityType
<1> QED BY <1>2, <1>3, Bounds DEF N

LEMMA FeedIsNamed == ASSUME CycleOK, NEW t \in Threads PROVE Feed(t) \in Names
BY DEF CycleOK, CycleT, Feed, Names

\* A thread's cycle becomes c.
LEMMA CycleBecomes ==
    ASSUME CycleOK, NEW t \in Threads, NEW c, CycleT(c), cycle' = [cycle EXCEPT ![t] = c]
    PROVE  CycleOK' /\ cycle'[t] = c /\ \A u \in Threads \ {t} : cycle'[u] = cycle[u]
BY DEF CycleOK

\* Where a thread goes that is through with a feed.
LEMMA MovedIsCycle ==
    ASSUME CycleOK, NEW t \in Threads
    PROVE  /\ CycleT(Moved(t)) /\ Moved(t).at \in Places \ {"upstream"}
           /\ CycleT(Idle) /\ Idle.at = "idle"
           /\ CycleT(Begun) /\ Begun.at = "gate"
           /\ CycleT(Done(t)) /\ Done(t).at \in {"idle", "sleep"}
<1>1. CycleT(Idle) /\ Idle.at = "idle" /\ CycleT(Begun) /\ Begun.at = "gate"
  BY Bounds DEF CycleT, Idle, Begun, Places
<1>2. CycleT(Done(t)) /\ Done(t).at \in {"idle", "sleep"}
  BY Bounds DEF CycleT, Idle, Done, Places
<1>3. CASE cycle[t].feed < Len(Pollers)
  <2> DEFINE k == cycle[t].feed + 1
  <2>1. k \in DOMAIN Pollers
    BY <1>3, Bounds DEF CycleOK, CycleT
  <2>2. Moved(t) = [at |-> "gate", feed |-> k, items |-> <<>>]
    BY <1>3 DEF Moved
  <2> HIDE DEF k
  <2> QED BY <1>1, <1>2, <2>1, <2>2 DEF CycleT, Places
<1>4. CASE ~(cycle[t].feed < Len(Pollers))
  BY <1>1, <1>2, <1>4 DEF Moved, Places
<1> QED BY <1>3, <1>4

\* A thread that neither was nor comes to an upstream call leaves the rest.
LEMMA NobodyAsks ==
    ASSUME CostInv, NEW t \in Threads, NEW c, CycleT(c), c.at # "upstream",
           cycle' = [cycle EXCEPT ![t] = c], ~At(t, "upstream"), UNCHANGED record
    PROVE  CostInv'
<1>1. CycleOK' /\ cycle'[t] = c /\ \A u \in Threads \ {t} : cycle'[u] = cycle[u]
  BY CycleBecomes DEF CostInv
<1>2. ASSUME NEW f PROVE Asking(f)' = Asking(f)
  BY <1>1 DEF Asking, At, Feed
<1>3. RecordOK'
  BY DEF CostInv, RecordOK, record
<1>4. \A f \in Names : Cheap(f)' /\ Roomy(f)'
  BY <1>2 DEF CostInv, Cheap, Roomy, record
<1> QED BY <1>1, <1>3, <1>4 DEF CostInv

\* A thread that comes back from its call.
LEMMA AnswerComes ==
    ASSUME CycleOK, NEW t \in Threads, NEW g, g = Feed(t), NEW c, CycleT(c), c.at # "upstream",
           cycle' = [cycle EXCEPT ![t] = c], At(t, "upstream")
    PROVE  /\ CycleOK' /\ Cardinality(Asking(g)') = Cardinality(Asking(g)) - 1
           /\ \A f \in Names \ {g} : Asking(f)' = Asking(f)
<1>1. CycleOK' /\ cycle'[t] = c /\ \A u \in Threads \ {t} : cycle'[u] = cycle[u]
  BY CycleBecomes
<1>2. Asking(g)' = Asking(g) \ {t} /\ t \in Asking(g)
  BY <1>1 DEF Asking, At, Feed
<1>3. \A f \in Names \ {g} : Asking(f)' = Asking(f)
  BY <1>1 DEF Asking, At, Feed
<1>4. Cardinality(Asking(g) \ {t}) = Cardinality(Asking(g)) - 1
  BY <1>2, AskingFinite, FS_RemoveElement
<1> QED BY <1>1, <1>2, <1>3, <1>4

\* The health of a feed becomes h, its hold b, its count of holds e.
LEMMA RecordBecomes ==
    ASSUME RecordOK, NEW g \in Names, NEW h, HealthT(h), h.failures \in 0..MaxFailures,
           NEW b \in BOOLEAN, NEW e \in 0..MaxHolds,
           health' = [health EXCEPT ![g] = h], held' = [held EXCEPT ![g] = b],
           ended' = [ended EXCEPT ![g] = e]
    PROVE  /\ RecordOK' /\ health'[g] = h /\ held'[g] = b /\ ended'[g] = e
           /\ \A f \in Names \ {g} : /\ health'[f] = health[f] /\ held'[f] = held[f]
                                     /\ ended'[f] = ended[f]
<1>1. health'[g] = h /\ \A f \in Names \ {g} : health'[f] = health[f]
  BY DEF RecordOK
<1>2. held'[g] = b /\ ended'[g] = e /\ held' \in [Names -> BOOLEAN] /\ ended' \in [Names -> 0..MaxHolds]
  BY DEF RecordOK
<1>3. \A f \in Names \ {g} : held'[f] = held[f] /\ ended'[f] = ended[f]
  BY DEF RecordOK
<1>4. health' = [f \in Names |-> health'[f]]
  BY DEF RecordOK
<1>5. \A f \in Names : HealthT(health'[f]) /\ health'[f].failures \in 0..MaxFailures
  BY <1>1 DEF RecordOK
<1> QED BY <1>1, <1>2, <1>3, <1>4, <1>5 DEF RecordOK, HealthT

LEMMA GateKeeps == ASSUME CostInv, NEW t \in Threads, Gate(t) PROVE CostInv'
<1>0. CycleOK /\ RecordOK /\ At(t, "gate") /\ UNCHANGED record
  BY DEF CostInv, Gate
<1>1. CASE held[Feed(t)]
  <2>1. cycle' = [cycle EXCEPT ![t] = Moved(t)]
    BY <1>1 DEF Gate
  <2> QED BY <2>1, <1>0, MovedIsCycle, NobodyAsks DEF At
<1>2. CASE ~held[Feed(t)]
  <2>0. PICK g \in Names : g = Feed(t)
    BY <1>0, FeedIsNamed
  <2> DEFINE c == [cycle[t] EXCEPT !.at = "upstream"]
  <2>1. cycle' = [cycle EXCEPT ![t] = c]
    BY <1>2 DEF Gate
  <2>2. CycleT(c) /\ c.at = "upstream" /\ c.feed = cycle[t].feed
    BY <1>0 DEF CycleOK, CycleT, Places
  <2> HIDE DEF c
  <2>3. CycleOK' /\ cycle'[t] = c /\ \A u \in Threads \ {t} : cycle'[u] = cycle[u]
    BY <2>1, <2>2, <1>0, CycleBecomes
  <2>4. \A f \in Names \ {g} : Asking(f)' = Asking(f)
    BY <2>0, <2>2, <2>3, <1>0 DEF Asking, At, Feed
  <2>5. Cardinality(Asking(g)') \in 0..N
    <3>1. Asking(g)' \subseteq Threads
      BY DEF Asking
    <3>2. IsFiniteSet(Asking(g)') /\ Cardinality(Asking(g)') <= Cardinality(Threads)
      BY <3>1, Bounds, FS_Subset
    <3> QED BY <3>2, FS_CardinalityType, Bounds DEF N
  <2>6. Cheap(g)'
    <3>1. health[g].failures <= Passed(ended[g])
      BY <1>2, <2>0 DEF CostInv, Roomy
    <3>2. health[g].failures \in Nat /\ Passed(ended[g]) \in Int
      BY <1>0, Bounds, PassedGrows DEF RecordOK
    <3> QED BY <3>1, <3>2, <2>5, <1>0, Bounds DEF Cheap, record
  <2>7. ASSUME NEW f \in Names PROVE Cheap(f)' /\ Roomy(f)'
    BY <2>4, <2>6, <1>0 DEF CostInv, Cheap, Roomy, record
  <2>8. RecordOK'
    BY <1>0 DEF RecordOK, record
  <2> QED BY <2>3, <2>7, <2>8 DEF CostInv
<1> QED BY <1>1, <1>2

LEMMA FailureKeeps == ASSUME CostInv, NEW t \in Threads, PollFails(t) PROVE CostInv'
<1>0. PICK g \in Names : g = Feed(t)
  BY FeedIsNamed DEF CostInv
<1> DEFINE n == health[g].failures + 1
<1>1. /\ CycleOK /\ RecordOK /\ At(t, "upstream")
      /\ health' = [health EXCEPT ![g] = [ok |-> FALSE, failures |-> Capped(n, MaxFailures),
                                          total |-> @.total]]
      /\ held' = [held EXCEPT ![g] = @ \/ n >= Threshold] /\ UNCHANGED ended
      /\ cycle' = [cycle EXCEPT ![t] = Moved(t)]
  BY <1>0 DEF CostInv, PollFails, RecordFailure
<1>2. health[g].failures \in 0..MaxFailures /\ n \in Nat /\ n = health[g].failures + 1
  BY <1>1, Bounds DEF RecordOK
<1> HIDE DEF n
<1>3. Capped(n, MaxFailures) \in 0..MaxFailures /\ Capped(n, MaxFailures) <= n
  BY <1>2, Bounds DEF Capped
<1>a. PICK m \in 0..MaxFailures : m = Capped(n, MaxFailures)
  BY <1>3
<1>b. PICK b \in BOOLEAN : b = (held[g] \/ n >= Threshold)
  OBVIOUS
<1>h. PICK h : h = [ok |-> FALSE, failures |-> m, total |-> health[g].total]
  OBVIOUS
<1>e. PICK e \in 0..MaxHolds : e = ended[g]
  BY <1>1 DEF RecordOK
<1>4. /\ RecordOK' /\ health'[g] = h /\ held'[g] = b /\ ended'[g] = e
      /\ \A f \in Names \ {g} : health'[f] = health[f] /\ held'[f] = held[f] /\ ended'[f] = ended[f]
  <2>1. HealthT(h) /\ h.failures \in 0..MaxFailures
    BY <1>h DEF HealthT
  <2>3. health' = [health EXCEPT ![g] = h]
    BY <1>1, <1>a, <1>h
  <2>4. held' = [held EXCEPT ![g] = b]
    BY <1>1, <1>b DEF RecordOK
  <2>5. ended' = [ended EXCEPT ![g] = e]
    BY <1>1, <1>e DEF RecordOK
  <2>6. RecordOK
    BY <1>1
  <2> QED BY <2>1, <2>3, <2>4, <2>5, <2>6, RecordBecomes
<1>6. /\ CycleOK' /\ Cardinality(Asking(g)') = Cardinality(Asking(g)) - 1
      /\ \A f \in Names \ {g} : Asking(f)' = Asking(f)
  BY <1>0, <1>1, MovedIsCycle, AnswerComes
<1>7. Cheap(g)' /\ Roomy(g)'
  <2>1. /\ Passed(e) \in Int /\ Cardinality(Asking(g)) \in Int /\ Passed(e) >= Threshold - 1
    <3>1. e \in Nat
      BY Bounds
    <3>2. N * e \in Int /\ N * e >= 0
      BY <3>1, Bounds, Z3
    <3> QED BY <3>1, <3>2, Bounds, AskingFinite DEF Passed
  <2>2. health[g].failures + Cardinality(Asking(g)) <= Passed(e) + N
    BY <1>e DEF CostInv, Cheap
  <2>3. health'[g].failures = m /\ m <= health[g].failures + 1
    BY <1>4, <1>h, <1>a, <1>2, <1>3
  <2>4. Cheap(g)'
    <3>1. m + Cardinality(Asking(g)') <= Passed(e) + N
      <4>1. health[g].failures \in Int /\ m \in Int /\ N \in Int
        BY <1>2, Bounds
      <4>2. Cardinality(Asking(g)') = Cardinality(Asking(g)) - 1
        BY <1>6
      <4> QED BY <4>1, <4>2, <2>1, <2>2, <2>3
    <3> QED BY <3>1, <2>3, <1>4 DEF Cheap, Passed, N
  <2>5. ASSUME ~held'[g] PROVE m <= Passed(e)
    <3>1. ~(n >= Threshold)
      BY <2>5, <1>4, <1>b
    <3> QED BY <3>1, <2>1, <1>2, <1>3, <1>a, Bounds
  <2> QED BY <2>3, <2>4, <2>5, <1>4 DEF Roomy, Passed, N
<1>8. ASSUME NEW f \in Names \ {g} PROVE Cheap(f)' /\ Roomy(f)'
  BY <1>4, <1>6 DEF CostInv, Cheap, Roomy
<1> QED BY <1>4, <1>6, <1>7, <1>8 DEF CostInv

\* A success forgets the failures and the holds that ended.
LEMMA SuccessKeeps == ASSUME CostInv, NEW t \in Threads, PollSucceeds(t) PROVE CostInv'
<1>0. PICK g \in Names : g = Feed(t)
  BY FeedIsNamed DEF CostInv
<1>p. PICK doc \in Answers :
          LET polled == Poll(Feed(t), doc)  n == Len(polled.items) IN
          /\ RecordSuccess(Feed(t), n)
          /\ cycle' = [cycle EXCEPT ![t] = IF n = 0 THEN Moved(t)
                         ELSE [at |-> "append", feed |-> @.feed, items |-> polled.items]]
  BY DEF PollSucceeds
<1>s. PICK s, n : /\ RecordSuccess(g, n)
                  /\ cycle' = [cycle EXCEPT ![t] = IF n = 0 THEN Moved(t)
                         ELSE [at |-> "append", feed |-> @.feed, items |-> s]]
  BY <1>0, <1>p, Zenon
<1>q. PICK q : q = health[g].total + n
  OBVIOUS
<1>c. PICK c : c = IF n = 0 THEN Moved(t) ELSE [at |-> "append", feed |-> cycle[t].feed, items |-> s]
  OBVIOUS
<1>1. /\ health' = [health EXCEPT ![g] = [ok |-> TRUE, failures |-> 0, total |-> q]]
      /\ held' = [held EXCEPT ![g] = FALSE] /\ ended' = [ended EXCEPT ![g] = 0]
      /\ cycle' = [cycle EXCEPT ![t] = c]
  BY <1>s, <1>q, <1>c DEF RecordSuccess
<1>2. CycleOK /\ RecordOK /\ At(t, "upstream")
  BY DEF CostInv, PollSucceeds
<1>3. CycleT(c) /\ c.at # "upstream"
  <2>1. CASE c = Moved(t)
    BY <2>1, <1>2, MovedIsCycle
  <2>2. CASE c = [at |-> "append", feed |-> cycle[t].feed, items |-> s]
    BY <2>2, <1>2 DEF CycleOK, CycleT, Places
  <2> QED BY <1>c, <2>1, <2>2
<1>4. /\ CycleOK' /\ Cardinality(Asking(g)') = Cardinality(Asking(g)) - 1
      /\ \A f \in Names \ {g} : Asking(f)' = Asking(f)
  BY <1>0, <1>1, <1>2, <1>3, AnswerComes
<1>5. PICK h : h = [ok |-> TRUE, failures |-> 0, total |-> q]
  OBVIOUS
<1>6. /\ RecordOK' /\ health'[g] = h /\ held'[g] = FALSE /\ ended'[g] = 0
      /\ \A f \in Names \ {g} : health'[f] = health[f] /\ held'[f] = held[f] /\ ended'[f] = ended[f]
  <2>0. h.failures = 0 /\ HealthT(h)
    BY <1>5, HealthIs
  <2>1. HealthT(h) /\ h.failures \in 0..MaxFailures /\ 0 \in 0..MaxHolds
    BY <2>0, Bounds
  <2>2. health' = [health EXCEPT ![g] = h]
    BY <1>1, <1>5
  <2> QED BY <1>1, <1>2, <2>1, <2>2, RecordBecomes
<1>7. Cheap(g)' /\ Roomy(g)'
  <2>1. health'[g].failures = 0
    BY <1>5, <1>6
  <2>2. Passed(0) >= 0 /\ Passed(0) \in Int
    BY PassedGrows
  <2>3. Cardinality(Asking(g)) \in 0..N /\ N \in Nat
    BY AskingFinite, Bounds
  <2>4. 0 + Cardinality(Asking(g)') <= Passed(0) + N /\ 0 <= Passed(0)
    BY <1>4, <2>2, <2>3
  <2> QED BY <2>1, <2>4, <1>6 DEF Cheap, Roomy, Passed, N
<1>8. ASSUME NEW f \in Names \ {g} PROVE Cheap(f)' /\ Roomy(f)'
  BY <1>4, <1>6 DEF CostInv, Cheap, Roomy
<1> QED BY <1>4, <1>6, <1>7, <1>8 DEF CostInv

LEMMA HoldKeeps == ASSUME CostInv, NEW g \in Names, HoldEnds(g) PROVE CostInv'
<1>1. RecordOK /\ CycleOK /\ UNCHANGED <<health, cycle>>
  BY DEF CostInv, HoldEnds
<1>2. PICK e \in 0..MaxHolds : e = ended[g]
  BY <1>1 DEF RecordOK
<1>3. PICK d \in 0..MaxHolds : d = Capped(e + 1, MaxHolds)
  BY <1>2, Bounds DEF Capped
<1>4. held' = [held EXCEPT ![g] = FALSE] /\ ended' = [ended EXCEPT ![g] = d]
  BY <1>2, <1>3 DEF HoldEnds
<1>5. health' = [health EXCEPT ![g] = health[g]]
  BY <1>1 DEF RecordOK
<1>6. /\ RecordOK' /\ health'[g] = health[g] /\ held'[g] = FALSE /\ ended'[g] = d
      /\ \A f \in Names \ {g} : health'[f] = health[f] /\ held'[f] = held[f] /\ ended'[f] = ended[f]
  <2>1. HealthT(health[g]) /\ health[g].failures \in 0..MaxFailures
    BY <1>1 DEF RecordOK
  <2> QED BY <1>1, <1>4, <1>5, <2>1, RecordBecomes
<1>7. \A f : Asking(f)' = Asking(f)
  BY <1>1 DEF Asking, At, Feed
<1>8. Cheap(g)' /\ Roomy(g)'
  <2>1. /\ health[g].failures + Cardinality(Asking(g)) <= Passed(e) + N
        /\ health[g].failures \in 0..MaxFailures /\ Cardinality(Asking(g)) \in 0..N
    BY <1>1, <1>2, AskingFinite DEF CostInv, Cheap, RecordOK
  <2>2. /\ Passed(e) \in Int /\ Passed(e + 1) = Passed(e) + N /\ N \in Nat
        /\ Passed(MaxHolds) \in Int /\ MaxFailures \in Nat /\ MaxFailures <= Passed(MaxHolds)
        /\ e \in Nat /\ MaxHolds \in Nat
    <3>1. e \in Nat /\ MaxHolds \in Nat /\ N \in Nat /\ MaxFailures \in Nat
          /\ MaxFailures <= Passed(MaxHolds)
      BY Bounds
    <3> QED BY <3>1, PassedGrows
  <2>3. health[g].failures <= Passed(d)
    <3>1. CASE e + 1 <= MaxHolds
      <4>1. d = e + 1
        BY <3>1, <1>3 DEF Capped
      <4> QED BY <4>1, <2>1, <2>2
    <3>2. CASE ~(e + 1 <= MaxHolds)
      <4>1. d = MaxHolds
        BY <3>2, <1>3 DEF Capped
      <4> QED BY <4>1, <2>1, <2>2
    <3> QED BY <3>1, <3>2
  <2>4. Passed(d) \in Int
    BY PassedGrows, Bounds
  <2>5. health[g].failures + Cardinality(Asking(g)) <= Passed(d) + N
    BY <2>1, <2>2, <2>3, <2>4
  <2> QED BY <2>3, <2>5, <1>6, <1>7 DEF Cheap, Roomy, Passed, N
<1>9. ASSUME NEW f \in Names \ {g} PROVE Cheap(f)' /\ Roomy(f)'
  BY <1>6, <1>7 DEF CostInv, Cheap, Roomy
<1>10. CycleOK'
  BY <1>1 DEF CycleOK
<1> QED BY <1>6, <1>8, <1>9, <1>10 DEF CostInv

LEMMA CostStart == Init => CostInv
<1> SUFFICES ASSUME Init PROVE CostInv
  OBVIOUS
<1>1. CycleOK
  BY Bounds DEF Init, CycleOK, CycleT, Idle, Places
<1>2. RecordOK
  <2>1. /\ health = [f \in Names |-> [ok |-> FALSE, failures |-> 0, total |-> 0]]
        /\ held \in [Names -> BOOLEAN] /\ ended \in [Names -> 0..MaxHolds]
    BY Bounds DEF Init
  <2>2. \A f \in Names : health[f] = [ok |-> FALSE, failures |-> 0, total |-> 0]
    BY <2>1
  <2>3. \A f \in Names : HealthT(health[f]) /\ health[f].failures \in 0..MaxFailures
    BY <2>2, HealthIs, Bounds
  <2>4. health = [f \in Names |-> health[f]]
    BY <2>1
  <2> QED BY <2>1, <2>3, <2>4 DEF RecordOK
<1>3. ASSUME NEW f \in Names PROVE Cheap(f) /\ Roomy(f)
  <2>1. Cardinality(Asking(f)) \in 0..N /\ N \in Nat /\ Passed(0) \in Int /\ Passed(0) >= 0
    BY AskingFinite, Bounds, PassedGrows
  <2>2. health[f].failures = 0 /\ ended[f] = 0
    BY DEF Init
  <2> QED BY <2>1, <2>2 DEF Cheap, Roomy
<1> QED BY <1>1, <1>2, <1>3 DEF CostInv

LEMMA CostStep == CostInv /\ [Next]_vars => CostInv'
<1> SUFFICES ASSUME CostInv, [Next]_vars PROVE CostInv'
  OBVIOUS
<1>c. CycleOK
  BY DEF CostInv
<1>u. ASSUME UNCHANGED <<record, cycle>> PROVE CostInv'
  <2>1. \A f : Asking(f)' = Asking(f)
    BY <1>u DEF Asking, At, Feed
  <2> QED BY <1>u, <2>1 DEF record, CostInv, CycleOK, RecordOK, Cheap, Roomy
<1>1. ASSUME NEW c \in Clients, Refresh(c) PROVE CostInv'
  BY <1>1, <1>c, MovedIsCycle, NobodyAsks DEF Refresh, At, Threads
<1>2. ASSUME NEW t \in Threads, Work(t) PROVE CostInv'
  <2>1. CASE AppendItem(t)
    <3>1. PICK c : /\ cycle' = [cycle EXCEPT ![t] = c]
                   /\ \/ c = Idle \/ c = Moved(t)
                      \/ \E s : c = [cycle[t] EXCEPT !.items = s]
      BY <2>1 DEF AppendItem
    <3>2. At(t, "append") /\ UNCHANGED record
      BY <2>1 DEF AppendItem
    <3>3. CycleT(c) /\ c.at # "upstream"
      <4>1. CASE c = Idle \/ c = Moved(t)
        BY <4>1, <1>c, MovedIsCycle
      <4>2. ASSUME NEW s, c = [cycle[t] EXCEPT !.items = s] PROVE CycleT(c) /\ c.at # "upstream"
        BY <4>2, <3>2, <1>c DEF CycleOK, CycleT, At
      <4> QED BY <3>1, <4>1, <4>2
    <3> QED BY <3>1, <3>2, <3>3, NobodyAsks DEF At
  <2> QED BY <1>2, <2>1, GateKeeps, FailureKeeps, SuccessKeeps DEF Work
<1>3. ASSUME NEW d \in Daemons, Start(d) \/ Wake(d) PROVE CostInv'
  <2>1. PICK c : cycle' = [cycle EXCEPT ![d] = c] /\ (c = Idle \/ c = Begun)
    BY <1>3 DEF Start, Wake
  <2>2. ~At(d, "upstream") /\ UNCHANGED record /\ d \in Threads
    BY <1>3 DEF Start, Wake, At, Threads
  <2> QED BY <2>1, <2>2, <1>c, MovedIsCycle, NobodyAsks
<1>4. CASE Stop \/ Batch
  BY <1>4, <1>u DEF Stop, Batch
<1>5. ASSUME NEW f \in Names, HoldEnds(f) PROVE CostInv'
  BY <1>5, HoldKeeps
<1>6. ASSUME NEW f \in Flaky, UpstreamChanges(f) PROVE CostInv'
  BY <1>6, <1>u DEF UpstreamChanges
<1>7. CASE UNCHANGED vars
  BY <1>7, <1>u DEF vars
<1> QED BY <1>1, <1>2, <1>3, <1>4, <1>5, <1>6, <1>7 DEF Next

(* However many requests and daemons poll at a time, a dead upstream gets   *)
(* at most Threshold - 1 calls and one per thread and hold that ended, plus *)
(* one per thread (held_open, record_failure).                              *)
THEOREM DeadFeedIsCheap == Spec => []DeadFeedCostsLittle
<1>1. ASSUME CostInv PROVE DeadFeedCostsLittle
  <2> SUFFICES ASSUME NEW f \in Names
               PROVE  health[f].failures + Cardinality(Asking(f))
                        <= Threshold - 1 + N * (1 + ended[f])
    BY DEF DeadFeedCostsLittle, N
  <2>1. ended[f] \in Nat /\ N \in Nat /\ Threshold \in Nat
    BY <1>1, Bounds DEF CostInv, RecordOK
  <2>2. N * (1 + ended[f]) = N * ended[f] + N /\ N * ended[f] \in Int
    BY <2>1, Z3
  <2>3. health[f].failures + Cardinality(Asking(f)) <= Threshold - 1 + N * ended[f] + N
    BY <1>1 DEF CostInv, Cheap, Passed
  <2> QED BY <2>1, <2>2, <2>3
<1> QED BY <1>1, CostStart, CostStep, PTL DEF Spec

-----------------------------------------------------------------------------
(* What was polled *)

\* Items of one poll: of one feed, and advisories of one feed only.
OfFeed(s, f) == \A k \in DOMAIN s : /\ s[k].feed = f
                                    /\ s[k].kind = "advisory" => f = "reliefweb"
\* A thread has something to append exactly when it is there to append it.
ItemsT(c) == /\ c.items \in Seq(Item) /\ Len(c.items) <= MaxItems
             /\ c.at = "append" <=> c.items # <<>>
             /\ OfFeed(c.items, Pollers[c.feed])

Logged(f) == {i \in DOMAIN log : log[i].feed = f}
Queued(f) == {p \in Threads \X (1..MaxItems) :
                 /\ p[2] <= Len(cycle[p[1]].items)
                 /\ cycle[p[1]].items[p[2]].feed = f}
Kept(f)   == f # "reliefweb" =>
                 health[f].total = Cardinality(Logged(f)) + Cardinality(Queued(f))
KeptInv   == /\ CycleOK /\ RecordOK /\ log \in Seq(Item)
             /\ \A t \in Threads : ItemsT(cycle[t])
             /\ \A f \in Names : Kept(f)

(* The constants of the pollers.                                           *)
LEMMA PollerBounds ==
    /\ MaxItems \in Nat /\ IsFiniteSet(Names) /\ Polls \in Nat
    /\ Names \subseteq {"weather", "seismic", "gdacs", "reliefweb"}
<1>1. MaxItems \in Nat
  BY FeedsAssumption DEF FeedsAssumption
<1>2. Names \subseteq {"weather", "seismic", "gdacs", "reliefweb"}
  <2>1. \A i \in DOMAIN Pollers : Pollers[i] \in {"weather", "seismic", "gdacs", "reliefweb"}
    BY FeedsAssumption, ElementOfSeq, LenProperties DEF FeedsAssumption
  <2> QED
    BY <2>1 DEF Names
<1>3. IsFiniteSet({"weather", "seismic", "gdacs", "reliefweb"})
  <2>1. /\ IsFiniteSet({"weather"}) /\ IsFiniteSet({"weather"} \cup {"seismic"})
        /\ IsFiniteSet({"weather"} \cup {"seismic"} \cup {"gdacs"})
        /\ IsFiniteSet({"weather"} \cup {"seismic"} \cup {"gdacs"} \cup {"reliefweb"})
    BY FS_Singleton, FS_AddElement
  <2>2. {"weather"} \cup {"seismic"} \cup {"gdacs"} \cup {"reliefweb"}
            = {"weather", "seismic", "gdacs", "reliefweb"}
    OBVIOUS
  <2> QED
    BY <2>1, <2>2
<1>4. IsFiniteSet(Names)
  BY <1>2, <1>3, FS_Subset
<1>5. Polls \in Nat
  <2> DEFINE counted == {p \in Names \X (1..MaxItems) : p[2] <= health[p[1]].total}
  <2>1. IsFiniteSet(1..MaxItems)
    BY <1>1, FS_Interval
  <2>2. IsFiniteSet(Names \X (1..MaxItems))
    BY <1>4, <2>1, FS_Product
  <2>3. counted \in SUBSET (Names \X (1..MaxItems))
    OBVIOUS
  <2>4. IsFiniteSet(counted)
    <3> HIDE DEF counted
    <3> QED
      BY <2>2, <2>3, FS_Subset
  <2>5. Cardinality(counted) \in Nat
    BY <2>4, FS_CardinalityType
  <2> QED
    BY <2>5 DEF Polls
<1> QED
  BY <1>1, <1>2, <1>4, <1>5

(* What is logged and queued can be counted.                               *)
LEMMA KeptFinite ==
    ASSUME log \in Seq(Item)
    PROVE  \A f : /\ IsFiniteSet(Logged(f)) /\ IsFiniteSet(Queued(f))
                  /\ Cardinality(Logged(f)) \in Nat /\ Cardinality(Queued(f)) \in Nat
<1> TAKE f
<1>1. Logged(f) \subseteq 1..Len(log) /\ Len(log) \in Nat
  BY LenProperties DEF Logged
<1>2. IsFiniteSet(Logged(f))
  <2>1. IsFiniteSet(1..Len(log))
    BY <1>1, FS_Interval
  <2> QED
    BY <1>1, <2>1, FS_Subset
<1>3. IsFiniteSet(Threads \X (1..MaxItems))
  <2>1. IsFiniteSet(1..MaxItems)
    BY PollerBounds, FS_Interval
  <2> QED
    BY <2>1, Bounds, FS_Product
<1>4. IsFiniteSet(Queued(f))
  <2>1. Queued(f) \in SUBSET (Threads \X (1..MaxItems))
    BY DEF Queued
  <2> QED
    BY <1>3, <2>1, FS_Subset
<1> QED
  BY <1>2, <1>4, FS_CardinalityType

(* A thread that has nothing to append before nor after changes no queue.  *)
LEMMA QueueStays ==
    ASSUME CycleOK, NEW t \in Threads, NEW c, CycleT(c), cycle' = [cycle EXCEPT ![t] = c],
           cycle[t].items = <<>>, c.items = <<>>
    PROVE  \A f : Queued(f)' = Queued(f)
<1>1. cycle'[t] = c /\ \A u \in Threads \ {t} : cycle'[u] = cycle[u]
  BY CycleBecomes
<1>2. cycle'[t].items = cycle[t].items
  BY <1>1
<1>3. \A u \in Threads : cycle'[u].items = cycle[u].items
  BY <1>1, <1>2
<1> QED
  BY <1>3 DEF Queued

(* What a poll brought is queued for its feed, item by item.               *)
LEMMA QueueFills ==
    ASSUME KeptInv, NEW t \in Threads, NEW c, CycleT(c), ItemsT(c),
           cycle' = [cycle EXCEPT ![t] = c], cycle[t].items = <<>>
    PROVE  /\ \A f : f = Pollers[c.feed] =>
                 Cardinality(Queued(f)') = Cardinality(Queued(f)) + Len(c.items)
           /\ \A f : f # Pollers[c.feed] => Queued(f)' = Queued(f)
<1>1. cycle'[t] = c /\ \A u \in Threads \ {t} : cycle'[u] = cycle[u]
  BY CycleBecomes DEF KeptInv
<1>2. /\ Len(c.items) \in Nat /\ DOMAIN c.items = 1..Len(c.items)
      /\ Len(c.items) <= MaxItems /\ MaxItems \in Nat /\ Len(cycle[t].items) = 0
  BY PollerBounds, LenProperties DEF ItemsT
<1>3. \A k \in 1..Len(c.items) : c.items[k].feed = Pollers[c.feed]
  BY <1>2 DEF ItemsT, OfFeed
<1> DEFINE new == {t} \X (1..Len(c.items))
<1>4. IsFiniteSet(new) /\ Cardinality(new) = Len(c.items)
  <2>1. IsFiniteSet(1..Len(c.items)) /\ Cardinality(1..Len(c.items)) = Len(c.items)
    BY <1>2, FS_Interval
  <2>2. IsFiniteSet({t}) /\ Cardinality({t}) = 1
    BY FS_Singleton
  <2>3. IsFiniteSet(new) /\ Cardinality(new) = 1 * Len(c.items)
    BY <2>1, <2>2, FS_Product
  <2> QED
    BY <1>2, <2>3
<1>5. ASSUME NEW f, f # Pollers[c.feed] PROVE Queued(f)' = Queued(f)
  <2>1. \A p \in Threads \X (1..MaxItems) :
           (p[2] <= Len(cycle'[p[1]].items) /\ cycle'[p[1]].items[p[2]].feed = f)
             <=> (p[2] <= Len(cycle[p[1]].items) /\ cycle[p[1]].items[p[2]].feed = f)
    <3> TAKE p \in Threads \X (1..MaxItems)
    <3>1. CASE p[1] = t
      <4>1. p[2] <= Len(c.items) => c.items[p[2]].feed # f
        BY <1>2, <1>3, <1>5
      <4>2. ~(p[2] <= Len(cycle[t].items))
        BY <1>2
      <4> QED
        BY <1>1, <3>1, <4>1, <4>2
    <3>2. CASE p[1] # t
      BY <1>1, <3>2
    <3> QED
      BY <3>1, <3>2
  <2> QED
    BY <2>1 DEF Queued
<1>6. ASSUME NEW f, f = Pollers[c.feed]
      PROVE  Cardinality(Queued(f)') = Cardinality(Queued(f)) + Len(c.items)
  <2>1. \A p \in Threads \X (1..MaxItems) :
           (p[2] <= Len(cycle'[p[1]].items) /\ cycle'[p[1]].items[p[2]].feed = f)
             <=> \/ p[2] <= Len(cycle[p[1]].items) /\ cycle[p[1]].items[p[2]].feed = f
                 \/ p \in new
    <3> TAKE p \in Threads \X (1..MaxItems)
    <3>1. CASE p[1] = t
      <4>1. p[2] <= Len(c.items) => c.items[p[2]].feed = f
        BY <1>2, <1>3, <1>6
      <4>2. ~(p[2] <= Len(cycle[t].items))
        BY <1>2
      <4>3. p \in new <=> p[2] <= Len(c.items)
        BY <1>2, <3>1
      <4> QED
        BY <1>1, <3>1, <4>1, <4>2, <4>3
    <3>2. CASE p[1] # t
      <4>1. p \notin new
        BY <3>2
      <4> QED
        BY <1>1, <3>2, <4>1
    <3> QED
      BY <3>1, <3>2
  <2>2. new \subseteq Threads \X (1..MaxItems)
    BY <1>2
  <2>3. Queued(f)' = Queued(f) \cup new
    <3> HIDE DEF new
    <3> QED
      BY <2>1, <2>2 DEF Queued
  <2>4. Queued(f) \cap new = {}
    <3>1. \A p \in new : p[1] = t /\ p[2] \in 1..Len(c.items)
      OBVIOUS
    <3>2. \A p \in new : ~(p[2] <= Len(cycle[p[1]].items))
      BY <1>2, <3>1
    <3> HIDE DEF new
    <3> QED
      BY <3>2 DEF Queued
  <2> HIDE DEF new
  <2>5. IsFiniteSet(Queued(f)) /\ Cardinality(Queued(f)) \in Nat
    BY KeptFinite DEF KeptInv
  <2>6. Cardinality(Queued(f) \cup new)
          = Cardinality(Queued(f)) + Cardinality(new) - Cardinality(Queued(f) \cap new)
    BY <1>4, <2>5, FS_Union
  <2>7. Cardinality(Queued(f) \cap new) = 0
    BY <2>4, FS_EmptySet
  <2> QED
    BY <1>2, <1>4, <2>3, <2>5, <2>6, <2>7
<1> QED
  BY <1>5, <1>6

(* What is appended leaves the queue of its feed, and no other queue.      *)
LEMMA QueueDrains ==
    ASSUME KeptInv, NEW t \in Threads, NEW c, CycleT(c),
           cycle' = [cycle EXCEPT ![t] = c], cycle[t].items # <<>>,
           c.items \in {<<>>, Tail(cycle[t].items)}
    PROVE  /\ \A f : f # Feed(t) => Queued(f)' = Queued(f)
           /\ \A f : f = Feed(t) /\ c.items = Tail(cycle[t].items) =>
                 Cardinality(Queued(f)') = Cardinality(Queued(f)) - 1
<1> DEFINE s == cycle[t].items
<1>1. cycle'[t] = c /\ \A u \in Threads \ {t} : cycle'[u] = cycle[u]
  BY CycleBecomes DEF KeptInv
<1>2. /\ s \in Seq(Item) /\ Len(s) \in Nat \ {0} /\ DOMAIN s = 1..Len(s)
      /\ Len(s) <= MaxItems /\ MaxItems \in Nat
      /\ Tail(s) \in Seq(Item) /\ Len(Tail(s)) = Len(s) - 1
      /\ \A k \in 1..Len(Tail(s)) : Tail(s)[k] = s[k + 1]
  <2>1. s \in Seq(Item) /\ Len(s) <= MaxItems /\ s # <<>>
    BY DEF KeptInv, ItemsT
  <2> QED
    BY <2>1, PollerBounds, LenProperties, EmptySeq, HeadTailProperties
<1>3. \A k \in 1..Len(s) : s[k].feed = Feed(t)
  BY <1>2 DEF KeptInv, ItemsT, OfFeed, Feed
<1>4. /\ Len(c.items) \in Nat /\ Len(c.items) < Len(s)
      /\ \A k \in 1..Len(c.items) : c.items[k].feed = Feed(t)
  <2>1. CASE c.items = <<>>
    BY <1>2, <2>1
  <2>2. CASE c.items = Tail(s)
    <3>1. \A k \in 1..Len(s) - 1 : k + 1 \in 1..Len(s)
      BY <1>2
    <3> QED
      BY <1>2, <1>3, <2>2, <3>1
  <2> QED
    BY <2>1, <2>2
<1> HIDE DEF s
<1>5. ASSUME NEW f, f # Feed(t) PROVE Queued(f)' = Queued(f)
  <2>1. \A p \in Threads \X (1..MaxItems) :
           (p[2] <= Len(cycle'[p[1]].items) /\ cycle'[p[1]].items[p[2]].feed = f)
             <=> (p[2] <= Len(cycle[p[1]].items) /\ cycle[p[1]].items[p[2]].feed = f)
    <3> TAKE p \in Threads \X (1..MaxItems)
    <3>1. CASE p[1] = t
      <4>1. p[2] <= Len(c.items) => c.items[p[2]].feed # f
        BY <1>4, <1>5
      <4>2. p[2] <= Len(s) => s[p[2]].feed # f
        BY <1>2, <1>3, <1>5
      <4> QED
        BY <1>1, <3>1, <4>1, <4>2 DEF s
    <3>2. CASE p[1] # t
      BY <1>1, <3>2
    <3> QED
      BY <3>1, <3>2
  <2> QED
    BY <2>1 DEF Queued
<1>6. ASSUME NEW f, f = Feed(t), c.items = Tail(s)
      PROVE  Cardinality(Queued(f)') = Cardinality(Queued(f)) - 1
  <2> DEFINE last == <<t, Len(s)>>
  <2>1. last \in Threads \X (1..MaxItems) /\ last[1] = t /\ last[2] = Len(s)
    BY <1>2
  <2>2. \A p \in Threads \X (1..MaxItems) :
           (p[2] <= Len(cycle'[p[1]].items) /\ cycle'[p[1]].items[p[2]].feed = f)
             <=> /\ p[2] <= Len(cycle[p[1]].items) /\ cycle[p[1]].items[p[2]].feed = f
                 /\ p # last
    <3> TAKE p \in Threads \X (1..MaxItems)
    <3>1. CASE p[1] = t
      <4>1. p[2] <= Len(s) - 1 => c.items[p[2]].feed = f
        BY <1>2, <1>4, <1>6
      <4>2. p[2] <= Len(s) => s[p[2]].feed = f
        BY <1>2, <1>3, <1>6
      <4>3. p = last <=> p[2] = Len(s)
        <5>1. p = <<p[1], p[2]>>
          OBVIOUS
        <5>2. p[2] = Len(s) => p = last
          BY <3>1, <5>1
        <5> HIDE DEF last
        <5> QED
          BY <2>1, <5>2
      <4>4. p[2] \in Nat /\ Len(c.items) = Len(s) - 1
        BY <1>2, <1>6
      <4>5. p[2] <= Len(s) - 1 <=> (p[2] <= Len(s) /\ p[2] # Len(s))
        <5>1. \A n, m \in Nat : n <= m - 1 <=> (n <= m /\ n # m)
          OBVIOUS
        <5>2. p[2] \in Nat /\ Len(s) \in Nat
          BY <1>2, <4>4
        <5> QED
          BY <5>1, <5>2, Zenon
      <4> HIDE DEF last
      <4>6. cycle'[p[1]].items = c.items /\ cycle[p[1]].items = s
        BY <1>1, <3>1 DEF s
      <4> QED
        BY <4>1, <4>2, <4>3, <4>4, <4>5, <4>6
    <3>2. CASE p[1] # t
      <4>1. p # last
        BY <3>2, <2>1
      <4> QED
        BY <1>1, <3>2, <4>1
    <3> QED
      BY <3>1, <3>2
  <2>3. last \in Queued(f)
    BY <1>2, <1>3, <1>6, <2>1 DEF Queued, s
  <2> HIDE DEF last
  <2>4. Queued(f)' = Queued(f) \ {last}
    BY <2>2 DEF Queued
  <2>5. IsFiniteSet(Queued(f))
    BY KeptFinite DEF KeptInv
  <2> QED
    BY <2>3, <2>4, <2>5, FS_RemoveElement
<1> QED
  BY <1>5, <1>6 DEF s

(* The log counts what is appended for its feed.                           *)
LEMMA LogGrows ==
    ASSUME log \in Seq(Item), NEW item \in Item, log' = Append(log, item)
    PROVE  /\ log' \in Seq(Item)
           /\ \A f : f # item.feed => Logged(f)' = Logged(f)
           /\ \A f : f = item.feed => Cardinality(Logged(f)') = Cardinality(Logged(f)) + 1
<1>1. /\ Len(log) \in Nat /\ DOMAIN log = 1..Len(log)
      /\ log' \in Seq(Item) /\ DOMAIN log' = 1..(Len(log) + 1)
      /\ \A i \in 1..Len(log) : log'[i] = log[i]
      /\ log'[Len(log) + 1] = item
  BY LenProperties, AppendProperties
<1>2. \A i \in DOMAIN log' : i \in DOMAIN log \/ i = Len(log) + 1
  BY <1>1
<1>3. DOMAIN log \subseteq DOMAIN log' /\ Len(log) + 1 \in DOMAIN log' \ DOMAIN log
  BY <1>1
<1>4. \A f : f # item.feed => Logged(f)' = Logged(f)
  BY <1>1, <1>2, <1>3 DEF Logged
<1>5. ASSUME NEW f, f = item.feed PROVE Cardinality(Logged(f)') = Cardinality(Logged(f)) + 1
  <2>1. Logged(f)' = Logged(f) \cup {Len(log) + 1}
    BY <1>1, <1>2, <1>3, <1>5 DEF Logged
  <2>2. Len(log) + 1 \notin Logged(f) /\ IsFiniteSet(Logged(f))
    BY <1>3, KeptFinite DEF Logged
  <2> QED
    BY <2>1, <2>2, FS_AddElement
<1> QED
  BY <1>1, <1>4, <1>5

(* Where a thread goes that has appended nothing or all it had.            *)
LEMMA MovedIsEmpty ==
    ASSUME NEW t
    PROVE  /\ ItemsT(Moved(t)) /\ Moved(t).items = <<>>
           /\ ItemsT(Idle) /\ Idle.items = <<>>
           /\ ItemsT(Begun) /\ Begun.items = <<>>
           /\ ItemsT(Done(t)) /\ Done(t).items = <<>>
<1> DEFINE Quiet(c) == c.items = <<>> /\ c.at # "append"
<1>1. ASSUME NEW c, Quiet(c) PROVE ItemsT(c)
  <2>1. c.items \in Seq(Item) /\ Len(c.items) = 0 /\ DOMAIN c.items = {}
    BY <1>1, EmptySeq
  <2> QED
    BY <1>1, <2>1, PollerBounds DEF ItemsT, OfFeed
<1>2. Quiet(Idle) /\ Quiet(Begun) /\ Quiet(Done(t))
  BY DEF Idle, Begun, Done
<1>3. Quiet(Moved(t))
  BY <1>2 DEF Moved
<1> QED
  BY <1>1, <1>2, <1>3

(* A poll brings items of its feed.                                        *)
LEMMA PollBrings ==
    ASSUME NEW doc \in Answers, NEW f \in Names, NEW s, s = Poll(f, doc).items
    PROVE  s \in Seq(Item) /\ OfFeed(s, f)
<1>1. doc.rows \in Seq(Row)
  BY FeedsAssumption DEF FeedsAssumption, Documents
<1>2. Len(doc.rows) \in Nat /\ DOMAIN doc.rows = 1..Len(doc.rows)
  BY <1>1, LenProperties
<1>3. ASSUME NEW n \in Nat, s = Events(f, n) PROVE s \in Seq(Item) /\ OfFeed(s, f)
  <2>1. \A i \in 1..n : s[i] = [feed |-> f, kind |-> "event"]
    BY <1>3 DEF Events
  <2>2. s \in [1..n -> Item] /\ DOMAIN s = 1..n
    <3>1. [feed |-> f, kind |-> "event"] \in Item
      BY DEF Item
    <3> QED
      BY <1>3, <3>1 DEF Events
  <2>3. s \in Seq(Item)
    BY <2>2, SeqDef
  <2>4. \A i \in 1..n : s[i].feed = f /\ s[i].kind # "advisory"
    BY <2>1
  <2> QED
    BY <2>2, <2>3, <2>4 DEF OfFeed
<1>4. CASE s = <<>>
  <2>1. s \in Seq(Item) /\ DOMAIN s = {}
    BY <1>4, EmptySeq
  <2> QED
    BY <2>1 DEF OfFeed
<1>5. ASSUME NEW S, S \subseteq 1..Len(doc.rows) PROVE Cardinality(S) \in Nat
  <2>1. IsFiniteSet(S)
    <3>1. IsFiniteSet(1..Len(doc.rows))
      BY <1>2, FS_Interval
    <3> QED
      BY <1>5, <3>1, FS_Subset
  <2> QED
    BY <2>1, FS_CardinalityType
<1>6. CASE f = "weather"
  <2>1. s = <<>> \/ s = Events(f, 1) \/ s = Events(f, 0)
    BY <1>6 DEF Poll, PollWeather, Polled, Raised
  <2> QED
    BY <1>3, <1>4, <2>1
<1>7. CASE f = "seismic"
  <2> DEFINE felt == {k \in DOMAIN doc.rows :
                        doc.rows[k].placed /\ doc.rows[k].near /\ doc.rows[k].strong}
  <2>1. s = <<>> \/ s = Events(f, Cardinality(felt))
    BY <1>7 DEF Poll, PollSeismic, Polled, Raised
  <2>2. Cardinality(felt) \in Nat
    BY <1>2, <1>5
  <2> HIDE DEF felt
  <2> QED
    BY <1>3, <1>4, <2>1, <2>2
<1>8. CASE f = "gdacs"
  <2> DEFINE rows  == IF doc.answer = "object" THEN doc.rows ELSE <<>>
  <2> DEFINE close == {k \in DOMAIN rows : rows[k].placed /\ rows[k].near}
  <2>1. s = <<>> \/ s = Events(f, Cardinality(close))
    BY <1>8 DEF Poll, PollGdacs, Polled, Raised
  <2>2. close \subseteq 1..Len(doc.rows)
    <3>1. \A e : e = <<>> => DOMAIN e = {}
      OBVIOUS
    <3>2. DOMAIN rows \subseteq 1..Len(doc.rows)
      BY <1>2, <3>1
    <3> QED
      BY <3>2
  <2> HIDE DEF close
  <2>3. Cardinality(close) \in Nat
    BY <1>5, <2>2
  <2> QED
    BY <1>3, <1>4, <2>1, <2>3
<1>9. CASE f = "reliefweb"
  <2>1. s = <<>> \/ s = [i \in DOMAIN doc.rows |-> [feed |-> "reliefweb", kind |-> "advisory"]]
    BY <1>9 DEF Poll, PollReliefWeb, Polled, Raised
  <2>2. CASE s = [i \in DOMAIN doc.rows |-> [feed |-> "reliefweb", kind |-> "advisory"]]
    <3>1. s \in [1..Len(doc.rows) -> Item] /\ DOMAIN s = 1..Len(doc.rows)
      BY <1>2, <1>9, <2>2 DEF Item
    <3>2. s \in Seq(Item)
      BY <1>2, <3>1, SeqDef
    <3>3. \A i \in DOMAIN s : s[i].feed = "reliefweb"
      BY <2>2
    <3> QED
      BY <1>9, <3>2, <3>3 DEF OfFeed
  <2> QED
    BY <1>4, <2>1, <2>2
<1> QED
  BY <1>6, <1>7, <1>8, <1>9, PollerBounds

(* A thread that appends nothing leaves what was polled where it is.       *)
LEMMA QuietKeeps ==
    ASSUME KeptInv, CostInv', NEW t \in Threads, NEW c, CycleT(c), ItemsT(c), c.items = <<>>,
           cycle[t].items = <<>>, cycle' = [cycle EXCEPT ![t] = c], log' = log,
           \A f \in Names : health'[f].total = health[f].total
    PROVE  KeptInv'
<1>1. cycle'[t] = c /\ \A u \in Threads \ {t} : cycle'[u] = cycle[u]
  BY CycleBecomes DEF KeptInv
<1>2. \A f : Queued(f)' = Queued(f) /\ Logged(f)' = Logged(f)
  BY QueueStays DEF KeptInv, Logged
<1>3. \A f \in Names : Kept(f)'
  BY <1>2 DEF KeptInv, Kept
<1>4. (\A u \in Threads : ItemsT(cycle[u]))'
  BY <1>1 DEF KeptInv, ItemsT
<1> QED
  BY <1>3, <1>4 DEF KeptInv, CostInv

(* A poll that failed counts nothing.                                      *)
LEMMA FailureCountsNothing ==
    ASSUME RecordOK, NEW t \in Threads, PollFails(t)
    PROVE  \A f \in Names : health'[f].total = health[f].total
<1>1. PICK h : /\ health' = [health EXCEPT ![Feed(t)] = h] /\ h.total = health[Feed(t)].total
  <2>1. PICK n : health' = [health EXCEPT ![Feed(t)] = [ok |-> FALSE, failures |-> n,
                                                        total |-> @.total]]
    BY DEF PollFails, RecordFailure
  <2>2. PICK h : h = [ok |-> FALSE, failures |-> n, total |-> health[Feed(t)].total]
    OBVIOUS
  <2>3. h.total = health[Feed(t)].total
    BY <2>2
  <2>4. health' = [health EXCEPT ![Feed(t)] = h]
    BY <2>1, <2>2
  <2> QED
    BY <2>3, <2>4
<1>2. health = [f \in Names |-> health[f]]
  BY DEF RecordOK
<1> QED
  BY <1>1, <1>2

(* What a poll brought is counted and queued, or there was nothing.        *)
LEMMA SuccessCounts ==
    ASSUME KeptInv, CostInv', NEW t \in Threads, PollSucceeds(t)
    PROVE  KeptInv'
<1>1. PICK g \in Names : g = Feed(t) /\ g = Pollers[cycle[t].feed]
  BY FeedIsNamed DEF KeptInv, Feed
<1>2. PICK s : /\ \E doc \in Answers : s = Poll(Feed(t), doc).items
               /\ Polls + Len(s) <= MaxItems
               /\ RecordSuccess(Feed(t), Len(s))
               /\ cycle' = [cycle EXCEPT ![t] =
                     IF Len(s) = 0 THEN Moved(t)
                     ELSE [at |-> "append", feed |-> @.feed, items |-> s]]
               /\ log' = log
  BY DEF PollSucceeds, session
<1>3. s \in Seq(Item) /\ OfFeed(s, g) /\ Len(s) \in Nat /\ Len(s) <= MaxItems
  <2>1. s \in Seq(Item) /\ OfFeed(s, g)
    BY <1>1, <1>2, PollBrings
  <2>2. Len(s) \in Nat
    BY <2>1, LenProperties
  <2> QED
    BY <1>2, <2>1, <2>2, PollerBounds
<1>4. /\ CycleT(cycle[t]) /\ cycle[t].items = <<>>
      /\ CycleOK /\ RecordOK
  BY DEF KeptInv, CycleOK, ItemsT, PollSucceeds, At
<1>5. /\ health'[g].total = health[g].total + Len(s)
      /\ \A f \in Names \ {g} : health'[f] = health[f]
  <2>1. PICK h : h = [ok |-> TRUE, failures |-> 0, total |-> health[g].total + Len(s)]
    OBVIOUS
  <2>2. health' = [health EXCEPT ![g] = h]
    BY <1>1, <1>2, <2>1 DEF RecordSuccess
  <2>3. health'[g] = h /\ \A f \in Names \ {g} : health'[f] = health[f]
    BY <1>4, <2>2 DEF RecordOK
  <2> QED
    BY <2>1, <2>3
<1>6. CASE Len(s) = 0
  <2>1. cycle' = [cycle EXCEPT ![t] = Moved(t)]
    BY <1>2, <1>6
  <2>2. ASSUME NEW f \in Names, f # "reliefweb" PROVE health'[f].total = health[f].total
    <3>1. health[f].total \in Nat
      <4>1. health[f].total = Cardinality(Logged(f)) + Cardinality(Queued(f))
        BY <2>2 DEF KeptInv, Kept
      <4> QED
        BY <4>1, KeptFinite DEF KeptInv
    <3> QED
      BY <1>5, <1>6, <3>1
  <2>3. CycleT(Moved(t)) /\ ItemsT(Moved(t)) /\ Moved(t).items = <<>>
    BY <1>4, MovedIsCycle, MovedIsEmpty
  <2>4. cycle'[t] = Moved(t) /\ \A u \in Threads \ {t} : cycle'[u] = cycle[u]
    BY <1>4, <2>1, <2>3, CycleBecomes
  <2>5. \A f : Queued(f)' = Queued(f) /\ Logged(f)' = Logged(f)
    BY <1>2, <1>4, <2>1, <2>3, QueueStays DEF Logged
  <2>6. \A f \in Names : Kept(f)'
    BY <2>2, <2>5 DEF KeptInv, Kept
  <2>7. (\A u \in Threads : ItemsT(cycle[u]))'
    BY <2>3, <2>4 DEF KeptInv, ItemsT
  <2> QED
    BY <1>2, <2>6, <2>7 DEF KeptInv, CostInv
<1>7. CASE Len(s) # 0
  <2>1. PICK c : c = [at |-> "append", feed |-> cycle[t].feed, items |-> s]
    OBVIOUS
  <2>2. cycle' = [cycle EXCEPT ![t] = c] /\ Pollers[c.feed] = g /\ c.items = s
    BY <1>1, <1>2, <1>7, <2>1
  <2>3. CycleT(c)
    BY <1>4, <2>1 DEF CycleT, Places
  <2>4. ItemsT(c)
    <3>1. s # <<>> /\ c.at = "append"
      BY <1>7, <2>1
    <3> QED
      BY <1>3, <2>2, <3>1 DEF ItemsT
  <2>5. cycle'[t] = c /\ \A u \in Threads \ {t} : cycle'[u] = cycle[u]
    BY <1>4, <2>2, <2>3, CycleBecomes
  <2>6. /\ \A f : f = g => Cardinality(Queued(f)') = Cardinality(Queued(f)) + Len(s)
        /\ \A f : f # g => Queued(f)' = Queued(f)
    BY <1>4, <2>2, <2>3, <2>4, QueueFills
  <2>7. \A f : Logged(f)' = Logged(f)
    BY <1>2 DEF Logged
  <2>8. ASSUME NEW f \in Names, f # "reliefweb"
        PROVE  health'[f].total = Cardinality(Logged(f)') + Cardinality(Queued(f)')
    <3>1. /\ health[f].total = Cardinality(Logged(f)) + Cardinality(Queued(f))
          /\ Cardinality(Logged(f)) \in Nat /\ Cardinality(Queued(f)) \in Nat
      BY <2>8, KeptFinite DEF KeptInv, Kept
    <3>2. CASE f = g
      BY <1>3, <1>5, <2>6, <2>7, <3>1, <3>2
    <3>3. CASE f # g
      BY <1>5, <2>6, <2>7, <3>1, <3>3
    <3> QED
      BY <3>2, <3>3
  <2>9. \A f \in Names : Kept(f)'
    BY <2>8 DEF Kept
  <2>10. (\A u \in Threads : ItemsT(cycle[u]))'
    BY <2>4, <2>5 DEF KeptInv, ItemsT
  <2> QED
    BY <1>2, <2>9, <2>10 DEF KeptInv, CostInv
<1> QED
  BY <1>6, <1>7

(* What is appended is no longer queued and is logged.  An advisory takes  *)
(* the rest of its poll with it, but that is the business of its own feed. *)
LEMMA AppendMoves ==
    ASSUME KeptInv, CostInv', NEW t \in Threads, AppendItem(t)
    PROVE  KeptInv'
<1> DEFINE item == Head(cycle[t].items)
<1> DEFINE rest == Tail(cycle[t].items)
<1>1. /\ CycleOK /\ CycleT(cycle[t]) /\ At(t, "append") /\ ItemsT(cycle[t])
      /\ cycle[t].items # <<>> /\ cycle[t].items \in Seq(Item)
      /\ OfFeed(cycle[t].items, Feed(t)) /\ Len(cycle[t].items) <= MaxItems
  BY DEF KeptInv, CycleOK, ItemsT, AppendItem, At, Feed
<1>2. /\ item \in Item /\ rest \in Seq(Item)
      /\ item.feed = Feed(t) /\ (item.kind = "advisory" => Feed(t) = "reliefweb")
      /\ OfFeed(rest, Feed(t)) /\ Len(rest) <= MaxItems
  <2>1. /\ Len(cycle[t].items) \in Nat \ {0} /\ DOMAIN cycle[t].items = 1..Len(cycle[t].items)
        /\ item = cycle[t].items[1] /\ rest \in Seq(Item)
        /\ Len(rest) = Len(cycle[t].items) - 1
        /\ \A k \in 1..Len(rest) : rest[k] = cycle[t].items[k + 1]
    BY <1>1, LenProperties, EmptySeq, HeadTailProperties
  <2>2. /\ 1 \in DOMAIN cycle[t].items /\ DOMAIN rest = 1..Len(rest)
        /\ \A k \in 1..Len(rest) : k + 1 \in DOMAIN cycle[t].items
    BY <2>1, LenProperties
  <2>3. item \in Item
    BY <1>1, <2>1, <2>2, ElementOfSeq
  <2>4. item.feed = Feed(t) /\ (item.kind = "advisory" => Feed(t) = "reliefweb")
    BY <1>1, <2>1, <2>2 DEF OfFeed
  <2>5. OfFeed(rest, Feed(t))
    BY <1>1, <2>1, <2>2 DEF OfFeed
  <2> QED
    BY <1>1, <2>1, <2>3, <2>4, <2>5, PollerBounds
<1> HIDE DEF item, rest
<1>3. log' = Append(log, item) /\ health' = health
  BY DEF AppendItem, record, item
<1>4. PICK c : /\ cycle' = [cycle EXCEPT ![t] = c]
               /\ c = IF item.kind = "advisory" THEN Idle
                      ELSE IF rest = <<>> THEN Moved(t)
                      ELSE [cycle[t] EXCEPT !.items = rest]
  BY DEF AppendItem, item, rest
<1>5. /\ CycleT(c) /\ ItemsT(c) /\ c.items \in {<<>>, rest}
      /\ item.kind # "advisory" => c.items = rest
  <2>1. CASE c = Idle /\ item.kind = "advisory"
    BY <1>1, <2>1, MovedIsCycle, MovedIsEmpty
  <2>2. CASE c = Moved(t) /\ rest = <<>>
    BY <1>1, <2>2, MovedIsCycle, MovedIsEmpty
  <2>3. CASE c = [cycle[t] EXCEPT !.items = rest] /\ rest # <<>>
    <3>1. c.at = cycle[t].at /\ c.feed = cycle[t].feed /\ c.items = rest /\ CycleT(c)
      BY <1>1, <2>3 DEF CycleT
    <3>2. ItemsT(c)
      BY <1>1, <1>2, <2>3, <3>1 DEF ItemsT, At, Feed
    <3> QED
      BY <3>1, <3>2
  <2> QED
    BY <1>4, <2>1, <2>2, <2>3
<1>6. cycle'[t] = c /\ \A u \in Threads \ {t} : cycle'[u] = cycle[u]
  BY <1>1, <1>4, <1>5, CycleBecomes
<1>7. /\ \A f : f # Feed(t) => Queued(f)' = Queued(f)
      /\ \A f : f = Feed(t) /\ c.items = rest =>
            Cardinality(Queued(f)') = Cardinality(Queued(f)) - 1
  BY <1>1, <1>4, <1>5, QueueDrains DEF rest
<1>8. /\ log' \in Seq(Item)
      /\ \A f : f # Feed(t) => Logged(f)' = Logged(f)
      /\ \A f : f = Feed(t) => Cardinality(Logged(f)') = Cardinality(Logged(f)) + 1
  <2>1. log \in Seq(Item)
    BY DEF KeptInv
  <2> QED
    BY <1>2, <1>3, <2>1, LogGrows
<1>9. ASSUME NEW f \in Names, f # "reliefweb"
      PROVE  health'[f].total = Cardinality(Logged(f)') + Cardinality(Queued(f)')
  <2>1. /\ health[f].total = Cardinality(Logged(f)) + Cardinality(Queued(f))
        /\ Cardinality(Logged(f)) \in Nat /\ Cardinality(Queued(f)) \in Nat
    BY <1>9, KeptFinite DEF KeptInv, Kept
  <2>2. CASE f = Feed(t)
    <3>1. c.items = rest
      BY <1>2, <1>5, <1>9, <2>2
    <3> QED
      BY <1>3, <1>7, <1>8, <2>1, <2>2, <3>1
  <2>3. CASE f # Feed(t)
    BY <1>3, <1>7, <1>8, <2>1, <2>3
  <2> QED
    BY <2>2, <2>3
<1>10. \A f \in Names : Kept(f)'
  BY <1>9 DEF Kept
<1>11. (\A u \in Threads : ItemsT(cycle[u]))'
  BY <1>5, <1>6 DEF KeptInv, ItemsT
<1> QED
  BY <1>8, <1>10, <1>11 DEF KeptInv, CostInv

(* Every step keeps what was polled.                                       *)
LEMMA KeptStep == CostInv /\ KeptInv /\ [Next]_vars => KeptInv'
<1> SUFFICES ASSUME CostInv, KeptInv, [Next]_vars PROVE KeptInv'
  OBVIOUS
<1>0. CostInv' /\ CycleOK /\ RecordOK
  BY CostStep DEF CostInv
<1>q. \A t \in Threads : cycle[t].at # "append" => cycle[t].items = <<>>
  BY DEF KeptInv, ItemsT
<1>s. ASSUME UNCHANGED <<health, cycle, log>> PROVE KeptInv'
  <2>1. \A f : Queued(f)' = Queued(f) /\ Logged(f)' = Logged(f)
    BY <1>s DEF Queued, Logged
  <2>2. \A f \in Names : Kept(f)'
    BY <1>s, <2>1 DEF KeptInv, Kept
  <2>3. (\A u \in Threads : ItemsT(cycle[u]))'
    BY <1>s DEF KeptInv, ItemsT
  <2> QED
    BY <1>0, <1>s, <2>2, <2>3 DEF KeptInv, CostInv
<1>1. ASSUME NEW c \in Clients, Refresh(c) PROVE KeptInv'
  <2>1. /\ c \in Threads /\ cycle[c].items = <<>> /\ log' = log /\ health' = health
        /\ cycle' = [cycle EXCEPT ![c] = Begun]
    BY <1>1, <1>q DEF Refresh, At, Threads, record, session
  <2>2. CycleT(Begun) /\ ItemsT(Begun) /\ Begun.items = <<>>
    BY <1>0, <2>1, MovedIsCycle, MovedIsEmpty
  <2> QED
    BY <1>0, <2>1, <2>2, QuietKeeps
<1>2. ASSUME NEW d \in Daemons, Start(d) \/ Wake(d) PROVE KeptInv'
  <2>1. /\ d \in Threads /\ cycle[d].items = <<>> /\ log' = log /\ health' = health
    BY <1>2, <1>q DEF Start, Wake, At, Threads, record, session
  <2>2. PICK c : cycle' = [cycle EXCEPT ![d] = c] /\ (c = Idle \/ c = Begun)
    BY <1>2 DEF Start, Wake
  <2>3. CycleT(c) /\ ItemsT(c) /\ c.items = <<>>
    BY <1>0, <2>1, <2>2, MovedIsCycle, MovedIsEmpty
  <2> QED
    BY <1>0, <2>1, <2>2, <2>3, QuietKeeps
<1>3. ASSUME NEW t \in Threads, Gate(t) PROVE KeptInv'
  <2>1. /\ cycle[t].items = <<>> /\ cycle[t].at = "gate" /\ log' = log /\ health' = health
        /\ CycleT(cycle[t]) /\ ItemsT(cycle[t])
    BY <1>0, <1>3, <1>q DEF Gate, At, record, session, KeptInv, CycleOK
  <2>2. PICK c : /\ cycle' = [cycle EXCEPT ![t] = c]
                 /\ (c = Moved(t) \/ c = [cycle[t] EXCEPT !.at = "upstream"])
    BY <1>3 DEF Gate
  <2>3. CycleT(c) /\ ItemsT(c) /\ c.items = <<>>
    <3>1. CASE c = Moved(t)
      BY <1>0, <3>1, MovedIsCycle, MovedIsEmpty
    <3>2. CASE c = [cycle[t] EXCEPT !.at = "upstream"]
      <4>1. /\ c.at = "upstream" /\ c.feed = cycle[t].feed /\ c.items = cycle[t].items
            /\ CycleT(c)
        BY <2>1, <3>2 DEF CycleT, Places
      <4> QED
        BY <2>1, <4>1 DEF ItemsT
    <3> QED
      BY <2>2, <3>1, <3>2
  <2> QED
    BY <1>0, <2>1, <2>2, <2>3, QuietKeeps
<1>4. ASSUME NEW t \in Threads, PollFails(t) PROVE KeptInv'
  <2>1. /\ cycle[t].items = <<>> /\ log' = log /\ cycle' = [cycle EXCEPT ![t] = Moved(t)]
    BY <1>4, <1>q DEF PollFails, At, session
  <2>2. CycleT(Moved(t)) /\ ItemsT(Moved(t)) /\ Moved(t).items = <<>>
    BY <1>0, MovedIsCycle, MovedIsEmpty
  <2> QED
    BY <1>0, <1>4, <2>1, <2>2, FailureCountsNothing, QuietKeeps
<1>5. CASE Stop \/ Batch
  BY <1>5, <1>s DEF Stop, Batch, record, session
<1>6. ASSUME NEW f \in Names, HoldEnds(f) PROVE KeptInv'
  BY <1>6, <1>s DEF HoldEnds, session
<1>7. ASSUME NEW f \in Flaky, UpstreamChanges(f) PROVE KeptInv'
  BY <1>7, <1>s DEF UpstreamChanges, record, session
<1>8. CASE UNCHANGED vars
  BY <1>8, <1>s DEF vars, record, session
<1> QED
  BY <1>0, <1>1, <1>2, <1>3, <1>4, <1>5, <1>6, <1>7, <1>8, SuccessCounts, AppendMoves
     DEF Next, Work

(* What a feed of events counted is in the session's list or about to be   *)
(* appended, once: record_success counts first, append_replay follows item *)
(* by item, and neither an overlapping cycle nor a failure of another feed *)
(* loses or doubles an event.                                              *)
THEOREM PolledEventsAreKept == Spec => []PolledIsKept
<1>1. Init => KeptInv
  <2> SUFFICES ASSUME Init PROVE KeptInv
    OBVIOUS
  <2>1. CycleOK /\ RecordOK
    BY CostStart DEF CostInv
  <2>2. /\ log \in Seq(Item) /\ DOMAIN log = {}
        /\ \A t \in Threads : cycle[t] = Idle
    <3>1. log = <<>> /\ cycle = [t \in Threads |-> Idle]
      BY DEF Init
    <3> QED
      BY <3>1, EmptySeq
  <2>3. \A t \in Threads : ItemsT(cycle[t]) /\ Len(cycle[t].items) = 0
    BY <2>2, MovedIsEmpty
  <2>4. ASSUME NEW f \in Names PROVE Kept(f)
    <3>1. health[f].total = 0
      BY DEF Init
    <3>2. Logged(f) = {}
      BY <2>2 DEF Logged
    <3>3. Queued(f) = {}
      <4>1. \A p \in Threads \X (1..MaxItems) : ~(p[2] <= Len(cycle[p[1]].items))
        BY <2>3, PollerBounds
      <4> QED
        BY <4>1 DEF Queued
    <3> QED
      BY <3>1, <3>2, <3>3, FS_EmptySet DEF Kept
  <2> QED
    BY <2>1, <2>2, <2>3, <2>4 DEF KeptInv
<1>2. KeptInv => PolledIsKept
  BY DEF KeptInv, Kept, PolledIsKept, Logged, Queued
<1> QED
  BY <1>1, <1>2, CostStart, CostStep, KeptStep, PTL DEF Spec
=============================================================================
