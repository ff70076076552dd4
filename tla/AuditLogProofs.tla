--------------------------- MODULE AuditLogProofs ---------------------------
(***************************************************************************)
(* The audit log for any number of threads, bodies and entries: the chain  *)
(* verifies in every state, acknowledged entries stay, and the file        *)
(* implements the append-only ledger across failures and restarts.         *)
(*                                                                         *)
(* The invariants are not inductive alone: a chain survives an insert only *)
(* because the link was computed from the rows that are still the visible  *)
(* ones, and they are because nobody else is past the lock.  LogInv adds   *)
(* the lock's discipline and what a draft knows of the visible rows.       *)
(***************************************************************************)
EXTENDS AuditLog, SequenceTheorems, TLAPS

-----------------------------------------------------------------------------
(* Chains *)

(* A row that carries the link of the last one extends a chain. *)
LEMMA LinkedAppend ==
    ASSUME NEW S, NEW s \in Seq(S), NEW e \in S,
           Linked(s), e.prev = LinkAfter(s)
    PROVE  Linked(Append(s, e))
<1> DEFINE t == Append(s, e)
<1>1. /\ Len(s) \in Nat /\ DOMAIN s = 1..Len(s)
      /\ t \in Seq(S) /\ Len(t) = Len(s) + 1
      /\ \A i \in 1..Len(s) : t[i] = s[i]
      /\ t[Len(s) + 1] = e
      /\ s # <<>> <=> Len(s) # 0
  BY LenProperties, AppendProperties, EmptySeq
<1>2. DOMAIN t = 1..(Len(s) + 1)
  BY <1>1, LenProperties
<1> HIDE DEF t
<1>3. ASSUME NEW k \in 1..(Len(s) + 1)
      PROVE  t[k].prev = IF k = 1 THEN Genesis ELSE Digest(t[k - 1])
  <2>1. CASE k = Len(s) + 1
    <3>1. t[k].prev = LinkAfter(s)
      BY <1>1, <2>1
    <3>2. k # 1 => t[k - 1] = s[Len(s)]
      BY <1>1, <2>1
    <3> QED
      BY <1>1, <2>1, <3>1, <3>2 DEF LinkAfter
  <2>2. CASE k # Len(s) + 1
    <3>1. k \in 1..Len(s) /\ t[k] = s[k]
      BY <1>1, <2>2
    <3>2. k # 1 => t[k - 1] = s[k - 1]
      BY <1>1, <3>1
    <3> QED
      BY <1>1, <3>1, <3>2 DEF Linked
  <2> QED
    BY <2>1, <2>2
<1>4. Linked(t)
  BY <1>2, <1>3 DEF Linked
<1> QED
  BY <1>4 DEF t

(* A row with a new id keeps the ids distinct. *)
LEMMA DistinctAppend ==
    ASSUME NEW S, NEW s \in Seq(S), NEW e \in S,
           DistinctIds(s), e.id \notin Ids(s)
    PROVE  DistinctIds(Append(s, e))
<1> DEFINE t == Append(s, e)
<1>1. /\ Len(s) \in Nat /\ DOMAIN s = 1..Len(s)
      /\ t \in Seq(S) /\ Len(t) = Len(s) + 1
      /\ \A i \in 1..Len(s) : t[i] = s[i]
      /\ t[Len(s) + 1] = e
  BY LenProperties, AppendProperties
<1>2. DOMAIN t = 1..(Len(s) + 1)
  BY <1>1, LenProperties
<1>3. \A i \in 1..Len(s) : t[i].id # e.id
  BY <1>1 DEF Ids
<1> HIDE DEF t
<1>4. ASSUME NEW j \in 1..(Len(s) + 1), NEW k \in 1..(Len(s) + 1), t[j].id = t[k].id
      PROVE  j = k
  BY <1>1, <1>3, <1>4 DEF DistinctIds
<1>5. DistinctIds(t)
  BY <1>2, <1>4 DEF DistinctIds
<1> QED
  BY <1>5 DEF t

(* What is said of a sequence of rows holds of its beginning. *)
LEMMA PrefixIsChain ==
    ASSUME NEW S, NEW s \in Seq(S), NEW t \in Seq(S)
    PROVE  /\ Linked(s \o t) => Linked(s)
           /\ DistinctIds(s \o t) => DistinctIds(s)
<1>1. /\ Len(s) \in Nat /\ Len(t) \in Nat /\ DOMAIN s = 1..Len(s)
      /\ DOMAIN (s \o t) = 1..(Len(s) + Len(t))
      /\ \A i \in 1..Len(s) : (s \o t)[i] = s[i]
  <2>1. Len(s) \in Nat /\ Len(t) \in Nat /\ DOMAIN s = 1..Len(s)
    BY LenProperties
  <2>2. s \o t \in Seq(S) /\ Len(s \o t) = Len(s) + Len(t)
    BY ConcatProperties
  <2>3. DOMAIN (s \o t) = 1..(Len(s) + Len(t))
    BY <2>2, LenProperties
  <2>4. \A i \in 1..Len(s) : (s \o t)[i] = s[i]
    BY <2>1, ConcatProperties
  <2> QED
    BY <2>1, <2>3, <2>4
<1>2. ASSUME Linked(s \o t), NEW k \in 1..Len(s)
      PROVE  s[k].prev = IF k = 1 THEN Genesis ELSE Digest(s[k - 1])
  <2>1. (s \o t)[k].prev = IF k = 1 THEN Genesis ELSE Digest((s \o t)[k - 1])
    BY <1>1, <1>2 DEF Linked
  <2>2. k # 1 => k - 1 \in 1..Len(s)
    BY <1>1
  <2> QED
    BY <1>1, <2>1, <2>2
<1>3. ASSUME DistinctIds(s \o t),
             NEW j \in 1..Len(s), NEW k \in 1..Len(s), s[j].id = s[k].id
      PROVE  j = k
  BY <1>1, <1>3 DEF DistinctIds
<1> QED
  BY <1>1, <1>2, <1>3 DEF Linked, DistinctIds

-----------------------------------------------------------------------------
(* The inductive invariant *)

\* file and open are sequences over one set of rows.
Rows == \E S : file \in Seq(S) /\ open \in Seq(S)

\* Whoever is inside append() holds the lock.
Exclusive == /\ pc \in [Writers -> Steps]
             /\ DOMAIN draft = Writers
             /\ \A w \in Writers : pc[w] # "idle" => lock = w

\* A built draft links to the rows that are visible now.
DraftsFit ==
    \A w \in Writers :
        /\ pc[w] = "built" => /\ draft[w].prev = LinkAfter(Visible)
                              /\ draft[w].id \in 1..MaxNumber
                              /\ draft[w].body \in Bodies
        /\ pc[w] = "inserted" => /\ open # <<>>
                                 /\ draft[w] = open[Len(open)]
                                 /\ draft[w].id \in 1..MaxNumber

RowsOK == \A k \in DOMAIN Visible : /\ Visible[k].id \in 1..MaxNumber
                                    /\ Visible[k].body \in Bodies

LogInv ==
    /\ Rows /\ Exclusive /\ DraftsFit /\ RowsOK
    /\ counter \in Nat /\ lock \in Writers \cup {NoWriter}
    /\ Linked(Visible) /\ DistinctIds(Visible)
    /\ AcknowledgedIsDurable

(* The log starts empty. *)
LEMMA LogInvInit == Init => LogInv
<1> SUFFICES ASSUME Init PROVE LogInv
  OBVIOUS
<1>1. file = <<>> /\ open = <<>> /\ Visible = <<>>
  <2>1. file = <<>> /\ open = <<>>
    BY DEF Init
  <2>2. <<>> \in Seq({})
    BY EmptySeq
  <2> QED
    BY <2>1, <2>2, ConcatEmptySeq DEF Visible
<1>2. DOMAIN Visible = {}
  BY <1>1
<1>3. Rows
  BY <1>1, EmptySeq DEF Rows
<1>4. Linked(Visible) /\ DistinctIds(Visible) /\ RowsOK
  BY <1>2 DEF Linked, DistinctIds, RowsOK
<1>5. Exclusive /\ DraftsFit /\ AcknowledgedIsDurable
  BY DEF Init, Exclusive, DraftsFit, Steps, AcknowledgedIsDurable
<1> QED
  BY <1>3, <1>4, <1>5 DEF LogInv, Init

(* Where the rows stay and no draft is made, only the lock's discipline is *)
(* at stake.                                                               *)
LEMMA QuietStep ==
    ASSUME LogInv, UNCHANGED <<file, open, acked>>,
           Exclusive', counter' \in Nat, lock' \in Writers \cup {NoWriter},
           \A w \in Writers : pc'[w] \in {"built", "inserted"} =>
                                pc'[w] = pc[w] /\ draft'[w] = draft[w]
    PROVE  LogInv'
<1>1. Visible' = Visible
  BY DEF Visible
<1>2. DraftsFit'
  BY <1>1 DEF LogInv, DraftsFit
<1>3. Rows' /\ RowsOK' /\ AcknowledgedIsDurable'
  BY <1>1 DEF LogInv, Rows, RowsOK, AcknowledgedIsDurable
<1>4. Linked(Visible)' /\ DistinctIds(Visible)'
  BY <1>1 DEF LogInv
<1> QED
  BY <1>2, <1>3, <1>4 DEF LogInv

(* Leaving append() frees the lock: nobody else was inside. *)
LEMMA LeaveIsExclusive ==
    ASSUME LogInv, NEW w \in Writers, pc[w] # "idle", Leave(w)
    PROVE  /\ Exclusive' /\ lock' = NoWriter
           /\ \A v \in Writers : pc'[v] = "idle"
<1>1. /\ pc \in [Writers -> Steps] /\ DOMAIN draft = Writers
      /\ \A v \in Writers : pc[v] # "idle" => lock = v
  BY DEF LogInv, Exclusive
<1>2. \A v \in Writers : v # w => pc[v] = "idle"
  BY <1>1
<1>3. \A v \in Writers : pc'[v] = "idle"
  BY <1>1, <1>2 DEF Leave
<1>4. pc' \in [Writers -> Steps] /\ DOMAIN draft' = Writers
  BY <1>1 DEF Leave, Steps
<1> QED
  BY <1>3, <1>4 DEF Exclusive, Leave

(* Appending a row at the end of open appends it at the end of Visible. *)
LEMMA VisibleAppend ==
    ASSUME NEW S, file \in Seq(S), open \in Seq(S), NEW e \in S,
           file' = file, open' = Append(open, e)
    PROVE  Visible' = Append(Visible, e)
<1>1. <<e>> \in Seq(S) /\ open' = open \o <<e>>
  BY AppendIsConcat
<1>2. file \o (open \o <<e>>) = (file \o open) \o <<e>>
  BY <1>1, ConcatAssociative
<1>3. file \o open \in Seq(S)
  BY ConcatProperties
<1>4. (file \o open) \o <<e>> = Append(file \o open, e)
  BY <1>3, AppendIsConcat
<1> QED
  BY <1>1, <1>2, <1>4 DEF Visible

-----------------------------------------------------------------------------
(* One lemma per action *)

(* Acquiring the lock preserves the invariant: it was free, all were idle. *)
LEMMA AcquireStep == ASSUME LogInv, NEW w \in Writers, Acquire(w) PROVE LogInv'
<1>1. /\ pc \in [Writers -> Steps] /\ DOMAIN draft = Writers
      /\ \A v \in Writers : pc[v] # "idle" => lock = v
      /\ counter \in Nat
  BY DEF LogInv, Exclusive
<1>2. \A v \in Writers : pc[v] = "idle"
  BY <1>1, AuditAssumption DEF Acquire
<1>3. \A v \in Writers : pc'[v] = IF v = w THEN "locked" ELSE "idle"
  BY <1>1, <1>2 DEF Acquire
<1>4. Exclusive'
  BY <1>1, <1>3 DEF Acquire, Exclusive, Steps
<1> QED
  BY <1>1, <1>3, <1>4, QuietStep DEF Acquire

(* So does numbering and linking the entry. *)
LEMMA BuildStep == ASSUME LogInv, NEW w \in Writers, Build(w) PROVE LogInv'
<1>1. /\ pc \in [Writers -> Steps] /\ DOMAIN draft = Writers
      /\ \A v \in Writers : pc[v] # "idle" => lock = v
      /\ counter \in Nat /\ lock \in Writers \cup {NoWriter}
  BY DEF LogInv, Exclusive
<1>2. PICK body \in Bodies :
        draft' = [draft EXCEPT ![w] = [id |-> counter + 1, body |-> body,
                                       prev |-> LinkAfter(Visible)]]
  BY DEF Build
<1>3. /\ pc[w] = "locked" /\ counter < MaxNumber /\ counter' = counter + 1
      /\ pc' = [pc EXCEPT ![w] = "built"]
      /\ UNCHANGED <<file, open, lock, acked>>
  BY DEF Build, At
<1>4. Visible' = Visible
  BY <1>3 DEF Visible
<1>5. Exclusive'
  BY <1>1, <1>2, <1>3 DEF Exclusive, Steps
<1>6. counter' \in Nat /\ counter + 1 \in 1..MaxNumber
  BY <1>1, <1>3, AuditAssumption
<1>7. DraftsFit'
  <2>1. ASSUME NEW v \in Writers, v # w
        PROVE  pc'[v] = "idle"
    BY <1>1, <1>3, <2>1
  <2>2. /\ pc'[w] = "built" /\ draft'[w].prev = LinkAfter(Visible)
        /\ draft'[w].id \in 1..MaxNumber /\ draft'[w].body \in Bodies
    BY <1>1, <1>2, <1>3, <1>6
  <2> QED
    BY <1>4, <2>1, <2>2 DEF DraftsFit
<1>8. Rows' /\ RowsOK' /\ AcknowledgedIsDurable' /\ Linked(Visible)' /\ DistinctIds(Visible)'
  BY <1>3, <1>4 DEF LogInv, Rows, RowsOK, AcknowledgedIsDurable
<1> QED
  BY <1>1, <1>3, <1>5, <1>6, <1>7, <1>8 DEF LogInv

(* So does inserting the row: its link is to the last visible one. *)
LEMMA InsertStep == ASSUME LogInv, NEW w \in Writers, Insert(w) PROVE LogInv'
<1>1. /\ pc \in [Writers -> Steps] /\ DOMAIN draft = Writers
      /\ \A v \in Writers : pc[v] # "idle" => lock = v
  BY DEF LogInv, Exclusive
<1>2. /\ pc[w] = "built" /\ draft[w].id \notin Ids(Visible)
      /\ open' = Append(open, draft[w])
      /\ pc' = [pc EXCEPT ![w] = "inserted"]
      /\ UNCHANGED <<file, counter, lock, draft, acked>>
  BY DEF Insert, At
<1>3. PICK S : file \in Seq(S) /\ open \in Seq(S) /\ draft[w] \in S
  <2>1. PICK T : file \in Seq(T) /\ open \in Seq(T)
    BY DEF LogInv, Rows
  <2>2. /\ T \subseteq T \cup {draft[w]} /\ draft[w] \in T \cup {draft[w]}
    OBVIOUS
  <2>3. file \in Seq(T \cup {draft[w]}) /\ open \in Seq(T \cup {draft[w]})
    BY <2>1, <2>2, SeqMonotonic
  <2> QED
    BY <2>2, <2>3
<1>4. Visible' = Append(Visible, draft[w])
  BY <1>2, <1>3, VisibleAppend
<1>5. Visible \in Seq(S) /\ Len(Visible) \in Nat /\ DOMAIN Visible = 1..Len(Visible)
  BY <1>3, ConcatProperties, LenProperties DEF Visible
<1>6. /\ draft[w].prev = LinkAfter(Visible) /\ draft[w].id \in 1..MaxNumber
      /\ draft[w].body \in Bodies
  BY <1>2 DEF LogInv, DraftsFit
<1>7. Linked(Visible)' /\ DistinctIds(Visible)'
  BY <1>2, <1>3, <1>4, <1>5, <1>6, LinkedAppend, DistinctAppend DEF LogInv
<1>8. RowsOK'
  <2>1. /\ DOMAIN Append(Visible, draft[w]) = 1..(Len(Visible) + 1)
        /\ \A i \in 1..Len(Visible) : Append(Visible, draft[w])[i] = Visible[i]
        /\ Append(Visible, draft[w])[Len(Visible) + 1] = draft[w]
    BY <1>3, <1>5, AppendProperties, LenProperties
  <2> QED
    BY <1>4, <1>5, <1>6, <2>1 DEF LogInv, RowsOK
<1>9. Rows' /\ Exclusive' /\ AcknowledgedIsDurable'
  <2>1. Rows'
    BY <1>2, <1>3, AppendProperties DEF Rows
  <2>2. Exclusive'
    BY <1>1, <1>2 DEF Exclusive, Steps
  <2> QED
    BY <1>2, <2>1, <2>2 DEF LogInv, AcknowledgedIsDurable
<1>10. DraftsFit'
  <2>1. ASSUME NEW v \in Writers, v # w
        PROVE  pc'[v] = "idle"
    BY <1>1, <1>2, <2>1
  <2>2. open' # <<>> /\ open'[Len(open')] = draft[w]
    BY <1>2, <1>3, AppendProperties, LenProperties
  <2>3. pc'[w] = "inserted"
    BY <1>1, <1>2
  <2> QED
    BY <1>2, <1>6, <2>1, <2>2, <2>3 DEF DraftsFit
<1> QED
  BY <1>2, <1>7, <1>8, <1>9, <1>10 DEF LogInv

(* So does a failing insert or commit: the rows stay as they are. *)
LEMMA FailStep ==
    ASSUME LogInv, NEW w \in Writers, InsertFails(w) \/ CommitFails(w)
    PROVE  LogInv'
<1>1. pc[w] # "idle" /\ Leave(w) /\ UNCHANGED <<file, open, counter, acked>>
  BY DEF InsertFails, CommitFails, At
<1>2. Exclusive' /\ lock' = NoWriter /\ \A v \in Writers : pc'[v] = "idle"
  BY <1>1, LeaveIsExclusive
<1> QED
  BY <1>1, <1>2, QuietStep DEF LogInv

(* So does the commit, which moves the open rows into the file and makes   *)
(* the entry, the last of them, durable.                                   *)
LEMMA CommitStep == ASSUME LogInv, NEW w \in Writers, Commit(w) PROVE LogInv'
<1>1. /\ pc[w] = "inserted" /\ Leave(w)
      /\ file' = Visible /\ open' = <<>> /\ acked' = acked \cup {draft[w]}
      /\ counter' = counter
  BY DEF Commit, At
<1>2. Exclusive' /\ lock' = NoWriter /\ \A v \in Writers : pc'[v] = "idle"
  BY <1>1, LeaveIsExclusive
<1>3. PICK S : file \in Seq(S) /\ open \in Seq(S)
  BY DEF LogInv, Rows
<1>4. Visible \in Seq(S) /\ Visible' = Visible
  BY <1>1, <1>3, ConcatProperties, ConcatEmptySeq DEF Visible
<1>5. Rows'
  BY <1>1, <1>4, EmptySeq DEF Rows
<1>6. AcknowledgedIsDurable'
  <2>1. /\ Len(file) \in Nat /\ DOMAIN file = 1..Len(file)
        /\ Len(open) \in Nat /\ DOMAIN Visible = 1..(Len(file) + Len(open))
        /\ \A i \in 1..(Len(file) + Len(open)) :
              Visible[i] = IF i <= Len(file) THEN file[i] ELSE open[i - Len(file)]
    BY <1>3, ConcatProperties, LenProperties DEF Visible
  <2>2. open # <<>> /\ draft[w] = open[Len(open)]
    BY <1>1 DEF LogInv, DraftsFit
  <2>3. Len(open) # 0
    BY <1>3, <2>2, EmptySeq
  <2>4. Visible[Len(file) + Len(open)] = draft[w]
    BY <2>1, <2>2, <2>3
  <2>5. \A e \in acked : \E k \in DOMAIN file : file[k] = e
    BY DEF LogInv, AcknowledgedIsDurable
  <2>6. \A k \in DOMAIN file : k \in DOMAIN Visible /\ Visible[k] = file[k]
    BY <2>1
  <2>7. Len(file) + Len(open) \in DOMAIN Visible
    BY <2>1, <2>3
  <2> QED
    BY <1>1, <2>4, <2>5, <2>6, <2>7 DEF AcknowledgedIsDurable
<1>7. DraftsFit' /\ RowsOK' /\ Linked(Visible)' /\ DistinctIds(Visible)'
  BY <1>2, <1>4 DEF LogInv, DraftsFit, RowsOK
<1> QED
  BY <1>1, <1>2, <1>5, <1>6, <1>7 DEF LogInv

(* So does a crash and restart: what is left is the beginning of a chain.  *)
LEMMA RestartStep == ASSUME LogInv, Restart PROVE LogInv'
<1>1. PICK S : file \in Seq(S) /\ open \in Seq(S)
  BY DEF LogInv, Rows
<1>2. /\ file' = file /\ open' = <<>> /\ counter' = Len(file) /\ lock' = NoWriter
      /\ pc' = [w \in Writers |-> "idle"] /\ draft' = [w \in Writers |-> NoDraft]
      /\ acked' = acked
  BY DEF Restart
<1>3. Visible' = file
  BY <1>1, <1>2, ConcatEmptySeq DEF Visible
<1>4. Linked(Visible)' /\ DistinctIds(Visible)'
  BY <1>1, <1>3, PrefixIsChain DEF LogInv, Visible
<1>5. RowsOK'
  <2>1. \A k \in DOMAIN file : k \in DOMAIN Visible /\ Visible[k] = file[k]
    BY <1>1, ConcatProperties, LenProperties DEF Visible
  <2> QED
    BY <1>3, <2>1 DEF LogInv, RowsOK
<1>6. Rows' /\ counter' \in Nat
  BY <1>1, <1>2, EmptySeq, LenProperties DEF Rows
<1>7. Exclusive' /\ DraftsFit' /\ AcknowledgedIsDurable'
  BY <1>2 DEF LogInv, Exclusive, DraftsFit, AcknowledgedIsDurable, Steps
<1> QED
  BY <1>2, <1>4, <1>5, <1>6, <1>7 DEF LogInv

(* LogInv is inductive. *)
LEMMA LogInvStep == LogInv /\ [Next]_vars => LogInv'
<1> SUFFICES ASSUME LogInv, [Next]_vars PROVE LogInv'
  OBVIOUS
<1>1. CASE UNCHANGED vars
  BY <1>1, QuietStep DEF vars, LogInv, Exclusive
<1>2. ASSUME NEW w \in Writers, Acquire(w) PROVE LogInv'
  BY <1>2, AcquireStep
<1>3. ASSUME NEW w \in Writers, Build(w) PROVE LogInv'
  BY <1>3, BuildStep
<1>4. ASSUME NEW w \in Writers, Insert(w) PROVE LogInv'
  BY <1>4, InsertStep
<1>5. ASSUME NEW w \in Writers, InsertFails(w) \/ CommitFails(w) PROVE LogInv'
  BY <1>5, FailStep
<1>6. ASSUME NEW w \in Writers, Commit(w) PROVE LogInv'
  BY <1>6, CommitStep
<1>7. CASE Restart
  BY <1>7, RestartStep
<1> QED
  BY <1>1, <1>2, <1>3, <1>4, <1>5, <1>6, <1>7 DEF Next

(* The inductive invariant of the log (audit/log.py:79-182). *)
THEOREM LogInvariant == Spec => []LogInv
BY LogInvInit, LogInvStep, PTL DEF Spec

-----------------------------------------------------------------------------
(* What the log promises *)

(* Counters, cursors and rows always have their shape. *)
THEOREM AuditTypeCorrect == Spec => []AuditTypeOK
<1>1. LogInv => AuditTypeOK
  BY DEF LogInv, Exclusive, DraftsFit, RowsOK, AuditTypeOK
<1> QED
  BY <1>1, LogInvariant, PTL

(* The chain verifies in every state, also in the middle of an append and  *)
(* after a failed one, for any number of threads.                          *)
THEOREM ChainAlwaysIntact == Spec => []ChainIntact
<1>1. LogInv => ChainIntact
  BY DEF LogInv, ChainIntact
<1> QED
  BY <1>1, LogInvariant, PTL

(* What append() returned stays in the file, whatever fails later. *)
THEOREM AcknowledgedStays == Spec => []AcknowledgedIsDurable
<1>1. LogInv => AcknowledgedIsDurable
  BY DEF LogInv
<1> QED
  BY <1>1, LogInvariant, PTL

(* Every step of the log extends the file by a valid tail or leaves it.    *)
LEMMA FileStep ==
    ASSUME LogInv, [Next]_vars
    PROVE  Ledger!Extend \/ file' = file
<1>1. CASE \E w \in Writers : Commit(w)
  <2>1. PICK w \in Writers : Commit(w)
    BY <1>1
  <2>2. pc[w] = "inserted" /\ file' = file \o open
    BY <2>1 DEF Commit, At, Visible
  <2>3. PICK S : file \in Seq(S) /\ open \in Seq(S)
    BY DEF LogInv, Rows
  <2>4. Len(open) \in Nat \ {0} /\ Len(file) \in Nat
    BY <2>2, <2>3, EmptySeq, LenProperties DEF LogInv, DraftsFit
  <2>5. file \o open \in Seq(S) /\ Len(file \o open) = Len(file) + Len(open)
    BY <2>3, ConcatProperties
  <2>6. SubSeq(file \o open, 1, Len(file)) = file
    <3>1. CASE Len(file) = 0
      <4>1. file = <<>>
        BY <2>3, <3>1, EmptySeq
      <4> QED
        BY <3>1, <4>1, SubSeqEmpty
    <3>2. CASE Len(file) # 0
      <4>1. 1 \in 1..Len(file) /\ Len(file) \in 1..Len(file)
        BY <2>4, <3>2
      <4>2. SubSeq(file \o open, 1, Len(file)) = SubSeq(file, 1, Len(file))
        BY <2>3, <4>1, SubSeqOfConcat1
      <4> QED
        BY <2>3, <4>2, SubSeqFull
    <3> QED
      BY <3>1, <3>2
  <2>7. Ledger!Extends(file', file)
    BY <2>2, <2>4, <2>5, <2>6 DEF Ledger!Extends
  <2>8. Ledger!Linked(file') /\ Ledger!DistinctIds(file')
    BY <2>2 DEF LogInv, Visible, Linked, DistinctIds, Digest, Genesis,
                Ledger!Linked, Ledger!DistinctIds, Ledger!Digest, Ledger!Genesis
  <2> QED
    BY <2>7, <2>8 DEF Ledger!Extend
<1>2. CASE ~\E w \in Writers : Commit(w)
  BY <1>2 DEF Next, vars, Acquire, Build, Insert, InsertFails, CommitFails, Restart
<1> QED
  BY <1>1, <1>2

(* The committed rows implement the append-only ledger, across failures    *)
(* and restarts (Invariant 8).                                             *)
THEOREM FileImplementsLedger == Spec => ImplementsLedger
<1>1. Init => Ledger!Init
  BY DEF Init, Ledger!Init
<1>2. LogInv /\ [Next]_vars => [Ledger!Extend]_file
  BY FileStep
<1> QED
  BY <1>1, <1>2, LogInvariant, PTL DEF Spec, ImplementsLedger, Ledger!Spec
=============================================================================
