------------------------- MODULE CommandCenterProofs -------------------------
(***************************************************************************)
(* The two promises of the front door, for any hosts, threads, images,     *)
(* rates and caps: a Retry-After is kept, and the registry is too large    *)
(* only while somebody is about to make it smaller.                        *)
(***************************************************************************)
EXTENDS CommandCenter, SequenceTheorems, TLAPS

(* A whole number of seconds long enough to refill what is missing. *)
LEMMA CeilCovers ==
    ASSUME NEW a \in Int, NEW b \in Nat \ {0}
    PROVE  /\ CeilDiv(a, b) \in Int
           /\ CeilDiv(a, b) * b >= a
           /\ a >= 1 => CeilDiv(a, b) \in 1..a
<1> DEFINE q == (a + b - 1) \div b
<1>1. q \in Int /\ b * q <= a + b - 1 /\ a + b - 1 < b * q + b
  BY Z3
<1>2. q * b = b * q /\ q * b \in Int
  BY <1>1
<1>3. q * b >= a
  BY <1>1, <1>2
<1>4. ASSUME a >= 1 PROVE q \in 1..a
  <2>1. q >= 1
    BY <1>1, <1>4, Z3
  <2>2. q <= a
    BY <1>1, <1>4, Z3
  <2> QED BY <2>1, <2>2, <1>1
<1> QED BY <1>1, <1>3, <1>4 DEF CeilDiv

(* More seconds refill more. *)
LEMMA MoreTimeRefillsMore ==
    ASSUME NEW a \in Int, NEW b \in Int, NEW p \in Nat, a <= b
    PROVE  a * p \in Int /\ b * p \in Int /\ a * p <= b * p
BY Z3

-----------------------------------------------------------------------------
(* The buckets.  While a promise stands, what is in the bucket and what the *)
(* time passed and the time still to wait add make a token.                 *)
Coming(h) == tokens[h] + (since[h] + promise[h]) * PerMinute
Kept(h)   == promise[h] # None => Coming(h) >= Token \/ since[h] = Second
RateInv   == RateTypeOK /\ \A h \in Hosts : Kept(h)

LEMMA Rates == /\ PerMinute \in Nat \ {0} /\ Token \in Nat \ {0} /\ Token = Second
               /\ Capacity \in Nat /\ Token <= Capacity
<1>1. PerMinute \in Nat \ {0} /\ Second \in Nat \ {0}
  BY RateAssumption DEF RateAssumption
<1>2. 1 * Second <= PerMinute * Second /\ PerMinute * Second \in Int
  BY <1>1, MoreTimeRefillsMore
<1> QED BY <1>1, <1>2 DEF Token, Capacity

LEMMA RefilledInBucket ==
    ASSUME RateTypeOK, NEW h \in Hosts
    PROVE  /\ Refilled(h) \in 0..Capacity
           /\ since[h] * PerMinute \in Nat
           /\ Refilled(h) = Capacity \/ Refilled(h) = tokens[h] + since[h] * PerMinute
<1>1. tokens[h] \in 0..Capacity /\ since[h] \in 0..Second
  BY DEF RateTypeOK
<1>2. 0 * PerMinute <= since[h] * PerMinute /\ since[h] * PerMinute \in Int
  BY <1>1, Rates, MoreTimeRefillsMore
<1> QED BY <1>1, <1>2, Rates DEF Refilled, Smaller

LEMMA RefusalPromisesEnough ==
    ASSUME RateTypeOK, NEW h \in Hosts, ~Allowed(h)
    PROVE  /\ RetryAfter(h) \in 1..Second
           /\ Refilled(h) + RetryAfter(h) * PerMinute >= Token
<1> DEFINE a == Token - Refilled(h)
           q == CeilDiv(a, PerMinute)
<1>1. a \in 1..Token
  BY RefilledInBucket, Rates DEF Allowed
<1>4. Refilled(h) \in Int /\ a = Token - Refilled(h)
  BY RefilledInBucket
<1> HIDE DEF a
<1>2. q \in 1..a /\ q * PerMinute >= a
  BY <1>1, Rates, CeilCovers
<1>3. RetryAfter(h) = q
  BY <1>2, <1>1, <1>4 DEF RetryAfter, Larger
<1> HIDE DEF q
<1>5. q * PerMinute \in Int
  BY <1>2, Rates, MoreTimeRefillsMore
<1> QED BY <1>1, <1>2, <1>3, <1>4, <1>5, Rates

LEMMA SpendKeeps == ASSUME RateInv, NEW h \in Hosts, Spend(h) PROVE RateInv'
<1>1. Refilled(h) - Token \in 0..Capacity
  BY RefilledInBucket, Rates DEF Spend, Allowed, RateInv
<1>2. RateTypeOK'
  BY <1>1, Rates DEF Spend, RateInv, RateTypeOK, None
<1>3. ASSUME NEW k \in Hosts PROVE Kept(k)'
  <2>1. CASE k = h
    BY <2>1 DEF Spend, RateInv, RateTypeOK, Kept
  <2>2. CASE k # h
    <3>1. tokens'[k] = tokens[k] /\ since'[k] = since[k] /\ promise'[k] = promise[k]
      BY <2>2 DEF Spend, RateInv, RateTypeOK
    <3> QED BY <3>1 DEF RateInv, Kept, Coming
  <2> QED BY <2>1, <2>2
<1> QED BY <1>2, <1>3 DEF RateInv

LEMMA RefuseKeeps == ASSUME RateInv, NEW h \in Hosts, Refuse(h) PROVE RateInv'
<1>1. /\ Refilled(h) \in 0..Capacity /\ RetryAfter(h) \in 1..Second
      /\ Refilled(h) + RetryAfter(h) * PerMinute >= Token
  BY RefilledInBucket, RefusalPromisesEnough DEF Refuse, RateInv
<1>2. RateTypeOK'
  BY <1>1, Rates DEF Refuse, RateInv, RateTypeOK
<1>3. ASSUME NEW k \in Hosts PROVE Kept(k)'
  <2>1. CASE k = h
    <3>1. tokens'[k] = Refilled(h) /\ since'[k] = 0 /\ promise'[k] = RetryAfter(h)
      BY <2>1 DEF Refuse, RateInv, RateTypeOK
    <3>2. since'[k] + promise'[k] = RetryAfter(h)
      BY <3>1, <1>1
    <3> QED BY <3>1, <3>2, <1>1 DEF Kept, Coming, Token
  <2>2. CASE k # h
    <3>1. tokens'[k] = tokens[k] /\ since'[k] = since[k] /\ promise'[k] = promise[k]
      BY <2>2 DEF Refuse, RateInv, RateTypeOK
    <3> QED BY <3>1 DEF RateInv, Kept, Coming
  <2> QED BY <2>1, <2>2
<1> QED BY <1>2, <1>3 DEF RateInv

LEMMA TickKeeps == ASSUME RateInv, Tick PROVE RateInv'
<1>1. ASSUME NEW k \in Hosts
      PROVE  /\ tokens[k] \in 0..Capacity /\ since[k] \in 0..Second /\ promise[k] \in -1..Second
             /\ tokens'[k] = tokens[k]
             /\ since'[k] = Smaller(Second, since[k] + 1)
             /\ promise'[k] = IF promise[k] > 0 THEN promise[k] - 1 ELSE promise[k]
  BY DEF Tick, RateInv, RateTypeOK
<1>2. \A k \in Hosts : since'[k] \in 0..Second /\ promise'[k] \in -1..Second
  BY <1>1, Rates DEF Smaller
<1>3. RateTypeOK'
  BY <1>2 DEF Tick, RateInv, RateTypeOK
<1>4. ASSUME NEW k \in Hosts PROVE Kept(k)'
  <2>1. CASE since[k] = Second \/ promise[k] = None
    BY <2>1, <1>1, Rates DEF Kept, Smaller, None
  <2>2. CASE since[k] # Second /\ promise[k] # None
    <3>1. since'[k] = since[k] + 1
      BY <2>2, <1>1, Rates DEF Smaller
    <3>2. since'[k] + promise'[k] \in Int /\ since[k] + promise[k] \in Int
      BY <1>1, <1>2
    <3>3. since[k] + promise[k] <= since'[k] + promise'[k]
      BY <2>2, <3>1, <1>1
    <3>4. /\ (since[k] + promise[k]) * PerMinute <= (since'[k] + promise'[k]) * PerMinute
          /\ (since[k] + promise[k]) * PerMinute \in Int
          /\ (since'[k] + promise'[k]) * PerMinute \in Int
      BY <3>2, <3>3, Rates, MoreTimeRefillsMore
    <3>5. Coming(k) >= Token
      BY <2>2 DEF RateInv, Kept
    <3>6. Coming(k)' >= Token
      BY <3>4, <3>5, <1>1, Rates DEF Coming
    <3> QED BY <3>6 DEF Kept, Token
  <2> QED BY <2>1, <2>2
<1> QED BY <1>3, <1>4 DEF RateInv

LEMMA PromiseIsKept == RateInv => RetryAfterIsHonest
<1> SUFFICES ASSUME RateInv, NEW h \in Hosts, promise[h] = 0 PROVE Allowed(h)
  BY DEF RetryAfterIsHonest
<1>1. /\ Refilled(h) = Capacity \/ Refilled(h) = tokens[h] + since[h] * PerMinute
      /\ tokens[h] \in 0..Capacity /\ since[h] \in 0..Second /\ since[h] * PerMinute \in Nat
  BY RefilledInBucket DEF RateInv, RateTypeOK
<1>2. Coming(h) >= Token \/ since[h] = Second
  BY DEF RateInv, Kept, None
<1>3. since[h] + promise[h] = since[h]
  BY <1>1
<1>4. tokens[h] + since[h] * PerMinute >= Token
  <2>1. CASE since[h] = Second
    BY <2>1, <1>1, Rates, RateAssumption DEF Capacity, Token, RateAssumption
  <2>2. CASE since[h] # Second
    BY <2>2, <1>2, <1>3 DEF Coming
  <2> QED BY <2>1, <2>2
<1> QED BY <1>1, <1>4, Rates DEF Allowed

-----------------------------------------------------------------------------
(* The image requests.  All but an idle one name an image. *)
Named == \A c \in Clients : job[c].at # "idle" => job[c].image \in Images
ImagesOK == /\ meta \in [Apps -> Seq(Images)] /\ job \in [Clients -> Job]
            /\ files \subseteq Images /\ facts \in [Apps -> [Images -> Known]]
            /\ cache \in [Apps -> SUBSET (Images \cup {Empty})]
            /\ mode \in [Apps -> Modes \cup {"mock"}] /\ Named

(* A thread's request goes on to another place. *)
LEMMA JobGoes ==
    ASSUME job \in [Clients -> Job], NEW c \in Clients, NEW place, Goes(c, place),
           place \in {"idle", "write", "insert", "evict", "pop", "unlink", "bytes",
                      "analyze", "live", "finish"}
    PROVE  /\ job' \in [Clients -> Job] /\ job'[c].at = place /\ job'[c].image = job[c].image
           /\ \A d \in Clients \ {c} : job'[d] = job[d]
BY DEF Goes, Job

(* It ends. *)
LEMMA JobDone ==
    ASSUME job \in [Clients -> Job], NEW c \in Clients, Done(c)
    PROVE  /\ job' \in [Clients -> Job] /\ job'[c] = Idle
           /\ \A d \in Clients \ {c} : job'[d] = job[d]
<1>1. Idle \in Job
  BY DEF Idle, Job, Known
<1> QED BY <1>1 DEF Done

(* It becomes j. *)
LEMMA JobBecomes ==
    ASSUME job \in [Clients -> Job], NEW c \in Clients, NEW j \in Job,
           job' = [job EXCEPT ![c] = j]
    PROVE  /\ job' \in [Clients -> Job] /\ job'[c] = j
           /\ \A d \in Clients \ {c} : job'[d] = job[d]
OBVIOUS

Looking == {"evict", "unlink", "pop"}

(* A registry that is not touched keeps its promise when a thread that was *)
(* not looking at it goes on.                                              *)
LEMMA CapStays ==
    ASSUME StoreIsCapped, UNCHANGED meta, NEW c \in Clients, job[c].at \notin Looking,
           \A d \in Clients \ {c} : job'[d] = job[d]
    PROVE  StoreIsCapped'
<1>1. \A a \in Apps : WillLook(a) \subseteq WillLook(a)'
  BY DEF WillLook, Looking, Keys
<1> QED BY <1>1 DEF StoreIsCapped

LEMMA RequestKeeps ==
    ASSUME ImagesOK, RateInv, StoreIsCapped, NEW c \in Clients, NEW i \in Images, Request(c, i)
    PROVE  ImagesOK' /\ RateInv' /\ StoreIsCapped'
<1>1. HostOf[c] \in Hosts
  BY CenterAssumption DEF CenterAssumption
<1>2. RateInv'
  BY <1>1, SpendKeeps, RefuseKeeps DEF Request
<1>3. /\ job' \in [Clients -> Job] /\ \A d \in Clients \ {c} : job'[d] = job[d]
      /\ Named'
  <2>1. CASE UNCHANGED job
    BY <2>1 DEF ImagesOK, Named
  <2>2. CASE BeginUpload(c, i)
    <3> DEFINE j == [Idle EXCEPT !.at = "write", !.kind = "upload", !.image = i, !.data = i]
    <3>1. j \in Job /\ job' = [job EXCEPT ![c] = j]
      BY <2>2 DEF BeginUpload, Idle, Job, Known
    <3>2. j.image = i
      BY DEF Idle
    <3> HIDE DEF j
    <3> QED BY <3>1, <3>2, JobBecomes DEF ImagesOK, Named
  <2>3. CASE BeginAttach(c, i)
    <3> DEFINE known == facts[AppOf[c]][i]
               j == [Idle EXCEPT !.at = IF known = {} THEN "bytes" ELSE "finish",
                                 !.kind = "attach", !.image = i, !.facts = known]
    <3>1. known \in Known
      BY ImagesAssumption DEF ImagesAssumption, ImagesOK
    <3>2. job' = [job EXCEPT ![c] = j]
      BY <2>3 DEF BeginAttach
    <3> HIDE DEF known
    <3>3. j \in Job
      BY <3>1 DEF Idle, Job
    <3>4. j.image = i
      BY DEF Idle
    <3> HIDE DEF j
    <3> QED BY <3>2, <3>3, <3>4, JobBecomes DEF ImagesOK, Named
  <2> QED BY <2>1, <2>2, <2>3 DEF Request
<1>4. /\ UNCHANGED <<files, meta, facts, cache, mode>> /\ job[c].at = "idle"
  BY DEF Request, At
<1>5. ImagesOK'
  BY <1>3, <1>4 DEF ImagesOK
<1>6. StoreIsCapped'
  BY <1>3, <1>4, CapStays DEF Looking
<1> QED BY <1>2, <1>5, <1>6

(* A key taken out of the registry. *)
LEMMA WithoutIsSeq ==
    ASSUME NEW S, NEW s \in Seq(S), NEW x, \E k \in DOMAIN s : s[k] = x
    PROVE  Without(s, x) \in Seq(S)
<1> DEFINE k == CHOOSE k \in DOMAIN s : s[k] = x
<1>1. k \in 1..Len(s) /\ \A j \in 1..Len(s) : s[j] \in S
  OBVIOUS
<1> HIDE DEF k
<1>2. SubSeq(s, 1, k - 1) \in Seq(S) /\ SubSeq(s, k + 1, Len(s)) \in Seq(S)
  <2>1. \A i \in 1..(k - 1) : s[i] \in S
    BY <1>1
  <2>2. \A i \in (k + 1)..Len(s) : s[i] \in S
    BY <1>1
  <2>3. k - 1 \in Int /\ k + 1 \in Int /\ Len(s) \in Int /\ 1 \in Int
    BY <1>1
  <2> QED BY <2>1, <2>2, <2>3, SubSeqProperties
<1>3. SubSeq(s, 1, k - 1) \o SubSeq(s, k + 1, Len(s)) \in Seq(S)
  BY <1>2, ConcatProperties
<1> QED BY <1>3 DEF Without, k

(* A thread that looks at its registry: it stays with it as long as the    *)
(* registry is too large, and the registry of others does not change.      *)
LEMMA CapMoves ==
    ASSUME ImagesOK, StoreIsCapped, NEW c \in Clients,
           \A b \in Apps : b # AppOf[c] => meta'[b] = meta[b],
           \A d \in Clients \ {c} : job'[d] = job[d],
           Len(meta'[AppOf[c]]) > MaxEntries => WillLook(AppOf[c])' # {}
    PROVE  StoreIsCapped'
<1> SUFFICES ASSUME NEW b \in Apps, Len(meta'[b]) > MaxEntries PROVE WillLook(b)' # {}
  BY DEF StoreIsCapped
<1>1. CASE b = AppOf[c]
  BY <1>1
<1>2. CASE b # AppOf[c]
  <2>1. meta'[b] = meta[b] /\ WillLook(b) # {}
    BY <1>2 DEF StoreIsCapped
  <2>2. WillLook(b) \subseteq WillLook(b)'
    BY <1>2, <2>1 DEF WillLook, Keys
  <2> QED BY <2>1, <2>2
<1> QED BY <1>1, <1>2

LEMMA HandleKeeps ==
    ASSUME ImagesOK, StoreIsCapped, NEW c \in Clients, Handle(c)
    PROVE  ImagesOK' /\ StoreIsCapped'
<1> DEFINE a == AppOf[c]
<1> USE DEF ImagesOK
<1>t. /\ a \in Apps /\ MaxEntries \in Nat \ {0} /\ job[c] \in Job /\ meta[a] \in Seq(Images)
      /\ job[c].at # "idle" => job[c].image \in Images
      /\ job[c].data \in Images \cup {Empty} /\ job[c].facts \in Known
  BY ImagesAssumption DEF ImagesAssumption, Job, Named
<1>g. ASSUME NEW place, Goes(c, place), job[c].at # "idle",
             place \in {"idle", "write", "insert", "evict", "pop", "unlink", "bytes",
                        "analyze", "live", "finish"}
      PROVE  /\ job' \in [Clients -> Job] /\ job'[c].at = place /\ Named'
             /\ \A d \in Clients \ {c} : job'[d] = job[d]
  BY <1>g, <1>t, JobGoes DEF Named
<1>d. ASSUME Done(c)
      PROVE  /\ job' \in [Clients -> Job] /\ Named'
             /\ \A d \in Clients \ {c} : job'[d] = job[d]
  <2>1. job' \in [Clients -> Job] /\ job'[c] = Idle /\ \A d \in Clients \ {c} : job'[d] = job[d]
    BY <1>d, JobDone
  <2>2. Idle.at = "idle"
    BY DEF Idle
  <2> QED BY <2>1, <2>2 DEF Named
<1>b. ASSUME NEW j \in Job, job' = [job EXCEPT ![c] = j], j.image \in Images
      PROVE  /\ job' \in [Clients -> Job] /\ job'[c] = j /\ Named'
             /\ \A d \in Clients \ {c} : job'[d] = job[d]
  BY <1>b, JobBecomes DEF Named
<1>1. ASSUME Write(c) PROVE ImagesOK' /\ StoreIsCapped'
  <2>1. /\ job' \in [Clients -> Job] /\ Named' /\ \A d \in Clients \ {c} : job'[d] = job[d]
    BY <1>1, <1>g DEF Write, At
  <2> QED BY <1>1, <1>t, <2>1, CapStays DEF Write, At, Looking
<1>2. ASSUME Insert(c) PROVE ImagesOK' /\ StoreIsCapped'
  <2> DEFINE i == job[c].image
  <2>1. CASE i \in Keys(a)
    <3>1. /\ job' \in [Clients -> Job] /\ Named' /\ \A d \in Clients \ {c} : job'[d] = job[d]
      BY <1>2, <2>1, <1>g DEF Insert, At
    <3> QED BY <1>2, <2>1, <3>1, CapStays DEF Insert, At, Looking
  <2>2. CASE i \notin Keys(a)
    <3>1. /\ job' \in [Clients -> Job] /\ Named' /\ job'[c].at = "evict"
          /\ \A d \in Clients \ {c} : job'[d] = job[d]
      BY <1>2, <2>2, <1>g DEF Insert, At
    <3>2. /\ meta' = [meta EXCEPT ![a] = Append(@, i)] /\ facts' = [facts EXCEPT ![a][i] = {}]
          /\ UNCHANGED <<files, cache, mode>> /\ i \in Images
      BY <1>2, <2>2, <1>t DEF Insert, At
    <3>3. Append(meta[a], i) \in Seq(Images)
      BY <3>2, <1>t
    <3>4. meta' \in [Apps -> Seq(Images)]
      <4> DEFINE S == Seq(Images)  s == Append(meta[a], i)
      <4>1. meta \in [Apps -> S] /\ s \in S /\ meta' = [meta EXCEPT ![a] = s]
        BY <3>2, <3>3
      <4> HIDE DEF S, s
      <4>2. meta' \in [Apps -> S]
        BY <4>1
      <4> QED BY <4>2 DEF S
    <3>5. facts' \in [Apps -> [Images -> Known]]
      BY <3>2, <1>t DEF Known
    <3>6. c \in WillLook(a)'
      BY <3>1 DEF WillLook
    <3>7. StoreIsCapped'
      BY <3>1, <3>2, <3>6, CapMoves
    <3> QED BY <3>1, <3>2, <3>4, <3>5, <3>7
  <2> QED BY <2>1, <2>2
<1>3. ASSUME Evict(c) PROVE ImagesOK' /\ StoreIsCapped'
  <2>0. UNCHANGED <<files, meta, facts, cache, mode>> /\ job[c].at = "evict"
    BY <1>3 DEF Evict, At
  <2>1. CASE Len(meta[a]) > MaxEntries
    <3> DEFINE j == [job[c] EXCEPT !.at = "pop", !.old = meta[a][1]]
    <3>1. 1 \in DOMAIN meta[a] /\ meta[a][1] \in Images
      BY <2>1, <1>t
    <3>2. j \in Job /\ j.at = "pop" /\ j.old = meta[a][1] /\ j.image = job[c].image
      BY <3>1, <1>t DEF Job
    <3>3. job' = [job EXCEPT ![c] = j]
      BY <1>3, <2>1 DEF Evict
    <3> HIDE DEF j
    <3>4. /\ job' \in [Clients -> Job] /\ Named' /\ job'[c] = j
          /\ \A d \in Clients \ {c} : job'[d] = job[d]
      BY <3>2, <3>3, <2>0, <1>t, <1>b
    <3>5. c \in WillLook(a)'
      BY <3>1, <3>2, <3>4, <2>0 DEF WillLook, Keys
    <3>6. StoreIsCapped'
      BY <3>4, <3>5, <2>0, CapMoves
    <3> QED BY <3>4, <3>6, <2>0
  <2>2. CASE ~(Len(meta[a]) > MaxEntries)
    <3>1. /\ job' \in [Clients -> Job] /\ Named' /\ \A d \in Clients \ {c} : job'[d] = job[d]
      BY <1>3, <2>2, <1>g DEF Evict, At
    <3>2. StoreIsCapped'
      BY <3>1, <2>0, <2>2, CapMoves
    <3> QED BY <3>1, <3>2, <2>0
  <2> QED BY <2>1, <2>2
<1>4. ASSUME Pop(c) PROVE ImagesOK' /\ StoreIsCapped'
  <2>0. UNCHANGED <<files, facts, cache, mode>> /\ job[c].at = "pop"
    BY <1>4 DEF Pop, At
  <2>1. CASE Registered(c, job[c].old)
    <3> DEFINE s == Without(meta[a], job[c].old)
    <3>1. meta' = [meta EXCEPT ![a] = s] /\ Goes(c, "unlink")
      BY <1>4, <2>1 DEF Pop
    <3>2. s \in Seq(Images)
      BY <2>1, <1>t, WithoutIsSeq DEF Registered, Keys
    <3> HIDE DEF s
    <3>3. meta' \in [Apps -> Seq(Images)]
      <4> DEFINE S == Seq(Images)
      <4>1. meta \in [Apps -> S] /\ s \in S
        BY <3>2
      <4> HIDE DEF S
      <4>2. meta' \in [Apps -> S]
        BY <4>1, <3>1
      <4> QED BY <4>2 DEF S
    <3>4. /\ job' \in [Clients -> Job] /\ Named' /\ job'[c].at = "unlink"
          /\ \A d \in Clients \ {c} : job'[d] = job[d]
      BY <3>1, <2>0, <1>g
    <3>5. c \in WillLook(a)'
      BY <3>4 DEF WillLook
    <3>6. StoreIsCapped'
      BY <3>1, <3>4, <3>5, CapMoves
    <3> QED BY <3>3, <3>4, <3>6, <2>0
  <2>2. CASE ~Registered(c, job[c].old)
    <3>1. UNCHANGED meta /\ Done(c)
      BY <1>4, <2>2 DEF Pop
    <3>2. /\ job' \in [Clients -> Job] /\ Named' /\ \A d \in Clients \ {c} : job'[d] = job[d]
      BY <3>1, <1>d
    <3>3. c \notin WillLook(a)
      BY <2>0, <2>2 DEF WillLook, Registered
    <3>4. WillLook(a) \subseteq WillLook(a)'
      BY <3>1, <3>2, <3>3 DEF WillLook, Keys
    <3>5. StoreIsCapped'
      BY <3>1, <3>2, <3>4, <1>t, CapMoves DEF StoreIsCapped
    <3> QED BY <3>1, <3>2, <3>5, <2>0
  <2> QED BY <2>1, <2>2
<1>5. ASSUME Unlink(c) PROVE ImagesOK' /\ StoreIsCapped'
  <2>1. /\ job' \in [Clients -> Job] /\ Named' /\ job'[c].at = "evict"
        /\ \A d \in Clients \ {c} : job'[d] = job[d]
        /\ UNCHANGED <<meta, facts, cache, mode>> /\ files' \subseteq Images
    BY <1>5, <1>g DEF Unlink, At
  <2>2. c \in WillLook(a)'
    BY <2>1 DEF WillLook
  <2>3. StoreIsCapped'
    BY <2>1, <2>2, CapMoves
  <2> QED BY <2>1, <2>3
<1>6. ASSUME GetBytes(c) PROVE ImagesOK' /\ StoreIsCapped'
  <2> DEFINE j == [job[c] EXCEPT !.at = "analyze",
                                 !.data = IF HasPath(c, job[c].image) THEN job[c].image ELSE Empty]
  <2>1. /\ job' = [job EXCEPT ![c] = j] /\ job[c].at = "bytes"
        /\ UNCHANGED <<files, meta, facts, cache, mode>>
    BY <1>6 DEF GetBytes, At
  <2>2. j \in Job /\ j.image \in Images
    BY <2>1, <1>t DEF Job
  <2> HIDE DEF j
  <2>3. /\ job' \in [Clients -> Job] /\ Named' /\ \A d \in Clients \ {c} : job'[d] = job[d]
    BY <2>1, <2>2, <1>b
  <2> QED BY <2>1, <2>3, CapStays DEF Looking
<1>f. ASSUME NEW b \in BOOLEAN PROVE {About(job[c].data, b)} \in Known
  BY <1>t DEF About, Known, Facts
<1>7. ASSUME Analyze(c) PROVE ImagesOK' /\ StoreIsCapped'
  <2>1. job[c].at = "analyze" /\ UNCHANGED <<files, meta, facts, cache, mode>>
    BY <1>7 DEF Analyze, At
  <2>2. \/ Goes(c, "live")
        \/ \E b \in BOOLEAN : job' = [job EXCEPT ![c].at = "finish", ![c].facts = {About(job[c].data, b)}]
    BY <1>7 DEF Analyze
  <2>3. /\ job' \in [Clients -> Job] /\ Named' /\ \A d \in Clients \ {c} : job'[d] = job[d]
    <3>1. CASE Goes(c, "live")
      BY <3>1, <2>1, <1>g
    <3>2. ASSUME NEW b \in BOOLEAN,
                 job' = [job EXCEPT ![c].at = "finish", ![c].facts = {About(job[c].data, b)}]
          PROVE  /\ job' \in [Clients -> Job] /\ Named'
                 /\ \A d \in Clients \ {c} : job'[d] = job[d]
      <4> DEFINE F == {About(job[c].data, b)}
                 j == [job[c] EXCEPT !.at = "finish", !.facts = F]
      <4>1. F \in Known /\ job' = [job EXCEPT ![c] = j]
        BY <3>2, <1>f
      <4> HIDE DEF F
      <4>2. j \in Job /\ j.image \in Images
        BY <4>1, <2>1, <1>t DEF Job
      <4> HIDE DEF j
      <4> QED BY <4>1, <4>2, <1>b
    <3> QED BY <3>1, <3>2, <2>2
  <2> QED BY <2>1, <2>3, CapStays DEF Looking
<1>8. ASSUME Answer(c) PROVE ImagesOK' /\ StoreIsCapped'
  <2>1. PICK b \in BOOLEAN :
          /\ job' = [job EXCEPT ![c].at = "finish", ![c].facts = {About(job[c].data, b)}]
          /\ cache' = IF b /\ mode[a] = "cache"
                      THEN [cache EXCEPT ![a] = @ \cup {job[c].data}] ELSE cache
    BY <1>8 DEF Answer
  <2>2. job[c].at = "live" /\ UNCHANGED <<files, meta, facts, mode>>
    BY <1>8 DEF Answer, At
  <2>3. cache' \in [Apps -> SUBSET (Images \cup {Empty})]
    BY <2>1, <1>t
  <2>4. /\ job' \in [Clients -> Job] /\ Named' /\ \A d \in Clients \ {c} : job'[d] = job[d]
    <3> DEFINE F == {About(job[c].data, b)}
               j == [job[c] EXCEPT !.at = "finish", !.facts = F]
    <3>1. F \in Known /\ job' = [job EXCEPT ![c] = j]
      BY <2>1, <1>f
    <3> HIDE DEF F
    <3>2. j \in Job /\ j.image \in Images
      BY <3>1, <2>2, <1>t DEF Job
    <3> HIDE DEF j
    <3> QED BY <3>1, <3>2, <1>b
  <2> QED BY <2>2, <2>3, <2>4, CapStays DEF Looking
<1>9. ASSUME Finish(c) PROVE ImagesOK' /\ StoreIsCapped'
  <2>1. /\ job' \in [Clients -> Job] /\ Named' /\ \A d \in Clients \ {c} : job'[d] = job[d]
    BY <1>9, <1>d DEF Finish
  <2>2. job[c].at = "finish" /\ UNCHANGED <<files, meta, cache, mode>>
    BY <1>9 DEF Finish, At
  <2>3. facts' \in [Apps -> [Images -> Known]]
    BY <1>9, <2>2, <1>t DEF Finish
  <2> QED BY <2>1, <2>2, <2>3, CapStays DEF Looking
<1> QED BY <1>1, <1>2, <1>3, <1>4, <1>5, <1>6, <1>7, <1>8, <1>9 DEF Handle

LEMMA RestartKeeps ==
    ASSUME ImagesOK, RateInv, StoreIsCapped, Restart
    PROVE  ImagesOK' /\ RateInv' /\ StoreIsCapped'
<1>1. PICK a \in Apps :
          /\ meta' = [meta EXCEPT ![a] = <<>>]
          /\ facts' = [facts EXCEPT ![a] = [i \in Images |-> {}]]
          /\ cache' = [cache EXCEPT ![a] = {}]
          /\ mode' = [mode EXCEPT ![a] = "mock"]
          /\ job' = [c \in Clients |-> IF AppOf[c] = a THEN Idle ELSE job[c]]
          /\ \/ /\ tokens' = [h \in Hosts |-> Capacity]
                /\ since' = [h \in Hosts |-> 0]
                /\ promise' = [h \in Hosts |-> None]
             \/ UNCHANGED rateVars
  BY DEF Restart
<1>2. files' = files
  BY DEF Restart
<1>3. RateInv'
  <2>1. CASE UNCHANGED rateVars
    BY <2>1 DEF rateVars, RateInv, RateTypeOK, Kept, Coming
  <2>2. CASE /\ tokens' = [h \in Hosts |-> Capacity]
             /\ since' = [h \in Hosts |-> 0]
             /\ promise' = [h \in Hosts |-> None]
    BY <2>2, Rates, RateAssumption DEF RateInv, RateTypeOK, Kept, None, RateAssumption
  <2> QED BY <1>1, <2>1, <2>2
<1>4. Idle \in Job /\ Idle.at = "idle"
  BY DEF Idle, Job, Known
<1>5. ImagesOK'
  <2>1. job' \in [Clients -> Job] /\ Named'
    BY <1>1, <1>4 DEF ImagesOK, Named
  <2>2. meta' \in [Apps -> Seq(Images)]
    <3> DEFINE S == Seq(Images)
    <3>1. meta \in [Apps -> S] /\ <<>> \in S
      BY DEF ImagesOK
    <3> HIDE DEF S
    <3>2. meta' \in [Apps -> S]
      BY <3>1, <1>1
    <3> QED BY <3>2 DEF S
  <2>3. [i \in Images |-> {}] \in [Images -> Known]
    BY DEF Known
  <2>4. facts' \in [Apps -> [Images -> Known]]
    <3> DEFINE S == [Images -> Known]  n == [i \in Images |-> {}]
    <3>1. facts \in [Apps -> S] /\ n \in S /\ facts' = [facts EXCEPT ![a] = n]
      BY <1>1, <2>3 DEF ImagesOK
    <3> HIDE DEF S, n
    <3>2. facts' \in [Apps -> S]
      BY <3>1
    <3> QED BY <3>2 DEF S
  <2>5. cache' \in [Apps -> SUBSET (Images \cup {Empty})] /\ mode' \in [Apps -> Modes \cup {"mock"}]
    BY <1>1 DEF ImagesOK
  <2> QED BY <2>1, <2>2, <2>4, <2>5, <1>2 DEF ImagesOK
<1>6. StoreIsCapped'
  <2> SUFFICES ASSUME NEW b \in Apps, Len(meta'[b]) > MaxEntries PROVE WillLook(b)' # {}
    BY DEF StoreIsCapped
  <2>1. CASE b = a
    <3>1. Len(meta'[b]) = 0 /\ MaxEntries \in Nat
      BY <2>1, <1>1, ImagesAssumption DEF ImagesOK, ImagesAssumption
    <3> QED BY <3>1
  <2>2. CASE b # a
    <3>1. meta'[b] = meta[b] /\ WillLook(b) # {}
      BY <2>2, <1>1 DEF StoreIsCapped, ImagesOK
    <3>2. WillLook(b) \subseteq WillLook(b)'
      BY <2>2, <3>1, <1>1 DEF WillLook, Keys
    <3> QED BY <3>1, <3>2
  <2> QED BY <2>1, <2>2
<1> QED BY <1>3, <1>5, <1>6

CenterInv == ImagesOK /\ RateInv /\ StoreIsCapped

LEMMA CenterStart == Init => CenterInv
<1> SUFFICES ASSUME Init PROVE CenterInv
  OBVIOUS
<1>1. RateInv
  BY Rates, RateAssumption
     DEF Init, RateInit, RateInv, RateTypeOK, Kept, None, RateAssumption
<1>2. Idle \in Job /\ Idle.at = "idle" /\ <<>> \in Seq(Images)
  BY DEF Idle, Job, Known
<1>3. ImagesOK
  BY <1>2 DEF Init, ImagesInit, ImagesOK, Known, Named
<1>4. StoreIsCapped
  BY ImagesAssumption DEF Init, ImagesInit, StoreIsCapped, ImagesAssumption
<1> QED BY <1>1, <1>3, <1>4 DEF CenterInv

LEMMA CenterStep == CenterInv /\ [Next]_vars => CenterInv'
<1> SUFFICES ASSUME CenterInv, [Next]_vars PROVE CenterInv'
  OBVIOUS
<1> USE DEF CenterInv
<1>r. ASSUME UNCHANGED rateVars PROVE RateInv'
  BY <1>r DEF rateVars, RateInv, RateTypeOK, Kept, Coming
<1>i. ASSUME UNCHANGED <<files, meta, facts, cache, job>>, mode' \in [Apps -> Modes \cup {"mock"}]
      PROVE  ImagesOK' /\ StoreIsCapped'
  <2>1. ImagesOK'
    BY <1>i DEF ImagesOK, Named
  <2>2. \A a \in Apps : WillLook(a)' = WillLook(a)
    BY <1>i DEF WillLook, Keys
  <2> QED BY <1>i, <2>1, <2>2 DEF StoreIsCapped
<1>1. ASSUME NEW c \in Clients, Handle(c) PROVE CenterInv'
  BY <1>1, <1>r, HandleKeeps DEF Handle
<1>2. ASSUME NEW c \in Clients, NEW i \in Images, Request(c, i) PROVE CenterInv'
  BY <1>2, RequestKeeps
<1>3. CASE Clock
  BY <1>3, <1>i, TickKeeps DEF Clock, imageVars, ImagesOK
<1>4. CASE Switch
  BY <1>4, <1>i, <1>r DEF Switch, SwitchMode, ImagesOK
<1>5. CASE Restart
  BY <1>5, RestartKeeps
<1>6. CASE UNCHANGED vars
  BY <1>6, <1>i, <1>r DEF vars, imageVars, ImagesOK
<1> QED BY <1>1, <1>2, <1>3, <1>4, <1>5, <1>6 DEF Next

(* The state is well typed in every reachable state. *)
THEOREM CenterTyped == Spec => []CenterTypeOK
<1>1. CenterInv => CenterTypeOK
  BY DEF CenterInv, ImagesOK, RateInv, CenterTypeOK
<1> QED BY <1>1, CenterStart, CenterStep, PTL DEF Spec

(* A registry with too many entries has a thread that will look at it again *)
(* -- also when two uploads choose the same victim and one of them fails    *)
(* (ImageStore.put, without a lock).                                        *)
THEOREM RegistryIsCapped == Spec => []StoreIsCapped
<1>1. CenterInv => StoreIsCapped
  BY DEF CenterInv
<1> QED BY <1>1, CenterStart, CenterStep, PTL DEF Spec

(* Whoever waits as long as the last Retry-After said is let in, whatever   *)
(* other requests of the host were refused meanwhile (_RateLimiter.take).   *)
THEOREM RetryAfterKept == Spec => []RetryAfterIsHonest
<1>1. CenterInv => RetryAfterIsHonest
  BY PromiseIsKept DEF CenterInv
<1> QED BY <1>1, CenterStart, CenterStep, PTL DEF Spec

=============================================================================
