--------------------------- MODULE CommandCenter ---------------------------
(***************************************************************************)
(* The Command Center's front door and its image endpoints (api/app.py,    *)
(* create_app): every request passes the guard, a declared length, the     *)
(* host's bucket, the bearer token, in this order, before its handler.     *)
(***************************************************************************)
EXTENDS RateLimit, Images

CONSTANTS
    HostOf,   \* the host a thread's requests come from
    Center    \* the app whose analyzer has a mode endpoint

ASSUME CenterAssumption == HostOf \in [Clients -> Hosts] /\ Center \in Apps

vars == <<rateVars, imageVars>>

Init == RateInit /\ ImagesInit

\* Content-Length above the cap: 413 before anything is counted.  A request
\* without the token is counted before it is turned away.
Headers == [long : BOOLEAN, authorized : BOOLEAN]

\* api_guard_middleware in front of an upload or an attachment.
Request(c, i) ==
    \E h \in Headers :
        /\ At(c, "idle") /\ ~h.long
        /\ \/ /\ Spend(HostOf[c])
              /\ \/ h.authorized /\ (BeginUpload(c, i) \/ BeginAttach(c, i))
                 \/ ~h.authorized /\ UNCHANGED job
           \/ Refuse(HostOf[c]) /\ UNCHANGED job
        /\ UNCHANGED <<files, meta, facts, cache, mode>>

Clock == Tick /\ UNCHANGED imageVars

Handle(c) == /\ \/ Write(c) \/ Insert(c) \/ Evict(c) \/ Pop(c) \/ Unlink(c)
                \/ GetBytes(c) \/ Analyze(c) \/ Answer(c) \/ Finish(c)
             /\ UNCHANGED rateVars

Switch == SwitchMode(Center) /\ UNCHANGED rateVars

\* The process is started anew: the registry and the buckets are gone, the
\* files stay.
Restart ==
    /\ \E a \in Apps :
          /\ meta' = [meta EXCEPT ![a] = <<>>]
          /\ facts' = [facts EXCEPT ![a] = [i \in Images |-> {}]]
          /\ cache' = [cache EXCEPT ![a] = {}]
          /\ mode' = [mode EXCEPT ![a] = "mock"]
          /\ job' = [c \in Clients |-> IF AppOf[c] = a THEN Idle ELSE job[c]]
          /\ IF a = Center
             THEN /\ tokens' = [h \in Hosts |-> Capacity]
                  /\ since' = [h \in Hosts |-> 0]
                  /\ promise' = [h \in Hosts |-> None]
             ELSE UNCHANGED rateVars
    /\ UNCHANGED files

Next == \/ \E c \in Clients : Handle(c) \/ \E i \in Images : Request(c, i)
        \/ Clock \/ Switch \/ Restart

Spec == Init /\ [][Next]_vars

-----------------------------------------------------------------------------
(* Properties.                                                             *)

CenterTypeOK ==
    /\ RateTypeOK
    /\ files \subseteq Images
    /\ meta \in [Apps -> Seq(Images)]
    /\ facts \in [Apps -> [Images -> Known]]
    /\ cache \in [Apps -> SUBSET (Images \cup {Empty})]
    /\ mode \in [Apps -> Modes \cup {"mock"}]
    /\ job \in [Clients -> Job]

\* Threads that will look at the size of their registry again.
WillLook(a) ==
    {c \in Clients : /\ AppOf[c] = a
                     /\ \/ job[c].at \in {"evict", "unlink"}
                        \/ job[c].at = "pop" /\ job[c].old \in Keys(a)}

(* The registry is capped ("metadata registry capped", store.py:1-2): it   *)
(* holds too many entries only while a thread that will evict is under way *)
(* -- also when two of them chose the same victim and one of them fails.   *)
StoreIsCapped == \A a \in Apps : Len(meta[a]) > MaxEntries => WillLook(a) # {}

(* An upload that was let in is served: UploadResponse is its one answer.  *)
UploadIsServed ==
    [][\A c \in Clients : Pop(c) => job'[c].at # "idle"]_vars

(* What is attached to an incident describes the photograph named.         *)
EvidenceIsOfTheImage ==
    \A c \in Clients : \A f \in job[c].facts : f.of = job[c].image

(* The bytes of a registered image can be had (GET /api/images/../raw).    *)
KnownImageHasBytes == \A a \in Apps : Keys(a) \subseteq files

(* Evicted images take their bytes with them: no more files than entries   *)
(* and uploads under way (store.py:2, "oldest evicted").                   *)
BytesAreCapped ==
    Cardinality(files) <= Cardinality(Apps) * MaxEntries
                          + Cardinality({c \in Clients : ~At(c, "idle")})

=============================================================================
