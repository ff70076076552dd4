------------------------------- MODULE Images -------------------------------
(***************************************************************************)
(* Photographs as evidence: the store of vision/store.py (bytes in files   *)
(* named by their digest, a capped registry in memory), the analyzer of    *)
(* vision/analyzer.py, and the requests that use them (api/app.py, and     *)
(* serving/app.py with a registry of its own over the same directory).     *)
(*                                                                         *)
(* Requests interleave between the operations on the registry, which has   *)
(* no lock, the files, and the model.                                      *)
(***************************************************************************)
EXTENDS Integers, Sequences, FiniteSets

CONSTANTS
    Apps,        \* processes with a registry: the Command Center, ADIP
    Clients,     \* server threads
    AppOf,       \* the app of a thread
    Images,      \* the images that are sent, named by digest
    Empty,       \* the digest of no bytes
    Modes,       \* of an analyzer: mock, cache, live
    MaxEntries   \* MAX_STORE_ENTRIES

ASSUME ImagesAssumption ==
    /\ AppOf \in [Clients -> Apps]
    /\ Modes \subseteq {"mock", "cache", "live"}
    /\ MaxEntries \in Nat \ {0} /\ Empty \notin Images

VARIABLES
    files,     \* images whose bytes are on disk
    meta,      \* per app: the registry's keys, oldest first
    facts,     \* per app: the facts of registered images, {} where None
    cache,     \* per app: analyzer.cache, images with live facts
    mode,      \* per app: analyzer.mode
    job        \* per thread: its request

imageVars == <<files, meta, facts, cache, mode, job>>

Facts == [of : Images \cup {Empty}, ok : BOOLEAN]
Known == {{}} \cup {{f} : f \in Facts}
Idle  == [at |-> "idle", kind |-> "none", image |-> Empty, old |-> Empty,
          data |-> Empty, facts |-> {}]
Job   == [at : {"idle", "write", "insert", "evict", "pop", "unlink", "bytes",
                "analyze", "live", "finish"},
          kind : {"none", "upload", "attach"}, image : Images \cup {Empty},
          old : Images \cup {Empty}, data : Images \cup {Empty},
          facts : Known]

ImagesInit ==
    /\ files = {}
    /\ meta = [a \in Apps |-> <<>>]
    /\ facts = [a \in Apps |-> [i \in Images |-> {}]]
    /\ cache = [a \in Apps |-> {}]
    /\ mode = [a \in Apps |-> "mock"]
    /\ job = [c \in Clients |-> Idle]

-----------------------------------------------------------------------------
Keys(a) == {meta[a][k] : k \in DOMAIN meta[a]}
Registered(c, i) == i \in Keys(AppOf[c])
At(c, place) == job[c].at = place
Goes(c, place) == job' = [job EXCEPT ![c].at = place]
Done(c) == job' = [job EXCEPT ![c] = Idle]

\* POST /api/images with an image whose format is known (decode_b64 and
\* sniff_mime let it pass; what they refuse changes nothing).
BeginUpload(c, i) ==
    job' = [job EXCEPT ![c] = [Idle EXCEPT !.at = "write", !.kind = "upload",
                                           !.image = i, !.data = i]]

\* put: the bytes, unless the file is there.
Write(c) ==
    /\ At(c, "write")
    /\ files' = files \cup {job[c].image}
    /\ Goes(c, "insert")
    /\ UNCHANGED <<meta, facts, cache, mode>>

\* put: the entry, unless there is one.
Insert(c) ==
    LET a == AppOf[c]
        i == job[c].image
    IN
    /\ At(c, "insert")
    /\ IF i \in Keys(a) THEN Goes(c, "analyze") /\ UNCHANGED <<meta, facts>>
       ELSE /\ meta' = [meta EXCEPT ![a] = Append(@, i)]
            /\ facts' = [facts EXCEPT ![a][i] = {}]
            /\ Goes(c, "evict")
    /\ UNCHANGED <<files, cache, mode>>

\* put: while there are too many, the oldest is chosen ...
Evict(c) ==
    LET a == AppOf[c] IN
    /\ At(c, "evict")
    /\ IF Len(meta[a]) > MaxEntries
       THEN job' = [job EXCEPT ![c].at = "pop", ![c].old = meta[a][1]]
       ELSE Goes(c, "analyze")
    /\ UNCHANGED <<files, meta, facts, cache, mode>>

Without(s, i) == LET k == CHOOSE k \in DOMAIN s : s[k] = i
                 IN  SubSeq(s, 1, k - 1) \o SubSeq(s, k + 1, Len(s))

\* ... and taken out, unless another thread was faster: KeyError, a 500.
Pop(c) ==
    LET a == AppOf[c] IN
    /\ At(c, "pop")
    /\ IF Registered(c, job[c].old)
       THEN meta' = [meta EXCEPT ![a] = Without(@, job[c].old)] /\ Goes(c, "unlink")
       ELSE UNCHANGED meta /\ Done(c)
    /\ UNCHANGED <<files, facts, cache, mode>>

\* Broken: one eviction per upload.
UnlinkOnce(c) ==
    /\ At(c, "unlink")
    /\ files' = files \ {job[c].old}
    /\ Goes(c, "analyze")
    /\ UNCHANGED <<meta, facts, cache, mode>>

Unlink(c) ==
    /\ At(c, "unlink")
    /\ files' = files \ {job[c].old}
    /\ Goes(c, "evict")
    /\ UNCHANGED <<meta, facts, cache, mode>>

-----------------------------------------------------------------------------
(* The analyzer.  ImageStore.path gives the model a file to look at.       *)

HasPath(c, i) == Registered(c, i) /\ i \in files

About(data, b) == [of |-> data, ok |-> b]

\* analyze, up to the point where a model has to be asked: the mock and the
\* cache answer at once, without a path the answer is a failure.
Analyze(c) ==
    LET a == AppOf[c]
        data == job[c].data
    IN
    /\ At(c, "analyze")
    /\ \/ /\ mode[a] = "mock"
          /\ job' = [job EXCEPT ![c].at = "finish", ![c].facts = {About(data, TRUE)}]
       \/ /\ mode[a] = "cache" /\ data \in cache[a]
          /\ job' = [job EXCEPT ![c].at = "finish", ![c].facts = {About(data, TRUE)}]
       \/ /\ mode[a] # "mock" /\ ~(mode[a] = "cache" /\ data \in cache[a])
          /\ IF HasPath(c, job[c].image) THEN Goes(c, "live")
             ELSE job' = [job EXCEPT ![c].at = "finish", ![c].facts = {About(data, FALSE)}]
    /\ UNCHANGED <<files, meta, facts, cache, mode>>

\* _run_live: an answer, or an error, nonsense or the deadline; a good answer
\* is kept if the mode is (now) cache.
Answer(c) ==
    LET a == AppOf[c] IN
    /\ At(c, "live")
    /\ \E ok \in BOOLEAN :
          /\ job' = [job EXCEPT ![c].at = "finish", ![c].facts = {About(job[c].data, ok)}]
          /\ cache' = IF ok /\ mode[a] = "cache"
                      THEN [cache EXCEPT ![a] = @ \cup {job[c].data}] ELSE cache
    /\ UNCHANGED <<files, meta, facts, mode>>

\* set_facts, or KeyError when the image was evicted meanwhile; an
\* attachment goes to the engine (AttachImage of Engine).
Finish(c) ==
    LET a == AppOf[c]
        i == job[c].image
    IN
    /\ At(c, "finish")
    /\ facts' = IF job[c].kind = "upload" /\ i \in Keys(a)
                THEN [facts EXCEPT ![a][i] = job[c].facts] ELSE facts
    /\ Done(c)
    /\ UNCHANGED <<files, meta, cache, mode>>

\* POST /api/incidents/../images for a registered image; its facts are used,
\* or the bytes are analyzed again by the next step.
BeginAttach(c, i) ==
    /\ Registered(c, i)
    /\ LET known == facts[AppOf[c]][i] IN
       job' = [job EXCEPT ![c] = [Idle EXCEPT !.at = IF known = {} THEN "bytes" ELSE "finish",
                                              !.kind = "attach", !.image = i, !.facts = known]]

\* get_bytes, or nothing.
GetBytes(c) ==
    LET i == job[c].image IN
    /\ At(c, "bytes")
    /\ job' = [job EXCEPT ![c].at = "analyze",
                          ![c].data = IF HasPath(c, i) THEN i ELSE Empty]
    /\ UNCHANGED <<files, meta, facts, cache, mode>>

\* POST /api/vision/mode.
SwitchMode(a) ==
    /\ \E m \in Modes : mode' = [mode EXCEPT ![a] = m]
    /\ UNCHANGED <<files, meta, facts, cache, job>>

=============================================================================
