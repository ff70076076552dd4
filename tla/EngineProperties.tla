-------------------------- MODULE EngineProperties --------------------------
(***************************************************************************)
(* What the engine promises about units, decisions, validations and the    *)
(* What-If sandbox.                                                        *)
(***************************************************************************)
EXTENDS Engine

Record ==
    [id : 1..MaxIds, inc : Incidents,
     state : DecisionStates \cup {"OVERRIDE_ACTIVE"}, priority : Priorities,
     recommended : Seq(ResourceTypes), units : Seq(Units),
     over : OverrideTypes \cup {"NONE"}, glass : BOOLEAN]

IncidentRecord ==
    [kind : Kind, hard : BOOLEAN, units : Seq(Units), evidence : 0..MaxIds,
     lifecycle : {"DETECTED", "VALIDATED", "PRIORITIZED", "RESOURCE_ASSIGNED"}]

(* Every store holds rows the API can serialise, and refers only to units, *)
(* incidents and decisions that exist.                                     *)
EngineTypeOK ==
    /\ \A k \in DOMAIN raw : raw[k] \in [ev : Nat, inc : Incidents, kind : Kind,
                                         hard : BOOLEAN]
    /\ DOMAIN incidents \subseteq Incidents
    /\ \A i \in DOMAIN incidents : incidents[i] \in IncidentRecord
    /\ \A k \in DOMAIN history : history[k] \in Record
    /\ \A i \in Incidents : cache[i] = NoRecord \/ cache[i] \in Record
    /\ processed \in Nat /\ generated \in Nat /\ numbered \in Nat /\ cachedLen \in Nat
    /\ \A e \in DOMAIN validated : validated[e] \in [inc : Incidents, hard : BOOLEAN]
    /\ hardIndex \subseteq Incidents
    /\ pool \in [Units -> Incidents \cup {Free}]
    /\ counter \in 0..MaxIds /\ rejects \in 0..MaxRejects
    /\ position \in Positions /\ paused \in BOOLEAN /\ auditFailed \in BOOLEAN
    /\ \A c \in Clients : tasks[c].op \in {"idle", "pending", "batch", "asking", "dryRuns",
                                           "reoptimise", "whatIf"}

-----------------------------------------------------------------------------
(* Units *)

(* No unit drives to an incident without a decision of this session that   *)
(* sends it there: whatever fails in between, the pool never says more     *)
(* than the decision history can account for.                              *)
NoPhantomDispatch ==
    \A u \in Units : pool[u] # Free =>
        \E k \in DOMAIN history : /\ history[k].inc = pool[u]
                                  /\ u \in Elems(history[k].units)

\* switch_policy has released the units of i and asks Laya about it.
BeingRedone(i) == \E c \in Clients : /\ tasks[c].op = "asking"
                                     /\ tasks[c].back = "reoptimise"
                                     /\ tasks[c].about.inc = i

(* The units a system decision lists are really held for its incident as   *)
(* long as it is the incident's latest decision: the decisions, overrides  *)
(* and reoptimisations that other requests make while Laya is asked about  *)
(* this or another incident never take one away.  Only the request that    *)
(* decides the incident again gives them up, until it is answered.         *)
LatestDispatchHolds ==
    \A i \in Incidents :
        LET r == LastRecord(i)
        IN  (r # NoRecord /\ r.over = "NONE" /\ ~BeingRedone(i))
                => \A u \in Elems(r.units) : pool[u] = i

\* switch_policy takes incident i up again.
TakenUpAgain(i) == \E c \in Clients : /\ tasks[c].op = "reoptimise" /\ tasks[c].todo # <<>>
                                      /\ Head(tasks[c].todo).inc = i
                                      /\ tasks'[c].op # "reoptimise"

(* A unit on its way to one incident is never sent to another, and is      *)
(* taken from it only by a new session or by the request that decides that *)
(* very incident again -- also when the list it releases by is an old one  *)
(* and another incident holds the unit by now.                             *)
NoSilentSteal ==
    [][\A u \in Units : pool[u] # Free =>
          \/ pool'[u] = pool[u]
          \/ pool'[u] = Free /\ (history' = <<>> \/ TakenUpAgain(pool[u]))]_vars

-----------------------------------------------------------------------------
(* Decisions *)

(* Invariant 1 over time: once a report of an incident was hard-rejected,  *)
(* no later system decision of the session gives it an automated priority. *)
HardRejectionSticks ==
    \A j, k \in DOMAIN history :
        (j < k /\ history[j].inc = history[k].inc
               /\ history[j].state = "REJECTED_INPUT" /\ history[k].over = "NONE")
            => history[k].state = "REJECTED_INPUT"

(* Decision ids name one decision each and grow with time, although dry    *)
(* runs and What-If runs draw ids and give them back.                      *)
IdsAreFresh ==
    /\ \A j, k \in DOMAIN history : j < k => history[j].id < history[k].id
    /\ \A k \in DOMAIN history : history[k].id <= counter

(* Whoever asks for the latest decision of an incident decided in this     *)
(* session gets the last one made, overrides included, although the cache  *)
(* behind the answer is checked by its length only.                        *)
LatestIsCurrent ==
    \A i \in Incidents : LastRecord(i) # NoRecord => Refreshed[i] = LastRecord(i)

(* The comment above the two validation views (engine.py:676): they "can   *)
(* never drift apart".  An incident is indexed as hard-rejected exactly if *)
(* a validated event says so.                                              *)
ViewsNeverDrift ==
    hardIndex = {validated[e].inc : e \in {e \in DOMAIN validated : validated[e].hard}}

AllIdle == \A c \in Clients : tasks[c] = Idle

(* feeds/base.py:4: process_pending() "decides on them exactly as it does  *)
(* simulated events".  When no request is running, every report that came  *)
(* in has been taken up and every incident has a decision.                 *)
NothingLeftUndecided ==
    AllIdle => /\ processed = Len(raw)
               /\ \A i \in DOMAIN incidents : LastRecord(i) # NoRecord

-----------------------------------------------------------------------------
(* What-If *)

(* Invariants 6 and 15, and live_state_mutated=false: whatever a What-If   *)
(* run does to the live simulation, its rollback puts back exactly what    *)
(* was there, and what the rollback does not restore was never touched.    *)
WhatIfLeavesNoTrace ==
    [][\A c \in Clients : (tasks[c] = Idle /\ tasks'[c].op = "whatIf")
          => /\ RolledBack(tasks[c].saved)' =
                    [raw |-> raw, incidents |-> incidents, counter |-> counter,
                     generated |-> generated, numbered |-> numbered]
             /\ UNCHANGED <<paused, validVars, history, cache, cachedLen, auditVars,
                            pool, position>>]_vars

(* engine.py:89: "every side effect the sandbox would otherwise leave on    *)
(* live state" is rolled back, and nothing else.  An incident with a live  *)
(* decision never disappears when a What-If run ends, though other         *)
(* requests ran in between.                                                *)
WhatIfKeepsDecidedIncidents ==
    [][\A c \in Clients : (tasks[c].op = "whatIf" /\ tasks'[c] = Idle)
          => \A i \in DOMAIN incidents :
                LastRecord(i) # NoRecord => i \in DOMAIN incidents']_vars

-----------------------------------------------------------------------------
(* What documentation and messages promise, and the code does not do *)

IsNew(over) == /\ Len(history') = Len(history) + 1
               /\ history'[Len(history')].over = over
Newest == history[Len(history)]

(* The warning an operator confirms (friction.py:107): "dismissing this    *)
(* incident releases N assigned unit(s)".                                  *)
DismissReleasesUnits ==
    [][IsNew("DISMISS_INCIDENT") =>
          \A u \in Elems(Newest.units)' : pool'[u] # Newest'.inc]_vars

(* docs/jevcity/API.md:93: on reoptimisation "open incidents are           *)
(* re-decided and their units released/reassigned".  A re-decided incident *)
(* holds only units its new decision lists.                                *)
ReoptimiseReleasesUnits ==
    [][\A c \in Clients :
          (tasks[c].op = "asking" /\ tasks[c].back = "reoptimise" /\ tasks[c] # tasks'[c]
            /\ IsNew("NONE")) =>
              \A u \in Units : pool'[u] = Newest'.inc => u \in Elems(Newest.units)']_vars

(* docs/jevcity/API.md:120: audit_write_failed "turns true while the       *)
(* append-only audit log rejects a write".                                 *)
RejectedWriteRaisesBanner == [][rejects' > rejects => auditFailed']_vars

(* friction.py:7: a "priority raise on a life-safety incident" needs       *)
(* break_glass=true.  The raise counted here is the one that takes effect: *)
(* above the priority the incident had until then.                         *)
RaiseNeedsBreakGlass ==
    [][(IsNew("CHANGE_PRIORITY") /\ LifeSafety(Newest'.inc))
          => (Newest'.priority > LastRecord(Newest'.inc).priority => Newest'.glass)]_vars

(* schemas/vision_api.py:17: an attachment cites the incident's latest     *)
(* decision id.  A cited decision is one of the current session.           *)
EvidenceCitesThisSession ==
    \A i \in DOMAIN incidents :
        incidents[i].evidence # 0 =>
            \E k \in DOMAIN history : history[k].id = incidents[i].evidence

=============================================================================
