------------------------------ MODULE AuditLog ------------------------------
(***************************************************************************)
(* audit/log.py: threads of one process append to an SQLite table through  *)
(* one shared connection.  An append holds a lock while it numbers and     *)
(* links the entry, inserts the row and commits.  The insert and the       *)
(* commit may fail, the process may die between any two steps and be       *)
(* started again.                                                          *)
(***************************************************************************)
EXTENDS AuditChain, FiniteSets

CONSTANTS
    Writers,   \* threads that append
    Bodies,    \* what there is to record
    NoWriter,  \* the free lock
    MaxNumber  \* bound of the model on the entry counter

ASSUME AuditAssumption == NoWriter \notin Writers /\ MaxNumber \in Nat

VARIABLES
    file,     \* the committed rows, what survives a crash
    open,     \* rows inserted in the connection's open transaction
    counter,  \* AuditLog._counter
    lock,     \* AuditLog._lock
    pc,       \* where a writer is in append()
    draft,    \* the AuditEntry a writer has built
    acked     \* entries append() has returned (no variable of the code)

vars == <<file, open, counter, lock, pc, draft, acked>>

Steps == {"idle", "locked", "built", "inserted"}

\* What the shared connection reads: its own uncommitted rows included.
Visible == file \o open

Ids(s) == {s[k].id : k \in DOMAIN s}

NoDraft == [id |-> 0]

Init == /\ file = <<>> /\ open = <<>> /\ counter = 0
        /\ lock = NoWriter
        /\ pc = [w \in Writers |-> "idle"]
        /\ draft = [w \in Writers |-> NoDraft]
        /\ acked = {}

At(w, step) == pc[w] = step

\* Leave append(), with a result or with an exception.
Leave(w) == /\ pc' = [pc EXCEPT ![w] = "idle"]
            /\ draft' = [draft EXCEPT ![w] = NoDraft]
            /\ lock' = NoWriter

\* Broken: an append does not wait for its turn.
AcquireUnlocked(w) == /\ At(w, "idle")
                      /\ lock' = w
                      /\ pc' = [pc EXCEPT ![w] = "locked"]
                      /\ UNCHANGED <<file, open, counter, draft, acked>>

Acquire(w) == /\ At(w, "idle") /\ lock = NoWriter
              /\ lock' = w
              /\ pc' = [pc EXCEPT ![w] = "locked"]
              /\ UNCHANGED <<file, open, counter, draft, acked>>

\* Number the entry and link it to the last row this connection sees.
Build(w) ==
    /\ At(w, "locked") /\ counter < MaxNumber
    /\ counter' = counter + 1
    /\ \E body \in Bodies :
         draft' = [draft EXCEPT ![w] = [id |-> counter + 1, body |-> body,
                                        prev |-> LinkAfter(Visible)]]
    /\ pc' = [pc EXCEPT ![w] = "built"]
    /\ UNCHANGED <<file, open, lock, acked>>

\* Broken: the table takes a number twice.
InsertAny(w) ==
    /\ At(w, "built")
    /\ open' = Append(open, draft[w])
    /\ pc' = [pc EXCEPT ![w] = "inserted"]
    /\ UNCHANGED <<file, counter, lock, draft, acked>>

\* entry_id is the primary key.
Insert(w) ==
    /\ At(w, "built") /\ draft[w].id \notin Ids(Visible)
    /\ open' = Append(open, draft[w])
    /\ pc' = [pc EXCEPT ![w] = "inserted"]
    /\ UNCHANGED <<file, counter, lock, draft, acked>>

\* The key is taken, or the store refuses (locked, full): append() raises.
InsertFails(w) == /\ At(w, "built")
                  /\ Leave(w)
                  /\ UNCHANGED <<file, open, counter, acked>>

\* Broken: append() returns before the commit.
CommitLater(w) == /\ At(w, "inserted")
                  /\ acked' = acked \cup {draft[w]}
                  /\ Leave(w)
                  /\ UNCHANGED <<file, open, counter>>

Commit(w) == /\ At(w, "inserted")
             /\ file' = Visible /\ open' = <<>>
             /\ acked' = acked \cup {draft[w]}
             /\ Leave(w)
             /\ UNCHANGED counter

\* append() raises and the transaction stays open.
CommitFails(w) == /\ At(w, "inserted")
                  /\ Leave(w)
                  /\ UNCHANGED <<file, open, counter, acked>>

\* The process dies; a new one opens the file and counts its rows.
Restart == /\ open' = <<>>
           /\ counter' = Len(file)
           /\ lock' = NoWriter
           /\ pc' = [w \in Writers |-> "idle"]
           /\ draft' = [w \in Writers |-> NoDraft]
           /\ UNCHANGED <<file, acked>>

Next == \/ \E w \in Writers : \/ Acquire(w) \/ Build(w)
                              \/ Insert(w) \/ InsertFails(w)
                              \/ Commit(w) \/ CommitFails(w)
        \/ Restart

Spec == Init /\ [][Next]_vars

-----------------------------------------------------------------------------
(* Counters, cursors and rows have the shape the code gives them. *)
AuditTypeOK ==
    /\ counter \in Nat
    /\ lock \in Writers \cup {NoWriter}
    /\ pc \in [Writers -> Steps]
    /\ \A k \in DOMAIN Visible : /\ Visible[k].id \in 1..MaxNumber
                                 /\ Visible[k].body \in Bodies
    /\ \A w \in Writers : pc[w] \in {"built", "inserted"}
                            => draft[w].id \in 1..MaxNumber

(* The chain verifies whenever anybody looks, in the middle of an append,  *)
(* after a failed one and after a restart (validate_chain, chain_report).  *)
ChainIntact == Linked(Visible)

(* An entry whose append() returned is in the file for good, whatever      *)
(* fails or restarts later.                                                *)
AcknowledgedIsDurable == \A e \in acked : \E k \in DOMAIN file : file[k] = e

(* The committed rows behave like the append-only ledger: no entry is      *)
(* changed, dropped, reordered or numbered twice, across crashes too.      *)
Ledger == INSTANCE AuditLedger WITH ledger <- file
ImplementsLedger == Ledger!Spec

(* tests/jevcity/test_audit_persistence.py:44, of a reopened log:          *)
(* "numbering continues".  The next entry's number is above all recorded.  *)
NumberingContinues == \A k \in DOMAIN file : file[k].id <= counter
=============================================================================
