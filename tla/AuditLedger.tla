---------------------------- MODULE AuditLedger -----------------------------
(***************************************************************************)
(* What an audit log promises its readers (Invariant 8): a sequence of     *)
(* distinct entries that only ever grows at its end and is a hash chain    *)
(* whenever it is read.                                                    *)
(***************************************************************************)
EXTENDS AuditChain

VARIABLE ledger

Init == ledger = <<>>

Extends(new, old) == /\ Len(new) > Len(old)
                     /\ SubSeq(new, 1, Len(old)) = old

Extend == /\ Extends(ledger', ledger)
          /\ Linked(ledger') /\ DistinctIds(ledger')

Spec == Init /\ [][Extend]_ledger
=============================================================================
