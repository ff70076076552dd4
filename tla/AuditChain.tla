----------------------------- MODULE AuditChain -----------------------------
(***************************************************************************)
(* Rows of the audit log (audit/log.py) and what makes a sequence of them  *)
(* a chain.  SHA-256 is taken to be free of collisions: a digest is the    *)
(* tuple of what is hashed.                                                *)
(***************************************************************************)
EXTENDS Integers, Sequences

Genesis   == <<"sha256:genesis">>
Digest(e) == <<e.id, e.body, e.prev>>

\* The previous_hash an entry appended to s has to carry.
LinkAfter(s) == IF s = <<>> THEN Genesis ELSE Digest(s[Len(s)])

\* validate_chain, chain_report and the exporter's check.
Linked(s) == \A k \in DOMAIN s :
                s[k].prev = IF k = 1 THEN Genesis ELSE Digest(s[k - 1])

DistinctIds(s) == \A j, k \in DOMAIN s : s[j].id = s[k].id => j = k
=============================================================================
