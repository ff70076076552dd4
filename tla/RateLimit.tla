----------------------------- MODULE RateLimit -----------------------------
(***************************************************************************)
(* The token buckets of api/app.py (_RateLimiter), one per client host.    *)
(* A bucket is stored as it was at the host's last request and refilled by *)
(* the time passed since.  A token is cut into Second units so that the    *)
(* refill of a second is a whole number of them; Second stands for the 60  *)
(* seconds of a minute.                                                    *)
(***************************************************************************)
EXTENDS Integers

CONSTANTS
    Hosts,      \* client addresses
    PerMinute,  \* JEVCITY_RATE_LIMIT
    Second      \* seconds of a minute (bound of the model)

ASSUME RateAssumption == PerMinute \in Nat \ {0} /\ Second \in Nat \ {0}

VARIABLES
    tokens,   \* per host: what the bucket held at its last request
    since,    \* per host: seconds passed since then
    promise   \* per host: seconds left of the last Retry-After, -1: none

rateVars == <<tokens, since, promise>>

Token    == Second
Capacity == PerMinute * Token
None == -1

Smaller(a, b) == IF a < b THEN a ELSE b
Larger(a, b)  == IF a < b THEN b ELSE a
CeilDiv(a, b) == (a + b - 1) \div b

RateInit == /\ tokens = [h \in Hosts |-> Capacity]
            /\ since = [h \in Hosts |-> 0]
            /\ promise = [h \in Hosts |-> None]

Refilled(h) == Smaller(Capacity, tokens[h] + since[h] * PerMinute)
Allowed(h)  == Refilled(h) >= Token

\* Retry-After: whole seconds, at least one.
RetryAfter(h) == Larger(1, CeilDiv(Token - Refilled(h), PerMinute))

\* take(host) under the limiter's lock: one token, or a time to wait.
Spend(h) ==
    /\ Allowed(h)
    /\ tokens' = [tokens EXCEPT ![h] = Refilled(h) - Token]
    /\ since' = [since EXCEPT ![h] = 0]
    /\ promise' = [promise EXCEPT ![h] = None]

\* Broken: a refused request loses what had been refilled.
RefuseAndForget(h) ==
    /\ ~Allowed(h)
    /\ tokens' = tokens
    /\ since' = [since EXCEPT ![h] = 0]
    /\ promise' = [promise EXCEPT ![h] = RetryAfter(h)]

Refuse(h) ==
    /\ ~Allowed(h)
    /\ tokens' = [tokens EXCEPT ![h] = Refilled(h)]
    /\ since' = [since EXCEPT ![h] = 0]
    /\ promise' = [promise EXCEPT ![h] = RetryAfter(h)]

\* A second passes; after Second of them every bucket is full.
Tick ==
    /\ since' = [h \in Hosts |-> Smaller(Second, since[h] + 1)]
    /\ promise' = [h \in Hosts |-> IF promise[h] > 0 THEN promise[h] - 1 ELSE promise[h]]
    /\ UNCHANGED tokens

RateTypeOK ==
    /\ tokens \in [Hosts -> 0..Capacity]
    /\ since \in [Hosts -> 0..Second]
    /\ promise \in [Hosts -> -1..Second]

(* A client that was sent away with a Retry-After and waited so long is    *)
(* let in, however often it or others of its host asked in vain meanwhile. *)
RetryAfterIsHonest == \A h \in Hosts : promise[h] = 0 => Allowed(h)

=============================================================================
