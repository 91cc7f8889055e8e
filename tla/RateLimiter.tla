----------------------------- MODULE RateLimiter -----------------------------
(***************************************************************************)
(* The fixed-window limiter over Redis: one INCR, and one EXPIRE by the    *)
(* caller that made the first hit.  The two commands are two round trips,  *)
(* and either may fail: nothing runs them again.                           *)
(*                                                                         *)
(* A count over the limit behaves like every greater one, so hits stops at *)
(* the limit plus one.                                                     *)
(***************************************************************************)
EXTENDS Naturals

CONSTANTS
    Caller,       \* requests, one consume at a time
    Bucket,       \* keys of the store
    Limit,        \* [Bucket -> Nat]
    OpenBuckets   \* the buckets whose consumer goes on without an answer

VARIABLES
    hits,    \* the counters of Redis
    timed,   \* the counters that have a TTL
    up,      \* Redis answers
    call,    \* the consume each caller is in
    passed   \* history: calls let through since the counter began

vars == <<hits, timed, up, call, passed>>

NoCall == [step |-> "none"]
Calls  == [step : {"incr", "expire"}, bucket : Bucket]

TypeOK ==
    /\ hits \in [Bucket -> Nat] /\ \A b \in Bucket : hits[b] <= Limit[b] + 1
    /\ timed \subseteq Bucket
    /\ up \in BOOLEAN
    /\ call \in [Caller -> Calls \cup {NoCall}]
    /\ passed \in [Bucket -> Nat]

Init ==
    /\ hits = [b \in Bucket |-> 0] /\ timed = {} /\ up = TRUE
    /\ call = [c \in Caller |-> NoCall]
    /\ passed = [b \in Bucket |-> 0]

-----------------------------------------------------------------------------
\* Mutant: without an answer every consumer goes on.
Proceeds_FailsOpen(b, decision) == decision # "limited"

\* enforceStoreAvailability, and its callers that have a rule of their own: the
\* global limiter is always open, the durable events of failed authentications
\* are skipped without an answer.
Proceeds(b, decision) ==
    decision = "allowed" \/ (decision = "unavailable" /\ b \in OpenBuckets)

Return(c, b, decision) ==
    /\ call' = [call EXCEPT ![c] = NoCall]
    /\ passed' = IF Proceeds(b, decision) /\ passed[b] <= Limit[b]
                 THEN [passed EXCEPT ![b] = @ + 1] ELSE passed

Counted(b) == IF hits[b] > Limit[b] THEN hits[b] ELSE hits[b] + 1
Decide(n, b) == IF n <= Limit[b] THEN "allowed" ELSE "limited"

Consume(c, b) ==
    /\ call[c] = NoCall
    /\ call' = [call EXCEPT ![c] = [step |-> "incr", bucket |-> b]]
    /\ UNCHANGED <<hits, timed, up, passed>>

\* INCR; the caller that made the first hit goes on to EXPIRE.
Incr(c) ==
    /\ call[c].step = "incr" /\ up
    /\ LET b == call[c].bucket IN
          /\ hits' = [hits EXCEPT ![b] = Counted(b)]
          /\ IF hits[b] = 0
             THEN /\ call' = [call EXCEPT ![c].step = "expire"]
                  /\ UNCHANGED passed
             ELSE Return(c, b, Decide(Counted(b), b))
    /\ UNCHANGED <<timed, up>>

\* The command or its answer is lost; there is no retry.
IncrFails(c) ==
    /\ call[c].step = "incr" /\ ~up
    /\ LET b == call[c].bucket IN
          /\ hits' \in {hits, [hits EXCEPT ![b] = Counted(b)]}
          /\ Return(c, b, "unavailable")
    /\ UNCHANGED <<timed, up>>

Expire(c) ==
    /\ call[c].step = "expire" /\ up
    /\ timed' = timed \cup {call[c].bucket}
    /\ Return(c, call[c].bucket, Decide(1, call[c].bucket))
    /\ UNCHANGED <<hits, up>>

ExpireFails(c) ==
    /\ call[c].step = "expire" /\ ~up
    /\ Return(c, call[c].bucket, "unavailable")
    /\ UNCHANGED <<hits, timed, up>>

\* The process of the caller dies.
Die(c) ==
    /\ call[c] # NoCall
    /\ call' = [call EXCEPT ![c] = NoCall]
    /\ UNCHANGED <<hits, timed, up, passed>>

\* The TTL of a counter runs out.
WindowEnds(b) ==
    /\ b \in timed
    /\ hits' = [hits EXCEPT ![b] = 0] /\ timed' = timed \ {b}
    /\ passed' = [passed EXCEPT ![b] = 0]
    /\ UNCHANGED <<up, call>>

\* The connection to Redis breaks and comes back; the counters survive.
Outage == up' = ~up /\ UNCHANGED <<hits, timed, call, passed>>

Next ==
    \/ Outage
    \/ \E b \in Bucket : WindowEnds(b)
    \/ \E c \in Caller :
          \/ \E b \in Bucket : Consume(c, b)
          \/ Incr(c) \/ IncrFails(c) \/ Expire(c) \/ ExpireFails(c) \/ Die(c)

Spec == Init /\ [][Next]_vars

-----------------------------------------------------------------------------
\* In one life of a counter no more than its limit are let through, whatever
\* the store does meanwhile, except by the buckets that are open by design
\* (rate-limit.ts consume, enforceStoreAvailability).
ThrottleHolds == \A b \in Bucket \ OpenBuckets : passed[b] <= Limit[b]

\* Every counter ends by itself: it has a TTL, or the caller that created it is
\* about to set one (rate-limit.ts consume).  Refuted: that EXPIRE may be lost.
KeysExpire ==
    \A b \in Bucket : hits[b] > 0 =>
        b \in timed \/ \E c \in Caller : call[c] = [step |-> "expire", bucket |-> b]
=============================================================================
