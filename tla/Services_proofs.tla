--------------------------- MODULE Services_proofs ---------------------------
(***************************************************************************)
(* Proofs about Services: what each of its components promises, in every   *)
(* reachable state and for every value of the constants that satisfies the *)
(* assumptions of Services.  Each component has a section: its inductive   *)
(* invariant, a lemma per action or per part of it, and the promises the   *)
(* invariant implies; a theorem of the specification follows the           *)
(* components whose promises it joins.                                     *)
(***************************************************************************)
EXTENDS Services, WellFoundedInduction, FiniteSetTheorems, TLAPS

------------------------------------------------------------------------------
(* Lifecycle *)

\* Where the shutdown stands: its timer runs from the first signal, and is not
\* overdue; once the server is closed nothing waits for an answer.
ShutdownStands ==
    /\ server = "listening" => signalled = Lifecycle!Never
    /\ server \in {"closing", "draining"} => forceAt = signalled + Timeout /\ now <= forceAt
    /\ server = "draining" => Lifecycle!Pending = {}
    /\ server # "exited" => code = None /\ \A r \in Requester : request[r].step # "cut"
    /\ code = 0 => \A r \in Requester : request[r].step # "cut"

\* What a request was answered was there during it.
HeardStands ==
    \A r \in Requester :
        /\ request[r].step = "running" => up \subseteq heard[r]
        /\ request[r].kind = "ready" /\ request[r].step \in {"running", "answered"}
             /\ request[r].ok => Lifecycle!Dependency \ request[r].left \subseteq heard[r]
        /\ request[r].step = "answered" => request[r].left = {}

ServerInv == Lifecycle!TypeOK /\ ShutdownStands /\ HeardStands

\* The initial states satisfy the invariant.
LEMMA ServerInit == Lifecycle!Init => ServerInv
  BY ServerAssumption
  DEF Lifecycle!Init, ServerInv, Lifecycle!TypeOK, ShutdownStands, HeardStands,
      Lifecycle!Never, Lifecycle!Idle, Lifecycle!Dependency

\* Every step preserves it.
LEMMA ServerStep == ServerInv /\ Lifecycle!Next => ServerInv'
<1> SUFFICES ASSUME ServerInv, Lifecycle!Next PROVE ServerInv'
  OBVIOUS
<1> USE ServerAssumption
    DEF ServerInv, Lifecycle!TypeOK, Lifecycle!process, Lifecycle!Running, Lifecycle!Pending,
        Lifecycle!Never
<1>1. ASSUME NEW r \in Requester, Lifecycle!Arrive(r) PROVE ServerInv'
  <2>1. PICK which \in {"work", "ready"} :
           request' = [request EXCEPT ![r] =
              [kind |-> which, step |-> "running", ok |-> TRUE,
               left |-> IF which = "work" THEN {"postgres"} ELSE Lifecycle!Dependency]]
    BY <1>1 DEF Lifecycle!Arrive
  <2>2. Lifecycle!TypeOK'
    BY <1>1, <2>1 DEF Lifecycle!Arrive, Lifecycle!Dependency
  <2>3. ShutdownStands'
    BY <1>1, <2>1 DEF Lifecycle!Arrive, ShutdownStands
  <2>4. HeardStands'
    BY <1>1, <2>1 DEF Lifecycle!Arrive, HeardStands, Lifecycle!Dependency
  <2> QED
    BY <2>2, <2>3, <2>4
<1>2. ASSUME NEW r \in Requester, Lifecycle!Respond(r) PROVE ServerInv'
  <2> USE <1>2 DEF Lifecycle!Respond, Lifecycle!ReadyNow
  <2>1. Lifecycle!TypeOK'
    <3>1. request[r].ok \in BOOLEAN
      OBVIOUS
    <3> DEFINE ok == IF request[r].kind = "ready" THEN Lifecycle!ReadyNow(r) ELSE request[r].ok
               q == [request[r] EXCEPT !.step = "answered", !.ok = ok]
    <3>2. ok \in BOOLEAN
      BY <3>1
    <3>3. q \in [kind : {"none", "work", "ready"}, ok : BOOLEAN,
                 step : {"idle", "running", "answered", "cut"},
                 left : SUBSET Lifecycle!Dependency]
      <4> HIDE DEF ok
      <4> QED
        BY <3>2
    <3>4. request' = [request EXCEPT ![r] = q]
      OBVIOUS
    <3>5. UNCHANGED <<now, up, server, code, forceAt, signalled, heard>>
      OBVIOUS
    <3> HIDE <1>2
    <3> HIDE DEF q, Lifecycle!Respond, Lifecycle!ReadyNow
    <3> QED
      BY <3>3, <3>4, <3>5
  <2>2. ShutdownStands'
    BY DEF ShutdownStands
  <2>3. HeardStands'
    BY DEF HeardStands
  <2> QED
    BY <2>1, <2>2, <2>3
<1>3. ASSUME NEW r \in Requester, NEW d \in Lifecycle!Dependency, Lifecycle!Hear(r, d)
      PROVE  ServerInv'
  <2>1. PICK ok \in BOOLEAN :
          /\ ok => d \in up /\ server # "draining"
          /\ request' = [request EXCEPT ![r].left = @ \ {d}, ![r].ok = @ /\ ok]
    BY <1>3 DEF Lifecycle!Hear
  <2>2. request'[r] = [request[r] EXCEPT !.left = @ \ {d}, !.ok = @ /\ ok]
        /\ \A q \in Requester \ {r} : request'[q] = request[q]
    BY <2>1
  <2>3. Lifecycle!TypeOK'
    <3>1. request' \in [Requester -> [kind : {"none", "work", "ready"}, ok : BOOLEAN,
                                   step : {"idle", "running", "answered", "cut"},
                                   left : SUBSET Lifecycle!Dependency]]
      <4> DEFINE q == [request[r] EXCEPT !.left = @ \ {d}, !.ok = @ /\ ok]
      <4>1. (request[r].ok /\ ok) \in BOOLEAN
        OBVIOUS
      <4>2. q \in [kind : {"none", "work", "ready"}, ok : BOOLEAN,
                   step : {"idle", "running", "answered", "cut"},
                   left : SUBSET Lifecycle!Dependency]
        BY <4>1
      <4>3. request' = [request EXCEPT ![r] = q]
        BY <2>1
      <4> HIDE DEF q
      <4> QED
        BY <4>2, <4>3
    <3> QED
      BY <1>3, <3>1 DEF Lifecycle!Hear
  <2>4. ShutdownStands'
    BY <1>3, <2>1 DEF Lifecycle!Hear, ShutdownStands
  <2>5. HeardStands'
    BY <1>3, <2>1, <2>2 DEF Lifecycle!Hear, HeardStands
  <2> QED
    BY <2>3, <2>4, <2>5
<1>4. ASSUME Lifecycle!Signal PROVE ServerInv'
  BY <1>4 DEF Lifecycle!Signal, ShutdownStands, HeardStands
<1>5. ASSUME Lifecycle!CloseServer PROVE ServerInv'
  BY <1>5 DEF Lifecycle!CloseServer, Lifecycle!Drained, ShutdownStands, HeardStands
<1>6. ASSUME NEW c \in {0, 1}, Lifecycle!Exit(c), server \in {"closing", "draining"},
             c = 0 => server = "draining"
      PROVE  ServerInv'
  <2>1. \A r \in Requester : request'[r] = IF Lifecycle!Running(r)
                                          THEN [request[r] EXCEPT !.step = "cut"]
                                          ELSE request[r]
    BY <1>6 DEF Lifecycle!Exit
  <2>2. Lifecycle!TypeOK'
    BY <1>6 DEF Lifecycle!Exit
  <2>3. ShutdownStands'
    BY <1>6, <2>1 DEF Lifecycle!Exit, ShutdownStands
  <2>4. HeardStands'
    BY <1>6, <2>1 DEF Lifecycle!Exit, HeardStands
  <2> QED
    BY <2>2, <2>3, <2>4
<1>7. ASSUME Lifecycle!Tick PROVE ServerInv'
  BY <1>7 DEF Lifecycle!Tick, ShutdownStands, HeardStands
<1>8. ASSUME NEW d \in Lifecycle!Dependency, Lifecycle!Flip(d) PROVE ServerInv'
  <2> USE <1>8 DEF Lifecycle!Flip
  <2>1. Lifecycle!TypeOK'
    OBVIOUS
  <2>2. ShutdownStands'
    BY DEF ShutdownStands
  <2>3. HeardStands'
    BY DEF HeardStands
  <2> QED
    BY <2>1, <2>2, <2>3
<1>9. ASSUME Lifecycle!CloseClients \/ Lifecycle!ForceExit \/ Lifecycle!CloseFails
      PROVE  ServerInv'
  <2>1. (server = "draining" /\ Lifecycle!Exit(0))
          \/ (server \in {"closing", "draining"} /\ Lifecycle!Exit(1))
    BY <1>9 DEF Lifecycle!CloseClients, Lifecycle!ForceExit, Lifecycle!CloseFails
  <2> HIDE DEF ServerInv
  <2> QED
    BY <1>6, <2>1
<1> QED
  BY <1>1, <1>2, <1>3, <1>4, <1>5, <1>7, <1>8, <1>9, Zenon DEF Lifecycle!Next

\* The invariant is about the variables of the server.
LEMMA ServerStutter ==
  ServerInv /\ UNCHANGED <<now, up, server, code, forceAt, signalled, request,
      heard>> => ServerInv'
  BY DEF ServerInv, Lifecycle!TypeOK, ShutdownStands, HeardStands, Lifecycle!Pending,
         Lifecycle!Running

\* It gives what the property promises.
LEMMA ServerPromise == ServerInv => Lifecycle!ShutdownIsOrderly
<1> SUFFICES ASSUME ServerInv PROVE Lifecycle!ShutdownIsOrderly
  OBVIOUS
<1> USE DEF ServerInv, Lifecycle!TypeOK
<1>1. server # "exited" => now <= signalled + Timeout
  BY ServerAssumption DEF ShutdownStands, Lifecycle!Never
<1>2. ASSUME NEW r \in Requester, request[r].kind = "ready", request[r].step = "answered",
             request[r].ok
      PROVE  heard[r] = Lifecycle!Dependency
  BY <1>2 DEF HeardStands
<1> QED
  BY <1>1, <1>2 DEF ShutdownStands, Lifecycle!ShutdownIsOrderly

\* The process is gone within the timeout of its first signal, it exits with 0 only
\* when it answered every request, and it is ready only if every dependency answered
\* during the probe (server.ts), for any requests, timeout and clock.
THEOREM ShutdownOrderly == Spec => []ShutdownIsOrderly
<1> DEFINE Inv == component = "server" => ServerInv
<1>1. Init => Inv
  BY ServerInit DEF Init
<1>2. Inv /\ [Next]_vars => Inv'
  <2>1. CASE Next
    BY <2>1, ServerStep DEF Next
  <2>2. CASE UNCHANGED vars
    BY <2>2, ServerStutter DEF vars
  <2> QED
    BY <2>1, <2>2
<1>3. Inv => ShutdownIsOrderly
  BY ServerPromise DEF ShutdownIsOrderly
<1> QED
  BY <1>1, <1>2, <1>3, PTL DEF Spec

------------------------------------------------------------------------------
(* RateLimiter *)

\* The caller is about to set the TTL of the counter it created.
Opens(c, b) == call[c] = [step |-> "expire", bucket |-> b]

\* Of a counter that fails closed no more passed than were counted; the first hit
\* of a counter without a TTL is one caller's alone, and has not passed yet.
PassesStand ==
    \A b \in LimitBucket :
        /\ b \in timed => hits[b] # 0
        /\ b \notin OpenBuckets => passed[b] <= hits[b] /\ passed[b] <= BucketLimit[b]
        /\ \A c \in Caller : Opens(c, b) =>
              /\ hits[b] # 0 /\ b \notin timed
              /\ \A d \in Caller : Opens(d, b) => d = c
              /\ b \notin OpenBuckets =>
                    passed[b] < hits[b] /\ (BucketLimit[b] > 0 => passed[b] < BucketLimit[b])

LimiterInv == RateLimiter!TypeOK /\ PassesStand

\* The initial states satisfy the invariant.
LEMMA LimiterInit == RateLimiter!Init => LimiterInv
  BY LimiterAssumption
  DEF RateLimiter!Init, LimiterInv, RateLimiter!TypeOK, PassesStand, Opens, RateLimiter!NoCall

\* Every step preserves it.
LEMMA LimiterStep == LimiterInv /\ RateLimiter!Next => LimiterInv'
<1> SUFFICES ASSUME LimiterInv, RateLimiter!Next PROVE LimiterInv'
  OBVIOUS
<1> USE LimiterAssumption DEF LimiterInv, RateLimiter!TypeOK
<1>1. ASSUME RateLimiter!Outage PROVE LimiterInv'
  BY <1>1 DEF RateLimiter!Outage, PassesStand, Opens
<1>2. ASSUME NEW b \in LimitBucket, RateLimiter!WindowEnds(b) PROVE LimiterInv'
  BY <1>2 DEF RateLimiter!WindowEnds, PassesStand, Opens
<1>3. ASSUME NEW c \in Caller, NEW b \in LimitBucket, RateLimiter!Consume(c, b) PROVE LimiterInv'
  BY <1>3 DEF RateLimiter!Consume, RateLimiter!Calls, PassesStand, Opens
<1>4. ASSUME NEW c \in Caller, RateLimiter!Incr(c) \/ RateLimiter!IncrFails(c)
                               \/ RateLimiter!Expire(c) \/ RateLimiter!ExpireFails(c)
      PROVE  call[c].bucket \in LimitBucket /\ call[c] \in RateLimiter!Calls
  BY <1>4 DEF RateLimiter!Incr, RateLimiter!IncrFails, RateLimiter!Expire,
              RateLimiter!ExpireFails, RateLimiter!Calls, RateLimiter!NoCall
<1>5. ASSUME NEW c \in Caller, RateLimiter!Incr(c) PROVE LimiterInv'
  <2> DEFINE b == call[c].bucket
  <2>1. b \in LimitBucket /\ call[c] \in RateLimiter!Calls /\ call[c].step = "incr"
    BY <1>4, <1>5 DEF RateLimiter!Incr
  <2>2. CASE hits[b] = 0
    <3>1. call' = [call EXCEPT ![c] = [step |-> "expire", bucket |-> b]]
      BY <1>5, <2>1, <2>2 DEF RateLimiter!Incr, RateLimiter!Calls
    <3>2. RateLimiter!Counted(b) = 1
      BY <2>1, <2>2 DEF RateLimiter!Counted
    <3>3. hits' = [hits EXCEPT ![b] = 1] /\ UNCHANGED <<timed, up, passed>>
      BY <1>5, <2>2, <3>2 DEF RateLimiter!Incr
    <3>4. \A d \in Caller, x \in LimitBucket :
             Opens(d, x)' <=> (d = c /\ x = b) \/ (d # c /\ Opens(d, x))
      BY <2>1, <3>1 DEF Opens
    <3>5. b \notin timed /\ \A d \in Caller : ~Opens(d, b)
      BY <2>1, <2>2 DEF PassesStand
    <3>6. RateLimiter!TypeOK'
      BY <2>1, <3>1, <3>3 DEF RateLimiter!Calls
    <3> QED
      BY <2>1, <2>2, <3>3, <3>4, <3>5, <3>6 DEF PassesStand
  <2>3. CASE hits[b] # 0
    <3>1. call' = [call EXCEPT ![c] = RateLimiter!NoCall] /\ UNCHANGED <<timed, up>>
      BY <1>5, <2>3 DEF RateLimiter!Incr, RateLimiter!Return
    <3>2. hits' = [hits EXCEPT ![b] = RateLimiter!Counted(b)]
      BY <1>5 DEF RateLimiter!Incr
    <3>3. passed' = IF RateLimiter!Proceeds(b, RateLimiter!Decide(RateLimiter!Counted(b), b))
                         /\ passed[b] <= BucketLimit[b]
                    THEN [passed EXCEPT ![b] = @ + 1] ELSE passed
      BY <1>5, <2>3 DEF RateLimiter!Incr, RateLimiter!Return
    <3> QED
      BY <2>1, <2>3, <3>1, <3>2, <3>3
      DEF PassesStand, Opens, RateLimiter!Calls, RateLimiter!NoCall, RateLimiter!Counted,
          RateLimiter!Proceeds, RateLimiter!Decide
  <2> QED
    BY <2>2, <2>3
<1>6. ASSUME NEW c \in Caller, RateLimiter!IncrFails(c) PROVE LimiterInv'
  <2> DEFINE b == call[c].bucket
  <2>1. b \in LimitBucket /\ call[c] \in RateLimiter!Calls /\ call[c].step = "incr"
    BY <1>4, <1>6 DEF RateLimiter!IncrFails
  <2>2. call' = [call EXCEPT ![c] = RateLimiter!NoCall] /\ UNCHANGED <<timed, up>>
    BY <1>6 DEF RateLimiter!IncrFails, RateLimiter!Return
  <2>3. hits' \in {hits, [hits EXCEPT ![b] = RateLimiter!Counted(b)]}
    BY <1>6 DEF RateLimiter!IncrFails
  <2>4. passed' = IF b \in OpenBuckets /\ passed[b] <= BucketLimit[b]
                  THEN [passed EXCEPT ![b] = @ + 1] ELSE passed
    BY <1>6 DEF RateLimiter!IncrFails, RateLimiter!Return, RateLimiter!Proceeds
  <2> QED
    BY <2>1, <2>2, <2>3, <2>4
    DEF PassesStand, Opens, RateLimiter!NoCall, RateLimiter!Counted
<1>7. ASSUME NEW c \in Caller, RateLimiter!Expire(c) PROVE LimiterInv'
  <2> DEFINE b == call[c].bucket
  <2>1. b \in LimitBucket /\ call[c] = [step |-> "expire", bucket |-> b]
    BY <1>4, <1>7 DEF RateLimiter!Expire, RateLimiter!Calls
  <2> QED
    BY <1>7, <2>1
    DEF RateLimiter!Expire, RateLimiter!Return, RateLimiter!Proceeds, RateLimiter!Decide,
        RateLimiter!NoCall, PassesStand, Opens
<1>8. ASSUME NEW c \in Caller, RateLimiter!ExpireFails(c) PROVE LimiterInv'
  <2> DEFINE b == call[c].bucket
  <2>1. b \in LimitBucket /\ call[c] \in RateLimiter!Calls
    BY <1>4, <1>8
  <2>2. call' = [call EXCEPT ![c] = RateLimiter!NoCall] /\ UNCHANGED <<hits, timed, up>>
    BY <1>8 DEF RateLimiter!ExpireFails, RateLimiter!Return
  <2>3. passed' = IF b \in OpenBuckets /\ passed[b] <= BucketLimit[b]
                  THEN [passed EXCEPT ![b] = @ + 1] ELSE passed
    BY <1>8 DEF RateLimiter!ExpireFails, RateLimiter!Return, RateLimiter!Proceeds
  <2> QED
    BY <2>1, <2>2, <2>3 DEF PassesStand, Opens, RateLimiter!NoCall
<1>9. ASSUME NEW c \in Caller, RateLimiter!Die(c) PROVE LimiterInv'
  BY <1>9 DEF RateLimiter!Die, RateLimiter!NoCall, PassesStand, Opens
<1> HIDE DEF LimiterInv
<1> QED
  BY <1>1, <1>2, <1>3, <1>5, <1>6, <1>7, <1>8, <1>9 DEF RateLimiter!Next

\* The invariant is about the variables of the limiter.
LEMMA LimiterStutter ==
  LimiterInv /\ UNCHANGED <<hits, timed, up, call, passed>> => LimiterInv'
  BY DEF LimiterInv, RateLimiter!TypeOK, PassesStand, Opens

\* It gives what the property promises.
LEMMA LimiterPromise == LimiterInv => RateLimiter!ThrottleHolds
  BY DEF LimiterInv, PassesStand, RateLimiter!ThrottleHolds

------------------------------------------------------------------------------
(* AccountRequests *)

Asking     == {"register", "recover"}
Completing == {"complete registration", "complete reset", "complete verification"}

\* Which endpoint takes which step, and what it has done before: of a request with
\* kind k, step s, answer a, outcome o and whether it looked the account up, b.
Stands(k, s, a, o, b) ==
    /\ k = "none" <=> s = "idle"
    /\ s = "subject" => k # "complete verification"
    /\ s = "prepare" => k \in {"register", "complete registration"}
    /\ s \in {"notice", "guide"} => k = "register"
    /\ s \in {"lookup", "persist", "mail"} => k \in Asking \cup {"verify"}
    /\ s = "record" => k \in Asking
    /\ s = "commit" => k \in Completing
    /\ s = "audit" =>
          k = "verify" \/ (k \in Completing /\ o \in {"done", "used", "expired", "invalid"})
    /\ s \in {"idle", "ip", "subject", "limited", "prepare"} /\ k \in Asking \cup {"none"} =>
          b = FALSE
    /\ s # "answered" => a = "none"
    /\ s = "answered" /\ k \in Asking => a = "accepted" \/ b = FALSE
JobStands(r) == Stands(job[r].kind, job[r].step, job[r].answer, job[r].outcome, job[r].read)

\* An event names the account of an authenticated caller or of who proved a token,
\* and what is reported done or sent is in the log.
Proven(k, s, o) == s = "answered" /\ (k = "verify" \/ (k \in Completing /\ o = "done"))
EventsStand ==
    \A e \in events : e.names => Proven(job[e.by].kind, job[e.by].step, job[e.by].outcome)
Logged(r) == job[r].answer \in {"done", "sent"} => [by |-> r, names |-> TRUE] \in events

PublicInv(R, K) ==
    /\ Public(R, K)!TypeOK
    /\ \A r \in R : JobStands(r) /\ Logged(r)
    /\ EventsStand

\* The initial states satisfy the invariant.
LEMMA PublicInit ==
  ASSUME NEW R, NEW K, MaxWindow \in Nat, Public(R, K)!Init
  PROVE  PublicInv(R, K)
<1>1. job = [r \in R |-> Public(R, K)!Idle]
  BY DEF Public!Init
<1>2. Public(R, K)!Idle \in Public(R, K)!Job
  BY DEF Public!Job, Public!Idle
<1>3. token \in [Public(R, K)!Completing -> {"live", "used", "expired", "unknown"}]
  BY DEF Public!Init
<1>4. Public(R, K)!TypeOK
  BY <1>1, <1>2, <1>3 DEF Public!Init, Public!TypeOK
<1>5. \A r \in R : JobStands(r) /\ Logged(r)
  BY <1>1 DEF Public!Idle, JobStands, Stands, Logged, Asking, Completing
<1> QED
  BY <1>4, <1>5 DEF PublicInv, EventsStand, Public!Init

\* What the edits of a request make of it.
Becomes(R, K, r, k, s, a, o, b) ==
    /\ job' = [job EXCEPT ![r] = job'[r]] /\ job'[r] \in Public(R, K)!Job
    /\ job'[r].kind = k /\ job'[r].step = s /\ job'[r].answer = a /\ job'[r].outcome = o
    /\ job'[r].read = b

Outcome(R, K) == {"none"} \cup Public(R, K)!Noted \cup Public(R, K)!Result
Step == {"idle", "ip", "subject", "limited", "prepare", "lookup", "notice", "guide", "persist",
         "mail", "record", "commit", "audit", "answered"}
Reply(R, K) == {"none", "unavailable", "limited", "error", "accepted", "not sent", "sent"}
                 \cup Public(R, K)!Result

\* What a request becomes at each kind of edit the flow makes of its record (Goto,
\* Answer, Note: the steps of registration.service.ts and its two siblings).
LEMMA JobEdits ==
  ASSUME NEW R, NEW K, NEW r \in R, job \in [R -> Public(R, K)!Job]
  PROVE
    /\ \A k \in Public(R, K)!Endpoint, s \in Step :
          job' = [job EXCEPT ![r].kind = k, ![r].step = s] =>
             Becomes(R, K, r, k, s, job[r].answer, job[r].outcome, job[r].read)
    /\ \A s \in Step : Public(R, K)!Goto(r, s) =>
          Becomes(R, K, r, job[r].kind, s, job[r].answer, job[r].outcome, job[r].read)
    /\ \A a \in Reply(R, K) : Public(R, K)!Answer(r, a) =>
          Becomes(R, K, r, job[r].kind, "answered", a, job[r].outcome, job[r].read)
    /\ \A o \in Outcome(R, K) : Public(R, K)!Note(r, o) =>
          Becomes(R, K, r, job[r].kind, "record", job[r].answer, o, job[r].read)
    /\ \A o \in Outcome(R, K) : job' = [job EXCEPT ![r].step = "audit", ![r].outcome = o] =>
          Becomes(R, K, r, job[r].kind, "audit", job[r].answer, o, job[r].read)
    /\ \A s \in Step : Public(R, K)!Looked(r, s) =>
          Becomes(R, K, r, job[r].kind, s, job[r].answer, job[r].outcome, TRUE)
    /\ \A o \in Outcome(R, K) : Public(R, K)!LookedAndNote(r, o) =>
          Becomes(R, K, r, job[r].kind, "record", job[r].answer, o, TRUE)
    /\ window \in 0 .. MaxWindow /\ Public(R, K)!TakeSlot(r) =>
          Becomes(R, K, r, job[r].kind, "guide", job[r].answer, job[r].outcome, job[r].read)
<1> DEFINE J == Public(R, K)!Job
<1>1. job[r] \in J
  OBVIOUS
<1>2. ASSUME NEW j \in J, job' = [job EXCEPT ![r] = j]
      PROVE  job' = [job EXCEPT ![r] = job'[r]] /\ job'[r] = j
  BY <1>2
<1> HIDE DEF J
<1> USE DEF Becomes
<1>3. ASSUME NEW k \in Public(R, K)!Endpoint, NEW s \in Step,
             job' = [job EXCEPT ![r].kind = k, ![r].step = s]
      PROVE  Becomes(R, K, r, k, s, job[r].answer, job[r].outcome, job[r].read)
  <2> DEFINE j == [job[r] EXCEPT !.kind = k, !.step = s]
  <2>1. /\ j \in J /\ j.kind = k /\ j.step = s /\ j.answer = job[r].answer
        /\ j.outcome = job[r].outcome /\ j.read = job[r].read
    BY <1>1 DEF J, Public!Job, Step
  <2>2. job' = [job EXCEPT ![r] = j]
    BY <1>3
  <2> HIDE DEF j
  <2> QED
    BY <1>2, <2>1, <2>2 DEF J
<1>4. ASSUME NEW s \in Step,
             Public(R, K)!Goto(r, s)
      PROVE  Becomes(R, K, r, job[r].kind, s, job[r].answer, job[r].outcome, job[r].read)
  <2> DEFINE j == [job[r] EXCEPT !.step = s]
  <2>1. /\ j \in J /\ j.kind = job[r].kind /\ j.step = s /\ j.answer = job[r].answer
        /\ j.outcome = job[r].outcome /\ j.read = job[r].read
    BY <1>1 DEF J, Public!Job, Step, Reply, Outcome
  <2>2. job' = [job EXCEPT ![r] = j]
    BY <1>4 DEF Public!Goto
  <2> HIDE DEF j
  <2> QED
    BY <1>2, <2>1, <2>2 DEF J
<1>5. ASSUME NEW a \in Reply(R, K),
             Public(R, K)!Answer(r, a)
      PROVE  Becomes(R, K, r, job[r].kind, "answered", a, job[r].outcome, job[r].read)
  <2> DEFINE j == [job[r] EXCEPT !.step = "answered", !.answer = a]
  <2>1. /\ j \in J /\ j.kind = job[r].kind /\ j.step = "answered" /\ j.answer = a
        /\ j.outcome = job[r].outcome /\ j.read = job[r].read
    BY <1>1 DEF J, Public!Job, Step, Reply, Outcome
  <2>2. job' = [job EXCEPT ![r] = j]
    BY <1>5 DEF Public!Answer
  <2> HIDE DEF j
  <2> QED
    BY <1>2, <2>1, <2>2 DEF J
<1>6. ASSUME NEW o \in Outcome(R, K),
             Public(R, K)!Note(r, o)
      PROVE  Becomes(R, K, r, job[r].kind, "record", job[r].answer, o, job[r].read)
  <2> DEFINE j == [job[r] EXCEPT !.step = "record", !.outcome = o]
  <2>1. /\ j \in J /\ j.kind = job[r].kind /\ j.step = "record" /\ j.answer = job[r].answer
        /\ j.outcome = o /\ j.read = job[r].read
    BY <1>1 DEF J, Public!Job, Step, Reply, Outcome
  <2>2. job' = [job EXCEPT ![r] = j]
    BY <1>6 DEF Public!Note
  <2> HIDE DEF j
  <2> QED
    BY <1>2, <2>1, <2>2 DEF J
<1>7. ASSUME NEW o \in Outcome(R, K),
             job' = [job EXCEPT ![r].step = "audit", ![r].outcome = o]
      PROVE  Becomes(R, K, r, job[r].kind, "audit", job[r].answer, o, job[r].read)
  <2> DEFINE j == [job[r] EXCEPT !.step = "audit", !.outcome = o]
  <2>1. /\ j \in J /\ j.kind = job[r].kind /\ j.step = "audit" /\ j.answer = job[r].answer
        /\ j.outcome = o /\ j.read = job[r].read
    BY <1>1 DEF J, Public!Job, Step, Reply, Outcome
  <2>2. job' = [job EXCEPT ![r] = j]
    BY <1>7
  <2> HIDE DEF j
  <2> QED
    BY <1>2, <2>1, <2>2 DEF J
<1>8. ASSUME NEW s \in Step,
             Public(R, K)!Looked(r, s)
      PROVE  Becomes(R, K, r, job[r].kind, s, job[r].answer, job[r].outcome, TRUE)
  <2> DEFINE j == [job[r] EXCEPT !.step = s, !.read = TRUE]
  <2>1. /\ j \in J /\ j.kind = job[r].kind /\ j.step = s /\ j.answer = job[r].answer
        /\ j.outcome = job[r].outcome /\ j.read = TRUE
    BY <1>1 DEF J, Public!Job, Step, Reply, Outcome
  <2>2. job' = [job EXCEPT ![r] = j]
    BY <1>8 DEF Public!Looked
  <2> HIDE DEF j
  <2> QED
    BY <1>2, <2>1, <2>2 DEF J
<1>9. ASSUME NEW o \in Outcome(R, K),
             Public(R, K)!LookedAndNote(r, o)
      PROVE  Becomes(R, K, r, job[r].kind, "record", job[r].answer, o, TRUE)
  <2> DEFINE j == [job[r] EXCEPT !.step = "record", !.outcome = o, !.read = TRUE]
  <2>1. /\ j \in J /\ j.kind = job[r].kind /\ j.step = "record" /\ j.answer = job[r].answer
        /\ j.outcome = o /\ j.read = TRUE
    BY <1>1 DEF J, Public!Job, Step, Reply, Outcome
  <2>2. job' = [job EXCEPT ![r] = j]
    BY <1>9 DEF Public!LookedAndNote
  <2> HIDE DEF j
  <2> QED
    BY <1>2, <2>1, <2>2 DEF J
<1>10. ASSUME window \in 0 .. MaxWindow,
             Public(R, K)!TakeSlot(r)
      PROVE  Becomes(R, K, r, job[r].kind, "guide", job[r].answer, job[r].outcome, job[r].read)
  <2> DEFINE j == [job[r] EXCEPT !.step = "guide", !.slot = window]
  <2>1. /\ j \in J /\ j.kind = job[r].kind /\ j.step = "guide" /\ j.answer = job[r].answer
        /\ j.outcome = job[r].outcome /\ j.read = job[r].read
    BY <1>1, <1>10 DEF J, Public!Job, Step, Reply, Outcome
  <2>2. job' = [job EXCEPT ![r] = j]
    BY <1>10 DEF Public!TakeSlot
  <2> HIDE DEF j
  <2> QED
    BY <1>2, <2>1, <2>2 DEF J
<1> HIDE DEF Becomes
<1> QED
  BY <1>3, <1>4, <1>5, <1>6, <1>7, <1>8, <1>9, <1>10

\* A step of one request keeps the invariant when the request stands right after it,
\* every other variable has its type, and it writes no event but one of its own.
LEMMA PublicMove ==
  ASSUME NEW R, NEW K, PublicInv(R, K), NEW r \in R,
         NEW k, NEW s, NEW a, NEW o, NEW b,
         Becomes(R, K, r, k, s, a, o, b), Stands(k, s, a, o, b), job[r].step # "answered",
         window' \in 0 .. MaxWindow, storeUp' \in BOOLEAN,
         hits' \in [Public(R, K)!Bucket -> Nat], account' \in Public(R, K)!Account,
         token' \in [Public(R, K)!Completing -> {"live", "used", "expired", "unknown"}],
         notices' \in [0 .. MaxWindow -> Nat],
         \/ events' = events /\ a \notin {"done", "sent"}
         \/ events' = events \cup {[by |-> r, names |-> FALSE]} /\ a \notin {"done", "sent"}
         \/ events' = events \cup {[by |-> r, names |-> TRUE]} /\ Proven(k, s, o)
  PROVE  PublicInv(R, K)'
<1> USE DEF PublicInv
<1>1. job \in [R -> Public(R, K)!Job] /\ events \subseteq [by : R, names : BOOLEAN]
  BY DEF Public!TypeOK
<1>2. /\ job' \in [R -> Public(R, K)!Job] /\ \A q \in R : q # r => job'[q] = job[q]
      /\ job'[r].kind = k /\ job'[r].step = s /\ job'[r].answer = a /\ job'[r].outcome = o
      /\ job'[r].read = b
  BY <1>1 DEF Becomes
<1>3. events' \subseteq [by : R, names : BOOLEAN] /\ events \subseteq events'
  <2> DEFINE no == [by |-> r, names |-> FALSE]
             yes == [by |-> r, names |-> TRUE]
  <2>1. no \in [by : R, names : BOOLEAN] /\ yes \in [by : R, names : BOOLEAN]
    OBVIOUS
  <2>2. events' = events \/ events' = events \cup {no} \/ events' = events \cup {yes}
    OBVIOUS
  <2> HIDE DEF no, yes
  <2> QED
    BY <1>1, <2>1, <2>2
<1>4. Public(R, K)!TypeOK'
  BY <1>2, <1>3 DEF Public!TypeOK
<1>5. ASSUME NEW q \in R PROVE JobStands(q)' /\ Logged(q)'
  <2>1. CASE q = r
    <3>1. JobStands(q)'
      BY <1>2, <2>1 DEF JobStands
    <3>2. Logged(q)'
      BY <1>2, <2>1 DEF Logged
    <3> QED
      BY <3>1, <3>2
  <2>2. CASE q # r
    <3>1. job'[q] = job[q] /\ JobStands(q) /\ Logged(q)
      BY <1>2, <2>2
    <3>2. JobStands(q)'
      BY <3>1 DEF JobStands
    <3>3. Logged(q)'
      BY <1>3, <3>1 DEF Logged
    <3> QED
      BY <3>2, <3>3
  <2> QED
    BY <2>1, <2>2
<1>6. ASSUME NEW e \in events', e.names
      PROVE  Proven(job[e.by].kind, job[e.by].step, job[e.by].outcome)'
  <2>1. CASE e \in events
    <3>1. e.by \in R /\ Proven(job[e.by].kind, job[e.by].step, job[e.by].outcome)
      BY <1>1, <1>6, <2>1 DEF EventsStand
    <3>2. job'[e.by] = job[e.by]
      BY <1>2, <3>1 DEF Proven
    <3> QED
      BY <3>1, <3>2
  <2>2. CASE e = [by |-> r, names |-> TRUE] /\ Proven(k, s, o)
    BY <1>2, <2>2
  <2> QED
    BY <1>6, <2>1, <2>2
<1> QED
  BY <1>4, <1>5, <1>6 DEF EventsStand

\* The store counts one more hit, or none.
LEMMA PublicHits ==
  ASSUME NEW R, NEW K, Public(R, K)!TypeOK, NEW b \in Public(R, K)!Bucket,
         hits' \in {hits, [hits EXCEPT ![b] = @ + 1]}
  PROVE  hits' \in [Public(R, K)!Bucket -> Nat]
  BY DEF Public!TypeOK

\* Every step of a request keeps the invariant.
LEMMA PublicRequest ==
  ASSUME NEW R, NEW K, K \subseteq Public(R, K)!Endpoint, MaxWindow \in Nat, PublicInv(R, K),
         NEW r \in R,
         \/ Public(R, K)!Receive(r) \/ Public(R, K)!LimitIp(r) \/ Public(R, K)!LimitSubject(r)
         \/ Public(R, K)!RefuseLimited(r) \/ Public(R, K)!PrepareInvitation(r)
         \/ Public(R, K)!Lookup(r) \/ Public(R, K)!LimitNotice(r) \/ Public(R, K)!Guide(r)
         \/ Public(R, K)!Persist(r) \/ Public(R, K)!Mail(r) \/ Public(R, K)!Record(r)
         \/ Public(R, K)!ResolveInvitation(r) \/ Public(R, K)!Commit(r) \/ Public(R, K)!Audit(r)
  PROVE  PublicInv(R, K)'
<1> DEFINE k == job[r].kind
           s == job[r].step
           a == job[r].answer
           o == job[r].outcome
           b == job[r].read
           Typed == /\ window' \in 0 .. MaxWindow /\ storeUp' \in BOOLEAN
                    /\ hits' \in [Public(R, K)!Bucket -> Nat]
                    /\ account' \in Public(R, K)!Account
                    /\ token' \in [Public(R, K)!Completing -> {"live", "used", "expired", "unknown"}]
                    /\ notices' \in [0 .. MaxWindow -> Nat]
           Kept == Typed /\ UNCHANGED events
<1>1. /\ job \in [R -> Public(R, K)!Job] /\ Public(R, K)!TypeOK /\ Stands(k, s, a, o, b)
      /\ job[r] \in Public(R, K)!Job /\ window \in 0 .. MaxWindow
  BY DEF PublicInv, Public!TypeOK, JobStands
<1>2. /\ UNCHANGED <<window, storeUp, hits, account, token, notices>> => Typed
      /\ UNCHANGED <<window, storeUp, hits, account, token>>
          /\ notices' \in [0 .. MaxWindow -> Nat]
           => Typed
      /\ UNCHANGED <<window, storeUp, account, token, notices>>
           /\ hits' \in [Public(R, K)!Bucket -> Nat] => Typed
  BY <1>1 DEF Public!TypeOK
<1>3. /\ k \in Public(R, K)!Endpoint \cup {"none"} /\ b \in BOOLEAN /\ o \in Outcome(R, K)
      /\ s \in Step
  BY <1>1 DEF Public!Job, Outcome, Step
<1> HIDE DEF Typed, k, s, a, o, b
\* The request goes to a step, or concludes.
<1>4. ASSUME NEW t \in Step, Public(R, K)!Goto(r, t), Kept, Stands(k, t, a, o, b),
             s \notin {"answered"}, a = "none"
      PROVE  PublicInv(R, K)'
  <2>1. Becomes(R, K, r, k, t, a, o, b)
    BY <1>1, <1>4, JobEdits DEF k, s, a, o, b
  <2> QED
    BY <1>4, <2>1, PublicMove DEF Typed, s
<1>5. ASSUME NEW t \in Step, Public(R, K)!Looked(r, t), Kept, Stands(k, t, a, o, TRUE),
             s \notin {"answered"}, a = "none"
      PROVE  PublicInv(R, K)'
  <2>1. Becomes(R, K, r, k, t, a, o, TRUE)
    BY <1>1, <1>5, JobEdits DEF k, s, a, o, b
  <2> QED
    BY <1>5, <2>1, PublicMove DEF Typed, s
<1>6. ASSUME NEW n \in Public(R, K)!Noted,
             Public(R, K)!Note(r, n) \/ Public(R, K)!LookedAndNote(r, n), Kept,
             k \in Asking, s \notin {"answered"}, a = "none"
      PROVE  PublicInv(R, K)'
  <2>1. n \in Outcome(R, K)
    BY DEF Outcome
  <2>2. PICK x \in BOOLEAN : Becomes(R, K, r, k, "record", a, n, x)
    BY <1>1, <1>3, <1>6, <2>1, JobEdits DEF k, s, a, o, b
  <2>3. Stands(k, "record", a, n, x)
    BY <1>6 DEF Stands, Asking
  <2> QED
    BY <1>6, <2>2, <2>3, PublicMove DEF Typed, s
<1>7. ASSUME NEW y \in {"unavailable", "limited", "error", "accepted", "not sent",
                        "used", "expired", "invalid"},
             Public(R, K)!Answer(r, y), Typed, k \in Asking => y = "accepted" \/ b = FALSE,
             k # "none", s \notin {"answered"},
             events' = events \/ events' = events \cup {[by |-> r, names |-> FALSE]}
      PROVE  PublicInv(R, K)'
  <2>1. y \in Reply(R, K)
    BY DEF Reply, Public!Result
  <2>2. Becomes(R, K, r, k, "answered", y, o, b)
    BY <1>1, <1>7, <2>1, JobEdits DEF k, s, a, o, b
  <2>3. Stands(k, "answered", y, o, b)
    BY <1>7 DEF Stands
  <2> QED
    BY <1>7, <2>2, <2>3, PublicMove DEF Typed, s
<1>8. ASSUME NEW y \in {"done", "sent"}, Public(R, K)!Answer(r, y), Typed, s \notin {"answered"},
             k \notin Asking \cup {"none"}, Proven(k, "answered", o),
             events' = events \cup {[by |-> r, names |-> TRUE]}
      PROVE  PublicInv(R, K)'
  <2>1. y \in Reply(R, K)
    BY DEF Reply, Public!Result
  <2>2. Becomes(R, K, r, k, "answered", y, o, b)
    BY <1>1, <1>8, <2>1, JobEdits DEF k, s, a, o, b
  <2>3. Stands(k, "answered", y, o, b)
    BY <1>8 DEF Stands
  <2> QED
    BY <1>8, <2>2, <2>3, PublicMove DEF Typed, s
<1> DEFINE Rest == UNCHANGED <<window, storeUp, account, token, notices, events>>
<1>9. ASSUME NEW t \in Step, s \in {"ip", "subject"}, k \in Public(R, K)!Endpoint,
             <<k, s>> \in Public(R, K)!Bucket, Rest,
             Public(R, K)!Limit(r, <<k, s>>, t) \/ (Public(R, K)!Goto(r, t) /\ UNCHANGED hits),
             Stands(k, t, a, o, b)
      PROVE  PublicInv(R, K)'
  <2>1. hits' \in {hits, [hits EXCEPT ![<<k, s>>] = @ + 1]}
    BY <1>9 DEF Public!Limit, Public!Consume
  <2>2. Kept
    BY <1>1, <1>2, <1>9, <2>1, PublicHits DEF Typed
  <2>3. a = "none" /\ k # "none" /\ s # "answered" /\ (k \in Asking => b = FALSE)
    BY <1>1, <1>9 DEF Stands, Public!Endpoint, Public!Asking, Public!Completing
  <2>4. Stands(k, "limited", a, o, b)
    BY <1>9, <2>3 DEF Stands, Asking
  <2>5. \/ Public(R, K)!Goto(r, t) \/ Public(R, K)!Goto(r, "limited")
        \/ Public(R, K)!Answer(r, "unavailable")
    BY <1>9 DEF Public!Limit, Public!Consume
  <2>6. CASE Public(R, K)!Goto(r, t)
    BY <1>4, <1>9, <2>2, <2>3, <2>6
  <2>7. CASE Public(R, K)!Goto(r, "limited")
    BY <1>4, <2>2, <2>3, <2>4, <2>7 DEF Step
  <2>8. CASE Public(R, K)!Answer(r, "unavailable")
    BY <1>7, <2>2, <2>3, <2>8
  <2> QED
    BY <2>5, <2>6, <2>7, <2>8
<1> USE DEF Public!At
<1>10. CASE Public(R, K)!Receive(r)
  <2>1. /\ s = "idle" /\ k = "none" /\ b = FALSE /\ a = "none"
    BY <1>1, <1>10 DEF Public!Receive, Stands, Asking, s
  <2>2. PICK which \in K :
           job' = [job EXCEPT ![r].kind = which,
                              ![r].step = IF which = "verify" THEN "subject" ELSE "ip"]
    BY <1>10 DEF Public!Receive
  <2>3. Kept
    BY <1>2, <1>10 DEF Public!Receive
  <2> DEFINE t == IF which = "verify" THEN "subject" ELSE "ip"
  <2>4. t \in Step /\ which \in Public(R, K)!Endpoint /\ t # "answered"
    BY DEF Step
  <2>5. Becomes(R, K, r, which, t, a, o, b)
    BY <1>1, <2>2, <2>4, JobEdits DEF s, a, o, b
  <2>6. Stands(which, t, a, o, b)
    BY <2>1, <2>4
    DEF Stands, Asking, Public!Endpoint, Public!Asking, Public!Completing
  <2> HIDE DEF t
  <2> QED
    BY <2>1, <2>3, <2>4, <2>5, <2>6, PublicMove DEF Typed, s
<1>11. CASE Public(R, K)!LimitIp(r)
  <2>1. s = "ip" /\ k \in Public(R, K)!Endpoint /\ Rest
    BY <1>1, <1>3, <1>11 DEF Public!LimitIp, s, Stands
  <2>2. <<k, s>> \in Public(R, K)!Bucket
    BY <2>1 DEF Public!Bucket
  <2> DEFINE t == CASE k = "complete verification" -> "commit"
                    [] k = "verify" -> "lookup"
                    [] OTHER -> "subject"
  <2>3. Public(R, K)!Limit(r, <<k, s>>, t) \/ (Public(R, K)!Goto(r, t) /\ UNCHANGED hits)
    BY <1>11, <2>1 DEF Public!LimitIp, k
  <2>4. t \in Step
    BY DEF Step
  <2>5. Stands(k, t, a, o, b)
    BY <1>1, <2>1 DEF Stands, Asking, Completing
  <2> HIDE DEF t
  <2> QED
    BY <1>9, <2>1, <2>2, <2>3, <2>4, <2>5
<1>12. CASE Public(R, K)!LimitSubject(r)
  <2>1. s = "subject" /\ k \in Public(R, K)!Endpoint /\ Rest
    BY <1>1, <1>3, <1>12 DEF Public!LimitSubject, s, Stands
  <2>2. <<k, s>> \in Public(R, K)!Bucket
    BY <2>1 DEF Public!Bucket
  <2> DEFINE t == CASE k \in {"register", "complete registration"} -> "prepare"
                    [] k = "complete reset" -> "commit"
                    [] k = "recover" -> "lookup"
                    [] k = "verify" -> "ip"
  <2>3. Public(R, K)!Limit(r, <<k, s>>, t)
    BY <1>12, <2>1 DEF Public!LimitSubject, k
  <2>4. /\ k \in {"register", "complete registration", "complete reset", "recover", "verify"}
        /\ a = "none" /\ (k \in Asking => b = FALSE)
    BY <1>1, <2>1
    DEF Stands, Public!Endpoint, Public!Asking, Public!Completing
  <2>5. t \in Step
    BY <2>4 DEF Step
  <2>6. Stands(k, t, a, o, b)
    BY <2>4 DEF Stands, Asking, Completing
  <2> HIDE DEF t
  <2> QED
    BY <1>9, <2>1, <2>2, <2>3, <2>5, <2>6
<1> HIDE DEF Rest
<1>13. CASE Public(R, K)!RefuseLimited(r)
  <2>1. s = "limited" /\ UNCHANGED <<window, storeUp, hits, account, token, notices>>
    BY <1>13 DEF Public!RefuseLimited, s
  <2>2. Typed /\ k # "none" /\ (k \in Asking => b = FALSE)
    BY <1>1, <1>2, <2>1 DEF Stands
  <2>3. PICK y \in {"limited", "error"} : Public(R, K)!Answer(r, y)
    BY <1>13 DEF Public!RefuseLimited, Public!Write
  <2>4. events' = events \/ events' = events \cup {[by |-> r, names |-> FALSE]}
    BY <1>13 DEF Public!RefuseLimited, Public!Write
  <2> QED
    BY <1>7, <2>1, <2>2, <2>3, <2>4
<1>14. CASE Public(R, K)!PrepareInvitation(r)
  <2>1. s = "prepare" /\ k = "register" /\ Kept
    BY <1>2, <1>14 DEF Public!PrepareInvitation, s, k
  <2>2. a = "none" /\ b = FALSE /\ k \in Asking
    BY <1>1, <2>1 DEF Stands, Asking
  <2>3. CASE Public(R, K)!Goto(r, "lookup")
    <3>1. Stands(k, "lookup", a, o, b)
      BY <2>1, <2>2 DEF Stands, Asking
    <3> QED
      BY <1>4, <2>1, <2>2, <2>3, <3>1 DEF Step
  <2>4. CASE ~Public(R, K)!Goto(r, "lookup")
    <3>1. PICK n \in Public(R, K)!Noted : Public(R, K)!Note(r, n)
      BY <1>14, <2>4 DEF Public!PrepareInvitation, Public!Noted
    <3> QED
      BY <1>6, <2>1, <2>2, <3>1
  <2> QED
    BY <2>3, <2>4
<1>15. CASE Public(R, K)!Lookup(r)
  <2>1. s = "lookup" /\ Kept
    BY <1>2, <1>15 DEF Public!Lookup, s
  <2>2. k \in Asking \cup {"verify"} /\ a = "none"
    BY <1>1, <2>1 DEF Stands
  <2>3. CASE k = "verify"
    <3>1. \/ \E y \in {"error", "not sent"} : Public(R, K)!Answer(r, y)
          \/ Public(R, K)!Looked(r, "mail")
      BY <1>15, <2>3 DEF Public!Lookup, k
    <3>2. Stands(k, "mail", a, o, TRUE) /\ k \notin Asking
      BY <2>2, <2>3 DEF Stands, Asking
    <3> QED
      BY <1>5, <1>7, <2>1, <2>2, <2>3, <3>1, <3>2 DEF Step
  <2>4. CASE k \in Asking
    <3>1. \/ \E n \in Public(R, K)!Noted : Public(R, K)!LookedAndNote(r, n)
          \/ Public(R, K)!Looked(r, "persist")
          \/ k = "register" /\ Public(R, K)!Looked(r, "notice")
      BY <1>15, <2>4 DEF Public!Lookup, k, Asking, Public!Noted
    <3>2. CASE \E n \in Public(R, K)!Noted : Public(R, K)!LookedAndNote(r, n)
      BY <1>6, <2>1, <2>2, <2>4, <3>2
    <3>3. CASE Public(R, K)!Looked(r, "persist")
      <4>1. Stands(k, "persist", a, o, TRUE)
        BY <2>2, <2>4 DEF Stands, Asking
      <4> QED
        BY <1>5, <2>1, <2>2, <3>3, <4>1 DEF Step
    <3>4. CASE k = "register" /\ Public(R, K)!Looked(r, "notice")
      <4>1. Stands(k, "notice", a, o, TRUE)
        BY <2>2, <2>4, <3>4 DEF Stands, Asking
      <4> QED
        BY <1>5, <2>1, <2>2, <3>4, <4>1 DEF Step
    <3> QED
      BY <3>1, <3>2, <3>3, <3>4
  <2> QED
    BY <2>2, <2>3, <2>4
<1>16. CASE Public(R, K)!LimitNotice(r)
  <2>1. s = "notice" /\ UNCHANGED <<window, storeUp, account, token, notices, events>>
    BY <1>16 DEF Public!LimitNotice, s
  <2>2. k = "register" /\ a = "none" /\ k \in Asking
    BY <1>1, <2>1 DEF Stands, Asking
  <2>3. <<"register", "notice">> \in Public(R, K)!Bucket
    BY DEF Public!Bucket
  <2>4. hits' \in {hits, [hits EXCEPT ![<<"register", "notice">>] = @ + 1]}
    BY <1>16 DEF Public!LimitNotice, Public!Consume
  <2>5. Kept
    BY <1>1, <1>2, <2>1, <2>3, <2>4, PublicHits
  <2>6. CASE Public(R, K)!TakeSlot(r)
    <3>1. Becomes(R, K, r, k, "guide", a, o, b)
      BY <1>1, <2>6, JobEdits DEF k, s, a, o, b
    <3>2. Stands(k, "guide", a, o, b)
      BY <2>2 DEF Stands
    <3> QED
      BY <2>1, <2>2, <2>5, <3>1, <3>2, PublicMove DEF Typed, s
  <2>7. CASE Public(R, K)!Note(r, "existing_account_notice_throttled")
    BY <1>6, <2>1, <2>2, <2>5, <2>7 DEF Public!Noted
  <2> QED
    BY <1>16, <2>6, <2>7 DEF Public!LimitNotice, Public!Consume, Public!SkipNotice
<1>17. CASE Public(R, K)!Guide(r)
  <2>1. s = "guide" /\ UNCHANGED <<window, storeUp, hits, account, token, events>>
    BY <1>17 DEF Public!Guide, s
  <2>2. k = "register" /\ a = "none" /\ k \in Asking
    BY <1>1, <2>1 DEF Stands, Asking
  <2>3. notices' \in [0 .. MaxWindow -> Nat]
    BY <1>1, <1>17 DEF Public!Guide, Public!TypeOK
  <2>4. Kept
    BY <1>2, <2>1, <2>3
  <2>5. PICK n \in Public(R, K)!Noted : Public(R, K)!Note(r, n)
    BY <1>17 DEF Public!Guide, Public!Noted
  <2> QED
    BY <1>6, <2>1, <2>2, <2>4, <2>5
<1>18. CASE Public(R, K)!Persist(r)
  <2>1. s = "persist" /\ Kept
    BY <1>2, <1>18 DEF Public!Persist, s
  <2>2. k \in Asking \cup {"verify"} /\ a = "none"
    BY <1>1, <2>1 DEF Stands
  <2>3. CASE k = "verify"
    <3>1. Public(R, K)!Goto(r, "audit") \/ Public(R, K)!Answer(r, "error")
      BY <1>18, <2>3 DEF Public!Persist, Public!PersistFailed, k
    <3>2. Stands(k, "audit", a, o, b) /\ k \notin Asking
      BY <2>2, <2>3 DEF Stands, Asking
    <3> QED
      BY <1>4, <1>7, <2>1, <2>2, <2>3, <3>1, <3>2 DEF Step
  <2>4. CASE k \in Asking
    <3>1. Public(R, K)!Goto(r, "mail") \/ Public(R, K)!Note(r, "persist_failed")
      BY <1>18, <2>4 DEF Public!Persist, Public!PersistFailed, k, Asking
    <3>2. Stands(k, "mail", a, o, b)
      BY <2>2, <2>4 DEF Stands, Asking
    <3> QED
      BY <1>4, <1>6, <2>1, <2>2, <2>4, <3>1, <3>2 DEF Step, Public!Noted
  <2> QED
    BY <2>2, <2>3, <2>4
<1>19. CASE Public(R, K)!Mail(r)
  <2>1. s = "mail" /\ Kept
    BY <1>2, <1>19 DEF Public!Mail, s
  <2>2. k \in Asking \cup {"verify"} /\ a = "none"
    BY <1>1, <2>1 DEF Stands
  <2>3. CASE k = "verify"
    <3>1. Public(R, K)!Goto(r, "persist") \/ Public(R, K)!Answer(r, "error")
      BY <1>19, <2>3 DEF Public!Mail, k
    <3>2. Stands(k, "persist", a, o, b) /\ k \notin Asking
      BY <2>2, <2>3 DEF Stands, Asking
    <3> QED
      BY <1>4, <1>7, <2>1, <2>2, <2>3, <3>1, <3>2 DEF Step
  <2>4. CASE k \in Asking
    <3>1. PICK n \in Public(R, K)!Noted : Public(R, K)!Note(r, n)
      BY <1>19, <2>4 DEF Public!Mail, k, Asking, Public!Noted
    <3> QED
      BY <1>6, <2>1, <2>2, <2>4, <3>1
  <2> QED
    BY <2>2, <2>3, <2>4
<1>20. CASE Public(R, K)!Record(r)
  <2>1. s = "record" /\ UNCHANGED <<window, storeUp, hits, account, token, notices>>
    BY <1>20 DEF Public!Record, s
  <2>2. k \in Asking /\ Typed
    BY <1>1, <1>2, <2>1 DEF Stands
  <2>3. Public(R, K)!Names(r) = FALSE
    BY <2>2 DEF Public!Names, Asking, k
  <2>4. Public(R, K)!Answer(r, "accepted")
    BY <1>20 DEF Public!Record, Public!Write
  <2>5. events' = events \/ events' = events \cup {[by |-> r, names |-> FALSE]}
    BY <1>20, <2>3 DEF Public!Record, Public!Write
  <2> QED
    BY <1>7, <2>1, <2>2, <2>4, <2>5 DEF Asking
<1>21. CASE Public(R, K)!ResolveInvitation(r)
  <2>1. s = "prepare" /\ k = "complete registration" /\ Kept
    BY <1>2, <1>21 DEF Public!ResolveInvitation, s, k
  <2>2. a = "none" /\ k \notin Asking
    BY <1>1, <2>1 DEF Stands, Asking
  <2>3. Stands(k, "commit", a, o, b)
    BY <2>1, <2>2 DEF Stands, Asking, Completing
  <2> QED
    BY <1>4, <1>7, <1>21, <2>1, <2>2, <2>3 DEF Public!ResolveInvitation, Step
<1>22. CASE Public(R, K)!Commit(r)
  <2>1. s = "commit" /\ UNCHANGED <<window, storeUp, hits, notices, events>>
    BY <1>22 DEF Public!Commit, s
  <2>2. k \in Completing /\ a = "none" /\ k \notin Asking /\ k # "none"
    BY <1>1, <2>1 DEF Stands, Completing, Asking
  <2>3. Typed
    <3>1. account' \in Public(R, K)!Account
      BY <1>1, <1>22 DEF Public!Commit, Public!TypeOK, Public!Account
    <3>2. token' \in [Public(R, K)!Completing -> {"live", "used", "expired", "unknown"}]
      BY <1>1, <1>22 DEF Public!Commit, Public!TypeOK
    <3> QED
      BY <1>1, <2>1, <3>1, <3>2 DEF Typed, Public!TypeOK
  <2>4. \/ Public(R, K)!Answer(r, "error")
        \/ \E n \in Public(R, K)!Result :
            job' = [job EXCEPT ![r].step = "audit", ![r].outcome = n]
    <3>1. \A t : (IF t \in {"used", "expired"} THEN t ELSE "invalid") \in Public(R, K)!Result
      BY DEF Public!Result
    <3>2. "done" \in Public(R, K)!Result
      BY DEF Public!Result
    <3> QED
      BY <1>22, <3>1, <3>2 DEF Public!Commit
  <2>5. CASE Public(R, K)!Answer(r, "error")
    BY <1>7, <2>1, <2>2, <2>3, <2>5
  <2>6. ASSUME NEW n \in Public(R, K)!Result,
               job' = [job EXCEPT ![r].step = "audit", ![r].outcome = n]
        PROVE  PublicInv(R, K)'
    <3>1. n \in Outcome(R, K)
      BY DEF Outcome
    <3>2. Becomes(R, K, r, k, "audit", a, n, b)
      BY <1>1, <2>6, <3>1, JobEdits DEF k, s, a, o, b
    <3>3. Stands(k, "audit", a, n, b)
      BY <2>2 DEF Stands, Completing, Asking, Public!Result
    <3> QED
      BY <2>1, <2>2, <2>3, <3>2, <3>3, PublicMove DEF Typed, s
  <2> QED
    BY <2>4, <2>5, <2>6
<1>23. CASE Public(R, K)!Audit(r)
  <2>1. s = "audit" /\ UNCHANGED <<window, storeUp, hits, account, token, notices>>
    BY <1>23 DEF Public!Audit, s
  <2>2. Typed /\ a = "none"
    BY <1>1, <1>2, <2>1 DEF Stands
  <2>3. k = "verify" \/ (k \in Completing /\ o \in {"done", "used", "expired", "invalid"})
    BY <1>1, <2>1 DEF Stands
  <2>4. k \notin Asking \cup {"none"}
    BY <2>3 DEF Asking, Completing
  <2>5. CASE Public(R, K)!Answer(r, "error") /\ UNCHANGED events
    BY <1>7, <2>1, <2>2, <2>4, <2>5
  <2>6. CASE k = "verify" /\ Public(R, K)!Answer(r, "sent")
             /\ events' = events \cup {[by |-> r, names |-> TRUE]}
    BY <1>8, <2>1, <2>2, <2>4, <2>6 DEF Proven
  <2>7. CASE k # "verify" /\ Public(R, K)!Answer(r, o)
             /\ events' = events \cup {[by |-> r, names |-> o = "done"]}
    <3>1. CASE o = "done"
      <4>1. Proven(k, "answered", o)
        BY <2>3, <2>7, <3>1 DEF Proven
      <4>2. events' = events \cup {[by |-> r, names |-> TRUE]}
        <5>1. (o = "done") = TRUE
          BY <3>1
        <5> QED
          BY <2>7, <5>1
      <4> QED
        BY <1>8, <2>1, <2>2, <2>4, <2>7, <3>1, <4>1, <4>2
    <3>2. CASE o # "done"
      <4>1. events' = events \cup {[by |-> r, names |-> FALSE]}
        <5>1. (o = "done") = FALSE
          BY <3>2
        <5> QED
          BY <2>7, <5>1
      <4> QED
        BY <1>7, <2>1, <2>2, <2>3, <2>4, <2>7, <3>2, <4>1
    <3> QED
      BY <3>1, <3>2
  <2> QED
    BY <1>23, <2>5, <2>6, <2>7 DEF Public!Audit, Public!Write, Public!AuditThrows, k, o
<1> QED
  BY <1>10, <1>11, <1>12, <1>13, <1>14, <1>15, <1>16, <1>17, <1>18, <1>19, <1>20, <1>21, <1>22,
     <1>23

\* Every step preserves the invariant.
LEMMA PublicStep ==
  ASSUME NEW R, NEW K, K \subseteq Public(R, K)!Endpoint, MaxWindow \in Nat, PublicInv(R, K),
         Public(R, K)!Next
  PROVE  PublicInv(R, K)'
<1>1. ASSUME Public(R, K)!Flip \/ Public(R, K)!NextWindow \/ Public(R, K)!Administer
      PROVE  PublicInv(R, K)'
  <2>1. UNCHANGED <<token, job, notices, events>>
    BY <1>1 DEF Public!Flip, Public!NextWindow, Public!Administer
  <2>a. window \in 0 .. MaxWindow /\ storeUp \in {TRUE, FALSE}
    BY DEF PublicInv, Public!TypeOK
  <2>2. window' \in 0 .. MaxWindow /\ storeUp' \in BOOLEAN
    <3>1. CASE Public(R, K)!Flip
      <4>1. CASE storeUp = TRUE
        BY <2>a, <3>1, <4>1 DEF Public!Flip
      <4>2. CASE storeUp = FALSE
        BY <2>a, <3>1, <4>2 DEF Public!Flip
      <4> QED
        BY <2>a, <4>1, <4>2
    <3>2. CASE Public(R, K)!NextWindow
      <4>1. window' \in 0 .. MaxWindow
        BY <2>a, <3>2 DEF Public!NextWindow
      <4>2. UNCHANGED storeUp
        BY <3>2 DEF Public!NextWindow
      <4> QED
        BY <2>a, <4>1, <4>2
    <3>3. CASE Public(R, K)!Administer
      BY <2>a, <3>3 DEF Public!Administer
    <3> QED
      BY <1>1, <3>1, <3>2, <3>3
  <2>3. hits' \in [Public(R, K)!Bucket -> Nat]
    BY <1>1
    DEF Public!Flip, Public!NextWindow, Public!Administer, PublicInv, Public!TypeOK
  <2>4. account' \in Public(R, K)!Account
    <3>1. CASE Public(R, K)!Administer
      <4>1. account' \in Public(R, K)!Active \/ account' \in {"inactive"}
        BY <3>1 DEF Public!Administer
      <4> QED
        BY <4>1 DEF Public!Active, Public!Account
    <3>2. CASE UNCHANGED account
      BY <3>2 DEF PublicInv, Public!TypeOK
    <3> QED
      BY <1>1, <3>1, <3>2 DEF Public!Flip, Public!NextWindow
  <2>5. Public(R, K)!TypeOK'
    BY <2>1, <2>2, <2>3, <2>4 DEF PublicInv, Public!TypeOK
  <2>6. (\A r \in R : JobStands(r) /\ Logged(r))' /\ EventsStand'
    BY <2>1 DEF PublicInv, JobStands, Logged, EventsStand
  <2> QED
    BY <2>5, <2>6 DEF PublicInv
<1> QED
  BY <1>1, PublicRequest DEF Public!Next

\* The invariant is about the variables of the endpoints.
LEMMA PublicStutter ==
  ASSUME NEW R, NEW K, PublicInv(R, K),
         UNCHANGED <<window, storeUp, hits, account, token, job, notices, events>>
  PROVE  PublicInv(R, K)'
  BY DEF PublicInv, Public!TypeOK, JobStands, Logged, EventsStand

\* It gives what the property promises.
LEMMA PublicPromise ==
  ASSUME NEW R, NEW K, PublicInv(R, K)
  PROVE  Public(R, K)!UniformAnswer /\ Public(R, K)!AuditIsProven
<1>1. Public(R, K)!UniformAnswer
  BY DEF PublicInv, JobStands, Stands, Public!UniformAnswer, Public!At, Public!Asking, Asking
<1>2. \A e \in events : e.names =>
          \/ job[e.by].kind = "verify"
          \/ job[e.by].kind \in Public(R, K)!Completing /\ job[e.by].outcome = "done"
  BY DEF PublicInv, EventsStand, Proven, Public!Completing, Completing
<1>3. \A r \in R : job[r].answer \in {"done", "sent"} => [by |-> r, names |-> TRUE] \in events
  BY DEF PublicInv, Logged
<1> QED
  BY <1>1, <1>2, <1>3 DEF Public!AuditIsProven

\* No answer and no event of a registration, a recovery, a completion or a
\* verification request tells accounts apart, whatever fails on the way, for any
\* callers, limits and windows (registration.service.ts, password-recovery.service.ts,
\* email-verification.service.ts).
THEOREM AccountsHidden == Spec => []AccountsStayHidden
<1> DEFINE Inv == /\ component = "registering" => PublicInv(Requester, RegisteringKinds)
                  /\ component = "recovering"  => PublicInv(Recovery, RecoveringKinds)
<1>1. Init => Inv
  BY PublicAssumption, PublicInit DEF Init
<1>2. Inv /\ [Next]_vars => Inv'
  <2> SUFFICES ASSUME Inv, [Next]_vars PROVE Inv'
    OBVIOUS
  <2>1. CASE Next
    <3>1. component' = component
      BY <2>1 DEF Next
    <3>2. ASSUME component = "registering" PROVE PublicInv(Requester, RegisteringKinds)'
      BY <2>1, <3>2, PublicAssumption, PublicStep DEF Next
    <3>3. ASSUME component = "recovering" PROVE PublicInv(Recovery, RecoveringKinds)'
      BY <2>1, <3>3, PublicAssumption, PublicStep DEF Next
    <3> QED
      BY <3>1, <3>2, <3>3
  <2>2. CASE UNCHANGED vars
    <3>1. UNCHANGED component
          /\ UNCHANGED <<window, storeUp, hits, account, token, job, notices, events>>
      BY <2>2 DEF vars
    <3> QED
      BY <3>1, PublicStutter
  <2> QED
    BY <2>1, <2>2
<1>3. Inv => AccountsStayHidden
  BY PublicPromise DEF AccountsStayHidden
<1> QED
  BY <1>1, <1>2, <1>3, PTL DEF Spec

------------------------------------------------------------------------------
Notice == <<"register", "notice">>

\* The requests that are about to send a guidance email on the budget of window w.
OnSlot(R, w) == {r \in R : job[r].step = "guide" /\ job[r].slot = w}

\* What was sent and is being sent on a window was counted on it.
NoticesStand(R) ==
    /\ hits[Notice] <= MaxNotices
    /\ \A w \in 0 .. MaxWindow :
          notices[w] + Cardinality(OnSlot(R, w)) <=
              IF w = window THEN hits[Notice] ELSE IF w < window THEN MaxNotices ELSE 0

\* The requests that hold a slot of a window can be counted.
LEMMA SlotsFinite ==
  ASSUME NEW R, IsFiniteSet(R), NEW w
  PROVE  IsFiniteSet(OnSlot(R, w)) /\ Cardinality(OnSlot(R, w)) \in Nat
  BY FS_Subset, FS_CardinalityType DEF OnSlot

\* A notice is sent on a slot its window granted: no step of a flow sends more notices
\* in a window than the bucket has counted (rate-limiter.ts, registration.service.ts).
LEMMA NoticesStep ==
  ASSUME NEW R, NEW K, K \subseteq Public(R, K)!Endpoint, IsFiniteSet(R),
      MaxNotices \in Nat, MaxWindow \in Nat,
         PublicInv(R, K), Public(R, K)!Next, NoticesStand(R)
  PROVE  NoticesStand(R)'
<1>a. /\ job \in [R -> Public(R, K)!Job] /\ hits \in [Public(R, K)!Bucket -> Nat]
      /\ notices \in [0 .. MaxWindow -> Nat] /\ window \in 0 .. MaxWindow
      /\ Notice \in Public(R, K)!Bucket
  BY DEF PublicInv, Public!TypeOK, Public!Bucket, Notice
\* A step that leaves the budgets alone and neither takes nor uses a slot.
<1>b. ASSUME NEW r \in R, job' = [job EXCEPT ![r] = job'[r]], job[r].step # "guide",
             job'[r].step # "guide", hits'[Notice] = hits[Notice], UNCHANGED <<window, notices>>
      PROVE  NoticesStand(R)'
  <2>1. \A w \in 0 .. MaxWindow : OnSlot(R, w)' = OnSlot(R, w)
    BY <1>a, <1>b DEF OnSlot
  <2> QED
    BY <1>b, <2>1 DEF NoticesStand
\* So does a step that goes to another step or concludes.
<1>c. ASSUME NEW r \in R, job[r].step # "guide", hits'[Notice] = hits[Notice],
             UNCHANGED <<window, notices>>,
             \/ \E t \in Step \ {"guide"} :
                   \/ Public(R, K)!Goto(r, t) \/ Public(R, K)!Looked(r, t)
                   \/ \E k \in Public(R, K)!Endpoint :
                       job' = [job EXCEPT ![r].kind = k, ![r].step = t]
             \/ \E o \in Outcome(R, K) :
                   \/ Public(R, K)!Note(r, o) \/ Public(R, K)!LookedAndNote(r, o)
                   \/ job' = [job EXCEPT ![r].step = "audit", ![r].outcome = o]
             \/ \E a \in Reply(R, K) : Public(R, K)!Answer(r, a)
      PROVE  NoticesStand(R)'
  <2> DEFINE Moves == \E t \in Step \ {"guide"} : \E k, a, o, b : Becomes(R, K, r, k, t, a, o, b)
  <2>2. "record" \in Step \ {"guide"} /\ "audit" \in Step \ {"guide"}
        /\ "answered" \in Step \ {"guide"}
    BY DEF Step
  <2>3. ASSUME NEW t \in Step \ {"guide"},
               \/ Public(R, K)!Goto(r, t) \/ Public(R, K)!Looked(r, t)
               \/ \E k \in Public(R, K)!Endpoint :
                     job' = [job EXCEPT ![r].kind = k, ![r].step = t]
        PROVE  Moves
    <3>1. \E k, a, o, b : Becomes(R, K, r, k, t, a, o, b)
      BY <1>a, <2>3, JobEdits
    <3> QED
      BY <3>1
  <2>4. ASSUME NEW o \in Outcome(R, K),
               \/ Public(R, K)!Note(r, o) \/ Public(R, K)!LookedAndNote(r, o)
               \/ job' = [job EXCEPT ![r].step = "audit", ![r].outcome = o]
        PROVE  Moves
    <3>1. \/ \E k, a, b : Becomes(R, K, r, k, "record", a, o, b)
          \/ \E k, a, b : Becomes(R, K, r, k, "audit", a, o, b)
      BY <1>a, <2>4, JobEdits
    <3> QED
      BY <2>2, <3>1
  <2>5. ASSUME NEW a \in Reply(R, K), Public(R, K)!Answer(r, a)
        PROVE  Moves
    <3>1. \E k, o, b : Becomes(R, K, r, k, "answered", a, o, b)
      BY <1>a, <2>5, JobEdits
    <3> QED
      BY <2>2, <3>1
  <2>1. PICK t \in Step \ {"guide"} : \E k, a, o, b : Becomes(R, K, r, k, t, a, o, b)
    <3>1. Moves
      BY <1>c, <2>3, <2>4, <2>5
    <3> QED
      BY <3>1
  <2> QED
    BY <1>b, <1>c, <2>1 DEF Becomes
<1>1. ASSUME NEW r \in R, Public(R, K)!LimitIp(r) \/ Public(R, K)!LimitSubject(r)
      PROVE  NoticesStand(R)'
  <2>1. /\ job[r].step \in {"ip", "subject"} /\ job[r].step # "guide"
        /\ UNCHANGED <<window, notices>>
    BY <1>1 DEF Public!LimitIp, Public!LimitSubject, Public!At
  <2>2. PICK t \in {"commit", "lookup", "subject", "prepare", "ip"} :
           \/ Public(R, K)!Goto(r, t) /\ UNCHANGED hits
           \/ Public(R, K)!Limit(r, <<job[r].kind, job[r].step>>, t)
    <3>1. job[r].kind \in Public(R, K)!Endpoint /\ (job[r].step = "subject" =>
             job[r].kind # "complete verification")
      BY <1>a, <2>1 DEF PublicInv, JobStands, Stands, Public!Job
    <3>2. CASE Public(R, K)!LimitIp(r)
      BY <3>2 DEF Public!LimitIp, Public!At
    <3>3. CASE Public(R, K)!LimitSubject(r)
      <4>1. job[r].kind \in {"register", "complete registration", "complete reset", "recover",
                             "verify"} /\ job[r].step = "subject"
        BY <3>1, <3>3
        DEF Public!Endpoint, Public!Asking, Public!Completing, Public!LimitSubject, Public!At
      <4> QED
        BY <3>3, <4>1 DEF Public!LimitSubject
    <3> QED
      BY <1>1, <3>2, <3>3
  <2>3. hits'[Notice] = hits[Notice]
    <3>1. hits' \in {hits, [hits EXCEPT ![<<job[r].kind, job[r].step>>] = @ + 1]}
      BY <2>2 DEF Public!Limit, Public!Consume
    <3>2. <<job[r].kind, job[r].step>> # Notice
      BY <2>1 DEF Notice
    <3> QED
      BY <1>a, <3>1, <3>2
  <2>4. \/ \E u \in Step \ {"guide"} : Public(R, K)!Goto(r, u)
        \/ \E a \in Reply(R, K) : Public(R, K)!Answer(r, a)
    <3>1. t \in Step \ {"guide"} /\ "limited" \in Step \ {"guide"}
          /\ "unavailable" \in Reply(R, K)
      BY DEF Step, Reply
    <3> QED
      BY <2>2, <3>1 DEF Public!Limit, Public!Consume
  <2> QED
    BY <1>c, <2>1, <2>3, <2>4
<1>2. ASSUME NEW r \in R,
             \/ Public(R, K)!Receive(r) \/ Public(R, K)!RefuseLimited(r)
             \/ Public(R, K)!PrepareInvitation(r) \/ Public(R, K)!Lookup(r)
             \/ Public(R, K)!Persist(r) \/ Public(R, K)!Mail(r) \/ Public(R, K)!Record(r)
             \/ Public(R, K)!ResolveInvitation(r) \/ Public(R, K)!Commit(r)
             \/ Public(R, K)!Audit(r)
      PROVE  NoticesStand(R)'
  <2>1. job[r].step # "guide" /\ UNCHANGED <<window, hits, notices>>
    BY <1>2
    DEF Public!Receive, Public!RefuseLimited, Public!PrepareInvitation, Public!Lookup,
        Public!Persist, Public!Mail, Public!Record, Public!ResolveInvitation, Public!Commit,
        Public!Audit, Public!At
  <2>2. /\ {"subject", "ip", "lookup", "mail", "persist", "notice", "audit", "commit"}
             \subseteq Step \ {"guide"}
        /\ Public(R, K)!Noted \cup Public(R, K)!Result \subseteq Outcome(R, K)
        /\ {"limited", "error", "not sent", "accepted", "sent"} \cup Public(R, K)!Result
             \subseteq Reply(R, K)
    BY DEF Step, Outcome, Reply
  <2>3. CASE Public(R, K)!Receive(r)
    <3>1. PICK which \in Public(R, K)!Endpoint :
             job' = [job EXCEPT ![r].kind = which,
                                ![r].step = IF which = "verify" THEN "subject" ELSE "ip"]
      BY <2>3 DEF Public!Receive
    <3>2. PICK t \in Step \ {"guide"} : t = IF which = "verify" THEN "subject" ELSE "ip"
      BY <2>2
    <3>3. job' = [job EXCEPT ![r].kind = which, ![r].step = t]
      BY <3>1, <3>2
    <3> QED
      BY <1>c, <2>1, <3>3
  <2>4. CASE \/ Public(R, K)!RefuseLimited(r) \/ Public(R, K)!Record(r)
             \/ Public(R, K)!ResolveInvitation(r) \/ Public(R, K)!PrepareInvitation(r)
    BY <1>c, <2>1, <2>2, <2>4
    DEF Public!RefuseLimited, Public!Record, Public!ResolveInvitation,
        Public!PrepareInvitation, Public!Write, Public!Noted
  <2>5. CASE Public(R, K)!Lookup(r)
    <3>1. job[r].kind \in Asking \cup {"verify"}
      BY <2>5 DEF Public!Lookup, Public!At, PublicInv, JobStands, Stands
    <3>2. \/ \E t \in {"persist", "notice", "mail"} : Public(R, K)!Looked(r, t)
          \/ \E n \in Public(R, K)!Noted : Public(R, K)!LookedAndNote(r, n)
          \/ \E a \in {"error", "not sent"} : Public(R, K)!Answer(r, a)
      BY <2>5, <3>1 DEF Public!Lookup, Public!Noted, Asking
    <3> QED
      BY <1>c, <2>1, <2>2, <3>2
  <2>6. CASE Public(R, K)!Persist(r) \/ Public(R, K)!Mail(r)
    <3>1. \/ \E t \in {"audit", "mail", "persist"} : Public(R, K)!Goto(r, t)
          \/ \E n \in Public(R, K)!Noted : Public(R, K)!Note(r, n)
          \/ Public(R, K)!Answer(r, "error")
      BY <2>6 DEF Public!Persist, Public!PersistFailed, Public!Mail, Public!Noted
    <3> QED
      BY <1>c, <2>1, <2>2, <3>1
  <2>7. CASE Public(R, K)!Commit(r)
    <3>1. \/ Public(R, K)!Answer(r, "error")
          \/ \E n \in Public(R, K)!Result :
                job' = [job EXCEPT ![r].step = "audit", ![r].outcome = n]
      <4>1. \A t : (IF t \in {"used", "expired"} THEN t ELSE "invalid") \in Public(R, K)!Result
        BY DEF Public!Result
      <4>2. "done" \in Public(R, K)!Result
        BY DEF Public!Result
      <4> QED
        BY <2>7, <4>1, <4>2 DEF Public!Commit
    <3> QED
      BY <1>c, <2>1, <2>2, <3>1
  <2>8. CASE Public(R, K)!Audit(r)
    <3>1. \/ Public(R, K)!Answer(r, "sent") \/ Public(R, K)!Answer(r, "error")
          \/ job[r].kind # "verify" /\ Public(R, K)!Answer(r, job[r].outcome)
      BY <2>8 DEF Public!Audit, Public!Write, Public!AuditThrows
    <3>2. job[r].kind # "verify" => job[r].outcome \in Public(R, K)!Result
      BY <2>8 DEF Public!Audit, Public!At, PublicInv, JobStands, Stands, Public!Result
    <3> QED
      BY <1>c, <2>1, <2>2, <3>1, <3>2
  <2> QED
    BY <1>2, <2>3, <2>4, <2>5, <2>6, <2>7, <2>8
<1>3. ASSUME NEW r \in R, Public(R, K)!LimitNotice(r) PROVE NoticesStand(R)'
  <2>1. CASE Public(R, K)!Note(r, "existing_account_notice_throttled") /\ UNCHANGED hits
    <3>1. job' = [job EXCEPT ![r] = job'[r]] /\ job[r].step # "guide" /\ job'[r].step # "guide"
          /\ UNCHANGED <<window, notices>>
      BY <1>a, <1>3, <2>1 DEF Public!LimitNotice, Public!Note, Public!At, Public!Job
    <3> QED
      BY <1>b, <2>1, <3>1
  <2>2. CASE Public(R, K)!TakeSlot(r) /\ hits[Notice] < MaxNotices
             /\ hits' = [hits EXCEPT ![Notice] = @ + 1]
    <3>1. /\ \A q \in R : q # r => job'[q] = job[q]
          /\ job'[r].step = "guide" /\ job'[r].slot = window /\ job[r].step # "guide"
          /\ UNCHANGED <<window, notices>> /\ hits'[Notice] = hits[Notice] + 1
      BY <1>a, <1>3, <2>2
      DEF Public!LimitNotice, Public!TakeSlot, Public!At, Public!Job
    <3>2. ASSUME NEW w \in 0 .. MaxWindow
          PROVE  /\ OnSlot(R, w)' = IF w = window THEN OnSlot(R, w) \cup {r} ELSE OnSlot(R, w)
                 /\ r \notin OnSlot(R, w)
      BY <3>1 DEF OnSlot
    <3>3. Cardinality(OnSlot(R, window) \cup {r}) = Cardinality(OnSlot(R, window)) + 1
      BY <1>a, <3>2, SlotsFinite, FS_AddElement
    <3>4. ASSUME NEW w \in 0 .. MaxWindow
          PROVE  notices'[w] + Cardinality(OnSlot(R, w)') <=
                   IF w = window' THEN hits'[Notice] ELSE IF w < window' THEN MaxNotices ELSE 0
      <4>1. /\ notices'[w] = notices[w] /\ window' = window /\ notices[w] \in Nat
            /\ Cardinality(OnSlot(R, w)) \in Nat /\ hits[Notice] \in Nat
            /\ notices[w] + Cardinality(OnSlot(R, w)) <=
                 IF w = window THEN hits[Notice] ELSE IF w < window THEN MaxNotices ELSE 0
        BY <1>a, <3>1, SlotsFinite DEF NoticesStand
      <4>2. CASE w = window
        BY <3>1, <3>2, <3>3, <4>1, <4>2
      <4>3. CASE w # window
        BY <3>2, <4>1, <4>3
      <4> QED
        BY <4>2, <4>3
    <3>5. hits'[Notice] <= MaxNotices
      BY <1>a, <2>2, <3>1
    <3> QED
      BY <3>4, <3>5 DEF NoticesStand
  <2>3. hits[Notice] \in Nat
    BY <1>a
  <2> QED
    BY <1>3, <2>1, <2>2, <2>3
    DEF Public!LimitNotice, Public!Consume, Public!SkipNotice, Notice
<1>4. ASSUME NEW r \in R, Public(R, K)!Guide(r) PROVE NoticesStand(R)'
  <2> DEFINE slot == job[r].slot
  <2>1. /\ job[r] \in Public(R, K)!Job /\ job[r].step = "guide" /\ UNCHANGED <<window, hits>>
    BY <1>a, <1>4 DEF Public!Guide, Public!At
  <2>2. slot \in 0 .. MaxWindow
    BY <2>1 DEF Public!Job
  <2>3. notices' \in {notices, [notices EXCEPT ![slot] = @ + 1]}
    BY <1>4 DEF Public!Guide
  <2>4. PICK n \in Outcome(R, K) : Public(R, K)!Note(r, n)
    BY <1>4 DEF Public!Guide, Outcome, Public!Noted
  <2>5. job' = [job EXCEPT ![r] = job'[r]] /\ job'[r].step = "record"
    BY <1>a, <2>4, JobEdits DEF Becomes
  <2> HIDE DEF slot
  <2>6. ASSUME NEW w \in 0 .. MaxWindow
        PROVE  OnSlot(R, w)' = OnSlot(R, w) \ {r} /\ (r \in OnSlot(R, w) <=> w = slot)
    BY <1>a, <2>1, <2>5 DEF OnSlot, slot
  <2>7. ASSUME NEW w \in 0 .. MaxWindow
        PROVE  /\ Cardinality(OnSlot(R, w) \ {r}) =
                    IF w = slot THEN Cardinality(OnSlot(R, w)) - 1 ELSE Cardinality(OnSlot(R, w))
    BY <2>6, SlotsFinite, FS_RemoveElement
  <2>8. ASSUME NEW w \in 0 .. MaxWindow
        PROVE  notices'[w] + Cardinality(OnSlot(R, w)') <=
                 IF w = window' THEN hits'[Notice] ELSE IF w < window' THEN MaxNotices ELSE 0
    <3>1. /\ notices[w] \in Nat /\ Cardinality(OnSlot(R, w)) \in Nat /\ hits[Notice] \in Nat
          /\ notices[w] + Cardinality(OnSlot(R, w)) <=
               IF w = window THEN hits[Notice] ELSE IF w < window THEN MaxNotices ELSE 0
      BY <1>a, SlotsFinite DEF NoticesStand
    <3>2. notices'[w] = notices[w] \/ (w = slot /\ notices'[w] = notices[w] + 1)
      BY <1>a, <2>2, <2>3
    <3>3. Cardinality(OnSlot(R, w)') =
             IF w = slot THEN Cardinality(OnSlot(R, w)) - 1 ELSE Cardinality(OnSlot(R, w))
      BY <2>6, <2>7
    <3>4. notices'[w] + Cardinality(OnSlot(R, w)') <= notices[w] + Cardinality(OnSlot(R, w))
      BY <3>1, <3>2, <3>3
    <3>5. UNCHANGED <<window, hits>>
      BY <2>1
    <3>6. notices'[w] + Cardinality(OnSlot(R, w)') \in Int
      BY <3>1, <3>2, <3>3
    <3> QED
      BY <1>a, <3>1, <3>4, <3>5, <3>6
  <2> QED
    BY <2>1, <2>8 DEF NoticesStand
<1>5. ASSUME Public(R, K)!NextWindow PROVE NoticesStand(R)'
  <2>1. /\ window' = window + 1 /\ UNCHANGED <<job, notices>> /\ hits'[Notice] = 0
    BY <1>a, <1>5 DEF Public!NextWindow
  <2>2. \A w : OnSlot(R, w)' = OnSlot(R, w)
    BY <2>1 DEF OnSlot
  <2> QED
    BY <1>a, <2>1, <2>2, SlotsFinite DEF NoticesStand
<1>6. ASSUME Public(R, K)!Flip \/ Public(R, K)!Administer PROVE NoticesStand(R)'
  <2>1. UNCHANGED <<window, hits, job, notices>>
    BY <1>6 DEF Public!Flip, Public!Administer
  <2> QED
    BY <2>1 DEF NoticesStand, OnSlot
<1> QED
  BY <1>1, <1>2, <1>3, <1>4, <1>5, <1>6 DEF Public!Next

\* No window has spent anything at first.
LEMMA NoticesInit ==
  ASSUME NEW R, NEW K, MaxWindow \in Nat, MaxNotices \in Nat, Public(R, K)!Init
  PROVE  NoticesStand(R)
<1>1. \A w \in 0 .. MaxWindow : OnSlot(R, w) = {}
  BY DEF Public!Init, Public!Idle, OnSlot
<1>2. hits[Notice] = 0 /\ \A w \in 0 .. MaxWindow : notices[w] = 0
  BY DEF Public!Init, Public!Bucket, Notice
<1>3. window = 0
  BY DEF Public!Init
<1>4. ASSUME NEW w \in 0 .. MaxWindow
      PROVE  notices[w] + Cardinality(OnSlot(R, w)) <=
                IF w = window THEN hits[Notice] ELSE IF w < window THEN MaxNotices ELSE 0
  <2>1. notices[w] + Cardinality(OnSlot(R, w)) = 0
    BY <1>1, <1>2, FS_EmptySet
  <2> QED
    BY <1>2, <1>3, <2>1
<1> QED
  BY <1>2, <1>4 DEF NoticesStand

\* The budgets are about the variables of the endpoints.
LEMMA NoticesStutter ==
  ASSUME NEW R, NoticesStand(R), UNCHANGED <<window, hits, job, notices>>
  PROVE  NoticesStand(R)'
  BY DEF NoticesStand, OnSlot

\* They keep the emails of a window within the limit.
LEMMA NoticesPromise ==
  ASSUME NEW R, NEW K, IsFiniteSet(R), MaxNotices \in Nat, MaxWindow \in Nat, PublicInv(R, K),
         NoticesStand(R)
  PROVE  Public(R, K)!NoticesAreBounded
<1> SUFFICES ASSUME NEW w \in 0 .. MaxWindow PROVE notices[w] <= MaxNotices
  BY DEF Public!NoticesAreBounded
<1>1. /\ notices[w] \in Nat /\ hits[Notice] \in Nat /\ window \in Nat
      /\ Cardinality(OnSlot(R, w)) \in Nat
  BY SlotsFinite DEF PublicInv, Public!TypeOK, Public!Bucket, Notice
<1>2. /\ notices[w] + Cardinality(OnSlot(R, w)) <=
            IF w = window THEN hits[Notice] ELSE IF w < window THEN MaxNotices ELSE 0
      /\ hits[Notice] <= MaxNotices
  BY DEF NoticesStand
<1> QED
  BY <1>1, <1>2

------------------------------------------------------------------------------
\* No more calls pass than a bucket of the in-memory limiter allows in a window
\* (rate-limiter.ts), and no window sends more guidance emails to a mailbox than its
\* budget though the store fails and comes back (registration.service.ts), for any
\* callers, limits and windows.
THEOREM LimitsKept == Spec => []LimitsHold
<1> DEFINE Inv == /\ component = "limiter" => LimiterInv
                  /\ component = "registering" =>
                       PublicInv(Requester, RegisteringKinds) /\ NoticesStand(Requester)
<1>1. Init => Inv
  BY PublicAssumption, LimiterInit, PublicInit, NoticesInit DEF Init
<1>2. Inv /\ [Next]_vars => Inv'
  <2> SUFFICES ASSUME Inv, [Next]_vars PROVE Inv'
    OBVIOUS
  <2>1. CASE Next
    <3>1. component' = component
      BY <2>1 DEF Next
    <3>2. ASSUME component = "registering"
          PROVE  PublicInv(Requester, RegisteringKinds)' /\ NoticesStand(Requester)'
      BY <2>1, <3>2, PublicAssumption, PublicStep, NoticesStep DEF Next
    <3>3. ASSUME component = "limiter" PROVE LimiterInv'
      BY <2>1, <3>3, LimiterStep DEF Next
    <3> QED
      BY <3>1, <3>2, <3>3
  <2>2. CASE UNCHANGED vars
    <3>1. UNCHANGED component
          /\ UNCHANGED <<window, storeUp, hits, account, token, job, notices, events>>
      BY <2>2 DEF vars
    <3>2. LimiterInv => LimiterInv'
      BY <2>2, LimiterStutter DEF vars
    <3> QED
      BY <3>1, <3>2, PublicStutter, NoticesStutter
  <2> QED
    BY <2>1, <2>2
<1>3. Inv => LimitsHold
  BY PublicAssumption, LimiterPromise, NoticesPromise DEF LimitsHold
<1> QED
  BY <1>1, <1>2, <1>3, PTL DEF Spec

------------------------------------------------------------------------------
(* ApiKeyAuth *)

\* What a request has found in order by the step it is at.
Checks(step) ==
    (IF step \in {"org", "plan", "perKey", "perOrg", "touch", "granted"} THEN {"key"} ELSE {})
    \cup (IF step \in {"plan", "perKey", "perOrg", "touch", "granted"} THEN {"org"} ELSE {})
    \cup (IF step \in {"perKey", "perOrg", "touch", "granted"} THEN {"plan"} ELSE {})

\* Whatever is in order now was in order during the requests under way: a key is
\* revoked and expires once, and what a request is past was in order then.
SeenStands(r) ==
    /\ pc[r] # "idle" => ApiKeyAuth!InOrder \subseteq seen[r]
    /\ Checks(pc[r]) \subseteq seen[r]
    /\ seen[r] \subseteq ApiKeyAuth!Conditions

ApiKeyStep == {"idle", "lookup", "org", "plan", "failing", "record", "perKey", "perOrg", "touch",
               "granted"}
ApiKeyInv ==
    /\ now \in Nat
    /\ pc \in [Requester -> ApiKeyStep]
    /\ seen \in [Requester -> SUBSET ApiKeyAuth!Conditions]
    /\ \A r \in Requester : SeenStands(r)

\* The initial states satisfy the invariant.
LEMMA ApiKeyInit == ApiKeyAuth!Init => ApiKeyInv
  BY DEF ApiKeyAuth!Init, ApiKeyInv, SeenStands, Checks, ApiKeyStep

\* A step of one request that changes nothing of the key keeps the invariant when
\* what its new step is past was seen.
LEMMA ApiKeyMove ==
  ASSUME ApiKeyInv, NEW r \in Requester, NEW s \in ApiKeyStep,
         NEW w \in SUBSET ApiKeyAuth!Conditions,
         pc' = [pc EXCEPT ![r] = s], seen' = [seen EXCEPT ![r] = w],
         UNCHANGED <<revoked, orgActive, access, now>>,
         s # "idle" => ApiKeyAuth!InOrder \subseteq w, Checks(s) \subseteq w
  PROVE  ApiKeyInv'
<1>1. ApiKeyAuth!InOrder' = ApiKeyAuth!InOrder
  BY DEF ApiKeyAuth!InOrder
<1>2. /\ pc' \in [Requester -> ApiKeyStep]
        /\ seen' \in [Requester -> SUBSET ApiKeyAuth!Conditions]
      /\ pc'[r] = s /\ seen'[r] = w
      /\ \A q \in Requester : q # r => pc'[q] = pc[q] /\ seen'[q] = seen[q]
  BY DEF ApiKeyInv
<1>3. ASSUME NEW q \in Requester PROVE SeenStands(q)'
  <2>1. SeenStands(q)
    BY DEF ApiKeyInv
  <2>2. CASE q = r
    BY <1>1, <1>2, <2>2 DEF SeenStands
  <2>3. CASE q # r
    BY <1>1, <1>2, <2>1, <2>3 DEF SeenStands
  <2> QED
    BY <2>2, <2>3
<1> QED
  BY <1>2, <1>3 DEF ApiKeyInv

\* What the system does to the key is witnessed by every request under way.
LEMMA ApiKeyWitness ==
  ASSUME ApiKeyInv, UNCHANGED pc, now' \in Nat, ApiKeyAuth!Witness
  PROVE  ApiKeyInv'
<1>1. ApiKeyAuth!InOrder' \subseteq ApiKeyAuth!Conditions
  BY DEF ApiKeyAuth!InOrder
<1>2. ASSUME NEW q \in Requester
      PROVE  SeenStands(q)' /\ seen'[q] \in SUBSET ApiKeyAuth!Conditions
  <2>1. SeenStands(q) /\ pc'[q] = pc[q]
    BY DEF ApiKeyInv
  <2>2. seen'[q] = IF pc[q] = "idle" THEN {} ELSE seen[q] \cup ApiKeyAuth!InOrder'
    BY DEF ApiKeyAuth!Witness
  <2>3. pc[q] = "idle" => Checks(pc[q]) = {}
    BY DEF Checks
  <2> QED
    BY <1>1, <2>1, <2>2, <2>3 DEF SeenStands
<1>3. seen' \in [Requester -> SUBSET ApiKeyAuth!Conditions]
  <2>1. seen' = [q \in Requester |-> seen'[q]]
    BY DEF ApiKeyAuth!Witness
  <2> QED
    BY <1>2, <2>1
<1> QED
  BY <1>2, <1>3 DEF ApiKeyInv

\* Every step preserves the invariant.
LEMMA ApiKeyStays == ApiKeyInv /\ ApiKeyAuth!Next => ApiKeyInv'
<1> SUFFICES ASSUME ApiKeyInv, ApiKeyAuth!Next PROVE ApiKeyInv'
  OBVIOUS
<1>1. ASSUME \/ ApiKeyAuth!Revoke \/ ApiKeyAuth!ChangePlan \/ ApiKeyAuth!ChangeOrganization
             \/ ApiKeyAuth!Tick
      PROVE  ApiKeyInv'
  <2>1. UNCHANGED pc /\ ApiKeyAuth!Witness
    BY <1>1
    DEF ApiKeyAuth!Revoke, ApiKeyAuth!ChangePlan, ApiKeyAuth!ChangeOrganization, ApiKeyAuth!Tick
  <2>2. now' \in Nat
    BY <1>1
    DEF ApiKeyInv, ApiKeyAuth!Revoke, ApiKeyAuth!ChangePlan, ApiKeyAuth!ChangeOrganization,
        ApiKeyAuth!Tick
  <2> QED
    BY <2>1, <2>2, ApiKeyWitness
\* The request goes to a step, or ends.
<1>2. ASSUME NEW r \in Requester, NEW s \in ApiKeyStep, ApiKeyAuth!Goto(r, s), pc[r] # "idle",
             UNCHANGED <<revoked, orgActive, access, now, seen>>, Checks(s) \subseteq seen[r]
      PROVE  ApiKeyInv'
  <2>1. /\ seen' = [seen EXCEPT ![r] = seen[r]] /\ seen[r] \in SUBSET ApiKeyAuth!Conditions
        /\ ApiKeyAuth!InOrder \subseteq seen[r]
    BY <1>2 DEF ApiKeyInv, SeenStands
  <2> QED
    BY <1>2, <2>1, ApiKeyMove DEF ApiKeyAuth!Goto
<1>3. ASSUME NEW r \in Requester, ApiKeyAuth!Finish(r), UNCHANGED <<revoked, orgActive,
        access, now>>
      PROVE  ApiKeyInv'
  <2>1. "idle" \in ApiKeyStep /\ Checks("idle") = {}
    BY DEF ApiKeyStep, Checks
  <2> QED
    BY <1>3, <2>1, ApiKeyMove DEF ApiKeyAuth!Finish, ApiKeyAuth!Goto
<1>4. ASSUME NEW r \in Requester, pc[r] # "idle"
      PROVE  Checks(pc[r]) \subseteq seen[r] /\ ApiKeyAuth!InOrder \subseteq seen[r]
  BY <1>4 DEF ApiKeyInv, SeenStands
<1>5. ASSUME NEW r \in Requester, ApiKeyAuth!Present(r) PROVE ApiKeyInv'
  <2>1. PICK s \in {"lookup", "failing"} : ApiKeyAuth!Goto(r, s)
    BY <1>5 DEF ApiKeyAuth!Present
  <2>2. s \in ApiKeyStep /\ Checks(s) = {} /\ ApiKeyAuth!InOrder \subseteq ApiKeyAuth!Conditions
    BY DEF ApiKeyStep, Checks, ApiKeyAuth!InOrder
  <2>3. /\ pc' = [pc EXCEPT ![r] = s] /\ seen' = [seen EXCEPT ![r] = ApiKeyAuth!InOrder]
        /\ UNCHANGED <<revoked, orgActive, access, now>>
    BY <1>5, <2>1 DEF ApiKeyAuth!Present, ApiKeyAuth!Goto, ApiKeyAuth!row
  <2> QED
    BY <2>2, <2>3, ApiKeyMove
<1>6. ASSUME NEW r \in Requester, ApiKeyAuth!Lookup(r) PROVE ApiKeyInv'
  <2>1. pc[r] = "lookup" /\ UNCHANGED <<revoked, orgActive, access, now, seen>>
    BY <1>6 DEF ApiKeyAuth!Lookup, ApiKeyAuth!row
  <2>2. CASE ApiKeyAuth!Goto(r, "failing")
    BY <1>2, <2>1, <2>2 DEF Checks, ApiKeyStep
  <2>3. CASE ApiKeyAuth!Goto(r, "org") /\ ~revoked /\ ~(ExpiresAt <= now)
    <3>1. "key" \in ApiKeyAuth!InOrder
      BY <2>3, ApiKeyAssumption DEF ApiKeyInv, ApiKeyAuth!InOrder, ApiKeyAuth!Conditions
    <3>2. Checks("org") \subseteq seen[r]
      BY <1>4, <2>1, <3>1 DEF Checks
    <3> QED
      BY <1>2, <2>1, <2>3, <3>2 DEF ApiKeyStep
  <2> QED
    BY <1>6, <2>2, <2>3 DEF ApiKeyAuth!Lookup
<1>7. ASSUME NEW r \in Requester, ApiKeyAuth!CheckOrganization(r) PROVE ApiKeyInv'
  <2>1. pc[r] = "org" /\ UNCHANGED <<revoked, orgActive, access, now, seen>>
    BY <1>7 DEF ApiKeyAuth!CheckOrganization, ApiKeyAuth!row
  <2>2. CASE ApiKeyAuth!Goto(r, "failing")
    BY <1>2, <2>1, <2>2 DEF Checks, ApiKeyStep
  <2>3. CASE ApiKeyAuth!Goto(r, "plan") /\ orgActive
    <3>1. "org" \in ApiKeyAuth!InOrder
      BY <2>3 DEF ApiKeyAuth!InOrder, ApiKeyAuth!Conditions
    <3>2. Checks("plan") \subseteq seen[r]
      BY <1>4, <2>1, <3>1 DEF Checks
    <3> QED
      BY <1>2, <2>1, <2>3, <3>2 DEF ApiKeyStep
  <2> QED
    BY <1>7, <2>2, <2>3 DEF ApiKeyAuth!CheckOrganization
<1>8. ASSUME NEW r \in Requester, ApiKeyAuth!CheckEntitlement(r) PROVE ApiKeyInv'
  <2>1. pc[r] = "plan" /\ UNCHANGED <<revoked, orgActive, access, now, seen>>
    BY <1>8 DEF ApiKeyAuth!CheckEntitlement, ApiKeyAuth!row
  <2>2. CASE ApiKeyAuth!Goto(r, "record")
    BY <1>2, <2>1, <2>2 DEF Checks, ApiKeyStep
  <2>3. CASE ApiKeyAuth!Goto(r, "perKey") /\ access
    <3>1. "plan" \in ApiKeyAuth!InOrder
      BY <2>3 DEF ApiKeyAuth!InOrder, ApiKeyAuth!Conditions
    <3>2. Checks("perKey") \subseteq seen[r]
      BY <1>4, <2>1, <3>1 DEF Checks
    <3> QED
      BY <1>2, <2>1, <2>3, <3>2 DEF ApiKeyStep
  <2> QED
    BY <1>8, <2>2, <2>3 DEF ApiKeyAuth!CheckEntitlement
<1>9. ASSUME NEW r \in Requester, ApiKeyAuth!BoundEvent(r) PROVE ApiKeyInv'
  <2>1. pc[r] = "failing" /\ UNCHANGED <<revoked, orgActive, access, now>>
    BY <1>9 DEF ApiKeyAuth!BoundEvent, ApiKeyAuth!row
  <2>2. CASE ApiKeyAuth!Goto(r, "record") /\ UNCHANGED seen
    BY <1>2, <2>1, <2>2 DEF Checks, ApiKeyStep
  <2> QED
    BY <1>3, <1>9, <2>1, <2>2 DEF ApiKeyAuth!BoundEvent
<1>10. ASSUME NEW r \in Requester, NEW t, NEW u,
              <<t, u>> \in {<<"perKey", "perOrg">>, <<"perOrg", "touch">>},
              ApiKeyAuth!LimitRequest(r, t, u)
       PROVE  ApiKeyInv'
  <2>1. /\ pc[r] = t /\ t # "idle" /\ u \in ApiKeyStep /\ "record" \in ApiKeyStep
        /\ UNCHANGED <<revoked, orgActive, access, now>>
    BY <1>10 DEF ApiKeyAuth!LimitRequest, ApiKeyAuth!row, ApiKeyStep
  <2>2. Checks(u) = Checks(t) /\ Checks("record") = {}
    BY <1>10 DEF Checks
  <2>3. CASE ApiKeyAuth!Goto(r, u) /\ UNCHANGED seen
    BY <1>2, <1>4, <2>1, <2>2, <2>3
  <2>4. CASE ApiKeyAuth!Goto(r, "record") /\ UNCHANGED seen
    BY <1>2, <2>1, <2>2, <2>4
  <2> QED
    BY <1>3, <1>10, <2>1, <2>3, <2>4 DEF ApiKeyAuth!LimitRequest
<1>11. ASSUME NEW r \in Requester, ApiKeyAuth!Touch(r) PROVE ApiKeyInv'
  <2>1. pc[r] = "touch" /\ UNCHANGED <<revoked, orgActive, access, now>>
    BY <1>11 DEF ApiKeyAuth!Touch
  <2>2. Checks("granted") = Checks("touch") /\ "granted" \in ApiKeyStep
    BY DEF Checks, ApiKeyStep
  <2>3. CASE ApiKeyAuth!Goto(r, "granted") /\ UNCHANGED seen
    BY <1>2, <1>4, <2>1, <2>2, <2>3
  <2> QED
    BY <1>3, <1>11, <2>1, <2>3 DEF ApiKeyAuth!Touch
<1>12. ASSUME NEW r \in Requester,
              ApiKeyAuth!RecordEvent(r) \/ ApiKeyAuth!Respond(r) \/ ApiKeyAuth!Fail(r)
       PROVE  ApiKeyInv'
  BY <1>3, <1>12
  DEF ApiKeyAuth!RecordEvent, ApiKeyAuth!Respond, ApiKeyAuth!Fail, ApiKeyAuth!row
<1>13. ASSUME NEW r \in Requester, ApiKeyAuth!LimitKey(r) \/ ApiKeyAuth!LimitOrganization(r)
       PROVE  ApiKeyInv'
  BY <1>10, <1>13 DEF ApiKeyAuth!LimitKey, ApiKeyAuth!LimitOrganization
<1> QED
  BY <1>1, <1>5, <1>6, <1>7, <1>8, <1>9, <1>11, <1>12, <1>13 DEF ApiKeyAuth!Next

\* The invariant is about the variables of the key.
LEMMA ApiKeyStutter ==
  ApiKeyInv /\ UNCHANGED <<revoked, orgActive, access, now, pc, seen>> => ApiKeyInv'
  BY DEF ApiKeyInv, SeenStands, ApiKeyAuth!InOrder

\* It gives what the property promises.
LEMMA ApiKeyPromise == ApiKeyInv => ApiKeyAuth!GrantIsTimely
<1> SUFFICES ASSUME ApiKeyInv, NEW r \in Requester, pc[r] = "granted"
             PROVE  seen[r] = ApiKeyAuth!Conditions
  BY DEF ApiKeyAuth!GrantIsTimely
<1>1. Checks("granted") \subseteq seen[r] /\ seen[r] \subseteq ApiKeyAuth!Conditions
  BY DEF ApiKeyInv, SeenStands
<1>2. Checks("granted") = ApiKeyAuth!Conditions
  BY DEF Checks, ApiKeyAuth!Conditions
<1> QED
  BY <1>1, <1>2

------------------------------------------------------------------------------
(* Access *)

\* A session somebody has had; it keeps its owner and its end for ever.
Held(s) == session[s].owner \in User

\* Which operation takes which step, and what a request has found or done before:
\* past the reading of its user, a session that is still live was in order then.
AccessStands(r) ==
    LET j == job[r] IN
    /\ j.step = "idle" => j.op = "none" /\ j.answer = "none"
    /\ j.step \in {"limit", "credentials", "issue", "token"} => j.op = "login" /\ j.user \in User
    /\ j.step \in {"verify", "user", "session", "list", "target"} => j.op \in Access!Signed
    /\ j.step \in {"end", "end tokens"} => j.op \in {"revoke", "logout"}
    /\ j.op \in Access!Signed => j.token \in tokens /\ j.target \in Session
    /\ j.step = "list" => j.op = "list"
    /\ j.step = "target" => j.op = "revoke"
    /\ j.step \in {"session", "list", "target"} => j.user = session[j.token.session].owner
    /\ j.answer = "ok" => j.step \in {"record", "answered"}
    /\ j.step = "session" /\ Access!Live(j.token.session) => r \in seen
    /\ j.op \in Access!Signed
         /\ (j.step \in {"list", "target", "end", "end tokens"} \/ j.answer = "ok") => r \in seen
    /\ j.step \in {"token", "end", "end tokens"} => j.target \in Session /\ Held(j.target)
    /\ j.step = "end tokens" => ~session[j.target].live
    /\ j.op \in {"revoke", "logout"} /\ j.answer = "ok" =>
          j.target \in Session /\ Held(j.target) /\ ~session[j.target].live
    /\ j.op = "login" /\ j.answer = "ok" =>
          /\ j.target \in Session /\ Held(j.target)
          /\ session[j.target].live => j.target \in rotating
          /\ j.step = "record" => j.event = "login_succeeded"
          /\ j.step = "answered" => [by |-> r, event |-> "login_succeeded"] \in events

AccessInv ==
    /\ Access!TypeOK
    /\ \A s \in rotating : Held(s)
    /\ \A t \in tokens : Held(t.session)
    /\ \A r \in Requester : AccessStands(r)

\* The initial states satisfy the invariant.
LEMMA AccessInit == Access!Init => AccessInv
<1> SUFFICES ASSUME Access!Init PROVE AccessInv
  OBVIOUS
<1>1. Access!Idle \in Access!Job /\ Access!NoRow.owner = None
  BY DEF Access!Idle, Access!Job, Access!NoRow
<1>2. Access!NoRow \in [owner : User \cup {None}, live : BOOLEAN, until : Access!Time]
  BY AccessAssumption DEF Access!NoRow, Access!Time
<1>3. Access!TypeOK
  <2>1. job \in [Requester -> Access!Job]
    BY <1>1 DEF Access!Init
  <2>2. session \in [Session -> [owner : User \cup {None}, live : BOOLEAN, until : Access!Time]]
    BY <1>2 DEF Access!Init
  <2>3. /\ now \in 0 .. MaxTimeOf.access /\ status \in [User -> {"active", "inactive"}]
        /\ rotating = {} /\ tokens = {} /\ seen = {}
    BY AccessAssumption DEF Access!Init
  <2> QED
    BY <2>1, <2>2, <2>3 DEF Access!TypeOK
<1>4. ASSUME NEW r \in Requester PROVE AccessStands(r)
  BY <1>4 DEF Access!Init, AccessStands, Access!Idle, Access!Signed
<1> QED
  BY <1>3, <1>4 DEF AccessInv, Access!Init

\* What the edits of a request make of it.
Turns(r, op, step, user_, token_, target, event, answer_) ==
    /\ job' = [job EXCEPT ![r] = job'[r]] /\ job'[r] \in Access!Job
    /\ job'[r].op = op /\ job'[r].step = step /\ job'[r].user = user_ /\ job'[r].token = token_
    /\ job'[r].target = target /\ job'[r].event = event /\ job'[r].answer = answer_

AccessStep == {"idle", "limit", "credentials", "issue", "token", "verify", "user", "session",
               "list", "target", "end", "end tokens", "record", "answered"}
AccessEvent == {"none", "rate_limit_exceeded", "login_failed", "login_succeeded",
                "access_token_rejected", "logout_succeeded", "session_revoked"}

\* What a request becomes when only its own record is edited.
LEMMA AccessEdit ==
  ASSUME job \in [Requester -> Access!Job], NEW r \in Requester, NEW j \in Access!Job,
         job' = [job EXCEPT ![r] = j]
  PROVE  Turns(r, j.op, j.step, j.user, j.token, j.target, j.event, j.answer)
  BY DEF Turns

\* What a request becomes at each kind of edit its handler makes (auth.service.ts).
LEMMA AccessEdits ==
  ASSUME job \in [Requester -> Access!Job], NEW r \in Requester
  PROVE
    LET j == job[r] IN
    /\ \A s \in AccessStep : Access!Goto(r, s) =>
          Turns(r, j.op, s, j.user, j.token, j.target, j.event, j.answer)
    /\ Access!Succeed(r) => Turns(r, j.op, "answered", j.user, j.token, j.target, j.event, "ok")
    /\ Access!Fail(r) =>
          Turns(r, "none", "idle", None, Access!NoToken, None, "none", "none")
    /\ \A e \in AccessEvent : Access!Conclude(r, e) =>
          Turns(r, j.op, "record", j.user, j.token, j.target, e, "ok")
    /\ \A e \in AccessEvent : Access!Refuse(r, e) =>
          Turns(r, "none", "record", None, Access!NoToken, None, e, "none")
<1> DEFINE j == job[r]
<1>1. j \in Access!Job
  OBVIOUS
<1>2. Access!Idle \in Access!Job
  BY DEF Access!Idle, Access!Job
<1>3. ASSUME NEW s \in AccessStep, Access!Goto(r, s)
      PROVE  Turns(r, j.op, s, j.user, j.token, j.target, j.event, j.answer)
  <2> DEFINE i == [j EXCEPT !.step = s]
  <2>1. /\ i \in Access!Job /\ i.op = j.op /\ i.step = s /\ i.user = j.user /\ i.token = j.token
        /\ i.target = j.target /\ i.event = j.event /\ i.answer = j.answer
    <3>1. i \in Access!Job
      BY <1>1 DEF Access!Job, AccessStep
    <3>2. /\ i.op = j.op /\ i.step = s /\ i.user = j.user /\ i.token = j.token
          /\ i.target = j.target /\ i.event = j.event /\ i.answer = j.answer
      BY <1>1 DEF Access!Job
    <3> QED
      BY <3>1, <3>2
  <2>2. job' = [job EXCEPT ![r] = i]
    BY <1>3 DEF Access!Goto
  <2> HIDE DEF i
  <2> QED
    BY <2>1, <2>2, AccessEdit
<1>4. ASSUME Access!Succeed(r)
      PROVE  Turns(r, j.op, "answered", j.user, j.token, j.target, j.event, "ok")
  <2> DEFINE i == [j EXCEPT !.step = "answered", !.answer = "ok"]
  <2>1. /\ i \in Access!Job /\ i.op = j.op /\ i.step = "answered" /\ i.user = j.user
        /\ i.token = j.token /\ i.target = j.target /\ i.event = j.event /\ i.answer = "ok"
    <3>1. i \in Access!Job
      <4> DEFINE m == [j EXCEPT !.step = "answered"]
      <4>1. m \in Access!Job
        BY <1>1 DEF Access!Job
      <4>2. i = [m EXCEPT !.answer = "ok"]
        OBVIOUS
      <4> HIDE DEF m, i
      <4> QED
        BY <4>1, <4>2 DEF Access!Job
    <3>2. /\ i.op = j.op /\ i.step = "answered" /\ i.user = j.user /\ i.token = j.token
          /\ i.target = j.target /\ i.event = j.event /\ i.answer = "ok"
      BY <1>1 DEF Access!Job
    <3> QED
      BY <3>1, <3>2
  <2>2. job' = [job EXCEPT ![r] = i]
    BY <1>4 DEF Access!Succeed
  <2> HIDE DEF i
  <2> QED
    BY <2>1, <2>2, AccessEdit
<1>5. ASSUME Access!Fail(r)
      PROVE  Turns(r, "none", "idle", None, Access!NoToken, None, "none", "none")
  <2>1. /\ Access!Idle.op = "none" /\ Access!Idle.step = "idle" /\ Access!Idle.user = None
        /\ Access!Idle.token = Access!NoToken /\ Access!Idle.target = None
        /\ Access!Idle.event = "none" /\ Access!Idle.answer = "none"
    BY DEF Access!Idle
  <2>2. job' = [job EXCEPT ![r] = Access!Idle]
    BY <1>5 DEF Access!Fail
  <2> QED
    BY <1>2, <2>1, <2>2, AccessEdit
<1>6. ASSUME NEW e \in AccessEvent, Access!Conclude(r, e)
      PROVE  Turns(r, j.op, "record", j.user, j.token, j.target, e, "ok")
  <2> DEFINE i == [j EXCEPT !.step = "record", !.event = e, !.answer = "ok"]
  <2>1. /\ i \in Access!Job /\ i.op = j.op /\ i.step = "record" /\ i.user = j.user
        /\ i.token = j.token /\ i.target = j.target /\ i.event = e /\ i.answer = "ok"
    <3>1. i \in Access!Job
      <4> DEFINE m == [j EXCEPT !.step = "record"]
                 n == [m EXCEPT !.event = e]
      <4>1. m \in Access!Job
        BY <1>1 DEF Access!Job
      <4>2. n \in Access!Job
        <5> HIDE DEF m
        <5> QED
          BY <4>1 DEF Access!Job, AccessEvent
      <4>3. i = [n EXCEPT !.answer = "ok"]
        OBVIOUS
      <4> HIDE DEF m, n, i
      <4> QED
        BY <4>2, <4>3 DEF Access!Job
    <3>2. /\ i.op = j.op /\ i.step = "record" /\ i.user = j.user /\ i.token = j.token
          /\ i.target = j.target /\ i.event = e /\ i.answer = "ok"
      BY <1>1 DEF Access!Job
    <3> QED
      BY <3>1, <3>2
  <2>2. job' = [job EXCEPT ![r] = i]
    BY <1>6 DEF Access!Conclude
  <2> HIDE DEF i
  <2> QED
    BY <2>1, <2>2, AccessEdit
<1>7. ASSUME NEW e \in AccessEvent, Access!Refuse(r, e)
      PROVE  Turns(r, "none", "record", None, Access!NoToken, None, e, "none")
  <2> DEFINE i == [Access!Idle EXCEPT !.step = "record", !.event = e]
  <2>1. /\ i \in Access!Job /\ i.op = "none" /\ i.step = "record" /\ i.user = None
        /\ i.token = Access!NoToken /\ i.target = None /\ i.event = e /\ i.answer = "none"
    BY DEF Access!Idle, Access!Job, AccessEvent
  <2>2. job' = [job EXCEPT ![r] = i]
    BY <1>7 DEF Access!Refuse
  <2> HIDE DEF i
  <2> QED
    BY <2>1, <2>2, AccessEdit
<1> QED
  BY <1>3, <1>4, <1>5, <1>6, <1>7

\* What every step respects: a session that was had keeps its owner and its end, it
\* never comes back, and it loses its refresh token only when it is dead.
Keeps ==
    /\ now <= now' /\ tokens \subseteq tokens'
    /\ \A s \in Session : Held(s) =>
          /\ session'[s].owner = session[s].owner /\ session'[s].until = session[s].until
          /\ session'[s].live =>
                session[s].live /\ (s \in rotating => s \in rotating')

\* A request that does not move stands as it did.
LEMMA AccessOther ==
  ASSUME AccessInv, Keeps, now' \in Nat, Access!Witness, NEW q \in Requester, job'[q] = job[q],
         \A e \in events : e.by = q => e \in events'
  PROVE  AccessStands(q)'
<1> DEFINE j == job[q]
           s == j.token.session
<1>1. AccessStands(q)
  BY DEF AccessInv
<1>2. j \in Access!Job /\ now \in Nat
  BY AccessAssumption DEF AccessInv, Access!TypeOK
<1>3. j.step # "idle" /\ q \in seen => q \in seen'
  BY DEF Access!Witness
<1>4. j.op \in Access!Signed => s \in Session /\ Held(s)
  BY <1>1 DEF AccessInv, AccessStands, Access!TypeOK, Access!Token
<1>5. j.op \in Access!Signed => session'[s].owner = session[s].owner
                                /\ (Access!Live(s)' => Access!Live(s))
  <2> SUFFICES ASSUME j.op \in Access!Signed
               PROVE  /\ session'[s].owner = session[s].owner
                      /\ Access!Live(s)' => Access!Live(s)
    OBVIOUS
  <2>1. /\ session'[s].owner = session[s].owner /\ session'[s].until = session[s].until
        /\ session'[s].live => session[s].live
    BY <1>4 DEF Keeps
  <2>2. session[s].until \in Nat
    BY <1>4, AccessAssumption DEF AccessInv, Access!TypeOK, Access!Time
  <2>3. s' = j'.token.session /\ j' = j
    OBVIOUS
  <2> QED
    BY <1>2, <2>1, <2>2, <2>3 DEF Access!Live, Keeps
<1>6. j.target \in Session /\ Held(j.target) =>
         /\ Held(j.target)' /\ (session'[j.target].live => session[j.target].live)
         /\ session'[j.target].live /\ j.target \in rotating => j.target \in rotating'
  BY DEF Keeps, Held
<1>7. tokens \subseteq tokens'
  BY DEF Keeps
<1>8. [by |-> q, event |-> "login_succeeded"] \in events =>
         [by |-> q, event |-> "login_succeeded"] \in events'
  OBVIOUS
<1> QED
  BY <1>1, <1>3, <1>4, <1>5, <1>6, <1>7, <1>8 DEF AccessStands, Access!Signed

\* A step of one request keeps the invariant when that request stands after it.
LEMMA AccessMove ==
  ASSUME AccessInv, NEW r \in Requester, job' = [job EXCEPT ![r] = job'[r]],
         job'[r] \in Access!Job, Keeps, Access!Witness, UNCHANGED <<now, status>>,
         \A q \in Requester, e \in events : q # r /\ e.by = q => e \in events',
         session' \in [Session -> [owner : User \cup {None}, live : BOOLEAN, until : Access!Time]],
         rotating' \subseteq Session, tokens' \subseteq Access!Token,
         \A s \in rotating' : Held(s)', \A t \in tokens' : Held(t.session)',
         AccessStands(r)'
  PROVE  AccessInv'
<1>1. job \in [Requester -> Access!Job] /\ now \in Nat
  BY AccessAssumption DEF AccessInv, Access!TypeOK
<1>2. job' \in [Requester -> Access!Job] /\ \A q \in Requester : q # r => job'[q] = job[q]
  BY <1>1
<1>3. seen' \subseteq Requester
  BY DEF Access!Witness
<1>4. Access!TypeOK'
  BY <1>2, <1>3 DEF AccessInv, Access!TypeOK, Access!Job, Access!Token, Access!NoToken
<1>5. ASSUME NEW q \in Requester PROVE AccessStands(q)'
  <2>1. CASE q = r
    BY <2>1
  <2>2. CASE q # r
    BY <1>1, <1>2, <2>2, AccessOther
  <2> QED
    BY <2>1, <2>2
<1> QED
  BY <1>4, <1>5 DEF AccessInv

\* So does one that touches no session and no token.
LEMMA AccessQuiet ==
  ASSUME AccessInv, NEW r \in Requester, job' = [job EXCEPT ![r] = job'[r]],
         job'[r] \in Access!Job, Access!Witness, UNCHANGED <<now, status, session,
             rotating, tokens>>,
         \A q \in Requester, e \in events : q # r /\ e.by = q => e \in events',
         AccessStands(r)'
  PROVE  AccessInv'
<1>1. now \in Nat /\ session \in [Session -> [owner : User \cup {None}, live : BOOLEAN,
                                              until : Access!Time]]
      /\ rotating \subseteq Session /\ tokens \subseteq Access!Token
      /\ (\A s \in rotating : Held(s)) /\ (\A t \in tokens : Held(t.session))
  BY AccessAssumption DEF AccessInv, Access!TypeOK
<1>2. Keeps
  BY <1>1 DEF Keeps
<1>3. session' \in [Session -> [owner : User \cup {None}, live : BOOLEAN, until : Access!Time]]
  BY <1>1 DEF Access!Time
<1>4. rotating' \subseteq Session /\ tokens' \subseteq Access!Token
  BY <1>1 DEF Access!Token, Access!Time
<1>5. (\A s \in rotating' : Held(s)') /\ (\A t \in tokens' : Held(t.session)')
  BY <1>1 DEF Held
<1> QED
  BY <1>2, <1>3, <1>4, <1>5, AccessMove

\* The clock and the accounts move under every request.
LEMMA AccessWorld ==
  ASSUME AccessInv, Access!Tick \/ Access!Administer
  PROVE  AccessInv'
<1>1. /\ now \in 0 .. MaxTimeOf.access /\ status \in [User -> {"active", "inactive"}]
      /\ (\A s \in rotating : Held(s)) /\ (\A t \in tokens : Held(t.session))
  BY DEF AccessInv, Access!TypeOK
<1>2. UNCHANGED <<session, rotating, tokens, job, events>> /\ Access!Witness
  BY DEF Access!Tick, Access!Administer
<1>3. now' \in 0 .. MaxTimeOf.access /\ now <= now'
  BY <1>1, AccessAssumption DEF Access!Tick, Access!Administer
<1>4. status' \in [User -> {"active", "inactive"}]
  <2>1. CASE UNCHANGED status
    BY <1>1, <2>1
  <2>2. CASE Access!Administer
    BY <1>1, <2>2 DEF Access!Administer
  <2> QED
    BY <2>1, <2>2 DEF Access!Tick
<1>5. seen' \subseteq Requester
  BY <1>2 DEF Access!Witness
<1>6. Access!TypeOK'
  BY <1>2, <1>3, <1>4, <1>5
  DEF AccessInv, Access!TypeOK, Access!Job, Access!Token, Access!NoToken, Access!Time
<1>7. Keeps
  BY <1>2, <1>3 DEF Keeps
<1>8. \A q \in Requester : AccessStands(q)'
  BY <1>2, <1>3, <1>7, AccessOther
<1>9. (\A s \in rotating' : Held(s)') /\ (\A t \in tokens' : Held(t.session)')
  BY <1>1, <1>2 DEF Held
<1> QED
  BY <1>6, <1>8, <1>9 DEF AccessInv

\* Every step of a request that only reads preserves the invariant.
LEMMA AccessReads ==
  ASSUME AccessInv, NEW r \in Requester,
         \/ Access!Login(r) \/ Access!LimitLogin(r) \/ Access!CheckCredentials(r)
         \/ Access!Present(r) \/ Access!Verify(r) \/ Access!ReadUser(r) \/ Access!ReadSession(r)
         \/ Access!ListSessions(r) \/ Access!ReadTarget(r) \/ Access!Logout(r)
         \/ Access!Record(r) \/ Access!Throw(r) \/ Access!Leave(r)
  PROVE  AccessInv'
<1> DEFINE j == job[r]
           Same == UNCHANGED <<now, status, session, rotating, tokens>>
           Others == \A q \in Requester, e \in events : q # r /\ e.by = q => e \in events'
<1>1. /\ job \in [Requester -> Access!Job] /\ j \in Access!Job /\ AccessStands(r)
      /\ \A t \in tokens : t \in Access!Token /\ Held(t.session)
      /\ \A s \in rotating : s \in Session /\ Held(s)
  BY DEF AccessInv, Access!TypeOK
<1>2. Access!Quiet => Same /\ Others /\ UNCHANGED events /\ Access!Witness
  BY DEF Access!Quiet, Access!data
<1>3. j.step \in AccessStep /\ j.op \in Access!Signed \cup {"login", "logout", "none"}
  BY <1>1 DEF Access!Job, AccessStep
\* A request that is refused or fails has nothing left to stand for.
<1>4. ASSUME Same, Others, Access!Witness,
             Access!Fail(r) \/ \E e \in AccessEvent : Access!Refuse(r, e)
      PROVE  AccessInv'
  <2>1. /\ job' = [job EXCEPT ![r] = job'[r]] /\ job'[r] \in Access!Job
        /\ job'[r].op = "none" /\ job'[r].step \in {"idle", "record"} /\ job'[r].answer = "none"
    BY <1>1, <1>4, AccessEdits DEF Turns
  <2>2. AccessStands(r)'
    BY <2>1 DEF AccessStands, Access!Signed
  <2> QED
    BY <1>4, <2>1, <2>2, AccessQuiet
<1>5. CASE Access!Login(r)
  <2>1. j.step = "idle" /\ j.op = "none" /\ j.answer = "none" /\ Access!Quiet
    BY <1>1, <1>5 DEF Access!Login, Access!At, AccessStands
  <2>2. PICK u \in User :
           job' = [job EXCEPT ![r].op = "login", ![r].step = "limit", ![r].user = u]
    BY <1>5 DEF Access!Login
  <2> DEFINE i == [j EXCEPT !.op = "login", !.step = "limit", !.user = u]
  <2>3. /\ i \in Access!Job /\ i.op = "login" /\ i.step = "limit" /\ i.user = u
        /\ i.answer = "none"
    BY <1>1, <2>1 DEF Access!Job
  <2>4. job' = [job EXCEPT ![r] = i]
    BY <2>2
  <2> HIDE DEF i
  <2>5. /\ job' = [job EXCEPT ![r] = job'[r]] /\ job'[r] \in Access!Job
        /\ job'[r].op = "login" /\ job'[r].step = "limit" /\ job'[r].user = u
        /\ job'[r].answer = "none"
    BY <1>1, <2>3, <2>4
  <2>6. AccessStands(r)'
    BY <2>5 DEF AccessStands, Access!Signed
  <2> QED
    BY <1>2, <2>1, <2>5, <2>6, AccessQuiet
<1>6. CASE Access!LimitLogin(r) \/ Access!CheckCredentials(r)
  <2>1. j.step \in {"limit", "credentials"} /\ Access!Quiet
    BY <1>6 DEF Access!LimitLogin, Access!CheckCredentials, Access!At
  <2>2. j.op = "login" /\ j.user \in User /\ j.answer # "ok"
    BY <1>1, <2>1 DEF AccessStands
  <2>3. \/ \E t \in {"credentials", "issue"} : Access!Goto(r, t)
        \/ Access!Fail(r) \/ \E e \in AccessEvent : Access!Refuse(r, e)
    BY <1>6 DEF Access!LimitLogin, Access!CheckCredentials, AccessEvent
  <2>4. ASSUME NEW t \in {"credentials", "issue"}, Access!Goto(r, t) PROVE AccessInv'
    <3>1. t \in AccessStep
      BY DEF AccessStep
    <3>2. /\ job' = [job EXCEPT ![r] = job'[r]] /\ job'[r] \in Access!Job
          /\ job'[r].op = "login" /\ job'[r].step = t /\ job'[r].user = j.user
          /\ job'[r].answer # "ok"
      BY <1>1, <2>2, <2>4, <3>1, AccessEdits DEF Turns
    <3>3. AccessStands(r)'
      BY <2>2, <3>2 DEF AccessStands, Access!Signed
    <3> QED
      BY <1>2, <2>1, <3>2, <3>3, AccessQuiet
  <2> QED
    BY <1>2, <1>4, <2>1, <2>3, <2>4
<1>7. CASE Access!Present(r)
  <2>1. j.step = "idle" /\ j.op = "none" /\ j.answer = "none" /\ Access!Quiet
    BY <1>1, <1>7 DEF Access!Present, Access!At, AccessStands
  <2>2. PICK t \in tokens, op \in Access!Signed, target \in Session :
           job' = [job EXCEPT ![r].op = op, ![r].step = "verify", ![r].token = t,
                              ![r].target = target]
    BY <1>7 DEF Access!Present
  <2> DEFINE i == [j EXCEPT !.op = op, !.step = "verify", !.token = t, !.target = target]
  <2>3. /\ i \in Access!Job /\ i.op = op /\ i.step = "verify" /\ i.token = t
        /\ i.target = target /\ i.answer = "none"
    BY <1>1, <2>1 DEF Access!Job
  <2>4. job' = [job EXCEPT ![r] = i]
    BY <2>2
  <2> HIDE DEF i
  <2>5. /\ job' = [job EXCEPT ![r] = job'[r]] /\ job'[r] \in Access!Job
        /\ job'[r].op = op /\ job'[r].step = "verify" /\ job'[r].token = t
        /\ job'[r].target = target
        /\ job'[r].answer = "none"
    BY <1>1, <2>3, <2>4
  <2>6. AccessStands(r)'
    BY <1>2, <2>1, <2>5 DEF AccessStands, Access!Signed
  <2> QED
    BY <1>2, <2>1, <2>5, <2>6, AccessQuiet
<1>8. CASE Access!Verify(r)
  <2>1. j.step = "verify" /\ Access!Quiet
    BY <1>8 DEF Access!Verify, Access!At
  <2>2. /\ j.op \in Access!Signed /\ j.token \in tokens /\ j.answer # "ok"
        /\ j.target \in Session
    BY <1>1, <2>1 DEF AccessStands
  <2>3. CASE Access!Goto(r, "user")
    <3>1. /\ job' = [job EXCEPT ![r] = job'[r]] /\ job'[r] \in Access!Job
          /\ job'[r].op = j.op /\ job'[r].step = "user" /\ job'[r].token = j.token
          /\ job'[r].target = j.target
          /\ job'[r].answer # "ok"
      BY <1>1, <2>2, <2>3, AccessEdits DEF Turns, AccessStep
    <3>2. AccessStands(r)'
      BY <1>2, <2>1, <2>2, <3>1 DEF AccessStands, Access!Signed
    <3> QED
      BY <1>2, <2>1, <3>1, <3>2, AccessQuiet
  <2> QED
    BY <1>2, <1>4, <1>8, <2>1, <2>3 DEF Access!Verify, Access!Reject, AccessEvent
<1>9. CASE Access!ReadUser(r)
  <2> DEFINE s == j.token.session
             u == session[s].owner
  <2>1. j.step = "user" /\ Access!Quiet
    BY <1>9 DEF Access!ReadUser, Access!At
  <2>2. /\ j.op \in Access!Signed /\ j.token \in tokens /\ j.answer # "ok"
        /\ j.target \in Session
    BY <1>1, <2>1 DEF AccessStands
  <2>3. j.token \in Access!Token /\ s \in Session /\ u \in User
    BY <1>1, <2>2 DEF Access!Token, Held
  <2>4. CASE status[u] = "active" /\ job' = [job EXCEPT ![r].step = "session", ![r].user = u]
    <3> DEFINE i == [j EXCEPT !.step = "session", !.user = u]
    <3>1. /\ i \in Access!Job /\ i.op = j.op /\ i.step = "session" /\ i.token = j.token
          /\ i.target = j.target /\ i.user = u /\ i.answer = j.answer
      BY <1>1, <2>3 DEF Access!Job
    <3>2. job' = [job EXCEPT ![r] = i]
      BY <2>4
    <3> HIDE DEF i
    <3>3. /\ job' = [job EXCEPT ![r] = job'[r]] /\ job'[r] \in Access!Job
          /\ job'[r].op = j.op /\ job'[r].step = "session" /\ job'[r].token = j.token
          /\ job'[r].target = j.target
          /\ job'[r].user = u /\ job'[r].answer # "ok"
      BY <1>1, <2>2, <3>1, <3>2
    <3>4. Access!Live(job[r].token.session)' => r \in seen'
      <4>1. SUFFICES ASSUME Access!Live(job[r].token.session)' PROVE r \in seen'
        OBVIOUS
      <4>2. Access!InOrder(r)'
        BY <1>2, <2>1, <2>3, <2>4, <3>3, <4>1, AccessAssumption DEF Access!InOrder, Access!Live
      <4> QED
        BY <1>2, <2>1, <3>3, <4>2 DEF Access!Witness
    <3>5. AccessStands(r)'
      BY <1>2, <2>1, <2>2, <3>3, <3>4 DEF AccessStands, Access!Signed
    <3> QED
      BY <1>2, <2>1, <3>3, <3>5, AccessQuiet
  <2> QED
    BY <1>2, <1>4, <1>9, <2>1, <2>4 DEF Access!ReadUser, Access!Reject, AccessEvent
<1>10. CASE Access!ReadSession(r)
  <2> DEFINE s == j.token.session
  <2>1. j.step = "session" /\ Access!Quiet
    BY <1>10 DEF Access!ReadSession, Access!At
  <2>2. /\ j.op \in Access!Signed /\ j.token \in tokens /\ j.answer # "ok" /\ j.target \in Session
        /\ j.user = session[s].owner /\ (Access!Live(s) => r \in seen)
    BY <1>1, <2>1 DEF AccessStands
  <2>3. CASE Access!Trusted(r)
    <3>1. r \in seen
      BY <2>2, <2>3 DEF Access!Trusted
    <3>2. \/ j.op \in {"me"} /\ Access!Succeed(r)
          \/ j.op \in {"list"} /\ Access!Goto(r, "list")
          \/ j.op \in {"revoke"} /\ Access!Goto(r, "target")
      BY <1>10, <2>2, <2>3 DEF Access!ReadSession, Access!Signed
    <3>3. /\ job' = [job EXCEPT ![r] = job'[r]] /\ job'[r] \in Access!Job
          /\ job'[r].op = j.op /\ job'[r].token = j.token /\ job'[r].user = j.user
          /\ job'[r].target = j.target
          /\ \/ j.op \in {"me"} /\ job'[r].step = "answered"
             \/ job'[r].step = "list" /\ job'[r].answer # "ok" /\ j.op = "list"
             \/ job'[r].step = "target" /\ job'[r].answer # "ok" /\ j.op = "revoke"
      BY <1>1, <2>2, <3>2, AccessEdits DEF Turns, AccessStep
    <3>4. r \in seen'
      BY <1>2, <2>1, <3>1, <3>3 DEF Access!Witness
    <3>5. AccessStands(r)'
      BY <1>2, <2>1, <2>2, <3>3, <3>4 DEF AccessStands, Access!Signed
    <3> QED
      BY <1>2, <2>1, <3>3, <3>5, AccessQuiet
  <2> QED
    BY <1>2, <1>4, <1>10, <2>1, <2>3 DEF Access!ReadSession, Access!Reject, AccessEvent
<1>11. CASE Access!ListSessions(r)
  <2>1. j.step = "list" /\ Access!Quiet
    BY <1>11 DEF Access!ListSessions, Access!At
  <2>2. /\ j.op = "list" /\ j.op \in Access!Signed /\ j.token \in tokens /\ r \in seen
        /\ j.answer # "ok" /\ j.target \in Session
    BY <1>1, <2>1 DEF AccessStands
  <2>3. CASE Access!Succeed(r)
    <3>1. /\ job' = [job EXCEPT ![r] = job'[r]] /\ job'[r] \in Access!Job
          /\ job'[r].op = "list" /\ job'[r].token = j.token /\ job'[r].target = j.target
          /\ job'[r].step = "answered"
      BY <1>1, <2>2, <2>3, AccessEdits DEF Turns
    <3>2. r \in seen'
      BY <1>2, <2>1, <2>2, <3>1 DEF Access!Witness
    <3>3. AccessStands(r)'
      BY <1>2, <2>1, <2>2, <3>1, <3>2 DEF AccessStands, Access!Signed
    <3> QED
      BY <1>2, <2>1, <3>1, <3>3, AccessQuiet
  <2> QED
    BY <1>2, <1>4, <1>11, <2>1, <2>3 DEF Access!ListSessions
<1>12. CASE Access!ReadTarget(r)
  <2> DEFINE row == session[j.target]
  <2>1. j.step = "target" /\ Access!Quiet
    BY <1>12 DEF Access!ReadTarget, Access!At
  <2>2. /\ j.op = "revoke" /\ j.op \in Access!Signed /\ j.token \in tokens /\ r \in seen
        /\ j.answer # "ok" /\ j.user = session[j.token.session].owner /\ j.target \in Session
    BY <1>1, <2>1 DEF AccessStands
  <2>3. j.user \in User
    BY <1>1, <2>2 DEF Held
  <2>4. ASSUME row.owner = j.user,
               \/ ~row.live /\ Access!Succeed(r)
               \/ Access!Goto(r, "end")
        PROVE  AccessInv'
    <3>1. /\ job' = [job EXCEPT ![r] = job'[r]] /\ job'[r] \in Access!Job
          /\ job'[r].op = j.op /\ job'[r].token = j.token /\ job'[r].target = j.target
          /\ \/ ~row.live /\ job'[r].step = "answered"
             \/ job'[r].step = "end" /\ job'[r].answer # "ok"
      BY <1>1, <2>2, <2>4, AccessEdits DEF Turns, AccessStep
    <3>2. r \in seen'
      BY <1>2, <2>1, <2>2, <3>1 DEF Access!Witness
    <3>4. Held(j.target)
      BY <2>3, <2>4 DEF Held
    <3>5. AccessStands(r)'
      BY <1>2, <2>1, <2>2, <3>1, <3>2, <3>4 DEF AccessStands, Access!Signed, Held
    <3> QED
      BY <1>2, <2>1, <3>1, <3>5, AccessQuiet
  <2> QED
    BY <1>2, <1>4, <1>12, <2>1, <2>4 DEF Access!ReadTarget
<1>13. CASE Access!Logout(r)
  <2>1. j.step = "idle" /\ j.op = "none" /\ j.answer = "none" /\ Access!Quiet
    BY <1>1, <1>13 DEF Access!Logout, Access!At, AccessStands
  <2>2. PICK s \in rotating :
           job' = [job EXCEPT ![r].op = "logout", ![r].step = "end", ![r].target = s]
    BY <1>13 DEF Access!Logout
  <2> DEFINE i == [j EXCEPT !.op = "logout", !.step = "end", !.target = s]
  <2>3. /\ i \in Access!Job /\ i.op = "logout" /\ i.step = "end" /\ i.target = s
        /\ i.answer = "none"
    BY <1>1, <2>1 DEF Access!Job
  <2>4. job' = [job EXCEPT ![r] = i]
    BY <2>2
  <2> HIDE DEF i
  <2>5. /\ job' = [job EXCEPT ![r] = job'[r]] /\ job'[r] \in Access!Job
        /\ job'[r].op = "logout" /\ job'[r].step = "end" /\ job'[r].target = s
        /\ job'[r].answer = "none"
    BY <1>1, <2>3, <2>4
  <2>6. AccessStands(r)'
    BY <1>1, <1>2, <2>1, <2>5 DEF AccessStands, Access!Signed, Held
  <2> QED
    BY <1>2, <2>1, <2>5, <2>6, AccessQuiet
<1> DEFINE Event == [by |-> r, event |-> j.event]
<1>14. CASE Access!Record(r)
  <2>1. j.step = "record" /\ Same /\ Access!Witness
    BY <1>14 DEF Access!Record, Access!At, Access!data
  <2>2. CASE Access!Fail(r) /\ UNCHANGED events
    BY <1>4, <2>1, <2>2
  <2>3. CASE j.answer = "ok" /\ Access!Goto(r, "answered") /\ events' = events \cup {Event}
    <3>1. Others
      BY <2>3
    <3>2. /\ job' = [job EXCEPT ![r] = job'[r]] /\ job'[r] \in Access!Job
          /\ job'[r].op = j.op /\ job'[r].token = j.token /\ job'[r].target = j.target
          /\ job'[r].step = "answered" /\ job'[r].answer = "ok"
      BY <1>1, <2>3, AccessEdits DEF Turns, AccessStep
    <3>3. r \in seen => r \in seen'
      BY <2>1, <3>2 DEF Access!Witness
    <3>4. j.op = "login" => [by |-> r, event |-> "login_succeeded"] \in events'
      BY <1>1, <2>1, <2>3 DEF AccessStands
    <3>5. AccessStands(r)'
      BY <1>1, <2>1, <2>3, <3>2, <3>3, <3>4 DEF AccessStands, Access!Signed, Held
    <3> QED
      BY <2>1, <3>1, <3>2, <3>5, AccessQuiet
  <2> QED
    BY <1>14, <2>2, <2>3 DEF Access!Record
<1>15. CASE Access!Throw(r)
  BY <1>2, <1>4, <1>15 DEF Access!Throw
<1>16. CASE Access!Leave(r)
  <2>1. Same /\ Access!Witness /\ Access!Fail(r)
    BY <1>16 DEF Access!Leave, Access!data, Access!Fail
  <2>2. Others
    BY <1>16 DEF Access!Leave
  <2> QED
    BY <1>4, <2>1, <2>2
<1> QED
  BY <1>5, <1>6, <1>7, <1>8, <1>9, <1>10, <1>11, <1>12, <1>13, <1>14, <1>15, <1>16

\* InsertSession takes a row nobody had.
LEMMA AccessInsert ==
  ASSUME AccessInv, NEW r \in Requester, Access!InsertSession(r)
  PROVE  AccessInv'
<1> DEFINE j == job[r]
           Kept == [owner : User \cup {None}, live : BOOLEAN, until : Access!Time]
<1>1. /\ job \in [Requester -> Access!Job] /\ j \in Access!Job /\ AccessStands(r)
      /\ session \in [Session -> Kept] /\ now \in 0 .. MaxTimeOf.access
      /\ rotating \subseteq Session /\ tokens \subseteq Access!Token
      /\ (\A x \in rotating : Held(x)) /\ (\A t \in tokens : Held(t.session))
  BY DEF AccessInv, Access!TypeOK
<1>2. /\ j.step = "issue" /\ Access!Witness
      /\ UNCHANGED <<now, status, rotating, tokens, events>>
  BY DEF Access!InsertSession, Access!At
<1>3. j.op = "login" /\ j.user \in User /\ j.answer # "ok"
  BY <1>1, <1>2 DEF AccessStands
<1>4. PICK s \in Session :
         /\ session[s] = Access!NoRow
         /\ session' = [session EXCEPT ![s] =
                          [owner |-> j.user, live |-> TRUE, until |-> now + SessionTtl]]
         /\ job' = [job EXCEPT ![r].step = "token", ![r].target = s]
  BY DEF Access!InsertSession
<1> DEFINE new == [owner |-> j.user, live |-> TRUE, until |-> now + SessionTtl]
<1>5. now + SessionTtl \in Access!Time
  BY <1>1, AccessAssumption DEF Access!Time
<1>6. new \in Kept /\ new.owner = j.user
  BY <1>3, <1>5
<1> HIDE DEF new
<1>7. session' \in [Session -> Kept]
  <2>1. session' = [session EXCEPT ![s] = new]
    BY <1>4 DEF new
  <2> QED
    BY <1>1, <1>6, <2>1
<1>8. \A x \in Session : Held(x) => session'[x] = session[x]
  <2>1. ~Held(s)
    BY <1>4, AccessAssumption DEF Held, Access!NoRow
  <2> QED
    BY <1>1, <1>4, <2>1
<1>9. Keeps
  BY <1>1, <1>2, <1>8 DEF Keeps
<1>10. Held(s)'
  <2>1. session'[s] = new
    BY <1>1, <1>4 DEF new
  <2> QED
    BY <1>3, <1>6, <2>1 DEF Held
<1> DEFINE i == [j EXCEPT !.step = "token", !.target = s]
<1>11. /\ i \in Access!Job /\ i.op = "login" /\ i.step = "token" /\ i.target = s
       /\ i.user = j.user /\ i.answer # "ok"
  BY <1>1, <1>3 DEF Access!Job
<1>12. job' = [job EXCEPT ![r] = i]
  BY <1>4
<1> HIDE DEF i
<1>13. /\ job' = [job EXCEPT ![r] = job'[r]] /\ job'[r] \in Access!Job
       /\ job'[r].op = "login" /\ job'[r].step = "token" /\ job'[r].target = s
       /\ job'[r].user = j.user /\ job'[r].answer # "ok"
  BY <1>1, <1>11, <1>12
<1>14. AccessStands(r)'
  BY <1>3, <1>10, <1>13 DEF AccessStands, Access!Signed
<1>15. (\A x \in rotating' : Held(x)') /\ (\A t \in tokens' : Held(t.session)')
  BY <1>1, <1>2, <1>8 DEF Held, Access!Token
<1>16. rotating' \subseteq Session /\ tokens' \subseteq Access!Token
  BY <1>1, <1>2 DEF Access!Token, Access!Time
<1> HIDE DEF j
<1> QED
  BY <1>2, <1>7, <1>9, <1>13, <1>14, <1>15, <1>16, AccessMove

\* InsertFirstToken gives the new session its first tokens.
LEMMA AccessFirstToken ==
  ASSUME AccessInv, NEW r \in Requester, Access!InsertFirstToken(r)
  PROVE  AccessInv'
<1> DEFINE j == job[r]
           t == [session |-> j.target, until |-> now + AccessTtl]
<1>1. /\ job \in [Requester -> Access!Job] /\ j \in Access!Job /\ AccessStands(r)
      /\ session \in [Session -> [owner : User \cup {None}, live : BOOLEAN, until : Access!Time]]
      /\ now \in 0 .. MaxTimeOf.access
      /\ rotating \subseteq Session /\ tokens \subseteq Access!Token
      /\ (\A x \in rotating : Held(x)) /\ (\A x \in tokens : Held(x.session))
  BY DEF AccessInv, Access!TypeOK
<1>2. /\ j.step = "token" /\ Access!Witness /\ UNCHANGED <<now, status, session, events>>
      /\ rotating' = rotating \cup {j.target} /\ tokens' = tokens \cup {t}
      /\ Access!Conclude(r, "login_succeeded")
  BY DEF Access!InsertFirstToken, Access!At
<1>3. j.op = "login" /\ j.user \in User /\ j.target \in Session /\ Held(j.target)
  BY <1>1, <1>2 DEF AccessStands
<1>4. t \in Access!Token /\ t.session = j.target
  <2>1. now + AccessTtl \in Access!Time
    BY <1>1, AccessAssumption DEF Access!Time
  <2> QED
    BY <1>3, <2>1 DEF Access!Token
<1>5. Keeps
  BY <1>1, <1>2 DEF Keeps
<1>6. /\ job' = [job EXCEPT ![r] = job'[r]] /\ job'[r] \in Access!Job
      /\ job'[r].op = "login" /\ job'[r].step = "record" /\ job'[r].target = j.target
      /\ job'[r].event = "login_succeeded"
  BY <1>1, <1>2, <1>3, AccessEdits DEF Turns, AccessEvent
<1> HIDE DEF t
<1>7. (\A x \in rotating' : Held(x)') /\ (\A x \in tokens' : Held(x.session)')
  BY <1>1, <1>2, <1>3, <1>4 DEF Held
<1>8. AccessStands(r)'
  BY <1>2, <1>3, <1>6 DEF AccessStands, Access!Signed, Held
<1>9. rotating' \subseteq Session /\ tokens' \subseteq Access!Token
  <2>1. Access!Token' = Access!Token
    BY DEF Access!Token, Access!Time
  <2> QED
    BY <1>1, <1>2, <1>3, <1>4, <2>1
<1>10. session' \in [Session -> [owner : User \cup {None}, live : BOOLEAN, until : Access!Time]]
  BY <1>1, <1>2
<1> QED
  BY <1>2, <1>5, <1>6, <1>7, <1>8, <1>9, <1>10, AccessMove

\* EndSession revokes the session, EndTokens what refreshes it.
LEMMA AccessEnd ==
  ASSUME AccessInv, NEW r \in Requester, Access!EndSession(r) \/ Access!EndTokens(r)
  PROVE  AccessInv'
<1> DEFINE j == job[r]
           s == j.target
           Kept == [owner : User \cup {None}, live : BOOLEAN, until : Access!Time]
<1>1. /\ job \in [Requester -> Access!Job] /\ j \in Access!Job /\ AccessStands(r)
      /\ session \in [Session -> Kept] /\ now \in 0 .. MaxTimeOf.access
      /\ rotating \subseteq Session /\ tokens \subseteq Access!Token
      /\ (\A x \in rotating : Held(x)) /\ (\A x \in tokens : Held(x.session))
  BY DEF AccessInv, Access!TypeOK
<1>2. j.step \in {"end", "end tokens"} /\ Access!Witness /\ UNCHANGED <<now, status,
        tokens, events>>
  BY DEF Access!EndSession, Access!EndTokens, Access!At
<1>3. /\ j.op \in {"revoke", "logout"} /\ s \in Session /\ Held(s) /\ j.answer # "ok"
      /\ j.op \in Access!Signed => j.token \in tokens /\ r \in seen
      /\ j.step = "end tokens" => ~session[s].live
  BY <1>1, <1>2 DEF AccessStands
<1>4. tokens' \subseteq Access!Token
  <2>1. Access!Token' = Access!Token
    BY DEF Access!Token, Access!Time
  <2> QED
    BY <1>1, <1>2, <2>1
<1>5. CASE Access!EndSession(r)
  <2> DEFINE dead == [session[s] EXCEPT !.live = FALSE]
  <2>1. session' = [session EXCEPT ![s] = dead] /\ UNCHANGED rotating
        /\ Access!Goto(r, "end tokens")
    BY <1>5 DEF Access!EndSession
  <2>2. /\ dead \in Kept /\ dead.owner = session[s].owner /\ dead.until = session[s].until
        /\ ~dead.live
    BY <1>1, <1>3
  <2> HIDE DEF dead
  <2>3. session' \in [Session -> Kept] /\ session'[s] = dead
        /\ \A x \in Session : x # s => session'[x] = session[x]
    BY <1>1, <1>3, <2>1, <2>2
  <2>4. Keeps
    <3>1. ASSUME NEW x \in Session, Held(x)
          PROVE  /\ session'[x].owner = session[x].owner /\ session'[x].until = session[x].until
                 /\ session'[x].live => session[x].live /\ (x \in rotating => x \in rotating')
      <4>1. CASE x = s
        BY <2>1, <2>2, <2>3, <4>1
      <4>2. CASE x # s
        <5>1. session'[x] = session[x]
          BY <2>3, <4>2
        <5> QED
          BY <2>1, <5>1
      <4> QED
        BY <4>1, <4>2
    <3>2. now' = now /\ tokens' = tokens /\ now \in Int
      <4>1. now \in Int
        BY <1>1, AccessAssumption
      <4> QED
        BY <1>2, <4>1
    <3>3. now <= now' /\ tokens \subseteq tokens'
      BY <3>2
    <3> QED
      BY <3>1, <3>3 DEF Keeps
  <2>5. /\ job' = [job EXCEPT ![r] = job'[r]] /\ job'[r] \in Access!Job
        /\ job'[r].op = j.op /\ job'[r].step = "end tokens" /\ job'[r].target = s
        /\ job'[r].token = j.token /\ job'[r].answer # "ok"
    BY <1>1, <1>3, <2>1, AccessEdits DEF Turns, AccessStep
  <2>6. \A x \in Session : Held(x) => Held(x)'
    BY <2>2, <2>3 DEF Held
  <2>7. r \in seen => r \in seen'
    BY <1>2, <2>5 DEF Access!Witness
  <2>8. AccessStands(r)'
    BY <1>2, <1>3, <2>2, <2>3, <2>5, <2>6, <2>7 DEF AccessStands, Access!Signed
  <2>9. (\A x \in rotating' : Held(x)') /\ (\A x \in tokens' : Held(x.session)')
    BY <1>1, <1>2, <2>1, <2>6 DEF Access!Token
  <2> HIDE DEF j, s
  <2> QED
    BY <1>1, <1>2, <1>4, <2>1, <2>3, <2>4, <2>5, <2>8, <2>9, AccessMove
<1>6. CASE Access!EndTokens(r)
  <2>1. /\ rotating' = rotating \ {s} /\ UNCHANGED session /\ ~session[s].live
        /\ \E e \in {"logout_succeeded", "session_revoked"} : Access!Conclude(r, e)
    BY <1>3, <1>6 DEF Access!EndTokens, Access!At
  <2>2. Keeps
    <3>1. ASSUME NEW x \in Session, Held(x)
          PROVE  /\ session'[x].owner = session[x].owner /\ session'[x].until = session[x].until
                 /\ session'[x].live => session[x].live /\ (x \in rotating => x \in rotating')
      BY <2>1
    <3>2. now' = now /\ tokens' = tokens /\ now \in Int
      <4>1. now \in Int
        BY <1>1, AccessAssumption
      <4> QED
        BY <1>2, <4>1
    <3>3. now <= now' /\ tokens \subseteq tokens'
      BY <3>2
    <3> QED
      BY <3>1, <3>3 DEF Keeps
  <2>3. /\ job' = [job EXCEPT ![r] = job'[r]] /\ job'[r] \in Access!Job
        /\ job'[r].op = j.op /\ job'[r].step = "record" /\ job'[r].target = s
        /\ job'[r].token = j.token
    BY <1>1, <2>1, AccessEdits DEF Turns, AccessEvent
  <2>4. r \in seen => r \in seen'
    BY <1>2, <2>3 DEF Access!Witness
  <2>5. AccessStands(r)'
    BY <1>2, <1>3, <2>1, <2>3, <2>4 DEF AccessStands, Access!Signed, Held
  <2>6. (\A x \in rotating' : Held(x)') /\ (\A x \in tokens' : Held(x.session)')
    BY <1>1, <1>2, <2>1 DEF Held
  <2>7. session' \in [Session -> Kept] /\ rotating' \subseteq Session
    BY <1>1, <2>1
  <2> HIDE DEF j, s
  <2> QED
    BY <1>1, <1>2, <1>4, <2>2, <2>3, <2>5, <2>6, <2>7, AccessMove
<1> QED
  BY <1>5, <1>6

\* Every step preserves the invariant.
LEMMA AccessStays == AccessInv /\ Access!Next => AccessInv'
  BY AccessReads, AccessInsert, AccessFirstToken, AccessEnd, AccessWorld DEF Access!Next

\* The invariant is about the variables of the requests.
LEMMA AccessStutter ==
  ASSUME AccessInv, UNCHANGED <<now, status, session, rotating, tokens, job, seen, events>>
  PROVE  AccessInv'
<1>1. Access!TypeOK'
  BY DEF AccessInv, Access!TypeOK, Access!Job, Access!Token, Access!NoToken, Access!Time
<1>2. ASSUME NEW r \in Requester PROVE AccessStands(r)'
  BY DEF AccessInv, AccessStands, Held, Access!Live, Access!Signed
<1>3. (\A s \in rotating : Held(s))' /\ (\A t \in tokens : Held(t.session))'
  BY DEF AccessInv, Held
<1> QED
  BY <1>1, <1>2, <1>3 DEF AccessInv

\* It gives what the properties promise.
LEMMA AccessPromise == AccessInv => Access!AccessIsTimely /\ Access!AnswersAreTrue
<1> SUFFICES ASSUME AccessInv PROVE Access!AccessIsTimely /\ Access!AnswersAreTrue
  OBVIOUS
<1>1. Access!AccessIsTimely
  BY DEF AccessInv, AccessStands, Access!AccessIsTimely
<1>2. Access!AnswersAreTrue
  <2> SUFFICES ASSUME NEW r \in Requester, job[r].step = "answered", job[r].answer = "ok"
               PROVE  CASE job[r].op = "login" ->
                             /\ session[job[r].target].live => job[r].target \in rotating
                             /\ [by |-> r, event |-> "login_succeeded"] \in events
                        [] job[r].op \in {"revoke", "logout"} -> ~session[job[r].target].live
                        [] OTHER -> TRUE
    BY DEF Access!AnswersAreTrue, Access!At
  <2>1. AccessStands(r)
    BY DEF AccessInv
  <2>2. CASE job[r].op = "login"
    BY <2>1, <2>2 DEF AccessStands
  <2>3. CASE job[r].op \in {"revoke", "logout"}
    BY <2>1, <2>3 DEF AccessStands
  <2> QED
    BY <2>2, <2>3
<1> QED
  BY <1>1, <1>2

------------------------------------------------------------------------------
\* No API key and no access token lets a request in unless what it stands for was in
\* order during the request, and what a login, a revocation or a logout answers has
\* happened (api-key.authenticator.ts, auth.service.ts), for any requests, sessions,
\* users, lifetimes and clock, however the statements are interleaved.
THEOREM AccessSound == Spec => []AccessIsSound
<1> DEFINE Inv == /\ component = "api key" => ApiKeyInv
                  /\ component = "access"  => AccessInv
<1>1. Init => Inv
  BY ApiKeyInit, AccessInit DEF Init
<1>2. Inv /\ [Next]_vars => Inv'
  <2> SUFFICES ASSUME Inv, [Next]_vars PROVE Inv'
    OBVIOUS
  <2>1. CASE Next
    <3>1. component' = component
      BY <2>1 DEF Next
    <3>2. ASSUME component = "api key" PROVE ApiKeyInv'
      BY <2>1, <3>2, ApiKeyStays DEF Next
    <3>3. ASSUME component = "access" PROVE AccessInv'
      BY <2>1, <3>3, AccessStays DEF Next
    <3> QED
      BY <3>1, <3>2, <3>3
  <2>2. CASE UNCHANGED vars
    <3>1. UNCHANGED component
      BY <2>2 DEF vars
    <3>2. ApiKeyInv => ApiKeyInv'
      BY <2>2, ApiKeyStutter DEF vars
    <3>3. AccessInv => AccessInv'
      BY <2>2, AccessStutter DEF vars
    <3> QED
      BY <3>1, <3>2, <3>3
  <2> QED
    BY <2>1, <2>2
<1>3. Inv => AccessIsSound
  BY ApiKeyPromise, AccessPromise DEF AccessIsSound
<1> QED
  BY <1>1, <1>2, <1>3, PTL DEF Spec

------------------------------------------------------------------------------
(* Organizations                                                           *)

Creates(r) == {"organizations"} \subseteq written[r]
Exists(r)  == r \in committed["organizations"]

\* Where a creation stands, what its transaction has written, what is committed and
\* what was answered.
CreationStands(r) ==
    /\ pc[r] \notin {"member", "plan", "commit"} => written[r] = {}
    /\ pc[r] = "member" => written[r] = {"organizations"}
    /\ pc[r] = "plan"   => written[r] = {"organizations", "memberships"}
    /\ pc[r] = "commit" => written[r] = {"organizations", "memberships", "organization_plans"}
    /\ \A t \in Provisioning!Table : r \in committed[t] <=> Exists(r)
    /\ Exists(r) => pc[r] \in {"answer", "end"}
    /\ pc[r] = "answer" => Exists(r)
    /\ pc[r] # "end" => answer[r] = None
    /\ answer[r] = "created" => Exists(r)
    /\ answer[r] \in {"taken", "throttled", "failed"} => ~Exists(r)

\* The bases a search starts from; what a creation asked for.
SearchBase == Base \cup {Append(b, t) : b \in Base, t \in SlugToken}
Asked(r) ==
    /\ pc[r] = "idle" => suffix[r] = 1
    /\ pc[r] \notin {"idle", "end"} => ask[r] \in Provisioning!Ask
    /\ pc[r] = "check" => ask[r].kind = "explicit" /\ ask[r].base \in Explicit
    /\ pc[r] = "walk"  =>
         /\ ask[r].kind \in {"derived", "personal"}
         /\ ask[r].base \in SearchBase

Walked(r, n) ==
    \A m \in 1..n : Provisioning!IsSlugTaken(Provisioning!Candidate(ask[r].base, m))

\* The slug of a creation, from its choice on.
FirstFree(r, slug) ==
    /\ ask[r].kind = "explicit" => slug = ask[r].base
    /\ ask[r].kind # "explicit" =>
         \/ \E n \in 1..Last : /\ slug = Provisioning!Candidate(ask[r].base, n)
                               /\ Walked(r, n - 1)
         \/ Walked(r, Last)
SlugChosen(r) == FirstFree(r, slugOf[r])

\* The candidates a search has passed are taken; a chosen slug is the first free one.
SlugStands(r) ==
    /\ pc[r] = "walk" => Walked(r, suffix[r] - 1)
    /\ pc[r] \in {"insert", "member", "plan", "commit", "answer"} => SlugChosen(r)
    /\ Exists(r) => SlugChosen(r)
    /\ answer[r] = "taken" =>
         Provisioning!IsSlugTaken(IF ask[r].kind = "explicit" THEN ask[r].base ELSE slugOf[r])

\* What has a row or is about to commit one has a slug of its own.
SlugIsOwn ==
    \A r, q \in Creation :
        r # q /\ (Exists(r) \/ Creates(r)) /\ (Exists(q) \/ Creates(q)) => slugOf[r] # slugOf[q]

ProvisioningInv ==
    /\ Provisioning!TypeOK
    /\ \A r \in Creation : CreationStands(r) /\ Asked(r) /\ SlugStands(r)
    /\ SlugIsOwn

\* The initial states satisfy the invariant.
LEMMA ProvisioningInit == Provisioning!Init => ProvisioningInv
<1> SUFFICES ASSUME Provisioning!Init PROVE ProvisioningInv
  OBVIOUS
<1> USE DEF Provisioning!Init
<1>1. Provisioning!TypeOK
  BY ProvisioningAssumption DEF Provisioning!TypeOK
<1>2. ASSUME NEW r \in Creation PROVE CreationStands(r) /\ Asked(r) /\ SlugStands(r)
  BY <1>2, ProvisioningAssumption
      DEF CreationStands, Asked, SlugStands, Exists, Provisioning!Table
<1>3. SlugIsOwn
  BY DEF SlugIsOwn, Exists, Creates, Provisioning!Table
<1> QED
  BY <1>1, <1>2, <1>3 DEF ProvisioningInv

\* The other creations, and what a step of one keeps of its own.
CreationKeeps(r) ==
    /\ \A q \in Creation \ {r} :
         /\ pc'[q] = pc[q] /\ slugOf'[q] = slugOf[q] /\ ask'[q] = ask[q]
         /\ suffix'[q] = suffix[q] /\ answer'[q] = answer[q] /\ written'[q] = written[q]
         /\ \A t \in Provisioning!Table : q \in committed'[t] <=> q \in committed[t]
    /\ Exists(r) => Exists(r)' /\ slugOf'[r] = slugOf[r]

\* A taken slug stays taken.
LEMMA TakenStays ==
  ASSUME ProvisioningInv, Provisioning!TypeOK', NEW r \in Creation, CreationKeeps(r)
  PROVE  \A s : Provisioning!IsSlugTaken(s) => Provisioning!IsSlugTaken(s)'
BY DEF CreationKeeps, Provisioning!IsSlugTaken, Provisioning!Holders, Exists, Provisioning!Table

\* So what stands for the other creations stays.
LEMMA CreationsKept ==
  ASSUME ProvisioningInv, Provisioning!TypeOK', NEW r \in Creation, CreationKeeps(r)
  PROVE  \A q \in Creation \ {r} : CreationStands(q)' /\ Asked(q)' /\ SlugStands(q)'
<1> SUFFICES ASSUME NEW q \in Creation \ {r}
             PROVE  CreationStands(q)' /\ Asked(q)' /\ SlugStands(q)'
  OBVIOUS
<1>1. /\ pc'[q] = pc[q] /\ slugOf'[q] = slugOf[q] /\ ask'[q] = ask[q]
      /\ suffix'[q] = suffix[q] /\ answer'[q] = answer[q] /\ written'[q] = written[q]
      /\ \A t \in Provisioning!Table : q \in committed'[t] <=> q \in committed[t]
  BY DEF CreationKeeps
<1>2. CreationStands(q) /\ Asked(q) /\ SlugStands(q)
  BY DEF ProvisioningInv
<1>3. Exists(q)' <=> Exists(q)
  BY <1>1 DEF Exists, Provisioning!Table
<1>4. CreationStands(q)'
  BY <1>1, <1>2, <1>3 DEF CreationStands
<1>5. Asked(q)'
  BY <1>1, <1>2 DEF Asked, Provisioning!Ask
<1>6. ASSUME NEW n, Walked(q, n) PROVE Walked(q, n)'
  BY <1>1, <1>6, TakenStays DEF Walked, Provisioning!Candidate
<1>7. SlugChosen(q) => SlugChosen(q)'
  BY <1>1, <1>6 DEF SlugChosen, FirstFree, Provisioning!Candidate
<1>8. SlugStands(q)'
  <2>1. pc'[q] = "walk" => Walked(q, suffix[q] - 1)'
    BY <1>1, <1>2, TakenStays DEF SlugStands, Walked, Provisioning!Candidate
  <2>2. answer'[q] = "taken" =>
          Provisioning!IsSlugTaken(IF ask[q].kind = "explicit" THEN ask[q].base ELSE slugOf[q])'
    <3>1. CASE ask[q].kind = "explicit"
      BY <1>1, <1>2, <3>1, TakenStays DEF SlugStands
    <3>2. CASE ask[q].kind # "explicit"
      BY <1>1, <1>2, <3>2, TakenStays DEF SlugStands
    <3> QED
      BY <3>1, <3>2
  <2> QED
    BY <1>1, <1>2, <1>3, <1>7, <2>1, <2>2 DEF SlugStands
<1> QED
  BY <1>4, <1>5, <1>8

\* The creation whose step it is: the rest of the invariant.
LEMMA CreationStep ==
  ASSUME ProvisioningInv, NEW r \in Creation,
         \/ Provisioning!Begin(r) \/ Provisioning!Throttled(r) \/ Provisioning!CheckExplicit(r)
         \/ Provisioning!Walk(r) \/ Provisioning!InsertOrganization(r)
         \/ Provisioning!InsertMembership(r) \/ Provisioning!InsertPlan(r)
         \/ Provisioning!Commit(r) \/ Provisioning!Answer(r) \/ Provisioning!Fail(r)
         \/ Provisioning!Lose(r)
  PROVE  /\ Provisioning!TypeOK' /\ CreationKeeps(r) /\ SlugIsOwn'
         /\ CreationStands(r)' /\ Asked(r)' /\ SlugStands(r)'
<1> USE ProvisioningAssumption DEF Provisioning!Goto, Provisioning!Table
<1>t. Provisioning!TypeOK
  BY DEF ProvisioningInv
<1>i. CreationStands(r) /\ Asked(r) /\ SlugStands(r) /\ SlugIsOwn
  BY DEF ProvisioningInv
\* What is asked for.
<1>a. ASSUME NEW wanted \in Provisioning!Ask, NEW place \in {"check", "walk"},
             pc[r] = "idle", UNCHANGED <<slugOf, committed, written, suffix, answer>>,
             ask' = [ask EXCEPT ![r] = wanted], pc' = [pc EXCEPT ![r] = place],
             place = "check" => wanted.kind = "explicit" /\ wanted.base \in Explicit,
             place = "walk" => /\ wanted.kind \in {"derived", "personal"}
                               /\ wanted.base \in SearchBase
      PROVE  /\ Provisioning!TypeOK' /\ CreationKeeps(r) /\ SlugIsOwn'
             /\ CreationStands(r)' /\ Asked(r)' /\ SlugStands(r)'
  <2>1. Provisioning!TypeOK'
    BY <1>t, <1>a DEF Provisioning!TypeOK
  <2>2. CreationKeeps(r)
    BY <1>t, <1>i, <1>a DEF CreationKeeps, Exists, Provisioning!TypeOK
  <2>3. ~Exists(r) /\ ~Exists(r)' /\ pc'[r] = place /\ ask'[r] = wanted
    BY <1>t, <1>i, <1>a DEF CreationStands, Exists, Provisioning!TypeOK
  <2>4. CreationStands(r)'
    BY <1>i, <1>a, <2>3 DEF CreationStands, Exists
  <2>5. SlugIsOwn'
    BY <1>i, <1>a DEF SlugIsOwn, Exists, Creates
  <2>6. Asked(r)'
    BY <1>a, <2>3 DEF Asked
  <2>7. Walked(r, suffix[r] - 1)'
    BY <1>i, <1>a DEF Asked, Walked
  <2>8. answer'[r] # "taken"
    BY <1>i, <1>a DEF CreationStands
  <2>9. SlugStands(r)'
    BY <2>3, <2>7, <2>8 DEF SlugStands
  <2> QED
    BY <2>1, <2>2, <2>4, <2>5, <2>6, <2>9
<1>1. CASE Provisioning!Begin(r)
  <2>1. pc[r] = "idle" /\ UNCHANGED <<slugOf, committed, written, suffix, answer>>
    BY <1>1 DEF Provisioning!Begin
  <2>2. Last \in Nat \ {0} /\ 1 \in 1..Last
    OBVIOUS
  <2>3. ASSUME NEW b \in Explicit, ask' = [ask EXCEPT ![r] = [kind |-> "explicit", base |-> b]],
               pc' = [pc EXCEPT ![r] = "check"]
        PROVE  /\ Provisioning!TypeOK' /\ CreationKeeps(r) /\ SlugIsOwn'
               /\ CreationStands(r)' /\ Asked(r)' /\ SlugStands(r)'
    <3> DEFINE wanted == [kind |-> "explicit", base |-> b]
    <3>1. wanted \in Provisioning!Ask /\ wanted.kind = "explicit" /\ wanted.base = b
      BY DEF Provisioning!Ask, Provisioning!Slug
    <3> HIDE DEF wanted
    <3>2. ask' = [ask EXCEPT ![r] = wanted]
      BY <2>3 DEF wanted
    <3> QED
      BY <1>a, <2>1, <2>3, <3>1, <3>2
  <2>4. ASSUME NEW k \in {"derived", "personal"},
               NEW b \in SearchBase,
               ask' = [ask EXCEPT ![r] = [kind |-> k, base |-> b]],
               pc' = [pc EXCEPT ![r] = "walk"]
        PROVE  /\ Provisioning!TypeOK' /\ CreationKeeps(r) /\ SlugIsOwn'
               /\ CreationStands(r)' /\ Asked(r)' /\ SlugStands(r)'
    <3> DEFINE wanted == [kind |-> k, base |-> b]
    <3>1. b = Provisioning!Candidate(b, 1)
      BY DEF Provisioning!Candidate
    <3>2. b \in {Provisioning!Candidate(c, n) : c \in SearchBase, n \in 1..Last}
      BY <2>2, <3>1
    <3>3. b \in Provisioning!Slug
      BY <3>2 DEF Provisioning!Slug, SearchBase
    <3>4. wanted \in Provisioning!Ask /\ wanted.kind = k /\ wanted.base = b
      BY <3>3 DEF Provisioning!Ask
    <3>5. wanted.base \in SearchBase
      BY <3>4
    <3>6. ask' = [ask EXCEPT ![r] = wanted]
      BY <2>4
    <3> HIDE DEF wanted
    <3> QED
      BY <1>a, <2>1, <2>4, <3>4, <3>5, <3>6
  <2> HIDE DEF Provisioning!Table
  <2>5. CASE \E b \in Explicit : /\ ask' = [ask EXCEPT ![r] = [kind |-> "explicit", base |-> b]]
                                 /\ Provisioning!Goto(r, "check")
    BY <2>3, <2>5
  <2>6. CASE \E b \in Base : /\ ask' = [ask EXCEPT ![r] = [kind |-> "derived", base |-> b]]
                             /\ Provisioning!Goto(r, "walk")
    <3>1. PICK b \in Base : /\ ask' = [ask EXCEPT ![r] = [kind |-> "derived", base |-> b]]
                            /\ pc' = [pc EXCEPT ![r] = "walk"]
      BY <2>6
    <3>2. b \in SearchBase
      BY DEF SearchBase
    <3> QED
      BY <2>4, <3>1, <3>2
  <2>7. CASE \E b \in Base, t \in SlugToken :
               /\ ask' = [ask EXCEPT ![r] = [kind |-> "personal", base |-> Append(b, t)]]
               /\ Provisioning!Goto(r, "walk")
    <3>1. PICK b \in Base, t \in SlugToken :
               /\ ask' = [ask EXCEPT ![r] = [kind |-> "personal", base |-> Append(b, t)]]
               /\ pc' = [pc EXCEPT ![r] = "walk"]
      BY <2>7
    <3>2. Append(b, t) \in SearchBase
      BY DEF SearchBase
    <3> QED
      BY <2>4, <3>1, <3>2
  <2> QED
    BY <1>1, <2>5, <2>6, <2>7 DEF Provisioning!Begin
\* The transaction ends without its writes.
<1>2. ASSUME NEW what \in {"taken", "throttled", "failed"}, Provisioning!Abort(r, what),
             UNCHANGED slugOf, pc[r] \notin {"answer", "end"},
             what = "taken" => Provisioning!IsSlugTaken(
                IF ask[r].kind = "explicit" THEN ask[r].base ELSE slugOf[r])
      PROVE  /\ Provisioning!TypeOK' /\ CreationKeeps(r) /\ SlugIsOwn'
             /\ CreationStands(r)' /\ Asked(r)' /\ SlugStands(r)'
  <2> USE DEF Provisioning!Abort
  <2>1. Provisioning!TypeOK'
    BY <1>t, <1>2 DEF Provisioning!TypeOK
  <2>2. CreationKeeps(r)
    BY <1>t, <1>2 DEF CreationKeeps, Exists, Provisioning!TypeOK
  <2>3. ~Exists(r) /\ ~Exists(r)'
    BY <1>i, <1>2 DEF CreationStands, Exists
  <2>4. CreationStands(r)'
    BY <1>t, <1>i, <1>2, <2>3 DEF CreationStands, Exists, Provisioning!TypeOK
  <2>5. SlugIsOwn'
    BY <1>t, <1>i, <1>2 DEF SlugIsOwn, Exists, Creates, Provisioning!TypeOK
  <2>6. pc'[r] = "end" /\ answer'[r] = what /\ UNCHANGED <<ask, slugOf, committed>>
    BY <1>t, <1>2 DEF Provisioning!TypeOK
  <2>7. Asked(r)'
    BY <2>6 DEF Asked
  <2>8. SlugStands(r)'
    BY <1>2, <2>3, <2>6
       DEF SlugStands, Provisioning!IsSlugTaken, Provisioning!Holders
  <2> QED
    BY <2>1, <2>2, <2>4, <2>5, <2>7, <2>8
<1>3. CASE Provisioning!Throttled(r)
  BY <1>2, <1>3 DEF Provisioning!Throttled
<1>4. CASE Provisioning!Fail(r)
  BY <1>2, <1>4 DEF Provisioning!Fail
\* A slug is chosen: nothing else but the place changes.
<1>5. ASSUME pc[r] \in {"check", "walk"}, NEW slug \in Provisioning!Slug,
             slugOf' = [slugOf EXCEPT ![r] = slug], pc' = [pc EXCEPT ![r] = "insert"],
             UNCHANGED <<committed, written, ask, suffix, answer>>,
             FirstFree(r, slug)
      PROVE  /\ Provisioning!TypeOK' /\ CreationKeeps(r) /\ SlugIsOwn'
             /\ CreationStands(r)' /\ Asked(r)' /\ SlugStands(r)'
  <2>1. Provisioning!TypeOK'
    BY <1>t, <1>5 DEF Provisioning!TypeOK
  <2>2. ~Exists(r) /\ ~Exists(r)' /\ ~Creates(r)'
    BY <1>i, <1>5 DEF CreationStands, Exists, Creates
  <2>3. CreationKeeps(r)
    BY <1>t, <1>5, <2>2 DEF CreationKeeps, Provisioning!TypeOK
  <2>4. CreationStands(r)'
    BY <1>t, <1>i, <1>5, <2>2 DEF CreationStands, Exists, Provisioning!TypeOK
  <2>5. SlugIsOwn'
    BY <1>t, <1>i, <1>5, <2>2 DEF SlugIsOwn, Exists, Creates, Provisioning!TypeOK
  <2>6. pc'[r] = "insert" /\ slugOf'[r] = slug /\ answer'[r] # "taken"
    BY <1>t, <1>i, <1>5 DEF CreationStands, Provisioning!TypeOK
  <2>7. Asked(r)'
    BY <1>i, <1>5, <2>6 DEF Asked, Provisioning!Ask
  <2>8. \A s : Provisioning!IsSlugTaken(s) => Provisioning!IsSlugTaken(s)'
    BY <2>1, <2>3, TakenStays
  <2>9. SlugChosen(r)'
    BY <1>5, <2>6, <2>8 DEF SlugChosen, FirstFree, Walked, Provisioning!Candidate
  <2>10. SlugStands(r)'
    BY <2>6, <2>9, <2>2 DEF SlugStands
  <2> QED
    BY <2>1, <2>3, <2>4, <2>5, <2>7, <2>10
<1>6. CASE Provisioning!CheckExplicit(r)
  <2>1. /\ ask[r].kind = "explicit" /\ ask[r].base \in Provisioning!Slug
        /\ pc[r] = "check"
    BY <1>i, <1>6 DEF Asked, Provisioning!CheckExplicit, Provisioning!Slug
  <2>2. CASE Provisioning!IsSlugTaken(ask[r].base)
    BY <1>2, <1>6, <2>1, <2>2 DEF Provisioning!CheckExplicit
  <2>3. CASE ~Provisioning!IsSlugTaken(ask[r].base)
    BY <1>5, <1>6, <2>1, <2>3 DEF Provisioning!CheckExplicit, FirstFree
  <2> QED
    BY <2>2, <2>3
<1>7. CASE Provisioning!Walk(r)
  <2> DEFINE base == ask[r].base
             candidate == Provisioning!Candidate(base, suffix[r])
  <2>1. /\ pc[r] = "walk" /\ ask[r].kind # "explicit" /\ suffix[r] \in 1..Last
        /\ base \in SearchBase
        /\ Walked(r, suffix[r] - 1) /\ UNCHANGED <<committed, written, ask, answer>>
    BY <1>t, <1>i, <1>7 DEF Asked, SlugStands, Provisioning!Walk, Provisioning!TypeOK
  <2>2. CASE ~Provisioning!IsSlugTaken(candidate)
    <3>0. candidate \in {Provisioning!Candidate(b, n) : b \in SearchBase, n \in 1..Last}
      BY <2>1
    <3>1. candidate \in Provisioning!Slug
      BY <3>0 DEF Provisioning!Slug, SearchBase
    <3>2. /\ slugOf' = [slugOf EXCEPT ![r] = candidate] /\ UNCHANGED suffix
          /\ pc' = [pc EXCEPT ![r] = "insert"]
      BY <1>7, <2>2 DEF Provisioning!Walk
    <3> HIDE DEF candidate
    <3>3. FirstFree(r, candidate)
      BY <2>1 DEF candidate, FirstFree
    <3> QED
      BY <1>5, <2>1, <3>1, <3>2, <3>3
  <2>3. CASE Provisioning!IsSlugTaken(candidate) /\ suffix[r] = Last
    <3>1. Walked(r, Last)
      BY <2>1, <2>3 DEF Walked
    <3>2. PICK t \in SlugToken : slugOf' = [slugOf EXCEPT ![r] = Append(base, t)]
      BY <1>7, <2>3 DEF Provisioning!Walk
    <3>3. pc' = [pc EXCEPT ![r] = "insert"] /\ UNCHANGED suffix
      BY <1>7, <2>3 DEF Provisioning!Walk
    <3>4. Append(base, t) \in Provisioning!Slug
      <4>1. CASE base \in Base
        <5>1. Append(base, t) \in {Append(b, u) : b \in Base, u \in SlugToken}
          BY <4>1
        <5> QED
          BY <5>1 DEF Provisioning!Slug
      <4>2. CASE base \in {Append(b, u) : b \in Base, u \in SlugToken}
        <5>1. PICK b \in Base, u \in SlugToken : base = Append(b, u)
          BY <4>2
        <5>2. Append(base, t) \in {Append(Append(c, v), w) : c \in Base, v \in SlugToken,
                                                           w \in SlugToken}
          BY <5>1
        <5> QED
          BY <5>2 DEF Provisioning!Slug
      <4> QED
        BY <2>1, <4>1, <4>2 DEF SearchBase
    <3>5. FirstFree(r, Append(base, t))
      BY <2>1, <3>1 DEF FirstFree
    <3> QED
      BY <1>5, <2>1, <3>2, <3>3, <3>4, <3>5
  <2>4. CASE Provisioning!IsSlugTaken(candidate) /\ suffix[r] # Last
    <3>1. suffix' = [suffix EXCEPT ![r] = @ + 1] /\ UNCHANGED <<slugOf, pc>>
      BY <1>7, <2>4 DEF Provisioning!Walk
    <3>2. Provisioning!TypeOK'
      BY <1>t, <2>1, <2>4, <3>1 DEF Provisioning!TypeOK
    <3>3. suffix'[r] = suffix[r] + 1
      BY <1>t, <3>1 DEF Provisioning!TypeOK
    <3>4. CreationKeeps(r)
      BY <1>t, <2>1, <3>1 DEF CreationKeeps, Exists, Provisioning!TypeOK
    <3>5. CreationStands(r)' /\ SlugIsOwn'
      BY <1>i, <2>1, <3>1 DEF CreationStands, SlugIsOwn, Exists, Creates
    <3>6. Asked(r)'
      BY <1>i, <2>1, <3>1 DEF Asked, Provisioning!Ask
    <3>7. Walked(r, suffix[r])
      BY <2>1, <2>4 DEF Walked
    <3>8. \A s : Provisioning!IsSlugTaken(s) => Provisioning!IsSlugTaken(s)'
      BY <3>2, <3>4, TakenStays
    <3>9. Walked(r, suffix[r] - 1)'
      BY <2>1, <3>3, <3>7, <3>8 DEF Walked, Provisioning!Candidate
    <3>10. ~Exists(r) /\ ~Exists(r)' /\ answer'[r] # "taken" /\ pc'[r] = "walk"
      BY <1>i, <2>1, <3>1 DEF CreationStands, Exists
    <3>11. SlugStands(r)'
      BY <3>9, <3>10 DEF SlugStands
    <3> QED
      BY <3>2, <3>4, <3>5, <3>6, <3>11
  <2> QED
    BY <2>2, <2>3, <2>4
\* A row is written: the slug and what is committed stay.
<1>8. ASSUME NEW tables \in SUBSET Provisioning!Table, NEW place,
             \/ pc[r] = "insert" /\ tables = {"organizations"} /\ place = "member"
             \/ pc[r] = "member" /\ tables = {"organizations", "memberships"} /\ place = "plan"
             \/ pc[r] = "plan" /\ tables = Provisioning!Table /\ place = "commit",
             written' = [written EXCEPT ![r] = tables], pc' = [pc EXCEPT ![r] = place],
             UNCHANGED <<slugOf, committed, ask, suffix, answer>>
      PROVE  /\ Provisioning!TypeOK' /\ CreationKeeps(r)
             /\ CreationStands(r)' /\ Asked(r)' /\ SlugStands(r)'
  <2>1. Provisioning!TypeOK'
    BY <1>t, <1>8 DEF Provisioning!TypeOK
  <2>2. CreationKeeps(r)
    BY <1>t, <1>8 DEF CreationKeeps, Exists, Provisioning!TypeOK
  <2>3. pc'[r] = place /\ written'[r] = tables
    BY <1>t, <1>8 DEF Provisioning!TypeOK
  <2>4. CreationStands(r)'
    BY <1>i, <1>8, <2>3 DEF CreationStands, Exists
  <2>5. Asked(r)'
    BY <1>i, <1>8, <2>3 DEF Asked, Provisioning!Ask
  <2>6. SlugChosen(r)'
    BY <1>i, <1>8 DEF SlugStands, SlugChosen, FirstFree, Walked, Provisioning!Candidate,
       Provisioning!IsSlugTaken, Provisioning!Holders
  <2>7. answer'[r] # "taken" /\ pc'[r] # "walk"
    BY <1>i, <1>8, <2>3 DEF CreationStands
  <2>8. SlugStands(r)'
    BY <2>6, <2>7 DEF SlugStands
  <2> QED
    BY <2>1, <2>2, <2>4, <2>5, <2>8
<1>9. CASE Provisioning!InsertOrganization(r)
  <2>1. /\ pc[r] = "insert" /\ UNCHANGED slugOf /\ SlugChosen(r)
        /\ \A q \in Creation \ {r} : slugOf[q] = slugOf[r] => "organizations" \notin written[q]
    BY <1>i, <1>9 DEF Provisioning!InsertOrganization, Provisioning!Holders, SlugStands
  <2>2. CASE Provisioning!IsSlugTaken(slugOf[r])
    <3>1. Provisioning!IsSlugTaken(
                IF ask[r].kind = "explicit" THEN ask[r].base ELSE slugOf[r])
      BY <2>1, <2>2 DEF SlugChosen, FirstFree
    <3>2. Provisioning!Abort(r, Provisioning!OnViolation(r))
      BY <1>9, <2>2 DEF Provisioning!InsertOrganization
    <3>3. Provisioning!OnViolation(r) \in {"taken", "failed"}
      BY DEF Provisioning!OnViolation
    <3> QED
      BY <1>2, <2>1, <3>1, <3>2, <3>3
  <2>3. CASE ~Provisioning!IsSlugTaken(slugOf[r])
    <3>1. /\ written' = [written EXCEPT ![r] = {"organizations"}]
          /\ pc' = [pc EXCEPT ![r] = "member"]
          /\ UNCHANGED <<slugOf, committed, ask, suffix, answer>>
      BY <1>9, <2>3 DEF Provisioning!InsertOrganization
    <3>2. \A q \in Creation \ {r} : Exists(q) \/ Creates(q) => slugOf[q] # slugOf[r]
      BY <2>1, <2>3 DEF Provisioning!IsSlugTaken, Provisioning!Holders, Exists, Creates
    <3>3. \A q \in Creation \ {r} : (Exists(q) \/ Creates(q))' <=> (Exists(q) \/ Creates(q))
      BY <1>t, <3>1 DEF Exists, Creates, Provisioning!TypeOK
    <3>4. SlugIsOwn'
      BY <1>i, <3>1, <3>2, <3>3 DEF SlugIsOwn
    <3> QED
      BY <1>8, <2>1, <3>1, <3>4
  <2> QED
    BY <2>2, <2>3
<1>10. CASE Provisioning!InsertMembership(r)
  <2>1. /\ pc[r] = "member" /\ pc' = [pc EXCEPT ![r] = "plan"]
        /\ written' = [written EXCEPT ![r] = {"organizations", "memberships"}]
        /\ UNCHANGED <<slugOf, committed, ask, suffix, answer>>
    BY <1>t, <1>i, <1>10 DEF Provisioning!InsertMembership, CreationStands
  <2>2. \A q \in Creation : Creates(q)' <=> Creates(q)
    BY <1>t, <1>i, <2>1 DEF CreationStands, Creates, Provisioning!TypeOK
  <2>3. SlugIsOwn'
    BY <1>i, <2>1, <2>2 DEF SlugIsOwn, Exists
  <2> QED
    BY <1>8, <2>1, <2>3
<1>11. CASE Provisioning!InsertPlan(r)
  <2>1. /\ pc[r] = "plan" /\ pc' = [pc EXCEPT ![r] = "commit"]
        /\ written' = [written EXCEPT ![r] = Provisioning!Table]
        /\ UNCHANGED <<slugOf, committed, ask, suffix, answer>>
    <3>1. written[r] \cup {"organization_plans"} = Provisioning!Table
      BY <1>i, <1>11 DEF Provisioning!InsertPlan, CreationStands
    <3> QED
      BY <1>t, <1>11, <3>1 DEF Provisioning!InsertPlan
  <2>2. \A q \in Creation : Creates(q)' <=> Creates(q)
    BY <1>t, <1>i, <2>1 DEF CreationStands, Creates, Provisioning!TypeOK
  <2>3. SlugIsOwn'
    BY <1>i, <2>1, <2>2 DEF SlugIsOwn, Exists
  <2> QED
    BY <1>8, <2>1, <2>3
<1>12. CASE Provisioning!Commit(r)
  <2>1. /\ pc[r] = "commit" /\ pc' = [pc EXCEPT ![r] = "answer"]
        /\ written[r] = Provisioning!Table /\ written' = [written EXCEPT ![r] = {}]
        /\ committed' = [t \in Provisioning!Table |-> committed[t] \cup {r}]
        /\ UNCHANGED <<slugOf, ask, suffix, answer>>
    BY <1>i, <1>12 DEF Provisioning!Commit, CreationStands
  <2>2. Provisioning!TypeOK'
    BY <1>t, <2>1 DEF Provisioning!TypeOK
  <2>3. CreationKeeps(r)
    BY <1>t, <2>1 DEF CreationKeeps, Exists, Provisioning!TypeOK
  <2>4. Exists(r)' /\ pc'[r] = "answer" /\ written'[r] = {} /\ answer'[r] = None
    BY <1>t, <1>i, <2>1 DEF CreationStands, Exists, Provisioning!TypeOK
  <2>5. CreationStands(r)'
    BY <2>1, <2>4 DEF CreationStands, Exists
  <2>6. \A q \in Creation : (Exists(q) \/ Creates(q))' <=> (Exists(q) \/ Creates(q))
    BY <1>t, <2>1 DEF Exists, Creates, Provisioning!TypeOK
  <2>7. SlugIsOwn'
    BY <1>i, <2>1, <2>6 DEF SlugIsOwn
  <2>8. Asked(r)'
    BY <1>i, <2>1, <2>4 DEF Asked, Provisioning!Ask
  <2>9. \A s : Provisioning!IsSlugTaken(s) => Provisioning!IsSlugTaken(s)'
    BY <2>2, <2>3, TakenStays
  <2>10. SlugChosen(r)'
    BY <1>i, <2>1, <2>9 DEF SlugStands, SlugChosen, FirstFree, Walked, Provisioning!Candidate
  <2>11. SlugStands(r)'
    BY <2>4, <2>10 DEF SlugStands
  <2> QED
    BY <2>2, <2>3, <2>5, <2>7, <2>8, <2>11
<1>13. ASSUME NEW what \in {"created", "lost"}, pc[r] = "answer",
              answer' = [answer EXCEPT ![r] = what], pc' = [pc EXCEPT ![r] = "end"],
              UNCHANGED <<slugOf, committed, written, ask, suffix>>
       PROVE  /\ Provisioning!TypeOK' /\ CreationKeeps(r) /\ SlugIsOwn'
              /\ CreationStands(r)' /\ Asked(r)' /\ SlugStands(r)'
  <2>1. Provisioning!TypeOK'
    BY <1>t, <1>13 DEF Provisioning!TypeOK
  <2>2. CreationKeeps(r)
    BY <1>t, <1>13 DEF CreationKeeps, Exists, Provisioning!TypeOK
  <2>3. pc'[r] = "end" /\ answer'[r] = what /\ Exists(r) /\ Exists(r)'
    BY <1>t, <1>i, <1>13 DEF CreationStands, Exists, Provisioning!TypeOK
  <2>4. CreationStands(r)'
    BY <1>i, <1>13, <2>3 DEF CreationStands, Exists
  <2>5. SlugIsOwn'
    BY <1>i, <1>13 DEF SlugIsOwn, Exists, Creates
  <2>6. SlugChosen(r)'
    BY <1>i, <1>13 DEF SlugStands, SlugChosen, FirstFree, Walked, Provisioning!Candidate,
       Provisioning!IsSlugTaken, Provisioning!Holders
  <2>7. Asked(r)' /\ SlugStands(r)'
    BY <2>3, <2>6 DEF Asked, SlugStands
  <2> QED
    BY <2>1, <2>2, <2>4, <2>5, <2>7
<1>14. CASE Provisioning!Answer(r)
  BY <1>13, <1>14 DEF Provisioning!Answer
<1>15. CASE Provisioning!Lose(r)
  BY <1>13, <1>15 DEF Provisioning!Lose
<1> QED
  BY <1>1, <1>3, <1>4, <1>6, <1>7, <1>9, <1>10, <1>11, <1>12, <1>14, <1>15

\* Every step keeps the invariant.
LEMMA ProvisioningStays == ProvisioningInv /\ Provisioning!Next => ProvisioningInv'
<1> SUFFICES ASSUME ProvisioningInv, Provisioning!Next PROVE ProvisioningInv'
  OBVIOUS
<1>1. PICK r \in Creation :
         \/ Provisioning!Begin(r) \/ Provisioning!Throttled(r) \/ Provisioning!CheckExplicit(r)
         \/ Provisioning!Walk(r) \/ Provisioning!InsertOrganization(r)
         \/ Provisioning!InsertMembership(r) \/ Provisioning!InsertPlan(r)
         \/ Provisioning!Commit(r) \/ Provisioning!Answer(r) \/ Provisioning!Fail(r)
         \/ Provisioning!Lose(r)
  BY DEF Provisioning!Next
<1>2. /\ Provisioning!TypeOK' /\ CreationKeeps(r) /\ SlugIsOwn'
      /\ CreationStands(r)' /\ Asked(r)' /\ SlugStands(r)'
  BY <1>1, CreationStep
<1>3. \A q \in Creation \ {r} : CreationStands(q)' /\ Asked(q)' /\ SlugStands(q)'
  BY <1>2, CreationsKept
<1> QED
  BY <1>2, <1>3 DEF ProvisioningInv

\* A step of another component leaves the provisioning of organizations as it is.
LEMMA ProvisioningStutter ==
  ProvisioningInv /\ UNCHANGED <<slugOf, committed, written, pc, ask, suffix, answer>>
    => ProvisioningInv'
BY DEF ProvisioningInv, Provisioning!TypeOK, CreationStands, Asked, SlugStands, SlugIsOwn,
       SlugChosen, FirstFree, Walked, Exists, Creates, Provisioning!IsSlugTaken,
       Provisioning!Holders

\* The invariant gives what is promised of organizations.
LEMMA ProvisioningPromise ==
  ProvisioningInv => /\ Provisioning!SlugsAreFirstFree /\ Provisioning!OrganizationsAreWhole
                     /\ Provisioning!AnswersHold
<1> SUFFICES ASSUME ProvisioningInv
             PROVE  /\ Provisioning!SlugsAreFirstFree /\ Provisioning!OrganizationsAreWhole
                    /\ Provisioning!AnswersHold
  OBVIOUS
<1>1. Provisioning!SlugsAreFirstFree
  BY DEF ProvisioningInv, SlugStands, SlugChosen, FirstFree, Walked, Exists, Provisioning!Exists,
         Provisioning!SlugsAreFirstFree
<1>2. Provisioning!OrganizationsAreWhole
  BY DEF ProvisioningInv, CreationStands, SlugIsOwn, Exists, Provisioning!Exists,
         Provisioning!OrganizationsAreWhole
<1>3. Provisioning!AnswersHold
  BY DEF ProvisioningInv, CreationStands, SlugStands, Exists, Provisioning!Exists,
         Provisioning!AnswersHold
<1> QED
  BY <1>1, <1>2, <1>3

------------------------------------------------------------------------------
(* The session of a tab                                                    *)

\* A token the server would rotate, if its session is still there.
Current(tk) == live[tk.s] => newest[tk.s] = tk.n

Flying(t, k)  == flight[t][k].step # "none"
Rotating(t, k) == flight[t][k].step = "rotated"

\* A refresh under way presents, or has been answered with, the newest token.
FlightIsCurrent(t, k) ==
    /\ flight[t][k].step \in {"none", "refused"} => flight[t][k].tk = None
    /\ Rotating(t, k) => flight[t][k].tk # None
    /\ flight[t][k].tk # None =>
          Current(flight[t][k].tk) /\ newest[flight[t][k].tk.s] >= flight[t][k].tk.n

\* The cookie is the newest token, or a refresh has the newest one for it.
CookieIsCurrent(t) ==
    cookie # None =>
        /\ newest[cookie.s] >= cookie.n
        /\ \/ Current(cookie)
           \/ \E k \in WebClient!Kind : Rotating(t, k) /\ flight[t][k].tk.s = cookie.s

\* Who may start a silent refresh.
Busy(t) ==
    \/ status[t] = "authenticated"
    \/ \E c \in WebClient!Call : call[t][c].step # "none"
    \/ Flying(t, "silent")

\* Next to the refresh of the boot only a new session is refreshed.
BootIsApart(t) ==
    flight[t]["boot"].tk # None =>
        /\ Busy(t) /\ cookie # None => cookie.s # flight[t]["boot"].tk.s
        /\ flight[t]["silent"].tk # None => flight[t]["silent"].tk.s # flight[t]["boot"].tk.s

TabStands(t) ==
    /\ \A k \in WebClient!Kind : FlightIsCurrent(t, k)
    /\ CookieIsCurrent(t) /\ BootIsApart(t)

WebInv ==
    /\ WebClient!TypeOK
    /\ ~lossy => ~tripped /\ \A t \in Tab : TabStands(t)

\* A tab that has just been opened satisfies the invariant.
LEMMA WebInit == WebClient!Init => WebInv
<1> SUFFICES ASSUME WebClient!Init PROVE WebInv
  OBVIOUS
<1> USE WebAssumption DEF WebClient!Init
<1>1. /\ WebClient!NoFlight \in WebClient!Flight /\ WebClient!NoCall \in WebClient!Calls
      /\ WebClient!NoAuth \in WebClient!Auths
  BY DEF WebClient!NoFlight, WebClient!Flight, WebClient!NoCall, WebClient!Calls,
         WebClient!NoAuth, WebClient!Auths
<1>2. WebClient!TypeOK
  <2>1. newest \in [Session -> 0..MaxRotation]
    OBVIOUS
  <2>2. flight \in [Tab -> [WebClient!Kind -> WebClient!Flight]]
    BY <1>1
  <2>3. call \in [Tab -> [WebClient!Call -> WebClient!Calls]]
    BY <1>1
  <2> QED
    BY <1>1, <2>1, <2>2, <2>3 DEF WebClient!TypeOK
<1>3. ASSUME NEW t \in Tab PROVE TabStands(t)
  <2>1. /\ cookie = None
        /\ \A k \in WebClient!Kind : flight[t][k].step = "none" /\ flight[t][k].tk = None
    <3>1. \A k \in WebClient!Kind : flight[t][k] = WebClient!NoFlight
      OBVIOUS
    <3> QED
      BY <3>1 DEF WebClient!NoFlight
  <2>2. "boot" \in WebClient!Kind
    BY DEF WebClient!Kind
  <2> QED
    BY <2>1, <2>2 DEF TabStands, FlightIsCurrent, CookieIsCurrent, BootIsApart, Rotating
<1> QED
  BY <1>2, <1>3 DEF WebInv

------------------------------------------------------------------------------
\* Every action of the web client keeps the types (auth-context.tsx, api/client.ts).
LEMMA WebTypes == WebClient!TypeOK /\ WebClient!Next => WebClient!TypeOK'
<1> SUFFICES ASSUME WebClient!TypeOK, WebClient!Next PROVE WebClient!TypeOK'
  OBVIOUS
<1> USE WebAssumption
<1> USE DEF WebClient!server, WebClient!provider, WebClient!history
<1>t. WebClient!TypeOK
  OBVIOUS
<1>n. WebClient!NoFlight \in WebClient!Flight /\ WebClient!NoCall \in WebClient!Calls
      /\ WebClient!NoAuth \in WebClient!Auths
  BY DEF WebClient!NoFlight, WebClient!Flight, WebClient!NoCall, WebClient!Calls,
         WebClient!NoAuth, WebClient!Auths
\* One refresh, one request, one login of a tab changes.
<1>f. ASSUME NEW t \in Tab, NEW k \in WebClient!Kind, NEW f \in WebClient!Flight,
             flight' = [flight EXCEPT ![t][k] = f]
      PROVE  flight' \in [Tab -> [WebClient!Kind -> WebClient!Flight]]
  BY <1>t, <1>f DEF WebClient!TypeOK
<1>c. ASSUME NEW t \in Tab, NEW c \in WebClient!Call, NEW i \in WebClient!Calls,
             call' = [call EXCEPT ![t][c] = i]
      PROVE  call' \in [Tab -> [WebClient!Call -> WebClient!Calls]]
  BY <1>t, <1>c DEF WebClient!TypeOK
<1>s. ASSUME NEW tk \in WebClient!Token \cup {None},
        NEW step \in {"none", "sent", "rotated", "refused"}
      PROVE  [step |-> step, tk |-> tk] \in WebClient!Flight
  BY DEF WebClient!Flight
<1>v. ASSUME NEW tk \in WebClient!Token \cup {None}, NEW b \in BOOLEAN
      PROVE  [step |-> "sent", with |-> tk, boot |-> b] \in WebClient!Calls
  BY DEF WebClient!Calls
<1>g. ASSUME NEW t \in Tab, NEW k \in WebClient!Kind
      PROVE  flight[t][k].tk \in WebClient!Token \cup {None}
  BY <1>t DEF WebClient!TypeOK, WebClient!Flight
<1>w. ASSUME NEW t \in Tab, NEW c \in WebClient!Call
      PROVE  /\ call[t][c] \in WebClient!Calls
             /\ call[t][c].with \in WebClient!Token \cup {None}
  BY <1>t DEF WebClient!TypeOK, WebClient!Calls
<1>1. ASSUME NEW tk \in WebClient!Token, WebClient!ExpireAccess(tk) PROVE WebClient!TypeOK'
  BY <1>t, <1>1 DEF WebClient!ExpireAccess, WebClient!TypeOK
<1>2. ASSUME NEW t \in Tab, WebClient!Load(t) PROVE WebClient!TypeOK'
  <2>1. flight' \in [Tab -> [WebClient!Kind -> WebClient!Flight]]
    BY <1>t, <1>2, <1>f, <1>s DEF WebClient!Load, WebClient!Send, WebClient!Kind, WebClient!TypeOK
  <2>2. call' \in [Tab -> [WebClient!Call -> WebClient!Calls]]
    BY <1>t, <1>2, <1>n DEF WebClient!Load, WebClient!TypeOK
  <2> QED
    BY <1>t, <1>2, <2>1, <2>2 DEF WebClient!Load, WebClient!TypeOK
<1>3. ASSUME NEW t \in Tab, NEW k \in WebClient!Kind, WebClient!Handle(t, k)
      PROVE  WebClient!TypeOK'
  <2> DEFINE ck == flight[t][k].tk
  <2>1. CASE ck = None
    <3>1. WebClient!Answer(t, k, "refused", None) /\ UNCHANGED <<newest, live, tripped>>
      BY <1>3, <2>1 DEF WebClient!Handle
    <3>2. flight' \in [Tab -> [WebClient!Kind -> WebClient!Flight]]
      BY <1>f, <1>s, <3>1 DEF WebClient!Answer
    <3> QED
      BY <1>t, <1>3, <3>1, <3>2 DEF WebClient!Handle, WebClient!TypeOK
  <2>2. CASE ck # None /\ live[ck.s] /\ newest[ck.s] = ck.n
    <3>1. ck \in WebClient!Token
      BY <1>g, <2>2
    <3>2. /\ ck.n < MaxRotation /\ newest' = [newest EXCEPT ![ck.s] = @ + 1]
          /\ WebClient!Answer(t, k, "rotated", [ck EXCEPT !.n = @ + 1])
          /\ UNCHANGED <<live, tripped>>
      BY <1>3, <2>2 DEF WebClient!Handle
    <3>3. [ck EXCEPT !.n = @ + 1] \in WebClient!Token
      BY <3>1, <3>2 DEF WebClient!Token
    <3>4. flight' \in [Tab -> [WebClient!Kind -> WebClient!Flight]]
      BY <1>f, <1>s, <3>2, <3>3 DEF WebClient!Answer
    <3>5. newest' \in [Session -> 0..MaxRotation]
      BY <1>t, <2>2, <3>1, <3>2 DEF WebClient!TypeOK, WebClient!Token
    <3> QED
      BY <1>t, <1>3, <3>2, <3>4, <3>5 DEF WebClient!Handle, WebClient!TypeOK
  <2>3. CASE ck # None /\ ~(live[ck.s] /\ newest[ck.s] = ck.n)
    <3>1. ck \in WebClient!Token
      BY <1>g, <2>3
    <3>2. /\ live' = [live EXCEPT ![ck.s] = FALSE] /\ tripped' = (tripped \/ live[ck.s])
          /\ WebClient!Answer(t, k, "refused", None) /\ UNCHANGED newest
      BY <1>3, <2>3 DEF WebClient!Handle
    <3>3. flight' \in [Tab -> [WebClient!Kind -> WebClient!Flight]]
      BY <1>f, <1>s, <3>2 DEF WebClient!Answer
    <3>4. live' \in [Session -> BOOLEAN] /\ tripped' \in BOOLEAN
      BY <1>t, <3>1, <3>2 DEF WebClient!TypeOK, WebClient!Token
    <3> QED
      BY <1>t, <1>3, <3>2, <3>3, <3>4 DEF WebClient!Handle, WebClient!TypeOK
  <2> QED
    BY <2>1, <2>2, <2>3
<1>4. ASSUME NEW t \in Tab, WebClient!RestoreAnswered(t) PROVE WebClient!TypeOK'
  <2>0. "boot" \in WebClient!Kind /\ "me" \in WebClient!Call
    BY DEF WebClient!Kind, WebClient!Call
  <2>1. WebClient!Answer(t, "boot", "none", None)
    BY <1>4 DEF WebClient!RestoreAnswered, WebClient!Resolve
  <2>2. flight' \in [Tab -> [WebClient!Kind -> WebClient!Flight]]
    BY <1>f, <1>s, <2>0, <2>1 DEF WebClient!Answer
  <2>3. cookie' \in WebClient!Token \cup {None} /\ token' \in [Tab -> WebClient!Token \cup {None}]
    BY <1>t, <1>4, <1>g, <2>0 DEF WebClient!RestoreAnswered, WebClient!Resolve, WebClient!TypeOK
  <2>4. CASE WebClient!Rotated(t, "boot")
    <3>1. WebClient!SendCall(t, "me", TRUE, flight[t]["boot"].tk) /\ UNCHANGED status
      BY <1>4, <2>4 DEF WebClient!RestoreAnswered
    <3>2. call' \in [Tab -> [WebClient!Call -> WebClient!Calls]]
      BY <1>c, <1>v, <1>g, <2>0, <3>1 DEF WebClient!SendCall
    <3> QED
      BY <1>t, <1>4, <2>2, <2>3, <3>1, <3>2 DEF WebClient!RestoreAnswered, WebClient!TypeOK
  <2>5. CASE ~WebClient!Rotated(t, "boot")
    BY <1>t, <1>4, <2>2, <2>3, <2>5 DEF WebClient!RestoreAnswered, WebClient!TypeOK
  <2> QED
    BY <2>4, <2>5
<1>5. ASSUME NEW t \in Tab, WebClient!SilentAnswered(t) PROVE WebClient!TypeOK'
  <2>0. "silent" \in WebClient!Kind
    BY DEF WebClient!Kind
  <2>1. WebClient!Answer(t, "silent", "none", None)
    BY <1>5 DEF WebClient!SilentAnswered, WebClient!Resolve
  <2>2. flight' \in [Tab -> [WebClient!Kind -> WebClient!Flight]]
    BY <1>f, <1>s, <2>0, <2>1 DEF WebClient!Answer
  <2>3. cookie' \in WebClient!Token \cup {None} /\ token' \in [Tab -> WebClient!Token \cup {None}]
    BY <1>t, <1>5, <1>g, <2>0 DEF WebClient!SilentAnswered, WebClient!Resolve, WebClient!TypeOK
  <2>4. call' \in [Tab -> [WebClient!Call -> WebClient!Calls]]
    <3>1. ASSUME NEW c \in WebClient!Call
          PROVE  [call[t][c] EXCEPT !.step = "retried", !.with = flight[t]["silent"].tk]
                    \in WebClient!Calls
      BY <1>w, <1>g, <2>0 DEF WebClient!Calls
    <3> QED
      BY <1>t, <1>5, <1>n, <1>w, <3>1 DEF WebClient!SilentAnswered, WebClient!TypeOK
  <2>5. status' \in [Tab -> {"closed", "restoring", "anonymous", "authenticated"}]
        /\ user' \in [Tab -> Session \cup {None}]
    BY <1>t, <1>5 DEF WebClient!SilentAnswered, WebClient!Expired, WebClient!TypeOK
  <2> QED
    BY <1>t, <1>5, <2>2, <2>3, <2>4, <2>5 DEF WebClient!SilentAnswered, WebClient!TypeOK
<1>6. ASSUME NEW t \in Tab, NEW k \in WebClient!Kind, WebClient!LoseAnswer(t, k)
      PROVE  WebClient!TypeOK'
  <2>1. flight' \in [Tab -> [WebClient!Kind -> WebClient!Flight]]
    BY <1>f, <1>s, <1>6 DEF WebClient!LoseAnswer, WebClient!Answer
  <2>2. call' \in [Tab -> [WebClient!Call -> WebClient!Calls]]
    BY <1>t, <1>6, <1>n, <1>w DEF WebClient!LoseAnswer, WebClient!TypeOK
  <2>3. status' \in [Tab -> {"closed", "restoring", "anonymous", "authenticated"}]
        /\ user' \in [Tab -> Session \cup {None}]
    BY <1>t, <1>6 DEF WebClient!LoseAnswer, WebClient!Expired, WebClient!TypeOK
  <2> QED
    BY <1>t, <1>6, <2>1, <2>2, <2>3 DEF WebClient!LoseAnswer, WebClient!TypeOK
<1>7. ASSUME NEW t \in Tab, NEW c \in WebClient!Call,
             \/ WebClient!Request(t, c) \/ WebClient!CallSucceeds(t, c)
             \/ WebClient!CallDenied(t, c) \/ WebClient!RetryDenied(t, c)
      PROVE  WebClient!TypeOK'
  <2>1. CASE WebClient!Request(t, c)
    <3>1. call' \in [Tab -> [WebClient!Call -> WebClient!Calls]]
      BY <1>t, <1>c, <1>v, <2>1 DEF WebClient!Request, WebClient!SendCall, WebClient!TypeOK
    <3> QED
      BY <1>t, <2>1, <3>1 DEF WebClient!Request, WebClient!TypeOK
  <2>2. CASE WebClient!CallSucceeds(t, c)
    <3>1. call' \in [Tab -> [WebClient!Call -> WebClient!Calls]]
      BY <1>c, <1>n, <2>2 DEF WebClient!CallSucceeds
    <3>2. call[t][c].with.s \in Session
      BY <1>w, <2>2 DEF WebClient!CallSucceeds, WebClient!Accepted, WebClient!Token
    <3>3. status' \in [Tab -> {"closed", "restoring", "anonymous", "authenticated"}]
          /\ user' \in [Tab -> Session \cup {None}]
      BY <1>t, <2>2, <3>2 DEF WebClient!CallSucceeds, WebClient!TypeOK
    <3> QED
      BY <1>t, <2>2, <3>1, <3>3 DEF WebClient!CallSucceeds, WebClient!TypeOK
  <2>3. CASE WebClient!CallDenied(t, c)
    <3>1. [call[t][c] EXCEPT !.step = "waiting"] \in WebClient!Calls
      BY <1>w DEF WebClient!Calls
    <3>2. call' = [call EXCEPT ![t][c] = [call[t][c] EXCEPT !.step = "waiting"]]
      BY <1>t, <2>3 DEF WebClient!CallDenied, WebClient!TypeOK
    <3>3. call' \in [Tab -> [WebClient!Call -> WebClient!Calls]]
      BY <1>c, <3>1, <3>2
    <3>4. flight' \in [Tab -> [WebClient!Kind -> WebClient!Flight]]
      BY <1>t, <1>f, <1>s, <2>3
          DEF WebClient!CallDenied, WebClient!Send, WebClient!Kind, WebClient!TypeOK
    <3> QED
      BY <1>t, <2>3, <3>3, <3>4 DEF WebClient!CallDenied, WebClient!TypeOK
  <2>4. CASE WebClient!RetryDenied(t, c)
    <3>1. call' \in [Tab -> [WebClient!Call -> WebClient!Calls]]
      BY <1>c, <1>n, <2>4 DEF WebClient!RetryDenied
    <3> QED
      BY <1>t, <2>4, <3>1 DEF WebClient!RetryDenied, WebClient!Expired, WebClient!TypeOK
  <2> QED
    BY <1>7, <2>1, <2>2, <2>3, <2>4
<1>8. ASSUME NEW t \in Tab,
             \/ WebClient!Login(t) \/ WebClient!Logout(t) \/ WebClient!HandleLogout(t)
             \/ WebClient!LoggedOut(t)
      PROVE  WebClient!TypeOK'
  <2>0. auth[t] \in WebClient!Auths
    BY <1>t DEF WebClient!TypeOK
  <2>1. CASE WebClient!Login(t)
    <3>1. [auth[t] EXCEPT !.step = "login"] \in WebClient!Auths
      BY <2>0 DEF WebClient!Auths
    <3> QED
      BY <1>t, <2>1, <3>1 DEF WebClient!Login, WebClient!TypeOK
  <2>2. CASE WebClient!Logout(t)
    <3>1. [step |-> "logout", with |-> cookie] \in WebClient!Auths
      BY <1>t DEF WebClient!Auths, WebClient!TypeOK
    <3> QED
      BY <1>t, <2>2, <3>1 DEF WebClient!Logout, WebClient!TypeOK
  <2>3. CASE WebClient!HandleLogout(t)
    <3>1. [auth[t] EXCEPT !.step = "leaving"] \in WebClient!Auths
      BY <2>0 DEF WebClient!Auths
    <3>2. live' \in [Session -> BOOLEAN]
      BY <1>t, <2>3 DEF WebClient!HandleLogout, WebClient!TypeOK
    <3> QED
      BY <1>t, <2>3, <3>1, <3>2 DEF WebClient!HandleLogout, WebClient!TypeOK
  <2>4. CASE WebClient!LoggedOut(t)
    BY <1>t, <1>n, <2>4 DEF WebClient!LoggedOut, WebClient!Expired, WebClient!TypeOK
  <2> QED
    BY <1>8, <2>1, <2>2, <2>3, <2>4
<1>9. ASSUME NEW t \in Tab, NEW s \in Session, WebClient!LoggedIn(t, s) PROVE WebClient!TypeOK'
  <2>1. MaxRotation >= 1 => [s |-> s, n |-> 1] \in WebClient!Token
    BY DEF WebClient!Token
  <2> QED
    BY <1>t, <1>n, <1>9, <2>1 DEF WebClient!LoggedIn, WebClient!TypeOK
<1> QED
  BY <1>1, <1>2, <1>3, <1>4, <1>5, <1>6, <1>7, <1>8, <1>9 DEF WebClient!Next

------------------------------------------------------------------------------
\* A step of a tab, while no answer is lost.
LEMMA WebStep ==
  ASSUME WebInv, WebClient!TypeOK', WebClient!Next, ~lossy'
  PROVE  ~tripped' /\ \A t \in Tab : TabStands(t)'
<1> USE DEF WebClient!server, WebClient!provider, WebClient!history
<1>l. ~lossy /\ ~tripped /\ \A t \in Tab : TabStands(t)
  <2>1. ~lossy
    <3> SUFFICES ASSUME lossy PROVE FALSE
      OBVIOUS
    <3>1. \A tk \in WebClient!Token : ~WebClient!ExpireAccess(tk)
      BY DEF WebClient!ExpireAccess
    <3>2. ASSUME NEW t \in Tab
          PROVE  /\ ~WebClient!Load(t) /\ ~WebClient!RestoreAnswered(t)
                 /\ ~WebClient!SilentAnswered(t)
      BY DEF WebClient!Load, WebClient!RestoreAnswered, WebClient!SilentAnswered
    <3>3. ASSUME NEW t \in Tab
          PROVE  /\ ~WebClient!Login(t) /\ ~WebClient!Logout(t) /\ ~WebClient!HandleLogout(t)
                 /\ ~WebClient!LoggedOut(t) /\ \A s \in Session : ~WebClient!LoggedIn(t, s)
      BY DEF WebClient!Login, WebClient!Logout, WebClient!HandleLogout, WebClient!LoggedOut,
         WebClient!LoggedIn
    <3>4. ASSUME NEW t \in Tab, NEW k \in WebClient!Kind
          PROVE  ~WebClient!Handle(t, k) /\ ~WebClient!LoseAnswer(t, k)
      BY DEF WebClient!Handle, WebClient!LoseAnswer
    <3>5. ASSUME NEW t \in Tab, NEW c \in WebClient!Call
          PROVE  /\ ~WebClient!Request(t, c) /\ ~WebClient!CallSucceeds(t, c)
                 /\ ~WebClient!CallDenied(t, c) /\ ~WebClient!RetryDenied(t, c)
      BY DEF WebClient!Request, WebClient!CallSucceeds, WebClient!CallDenied,
         WebClient!RetryDenied
    <3> QED
      BY <3>1, <3>2, <3>3, <3>4, <3>5 DEF WebClient!Next
  <2> QED
    BY <2>1 DEF WebInv
<1>t. WebClient!TypeOK
  BY DEF WebInv
<1>b. "boot" \in WebClient!Kind /\ "silent" \in WebClient!Kind
      /\ \A k \in WebClient!Kind : k = "boot" \/ k = "silent"
  BY DEF WebClient!Kind
<1>g. ASSUME NEW t \in Tab, NEW k \in WebClient!Kind
      PROVE  /\ flight[t][k].tk # None => flight[t][k].tk \in WebClient!Token
             /\ flight[t][k].step \in {"none", "sent", "rotated", "refused"}
  BY <1>t DEF WebClient!TypeOK, WebClient!Flight
\* Refreshes, cookie and server stay; who is busy was so before.
<1>k. ASSUME NEW t \in Tab, UNCHANGED <<flight, cookie, newest, tripped>>,
             \A s \in Session : live'[s] => live[s],
             Busy(t)' => Busy(t)
      PROVE  ~tripped' /\ TabStands(t)'
  <2>1. TabStands(t)
    BY <1>l
  <2>2. \A tk \in WebClient!Token : Current(tk) => Current(tk)'
    BY <1>k DEF Current, WebClient!Token
  <2>3. \A k \in WebClient!Kind : FlightIsCurrent(t, k)'
    BY <1>k, <1>g, <2>1, <2>2 DEF TabStands, FlightIsCurrent, Rotating
  <2>4. CookieIsCurrent(t)'
    BY <1>k, <1>t, <2>1, <2>2 DEF TabStands, CookieIsCurrent, Rotating, WebClient!TypeOK
  <2>5. BootIsApart(t)'
    BY <1>k, <2>1 DEF TabStands, BootIsApart
  <2> QED
    BY <1>k, <1>l, <2>3, <2>4, <2>5 DEF TabStands
<1>1. ASSUME NEW tk \in WebClient!Token, WebClient!ExpireAccess(tk), NEW t \in Tab
      PROVE  ~tripped' /\ TabStands(t)'
  <2>1. Busy(t)' => Busy(t)
    BY <1>1 DEF WebClient!ExpireAccess, Busy, Flying
  <2> QED
    BY <1>1, <1>k, <2>1 DEF WebClient!ExpireAccess
<1>2. ASSUME NEW t \in Tab, WebClient!Load(t) PROVE ~tripped' /\ TabStands(t)'
  <2>1. \A k \in WebClient!Kind : flight[t][k].step = "none" /\ flight[t][k].tk = None
    BY <1>2 DEF WebClient!Load, WebClient!NoFlight
  <2>2. cookie # None => Current(cookie) /\ newest[cookie.s] >= cookie.n
    BY <1>l, <2>1 DEF TabStands, CookieIsCurrent, Rotating
  <2>3. /\ flight'[t]["boot"] = [step |-> "sent", tk |-> cookie]
        /\ flight'[t]["silent"] = flight[t]["silent"]
        /\ UNCHANGED <<newest, live, cookie, tripped>>
    BY <1>2, <1>t, <1>b DEF WebClient!Load, WebClient!Send, WebClient!TypeOK
  <2>4. FlightIsCurrent(t, "boot")' /\ FlightIsCurrent(t, "silent")'
    BY <1>b, <2>1, <2>2, <2>3 DEF FlightIsCurrent, Rotating, Current
  <2>5. CookieIsCurrent(t)'
    BY <2>2, <2>3 DEF CookieIsCurrent, Current
  <2>6. ~Busy(t)'
    <3>1. status'[t] = "restoring" /\ \A c \in WebClient!Call : call'[t][c].step = "none"
      BY <1>2, <1>t DEF WebClient!Load, WebClient!NoCall, WebClient!TypeOK
    <3> QED
      BY <1>b, <2>1, <2>3, <3>1 DEF Busy, Flying
  <2>7. BootIsApart(t)'
    BY <1>b, <2>1, <2>3, <2>6 DEF BootIsApart
  <2> QED
    BY <1>b, <1>l, <2>3, <2>4, <2>5, <2>7 DEF TabStands
<1>3. ASSUME NEW t \in Tab, NEW k \in WebClient!Kind, WebClient!Handle(t, k)
      PROVE  ~tripped' /\ TabStands(t)'
  <2> DEFINE ck == flight[t][k].tk
  <2>u. /\ flight[t][k].step = "sent" /\ UNCHANGED <<cookie, status, call>>
        /\ TabStands(t)
    BY <1>3, <1>l DEF WebClient!Handle
  <2>v. \A f : WebClient!Answer(t, k, f.step, f.tk) /\ f = [step |-> f.step, tk |-> f.tk] =>
          /\ flight'[t][k] = f
          /\ \A j \in WebClient!Kind \ {k} : flight'[t][j] = flight[t][j]
    BY <1>t DEF WebClient!Answer, WebClient!TypeOK
  <2>w. \A j \in WebClient!Kind \ {k} : FlightIsCurrent(t, j)
    BY <2>u DEF TabStands
  <2>y. Busy(t)' => Busy(t) \/ k = "silent"
    BY <2>u, <1>3, <1>t, <1>b DEF Busy, Flying, WebClient!Handle, WebClient!Answer,
        WebClient!TypeOK
  <2>z. k = "silent" => Busy(t)
    BY <2>u DEF Busy, Flying
  <2>1. CASE ck = None \/ (ck # None /\ ~(live[ck.s] /\ newest[ck.s] = ck.n))
    <3>1. /\ flight'[t][k] = [step |-> "refused", tk |-> None]
          /\ \A j \in WebClient!Kind \ {k} : flight'[t][j] = flight[t][j]
      BY <1>3, <1>t, <2>1 DEF WebClient!Handle, WebClient!Answer, WebClient!TypeOK
    <3>2. ck # None => ~live[ck.s]
      BY <2>u, <2>1 DEF TabStands, FlightIsCurrent, Current
    <3>3. UNCHANGED newest /\ \A s \in Session : live'[s] => live[s]
      BY <1>3, <1>t, <2>1 DEF WebClient!Handle, WebClient!TypeOK
    <3>4. ~tripped'
      BY <1>3, <1>l, <2>1, <3>2 DEF WebClient!Handle
    <3>5. \A tk \in WebClient!Token : Current(tk) => Current(tk)'
      BY <3>3 DEF Current, WebClient!Token
    <3>6. \A j \in WebClient!Kind : FlightIsCurrent(t, j)'
      <4>1. FlightIsCurrent(t, k)'
        BY <3>1 DEF FlightIsCurrent, Rotating
      <4>2. ASSUME NEW j \in WebClient!Kind \ {k} PROVE FlightIsCurrent(t, j)'
        BY <1>g, <2>w, <3>1, <3>3, <3>5 DEF FlightIsCurrent, Rotating
      <4> QED
        BY <4>1, <4>2
    <3>7. CookieIsCurrent(t)'
      <4>1. CookieIsCurrent(t) /\ (cookie # None => cookie \in WebClient!Token)
        BY <1>t, <2>u DEF TabStands, WebClient!TypeOK
      <4>2. ASSUME NEW j \in WebClient!Kind, Rotating(t, j) PROVE flight'[t][j] = flight[t][j]
        BY <2>u, <3>1, <4>2 DEF Rotating
      <4> QED
        BY <2>u, <3>3, <3>5, <4>1, <4>2 DEF CookieIsCurrent, Rotating
    <3>8. BootIsApart(t)'
      BY <1>b, <2>u, <2>y, <2>z, <3>1 DEF TabStands, BootIsApart
    <3> QED
      BY <3>4, <3>6, <3>7, <3>8 DEF TabStands
  <2>2. CASE ck # None /\ live[ck.s] /\ newest[ck.s] = ck.n
    <3>0. ck \in WebClient!Token /\ ck.s \in Session /\ ck.n \in Nat
      BY <1>g, <2>2 DEF WebClient!Token
    <3>1. /\ flight'[t][k] = [step |-> "rotated", tk |-> [ck EXCEPT !.n = @ + 1]]
          /\ \A j \in WebClient!Kind \ {k} : flight'[t][j] = flight[t][j]
          /\ newest' = [newest EXCEPT ![ck.s] = @ + 1] /\ UNCHANGED <<live, tripped>>
      <4>1. /\ WebClient!Answer(t, k, "rotated", [ck EXCEPT !.n = @ + 1])
            /\ newest' = [newest EXCEPT ![ck.s] = @ + 1] /\ UNCHANGED <<live, tripped>>
        BY <1>3, <2>2 DEF WebClient!Handle
      <4>2. flight \in [Tab -> [WebClient!Kind -> WebClient!Flight]]
        BY <1>t DEF WebClient!TypeOK
      <4> QED
        BY <4>1, <4>2 DEF WebClient!Answer
    <3> DEFINE new == flight'[t][k].tk
    <3>2. /\ new.s = ck.s /\ new.n = ck.n + 1 /\ flight'[t][k].step = "rotated"
          /\ new \in WebClient!Token /\ new # None
      <4>1. new = [ck EXCEPT !.n = @ + 1] /\ flight'[t][k].step = "rotated"
        BY <3>1
      <4>2. new.s = ck.s /\ new.n = ck.n + 1
        BY <3>0, <4>1 DEF WebClient!Token
      <4>3. flight'[t][k] \in WebClient!Flight
        BY DEF WebClient!TypeOK
      <4>4. ck.n < MaxRotation
        BY <1>3, <2>2 DEF WebClient!Handle
      <4>5. new \in WebClient!Token
        BY <3>0, <4>1, <4>4, WebAssumption DEF WebClient!Token
      <4> QED
        BY <4>1, <4>2, <4>5, WebAssumption
    <3>3. \A q \in Session : newest'[q] = IF q = ck.s THEN ck.n + 1 ELSE newest[q]
      BY <1>t, <2>2, <3>0, <3>1 DEF WebClient!TypeOK
    <3>4. FlightIsCurrent(t, k)'
      BY <3>0, <3>2, <3>3 DEF FlightIsCurrent, Rotating, Current
    <3>5. ASSUME NEW j \in WebClient!Kind \ {k} PROVE FlightIsCurrent(t, j)'
      <4>1. flight[t][j].tk # None =>
              flight[t][j].tk.s \in Session /\ flight[t][j].tk.s # ck.s
        BY <1>b, <1>g, <2>u, <2>2 DEF TabStands, BootIsApart, WebClient!Token
      <4> QED
        BY <2>w, <3>1, <3>3, <4>1 DEF FlightIsCurrent, Rotating, Current
    <3>6. CookieIsCurrent(t)'
      <4>1. CookieIsCurrent(t)
        BY <2>u DEF TabStands
      <4>2. cookie # None => cookie.s \in Session /\ cookie.n \in Nat /\ newest[cookie.s] \in Nat
        BY <1>t, WebAssumption DEF WebClient!TypeOK, WebClient!Token
      <4>3. CASE cookie # None /\ cookie.s = ck.s
        BY <2>u, <2>2, <3>0, <3>2, <3>3, <4>1, <4>2, <4>3 DEF CookieIsCurrent, Rotating
      <4>4. CASE cookie # None /\ cookie.s # ck.s
        <5>1. newest'[cookie.s] = newest[cookie.s] /\ live'[cookie.s] = live[cookie.s]
          BY <3>1, <3>3, <4>2, <4>4
        <5>2. ASSUME NEW j \in WebClient!Kind, Rotating(t, j) PROVE flight'[t][j] = flight[t][j]
          BY <2>u, <3>1, <5>2 DEF Rotating
        <5> QED
          BY <2>u, <4>1, <4>4, <5>1, <5>2 DEF CookieIsCurrent, Rotating, Current
      <4> QED
        BY <2>u, <4>3, <4>4 DEF CookieIsCurrent
    <3>7. BootIsApart(t)'
      <4>1. CASE k = "boot"
        BY <1>b, <2>u, <2>y, <2>2, <3>1, <3>2, <4>1 DEF TabStands, BootIsApart
      <4>2. CASE k = "silent"
        BY <1>b, <2>u, <2>z, <2>2, <3>1, <3>2, <4>2 DEF TabStands, BootIsApart
      <4> QED
        BY <1>b, <4>1, <4>2
    <3> QED
      BY <1>l, <3>1, <3>4, <3>5, <3>6, <3>7 DEF TabStands
  <2> QED
    BY <2>1, <2>2
\* A refresh resolves: its token becomes the cookie.
<1>4. ASSUME NEW t \in Tab, NEW k \in WebClient!Kind, WebClient!Resolve(t, k),
             UNCHANGED <<newest, live, tripped>>, Busy(t)' => Busy(t) \/ k = "boot"
      PROVE  ~tripped' /\ TabStands(t)'
  <2>1. /\ flight'[t][k] = [step |-> "none", tk |-> None]
        /\ \A j \in WebClient!Kind \ {k} : flight'[t][j] = flight[t][j]
        /\ cookie' = flight[t][k].tk
    BY <1>4, <1>t DEF WebClient!Resolve, WebClient!Answer, WebClient!TypeOK
  <2>2. TabStands(t)
    BY <1>l
  <2>3. \A j \in WebClient!Kind : FlightIsCurrent(t, j)'
    <3>1. FlightIsCurrent(t, k)'
      BY <2>1 DEF FlightIsCurrent, Rotating
    <3>2. ASSUME NEW j \in WebClient!Kind \ {k} PROVE FlightIsCurrent(t, j)'
      BY <1>4, <2>1, <2>2 DEF TabStands, FlightIsCurrent, Rotating, Current
    <3> QED
      BY <3>1, <3>2
  <2>4. CookieIsCurrent(t)'
    BY <1>4, <2>1, <2>2 DEF TabStands, FlightIsCurrent, CookieIsCurrent, Current
  <2>5. BootIsApart(t)'
    BY <1>4, <1>b, <2>1, <2>2 DEF TabStands, BootIsApart
  <2> QED
    BY <1>4, <1>l, <2>3, <2>4, <2>5 DEF TabStands
<1>5. ASSUME NEW t \in Tab, WebClient!RestoreAnswered(t) PROVE ~tripped' /\ TabStands(t)'
  BY <1>4, <1>5, <1>b DEF WebClient!RestoreAnswered
<1>6. ASSUME NEW t \in Tab, WebClient!SilentAnswered(t) PROVE ~tripped' /\ TabStands(t)'
  <2>1. Busy(t)
    BY <1>6 DEF WebClient!SilentAnswered, WebClient!Resolve, WebClient!Answered,
       WebClient!Rotated, Busy, Flying
  <2> QED
    BY <1>4, <1>6, <1>b, <2>1 DEF WebClient!SilentAnswered
<1>7. ASSUME NEW t \in Tab, NEW c \in WebClient!Call,
             \/ WebClient!Request(t, c) \/ WebClient!CallSucceeds(t, c)
             \/ WebClient!RetryDenied(t, c)
      PROVE  ~tripped' /\ TabStands(t)'
  <2>1. Busy(t)
    BY <1>7 DEF Busy, WebClient!Request, WebClient!CallSucceeds, WebClient!RetryDenied
  <2>2. UNCHANGED <<flight, cookie, newest, live, tripped>>
    BY <1>7 DEF WebClient!Request, WebClient!CallSucceeds, WebClient!RetryDenied
  <2> QED
    BY <1>k, <2>1, <2>2
<1>8. ASSUME NEW t \in Tab, NEW c \in WebClient!Call, WebClient!CallDenied(t, c)
      PROVE  ~tripped' /\ TabStands(t)'
  <2>1. Busy(t)
    BY <1>8 DEF Busy, WebClient!CallDenied
  <2>2. UNCHANGED <<cookie, newest, live, tripped>>
    BY <1>8 DEF WebClient!CallDenied
  <2>3. CASE flight[t]["silent"] # WebClient!NoFlight
    BY <1>8, <1>k, <2>1, <2>2, <2>3 DEF WebClient!CallDenied
  <2>4. CASE flight[t]["silent"] = WebClient!NoFlight
    <3>1. /\ flight'[t]["silent"] = [step |-> "sent", tk |-> cookie]
          /\ flight'[t]["boot"] = flight[t]["boot"]
          /\ flight[t]["silent"].step = "none" /\ flight[t]["silent"].tk = None
      BY <1>8, <1>t, <1>b, <2>4
         DEF WebClient!CallDenied, WebClient!Send, WebClient!NoFlight, WebClient!TypeOK
    <3>2. TabStands(t)
      BY <1>l
    <3>3. cookie # None => Current(cookie) /\ newest[cookie.s] >= cookie.n
      <4>1. ASSUME cookie # None, NEW k \in WebClient!Kind, Rotating(t, k)
            PROVE  flight[t][k].tk.s # cookie.s
        <5>1. k = "boot"
          BY <1>b, <3>1, <4>1 DEF Rotating
        <5> QED
          BY <2>1, <3>2, <4>1, <5>1 DEF TabStands, FlightIsCurrent, BootIsApart
      <4> QED
        BY <3>2, <4>1 DEF TabStands, CookieIsCurrent
    <3>4. FlightIsCurrent(t, "boot")' /\ FlightIsCurrent(t, "silent")'
      BY <1>b, <2>2, <3>1, <3>2, <3>3 DEF TabStands, FlightIsCurrent, Rotating, Current
    <3>5. CookieIsCurrent(t)'
      BY <2>2, <3>3 DEF CookieIsCurrent, Current
    <3>6. BootIsApart(t)'
      BY <2>1, <2>2, <3>1, <3>2 DEF TabStands, BootIsApart
    <3> QED
      BY <1>b, <1>l, <2>2, <3>4, <3>5, <3>6 DEF TabStands
  <2> QED
    BY <2>3, <2>4
<1>9. ASSUME NEW t \in Tab, WebClient!Login(t) \/ WebClient!Logout(t)
      PROVE  ~tripped' /\ TabStands(t)'
  <2>1. UNCHANGED <<flight, cookie, newest, live, tripped, status, call>>
    BY <1>9 DEF WebClient!Login, WebClient!Logout
  <2>2. Busy(t)' => Busy(t)
    BY <2>1 DEF Busy, Flying
  <2> QED
    BY <1>k, <2>1, <2>2
<1>10. ASSUME NEW t \in Tab, WebClient!HandleLogout(t) PROVE ~tripped' /\ TabStands(t)'
  <2>1. UNCHANGED <<flight, cookie, newest, tripped, status, call>>
    BY <1>10 DEF WebClient!HandleLogout
  <2>2. Busy(t)' => Busy(t)
    BY <2>1 DEF Busy, Flying
  <2>3. \A s \in Session : live'[s] => live[s]
    BY <1>10 DEF WebClient!HandleLogout
  <2> QED
    BY <1>k, <2>1, <2>2, <2>3
<1>11. ASSUME NEW t \in Tab, WebClient!LoggedOut(t) PROVE ~tripped' /\ TabStands(t)'
  <2>1. UNCHANGED <<flight, newest, live, tripped>> /\ cookie' = None
    BY <1>11 DEF WebClient!LoggedOut
  <2> QED
    BY <1>l, <2>1 DEF TabStands, FlightIsCurrent, Rotating, Current, CookieIsCurrent, BootIsApart
<1>12. ASSUME NEW t \in Tab, NEW s \in Session, WebClient!LoggedIn(t, s)
       PROVE  ~tripped' /\ TabStands(t)'
  <2>1. /\ newest[s] = 0 /\ newest' = [newest EXCEPT ![s] = 1]
        /\ live' = [live EXCEPT ![s] = TRUE] /\ cookie' = [s |-> s, n |-> 1]
        /\ UNCHANGED <<flight, tripped>> /\ TabStands(t)
    BY <1>12, <1>l DEF WebClient!LoggedIn
  <2>2. ASSUME NEW k \in WebClient!Kind, flight[t][k].tk # None
        PROVE  flight[t][k].tk.s \in Session /\ flight[t][k].tk.s # s
    <3>1. flight[t][k].tk \in WebClient!Token /\ newest[flight[t][k].tk.s] >= flight[t][k].tk.n
      BY <1>g, <2>1, <2>2 DEF TabStands, FlightIsCurrent
    <3> QED
      BY <2>1, <3>1, WebAssumption DEF WebClient!Token
  <2>3. \A k \in WebClient!Kind : FlightIsCurrent(t, k)'
    BY <1>t, <2>1, <2>2 DEF TabStands, FlightIsCurrent, Rotating, Current, WebClient!TypeOK
  <2>4. cookie'.s = s /\ cookie'.n = 1 /\ newest'[s] = 1
    BY <1>t, <2>1 DEF WebClient!TypeOK
  <2>5. CookieIsCurrent(t)'
    BY <2>4 DEF CookieIsCurrent, Current
  <2>6. BootIsApart(t)'
    BY <1>b, <2>1, <2>2, <2>4 DEF TabStands, BootIsApart
  <2> QED
    BY <1>l, <2>1, <2>3, <2>5, <2>6 DEF TabStands
<1>13. ASSUME NEW t \in Tab, NEW k \in WebClient!Kind, WebClient!LoseAnswer(t, k) PROVE FALSE
  BY <1>13 DEF WebClient!LoseAnswer
<1> QED
  <2>1. ASSUME NEW t \in Tab, ~tripped' /\ TabStands(t)'
        PROVE  ~tripped' /\ \A u \in Tab : TabStands(u)'
    BY <2>1, WebAssumption
  <2>2. CASE \E tk \in WebClient!Token : WebClient!ExpireAccess(tk)
    <3>1. ~tripped'
      BY <1>l, <2>2 DEF WebClient!ExpireAccess
    <3> QED
      BY <1>1, <2>2, <3>1
  <2>3. CASE \E t \in Tab : WebClient!Load(t) \/ WebClient!RestoreAnswered(t)
                \/ WebClient!SilentAnswered(t) \/ WebClient!Login(t) \/ WebClient!Logout(t)
                \/ WebClient!HandleLogout(t) \/ WebClient!LoggedOut(t)
    BY <1>2, <1>5, <1>6, <1>9, <1>10, <1>11, <2>1, <2>3
  <2>4. CASE \E t \in Tab, s \in Session : WebClient!LoggedIn(t, s)
    BY <1>12, <2>1, <2>4
  <2>5. CASE \E t \in Tab, k \in WebClient!Kind :
                WebClient!Handle(t, k) \/ WebClient!LoseAnswer(t, k)
    BY <1>3, <1>13, <2>1, <2>5
  <2>6. CASE \E t \in Tab, c \in WebClient!Call :
                WebClient!Request(t, c) \/ WebClient!CallSucceeds(t, c)
                  \/ WebClient!CallDenied(t, c) \/ WebClient!RetryDenied(t, c)
    BY <1>7, <1>8, <2>1, <2>6
  <2> QED
    BY <2>2, <2>3, <2>4, <2>5, <2>6 DEF WebClient!Next

\* Every step keeps the invariant.
LEMMA WebStays == WebInv /\ WebClient!Next => WebInv'
BY WebTypes, WebStep DEF WebInv

\* A step of another component leaves the tabs as they are.
LEMMA WebStutter == WebInv /\ UNCHANGED WebClient!vars => WebInv'
BY DEF WebInv, WebClient!vars, WebClient!server, WebClient!provider, WebClient!history,
   WebClient!TypeOK, TabStands, FlightIsCurrent, CookieIsCurrent, BootIsApart, Rotating,
   Current, Busy, Flying

\* The invariant gives what is promised of a tab.
LEMMA WebPromise == WebInv => WebClient!NeverBounced
BY DEF WebInv, WebClient!NeverBounced

------------------------------------------------------------------------------
(* Emailed links                                                           *)

Restoring == me.step \in {"refresh", "boot", "boot answered"}

\* Nothing of the session is known before the restore has ended, and a completion
\* waits for that.
RestoreIsFirst ==
    Restoring => /\ status = "restoring" /\ list = "none" /\ user = None
                 /\ ~adopted /\ ~refreshed
                 /\ kind = "complete" => post.step = "none"

\* What is adopted stays until the session of the tab expires.
AdoptedStays == adopted /\ ~expired => status = "authenticated" /\ user = "new"

\* A page that does not ask has submitted its token once.
SubmitsOnce ==
    /\ kind \in {"complete", "verify"} =>
         \A t \in LinkToken : posts[t] <= 1 /\ (~submitted => posts[t] = 0)
    /\ submitted => kind # "reset"
    /\ kind # "reset" => page # "submitting"
    /\ kind # "invitation" => page # "inspecting"

\* The password form submits the token it holds, and lets go of one that was judged.
FormHolds ==
    kind = "reset" => /\ held # None => held \notin judged
                      /\ post.step # "none" => post.token = held /\ held # None

\* An answer is a verdict or a failure; only an expired session cancels a request.
AnswersCome ==
    /\ post.step # "none" => post.token # None
    /\ post.step = "answered" => post.what # "none"
    /\ post.cancelled => expired
    /\ submitted /\ post.step = "none" /\ ~expired => page # EmailedLinks!Waiting[kind]

\* Who is asked for again after a verification is seen as verified.
RefreshSees ==
    kind = "verify" =>
        /\ post.step = "answered" /\ post.what = "success" => verified
        /\ page = "success" => verified
        /\ user \in {"old", None}
        /\ refreshed => verified
        /\ refreshed /\ ~dropped /\ user = "old" =>
             \/ me.step = "again"
             \/ me.step = "again answered" /\ me.seen
             \/ me.step = "none" /\ shown

LinksInv ==
    /\ EmailedLinks!TypeOK
    /\ RestoreIsFirst /\ AdoptedStays /\ SubmitsOnce /\ FormHolds /\ AnswersCome /\ RefreshSees

\* A page opened from an emailed link satisfies the invariant.
LEMMA LinksInit == EmailedLinks!Init => LinksInv
<1> SUFFICES ASSUME EmailedLinks!Init PROVE LinksInv
  OBVIOUS
<1> USE LinksAssumption DEF EmailedLinks!Init, EmailedLinks!NoPost
<1>1. EmailedLinks!NoPost \in EmailedLinks!Post /\ me \in EmailedLinks!Me
  BY DEF EmailedLinks!Post, EmailedLinks!Me, EmailedLinks!Verdict
<1>2. page \in {EmailedLinks!Waiting[k] : k \in Page} \cup {"missing_token"}
  OBVIOUS
<1>3. EmailedLinks!TypeOK
  BY <1>1, <1>2 DEF EmailedLinks!TypeOK
<1>4. page # "submitting" /\ (kind # "invitation" => page # "inspecting")
  BY DEF EmailedLinks!Waiting
<1>5. RestoreIsFirst /\ AdoptedStays /\ SubmitsOnce /\ FormHolds /\ AnswersCome
  BY <1>4 DEF RestoreIsFirst, AdoptedStays, SubmitsOnce, FormHolds, AnswersCome
<1>6. RefreshSees
  BY DEF RefreshSees, EmailedLinks!Waiting
<1> QED
  BY <1>3, <1>5, <1>6 DEF LinksInv

------------------------------------------------------------------------------
\* Every step keeps the invariant.
LEMMA LinksStays == LinksInv /\ EmailedLinks!Next => LinksInv'
<1> SUFFICES ASSUME LinksInv, EmailedLinks!Next PROVE LinksInv'
  OBVIOUS
<1> USE LinksAssumption
<1> USE DEF EmailedLinks!place, EmailedLinks!auth, EmailedLinks!server, EmailedLinks!history
<1>t. EmailedLinks!TypeOK
  BY DEF LinksInv
<1>i. RestoreIsFirst /\ AdoptedStays /\ SubmitsOnce /\ FormHolds /\ AnswersCome /\ RefreshSees
  BY DEF LinksInv
<1>p. /\ post.step \in {"none", "sent", "answered"} /\ post.token \in LinkToken \cup {None}
      /\ post.what \in EmailedLinks!Verdict \cup {"none", "failed"}
      /\ post = [step |-> post.step, token |-> post.token, what |-> post.what,
                 cancelled |-> post.cancelled]
  BY <1>t DEF EmailedLinks!TypeOK, EmailedLinks!Post
<1>m. me = [step |-> me.step, seen |-> me.seen]
  BY <1>t DEF EmailedLinks!TypeOK, EmailedLinks!Me
<1>1. CASE EmailedLinks!Scrub
  <2>1. EmailedLinks!TypeOK'
    BY <1>t, <1>1 DEF EmailedLinks!Scrub, EmailedLinks!TypeOK
  <2>2. RestoreIsFirst'
    BY <1>i, <1>1 DEF EmailedLinks!Scrub, RestoreIsFirst, Restoring
  <2>3. AdoptedStays'
    BY <1>i, <1>1 DEF EmailedLinks!Scrub, AdoptedStays
  <2>4. SubmitsOnce'
    BY <1>i, <1>1 DEF EmailedLinks!Scrub, SubmitsOnce
  <2>5. FormHolds'
    BY <1>i, <1>1 DEF EmailedLinks!Scrub, FormHolds
  <2>6. AnswersCome'
    BY <1>i, <1>1 DEF EmailedLinks!Scrub, AnswersCome
  <2>7. RefreshSees'
    BY <1>i, <1>1 DEF EmailedLinks!Scrub, RefreshSees
  <2> QED
    BY <2>1, <2>2, <2>3, <2>4, <2>5, <2>6, <2>7 DEF LinksInv
<1>2. ASSUME NEW t \in LinkToken, EmailedLinks!PasteLink(t) PROVE LinksInv'
  <2>1. EmailedLinks!TypeOK'
    BY <1>t, <1>2 DEF EmailedLinks!PasteLink, EmailedLinks!TypeOK
  <2>2. RestoreIsFirst'
    BY <1>i, <1>2 DEF EmailedLinks!PasteLink, RestoreIsFirst, Restoring
  <2>3. AdoptedStays'
    BY <1>i, <1>2 DEF EmailedLinks!PasteLink, AdoptedStays
  <2>4. SubmitsOnce'
    BY <1>i, <1>2 DEF EmailedLinks!PasteLink, SubmitsOnce
  <2>5. FormHolds'
    BY <1>i, <1>2 DEF EmailedLinks!PasteLink, FormHolds
  <2>6. AnswersCome'
    BY <1>i, <1>2 DEF EmailedLinks!PasteLink, AnswersCome
  <2>7. RefreshSees'
    BY <1>i, <1>2 DEF EmailedLinks!PasteLink, RefreshSees
  <2> QED
    BY <2>1, <2>2, <2>3, <2>4, <2>5, <2>6, <2>7 DEF LinksInv
<1>3. CASE EmailedLinks!RestoreRefreshed
  <2>1. EmailedLinks!TypeOK'
    <3>1. me' \in EmailedLinks!Me
      BY <1>t, <1>m, <1>3 DEF EmailedLinks!RestoreRefreshed, EmailedLinks!TypeOK, EmailedLinks!Me
    <3> QED
      BY <1>t, <1>3, <3>1 DEF EmailedLinks!RestoreRefreshed, EmailedLinks!TypeOK
  <2>2. RestoreIsFirst'
    BY <1>i, <1>m, <1>3 DEF EmailedLinks!RestoreRefreshed, RestoreIsFirst, Restoring
  <2>3. AdoptedStays'
    BY <1>i, <1>m, <1>3 DEF EmailedLinks!RestoreRefreshed, AdoptedStays, RestoreIsFirst, Restoring
  <2>4. SubmitsOnce'
    BY <1>i, <1>m, <1>3 DEF EmailedLinks!RestoreRefreshed, SubmitsOnce
  <2>5. FormHolds'
    BY <1>i, <1>m, <1>3 DEF EmailedLinks!RestoreRefreshed, FormHolds
  <2>6. AnswersCome'
    BY <1>i, <1>m, <1>3 DEF EmailedLinks!RestoreRefreshed, AnswersCome
  <2>7. RefreshSees'
    BY <1>i, <1>m, <1>3 DEF EmailedLinks!RestoreRefreshed, RefreshSees
  <2> QED
    BY <2>1, <2>2, <2>3, <2>4, <2>5, <2>6, <2>7 DEF LinksInv
<1>4. CASE EmailedLinks!MeHandled
  <2>1. EmailedLinks!TypeOK'
    <3>1. me' \in EmailedLinks!Me
      BY <1>t, <1>m, <1>4 DEF EmailedLinks!MeHandled, EmailedLinks!TypeOK, EmailedLinks!Me
    <3>2. UNCHANGED <<kind, link, held, page, submitted, refreshed, status, user, list,
            alive, verified, consumed, posts, judged, adopted, expired, dropped, shown,
                post>>
      BY <1>4 DEF EmailedLinks!MeHandled
    <3> QED
      BY <1>t, <3>1, <3>2 DEF EmailedLinks!TypeOK
  <2>2. RestoreIsFirst'
    BY <1>i, <1>m, <1>4 DEF EmailedLinks!MeHandled, RestoreIsFirst, Restoring
  <2>3. AdoptedStays'
    BY <1>i, <1>m, <1>4 DEF EmailedLinks!MeHandled, AdoptedStays
  <2>4. SubmitsOnce'
    BY <1>i, <1>m, <1>4 DEF EmailedLinks!MeHandled, SubmitsOnce
  <2>5. FormHolds'
    BY <1>i, <1>m, <1>4 DEF EmailedLinks!MeHandled, FormHolds
  <2>6. AnswersCome'
    BY <1>i, <1>m, <1>4 DEF EmailedLinks!MeHandled, AnswersCome
  <2>7. RefreshSees'
    BY <1>i, <1>m, <1>4 DEF EmailedLinks!MeHandled, RefreshSees
  <2> QED
    BY <2>1, <2>2, <2>3, <2>4, <2>5, <2>6, <2>7 DEF LinksInv
<1>5. ASSUME NEW ok \in BOOLEAN, EmailedLinks!Restored(ok) PROVE LinksInv'
  <2>1. EmailedLinks!TypeOK'
    <3>1. me' \in EmailedLinks!Me
      BY <1>t, <1>m, <1>5 DEF EmailedLinks!Restored, EmailedLinks!TypeOK, EmailedLinks!Me
    <3>2. UNCHANGED <<kind, link, held, page, submitted, refreshed, list, alive,
            verified, consumed, posts, judged, adopted, expired, dropped, post>>
      BY <1>5 DEF EmailedLinks!Restored
    <3>3. /\ user' \in {"old", "new", None}
            /\ status' \in {"restoring", "anonymous", "authenticated"}
      BY <1>t, <1>5 DEF EmailedLinks!Restored, EmailedLinks!TypeOK
    <3>4. me.seen \in BOOLEAN
      BY <1>t DEF EmailedLinks!TypeOK, EmailedLinks!Me
    <3>5. shown' \in BOOLEAN
      <4>1. CASE ok
        BY <1>5, <3>4, <4>1 DEF EmailedLinks!Restored
      <4>2. CASE ~ok
        BY <1>t, <1>5, <4>2 DEF EmailedLinks!Restored, EmailedLinks!TypeOK
      <4> QED
        BY <4>1, <4>2
    <3> QED
      BY <1>t, <3>1, <3>2, <3>3, <3>4, <3>5 DEF EmailedLinks!TypeOK
  <2>2. RestoreIsFirst'
    BY <1>i, <1>5 DEF EmailedLinks!Restored, RestoreIsFirst, Restoring
  <2>3. AdoptedStays'
    BY <1>i, <1>5 DEF EmailedLinks!Restored, AdoptedStays, RestoreIsFirst, Restoring
  <2>4. SubmitsOnce'
    BY <1>i, <1>5 DEF EmailedLinks!Restored, SubmitsOnce
  <2>5. FormHolds'
    BY <1>i, <1>5 DEF EmailedLinks!Restored, FormHolds
  <2>6. AnswersCome'
    BY <1>i, <1>5 DEF EmailedLinks!Restored, AnswersCome
  <2>7. RefreshSees'
    BY <1>i, <1>5 DEF EmailedLinks!Restored, RefreshSees, RestoreIsFirst, Restoring
  <2> QED
    BY <2>1, <2>2, <2>3, <2>4, <2>5, <2>6, <2>7 DEF LinksInv
<1>6. ASSUME NEW ok \in BOOLEAN, EmailedLinks!UserRefreshed(ok) PROVE LinksInv'
  <2>1. EmailedLinks!TypeOK'
    <3>1. me' \in EmailedLinks!Me
      BY <1>t, <1>m, <1>6 DEF EmailedLinks!UserRefreshed, EmailedLinks!TypeOK, EmailedLinks!Me
    <3>2. UNCHANGED <<kind, link, held, page, submitted, refreshed, status, user, list,
            alive, verified, consumed, posts, judged, adopted, expired, post>>
      BY <1>6 DEF EmailedLinks!UserRefreshed
    <3>3. me.seen \in BOOLEAN
      BY <1>t DEF EmailedLinks!TypeOK, EmailedLinks!Me
    <3>4. shown' \in BOOLEAN
      <4>1. CASE ok /\ user = "old"
        BY <1>6, <3>3, <4>1 DEF EmailedLinks!UserRefreshed
      <4>2. CASE ~(ok /\ user = "old")
        BY <1>t, <1>6, <4>2 DEF EmailedLinks!UserRefreshed, EmailedLinks!TypeOK
      <4> QED
        BY <4>1, <4>2
    <3>5. dropped' \in BOOLEAN
      BY <1>6 DEF EmailedLinks!UserRefreshed
    <3> QED
      BY <1>t, <3>1, <3>2, <3>3, <3>4, <3>5 DEF EmailedLinks!TypeOK
  <2>2. RestoreIsFirst'
    BY <1>i, <1>6 DEF EmailedLinks!UserRefreshed, RestoreIsFirst, Restoring
  <2>3. AdoptedStays'
    BY <1>i, <1>6 DEF EmailedLinks!UserRefreshed, AdoptedStays
  <2>4. SubmitsOnce'
    BY <1>i, <1>6 DEF EmailedLinks!UserRefreshed, SubmitsOnce
  <2>5. FormHolds'
    BY <1>i, <1>6 DEF EmailedLinks!UserRefreshed, FormHolds
  <2>6. AnswersCome'
    BY <1>i, <1>6 DEF EmailedLinks!UserRefreshed, AnswersCome
  <2>7. RefreshSees'
    BY <1>i, <1>6 DEF EmailedLinks!UserRefreshed, RefreshSees
  <2> QED
    BY <2>1, <2>2, <2>3, <2>4, <2>5, <2>6, <2>7 DEF LinksInv
<1>7. CASE EmailedLinks!Revoke
  <2>1. EmailedLinks!TypeOK'
    <3>1. UNCHANGED <<kind, link, held, page, submitted, refreshed, status, user, list,
            verified, consumed, posts, judged, adopted, expired, dropped, shown, post,
                me>>
      BY <1>7 DEF EmailedLinks!Revoke
    <3>2. alive' \in BOOLEAN
      BY <1>7 DEF EmailedLinks!Revoke
    <3> QED
      BY <1>t, <3>1, <3>2 DEF EmailedLinks!TypeOK
  <2>2. RestoreIsFirst'
    BY <1>i, <1>7 DEF EmailedLinks!Revoke, RestoreIsFirst, Restoring
  <2>3. AdoptedStays'
    BY <1>i, <1>7 DEF EmailedLinks!Revoke, AdoptedStays
  <2>4. SubmitsOnce'
    BY <1>i, <1>7 DEF EmailedLinks!Revoke, SubmitsOnce
  <2>5. FormHolds'
    BY <1>i, <1>7 DEF EmailedLinks!Revoke, FormHolds
  <2>6. AnswersCome'
    BY <1>i, <1>7 DEF EmailedLinks!Revoke, AnswersCome
  <2>7. RefreshSees'
    BY <1>i, <1>7 DEF EmailedLinks!Revoke, RefreshSees
  <2> QED
    BY <2>1, <2>2, <2>3, <2>4, <2>5, <2>6, <2>7 DEF LinksInv
<1>8. CASE EmailedLinks!ListRequested
  <2>1. EmailedLinks!TypeOK'
    BY <1>t, <1>8 DEF EmailedLinks!ListRequested, EmailedLinks!TypeOK
  <2>2. RestoreIsFirst'
    BY <1>i, <1>8 DEF EmailedLinks!ListRequested, RestoreIsFirst, Restoring
  <2>3. AdoptedStays'
    BY <1>i, <1>8 DEF EmailedLinks!ListRequested, AdoptedStays
  <2>4. SubmitsOnce'
    BY <1>i, <1>8 DEF EmailedLinks!ListRequested, SubmitsOnce
  <2>5. FormHolds'
    BY <1>i, <1>8 DEF EmailedLinks!ListRequested, FormHolds
  <2>6. AnswersCome'
    BY <1>i, <1>8 DEF EmailedLinks!ListRequested, AnswersCome
  <2>7. RefreshSees'
    BY <1>i, <1>8 DEF EmailedLinks!ListRequested, RefreshSees
  <2> QED
    BY <2>1, <2>2, <2>3, <2>4, <2>5, <2>6, <2>7 DEF LinksInv
<1>9. CASE EmailedLinks!ListHandled
  <2>1. EmailedLinks!TypeOK'
    BY <1>t, <1>9 DEF EmailedLinks!ListHandled, EmailedLinks!TypeOK
  <2>2. RestoreIsFirst'
    BY <1>i, <1>9 DEF EmailedLinks!ListHandled, RestoreIsFirst, Restoring
  <2>3. AdoptedStays'
    BY <1>i, <1>9 DEF EmailedLinks!ListHandled, AdoptedStays
  <2>4. SubmitsOnce'
    BY <1>i, <1>9 DEF EmailedLinks!ListHandled, SubmitsOnce
  <2>5. FormHolds'
    BY <1>i, <1>9 DEF EmailedLinks!ListHandled, FormHolds
  <2>6. AnswersCome'
    BY <1>i, <1>9 DEF EmailedLinks!ListHandled, AnswersCome
  <2>7. RefreshSees'
    BY <1>i, <1>9 DEF EmailedLinks!ListHandled, RefreshSees
  <2> QED
    BY <2>1, <2>2, <2>3, <2>4, <2>5, <2>6, <2>7 DEF LinksInv
<1>10. CASE EmailedLinks!SessionExpired
  <2>1. EmailedLinks!TypeOK'
    <3>1. post' \in EmailedLinks!Post
      BY <1>t, <1>p, <1>10 DEF EmailedLinks!SessionExpired, EmailedLinks!Rerun,
          EmailedLinks!TypeOK, EmailedLinks!Post
    <3>2. /\ list' = "none" /\ status' = "anonymous" /\ user' = None /\ shown' = FALSE
          /\ expired' = TRUE
      BY <1>10 DEF EmailedLinks!SessionExpired
    <3>3. /\ kind' = kind /\ link' = link /\ held' = held /\ page' = page
          /\ submitted' = submitted /\ refreshed' = refreshed /\ me' = me /\ alive' = alive
          /\ verified' = verified /\ consumed' = consumed /\ posts' = posts /\ judged' = judged
          /\ adopted' = adopted /\ dropped' = dropped
      BY <1>10 DEF EmailedLinks!SessionExpired
    <3>4. page' \in EmailedLinks!Verdict \cup {EmailedLinks!Waiting[k] : k \in Page}
             \cup {"missing_token", "submitting", "ready", "accepting", "failed"}
      BY <1>t, <3>3 DEF EmailedLinks!TypeOK
    <3> QED
      BY <1>t, <3>1, <3>2, <3>3, <3>4 DEF EmailedLinks!TypeOK
  <2>2. RestoreIsFirst'
    BY <1>i, <1>p, <1>10 DEF EmailedLinks!SessionExpired, EmailedLinks!Rerun,
        RestoreIsFirst, Restoring
  <2>3. AdoptedStays'
    BY <1>i, <1>p, <1>10 DEF EmailedLinks!SessionExpired, EmailedLinks!Rerun, AdoptedStays
  <2>4. SubmitsOnce'
    BY <1>i, <1>p, <1>10 DEF EmailedLinks!SessionExpired, EmailedLinks!Rerun, SubmitsOnce
  <2>5. FormHolds'
    BY <1>i, <1>p, <1>10 DEF EmailedLinks!SessionExpired, EmailedLinks!Rerun, FormHolds
  <2>6. AnswersCome'
    BY <1>i, <1>p, <1>10 DEF EmailedLinks!SessionExpired, EmailedLinks!Rerun, AnswersCome
  <2>7. RefreshSees'
    BY <1>i, <1>p, <1>10 DEF EmailedLinks!SessionExpired, EmailedLinks!Rerun, RefreshSees
  <2> QED
    BY <2>1, <2>2, <2>3, <2>4, <2>5, <2>6, <2>7 DEF LinksInv
<1>11. CASE EmailedLinks!SubmitOnce
  <2>1. EmailedLinks!TypeOK'
    <3>1. post' \in EmailedLinks!Post
      BY <1>t, <1>p, <1>11 DEF EmailedLinks!SubmitOnce, EmailedLinks!Submit,
          EmailedLinks!TypeOK, EmailedLinks!Post
    <3> QED
      BY <1>t, <1>11, <3>1 DEF EmailedLinks!SubmitOnce, EmailedLinks!Submit, EmailedLinks!TypeOK
  <2>2. RestoreIsFirst'
    BY <1>i, <1>p, <1>11 DEF EmailedLinks!SubmitOnce, EmailedLinks!Submit,
        RestoreIsFirst, Restoring
  <2>3. AdoptedStays'
    BY <1>i, <1>p, <1>11 DEF EmailedLinks!SubmitOnce, EmailedLinks!Submit, AdoptedStays
  <2>4. SubmitsOnce'
    <3>1. /\ posts' = [posts EXCEPT ![held] = @ + 1] /\ submitted' = TRUE /\ ~submitted
          /\ held \in LinkToken /\ kind # "reset" /\ UNCHANGED <<kind, page>>
      BY <1>t, <1>11 DEF EmailedLinks!SubmitOnce, EmailedLinks!Submit, EmailedLinks!TypeOK
    <3>2. ASSUME kind \in {"complete", "verify"}, NEW t \in LinkToken PROVE posts'[t] <= 1
      <4>1. posts[t] = 0
        BY <1>i, <3>1, <3>2 DEF SubmitsOnce
      <4> QED
        BY <1>t, <3>1, <4>1 DEF EmailedLinks!TypeOK
    <3> QED
      BY <1>i, <3>1, <3>2 DEF SubmitsOnce
  <2>5. FormHolds'
    BY <1>i, <1>p, <1>11 DEF EmailedLinks!SubmitOnce, EmailedLinks!Submit, FormHolds
  <2>6. AnswersCome'
    BY <1>i, <1>p, <1>11 DEF EmailedLinks!SubmitOnce, EmailedLinks!Submit, AnswersCome
  <2>7. RefreshSees'
    BY <1>i, <1>p, <1>11 DEF EmailedLinks!SubmitOnce, EmailedLinks!Submit, RefreshSees
  <2> QED
    BY <2>1, <2>2, <2>3, <2>4, <2>5, <2>6, <2>7 DEF LinksInv
<1>12. CASE EmailedLinks!SubmitForm
  <2>1. EmailedLinks!TypeOK'
    <3>1. post' \in EmailedLinks!Post
      BY <1>t, <1>p, <1>12 DEF EmailedLinks!SubmitForm, EmailedLinks!Submit,
          EmailedLinks!TypeOK, EmailedLinks!Post
    <3> QED
      BY <1>t, <1>12, <3>1 DEF EmailedLinks!SubmitForm, EmailedLinks!Submit, EmailedLinks!TypeOK
  <2>2. RestoreIsFirst'
    BY <1>i, <1>p, <1>12 DEF EmailedLinks!SubmitForm, EmailedLinks!Submit,
        RestoreIsFirst, Restoring
  <2>3. AdoptedStays'
    BY <1>i, <1>p, <1>12 DEF EmailedLinks!SubmitForm, EmailedLinks!Submit, AdoptedStays
  <2>4. SubmitsOnce'
    BY <1>i, <1>p, <1>12 DEF EmailedLinks!SubmitForm, EmailedLinks!Submit, SubmitsOnce
  <2>5. FormHolds'
    BY <1>i, <1>p, <1>12 DEF EmailedLinks!SubmitForm, EmailedLinks!Submit, FormHolds
  <2>6. AnswersCome'
    BY <1>i, <1>p, <1>12 DEF EmailedLinks!SubmitForm, EmailedLinks!Submit, AnswersCome
  <2>7. RefreshSees'
    BY <1>i, <1>p, <1>12 DEF EmailedLinks!SubmitForm, EmailedLinks!Submit, RefreshSees
  <2> QED
    BY <2>1, <2>2, <2>3, <2>4, <2>5, <2>6, <2>7 DEF LinksInv
<1>13. CASE EmailedLinks!Accept
  <2>1. EmailedLinks!TypeOK'
    <3>1. post' \in EmailedLinks!Post
      BY <1>t, <1>p, <1>13 DEF EmailedLinks!Accept, EmailedLinks!Submit,
          EmailedLinks!TypeOK, EmailedLinks!Post
    <3> QED
      BY <1>t, <1>13, <3>1 DEF EmailedLinks!Accept, EmailedLinks!Submit, EmailedLinks!TypeOK
  <2>2. RestoreIsFirst'
    BY <1>i, <1>p, <1>13 DEF EmailedLinks!Accept, EmailedLinks!Submit, RestoreIsFirst, Restoring
  <2>3. AdoptedStays'
    BY <1>i, <1>p, <1>13 DEF EmailedLinks!Accept, EmailedLinks!Submit, AdoptedStays
  <2>4. SubmitsOnce'
    BY <1>i, <1>p, <1>13 DEF EmailedLinks!Accept, EmailedLinks!Submit, SubmitsOnce
  <2>5. FormHolds'
    BY <1>i, <1>p, <1>13 DEF EmailedLinks!Accept, EmailedLinks!Submit, FormHolds
  <2>6. AnswersCome'
    BY <1>i, <1>p, <1>13 DEF EmailedLinks!Accept, EmailedLinks!Submit, AnswersCome
  <2>7. RefreshSees'
    BY <1>i, <1>p, <1>13 DEF EmailedLinks!Accept, EmailedLinks!Submit, RefreshSees
  <2> QED
    BY <2>1, <2>2, <2>3, <2>4, <2>5, <2>6, <2>7 DEF LinksInv
<1>14. CASE EmailedLinks!Register
  <2>1. EmailedLinks!TypeOK'
    BY <1>t, <1>14 DEF EmailedLinks!Register, EmailedLinks!TypeOK
  <2>2. RestoreIsFirst'
    BY <1>i, <1>14 DEF EmailedLinks!Register, RestoreIsFirst, Restoring
  <2>3. AdoptedStays'
    BY <1>i, <1>14 DEF EmailedLinks!Register, AdoptedStays
  <2>4. SubmitsOnce'
    BY <1>i, <1>14 DEF EmailedLinks!Register, SubmitsOnce
  <2>5. FormHolds'
    BY <1>i, <1>14 DEF EmailedLinks!Register, FormHolds
  <2>6. AnswersCome'
    BY <1>i, <1>14 DEF EmailedLinks!Register, AnswersCome
  <2>7. RefreshSees'
    BY <1>i, <1>14 DEF EmailedLinks!Register, RefreshSees
  <2> QED
    BY <2>1, <2>2, <2>3, <2>4, <2>5, <2>6, <2>7 DEF LinksInv
<1>15. ASSUME NEW what \in EmailedLinks!Verdict \cup {"failed"},
        EmailedLinks!PostHandled(what) PROVE LinksInv'
  <2>1. EmailedLinks!TypeOK'
    <3>1. post' \in EmailedLinks!Post
      BY <1>t, <1>p, <1>15 DEF EmailedLinks!PostHandled, EmailedLinks!TypeOK, EmailedLinks!Post
    <3>2. UNCHANGED <<kind, link, held, page, submitted, refreshed, status, user, list,
            alive, posts, judged, adopted, expired, dropped, shown, me>>
      BY <1>15 DEF EmailedLinks!PostHandled
    <3>3. verified' \in BOOLEAN
      BY <1>t, <1>15 DEF EmailedLinks!PostHandled, EmailedLinks!TypeOK
    <3>4. consumed' \subseteq LinkToken
      BY <1>t, <1>p, <1>i, <1>15 DEF EmailedLinks!PostHandled, EmailedLinks!TypeOK, AnswersCome
    <3> QED
      BY <1>t, <3>1, <3>2, <3>3, <3>4 DEF EmailedLinks!TypeOK
  <2>2. RestoreIsFirst'
    BY <1>i, <1>p, <1>15 DEF EmailedLinks!PostHandled, RestoreIsFirst, Restoring
  <2>3. AdoptedStays'
    BY <1>i, <1>p, <1>15 DEF EmailedLinks!PostHandled, AdoptedStays
  <2>4. SubmitsOnce'
    BY <1>i, <1>p, <1>15 DEF EmailedLinks!PostHandled, SubmitsOnce
  <2>5. FormHolds'
    BY <1>i, <1>p, <1>15 DEF EmailedLinks!PostHandled, FormHolds
  <2>6. AnswersCome'
    <3>1. /\ post'.step = "answered" /\ post'.what = what /\ post'.token = post.token
          /\ post'.cancelled = post.cancelled /\ UNCHANGED <<expired, page, kind, submitted>>
          /\ post.step = "sent"
      BY <1>p, <1>15 DEF EmailedLinks!PostHandled
    <3>2. what # "none"
      BY DEF EmailedLinks!Verdict
    <3> QED
      BY <1>i, <3>1, <3>2 DEF AnswersCome
  <2>7. RefreshSees'
    <3>1. /\ post'.step = "answered" /\ post'.what = what
          /\ UNCHANGED <<kind, page, user, refreshed, dropped, me, shown>>
      BY <1>p, <1>15 DEF EmailedLinks!PostHandled
    <3>2. verified => verified'
      BY <1>15 DEF EmailedLinks!PostHandled
    <3>3. kind = "verify" /\ what = "success" => verified'
      BY <1>i, <1>15 DEF EmailedLinks!PostHandled, SubmitsOnce
    <3> QED
      BY <1>i, <3>1, <3>2, <3>3 DEF RefreshSees
  <2> QED
    BY <2>1, <2>2, <2>3, <2>4, <2>5, <2>6, <2>7 DEF LinksInv
<1>16. CASE EmailedLinks!AnswerLost
  <2>1. EmailedLinks!TypeOK'
    <3>1. post' \in EmailedLinks!Post
      BY <1>t, <1>p, <1>16 DEF EmailedLinks!AnswerLost, EmailedLinks!TypeOK, EmailedLinks!Post
    <3> QED
      BY <1>t, <1>16, <3>1 DEF EmailedLinks!AnswerLost, EmailedLinks!TypeOK
  <2>2. RestoreIsFirst'
    BY <1>i, <1>p, <1>16 DEF EmailedLinks!AnswerLost, RestoreIsFirst, Restoring
  <2>3. AdoptedStays'
    BY <1>i, <1>p, <1>16 DEF EmailedLinks!AnswerLost, AdoptedStays
  <2>4. SubmitsOnce'
    BY <1>i, <1>p, <1>16 DEF EmailedLinks!AnswerLost, SubmitsOnce
  <2>5. FormHolds'
    BY <1>i, <1>p, <1>16 DEF EmailedLinks!AnswerLost, FormHolds
  <2>6. AnswersCome'
    BY <1>i, <1>p, <1>16 DEF EmailedLinks!AnswerLost, AnswersCome
  <2>7. RefreshSees'
    BY <1>i, <1>p, <1>16 DEF EmailedLinks!AnswerLost, RefreshSees
  <2> QED
    BY <2>1, <2>2, <2>3, <2>4, <2>5, <2>6, <2>7 DEF LinksInv
<1>17. CASE EmailedLinks!Answered
  <2>1. EmailedLinks!TypeOK'
    <3>1. post' \in EmailedLinks!Post
      BY <1>t, <1>p, <1>17 DEF EmailedLinks!Answered, EmailedLinks!After,
          EmailedLinks!NoPost, EmailedLinks!Verdict, EmailedLinks!TypeOK,
          EmailedLinks!Post
    <3>2. UNCHANGED <<kind, link, submitted, refreshed, list, alive, verified,
            consumed, posts, expired, dropped, me>>
      BY <1>17 DEF EmailedLinks!Answered
    <3>3. /\ user' \in {"old", "new", None}
            /\ status' \in {"restoring", "anonymous", "authenticated"}
          /\ adopted' \in BOOLEAN
      BY <1>t, <1>17 DEF EmailedLinks!Answered, EmailedLinks!TypeOK
    <3>4. shown' \in BOOLEAN
      <4>1. CASE kind = "complete" /\ post.what = "success"
        BY <1>17, <4>1 DEF EmailedLinks!Answered
      <4>2. CASE ~(kind = "complete" /\ post.what = "success")
        BY <1>t, <1>17, <4>2 DEF EmailedLinks!Answered, EmailedLinks!auth, EmailedLinks!TypeOK
      <4> QED
        BY <4>1, <4>2
    <3>5. \/ page' \in EmailedLinks!Verdict \cup {"ready", "failed"}
          \/ page' = "form" /\ kind = "reset"
          \/ page' = page
      BY <1>p, <1>i, <1>17 DEF EmailedLinks!Answered, EmailedLinks!After, AnswersCome, SubmitsOnce
    <3>6. held' \in LinkToken \cup {None} /\ judged' \subseteq LinkToken
      BY <1>t, <1>p, <1>i, <1>17 DEF EmailedLinks!Answered, EmailedLinks!TypeOK, AnswersCome
    <3>7. kind = "reset" => "form" \in {EmailedLinks!Waiting[k] : k \in Page}
      BY <1>t DEF EmailedLinks!TypeOK, EmailedLinks!Waiting
    <3> QED
      BY <1>t, <3>1, <3>2, <3>3, <3>4, <3>5, <3>6, <3>7 DEF EmailedLinks!TypeOK
  <2>2. RestoreIsFirst'
    BY <1>i, <1>17 DEF EmailedLinks!Answered, EmailedLinks!After, EmailedLinks!NoPost,
        EmailedLinks!Verdict, RestoreIsFirst, Restoring
  <2>3. AdoptedStays'
    BY <1>i, <1>17 DEF EmailedLinks!Answered, EmailedLinks!After, EmailedLinks!NoPost,
        EmailedLinks!Verdict, AdoptedStays
  <2>4. SubmitsOnce'
    BY <1>i, <1>p, <1>17 DEF EmailedLinks!Answered, EmailedLinks!After,
        EmailedLinks!NoPost, EmailedLinks!Verdict, SubmitsOnce
  <2>5. FormHolds'
    BY <1>i, <1>17 DEF EmailedLinks!Answered, EmailedLinks!After, EmailedLinks!NoPost,
        EmailedLinks!Verdict, FormHolds
  <2>6. AnswersCome'
    <3>1. /\ post' = EmailedLinks!NoPost /\ UNCHANGED <<kind, submitted, expired>>
          /\ page' = IF post.cancelled THEN page ELSE EmailedLinks!After(post.what)
          /\ post.step = "answered"
      BY <1>17 DEF EmailedLinks!Answered
    <3>2. post'.step = "none" /\ ~post'.cancelled
      BY <3>1 DEF EmailedLinks!NoPost
    <3>3. post.what \in {"success", "expired", "used", "invalid", "failed"}
      BY <1>p, <1>i, <3>1 DEF AnswersCome, EmailedLinks!Verdict
    <3>4. ASSUME submitted, ~expired PROVE page' # EmailedLinks!Waiting[kind]
      <4>1. kind \in {"complete", "verify", "invitation"} /\ page # "submitting"
        BY <1>t, <1>i, <3>4 DEF EmailedLinks!TypeOK, SubmitsOnce
      <4>2. EmailedLinks!Waiting[kind] \in {"completing", "verifying", "inspecting"}
        BY <4>1 DEF EmailedLinks!Waiting
      <4>3. ~post.cancelled
        BY <1>i, <3>4 DEF AnswersCome
      <4>4. EmailedLinks!After(post.what)
               \in {"ready", "success", "expired", "used", "invalid", "failed"}
        BY <3>3, <4>1 DEF EmailedLinks!After
      <4> QED
        BY <3>1, <4>2, <4>3, <4>4
    <3> QED
      BY <3>1, <3>2, <3>4 DEF AnswersCome
  <2>7. RefreshSees'
    BY <1>i, <1>17 DEF EmailedLinks!Answered, EmailedLinks!After, EmailedLinks!NoPost,
        EmailedLinks!Verdict, RefreshSees
  <2> QED
    BY <2>1, <2>2, <2>3, <2>4, <2>5, <2>6, <2>7 DEF LinksInv
<1>18. CASE EmailedLinks!RefreshUser
  <2>1. EmailedLinks!TypeOK'
    <3>1. me' \in EmailedLinks!Me
      BY <1>t, <1>m, <1>18 DEF EmailedLinks!RefreshUser, EmailedLinks!TypeOK, EmailedLinks!Me
    <3> QED
      BY <1>t, <1>18, <3>1 DEF EmailedLinks!RefreshUser, EmailedLinks!TypeOK
  <2>2. RestoreIsFirst'
    BY <1>i, <1>m, <1>18 DEF EmailedLinks!RefreshUser, RestoreIsFirst, Restoring
  <2>3. AdoptedStays'
    BY <1>i, <1>m, <1>18 DEF EmailedLinks!RefreshUser, AdoptedStays
  <2>4. SubmitsOnce'
    BY <1>i, <1>m, <1>18 DEF EmailedLinks!RefreshUser, SubmitsOnce
  <2>5. FormHolds'
    BY <1>i, <1>m, <1>18 DEF EmailedLinks!RefreshUser, FormHolds
  <2>6. AnswersCome'
    BY <1>i, <1>m, <1>18 DEF EmailedLinks!RefreshUser, AnswersCome
  <2>7. RefreshSees'
    BY <1>i, <1>m, <1>18 DEF EmailedLinks!RefreshUser, RefreshSees
  <2> QED
    BY <2>1, <2>2, <2>3, <2>4, <2>5, <2>6, <2>7 DEF LinksInv
<1> QED
  BY <1>1, <1>2, <1>3, <1>4, <1>5, <1>6, <1>7, <1>8, <1>9, <1>10, <1>11, <1>12, <1>13,
      <1>14, <1>15, <1>16, <1>17, <1>18 DEF EmailedLinks!Next

\* A step of another component leaves the emailed link's page as it is.
LEMMA LinksStutter == LinksInv /\ UNCHANGED EmailedLinks!vars => LinksInv'
<1> SUFFICES ASSUME LinksInv, UNCHANGED EmailedLinks!vars PROVE LinksInv'
  OBVIOUS
<1>1. UNCHANGED <<kind, link, held, page, submitted, post, status, user, shown, me, refreshed,
                  list, alive, verified, consumed, posts, judged, adopted, expired, dropped>>
  BY DEF EmailedLinks!vars, EmailedLinks!place, EmailedLinks!auth, EmailedLinks!server,
         EmailedLinks!history
<1>2. EmailedLinks!TypeOK'
  BY <1>1 DEF LinksInv, EmailedLinks!TypeOK
<1>3. RestoreIsFirst' /\ AdoptedStays' /\ SubmitsOnce' /\ FormHolds'
  BY <1>1 DEF LinksInv, RestoreIsFirst, Restoring, AdoptedStays, SubmitsOnce, FormHolds
<1>4. AnswersCome' /\ RefreshSees'
  BY <1>1 DEF LinksInv, AnswersCome, RefreshSees
<1> QED
  BY <1>2, <1>3, <1>4 DEF LinksInv

\* The invariant gives what is promised of the pages.
LEMMA LinksPromise ==
  LinksInv => /\ EmailedLinks!AdoptionSticks /\ EmailedLinks!NoSecondTry
              /\ EmailedLinks!AnswerIsShown /\ EmailedLinks!VerifiedIsShown
<1> SUFFICES ASSUME LinksInv
             PROVE  /\ EmailedLinks!AdoptionSticks /\ EmailedLinks!NoSecondTry
                    /\ EmailedLinks!AnswerIsShown /\ EmailedLinks!VerifiedIsShown
  OBVIOUS
<1>1. EmailedLinks!AdoptionSticks
  BY DEF LinksInv, AdoptedStays, EmailedLinks!AdoptionSticks
<1>2. EmailedLinks!NoSecondTry
  BY DEF LinksInv, SubmitsOnce, FormHolds, EmailedLinks!NoSecondTry
<1>3. EmailedLinks!AnswerIsShown
  BY DEF LinksInv, AnswersCome, EmailedLinks!AnswerIsShown
<1>4. EmailedLinks!VerifiedIsShown
  BY DEF LinksInv, RefreshSees, EmailedLinks!VerifiedIsShown
<1> QED
  BY <1>1, <1>2, <1>3, <1>4

------------------------------------------------------------------------------
\* While no answer is lost, the tab of a browser that has one is never sent to the
\* login page by a token it has rotated already (api/client.ts, AuthProvider.tsx); the
\* session a completion created stays, the page of an emailed link submits its token
\* once and shows what the server said of it (the pages of web-demo), for any number of
\* rotations, tokens and calls.
THEOREM WebSteady == Spec => []WebIsSteady
<1> DEFINE Inv == /\ component = "web"   => WebInv
                  /\ component = "links" => LinksInv
<1>1. Init => Inv
  BY WebInit, LinksInit DEF Init
<1>2. Inv /\ [Next]_vars => Inv'
  <2> SUFFICES ASSUME Inv, [Next]_vars PROVE Inv'
    OBVIOUS
  <2>1. CASE Next
    <3>1. component' = component
      BY <2>1 DEF Next
    <3>2. ASSUME component = "web" PROVE WebInv'
      BY <2>1, <3>2, WebStays DEF Next
    <3>3. ASSUME component = "links" PROVE LinksInv'
      BY <2>1, <3>3, LinksStays DEF Next
    <3> QED
      BY <3>1, <3>2, <3>3
  <2>2. CASE UNCHANGED vars
    <3>1. UNCHANGED component
      BY <2>2 DEF vars
    <3>2. UNCHANGED WebClient!vars
      BY <2>2 DEF vars, WebClient!vars, WebClient!server, WebClient!provider, WebClient!history
    <3>3. UNCHANGED EmailedLinks!vars
      BY <2>2 DEF vars, EmailedLinks!vars, EmailedLinks!place, EmailedLinks!auth,
         EmailedLinks!server, EmailedLinks!history
    <3> QED
      BY <3>1, <3>2, <3>3, WebStutter, LinksStutter
  <2> QED
    BY <2>1, <2>2
<1>3. Inv => WebIsSteady
  BY WebPromise, LinksPromise DEF WebIsSteady
<1> QED
  BY <1>1, <1>2, <1>3, PTL DEF Spec

------------------------------------------------------------------------------
(* Lists                                                                   *)

\* What the list that is walked shows.
Listed == IF list \in {"api_keys", "invitations", "audit"}
          THEN Pagination!Recorded ELSE Pagination!Live

\* Where the walk stands.  What was shown does not follow the cursor, and what was
\* listed all the time was shown, or follows it, or shares a millisecond with a cursor.
WalkStands ==
    /\ walk = "off" => cursor = Pagination!NoCursor /\ page = {} /\ shown = {} /\ standing = {}
    /\ walk = "on"  => cursor # Pagination!NoCursor
    /\ page \cup shown \subseteq Pagination!Recorded
    /\ standing \subseteq Listed
    /\ walk = "on" => \A x \in page \cup shown : ~Pagination!Follows(x)
    /\ walk # "done" =>
         \A x \in standing \ (page \cup shown) :
            Pagination!Follows(x) \/ Pagination!Millis(rows[x].at) \in cuts

PagesInv == Pagination!TypeOK /\ WalkStands /\ Pagination!WalkIsSound

\* A number of a set of numbers is the least.
LEMMA LeastNatural ==
  ASSUME NEW S \in SUBSET Nat, S # {}
  PROVE  \E n \in S : \A m \in S : n <= m
<1> DEFINE R == {p \in Nat \X Nat : p[1] < p[2]}
<1>1. IsWellFoundedOn(R, Nat)
  BY NatLessThanWellFounded, SMT DEF OpToRel
<1>2. PICK n \in S : \A m \in S : ~ (<<m, n>> \in R)
  <2> HIDE DEF R
  <2> QED
    BY <1>1, WFMin
<1>3. \A m \in S : ~ (m < n)
  BY <1>2
<1> QED
  BY <1>3

\* A millisecond is where it starts and what its instants share.
LEMMA MillisStand ==
  ASSUME NEW t \in Nat
  PROVE  /\ Pagination!Millis(t) \in Nat /\ Pagination!Millis(t) <= t
         /\ Pagination!Millis(t) * PerMilli \in Nat
         /\ Pagination!Millis(t) * PerMilli <= t
         /\ t < Pagination!Millis(t) * PerMilli + PerMilli
         /\ \A m \in Nat : m * PerMilli <= t /\ t < m * PerMilli + PerMilli
                             => Pagination!Millis(t) = m
<1>1. ASSUME NEW p \in Nat \ {0}
      PROVE  /\ t \div p \in Nat
             /\ (t \div p) * p <= t /\ t < (t \div p) * p + p
  OBVIOUS
<1>3. ASSUME NEW p \in Nat \ {0}, NEW m \in Nat, m * p <= t PROVE m <= t
  <2>1. CASE m = 0
    BY <2>1
  <2>2. CASE m # 0
    <3>1. m * p = m * (p - 1) + m
      OBVIOUS
    <3>2. m * (p - 1) \in Nat
      OBVIOUS
    <3> QED
      BY <3>1, <3>2, <1>3
  <2> QED
    BY <2>1, <2>2
<1>2. ASSUME NEW p \in Nat \ {0}, NEW m \in Nat, m * p <= t, t < m * p + p
      PROVE  t \div p = m
  <2>1. \A a, b \in Nat : a < b => a * p + p <= b * p
    <3>1. SUFFICES ASSUME NEW a \in Nat, NEW b \in Nat, a < b PROVE a * p + p <= b * p
      OBVIOUS
    <3>2. b * p = a * p + (b - a) * p /\ (b - a) * p = p + (b - a - 1) * p
      OBVIOUS
    <3>3. (b - a - 1) * p \in Nat
      BY <3>1
    <3> QED
      BY <3>2, <3>3
  <2>2. ~ (m < t \div p) /\ ~ (t \div p < m)
    BY <1>1, <1>2, <2>1
  <2> QED
    BY <1>1, <2>2
<1>4. PerMilli \in Nat \ {0} /\ Pagination!Millis(t) = t \div PerMilli
  BY PagesAssumption DEF Pagination!Millis
<1>5. /\ Pagination!Millis(t) \in Nat
      /\ Pagination!Millis(t) * PerMilli <= t
      /\ t < Pagination!Millis(t) * PerMilli + PerMilli
  BY <1>1, <1>4
<1>6. Pagination!Millis(t) <= t /\ Pagination!Millis(t) * PerMilli \in Nat
  BY <1>3, <1>4, <1>5
<1>7. \A m \in Nat : m * PerMilli <= t /\ t < m * PerMilli + PerMilli
                             => Pagination!Millis(t) = m
  BY <1>2, <1>4
<1> QED
  BY <1>5, <1>6, <1>7

\* A page that is full has a last row.
LEMMA LastOfPage ==
  ASSUME NEW P \in SUBSET Id, P # {}, Pagination!TypeOK
  PROVE  \E x \in P : \A y \in P \ {x} : Pagination!Precedes(y, x)
<1> DEFINE born(x) == rows[x].at
           T == {born(x) : x \in P}
<1>1. \A x \in P : born(x) \in Nat /\ x \in Nat
  BY PagesAssumption DEF Pagination!TypeOK, Pagination!Row, Pagination!Time
<1>2. T \in SUBSET Nat /\ T # {}
  BY <1>1
<1>3. PICK t \in T : \A u \in T : t <= u
  BY <1>2, LeastNatural
<1>4. {x \in P : born(x) = t} \in SUBSET Nat /\ {x \in P : born(x) = t} # {}
  BY <1>1, <1>3
<1>5. PICK x \in {y \in P : born(y) = t} : \A y \in {z \in P : born(z) = t} : x <= y
  BY <1>4, LeastNatural
<1>6. \A y \in P \ {x} : born(y) > born(x) \/ (born(y) = born(x) /\ y > x)
  BY <1>1, <1>3, <1>5
<1> QED
  BY <1>5, <1>6 DEF Pagination!Precedes

\* The initial states satisfy the invariant.
LEMMA PagesInit == Pagination!Init => PagesInv
<1> SUFFICES ASSUME Pagination!Init PROVE PagesInv
  OBVIOUS
<1>1. Pagination!TypeOK
  BY PagesAssumption DEF Pagination!Init, Pagination!TypeOK, Pagination!Row, Pagination!Time
<1> QED
  BY <1>1 DEF Pagination!Init, PagesInv, WalkStands, Pagination!WalkIsSound

\* A page keeps the invariant, whichever list it is of.
LEMMA PageRead ==
  ASSUME PagesInv, walk # "done", Pagination!ReadPage(Listed)
  PROVE  PagesInv'
<1> DEFINE rest == {x \in Listed : Pagination!Follows(x)}
           more == Cardinality(rest) > PageSize
           size == IF more THEN PageSize ELSE Cardinality(rest)
           born(x) == rows[x].at
<1>1. PICK P \in SUBSET rest :
          /\ Cardinality(P) = size
          /\ \A x \in P, y \in rest \ P : Pagination!Precedes(x, y)
          /\ page' = P /\ shown' = shown \cup page
          /\ standing' = IF walk = "off" THEN Listed ELSE standing
          /\ IF more
             THEN LET last == CHOOSE x \in P : \A y \in P \ {x} : Pagination!Precedes(y, x)
                  IN  /\ cursor' = [ms |-> Pagination!Millis(born(last)), id |-> last]
                      /\ cuts' = cuts \cup {Pagination!Millis(born(last))}
                      /\ walk' = "on"
             ELSE walk' = "done" /\ UNCHANGED <<cursor, cuts>>
          /\ UNCHANGED <<list, rows, now>>
  BY DEF Pagination!ReadPage, Pagination!Cardinality, Cardinality
<1> DEFINE last == CHOOSE x \in P : \A y \in P \ {x} : Pagination!Precedes(y, x)
<1>2. /\ \A x \in Id : born(x) \in Nat /\ born(x) <= MaxTimeOf.pages /\ x \in Nat
      /\ P \subseteq rest /\ rest \subseteq Listed /\ Listed \subseteq Pagination!Recorded
      /\ Pagination!Recorded \subseteq Id /\ Pagination!TypeOK
  BY PagesAssumption
  DEF PagesInv, Pagination!TypeOK, Pagination!Row, Pagination!Time, Pagination!Recorded,
      Listed, Pagination!Live
<1>3. IsFiniteSet(rest) /\ Cardinality(rest) \in Nat
  BY <1>2, FS_Subset, FS_CardinalityType, PagesAssumption
<1>4. ~more => P = rest
  BY <1>1, <1>3, FS_Subset
<1>5. more => P # {}
  BY <1>1, FS_EmptySet, PagesAssumption
<1>6. more => last \in P /\ \A y \in P \ {last} : Pagination!Precedes(y, last)
  BY <1>2, <1>5, LastOfPage
<1> HIDE DEF last, rest
<1>16. ASSUME more
       PROVE  /\ last \in P /\ last \in Id /\ last \in Nat
              /\ born(last) \in Nat /\ born(last) <= MaxTimeOf.pages
              /\ Pagination!Millis(born(last)) \in Nat
              /\ Pagination!Millis(born(last)) <= MaxTimeOf.pages
              /\ Pagination!Millis(born(last)) * PerMilli \in Nat
              /\ Pagination!Millis(born(last)) * PerMilli <= born(last)
              /\ born(last) < Pagination!Millis(born(last)) * PerMilli + PerMilli
  <2>1. last \in P /\ last \in Id /\ last \in Nat
    BY <1>2, <1>6, <1>16
  <2>2. born(last) \in Nat /\ born(last) <= MaxTimeOf.pages
    BY <1>2, <2>1
  <2>3. /\ Pagination!Millis(born(last)) \in Nat /\ Pagination!Millis(born(last)) <= born(last)
        /\ Pagination!Millis(born(last)) * PerMilli \in Nat
        /\ Pagination!Millis(born(last)) * PerMilli <= born(last)
        /\ born(last) < Pagination!Millis(born(last)) * PerMilli + PerMilli
    BY <2>2, MillisStand
  <2> QED
    BY <2>1, <2>2, <2>3, PagesAssumption
\* Nothing of the page was shown before.
<1>7. P \cap (page \cup shown) = {}
  <2>1. walk \in {"off", "on"}
    BY <1>2 DEF Pagination!TypeOK
  <2> QED
    BY <1>2, <2>1 DEF PagesInv, WalkStands, rest
<1>8. Pagination!TypeOK'
  <2>1. more => Pagination!Millis(born(last)) \in Pagination!Time /\ last \in Id
    <3> SUFFICES ASSUME more
                 PROVE  Pagination!Millis(born(last)) \in Pagination!Time /\ last \in Id
      OBVIOUS
    <3>1. /\ last \in Id /\ Pagination!Millis(born(last)) \in Nat
          /\ Pagination!Millis(born(last)) <= MaxTimeOf.pages
      BY <1>16
    <3> QED
      BY <3>1, PagesAssumption DEF Pagination!Time
  <2>2. cursor' = Pagination!NoCursor' \/ cursor' \in [ms : Pagination!Time, id : Id]
    <3>1. CASE more
      <4>1. cursor' = [ms |-> Pagination!Millis(born(last)), id |-> last]
        BY <1>1, <3>1 DEF last
      <4> QED
        BY <2>1, <3>1, <4>1
    <3>2. CASE ~more
      BY <1>1, <1>2, <3>2 DEF Pagination!TypeOK, Pagination!NoCursor
    <3> QED
      BY <3>1, <3>2
  <2>3. cuts' \subseteq Pagination!Time /\ walk' \in {"off", "on", "done"}
    BY <1>1, <1>2, <2>1 DEF Pagination!TypeOK, last
  <2>4. standing' \subseteq Id /\ page' \subseteq Id /\ shown' \subseteq Id
    BY <1>1, <1>2 DEF Pagination!TypeOK
  <2> QED
    BY <1>1, <1>2, <2>2, <2>3, <2>4 DEF Pagination!TypeOK, Pagination!Row, Pagination!Time
<1>9. walk' # "off" /\ Listed' = Listed /\ Pagination!Recorded' = Pagination!Recorded
  BY <1>1 DEF Listed, Pagination!Recorded, Pagination!Live
<1>10. walk' = "on" => more /\ cursor' = [ms |-> Pagination!Millis(born(last)), id |-> last]
                       /\ cuts' = cuts \cup {Pagination!Millis(born(last))}
  BY <1>1 DEF last
\* The last row of the page is where the next one starts.
<1>11. ASSUME more, cursor' = [ms |-> Pagination!Millis(born(last)), id |-> last], NEW x \in Id
       PROVE  Pagination!Follows(x)' <=>
                \/ born(x) < Pagination!Millis(born(last)) * PerMilli
                \/ born(x) = Pagination!Millis(born(last)) * PerMilli /\ x < last
  <2>1. Pagination!Millis(born(last)) \in Nat /\ Pagination!Millis(born(last)) <= MaxTimeOf.pages
    BY <1>11, <1>16
  <2>2. cursor' # Pagination!NoCursor'
    BY <1>11, <2>1, PagesAssumption DEF Pagination!NoCursor
  <2> QED
    BY <1>1, <1>11, <2>2 DEF Pagination!Follows
<1>12. walk' = "on" => \A x \in page' \cup shown' : ~Pagination!Follows(x)'
  <2> SUFFICES ASSUME walk' = "on", NEW x \in page' \cup shown' PROVE ~Pagination!Follows(x)'
    OBVIOUS
  <2> DEFINE ms == Pagination!Millis(born(last))
  <2>1. /\ more /\ last \in P /\ x \in Id /\ born(x) \in Nat /\ born(last) \in Nat
        /\ x \in Nat /\ last \in Nat /\ ms \in Nat /\ ms * PerMilli <= born(last)
        /\ ms * PerMilli \in Nat
    <3>1. more
      BY <1>10
    <3>2. x \in Id
      BY <1>1, <1>2 DEF PagesInv, Pagination!TypeOK
    <3>3. born(x) \in Nat /\ x \in Nat
      BY <1>2, <3>2
    <3> QED
      BY <1>16, <3>1, <3>2, <3>3
  <2>2. CASE x \in P
    BY <1>6, <1>10, <1>11, <2>1, <2>2 DEF Pagination!Precedes
  <2>3. CASE x \in page \cup shown
    <3>1. walk = "on" /\ ~Pagination!Follows(x) /\ cursor # Pagination!NoCursor
      BY <1>2, <2>3 DEF PagesInv, WalkStands, Pagination!TypeOK
    <3>2. Pagination!Follows(last)
      BY <1>2, <2>1 DEF rest
    <3>3. cursor.ms * PerMilli \in Nat /\ cursor.id \in Nat
      <4>1. cursor.ms \in Nat /\ cursor.id \in Nat
        <5>1. cursor \in [ms : Pagination!Time, id : Id]
          BY <1>2, <3>1 DEF Pagination!TypeOK
        <5>2. cursor.ms \in Pagination!Time /\ cursor.id \in Id
          BY <5>1
        <5>3. Pagination!Time \subseteq Nat /\ Id \subseteq Nat
          BY PagesAssumption DEF Pagination!Time
        <5> QED
          BY <5>2, <5>3
      <4> QED
        BY <4>1, PagesAssumption
    <3> QED
      BY <1>10, <1>11, <2>1, <3>1, <3>2, <3>3 DEF Pagination!Follows
  <2> QED
    BY <1>1, <2>2, <2>3
<1>13. ASSUME NEW x \in standing' \ (page' \cup shown')
       PROVE  /\ walk' = "on" => Pagination!Follows(x)' \/ Pagination!Millis(born(x)) \in cuts'
              /\ walk' = "done" => Pagination!Millis(born(x)) \in cuts'
  <2>1. x \in Listed /\ x \in Id /\ born(x) \in Nat /\ x \notin P /\ x \notin page \cup shown
    BY <1>1, <1>2, <1>13 DEF PagesInv, WalkStands
  <2>2. x \in rest \/ Pagination!Millis(born(x)) \in cuts
    <3>1. CASE walk = "off"
      BY <2>1, <3>1 DEF rest, PagesInv, WalkStands, Pagination!Follows
    <3>2. CASE walk = "on"
      BY <1>1, <1>13, <2>1, <3>2 DEF rest, PagesInv, WalkStands
    <3> QED
      BY <3>1, <3>2 DEF PagesInv, Pagination!TypeOK
  <2>3. CASE Pagination!Millis(born(x)) \in cuts
    BY <1>1, <2>3
  <2>4. CASE x \in rest
    <3> DEFINE ms == Pagination!Millis(born(last))
    <3>1. more /\ walk' = "on" /\ cursor' = [ms |-> ms, id |-> last] /\ ms \in cuts'
      BY <1>1, <1>4, <1>10, <2>1, <2>4
    <3>2. last \in P /\ Pagination!Precedes(last, x)
      BY <1>1, <1>6, <2>1, <2>4, <3>1
    <3>3. /\ born(last) \in Nat /\ ms \in Nat /\ ms * PerMilli <= born(last)
          /\ born(last) < ms * PerMilli + PerMilli /\ born(last) >= born(x)
          /\ ms * PerMilli \in Nat
      BY <1>16, <2>1, <3>1, <3>2 DEF Pagination!Precedes
    <3>4. CASE born(x) < ms * PerMilli
      BY <1>11, <2>1, <3>1, <3>4
    <3>5. CASE ~ (born(x) < ms * PerMilli)
      <4>1. ms * PerMilli <= born(x) /\ born(x) < ms * PerMilli + PerMilli
        BY <2>1, <3>3, <3>5, PagesAssumption
      <4>2. Pagination!Millis(born(x)) = ms
        BY <2>1, <3>3, <4>1, MillisStand
      <4> QED
        BY <3>1, <4>2
    <3> QED
      BY <3>4, <3>5
  <2> QED
    BY <2>2, <2>3, <2>4
<1>14. Pagination!WalkIsSound'
  BY <1>1, <1>7, <1>13 DEF Pagination!WalkIsSound, PagesInv, Pagination!Millis
<1>15. WalkStands'
  <2>1. page' \cup shown' \subseteq Pagination!Recorded /\ standing' \subseteq Listed
    BY <1>1, <1>2 DEF PagesInv, WalkStands
  <2>2. walk' = "on" => cursor' # Pagination!NoCursor'
    <3> SUFFICES ASSUME walk' = "on" PROVE cursor' # Pagination!NoCursor'
      OBVIOUS
    <3>1. Pagination!Millis(born(last)) \in Nat
            /\ Pagination!Millis(born(last)) <= MaxTimeOf.pages
      BY <1>10, <1>16
    <3> QED
      BY <1>10, <3>1, PagesAssumption DEF Pagination!NoCursor
  <2>3. walk' # "done" => walk' = "on"
    BY <1>8, <1>9 DEF Pagination!TypeOK
  <2>4. ASSUME NEW x \in standing' \ (page' \cup shown'), walk' # "done"
        PROVE  Pagination!Follows(x)' \/ Pagination!Millis(rows'[x].at) \in cuts'
    BY <1>1, <1>13, <2>3, <2>4
  <2> QED
    BY <1>9, <1>12, <2>1, <2>2, <2>4 DEF WalkStands, Pagination!Millis
<1> QED
  BY <1>8, <1>14, <1>15 DEF PagesInv

\* What happens to the rows keeps the invariant.
LEMMA PagesRows ==
  ASSUME PagesInv, NEW x \in Id,
         Pagination!Insert(x) \/ Pagination!Commit(x) \/ Pagination!End(x)
  PROVE  PagesInv'
<1>1. /\ UNCHANGED <<list, now, walk, cursor, page, shown, cuts>>
      /\ Pagination!TypeOK
  BY DEF PagesInv, Pagination!Insert, Pagination!Commit, Pagination!End, Pagination!client
<1>2. PICK r \in Pagination!Row :
        /\ rows' = [rows EXCEPT ![x] = r]
        /\ rows[x].state \in {"staged", "live"} => r.at = rows[x].at
        /\ rows[x].state # "ended"
        /\ rows[x].state = "live" => r.state = "ended"
  <2>1. CASE Pagination!Insert(x)
    BY <1>1, <2>1 DEF Pagination!Insert, Pagination!TypeOK, Pagination!Row
  <2>2. CASE Pagination!Commit(x)
    <3>1. [rows[x] EXCEPT !.state = "live"] \in Pagination!Row
      BY <1>1 DEF Pagination!TypeOK, Pagination!Row
    <3> QED
      BY <1>1, <2>2, <3>1 DEF Pagination!Commit, Pagination!TypeOK, Pagination!Row
  <2>3. CASE Pagination!End(x)
    <3>1. [rows[x] EXCEPT !.state = "ended"] \in Pagination!Row
      BY <1>1 DEF Pagination!TypeOK, Pagination!Row
    <3> QED
      BY <1>1, <2>3, <3>1 DEF Pagination!End, Pagination!TypeOK, Pagination!Row
  <2> QED
    BY <2>1, <2>2, <2>3
<1>3. /\ standing' \subseteq standing
      /\ rows[x].state = "live" /\ list \notin {"api_keys", "invitations", "audit"}
           => x \notin standing'
  BY <1>1, <1>2 DEF Pagination!Insert, Pagination!Commit, Pagination!End, Pagination!TypeOK
<1>4. Pagination!TypeOK'
  BY <1>1, <1>2, <1>3 DEF Pagination!TypeOK, Pagination!NoCursor
<1>5. Pagination!Recorded \subseteq Pagination!Recorded'
  BY <1>1, <1>2 DEF Pagination!Recorded, Pagination!TypeOK
<1>6. standing' \subseteq Listed'
  BY <1>1, <1>2, <1>3, <1>5
  DEF PagesInv, WalkStands, Listed, Pagination!Live, Pagination!Recorded, Pagination!TypeOK
\* What is listed keeps its created_at.
<1>7. \A y \in Pagination!Recorded :
        /\ rows'[y].at = rows[y].at
        /\ Pagination!Follows(y)' <=> Pagination!Follows(y)
        /\ Pagination!Millis(rows'[y].at) = Pagination!Millis(rows[y].at)
  <2>1. \A y \in Pagination!Recorded : rows'[y].at = rows[y].at
    BY <1>1, <1>2 DEF Pagination!Recorded, Pagination!TypeOK
  <2> QED
    BY <1>1, <2>1 DEF Pagination!Follows, Pagination!NoCursor
<1>8. /\ page \cup shown \subseteq Pagination!Recorded
      /\ standing' \subseteq Pagination!Recorded /\ standing' \subseteq standing
  BY <1>3 DEF PagesInv, WalkStands, Listed, Pagination!Live, Pagination!Recorded
<1>9. WalkStands'
  <2>1. walk' # "done" =>
          \A y \in standing' \ (page' \cup shown') :
            Pagination!Follows(y)' \/ Pagination!Millis(rows'[y].at) \in cuts'
    BY <1>1, <1>7, <1>8 DEF PagesInv, WalkStands
  <2>2. walk' = "on" => \A y \in page' \cup shown' : ~Pagination!Follows(y)'
    BY <1>1, <1>7, <1>8 DEF PagesInv, WalkStands
  <2>3. /\ walk' = "off" => cursor' = Pagination!NoCursor' /\ page' = {} /\ shown' = {}
                            /\ standing' = {}
        /\ walk' = "on"  => cursor' # Pagination!NoCursor'
        /\ page' \cup shown' \subseteq Pagination!Recorded'
    BY <1>1, <1>3, <1>5, <1>8 DEF PagesInv, WalkStands, Pagination!NoCursor
  <2> QED
    BY <1>6, <2>1, <2>2, <2>3 DEF WalkStands, Pagination!Millis
<1>10. Pagination!WalkIsSound'
  <2>1. walk = "done" =>
          \A y \in standing' \ (page' \cup shown') : Pagination!Millis(rows'[y].at) \in cuts'
    BY <1>1, <1>7, <1>8 DEF PagesInv, Pagination!WalkIsSound
  <2> QED
    BY <1>1, <2>1 DEF PagesInv, Pagination!WalkIsSound, Pagination!Millis
<1> QED
  BY <1>4, <1>9, <1>10 DEF PagesInv

\* Every step preserves it.
LEMMA PagesStays == PagesInv /\ Pagination!Next => PagesInv'
<1> SUFFICES ASSUME PagesInv, Pagination!Next PROVE PagesInv'
  OBVIOUS
<1>1. CASE Pagination!Tick
  <2>1. UNCHANGED <<list, rows, walk, cursor, page, shown, standing, cuts>>
        /\ now' \in Pagination!Time
    BY <1>1, PagesAssumption
    DEF Pagination!Tick, Pagination!client, PagesInv, Pagination!TypeOK, Pagination!Time
  <2> QED
    BY <2>1
    DEF PagesInv, Pagination!TypeOK, WalkStands, Pagination!WalkIsSound, Listed,
        Pagination!Recorded, Pagination!Live, Pagination!Follows, Pagination!NoCursor,
        Pagination!Millis
<1>2. CASE \/ Pagination!ListProjects \/ Pagination!ListApiKeys \/ Pagination!ListMembers
           \/ Pagination!ListOrganizations \/ Pagination!ListSessions
           \/ Pagination!ListInvitations \/ Pagination!ListAuditEvents
  <2>1. walk # "done" /\ Pagination!ReadPage(Listed)
    BY <1>2
    DEF Listed, Pagination!ListProjects, Pagination!ListApiKeys, Pagination!ListMembers,
        Pagination!ListOrganizations, Pagination!ListSessions, Pagination!ListInvitations,
        Pagination!ListAuditEvents, Pagination!ActiveProjects, Pagination!ListedApiKeys,
        Pagination!ActiveMembers, Pagination!ActiveOrganizations, Pagination!ActiveSessions,
        Pagination!ListedInvitations, Pagination!AuditEvents
  <2> QED
    BY <2>1, PageRead
<1> QED
  BY <1>1, <1>2, PagesRows DEF Pagination!Next

\* The invariant is about the variables of the walk.
LEMMA PagesStutter == PagesInv /\ UNCHANGED Pagination!vars => PagesInv'
  BY DEF Pagination!vars, PagesInv, Pagination!TypeOK, WalkStands, Pagination!WalkIsSound, Listed,
         Pagination!Recorded, Pagination!Live, Pagination!Follows, Pagination!NoCursor,
         Pagination!Millis

\* A walk through any of the lists shows no row twice, and leaves out at most such as
\* share a millisecond with the last row of a page (the seven list methods of the
\* repositories and their services), for any rows, page size and clock, while rows are
\* created and ended.
THEOREM WalkSound == Spec => []WalkIsSound
<1> DEFINE Inv == component = "pages" => PagesInv
<1>1. Init => Inv
  BY PagesInit, Zenon DEF Init
<1>2. Inv /\ [Next]_vars => Inv'
  <2> SUFFICES ASSUME Inv, [Next]_vars, component' = "pages" PROVE PagesInv'
    OBVIOUS
  <2>1. component = "pages"
    BY DEF Next, vars
  <2>2. CASE Next
    BY <2>1, <2>2, PagesStays DEF Next
  <2>3. CASE UNCHANGED vars
    BY <2>1, <2>3, PagesStutter DEF vars, Pagination!vars
  <2> QED
    BY <2>2, <2>3
<1>3. Inv => WalkIsSound
  BY DEF WalkIsSound, PagesInv
<1> QED
  BY <1>1, <1>2, <1>3, PTL DEF Spec

------------------------------------------------------------------------------
(* Retention                                                               *)

\* The category an execution is at, and what it may delete there.
At(w)   == Retention!First(sweep[w].left)
Aged(w) == Retention!Eligible(At(w), sweep[w].now)

\* Where an execution stands in the catalog.
PlaceStands(w) ==
    /\ sweep[w].now <= clock
    /\ sweep[w].step = "idle" \/ (sweep[w].left # {} /\ sweep[w].batches < MaxBatches)
    /\ sweep[w].step \in {"idle", "select"} => sweep[w].chosen = {} /\ sweep[w].tokens = {}
    /\ sweep[w].step \in {"children", "parents"} => At(w) = "sessions"
    /\ sweep[w].step = "delete" /\ At(w) = "sessions" => sweep[w].chosen = {}
    /\ sweep[w].tokens # {} => sweep[w].step = "parents"
    /\ \A d \in sweep[w].left : sweep[w].result[d] = "none"
    /\ sweep[w].result["sessions"] # "none" => sweep[w].step = "idle"

\* What it has chosen is still there and old enough, and so are the tokens of the
\* sessions among it; a short batch is all there was.
ChoiceStands(w) ==
    /\ \A r \in sweep[w].chosen :
          /\ r \in present /\ TableOf[r] = At(w) /\ Retention!PastWindow(r, sweep[w].now)
          /\ At(w) = "sessions" =>
               \A q \in present :
                  TableOf[q] = "refresh_tokens" /\ SessionOf[q] = r
                     => Retention!PastWindow(q, sweep[w].now)
    /\ \A q \in sweep[w].tokens :
          /\ q \in present /\ TableOf[q] = "refresh_tokens" /\ SessionOf[q] \in sweep[w].chosen
          /\ Retention!PastWindow(q, sweep[w].now)
    /\ sweep[w].step \notin {"idle", "select"} /\ Cardinality(sweep[w].chosen) < BatchSize
          => Aged(w) \subseteq sweep[w].chosen

\* What it has reported clean is clean.
ReportStands(w) ==
    \A d \in Retention!Category :
        sweep[w].result[d] = "clean" => Retention!Eligible(d, sweep[w].now) = {}

SweepInv ==
    /\ Retention!TypeOK
    /\ \A w \in Sweeper : PlaceStands(w) /\ ChoiceStands(w) /\ ReportStands(w)

\* The catalog names three categories, the children before what they refer to
\* (RETENTION_POLICY of retention-policy.ts).
LEMMA Categories ==
  /\ Retention!Category = {"security_events", "refresh_tokens", "sessions"}
  /\ \A c, d \in Retention!Category :
        Retention!Earlier(c, d) <=>
          \/ c = "security_events" /\ d # "security_events"
          \/ c = "refresh_tokens" /\ d = "sessions"
<1>1. DOMAIN Retention!Catalog = {1, 2, 3}
  BY DEF Retention!Catalog
<1>2. /\ Retention!Catalog[1] = "security_events" /\ Retention!Catalog[2] = "refresh_tokens"
      /\ Retention!Catalog[3] = "sessions"
  BY DEF Retention!Catalog
<1>3. Retention!Category = {"security_events", "refresh_tokens", "sessions"}
  BY <1>1, <1>2 DEF Retention!Category
<1> QED
  BY <1>1, <1>2, <1>3 DEF Retention!Earlier

\* The sessions come last.
LEMMA FirstStands ==
  ASSUME NEW left \in SUBSET Retention!Category, left # {}
  PROVE  /\ Retention!First(left) \in left
         /\ Retention!First(left) = "sessions" => left \ {"sessions"} = {}
<1> USE Categories
<1>1. \E c \in left : \A d \in left : ~Retention!Earlier(d, c)
  <2>1. CASE "security_events" \in left
    BY <2>1
  <2>2. CASE "security_events" \notin left /\ "refresh_tokens" \in left
    BY <2>2
  <2>3. CASE left = {"sessions"}
    BY <2>3
  <2> QED
    BY <2>1, <2>2, <2>3
<1>2. Retention!First(left) \in left
      /\ \A d \in left : ~Retention!Earlier(d, Retention!First(left))
  <2> DEFINE P(c) == c \in left /\ \A d \in left : ~Retention!Earlier(d, c)
  <2>1. Retention!First(left) = CHOOSE c \in left : \A d \in left : ~Retention!Earlier(d, c)
    BY DEF Retention!First
  <2> QED
    BY <1>1, <2>1
<1> QED
  BY <1>2

\* A database no sweeper has started on satisfies the invariant.
LEMMA SweepInit == Retention!Init => SweepInv
<1> SUFFICES ASSUME Retention!Init PROVE SweepInv
  OBVIOUS
<1> USE SweepAssumption
<1>1. Retention!Idle \in Retention!Execution
  BY DEF Retention!Idle, Retention!Execution, Retention!Outcome
<1>2. at \in [SweptRow -> 0 .. MaxTimeOf.retention + Lifetime]
        /\ clock \in SweepStart .. MaxTimeOf.retention
  BY DEF Retention!Init
<1>3. Retention!TypeOK
  BY <1>1, <1>2 DEF Retention!Init, Retention!TypeOK
<1>4. \A w \in Sweeper : sweep[w] = Retention!Idle
  BY DEF Retention!Init
<1>5. \A w \in Sweeper : PlaceStands(w) /\ ChoiceStands(w) /\ ReportStands(w)
  BY <1>4, Categories
  DEF PlaceStands, ChoiceStands, ReportStands, Retention!Idle, Retention!Init
<1> QED
  BY <1>3, <1>5 DEF SweepInv

\* The windows are lengths of time.
LEMMA WindowTypes ==
  /\ \A c \in Retention!Category : Retention!Window(c) \in Nat
  /\ \A r \in SweptRow : TableOf[r] \in Retention!Category
  BY SweepAssumption DEF Retention!Window

\* The application ages no row and makes none old: it inserts rows of the present.
LEMMA SweepGrows ==
  ASSUME SweepInv, Retention!TypeOK', UNCHANGED sweep, clock <= clock',
         present \subseteq present', \A r \in present : at'[r] = at[r],
         \A r \in present' \ present :
            /\ at'[r] >= clock
            /\ TableOf[r] = "refresh_tokens" =>
                 SessionOf[r] \in present /\ at[SessionOf[r]] > clock
  PROVE  SweepInv'
<1> USE WindowTypes
<1>1. /\ clock \in Nat /\ clock' \in Nat /\ present \subseteq SweptRow
        /\ present' \subseteq SweptRow
      /\ \A r \in SweptRow : at[r] \in Nat /\ at'[r] \in Nat
      /\ \A w \in Sweeper : sweep[w].now \in Nat /\ sweep[w] \in Retention!Execution
  BY SweepAssumption DEF SweepInv, Retention!TypeOK, Retention!Execution
<1>2. ASSUME NEW r \in SweptRow, NEW n \in Nat
      PROVE  /\ r \in present => (Retention!PastWindow(r, n)' <=> Retention!PastWindow(r, n))
             /\ r \in present' \ present /\ n <= clock => ~Retention!PastWindow(r, n)'
  <2>1. TableOf[r] \in Retention!Category /\ Retention!Window(TableOf[r]) \in Nat
    BY <1>2
  <2>2. CASE r \in present
    BY <2>2 DEF Retention!PastWindow, Retention!Window
  <2>3. CASE r \in present' \ present
    BY <1>1, <2>1, <2>3 DEF Retention!PastWindow, Retention!Window
  <2> QED
    BY <2>2, <2>3
<1>3. ASSUME NEW c \in Retention!Category, NEW n \in Nat, n <= clock
      PROVE  Retention!Eligible(c, n)' \subseteq Retention!Eligible(c, n)
  <2> SUFFICES ASSUME NEW r \in Retention!Eligible(c, n)' PROVE r \in Retention!Eligible(c, n)
    OBVIOUS
  <2>1. r \in SweptRow /\ TableOf[r] = c /\ r \in present' /\ Retention!PastWindow(r, n)'
        /\ \A q \in present' : SessionOf[q] = r => Retention!PastWindow(q, n)'
    BY DEF Retention!Eligible, Retention!RowsOf
  <2>2. r \in present /\ Retention!PastWindow(r, n)
    BY <1>2, <1>3, <2>1
  <2>3. \A q \in present : SessionOf[q] = r => Retention!PastWindow(q, n)
    BY <1>1, <1>2, <2>1
  <2> QED
    BY <2>1, <2>2, <2>3 DEF Retention!Eligible, Retention!RowsOf
<1> SUFFICES ASSUME NEW w \in Sweeper
        PROVE (PlaceStands(w) /\ ChoiceStands(w) /\ ReportStands(w))'
  BY DEF SweepInv
<1>4. PlaceStands(w) /\ ChoiceStands(w) /\ ReportStands(w)
  BY DEF SweepInv
<1>5. At(w)' = At(w) /\ sweep'[w] = sweep[w] /\ sweep[w].now \in Nat /\ sweep[w].now <= clock
  BY <1>1, <1>4 DEF At, PlaceStands
<1>6. PlaceStands(w)'
  BY <1>1, <1>4, <1>5 DEF PlaceStands
<1>7. ReportStands(w)'
  <2> SUFFICES ASSUME NEW d \in Retention!Category, sweep[w].result[d] = "clean"
               PROVE  Retention!Eligible(d, sweep[w].now)' = {}
    BY <1>5 DEF ReportStands, Retention!Eligible, Retention!RowsOf,
        Retention!PastWindow, Retention!Window
  <2>1. Retention!Eligible(d, sweep[w].now) = {}
    BY <1>4 DEF ReportStands
  <2> DEFINE n == sweep[w].now
  <2>2. Retention!Eligible(d, n)' \subseteq Retention!Eligible(d, n)
    BY <1>3, <1>5
  <2> QED
    BY <2>1, <2>2
<1>8. ChoiceStands(w)'
  <2> DEFINE n == sweep[w].now
  <2>1. sweep[w].chosen \subseteq present /\ sweep[w].tokens \subseteq present
        /\ n \in Nat /\ n <= clock /\ sweep'[w].now = n
    BY <1>4, <1>5 DEF ChoiceStands
  <2>2. ASSUME NEW r \in sweep[w].chosen
        PROVE  /\ r \in present' /\ TableOf[r] = At(w) /\ Retention!PastWindow(r, n)'
               /\ At(w) = "sessions" =>
                    \A q \in present' :
                       TableOf[q] = "refresh_tokens" /\ SessionOf[q] = r
                          => Retention!PastWindow(q, n)'
    <3>1. r \in present /\ r \in SweptRow /\ TableOf[r] = At(w) /\ Retention!PastWindow(r, n)
      BY <1>1, <1>4 DEF ChoiceStands
    <3>2. at[r] <= clock
      BY <1>1, <1>2, <2>1, <3>1 DEF Retention!PastWindow
    <3>3. ASSUME NEW q \in present', TableOf[q] = "refresh_tokens", SessionOf[q] = r,
                 At(w) = "sessions"
          PROVE  Retention!PastWindow(q, n)'
      <4>1. q \in present
        BY <1>1, <3>1, <3>2, <3>3
      <4>2. Retention!PastWindow(q, n)
        BY <1>4, <3>3, <4>1 DEF ChoiceStands
      <4> QED
        BY <1>1, <1>2, <2>1, <4>1, <4>2
    <3> QED
      BY <1>1, <1>2, <2>1, <3>1, <3>3
  <2>3. ASSUME NEW q \in sweep[w].tokens
        PROVE  /\ q \in present' /\ TableOf[q] = "refresh_tokens"
            /\ SessionOf[q] \in sweep[w].chosen
               /\ Retention!PastWindow(q, n)'
    <3>1. /\ q \in present /\ q \in SweptRow /\ TableOf[q] = "refresh_tokens"
          /\ SessionOf[q] \in sweep[w].chosen /\ Retention!PastWindow(q, n)
      BY <1>1, <1>4 DEF ChoiceStands
    <3> QED
      BY <1>1, <1>2, <2>1, <3>1
  <2>4. ASSUME sweep[w].step \notin {"idle", "select"}, Cardinality(sweep[w].chosen) < BatchSize
        PROVE  Retention!Eligible(At(w), n)' \subseteq sweep[w].chosen
    <3>1. At(w) \in Retention!Category
      <4>1. sweep[w].left \in SUBSET Retention!Category /\ sweep[w].left # {}
        BY <1>1, <1>4, <2>4 DEF PlaceStands, Retention!Execution
      <4> QED
        BY <4>1, FirstStands DEF At
    <3>2. Retention!Eligible(At(w), n) \subseteq sweep[w].chosen
      BY <1>4, <2>4 DEF ChoiceStands, Aged
    <3>3. PICK c \in Retention!Category, m \in Nat : c = At(w) /\ m = n
      BY <2>1, <3>1
    <3>4. Retention!Eligible(c, m)' \subseteq Retention!Eligible(c, m)
      BY <1>3, <2>1, <3>3
    <3>5. c = At(w)' /\ m = n'
      BY <1>5, <3>3
    <3> QED
      BY <3>2, <3>3, <3>4, <3>5
  <2>5. sweep'[w] = sweep[w] /\ At(w)' = At(w) /\ Aged(w)' = Retention!Eligible(At(w), n)'
    BY <1>5 DEF Aged
  <2> QED
    BY <2>2, <2>3, <2>4, <2>5 DEF ChoiceStands, Retention!PastWindow, Retention!Window
<1> QED
  BY <1>6, <1>7, <1>8

\* A step of the one execution keeps the invariant when the execution stands after it,
\* and it changes no row but by a deletion.
LEMMA SweepMove ==
  ASSUME SweepInv, NEW w \in Sweeper, NEW e \in Retention!Execution,
         sweep' = [sweep EXCEPT ![w] = e], UNCHANGED <<at, late, clock>>,
         disturbed' \in BOOLEAN, present' \subseteq present,
         \A r \in present' : SessionOf[r] # None => SessionOf[r] \in present',
         (PlaceStands(w) /\ ChoiceStands(w) /\ ReportStands(w))'
  PROVE  SweepInv'
<1>1. Retention!TypeOK'
  BY DEF SweepInv, Retention!TypeOK, Retention!RowsOf
<1>2. \A v \in Sweeper : v = w
  BY SweepAssumption
<1> QED
  BY <1>1, <1>2 DEF SweepInv

\* Deletions make no row of another table than sessions eligible.
LEMMA EarlierStays ==
  ASSUME SweepInv, UNCHANGED at, present' \subseteq present,
         NEW d \in Retention!Category, d # "sessions" \/ present' = present, NEW n \in Nat
  PROVE  Retention!Eligible(d, n)' \subseteq Retention!Eligible(d, n)
<1>1. \A r \in present : r \in SweptRow /\
        (SessionOf[r] # None => SessionOf[r] \in SweptRow /\ TableOf[SessionOf[r]] = "sessions")
  BY SweepAssumption DEF SweepInv, Retention!TypeOK
<1>2. \A r \in SweptRow : r # None
  BY SweepAssumption
<1> QED
  BY <1>1, <1>2
  DEF Retention!Eligible, Retention!RowsOf, Retention!PastWindow, Retention!Window

\* The end of a category: what was reported clean stays so.
LEMMA CategoryEnds ==
  ASSUME SweepInv, NEW w \in Sweeper, sweep[w].step # "idle",
         NEW o \in Retention!Outcome \ {"none"}, Retention!NextCategory(w, o),
         UNCHANGED <<at, late, clock>>, disturbed' \in BOOLEAN, present' \subseteq present,
         \A r \in present' : SessionOf[r] # None => SessionOf[r] \in present',
         \A c, n : o = "clean" /\ c = At(w) /\ n = sweep[w].now => Retention!Eligible(c, n)' = {}
  PROVE  SweepInv'
<1> DEFINE c == At(w)
           n == sweep[w].now
           left == sweep[w].left \ {c}
           e == [step |-> IF left = {} THEN "idle" ELSE "select", mode |-> sweep[w].mode,
                 left |-> left, now |-> n, batches |-> 0, chosen |-> {}, tokens |-> {},
                 result |-> [sweep[w].result EXCEPT ![c] = o]]
<1>1. PlaceStands(w) /\ ReportStands(w) /\ Retention!TypeOK /\ sweep[w] \in Retention!Execution
  BY DEF SweepInv, Retention!TypeOK
<1>2. /\ sweep[w].left \in SUBSET Retention!Category /\ sweep[w].left # {} /\ n \in Nat
      /\ sweep[w].result \in [Retention!Category -> Retention!Outcome]
  BY <1>1 DEF PlaceStands, Retention!Execution
<1>3. c \in sweep[w].left /\ c \in Retention!Category /\ (c = "sessions" => left = {})
  BY <1>2, FirstStands DEF At
<1>4. sweep' = [sweep EXCEPT ![w] = e]
  BY DEF Retention!NextCategory, At
<1>5. [sweep[w].result EXCEPT ![c] = o] \in [Retention!Category -> Retention!Outcome]
  BY <1>2, <1>3
<1>6. e \in Retention!Execution
  BY <1>1, <1>2, <1>5, SweepAssumption DEF Retention!Execution
<1>7. /\ sweep'[w] = e /\ e.now = n /\ e.left = left /\ e.batches = 0
        /\ e.chosen = {} /\ e.tokens = {}
      /\ e.step = IF left = {} THEN "idle" ELSE "select"
      /\ e.result = [sweep[w].result EXCEPT ![c] = o]
  BY <1>1, <1>4 DEF SweepInv, Retention!TypeOK, Retention!Execution
<1> HIDE DEF e
<1>8. PlaceStands(w)'
  <2>1. "sessions" \in Retention!Category
    BY Categories
  <2>2. e.result["sessions"] # "none" => left = {}
    BY <1>1, <1>2, <1>3, <1>7, <2>1 DEF PlaceStands
  <2>3. \A d \in e.left : e.result[d] = "none"
    BY <1>1, <1>2, <1>3, <1>7 DEF PlaceStands
  <2>4. e.now <= clock'
    BY <1>1, <1>7 DEF PlaceStands
  <2> QED
    BY <1>7, <2>2, <2>3, <2>4, SweepAssumption DEF PlaceStands
<1>9. ChoiceStands(w)'
  BY <1>7 DEF ChoiceStands
<1>10. ReportStands(w)'
  <2> SUFFICES ASSUME NEW d \in Retention!Category, e.result[d] = "clean", NEW m, m = n
               PROVE  Retention!Eligible(d, m)' = {}
    BY <1>7 DEF ReportStands
  <2>1. CASE d = c
    BY <1>2, <1>3, <1>7, <2>1
  <2>2. CASE d # c
    <3>1. sweep[w].result[d] = "clean" /\ d # "sessions"
      BY <1>1, <1>2, <1>7, <2>2 DEF PlaceStands
    <3>2. Retention!Eligible(d, m) = {}
      BY <1>1, <3>1 DEF ReportStands
    <3>3. Retention!Eligible(d, m)' \subseteq Retention!Eligible(d, m)
      BY <1>2, <3>1, EarlierStays
    <3> QED
      BY <3>2, <3>3
  <2> QED
    BY <2>1, <2>2
<1> QED
  BY <1>4, <1>6, <1>8, <1>9, <1>10, SweepMove

\* The end of a batch: its rows and their tokens are gone.
LEMMA BatchEnds ==
  ASSUME SweepInv, NEW w \in Sweeper, sweep[w].step \in {"delete", "parents"},
         Retention!Continue(w, Cardinality(sweep[w].chosen \cap present)),
         UNCHANGED <<at, late, clock, disturbed>>,
         present' = present \ (sweep[w].tokens \cup sweep[w].chosen),
         \A r \in present' : SessionOf[r] # None => SessionOf[r] \in present'
  PROVE  SweepInv'
<1> DEFINE x == sweep[w]
<1>1. /\ PlaceStands(w) /\ ChoiceStands(w) /\ ReportStands(w) /\ Retention!TypeOK
      /\ x \in Retention!Execution /\ x.left \in SUBSET Retention!Category /\ x.left # {}
      /\ x.now \in Nat /\ disturbed' \in BOOLEAN /\ x.batches < MaxBatches
  BY DEF SweepInv, Retention!TypeOK, PlaceStands, Retention!Execution
<1>2. At(w) \in Retention!Category /\ At(w) \in x.left
  BY <1>1, FirstStands DEF At
<1>3. x.chosen \cap present = x.chosen
  BY <1>1 DEF ChoiceStands
<1>4. ASSUME Cardinality(x.chosen) < BatchSize, NEW c, NEW n, c = At(w), n = x.now
      PROVE  Retention!Eligible(c, n)' = {}
  <2> SUFFICES ASSUME NEW r \in Retention!Eligible(c, n)' PROVE FALSE
    OBVIOUS
  <2>1. /\ r \in SweptRow /\ TableOf[r] = c /\ r \in present /\ r \notin x.chosen
        /\ Retention!PastWindow(r, n)
        /\ \A q \in present' : SessionOf[q] = r => Retention!PastWindow(q, n)
    BY DEF Retention!Eligible, Retention!RowsOf, Retention!PastWindow, Retention!Window
  <2>2. \A q \in x.chosen \cup x.tokens : SessionOf[q] # r
    <3>1. ASSUME NEW q \in x.chosen, SessionOf[q] = r PROVE FALSE
      <4>1. TableOf[q] = c /\ q \in SweptRow
        BY <1>1, <1>4 DEF ChoiceStands, Retention!TypeOK
      <4>2. TableOf[q] # "sessions" /\ TableOf[r] = "sessions"
        BY <2>1, <3>1, <4>1, SweepAssumption
      <4> QED
        BY <2>1, <4>1, <4>2
    <3>2. ASSUME NEW q \in x.tokens PROVE SessionOf[q] # r
      BY <1>1, <2>1 DEF ChoiceStands
    <3> QED
      BY <3>1, <3>2
  <2>3. r \in Aged(w)
    BY <1>4, <2>1, <2>2 DEF Aged, Retention!Eligible, Retention!RowsOf
  <2> QED
    BY <1>1, <1>4, <2>1, <2>3 DEF ChoiceStands
<1>5. CASE Cardinality(x.chosen) < BatchSize
  <2>1. Retention!NextCategory(w, "clean")
    BY <1>3, <1>5 DEF Retention!Continue
  <2>2. \A c, n : c = At(w) /\ n = x.now => Retention!Eligible(c, n)' = {}
    BY <1>4, <1>5
  <2> QED
    BY <1>1, <2>1, <2>2, CategoryEnds DEF Retention!Outcome
<1>6. CASE ~ (Cardinality(x.chosen) < BatchSize) /\ x.batches + 1 = MaxBatches
  <2>1. Retention!NextCategory(w, "truncated")
    BY <1>3, <1>6 DEF Retention!Continue
  <2> QED
    BY <1>1, <2>1, CategoryEnds DEF Retention!Outcome
<1>7. CASE ~ (Cardinality(x.chosen) < BatchSize) /\ x.batches + 1 # MaxBatches
  <2> DEFINE e == [x EXCEPT !.step = "select", !.batches = x.batches + 1, !.chosen = {}, !.tokens = {}]
  <2>1. sweep' = [sweep EXCEPT ![w] = e]
    BY <1>3, <1>7 DEF Retention!Continue
  <2>2. x.batches \in Nat /\ x.batches + 1 < MaxBatches
    BY <1>1, <1>7, SweepAssumption DEF Retention!Execution
  <2>3. e \in Retention!Execution
    <3>1. x.batches + 1 \in 0 .. MaxBatches
      BY <2>2, SweepAssumption
    <3> QED
      BY <1>1, <3>1 DEF Retention!Execution
  <2>4. /\ sweep'[w] = e /\ e.step = "select" /\ e.batches < MaxBatches
          /\ e.chosen = {} /\ e.tokens = {}
        /\ e.now = x.now /\ e.left = x.left /\ e.result = x.result
    BY <1>1, <2>1, <2>2 DEF Retention!TypeOK, Retention!Execution
  <2> HIDE DEF e
  <2>5. PlaceStands(w)'
    BY <1>1, <2>4 DEF PlaceStands
  <2>6. ChoiceStands(w)'
    BY <2>4 DEF ChoiceStands
  <2>7. ReportStands(w)'
    <3> SUFFICES ASSUME NEW d \in Retention!Category, x.result[d] = "clean", NEW m, m = x.now
                 PROVE  Retention!Eligible(d, m)' = {}
      BY <2>4 DEF ReportStands
    <3>1. d # "sessions" /\ Retention!Eligible(d, m) = {}
      BY <1>1 DEF PlaceStands, ReportStands
    <3>2. Retention!Eligible(d, m)' \subseteq Retention!Eligible(d, m)
      BY <1>1, <3>1, EarlierStays
    <3> QED
      BY <3>1, <3>2
  <2> QED
    BY <1>1, <2>1, <2>3, <2>5, <2>6, <2>7, SweepMove
<1> QED
  BY <1>5, <1>6, <1>7

\* What a batch deletes refers to nothing that stays, and was old enough.
LEMMA SweepDeletes ==
  ASSUME SweepInv, NEW w \in Sweeper, Retention!DeleteBatch(w) \/ Retention!DeleteParents(w)
  PROVE  /\ SweepInv'
         /\ \A r \in present \ present' : Retention!PastWindow(r, clock)
<1> DEFINE x == sweep[w]
<1>1. /\ PlaceStands(w) /\ ChoiceStands(w) /\ Retention!TypeOK
      /\ x.now \in Nat /\ clock \in Nat /\ x.now <= clock /\ present \subseteq SweptRow
      /\ \A r \in SweptRow : at[r] \in Nat
  BY SweepAssumption DEF SweepInv, Retention!TypeOK, PlaceStands, Retention!Execution
<1>2. /\ UNCHANGED <<at, late, clock, disturbed>>
      /\ present' = present \ (x.tokens \cup x.chosen)
      /\ Retention!Continue(w, Cardinality(x.chosen \cap present))
      /\ x.step \in {"delete", "parents"}
  BY <1>1 DEF Retention!DeleteBatch, Retention!DeleteParents, PlaceStands,
              Retention!Cardinality, Cardinality
<1>3. ASSUME NEW r \in present', SessionOf[r] # None PROVE SessionOf[r] \in present'
  <2>1. r \in present /\ r \in SweptRow /\ SessionOf[r] \in present
          /\ TableOf[SessionOf[r]] = "sessions"
    BY <1>1, <1>2, <1>3, SweepAssumption DEF Retention!TypeOK
  <2>2. SessionOf[r] \notin x.tokens
    BY <1>1, <2>1 DEF ChoiceStands
  <2>3. SessionOf[r] \notin x.chosen
    <3>1. CASE Retention!DeleteBatch(w)
      BY <1>1, <2>1, <3>1 DEF ChoiceStands, PlaceStands, Retention!DeleteBatch
    <3>2. CASE Retention!DeleteParents(w)
      BY <1>2, <1>3, <2>1, <3>2 DEF Retention!DeleteParents, Retention!Referenced
    <3> QED
      BY <3>1, <3>2
  <2> QED
    BY <1>2, <2>1, <2>2, <2>3
<1>4. ASSUME NEW r \in present \ present' PROVE Retention!PastWindow(r, clock)
  <2>1. r \in SweptRow /\ Retention!PastWindow(r, x.now)
    BY <1>1, <1>2 DEF ChoiceStands
  <2>2. TableOf[r] \in Retention!Category /\ Retention!Window(TableOf[r]) \in Nat
    BY <2>1, WindowTypes
  <2> QED
    BY <1>1, <2>1, <2>2 DEF Retention!PastWindow
<1>5. SweepInv'
  BY <1>2, <1>3, BatchEnds
<1> QED
  BY <1>4, <1>5

\* The other steps of an execution.
LEMMA SweepSteps ==
  ASSUME SweepInv, NEW w \in Sweeper,
         \/ \E cats \in Selections, mode \in {"dry-run", "apply"} : Retention!Run(w, cats, mode)
         \/ Retention!Count(w) \/ Retention!Select(w) \/ Retention!DeleteChildren(w)
         \/ Retention!DeleteRefused(w) \/ Retention!FailCategory(w) \/ Retention!Kill(w)
  PROVE  SweepInv' /\ UNCHANGED present
<1> DEFINE x == sweep[w]
<1>1. /\ PlaceStands(w) /\ ChoiceStands(w) /\ ReportStands(w) /\ Retention!TypeOK
      /\ x \in Retention!Execution /\ disturbed \in BOOLEAN
      /\ clock \in Nat /\ clock <= MaxTimeOf.retention /\ present \subseteq SweptRow
      /\ \A r \in present : SessionOf[r] # None => SessionOf[r] \in present
      /\ sweep \in [Sweeper -> Retention!Execution]
  BY SweepAssumption DEF SweepInv, Retention!TypeOK
<1>2. UNCHANGED <<present, at, late, clock>> /\ disturbed' \in BOOLEAN
  BY <1>1 DEF Retention!Run, Retention!Count, Retention!Select, Retention!DeleteChildren,
              Retention!DeleteRefused, Retention!FailCategory, Retention!Kill
\* What was eligible still is.
<1>3. \A c, n : Retention!Eligible(c, n)' = Retention!Eligible(c, n)
  BY <1>2 DEF Retention!Eligible, Retention!RowsOf, Retention!PastWindow, Retention!Window
<1>4. ASSUME NEW cats \in Selections, NEW mode \in {"dry-run", "apply"},
             Retention!Run(w, cats, mode)
      PROVE  SweepInv'
  <2> DEFINE e == [Retention!Idle EXCEPT !.step = "select", !.mode = mode, !.now = clock, !.left = cats]
  <2>1. sweep' = [sweep EXCEPT ![w] = e]
    BY <1>4 DEF Retention!Run
  <2>2. /\ Retention!Idle \in Retention!Execution
        /\ Retention!Idle.batches = 0 /\ Retention!Idle.chosen = {} /\ Retention!Idle.tokens = {}
        /\ \A c \in Retention!Category : Retention!Idle.result[c] = "none"
    <3>1. Retention!Idle \in Retention!Execution
      BY SweepAssumption DEF Retention!Idle, Retention!Execution, Retention!Outcome
    <3>2. /\ Retention!Idle.batches = 0 /\ Retention!Idle.chosen = {}
            /\ Retention!Idle.tokens = {}
          /\ \A c \in Retention!Category : Retention!Idle.result[c] = "none"
      BY DEF Retention!Idle
    <3> QED
      BY <3>1, <3>2
  <2>3. cats \in SUBSET Retention!Category /\ cats # {} /\ clock \in 0 .. MaxTimeOf.retention
    <3>1. cats \in SUBSET Retention!Category /\ cats # {}
      BY SweepAssumption
    <3> QED
      BY <1>1, <3>1, SweepAssumption
  <2>4. e \in Retention!Execution
    BY <2>2, <2>3 DEF Retention!Execution
  <2>5. /\ e.step = "select" /\ e.left = cats /\ e.now = clock /\ e.batches = 0 /\ e.chosen = {}
        /\ e.tokens = {} /\ \A c \in Retention!Category : e.result[c] = "none"
    BY <2>2 DEF Retention!Execution
  <2> HIDE DEF e
  <2>6. sweep'[w] = e
    BY <1>1, <2>1
  <2>7. PlaceStands(w)'
    <3>1. "sessions" \in Retention!Category
      BY Categories
    <3> QED
      BY <1>1, <1>2, <2>3, <2>5, <2>6, <3>1, SweepAssumption DEF PlaceStands
  <2>8. ChoiceStands(w)' /\ ReportStands(w)'
    BY <2>5, <2>6 DEF ChoiceStands, ReportStands
  <2> QED
    BY <1>1, <1>2, <2>1, <2>4, <2>7, <2>8, SweepMove
<1>5. CASE Retention!Kill(w)
  <2>1. sweep' = [sweep EXCEPT ![w] = Retention!Idle] /\ sweep'[w] = Retention!Idle
    BY <1>1, <1>5 DEF Retention!Kill
  <2>2. Retention!Idle \in Retention!Execution
    BY SweepAssumption DEF Retention!Idle, Retention!Execution, Retention!Outcome
  <2>3. PlaceStands(w)' /\ ChoiceStands(w)' /\ ReportStands(w)'
    BY <1>1, <1>2, <2>1, Categories DEF PlaceStands, ChoiceStands, ReportStands, Retention!Idle
  <2> QED
    BY <1>1, <1>2, <2>1, <2>2, <2>3, SweepMove
<1>6. ASSUME NEW o \in {"counted", "failed"}, x.step # "idle", Retention!NextCategory(w, o)
      PROVE  SweepInv'
  BY <1>1, <1>2, <1>6, CategoryEnds DEF Retention!Outcome
<1>7. CASE Retention!Count(w) \/ Retention!DeleteRefused(w) \/ Retention!FailCategory(w)
  BY <1>6, <1>7 DEF Retention!Count, Retention!DeleteRefused, Retention!FailCategory
<1>8. CASE Retention!Select(w)
  <2> DEFINE rows_ == Retention!Eligible(At(w), x.now)
  <2>1. PICK b \in Retention!Batches(rows_) :
          sweep' = [sweep EXCEPT ![w] = [x EXCEPT !.chosen = b,
                       !.step = IF At(w) = "sessions" /\ b # {} THEN "children" ELSE "delete"]]
    BY <1>8 DEF Retention!Select, At
  <2> DEFINE e == [x EXCEPT !.chosen = b,
                       !.step = IF At(w) = "sessions" /\ b # {} THEN "children" ELSE "delete"]
  <2>2. /\ b \subseteq rows_ /\ rows_ \subseteq SweptRow /\ x.step = "select"
        /\ b # rows_ => Cardinality(b) = BatchSize
    BY <1>8 DEF Retention!Batches, Retention!Eligible, Retention!RowsOf, Retention!Select,
                Retention!Cardinality, Cardinality
  <2>3. e \in Retention!Execution
    BY <1>1, <2>2 DEF Retention!Execution
  <2>4. /\ e.chosen = b /\ e.left = x.left /\ e.now = x.now /\ e.batches = x.batches
        /\ e.tokens = x.tokens /\ e.result = x.result
        /\ e.step = IF At(w) = "sessions" /\ b # {} THEN "children" ELSE "delete"
    BY <1>1 DEF Retention!Execution
  <2> HIDE DEF e
  <2>5. sweep'[w] = e /\ At(w)' = At(w)
    BY <1>1, <2>1, <2>4 DEF At, e
  <2>6. PlaceStands(w)'
    BY <1>1, <1>2, <2>2, <2>4, <2>5 DEF PlaceStands
  <2>7. ReportStands(w)'
    BY <1>1, <1>3, <2>4, <2>5 DEF ReportStands
  <2>8. ChoiceStands(w)'
    <3>1. \A r \in b : /\ r \in present /\ TableOf[r] = At(w) /\ Retention!PastWindow(r, x.now)
                       /\ \A q \in present : SessionOf[q] = r => Retention!PastWindow(q, x.now)
      BY <2>2 DEF Retention!Eligible, Retention!RowsOf
    <3>2. e.tokens = {}
      BY <1>1, <2>2, <2>4 DEF PlaceStands
    <3>3. Cardinality(b) < BatchSize => rows_ \subseteq b
      BY <2>2, SweepAssumption
    <3>4. Aged(w)' = rows_
      <4>1. PICK c, n : c = At(w) /\ n = x.now
        OBVIOUS
      <4>2. c = At(w)' /\ n = sweep'[w].now
        BY <2>4, <2>5, <4>1
      <4> QED
        BY <1>3, <4>1, <4>2 DEF Aged
    <3> QED
      BY <1>2, <2>4, <2>5, <3>1, <3>2, <3>3, <3>4
      DEF ChoiceStands, Retention!PastWindow, Retention!Window
  <2> QED
    BY <1>1, <1>2, <2>1, <2>3, <2>6, <2>7, <2>8, SweepMove DEF e
<1>9. CASE Retention!DeleteChildren(w)
  <2> DEFINE tk == {r \in Retention!RowsOf("refresh_tokens") \cap present : SessionOf[r] \in x.chosen}
             e  == [x EXCEPT !.step = "parents", !.tokens = tk]
  <2>1. sweep' = [sweep EXCEPT ![w] = e] /\ x.step = "children"
    BY <1>9 DEF Retention!DeleteChildren
  <2>2. e \in Retention!Execution
    BY <1>1 DEF Retention!Execution
  <2>3. /\ e.chosen = x.chosen /\ e.left = x.left /\ e.now = x.now /\ e.batches = x.batches
        /\ e.tokens = tk /\ e.result = x.result /\ e.step = "parents"
    BY <1>1 DEF Retention!Execution
  <2>4. \A r \in tk : r \in present /\ TableOf[r] = "refresh_tokens" /\ SessionOf[r] \in x.chosen
    BY DEF Retention!RowsOf
  <2> HIDE DEF e, tk
  <2>5. sweep'[w] = e /\ At(w)' = At(w)
    BY <1>1, <2>1, <2>3 DEF At
  <2>6. PlaceStands(w)'
    BY <1>1, <1>2, <2>1, <2>3, <2>5 DEF PlaceStands
  <2>7. ReportStands(w)'
    BY <1>1, <1>3, <2>3, <2>5 DEF ReportStands
  <2>8. ChoiceStands(w)'
    <3>1. At(w) = "sessions"
      BY <1>1, <2>1 DEF PlaceStands
    <3>2. \A q \in tk : Retention!PastWindow(q, x.now)
      BY <1>1, <2>4, <3>1 DEF ChoiceStands
    <3>3. Cardinality(x.chosen) < BatchSize => Aged(w) \subseteq x.chosen
      BY <1>1, <2>1 DEF ChoiceStands
    <3>4. Aged(w)' = Aged(w)
      <4>1. PICK c, n : c = At(w) /\ n = x.now
        OBVIOUS
      <4>2. c = At(w)' /\ n = sweep'[w].now
        BY <2>3, <2>5, <4>1
      <4> QED
        BY <1>3, <4>1, <4>2 DEF Aged
    <3> QED
      BY <1>1, <1>2, <2>3, <2>4, <2>5, <3>2, <3>3, <3>4
      DEF ChoiceStands, Retention!PastWindow, Retention!Window
  <2> QED
    BY <1>1, <1>2, <2>1, <2>2, <2>6, <2>7, <2>8, SweepMove
<1> QED
  BY <1>2, <1>4, <1>5, <1>7, <1>8, <1>9

\* What the application and the clock do.
LEMMA SweepWorld ==
  ASSUME SweepInv,
         \/ Retention!Tick
         \/ \E r \in SweptRow : \/ Retention!Login(r) \/ Retention!Rotate(r)
                                \/ Retention!PresentDeadToken(r)
                                \/ \E s \in late : Retention!RecordEvent(s, r)
  PROVE  SweepInv' /\ present \subseteq present'
<1>1. /\ Retention!TypeOK /\ clock \in Nat /\ clock <= MaxTimeOf.retention /\ SweepStart <= clock
      /\ present \subseteq SweptRow /\ late \subseteq Retention!RowsOf("sessions")
      /\ at \in [SweptRow -> 0 .. MaxTimeOf.retention + Lifetime]
      /\ sweep \in [Sweeper -> Retention!Execution] /\ disturbed \in BOOLEAN
      /\ \A r \in present : SessionOf[r] # None => SessionOf[r] \in present
  BY SweepAssumption DEF SweepInv, Retention!TypeOK
<1>2. CASE Retention!Tick
  <2>1. UNCHANGED <<present, at, late, sweep, disturbed>> /\ clock' = clock + 1
        /\ clock' \in SweepStart .. MaxTimeOf.retention
    BY <1>1, <1>2, SweepAssumption DEF Retention!Tick
  <2>2. Retention!TypeOK'
    BY <1>1, <2>1 DEF Retention!TypeOK, Retention!RowsOf
  <2> QED
    BY <1>1, <2>1, <2>2, SweepGrows
<1>3. ASSUME NEW r \in SweptRow, r \notin present,
        NEW t \in 0 .. MaxTimeOf.retention + Lifetime, clock <= t,
             Retention!Insert(r, t), UNCHANGED <<sweep, clock>>, late' \subseteq late,
             disturbed' \in BOOLEAN, SessionOf[r] # None => SessionOf[r] \in present,
             TableOf[r] = "refresh_tokens" => at[SessionOf[r]] > clock /\ SessionOf[r] \in present
      PROVE  SweepInv' /\ present \subseteq present'
  <2>1. present' = present \cup {r} /\ at' = [at EXCEPT ![r] = t]
    BY <1>3 DEF Retention!Insert
  <2>2. Retention!TypeOK'
    <3>1. at' \in [SweptRow -> 0 .. MaxTimeOf.retention + Lifetime]
      BY <1>1, <1>3, <2>1
    <3>2. \A q \in present' : SessionOf[q] # None => SessionOf[q] \in present'
      BY <1>1, <1>3, <2>1
    <3> QED
      BY <1>1, <1>3, <2>1, <3>1, <3>2 DEF Retention!TypeOK, Retention!RowsOf
  <2>3. /\ \A q \in present : at'[q] = at[q]
        /\ \A q \in present' \ present : q = r /\ at'[q] >= clock
    BY <1>1, <1>3, <2>1
  <2>4. clock <= clock' /\ present \subseteq present'
    BY <1>1, <1>3, <2>1
  <2> QED
    BY <1>1, <1>3, <2>2, <2>3, <2>4, SweepGrows
<1>4. ASSUME NEW r \in SweptRow, UNCHANGED <<present, at, sweep, clock>>, disturbed' \in BOOLEAN,
             late' \subseteq Retention!RowsOf("sessions")
      PROVE  SweepInv' /\ present \subseteq present'
  <2>1. Retention!TypeOK'
    BY <1>1, <1>4 DEF Retention!TypeOK, Retention!RowsOf
  <2> QED
    BY <1>1, <1>4, <2>1, SweepGrows
<1>5. clock \in 0 .. MaxTimeOf.retention + Lifetime
      /\ clock + Lifetime \in 0 .. MaxTimeOf.retention + Lifetime /\ clock <= clock + Lifetime
  BY <1>1, SweepAssumption
<1>6. ASSUME NEW r \in SweptRow, Retention!Login(r) PROVE SweepInv' /\ present \subseteq present'
  <2>1. /\ r \notin present /\ TableOf[r] = "sessions" /\ Retention!Insert(r, clock + Lifetime)
        /\ UNCHANGED <<late, sweep, clock, disturbed>>
    BY <1>6 DEF Retention!Login
  <2>2. SessionOf[r] = None
    BY <2>1, SweepAssumption
  <2> QED
    BY <1>1, <1>3, <1>5, <2>1, <2>2
<1>7. ASSUME NEW r \in SweptRow, Retention!Rotate(r) PROVE SweepInv' /\ present \subseteq present'
  <2>1. /\ r \notin present /\ SessionOf[r] \in present /\ at[SessionOf[r]] > clock
        /\ Retention!Insert(r, clock + Lifetime) /\ UNCHANGED <<late, sweep, clock, disturbed>>
    BY <1>7 DEF Retention!Rotate
  <2> QED
    BY <1>1, <1>3, <1>5, <2>1
<1>8. ASSUME NEW r \in SweptRow, Retention!PresentDeadToken(r)
      PROVE  SweepInv' /\ present \subseteq present'
  <2>1. /\ r \in present /\ TableOf[r] = "refresh_tokens" /\ late' = late \cup {SessionOf[r]}
        /\ UNCHANGED <<present, at, sweep, clock, disturbed>>
    BY <1>8 DEF Retention!PresentDeadToken
  <2>2. SessionOf[r] \in Retention!RowsOf("sessions")
    BY <2>1, SweepAssumption DEF Retention!RowsOf
  <2> QED
    BY <1>1, <1>4, <2>1, <2>2
<1>9. ASSUME NEW r \in SweptRow, NEW s \in late, Retention!RecordEvent(s, r)
      PROVE  SweepInv' /\ present \subseteq present'
  <2>1. /\ r \notin present /\ TableOf[r] = "security_events" /\ SessionOf[r] = s
        /\ late' = late \ {s} /\ disturbed' = TRUE /\ UNCHANGED <<sweep, clock>>
        /\ IF s \in present THEN Retention!Insert(r, clock) ELSE UNCHANGED <<present, at>>
    BY <1>9 DEF Retention!RecordEvent
  <2>2. CASE s \in present
    BY <1>1, <1>3, <1>5, <2>1, <2>2
  <2>3. CASE s \notin present
    BY <1>1, <1>4, <2>1, <2>3
  <2> QED
    BY <2>2, <2>3
<1> QED
  BY <1>2, <1>6, <1>7, <1>8, <1>9

\* Every step preserves the invariant, and deletes only what is old enough.
LEMMA SweepStays ==
  SweepInv /\ Retention!Next => SweepInv' /\ Retention!DeletesOnlyAged
<1> SUFFICES ASSUME SweepInv, Retention!Next PROVE SweepInv' /\ Retention!DeletesOnlyAged
  OBVIOUS
<1>1. CASE \/ Retention!Tick
           \/ \E r \in SweptRow : \/ Retention!Login(r) \/ Retention!Rotate(r)
                                  \/ Retention!PresentDeadToken(r)
                                  \/ \E s \in late : Retention!RecordEvent(s, r)
  BY <1>1, SweepWorld DEF Retention!DeletesOnlyAged
<1>2. ASSUME NEW w \in Sweeper, Retention!DeleteBatch(w) \/ Retention!DeleteParents(w)
      PROVE  SweepInv' /\ Retention!DeletesOnlyAged
  BY <1>2, SweepDeletes DEF Retention!DeletesOnlyAged
<1>3. ASSUME NEW w \in Sweeper,
             \/ \E cats \in Selections, mode \in {"dry-run", "apply"} :
                 Retention!Run(w, cats, mode)
             \/ Retention!Count(w) \/ Retention!Select(w) \/ Retention!DeleteChildren(w)
             \/ Retention!DeleteRefused(w) \/ Retention!FailCategory(w) \/ Retention!Kill(w)
      PROVE  SweepInv' /\ Retention!DeletesOnlyAged
  BY <1>3, SweepSteps DEF Retention!DeletesOnlyAged
<1> QED
  BY <1>1, <1>2, <1>3, Zenon DEF Retention!Next

\* The invariant is about the variables of the sweep.
LEMMA SweepStutter == SweepInv /\ UNCHANGED Retention!vars => SweepInv'
<1> SUFFICES ASSUME SweepInv, UNCHANGED Retention!vars PROVE SweepInv'
  OBVIOUS
<1>1. UNCHANGED <<present, at, late, sweep, clock, disturbed>>
  BY DEF Retention!vars
<1>2. Retention!TypeOK'
  BY <1>1 DEF SweepInv, Retention!TypeOK, Retention!RowsOf
<1>3. clock \in Nat
  BY SweepAssumption DEF SweepInv, Retention!TypeOK
<1> QED
  BY <1>1, <1>2, <1>3, SweepGrows

\* A sweep deletes nothing younger than its retention period, and a category that is
\* reported clean left nothing that was older when the sweep started (retention.ts,
\* retention-policy.ts), for any rows, windows, batch size and clock, one sweep
\* at a time, while the application goes on writing.
THEOREM SweepsExact == Spec => SweepsAreExact
<1> DEFINE Inv == component = "retention" => SweepInv
           Clean == component = "retention" => Retention!CleanMeansClean
           Aged_ == component = "retention" => Retention!DeletesOnlyAged
<1>1. Init => Inv
  BY SweepInit, Zenon DEF Init
<1>2. Inv /\ [Next]_vars => Inv' /\ [Aged_]_vars
  <2> SUFFICES ASSUME Inv, [Next]_vars, component = "retention"
               PROVE  SweepInv' /\ (Retention!DeletesOnlyAged \/ UNCHANGED vars)
    BY DEF Next, vars
  <2>1. CASE Next
    BY <2>1, SweepStays DEF Next
  <2>2. CASE UNCHANGED vars
    BY <2>2, SweepStutter DEF vars, Retention!vars
  <2> QED
    BY <2>1, <2>2
<1>3. Inv => Clean
  BY DEF SweepInv, ReportStands, Retention!CleanMeansClean
<1> QED
  BY <1>1, <1>2, <1>3, PTL DEF Spec, SweepsAreExact

------------------------------------------------------------------------------
(* Key rotation                                                            *)

\* The secrets the environment holds for a variable, in either form.
Sources(n) == {env[n][f] : f \in KeyRotation!Form} \ {None}
Signing    == Sources("JWT_SECRET")
Accepting  == Sources("JWT_PREVIOUS_SECRET")

\* The secret in force has not been withdrawn, nor has its predecessor, and they
\* differ; what was started since the last edit has read exactly them.
WithdrawnStands ==
    /\ \A k : Signing = {k} => k \notin retired /\ k \notin Accepting
    /\ Accepting \cap retired = {}
    /\ stage \in {"steady", "closing"} => Accepting = {}
    /\ stage = "steady" => fresh = Process
    /\ \A p \in fresh : Signing # {} /\ (\A k, l \in Signing : k = l)
    /\ \A p \in fresh : KeyRotation!Running(p) =>
          Signing = {keys[p].current} /\ Accepting = {keys[p].previous} \ {None}

\* Whose tokens are about, while no secret was replaced at once.
TokensStand ==
    /\ \A t \in tokens : now <= t.exp /\ t.exp <= now + Ttl
    /\ stage \in {"steady", "closing"} =>
         \E k : /\ Signing = {k} /\ \A t \in tokens : t.key = k
                /\ \A p \in Process : KeyRotation!Running(p) => keys[p].current = k
    /\ stage = "swap" =>
         \E k : /\ Accepting = {k} /\ \A t \in tokens : t.key \in Signing \cup {k}
                /\ \A p \in Process \ fresh :
                     /\ \A t \in tokens : t.key = k
                     /\ KeyRotation!Running(p) => keys[p].current = k
    /\ stage = "window" =>
         /\ fresh = Process
         /\ \E k : /\ Accepting = {k}
                   /\ \A t \in tokens : \/ t.key \in Signing
                                        \/ t.key = k /\ t.exp <= since + Ttl

RotationInv ==
    /\ KeyRotation!TypeOK /\ WithdrawnStands
    /\ ~emergency /\ Process # {} => TokensStand

\* A pair is finite: the two forms a secret is configured in can be counted.
LEMMA PairFinite == \A a, b : IsFiniteSet({a, b})
<1> SUFFICES ASSUME NEW a, NEW b PROVE IsFiniteSet({a, b})
  OBVIOUS
<1>1. IsFiniteSet({a} \cup {b})
  BY FS_Singleton, FS_Union
<1>2. {a, b} = {a} \cup {b}
  OBVIOUS
<1> QED
  BY <1>1, <1>2

\* What is read from a variable is all it holds.
LEMMA ResolvedStands ==
  ASSUME KeyRotation!TypeOK, NEW n \in KeyRotation!Name, KeyRotation!Resolved(n).ok
  PROVE  /\ KeyRotation!Resolved(n).value \in SigningSecret \cup {None}
         /\ Sources(n) = {KeyRotation!Resolved(n).value} \ {None}
<1> DEFINE C == KeyRotation!Configured(n)
<1>0. /\ KeyRotation!Form = {"value", "file"} /\ C = {f \in KeyRotation!Form : env[n][f] # None}
      /\ env[n] \in [KeyRotation!Form -> SigningSecret \cup {None}]
  BY DEF KeyRotation!Configured, KeyRotation!Form, KeyRotation!TypeOK
<1>1. /\ C \subseteq {"value", "file"} /\ KeyRotation!Form = {"value", "file"}
      /\ \A f \in KeyRotation!Form : env[n][f] \in SigningSecret \cup {None}
      /\ \A f \in KeyRotation!Form : f \in C <=> env[n][f] # None
  <2> HIDE DEF C
  <2> QED
    BY <1>0
<1>2. IsFiniteSet({"value", "file"})
  BY PairFinite
<1>3. IsFiniteSet(C)
  BY <1>1, <1>2, FS_Subset
<1>4. CASE C = {}
  <2>1. KeyRotation!Resolved(n) = [ok |-> TRUE, value |-> None]
    <3>1. Cardinality(C) = 0
      BY <1>4, FS_EmptySet
    <3> QED
      BY <1>4, <3>1 DEF KeyRotation!Resolved, KeyRotation!Cardinality, Cardinality
  <2>2. Sources(n) = {}
    <3>1. Sources(n) = {env[n]["value"], env[n]["file"]} \ {None}
      BY <1>0 DEF Sources
    <3> HIDE DEF C
    <3> QED
      BY <1>1, <1>4, <3>1
  <2> QED
    BY <2>1, <2>2
<1>5. CASE C # {} /\ Cardinality(C) = 1
  <2>1. PICK f : C = {f}
    BY <1>3, <1>5, FS_Singleton
  <2>2. KeyRotation!Resolved(n) = [ok |-> TRUE, value |-> env[n][CHOOSE g \in C : TRUE]]
    BY <1>5 DEF KeyRotation!Resolved, KeyRotation!Cardinality, Cardinality
  <2>3. (CHOOSE g \in C : TRUE) = f
    BY <2>1
  <2>4. KeyRotation!Resolved(n).value = env[n][f] /\ f \in KeyRotation!Form
    BY <1>1, <2>1, <2>2, <2>3
  <2>5. Sources(n) = {env[n][f]} /\ env[n][f] # None /\ env[n][f] \in SigningSecret
    BY <1>1, <2>1 DEF Sources
  <2> QED
    BY <2>4, <2>5
<1>6. CASE C # {} /\ Cardinality(C) # 1
  BY <1>6 DEF KeyRotation!Resolved, KeyRotation!Cardinality, Cardinality
<1> QED
  BY <1>4, <1>5, <1>6

\* The processes that signed before the rotation began satisfy the invariant.
LEMMA RotationInit == KeyRotation!Init => RotationInv
<1> SUFFICES ASSUME KeyRotation!Init PROVE RotationInv
  OBVIOUS
<1> USE RotationAssumption
<1>1. /\ env \in [KeyRotation!Name -> [KeyRotation!Form -> SigningSecret \cup {None}]]
      /\ env["JWT_SECRET"] = [f \in KeyRotation!Form |-> IF f = "value" THEN FirstKey ELSE None]
      /\ env["JWT_PREVIOUS_SECRET"] = [f \in KeyRotation!Form |-> None]
  BY DEF KeyRotation!Init, KeyRotation!Name, KeyRotation!Form, KeyRotation!Unset
<1>2. Signing = {FirstKey} /\ Accepting = {}
  BY <1>1 DEF Signing, Accepting, Sources, KeyRotation!Form
<1>3. keys \in [Process -> KeyRotation!Loaded \cup {None}]
  <2>1. [current |-> FirstKey, previous |-> None] \in KeyRotation!Loaded
    BY DEF KeyRotation!Loaded
  <2> QED
    BY <2>1 DEF KeyRotation!Init
<1>4. KeyRotation!TypeOK
  <2>1. now \in 0..MaxTimeOf.rotation /\ since \in 0..MaxTimeOf.rotation
    BY DEF KeyRotation!Init
  <2>3. emergency \in BOOLEAN
    BY DEF KeyRotation!Init
  <2>2. /\ fresh \subseteq Process /\ retired \subseteq SigningSecret
          /\ tokens \subseteq KeyRotation!Token
        /\ stage \in {"steady", "swap", "window", "closing"}
    BY DEF KeyRotation!Init
  <2> QED
    BY <1>1, <1>3, <2>1, <2>2, <2>3 DEF KeyRotation!TypeOK
<1>5. \A p \in Process : keys[p].current = FirstKey /\ keys[p].previous = None
  BY DEF KeyRotation!Init
<1>6. WithdrawnStands
  BY <1>2, <1>5 DEF WithdrawnStands, KeyRotation!Init
<1>7. TokensStand
  BY <1>2, <1>5 DEF TokensStand, KeyRotation!Init
<1> QED
  BY <1>4, <1>6, <1>7 DEF RotationInv

\* What a step that leaves the environment alone leaves alone.
LEMMA SourcesStay ==
  ASSUME UNCHANGED env
  PROVE  Signing' = Signing /\ Accepting' = Accepting
BY DEF Signing, Accepting, Sources

\* A process that starts (getConfig) reads all the environment holds.
LEMMA RotationStart ==
  ASSUME RotationInv, NEW p \in Process, KeyRotation!Start(p)
  PROVE  RotationInv'
<1> USE RotationAssumption
<1> DEFINE c == KeyRotation!Resolved("JWT_SECRET").value
           b == KeyRotation!Resolved("JWT_PREVIOUS_SECRET").value
<1>1. /\ KeyRotation!TypeOK /\ WithdrawnStands
      /\ UNCHANGED <<now, env, stage, since, retired, emergency, tokens>>
      /\ fresh' = fresh \cup {p}
      /\ keys' = [keys EXCEPT ![p] = [current |-> c, previous |-> b]]
  BY DEF RotationInv, KeyRotation!Start
<1>2. /\ Signing = {c} /\ c \in SigningSecret
      /\ Accepting = {b} \ {None} /\ b \in SigningSecret \cup {None} /\ b # c
  <2>1. /\ KeyRotation!Resolved("JWT_SECRET").ok /\ KeyRotation!Resolved("JWT_PREVIOUS_SECRET").ok
        /\ c \in SigningSecret /\ b # c
    BY DEF KeyRotation!Start, KeyRotation!Acceptable
  <2>2. "JWT_SECRET" \in KeyRotation!Name /\ "JWT_PREVIOUS_SECRET" \in KeyRotation!Name
    BY DEF KeyRotation!Name
  <2>3. Sources("JWT_SECRET") = {c} \ {None}
    BY <1>1, <2>1, <2>2, ResolvedStands
  <2>4. Sources("JWT_PREVIOUS_SECRET") = {b} \ {None} /\ b \in SigningSecret \cup {None}
    BY <1>1, <2>1, <2>2, ResolvedStands
  <2> HIDE DEF c, b
  <2> QED
    BY <2>1, <2>3, <2>4 DEF Signing, Accepting
<1>3. Signing' = Signing /\ Accepting' = Accepting
  BY <1>1, SourcesStay
<1> HIDE DEF c, b
<1>4. KeyRotation!TypeOK'
  <2>1. [current |-> c, previous |-> b] \in KeyRotation!Loaded
    BY <1>2 DEF KeyRotation!Loaded
  <2>2. keys' \in [Process -> KeyRotation!Loaded \cup {None}]
    BY <1>1, <2>1 DEF KeyRotation!TypeOK
  <2> QED
    BY <1>1, <2>2 DEF KeyRotation!TypeOK, KeyRotation!Loaded, KeyRotation!Token
<1>5. /\ keys'[p] = [current |-> c, previous |-> b]
      /\ \A q \in Process : q # p => keys'[q] = keys[q]
  BY <1>1 DEF KeyRotation!TypeOK
<1>6. WithdrawnStands'
  <2>1. /\ Signing' # {} /\ \A k, l \in Signing' : k = l
        /\ \A k : Signing' = {k} => k \notin retired' /\ k \notin Accepting'
        /\ Accepting' \cap retired' = {}
    BY <1>1, <1>2, <1>3 DEF WithdrawnStands
  <2>2. /\ stage' \in {"steady", "closing"} => Accepting' = {}
        /\ stage' = "steady" => fresh' = Process
    BY <1>1, <1>3 DEF WithdrawnStands
  <2>3. ASSUME NEW q \in fresh', KeyRotation!Running(q)'
        PROVE  Signing' = {keys'[q].current} /\ Accepting' = {keys'[q].previous} \ {None}
    <3>1. CASE q = p
      BY <1>2, <1>3, <1>5, <3>1
    <3>2. CASE q # p
      <4>1. q \in fresh /\ q \in Process /\ keys'[q] = keys[q]
        BY <1>1, <1>5, <2>3, <3>2 DEF KeyRotation!TypeOK
      <4> QED
        BY <1>1, <1>3, <2>3, <4>1 DEF WithdrawnStands, KeyRotation!Running
    <3> QED
      BY <3>1, <3>2
  <2> QED
    BY <2>1, <2>2, <2>3 DEF WithdrawnStands
<1>7. ASSUME TokensStand PROVE TokensStand'
  <2>1. ASSUME stage \in {"steady", "closing"}
        PROVE  \E k : /\ Signing = {k} /\ \A t \in tokens : t.key = k
                      /\ \A q \in Process : KeyRotation!Running(q)' => keys'[q].current = k
    <3>1. PICK k : /\ Signing = {k} /\ \A t \in tokens : t.key = k
                   /\ \A q \in Process : KeyRotation!Running(q) => keys[q].current = k
      BY <1>7, <2>1 DEF TokensStand
    <3>2. c = k
      BY <1>2, <3>1
    <3> QED
      BY <1>5, <3>1, <3>2 DEF KeyRotation!Running
  <2>2. ASSUME stage = "swap"
        PROVE  \E k : /\ Accepting = {k} /\ \A t \in tokens : t.key \in Signing \cup {k}
                      /\ \A q \in Process \ fresh' :
                           /\ \A t \in tokens : t.key = k
                           /\ KeyRotation!Running(q)' => keys'[q].current = k
    <3>1. PICK k : /\ Accepting = {k} /\ \A t \in tokens : t.key \in Signing \cup {k}
                   /\ \A q \in Process \ fresh :
                        /\ \A t \in tokens : t.key = k
                        /\ KeyRotation!Running(q) => keys[q].current = k
      BY <1>7, <2>2 DEF TokensStand
    <3>2. ASSUME NEW q \in Process \ fresh'
          PROVE  /\ \A t \in tokens : t.key = k
                 /\ KeyRotation!Running(q)' => keys'[q].current = k
      <4>1. q \in Process \ fresh /\ q # p
        BY <1>1
      <4>2. keys'[q] = keys[q]
        BY <1>1, <1>5, <4>1
      <4>3. KeyRotation!Running(q)' => KeyRotation!Running(q)
        BY <4>2 DEF KeyRotation!Running
      <4> QED
        BY <3>1, <4>1, <4>2, <4>3
    <3> QED
      BY <3>1, <3>2
  <2>3. stage = "window" => fresh' = Process
    BY <1>1, <1>7 DEF TokensStand
  <2> QED
    BY <1>1, <1>3, <1>7, <2>1, <2>2, <2>3 DEF TokensStand, KeyRotation!Running
<1> QED
  BY <1>1, <1>4, <1>6, <1>7 DEF RotationInv

\* A process that stops accepts and signs nothing.
LEMMA RotationStop ==
  ASSUME RotationInv, NEW p \in Process, KeyRotation!Stop(p)
  PROVE  RotationInv'
<1>1. /\ KeyRotation!TypeOK /\ WithdrawnStands
      /\ UNCHANGED <<now, env, fresh, stage, since, retired, emergency, tokens>>
      /\ keys' = [keys EXCEPT ![p] = None]
  BY DEF RotationInv, KeyRotation!Stop
<1>2. Signing' = Signing /\ Accepting' = Accepting
  BY <1>1, SourcesStay
<1>3. keys' \in [Process -> KeyRotation!Loaded \cup {None}]
  BY <1>1 DEF KeyRotation!TypeOK
<1>4. KeyRotation!TypeOK'
  BY <1>1, <1>3 DEF KeyRotation!TypeOK, KeyRotation!Loaded, KeyRotation!Token
<1>5. /\ keys'[p] = None
      /\ \A q \in Process : q # p => keys'[q] = keys[q]
  BY <1>1 DEF KeyRotation!TypeOK
<1>6. WithdrawnStands'
  BY <1>1, <1>2, <1>5 DEF WithdrawnStands, KeyRotation!Running, KeyRotation!TypeOK
<1>7. TokensStand => TokensStand'
  BY <1>1, <1>2, <1>5 DEF TokensStand, KeyRotation!Running, KeyRotation!TypeOK
<1> QED
  BY <1>1, <1>4, <1>6, <1>7 DEF RotationInv

\* signAccessToken: before the processes are on the new secret, the old one signs.
LEMMA RotationSign ==
  ASSUME RotationInv, NEW p \in Process, KeyRotation!Sign(p)
  PROVE  RotationInv'
<1> USE RotationAssumption
<1> DEFINE k == keys[p].current
           n == [key |-> k, exp |-> now + Ttl]
<1>1. /\ KeyRotation!TypeOK /\ WithdrawnStands /\ KeyRotation!Running(p)
      /\ UNCHANGED <<now, env, keys, fresh, stage, since, retired, emergency>>
      /\ tokens' = tokens \cup {n}
  BY DEF RotationInv, KeyRotation!Sign
<1>2. Signing' = Signing /\ Accepting' = Accepting
  BY <1>1, SourcesStay
<1>3. k \in SigningSecret
  BY <1>1 DEF KeyRotation!TypeOK, KeyRotation!Running, KeyRotation!Loaded
<1>4. now \in Nat /\ now + Ttl \in 0..MaxTimeOf.rotation + Ttl /\ now <= now + Ttl
  BY <1>1 DEF KeyRotation!TypeOK
<1>5. n \in KeyRotation!Token /\ n.key = k /\ n.exp = now + Ttl
  BY <1>3, <1>4 DEF KeyRotation!Token
<1> HIDE DEF n
<1>6. KeyRotation!TypeOK'
  <2>1. tokens' \subseteq KeyRotation!Token
    BY <1>1, <1>5 DEF KeyRotation!TypeOK
  <2> QED
    BY <1>1, <2>1 DEF KeyRotation!TypeOK, KeyRotation!Loaded, KeyRotation!Token
<1>7. WithdrawnStands'
  BY <1>1, <1>2 DEF WithdrawnStands, KeyRotation!Running
<1>8. ASSUME TokensStand PROVE TokensStand'
  <2>1. \A t \in tokens' : now' <= t.exp /\ t.exp <= now' + Ttl
    BY <1>1, <1>4, <1>5, <1>8 DEF TokensStand
  <2>2. ASSUME stage \in {"steady", "closing"}
        PROVE  \E l : /\ Signing' = {l} /\ \A t \in tokens' : t.key = l
                      /\ \A q \in Process : KeyRotation!Running(q)' => keys'[q].current = l
    BY <1>1, <1>2, <1>5, <1>8, <2>2 DEF TokensStand, KeyRotation!Running
  <2>3. ASSUME stage = "swap"
        PROVE  \E l : /\ Accepting' = {l} /\ \A t \in tokens' : t.key \in Signing' \cup {l}
                      /\ \A q \in Process \ fresh' :
                           /\ \A t \in tokens' : t.key = l
                           /\ KeyRotation!Running(q)' => keys'[q].current = l
    <3>1. CASE p \in fresh
      BY <1>1, <1>2, <1>5, <1>8, <2>3, <3>1 DEF TokensStand, WithdrawnStands, KeyRotation!Running
    <3>2. CASE p \notin fresh
      BY <1>1, <1>2, <1>5, <1>8, <2>3, <3>2 DEF TokensStand, KeyRotation!Running
    <3> QED
      BY <3>1, <3>2
  <2>4. ASSUME stage = "window"
        PROVE  /\ fresh' = Process
               /\ \E l : /\ Accepting' = {l}
                         /\ \A t \in tokens' : \/ t.key \in Signing'
                                               \/ t.key = l /\ t.exp <= since' + Ttl
    <3>1. k \in Signing
      BY <1>1, <1>8, <2>4 DEF TokensStand, WithdrawnStands
    <3> QED
      BY <1>1, <1>2, <1>5, <1>8, <2>4, <3>1 DEF TokensStand
  <2> QED
    BY <1>1, <2>1, <2>2, <2>3, <2>4 DEF TokensStand, KeyRotation!Running
<1> QED
  BY <1>1, <1>6, <1>7, <1>8 DEF RotationInv

\* The secrets the operator withdraws are those the environment held.
LEMMA CurrentIsSigning ==
  ASSUME KeyRotation!TypeOK
  PROVE  /\ KeyRotation!Current = Signing /\ Signing \subseteq SigningSecret
         /\ {env["JWT_PREVIOUS_SECRET"][f] : f \in KeyRotation!Form} \ {None} = Accepting
         /\ Accepting \subseteq SigningSecret
         /\ \A k \in KeyRotation!Unused :
              k \in SigningSecret /\ k \notin retired /\ k \notin Signing /\ k \notin Accepting
<1> USE RotationAssumption
<1>1. \A n \in KeyRotation!Name, f \in KeyRotation!Form : env[n][f] \in SigningSecret \cup {None}
  BY DEF KeyRotation!TypeOK
<1>2. "JWT_SECRET" \in KeyRotation!Name /\ "JWT_PREVIOUS_SECRET" \in KeyRotation!Name
  BY DEF KeyRotation!Name
<1>3. KeyRotation!Current = Signing
  BY DEF KeyRotation!Current, KeyRotation!Configured, Signing, Sources
<1>4. Signing \subseteq SigningSecret /\ Accepting \subseteq SigningSecret
  BY <1>1, <1>2 DEF Signing, Accepting, Sources
<1>5. \A k \in KeyRotation!Unused :
        k \in SigningSecret /\ k \notin retired /\ k \notin Signing /\ k \notin Accepting
  BY <1>2 DEF KeyRotation!Unused, Signing, Accepting, Sources
<1> QED
  BY <1>3, <1>4, <1>5 DEF Accepting, Sources

\* Step 2 of the runbook: the old secret is all the environment accepts besides the
\* new one, and all tokens are signed with it.
LEMMA RotationSwap ==
  ASSUME RotationInv, NEW new \in SigningSecret, NEW form \in KeyRotation!Form,
      NEW forgets \in BOOLEAN,
         KeyRotation!Swap(new, form, forgets)
  PROVE  RotationInv'
<1> USE RotationAssumption
<1>1. /\ KeyRotation!TypeOK /\ WithdrawnStands /\ stage = "steady" /\ stage' = "swap"
      /\ since' = now /\ fresh' = {} /\ UNCHANGED <<now, keys, tokens, retired, emergency>>
  BY DEF RotationInv, KeyRotation!Swap, KeyRotation!Edit
<1>2. /\ new \notin retired /\ new \notin Signing /\ new \notin Accepting
      /\ Cardinality(Signing) = 1 /\ KeyRotation!Current = Signing
  BY <1>1, CurrentIsSigning DEF KeyRotation!Swap, KeyRotation!Cardinality, Cardinality
<1>3. PICK k : Signing = {k}
  <2>1. IsFiniteSet(Signing)
    <3>1. IsFiniteSet({env["JWT_SECRET"]["value"], env["JWT_SECRET"]["file"]})
      BY PairFinite
    <3>2. Signing \subseteq {env["JWT_SECRET"]["value"], env["JWT_SECRET"]["file"]}
      BY DEF Signing, Sources, KeyRotation!Form
    <3> QED
      BY <3>1, <3>2, FS_Subset
  <2> QED
    BY <1>2, <2>1, FS_Singleton
<1>4. k \in SigningSecret /\ k \notin retired /\ k # new /\ Accepting = {}
  BY <1>1, <1>2, <1>3, CurrentIsSigning DEF WithdrawnStands
<1>5. (CHOOSE l \in KeyRotation!Current : TRUE) = k
  BY <1>2, <1>3
<1>6. env' = [n \in KeyRotation!Name |->
         KeyRotation!Written(n, IF n = "JWT_SECRET" THEN new ELSE k, form, forgets)]
  BY <1>5 DEF KeyRotation!Swap
<1>7. /\ env'["JWT_SECRET"] = KeyRotation!Written("JWT_SECRET", new, form, forgets)
      /\ env'["JWT_PREVIOUS_SECRET"] = KeyRotation!Written("JWT_PREVIOUS_SECRET", k, form, forgets)
  BY <1>6 DEF KeyRotation!Name
<1>8. new \in Signing' /\ Accepting' = {k}
  <2>1. new \in Signing'
    BY <1>7 DEF Signing, Sources, KeyRotation!Written
  <2>2. \A f \in KeyRotation!Form : env["JWT_PREVIOUS_SECRET"][f] = None
    BY <1>4 DEF Accepting, Sources
  <2>3. \A f \in KeyRotation!Form :
          env'["JWT_PREVIOUS_SECRET"][f] = IF f = form THEN k ELSE None
    BY <1>7, <2>2 DEF KeyRotation!Written
  <2>4. Accepting' = {k}
    BY <1>4, <2>3 DEF Accepting, Sources
  <2> QED
    BY <2>1, <2>4
<1>9. KeyRotation!TypeOK'
  <2>1. \A n \in KeyRotation!Name : env'[n] \in [KeyRotation!Form -> SigningSecret \cup {None}]
    BY <1>1, <1>4, <1>6 DEF KeyRotation!Written, KeyRotation!TypeOK
  <2>2. env' \in [KeyRotation!Name -> [KeyRotation!Form -> SigningSecret \cup {None}]]
    BY <1>6, <2>1
  <2> QED
    BY <1>1, <2>2 DEF KeyRotation!TypeOK, KeyRotation!Loaded, KeyRotation!Token
<1>10. WithdrawnStands'
  BY <1>1, <1>2, <1>4, <1>8 DEF WithdrawnStands
<1>11. TokensStand => TokensStand'
  BY <1>1, <1>3, <1>8 DEF TokensStand, KeyRotation!Running
<1> QED
  BY <1>1, <1>9, <1>10, <1>11 DEF RotationInv

\* An emergency replacement withdraws the leaked secret at once.
LEMMA RotationReplace ==
  ASSUME RotationInv, NEW new \in SigningSecret, NEW form \in KeyRotation!Form,
      NEW forgets \in BOOLEAN,
         KeyRotation!Replace(new, form, forgets)
  PROVE  RotationInv'
<1> USE RotationAssumption
<1>1. /\ KeyRotation!TypeOK /\ WithdrawnStands /\ stage' = "closing" /\ emergency' = TRUE
      /\ since' = now /\ fresh' = {} /\ UNCHANGED <<now, keys, tokens>>
  BY DEF RotationInv, KeyRotation!Replace, KeyRotation!Edit
<1>2. /\ new \notin retired /\ new \notin Signing /\ new \notin Accepting
      /\ retired' = retired \cup Signing \cup Accepting
      /\ Signing \subseteq SigningSecret /\ Accepting \subseteq SigningSecret
  BY <1>1, CurrentIsSigning DEF KeyRotation!Replace
<1>3. env' = [env EXCEPT !["JWT_SECRET"] = KeyRotation!Written("JWT_SECRET", new, form, forgets),
                         !["JWT_PREVIOUS_SECRET"] = KeyRotation!Unset]
  BY DEF KeyRotation!Replace
<1>4. /\ env'["JWT_SECRET"] = KeyRotation!Written("JWT_SECRET", new, form, forgets)
      /\ env'["JWT_PREVIOUS_SECRET"] = KeyRotation!Unset
  BY <1>1, <1>3 DEF KeyRotation!TypeOK, KeyRotation!Name
<1>5. new \in Signing' /\ Accepting' = {}
  BY <1>4 DEF Signing, Accepting, Sources, KeyRotation!Written, KeyRotation!Unset
<1>6. KeyRotation!TypeOK'
  <2>1. /\ KeyRotation!Written("JWT_SECRET", new, form, forgets)
             \in [KeyRotation!Form -> SigningSecret \cup {None}]
        /\ KeyRotation!Unset \in [KeyRotation!Form -> SigningSecret \cup {None}]
    BY <1>1 DEF KeyRotation!Written, KeyRotation!Unset, KeyRotation!TypeOK, KeyRotation!Name
  <2>2. env' \in [KeyRotation!Name -> [KeyRotation!Form -> SigningSecret \cup {None}]]
    BY <1>1, <1>3, <2>1 DEF KeyRotation!TypeOK, KeyRotation!Name
  <2>3. retired' \subseteq SigningSecret
    BY <1>1, <1>2 DEF KeyRotation!TypeOK
  <2>4. emergency' \in BOOLEAN
    BY <1>1
  <2> QED
    BY <1>1, <2>2, <2>3, <2>4 DEF KeyRotation!TypeOK, KeyRotation!Loaded, KeyRotation!Token
<1>7. WithdrawnStands'
  BY <1>1, <1>2, <1>5 DEF WithdrawnStands
<1> QED
  BY <1>1, <1>6, <1>7 DEF RotationInv

\* Once every process has restarted, the window of the old secret is counted from now.
LEMMA RotationRestarted ==
  ASSUME RotationInv, KeyRotation!Restarted
  PROVE  RotationInv'
<1> USE RotationAssumption
<1>1. /\ KeyRotation!TypeOK /\ WithdrawnStands /\ fresh = Process /\ since' = now
      /\ UNCHANGED <<now, env, keys, fresh, retired, emergency, tokens>>
      /\ \/ stage = "swap" /\ stage' = "window"
         \/ stage = "closing" /\ stage' = "steady"
  BY DEF RotationInv, KeyRotation!Restarted
<1>2. Signing' = Signing /\ Accepting' = Accepting
  BY <1>1, SourcesStay
<1>3. KeyRotation!TypeOK'
  BY <1>1 DEF KeyRotation!TypeOK, KeyRotation!Loaded, KeyRotation!Token
<1>4. WithdrawnStands'
  BY <1>1, <1>2 DEF WithdrawnStands, KeyRotation!Running
<1>5. TokensStand => TokensStand'
  BY <1>1, <1>2 DEF TokensStand, KeyRotation!Running
<1> QED
  BY <1>1, <1>3, <1>4, <1>5 DEF RotationInv

\* Steps 5 and 6: the tokens of the old secret have expired.
LEMMA RotationClose ==
  ASSUME RotationInv, KeyRotation!CloseWindow
  PROVE  RotationInv'
<1> USE RotationAssumption
<1>1. /\ KeyRotation!TypeOK /\ WithdrawnStands /\ stage = "window" /\ stage' = "closing"
      /\ now > since + Ttl /\ since' = now /\ fresh' = {}
      /\ UNCHANGED <<now, keys, tokens, emergency>>
      /\ env' = [env EXCEPT !["JWT_PREVIOUS_SECRET"] = KeyRotation!Unset]
  BY DEF RotationInv, KeyRotation!CloseWindow, KeyRotation!Edit
<1>2. retired' = retired \cup Accepting /\ Accepting \subseteq SigningSecret
  BY <1>1, CurrentIsSigning DEF KeyRotation!CloseWindow
<1>3. /\ env'["JWT_SECRET"] = env["JWT_SECRET"]
      /\ env'["JWT_PREVIOUS_SECRET"] = KeyRotation!Unset
  BY <1>1 DEF KeyRotation!TypeOK, KeyRotation!Name
<1>4. Signing' = Signing /\ Accepting' = {}
  BY <1>3 DEF Signing, Accepting, Sources, KeyRotation!Unset
<1>5. KeyRotation!TypeOK'
  <2>1. KeyRotation!Unset \in [KeyRotation!Form -> SigningSecret \cup {None}]
    BY DEF KeyRotation!Unset
  <2>2. env' \in [KeyRotation!Name -> [KeyRotation!Form -> SigningSecret \cup {None}]]
    BY <1>1, <2>1 DEF KeyRotation!TypeOK, KeyRotation!Name
  <2>3. retired' \subseteq SigningSecret
    BY <1>1, <1>2 DEF KeyRotation!TypeOK
  <2> QED
    BY <1>1, <2>2, <2>3 DEF KeyRotation!TypeOK, KeyRotation!Loaded, KeyRotation!Token
<1>6. WithdrawnStands'
  BY <1>1, <1>2, <1>4 DEF WithdrawnStands
<1>7. ASSUME TokensStand, Process # {} PROVE TokensStand'
  <2>1. \A t \in tokens : t.key \in Signing
    <3>1. now \in Nat /\ since \in Nat /\ \A t \in tokens : t.exp \in Nat
      BY <1>1 DEF KeyRotation!TypeOK, KeyRotation!Token
    <3>0. stage = "window"
      BY <1>1
    <3>2. \E k : /\ Accepting = {k}
                /\ \A t \in tokens : \/ t.key \in Signing
                                     \/ t.key = k /\ t.exp <= since + Ttl
      BY <1>7, <3>0 DEF TokensStand
    <3>3. ASSUME NEW t \in tokens, t.exp <= since + Ttl PROVE FALSE
      <4>1. now <= t.exp
        BY <1>7 DEF TokensStand
      <4> QED
        BY <1>1, <3>1, <3>3, <4>1
    <3> QED
      BY <3>2, <3>3, Zenon
  <2>2. fresh = Process
    BY <1>1, <1>7 DEF TokensStand
  <2>3. PICK k : Signing = {k}
    <3>1. PICK p \in Process : p \in fresh
      BY <1>7, <2>2
    <3>2. Signing # {} /\ \A k, l \in Signing : k = l
      BY <1>1, <3>1, Zenon DEF WithdrawnStands
    <3>3. PICK k \in Signing : TRUE
      BY <3>2
    <3>4. Signing = {k}
      BY <3>2, <3>3
    <3> QED
      BY <3>4
  <2>4. \A p \in Process : KeyRotation!Running(p) => keys[p].current = k
    BY <1>1, <2>2, <2>3 DEF WithdrawnStands
  <2> QED
    BY <1>1, <1>4, <1>7, <2>1, <2>3, <2>4 DEF TokensStand, KeyRotation!Running
<1> QED
  BY <1>1, <1>5, <1>6, <1>7 DEF RotationInv

\* Time takes the tokens that expire and nothing else.
LEMMA RotationTick ==
  ASSUME RotationInv, KeyRotation!Tick
  PROVE  RotationInv'
<1> USE RotationAssumption
<1>1. /\ KeyRotation!TypeOK /\ WithdrawnStands /\ now < MaxTimeOf.rotation /\ now' = now + 1
      /\ UNCHANGED <<env, keys, fresh, stage, since, retired, emergency>>
      /\ tokens' \subseteq tokens /\ \A t \in tokens' : t.exp >= now'
  BY DEF RotationInv, KeyRotation!Tick
<1>2. Signing' = Signing /\ Accepting' = Accepting
  BY <1>1, SourcesStay
<1>3. now \in Nat /\ now' \in 0..MaxTimeOf.rotation /\ \A t \in tokens' : t.exp \in Nat
  BY <1>1 DEF KeyRotation!TypeOK, KeyRotation!Token
<1>4. KeyRotation!TypeOK'
  <2>1. tokens' \subseteq KeyRotation!Token
    BY <1>1 DEF KeyRotation!TypeOK
  <2> QED
    BY <1>1, <1>3, <2>1 DEF KeyRotation!TypeOK, KeyRotation!Loaded, KeyRotation!Token
<1>5. WithdrawnStands'
  BY <1>1, <1>2 DEF WithdrawnStands, KeyRotation!Running
<1>6. ASSUME TokensStand PROVE TokensStand'
  <2>1. \A t \in tokens' : now' <= t.exp /\ t.exp <= now' + Ttl
    BY <1>1, <1>3, <1>6 DEF TokensStand
  <2> QED
    BY <1>1, <1>2, <1>6, <2>1 DEF TokensStand, KeyRotation!Running
<1> QED
  BY <1>1, <1>4, <1>5, <1>6 DEF RotationInv

\* Every step of the operator, of a process and of the clock keeps the invariant.
LEMMA RotationStays == RotationInv /\ KeyRotation!Next => RotationInv'
<1> SUFFICES ASSUME RotationInv, KeyRotation!Next PROVE RotationInv'
  OBVIOUS
<1>1. ASSUME NEW p \in Process,
             KeyRotation!Start(p) \/ KeyRotation!Stop(p) \/ KeyRotation!Sign(p)
      PROVE  RotationInv'
  BY <1>1, RotationStart, RotationStop, RotationSign
<1>2. ASSUME NEW new \in SigningSecret, NEW form \in KeyRotation!Form, NEW forgets \in BOOLEAN,
             \/ KeyRotation!Swap(new, form, forgets)
             \/ KeyRotation!Replace(new, form, forgets)
      PROVE  RotationInv'
  BY <1>2, RotationSwap, RotationReplace
<1> QED
  BY <1>1, <1>2, RotationRestarted, RotationClose, RotationTick DEF KeyRotation!Next

\* A step of another component leaves the secrets as they are.
LEMMA RotationStutter == RotationInv /\ UNCHANGED vars => RotationInv'
<1> SUFFICES ASSUME RotationInv, UNCHANGED vars PROVE RotationInv'
  OBVIOUS
<1>1. UNCHANGED <<now, env, keys, fresh, stage, since, retired, emergency, tokens>>
  BY DEF vars
<1>2. Signing' = Signing /\ Accepting' = Accepting
  BY <1>1, SourcesStay
<1> QED
  BY <1>1, <1>2 DEF RotationInv, KeyRotation!TypeOK, KeyRotation!Loaded, KeyRotation!Token,
     WithdrawnStands, TokensStand, KeyRotation!Running

\* The invariant gives what docs/rotation-runbook.md promises of a rotation.
LEMMA RotationPromise ==
  ASSUME RotationInv
  PROVE  KeyRotation!RotationIsSilent /\ KeyRotation!WithdrawnIsDead
<1> USE RotationAssumption
<1>1. KeyRotation!TypeOK /\ WithdrawnStands
  BY DEF RotationInv
<1>2. ASSUME ~emergency, NEW p \in Process, NEW t \in tokens, KeyRotation!Running(p)
      PROVE  KeyRotation!Verifies(p, t)
  <2>1. TokensStand
    BY <1>2 DEF RotationInv
  <2>2. CASE stage \in {"steady", "closing"}
    BY <1>2, <2>1, <2>2 DEF TokensStand, KeyRotation!Verifies
  <2>3. CASE stage = "swap"
    BY <1>1, <1>2, <2>1, <2>3 DEF TokensStand, WithdrawnStands, KeyRotation!Verifies
  <2>4. CASE stage = "window"
    BY <1>1, <1>2, <2>1, <2>4 DEF TokensStand, WithdrawnStands, KeyRotation!Verifies
  <2> QED
    BY <1>1, <2>2, <2>3, <2>4 DEF KeyRotation!TypeOK
<1>3. ASSUME stage = "steady", NEW p \in Process, KeyRotation!Running(p)
      PROVE  {keys[p].current, keys[p].previous} \cap retired = {}
  <2>1. Signing = {keys[p].current} /\ {keys[p].previous} \ {None} = {}
    BY <1>1, <1>3 DEF WithdrawnStands
  <2> QED
    BY <1>1, <2>1 DEF WithdrawnStands, KeyRotation!TypeOK
<1> QED
  BY <1>2, <1>3 DEF KeyRotation!RotationIsSilent, KeyRotation!WithdrawnIsDead

------------------------------------------------------------------------------
(* Configuration                                                           *)

\* What is resolved so far was offered, and a process that runs has read it all.
ConfigurationInv ==
    /\ Configuration!IsEnvironment(env)
    /\ files \in [Configuration!Secret -> Configuration!Content \cup {None}]
    /\ container = None \/ Configuration!IsEnvironment(container)
    /\ next \in 0..Len(SecretNames) + 1
    /\ record \in [Configuration!Secret -> Configuration!Value \cup {None}]
    /\ next # 0 => /\ Configuration!IsEnvironment(container)
                   /\ Configuration!Alone(container, files) \subseteq offered
    /\ ~issues => \A i \in 1..Len(SecretNames) :
          i < next /\ Configuration!Configured(record[SecretNames[i]])
            => <<SecretNames[i], record[SecretNames[i]]>> \in offered
    /\ config # None =>
          /\ next = Len(SecretNames) + 1 /\ ~issues
          /\ config = Configuration!ConfigOf(record, container.setting)
          /\ Configuration!Valid(record, container.setting)

\* Every secret has a place in the order in which loadConfig resolves them.
LEMMA SecretsAreNamed ==
  /\ Len(SecretNames) \in Nat
  /\ \A i \in 1..Len(SecretNames) : SecretNames[i] \in Configuration!Secret
  /\ \A n \in Configuration!Secret : \E i \in 1..Len(SecretNames) : SecretNames[i] = n
<1>1. SecretNames \in Seq(STRING)
  BY ConfigurationAssumption
<1>2. Len(SecretNames) \in Nat /\ DOMAIN SecretNames = 1..Len(SecretNames)
  BY <1>1
<1> QED
  BY <1>2 DEF Configuration!Secret, Configuration!Range

\* The length the schema compares is a natural number.
LEMMA LengthStands ==
  \A v \in Configuration!Value \cup Configuration!Content : Configuration!Length(v) \in Nat
<1> SUFFICES ASSUME NEW v \in Configuration!Value \cup Configuration!Content
             PROVE  Configuration!Length(v) \in Nat
  OBVIOUS
<1>1. v.text \in Texts /\ v.endings \in Nat
  BY DEF Configuration!Value, Configuration!Content
<1>2. Configuration!Size[v.text] \in Nat
  BY <1>1 DEF Configuration!Size
<1> QED
  BY <1>1, <1>2 DEF Configuration!Length

\* A file's content loses one line ending, and what is left is a value
\* (readSecretFile of secret-source.ts).
LEMMA StrippedStands ==
  \A c \in Configuration!Content :
    /\ Configuration!Stripped(c) \in Configuration!Value
    /\ Configuration!Stripped(c) =
         [text |-> c.text, endings |-> IF c.endings > 1 THEN 1 ELSE 0]
<1> SUFFICES ASSUME NEW c \in Configuration!Content
             PROVE  /\ Configuration!Stripped(c) \in Configuration!Value
                    /\ Configuration!Stripped(c) =
                         [text |-> c.text, endings |-> IF c.endings > 1 THEN 1 ELSE 0]
  OBVIOUS
<1>1. c.text \in Texts /\ c.endings \in 0..2
  BY DEF Configuration!Content
<1>2. (IF c.endings > 0 THEN c.endings - 1 ELSE 0) = (IF c.endings > 1 THEN 1 ELSE 0)
  BY <1>1
<1>3. (IF c.endings > 1 THEN 1 ELSE 0) \in 0..1
  OBVIOUS
<1>4. Configuration!Stripped(c) =
        [text |-> c.text, endings |-> IF c.endings > 1 THEN 1 ELSE 0]
  BY <1>2 DEF Configuration!Stripped
<1> QED
  BY <1>1, <1>3, <1>4 DEF Configuration!Value

\* What a name resolves to is a value, and one a lone source holds unless it is blank.
LEMMA ResolveStands ==
  ASSUME NEW e, Configuration!IsEnvironment(e), NEW f,
         f \in [Configuration!Secret -> Configuration!Content \cup {None}],
         NEW n \in Configuration!Secret,
         NEW r, r = Configuration!Resolve(e.direct[n], e.path[n], f[n])
  PROVE  /\ r.value \in Configuration!Value \cup {None}
         /\ r.ok /\ Configuration!Configured(r.value)
              => <<n, r.value>> \in Configuration!Alone(e, f)
<1>1. /\ e.direct[n] \in Configuration!Value \cup {None} /\ e.path[n] \in BOOLEAN
      /\ f[n] \in Configuration!Content \cup {None}
  BY DEF Configuration!IsEnvironment
<1>2. CASE ~e.path[n]
  <2>1. r = [ok |-> TRUE, value |-> e.direct[n]]
    BY <1>2 DEF Configuration!Resolve
  <2> QED
    BY <1>1, <1>2, <2>1 DEF Configuration!Alone
<1>3. CASE e.path[n] /\ (Configuration!Configured(e.direct[n]) \/ f[n] = None)
  <2>1. r = [ok |-> FALSE, value |-> None]
    BY <1>3 DEF Configuration!Resolve, Configuration!Refused
  <2> QED
    BY <2>1
<1>4. CASE e.path[n] /\ ~Configuration!Configured(e.direct[n]) /\ f[n] # None
  <2>1. r.value = Configuration!Stripped(f[n])
    BY <1>4 DEF Configuration!Resolve
  <2>2. r.value \in Configuration!Value
    BY <1>1, <1>4, <2>1, StrippedStands
  <2>3. <<n, r.value>> \in Configuration!Alone(e, f)
    BY <1>4, <2>1 DEF Configuration!Alone
  <2> QED
    BY <2>2, <2>3
<1> QED
  BY <1>1, <1>2, <1>3, <1>4

\* An environment nobody has started a process in satisfies the invariant.
LEMMA ConfigurationInit == Configuration!Init => ConfigurationInv
<1> SUFFICES ASSUME Configuration!Init PROVE ConfigurationInv
  OBVIOUS
<1>1. 0 \in 0..Len(SecretNames) + 1
  BY SecretsAreNamed
<1>2. record \in [Configuration!Secret -> Configuration!Value \cup {None}]
  BY DEF Configuration!Init
<1>3. \A i \in 1..Len(SecretNames) : ~(i < next)
  BY SecretsAreNamed DEF Configuration!Init
<1> QED
  BY <1>1, <1>2, <1>3, ConfigurationAssumption DEF Configuration!Init, ConfigurationInv

\* A process starts to read, or it ends: nothing is resolved.
LEMMA ConfigurationBegin ==
  ASSUME ConfigurationInv, NEW e, Configuration!IsEnvironment(e), Configuration!Begin(e)
  PROVE  ConfigurationInv'
<1>1. /\ container' = e /\ next' = 1 /\ config' = None /\ UNCHANGED <<env, files>>
      /\ record' = [n \in Configuration!Secret |-> None]
      /\ offered' = Configuration!Alone(container', files')
  BY DEF Configuration!Begin
<1>2. next' \in 0..Len(SecretNames) + 1 /\ \A i \in 1..Len(SecretNames) : ~(i < next')
  BY <1>1, SecretsAreNamed
<1>3. record' \in [Configuration!Secret -> Configuration!Value \cup {None}]
  BY <1>1
<1>4. Configuration!IsEnvironment(env)' /\ Configuration!IsEnvironment(container)'
  BY <1>1 DEF ConfigurationInv, Configuration!IsEnvironment
<1>5. (Configuration!Alone(container, files) \subseteq offered)'
  BY <1>1
<1> QED
  BY <1>1, <1>2, <1>3, <1>4, <1>5 DEF ConfigurationInv

\* A process that ends leaves nothing resolved.
LEMMA ConfigurationEnds ==
  ASSUME ConfigurationInv, Configuration!Ended, UNCHANGED <<env, files, container>>
  PROVE  ConfigurationInv'
<1>1. /\ next' = 0 /\ config' = None /\ record' = [n \in Configuration!Secret |-> None]
  BY DEF Configuration!Ended
<1>2. next' \in 0..Len(SecretNames) + 1 /\ \A i \in 1..Len(SecretNames) : ~(i < next')
  BY <1>1, SecretsAreNamed
<1>3. record' \in [Configuration!Secret -> Configuration!Value \cup {None}]
  BY <1>1
<1>4. /\ Configuration!IsEnvironment(env)'
      /\ container' = None \/ Configuration!IsEnvironment(container)'
  BY DEF ConfigurationInv, Configuration!IsEnvironment
<1> QED
  BY <1>1, <1>2, <1>3, <1>4 DEF ConfigurationInv

\* Reading one secret resolves it from the source that is configured, or is an issue
\* (resolveSecret of secret-source.ts).
LEMMA ConfigurationReads ==
  ASSUME ConfigurationInv, Configuration!ReadSecret
  PROVE  ConfigurationInv'
<1> DEFINE n == SecretNames[next]
           r == Configuration!Resolve(container.direct[n], container.path[n], files[n])
<1>1. /\ next \in 1..Len(SecretNames) /\ next' = next + 1
      /\ record' = [record EXCEPT ![n] = r.value] /\ issues' = (issues \/ ~r.ok)
      /\ UNCHANGED <<env, files, container, config, offered>>
  BY DEF Configuration!ReadSecret
<1>2. /\ next # 0 /\ next' \in 0..Len(SecretNames) + 1 /\ next # Len(SecretNames) + 1
      /\ \A i \in 1..Len(SecretNames) : i < next' => i = next \/ i < next
  BY <1>1, SecretsAreNamed
<1>3. config = None
  BY <1>2 DEF ConfigurationInv
<1>4. /\ Configuration!IsEnvironment(container) /\ n \in Configuration!Secret
      /\ Configuration!Alone(container, files) \subseteq offered
  BY <1>1, <1>2, SecretsAreNamed DEF ConfigurationInv
<1>5. /\ r.value \in Configuration!Value \cup {None}
      /\ r.ok /\ Configuration!Configured(r.value)
           => <<n, r.value>> \in Configuration!Alone(container, files)
  BY <1>4, ResolveStands DEF ConfigurationInv
<1> HIDE DEF r
<1>6. record' \in [Configuration!Secret -> Configuration!Value \cup {None}]
  BY <1>1, <1>4, <1>5 DEF ConfigurationInv
<1>7. ASSUME ~issues', NEW i \in 1..Len(SecretNames), i < next',
             Configuration!Configured(record[SecretNames[i]])'
      PROVE  <<SecretNames[i], record'[SecretNames[i]]>> \in offered'
  <2>1. ~issues /\ r.ok
    BY <1>1, <1>7
  <2>2. SecretNames[i] \in Configuration!Secret /\ DOMAIN record = Configuration!Secret
    BY SecretsAreNamed DEF ConfigurationInv
  <2>3. CASE SecretNames[i] = n
    <3>1. record'[SecretNames[i]] = r.value
      BY <1>1, <2>2, <2>3
    <3> QED
      BY <1>1, <1>4, <1>5, <1>7, <2>1, <2>3, <3>1 DEF Configuration!Configured
  <2>4. CASE SecretNames[i] # n
    <3>1. record'[SecretNames[i]] = record[SecretNames[i]] /\ i < next
      BY <1>1, <1>2, <1>7, <2>2, <2>4
    <3> QED
      BY <1>1, <1>7, <2>1, <3>1 DEF ConfigurationInv, Configuration!Configured
  <2> QED
    BY <2>3, <2>4
<1>8. /\ Configuration!IsEnvironment(env)' /\ Configuration!IsEnvironment(container)'
      /\ (Configuration!Alone(container, files) \subseteq offered)'
  BY <1>1, <1>4 DEF ConfigurationInv, Configuration!IsEnvironment, Configuration!Alone
<1> HIDE DEF n
<1> QED
  BY <1>1, <1>2, <1>3, <1>6, <1>7, <1>8 DEF ConfigurationInv

\* A process runs on what it has resolved, or does not start (loadConfig).
LEMMA ConfigurationLoads ==
  ASSUME ConfigurationInv, Configuration!Load
  PROVE  ConfigurationInv'
<1>1. CASE Configuration!Boots
  <2>1. /\ next = Len(SecretNames) + 1 /\ ~issues
        /\ Configuration!Valid(record, container.setting)
        /\ config' = Configuration!ConfigOf(record, container.setting)
        /\ UNCHANGED <<next, record, issues, offered, env, files, container>>
    BY <1>1 DEF Configuration!Load, Configuration!Boots
  <2> QED
    BY <2>1 DEF ConfigurationInv, Configuration!IsEnvironment, Configuration!Alone,
       Configuration!Configured
<1>2. CASE ~Configuration!Boots
  BY <1>2, ConfigurationEnds DEF Configuration!Load
<1> QED
  BY <1>1, <1>2

\* An edit of the operator offers what is then alone.
LEMMA ConfigurationEdits ==
  ASSUME ConfigurationInv, Configuration!Edit, Configuration!IsEnvironment(env)',
         files' \in [Configuration!Secret -> Configuration!Content \cup {None}]
  PROVE  ConfigurationInv'
<1>1. /\ UNCHANGED <<container, record, next, issues, config>>
      /\ offered \subseteq offered'
      /\ next # 0 => (Configuration!Alone(container, files) \subseteq offered)'
  BY DEF Configuration!Edit, Configuration!process
<1>2. container' = None \/ Configuration!IsEnvironment(container)'
  BY <1>1 DEF ConfigurationInv, Configuration!IsEnvironment
<1>3. ASSUME ~issues', NEW i \in 1..Len(SecretNames), i < next',
             Configuration!Configured(record[SecretNames[i]])'
      PROVE  <<SecretNames[i], record'[SecretNames[i]]>> \in offered'
  <2>1. <<SecretNames[i], record[SecretNames[i]]>> \in offered
    BY <1>1, <1>3 DEF ConfigurationInv, Configuration!Configured
  <2> QED
    BY <1>1, <2>1
<1> QED
  BY <1>1, <1>2, <1>3 DEF ConfigurationInv

\* An operator edits the environment and the files behind a running process's back.
LEMMA ConfigurationOperates ==
  ASSUME ConfigurationInv, Configuration!Operator
  PROVE  ConfigurationInv'
<1> DEFINE Env(e) == Configuration!IsEnvironment(e)
<1>1. /\ env = [direct |-> env.direct, path |-> env.path, setting |-> env.setting]
      /\ env.direct \in [Configuration!Secret -> Configuration!Value \cup {None}]
      /\ env.path \in [Configuration!Secret -> BOOLEAN]
      /\ DOMAIN env.setting = Setting /\ \A s \in Setting : env.setting[s] \in Raw[s]
      /\ files \in [Configuration!Secret -> Configuration!Content \cup {None}]
  BY DEF ConfigurationInv, Configuration!IsEnvironment
<1>2. ASSUME NEW n \in Configuration!Secret, NEW v \in Configuration!Value \cup {None},
             Configuration!WriteDirect(n, v)
      PROVE  ConfigurationInv'
  <2>1. env' = [direct |-> [env.direct EXCEPT ![n] = v], path |-> env.path,
                setting |-> env.setting]
    BY <1>1, <1>2 DEF Configuration!WriteDirect
  <2>2. [env.direct EXCEPT ![n] = v] \in [Configuration!Secret -> Configuration!Value \cup {None}]
    BY <1>1
  <2>3. Configuration!IsEnvironment(env)'
    BY <1>1, <2>1, <2>2 DEF Configuration!IsEnvironment
  <2> QED
    BY <1>1, <1>2, <2>3, ConfigurationEdits DEF Configuration!WriteDirect
<1>3. ASSUME NEW n \in Configuration!Secret, NEW named \in BOOLEAN,
             Configuration!NameFile(n, named)
      PROVE  ConfigurationInv'
  <2>1. env' = [direct |-> env.direct, path |-> [env.path EXCEPT ![n] = named],
                setting |-> env.setting]
    BY <1>1, <1>3 DEF Configuration!NameFile
  <2>2. [env.path EXCEPT ![n] = named] \in [Configuration!Secret -> BOOLEAN]
    BY <1>1
  <2>3. Configuration!IsEnvironment(env)'
    BY <1>1, <2>1, <2>2 DEF Configuration!IsEnvironment
  <2> QED
    BY <1>1, <1>3, <2>3, ConfigurationEdits DEF Configuration!NameFile
<1>4. ASSUME NEW s \in Setting, NEW raw \in Raw[s], Configuration!WriteSetting(s, raw)
      PROVE  ConfigurationInv'
  <2> DEFINE S == [env.setting EXCEPT ![s] = raw]
  <2>1. env' = [direct |-> env.direct, path |-> env.path, setting |-> S]
    BY <1>1, <1>4 DEF Configuration!WriteSetting
  <2>2. DOMAIN S = Setting /\ \A t \in Setting : S[t] \in Raw[t]
    BY <1>1
  <2> HIDE DEF S
  <2>3. Configuration!IsEnvironment(env)'
    BY <1>1, <2>1, <2>2 DEF Configuration!IsEnvironment
  <2> QED
    BY <1>1, <1>4, <2>3, ConfigurationEdits DEF Configuration!WriteSetting
<1>5. ASSUME NEW n \in Configuration!Secret, NEW c \in Configuration!Content \cup {None},
             Configuration!WriteFile(n, c)
      PROVE  ConfigurationInv'
  <2>1. files' = [files EXCEPT ![n] = c] /\ UNCHANGED env /\ Configuration!Edit
    BY <1>5 DEF Configuration!WriteFile
  <2>2. files' \in [Configuration!Secret -> Configuration!Content \cup {None}]
    BY <1>1, <2>1
  <2>3. Configuration!IsEnvironment(env)'
    BY <2>1 DEF ConfigurationInv, Configuration!IsEnvironment
  <2> QED
    BY <2>1, <2>2, <2>3, ConfigurationEdits
<1>6. \A text \in Texts : Configuration!Just(text) \in Configuration!Value
  BY DEF Configuration!Just, Configuration!Value
<1>7. \A text \in Texts, endings \in 0..2 :
        [text |-> text, endings |-> endings] \in Configuration!Content
  BY DEF Configuration!Content
<1> QED
  BY <1>2, <1>3, <1>4, <1>5, <1>6, <1>7 DEF Configuration!Operator

\* Every step of the operator and of the process keeps the invariant.
LEMMA ConfigurationStays == ConfigurationInv /\ Configuration!Next => ConfigurationInv'
<1> SUFFICES ASSUME ConfigurationInv, Configuration!Next PROVE ConfigurationInv'
  OBVIOUS
<1>1. ASSUME Configuration!Deploy PROVE ConfigurationInv'
  BY <1>1, ConfigurationBegin DEF Configuration!Deploy, ConfigurationInv
<1>2. ASSUME Configuration!Restart PROVE ConfigurationInv'
  BY <1>2, ConfigurationBegin DEF Configuration!Restart, ConfigurationInv
<1>3. ASSUME Configuration!Crash PROVE ConfigurationInv'
  BY <1>3, ConfigurationEnds DEF Configuration!Crash
<1> QED
  BY <1>1, <1>2, <1>3, ConfigurationReads, ConfigurationLoads, ConfigurationOperates
     DEF Configuration!Next

\* A step of another component leaves the configuration as it is.
LEMMA ConfigurationStutter == ConfigurationInv /\ UNCHANGED vars => ConfigurationInv'
<1> SUFFICES ASSUME ConfigurationInv, UNCHANGED vars PROVE ConfigurationInv'
  OBVIOUS
<1>1. UNCHANGED <<env, files, edits, container, record, next, issues, config, offered>>
  BY DEF vars
<1> QED
  BY <1>1 DEF ConfigurationInv, Configuration!IsEnvironment, Configuration!Alone,
     Configuration!Configured

\* Every Config is of a record and a setting that passed the policies.
LEMMA RunsSafelyHolds ==
  ASSUME ConfigurationInv
  PROVE  Configuration!RunsSafely
<1> SUFFICES ASSUME config # None, config.mode = "production"
             PROVE  Configuration!RunsSafely
  BY DEF Configuration!RunsSafely
<1> DEFINE setting == container.setting
           secrets == record
           Value_(s, default) == Configuration!Defaulted(setting, s, default)
<1>1. /\ config = Configuration!ConfigOf(secrets, setting)
      /\ Configuration!Valid(secrets, setting) /\ Configuration!IsEnvironment(container)
      /\ record \in [Configuration!Secret -> Configuration!Value \cup {None}]
  BY SecretsAreNamed DEF ConfigurationInv
<1>2. /\ config.mode = Value_("NODE_ENV", "development")
      /\ config.secret = secrets["JWT_SECRET"]
      /\ config.previous = secrets["JWT_PREVIOUS_SECRET"]
      /\ config.smtp = IF Value_("MAIL_DRIVER", "mailpit") = "smtp"
                       THEN [password |-> secrets["SMTP_PASSWORD"]] ELSE None
      /\ config.sender = Value_("MAIL_FROM_EMAIL", "no-reply@orgistry.local")
      /\ config.web = Value_("WEB_DEMO_URL", "http://localhost:5173")
      /\ config.secure = (Value_("COOKIE_SECURE", "false") = "true")
      /\ config.failureMode = Value_("RATE_LIMIT_FAILURE_MODE", "closed")
      /\ config.hops = Value_("TRUST_PROXY", "false")
      /\ config.numbers = [s \in Configuration!Numbers |-> Value_(s, 180)]
  <2>1. config = Configuration!ConfigOf(secrets, setting)
    BY <1>1
  <2>2. config.mode = Value_("NODE_ENV", "development")
    BY <2>1 DEF Configuration!ConfigOf
  <2> QED
    BY <2>1, <2>2 DEF Configuration!ConfigOf
<1>3. /\ Configuration!Parses(secrets, setting) /\ Configuration!RotationFit(secrets)
      /\ Configuration!MailerFit(secrets, setting)
      /\ setting["RATE_LIMIT_FAILURE_MODE"] # "open"
      /\ Configuration!GeneratedFit(secrets["JWT_SECRET"])
      /\ secrets["JWT_PREVIOUS_SECRET"] # None
           => Configuration!GeneratedFit(secrets["JWT_PREVIOUS_SECRET"])
      /\ Value_("COOKIE_SECURE", "false") = "true" /\ Value_("MAIL_DRIVER", "mailpit") = "smtp"
      /\ secrets["SMTP_PASSWORD"] # None => Configuration!ProviderFit(secrets["SMTP_PASSWORD"])
      /\ Configuration!SenderFit(Value_("MAIL_FROM_EMAIL", "no-reply@orgistry.local"))
      /\ Configuration!WebFit(Value_("WEB_DEMO_URL", "http://localhost:5173"))
  BY <1>1, <1>2 DEF Configuration!Valid, Configuration!ProductionFit
<1>4. /\ Configuration!ChoicesParse(setting) /\ Configuration!TrustParses(config.hops)
      /\ Configuration!NumbersParse(setting)
      /\ secrets["JWT_SECRET"] # None
  <2>1. "JWT_SECRET" \in Configuration!Secret
    BY ConfigurationAssumption
  <2> QED
    BY <1>2, <1>3, <2>1 DEF Configuration!Parses, Configuration!SecretParses
<1>5. /\ config.numbers["RATE_LIMIT_MAX"] > 0
      /\ config.numbers["RETENTION_SECURITY_EVENT_DAYS"] >= 30
      /\ config.numbers["RETENTION_CLEANUP_BATCH_SIZE"] > 0
      /\ config.numbers["RETENTION_CLEANUP_BATCH_SIZE"] <= 50000
  <2>1. {"RATE_LIMIT_MAX", "RETENTION_SECURITY_EVENT_DAYS", "RETENTION_CLEANUP_BATCH_SIZE"}
          \subseteq Configuration!Numbers
    BY ConfigurationAssumption DEF Configuration!Numbers, Configuration!SharedLimits,
       Configuration!Retentions
  <2>2. \A s \in Configuration!Numbers : setting[s] \in Int \cup {None}
    BY <1>1, ConfigurationAssumption DEF Configuration!IsEnvironment, Configuration!Numbers
  <2>3. \A s \in Configuration!Numbers :
          /\ config.numbers[s] = IF setting[s] = None THEN 180 ELSE setting[s]
          /\ setting[s] # None =>
               /\ setting[s] >= Configuration!Floor(s)
               /\ s = "RETENTION_CLEANUP_BATCH_SIZE" => setting[s] <= 50000
    BY <1>2, <1>4 DEF Configuration!Defaulted, Configuration!NumbersParse,
       Configuration!MaxBatchSize
  <2>4. /\ Configuration!Floor("RATE_LIMIT_MAX") = 1
        /\ Configuration!Floor("RETENTION_SECURITY_EVENT_DAYS") = 30
        /\ Configuration!Floor("RETENTION_CLEANUP_BATCH_SIZE") = 1
    BY DEF Configuration!Floor
  <2> HIDE DEF setting
  <2> QED
    BY <2>1, <2>2, <2>3, <2>4
<1>6. \A v \in {config.secret, config.previous} \ {None} :
         /\ Configuration!Length(v) >= 32 /\ v.text \notin {"known", "marker"}
         /\ v # Configuration!Just("repeated")
  BY <1>2, <1>3 DEF Configuration!GeneratedFit, Configuration!ProviderFit,
     Configuration!KnownDevelopment, Configuration!Placeholder, Configuration!Degenerate,
     Configuration!Just
<1>7. config.previous # config.secret
  BY <1>2, <1>3, <1>4 DEF Configuration!RotationFit
<1>8. /\ config.smtp # None /\ config.smtp.password # None
      /\ config.smtp.password.text \notin {"known", "marker"}
  <2>1. /\ "SMTP_PASSWORD" \in Configuration!Secret
        /\ config.smtp = [password |-> secrets["SMTP_PASSWORD"]]
        /\ secrets["SMTP_PASSWORD"] # None
    BY <1>2, <1>3, ConfigurationAssumption DEF Configuration!MailerFit
  <2>2. secrets["SMTP_PASSWORD"].text \notin {"known", "marker"}
    BY <1>3, <2>1 DEF Configuration!ProviderFit, Configuration!KnownDevelopment,
       Configuration!Placeholder
  <2>3. config.smtp # None
    BY <1>1, <2>1, ConfigurationAssumption
  <2>4. config.smtp.password = secrets["SMTP_PASSWORD"]
    BY <2>1
  <2> QED
    BY <2>1, <2>2, <2>3, <2>4
<1>9. config.sender = "no-reply@company" /\ config.web = "https://company"
  <2>1. /\ setting["MAIL_FROM_EMAIL"] \in Raw["MAIL_FROM_EMAIL"]
        /\ setting["WEB_DEMO_URL"] \in Raw["WEB_DEMO_URL"]
    BY <1>1, ConfigurationAssumption DEF Configuration!IsEnvironment
  <2>2. config.sender = "no-reply@company"
    BY <1>2, <1>3, <2>1, ConfigurationAssumption
       DEF Configuration!SenderFit, Configuration!Defaulted
  <2>3. config.web = "https://company"
    BY <1>2, <1>3, <2>1, ConfigurationAssumption
       DEF Configuration!WebFit, Configuration!Defaulted
  <2> QED
    BY <2>2, <2>3
<1>10. config.secure /\ config.failureMode = "closed" /\ config.hops # "true"
  BY <1>2, <1>3, <1>4 DEF Configuration!ChoicesParse, Configuration!TrustParses,
     Configuration!Defaulted
<1> QED
  BY <1>5, <1>6, <1>7, <1>8, <1>9, <1>10 DEF Configuration!RunsSafely

\* A secret of 16 characters is not blank.
LEMMA HeldWasOfferedHolds ==
  ASSUME ConfigurationInv
  PROVE  Configuration!HeldWasOffered
<1> SUFFICES ASSUME config # None PROVE Configuration!HeldWasOffered
  BY DEF Configuration!HeldWasOffered
<1>1. /\ next = Len(SecretNames) + 1 /\ ~issues
      /\ config = Configuration!ConfigOf(record, container.setting)
      /\ Configuration!Valid(record, container.setting)
      /\ record \in [Configuration!Secret -> Configuration!Value \cup {None}]
  BY DEF ConfigurationInv
<1>2. config.secret = record["JWT_SECRET"] /\ config.previous = record["JWT_PREVIOUS_SECRET"]
  BY <1>1 DEF Configuration!ConfigOf
<1>3. ASSUME NEW n \in {"JWT_SECRET", "JWT_PREVIOUS_SECRET"}, record[n] # None
      PROVE  <<n, record[n]>> \in offered
  <2>1. n \in Configuration!Secret
    BY ConfigurationAssumption
  <2>2. PICK i \in 1..Len(SecretNames) : SecretNames[i] = n
    BY <2>1, SecretsAreNamed
  <2>3. i < next
    BY <1>1, SecretsAreNamed
  <2>4. Configuration!Configured(record[n])
    <3>1. Configuration!SecretParses(n, record[n])
      BY <1>1, <2>1 DEF Configuration!Valid, Configuration!Parses
    <3>2. Configuration!Length(record[n]) \in Nat
      BY <1>1, <1>3, <2>1, LengthStands
    <3>3. Configuration!Length(record[n]) >= 16
      BY <1>3, <3>1 DEF Configuration!SecretParses
    <3> QED
      BY <1>3, <3>2, <3>3 DEF Configuration!Configured
  <2> QED
    BY <1>1, <2>2, <2>3, <2>4 DEF ConfigurationInv
<1> QED
  BY <1>2, <1>3 DEF Configuration!HeldWasOffered

\* A file and a value that say the same resolve alike, and an empty file is refused
\* by the resolution where an empty value is refused by the schema.
LEMMA FormIsIrrelevantHolds ==
  ASSUME ConfigurationInv
  PROVE  Configuration!FormIsIrrelevant
<1> DEFINE R(e) == [n \in Configuration!Secret |->
                      Configuration!Resolve(e.direct[n], e.path[n], files[n])]
           Moved(n) == [env EXCEPT !.path[n] = FALSE,
                                   !.direct[n] = [text |-> files[n].text,
                                       endings |-> IF files[n].endings > 1 THEN 1 ELSE 0]]
           V(e) == [n \in Configuration!Secret |-> R(e)[n].value]
           Booted(e) == IF (\A n \in Configuration!Secret : R(e)[n].ok)
                              /\ Configuration!Valid(V(e), e.setting)
                         THEN Configuration!ConfigOf(V(e), e.setting) ELSE None
<1>1. ASSUME NEW n \in Configuration!Secret,
             env.path[n], ~Configuration!Configured(env.direct[n]), files[n] # None
      PROVE  Booted(env) = Booted(Moved(n))
  <2> DEFINE m == Moved(n)
             c == Configuration!Stripped(files[n])
  <2>1. /\ env = [direct |-> env.direct, path |-> env.path, setting |-> env.setting]
        /\ env.direct \in [Configuration!Secret -> Configuration!Value \cup {None}]
        /\ env.path \in [Configuration!Secret -> BOOLEAN]
        /\ files[n] \in Configuration!Content
    BY <1>1 DEF ConfigurationInv, Configuration!IsEnvironment
  <2>2. c = [text |-> files[n].text, endings |-> IF files[n].endings > 1 THEN 1 ELSE 0]
        /\ c \in Configuration!Value /\ c # None
    BY <2>1, StrippedStands, ConfigurationAssumption
  <2>3. /\ m.direct = [env.direct EXCEPT ![n] = c]
        /\ m.path = [env.path EXCEPT ![n] = FALSE]
        /\ m.setting = env.setting
    BY <2>1, <2>2
  <2> HIDE DEF m, c
  <2>4. R(env)[n] = [ok |-> Configuration!Length(c) > 0, value |-> c]
    BY <1>1 DEF Configuration!Resolve, c
  <2>5. R(m)[n] = [ok |-> TRUE, value |-> c]
    BY <2>1, <2>3 DEF Configuration!Resolve
  <2>6. \A l \in Configuration!Secret : l # n => R(m)[l] = R(env)[l]
    BY <2>1, <2>3
  <2> HIDE DEF R
  <2>7. V(m) = V(env)
    <3>1. \A l \in Configuration!Secret : R(m)[l].value = R(env)[l].value
      BY <2>4, <2>5, <2>6
    <3> QED
      BY <3>1
  <2>8. CASE Configuration!Length(c) > 0
    <3>1. \A l \in Configuration!Secret : R(m)[l].ok <=> R(env)[l].ok
      BY <2>4, <2>5, <2>6, <2>8
    <3> HIDE DEF V
    <3> QED
      BY <2>3, <2>7, <3>1 DEF m
  <2>9. CASE ~(Configuration!Length(c) > 0)
    <3>1. Configuration!Length(c) \in Nat
      BY <2>2, LengthStands
    <3>2. ~Configuration!SecretParses(n, c)
      BY <2>2, <2>9, <3>1 DEF Configuration!SecretParses
    <3>3. V(m)[n] = c
      BY <2>5
    <3>4. ~Configuration!Valid(V(m), m.setting)
      BY <3>2, <3>3 DEF Configuration!Valid, Configuration!Parses
    <3>5. ~R(env)[n].ok
      <4>1. R(env)[n].ok = (Configuration!Length(c) > 0)
        BY <2>4
      <4> QED
        BY <2>9, <4>1, Zenon
    <3> HIDE DEF V
    <3> QED
      BY <3>4, <3>5 DEF m
  <2> QED
    BY <2>8, <2>9
<1> QED
  BY <1>1 DEF Configuration!FormIsIrrelevant

------------------------------------------------------------------------------
\* With one API process, no routine rotation of the signing secret ends an access token
\* before its time, and a secret that was withdrawn opens nothing
\* (docs/rotation-runbook.md, access-token.ts); no process runs in production without
\* its guards, and none with a secret that was not a lone source's, file or value
\* (secret-source.ts, packages/config), for any secrets, lifetimes, edits and crashes.
THEOREM ConfigurationSafe == Spec => []ConfigurationIsSafe
<1> DEFINE Inv == /\ component = "rotation" => RotationInv
                  /\ component = "configuration" => ConfigurationInv
<1>1. Init => Inv
  BY RotationInit, ConfigurationInit DEF Init
<1>2. Inv /\ [Next]_vars => Inv'
  <2> SUFFICES ASSUME Inv, [Next]_vars PROVE Inv'
    OBVIOUS
  <2>1. CASE Next
    <3>1. component' = component
      BY <2>1 DEF Next
    <3>2. ASSUME component = "rotation" PROVE RotationInv'
      BY <2>1, <3>2, RotationStays DEF Next
    <3>3. ASSUME component = "configuration" PROVE ConfigurationInv'
      BY <2>1, <3>3, ConfigurationStays DEF Next
    <3> QED
      BY <3>1, <3>2, <3>3
  <2>2. CASE UNCHANGED vars
    <3>1. UNCHANGED component
      BY <2>2 DEF vars
    <3> QED
      BY <2>2, <3>1, RotationStutter, ConfigurationStutter
  <2> QED
    BY <2>1, <2>2
<1>3. Inv => ConfigurationIsSafe
  BY RotationPromise, RunsSafelyHolds, HeldWasOfferedHolds, FormIsIrrelevantHolds
     DEF ConfigurationIsSafe
<1> QED
  BY <1>1, <1>2, <1>3, PTL DEF Spec

------------------------------------------------------------------------------
USE DEF Resources!Goto, Resources!Start, Resources!Finish

\* Which request stands where.
QuotaStage(r) ==
    /\ pc[r] = "idle" <=> req[r] = Resources!NoParams
    /\ pc[r] \in {"queued", "planned", "counted"} => req[r].op = "create"
    /\ pc[r] = "locked" => req[r].op \in {"rename", "delete", "revoke", "plan"}
    /\ req[r].op \in {"rename", "delete", "revoke"} => req[r].id \in Project \cup ApiKey
    /\ req[r].op = "plan" => req[r].plan \in Plan
    /\ req[r].op = "create" =>
          /\ req[r].kind \in Resources!Kind /\ req[r].read \in Resources!Time
              /\ req[r].read <= now
          /\ req[r].expires \in Resources!Time \cup {Resources!Never}

\* One creation of a kind at a time is past the advisory lock.
QuotaIsExclusive ==
    \A r, q \in Requester : \A k \in Resources!Kind : Resources!HoldsQuota(r, k)
        /\ Resources!HoldsQuota(q, k) => r = q

\* Who has the plan row FOR SHARE read the plan in force, which grants the kind.
PlanIsCurrent ==
    \A r \in Requester : Resources!SharesPlan(r) =>
        /\ req[r].plan = plan
        /\ req[r].kind = "api_keys" => plan \in KeyPlans
        /\ \A q \in Requester : ~Resources!HoldsPlan(q)

\* One request at a time has a row, and it is live.
RowIsExclusive ==
    \A r \in Requester : \A x \in Project \cup ApiKey : Resources!HoldsRow(r, x) =>
        /\ rows[x].state = "live"
        /\ \A q \in Requester : Resources!HoldsRow(q, x) => q = r

\* The count a creation was let through with still bounds what is active.
CountHolds ==
    \A r \in Requester : pc[r] = "counted" =>
        Cardinality(Resources!ActiveAt(req[r].kind, req[r].read)) < Resources!Limit(req[r].plan, req[r].kind)

ResourcesInv ==
    /\ Resources!TypeOK
    /\ \A r \in Requester : QuotaStage(r)
    /\ QuotaIsExclusive /\ PlanIsCurrent /\ RowIsExclusive /\ CountHolds

\* The initial states satisfy the invariant.
LEMMA ResourcesInit == ASSUME Catalog PROVE Resources!Init => ResourcesInv
<1> SUFFICES ASSUME Resources!Init PROVE ResourcesInv
  OBVIOUS
<1> USE DEF Resources!Init, Resources!NoParams
<1>1. Resources!TypeOK
  BY DEF Catalog, Resources!TypeOK, Resources!Row, Resources!NoRow, Resources!Time,
      Resources!Never
<1>2. (\A r \in Requester : QuotaStage(r)) /\ CountHolds
  BY DEF QuotaStage, CountHolds
<1>3. QuotaIsExclusive /\ PlanIsCurrent /\ RowIsExclusive
  BY DEF QuotaIsExclusive, PlanIsCurrent, RowIsExclusive, Resources!HoldsQuota,
      Resources!Creates, Resources!SharesPlan,
         Resources!HoldsRow
<1> QED
  BY <1>1, <1>2, <1>3 DEF ResourcesInv

\* The parameters each handler starts with.
LEMMA StartTypes ==
  ASSUME Catalog, Resources!TypeOK
  PROVE  /\ [op |-> "create", kind |-> "projects", expires |-> Resources!Never, read |-> 0,
             plan |-> None] \in Resources!Params
         /\ \A e \in Resources!Time \cup {Resources!Never} :
               [op |-> "create", kind |-> "api_keys", expires |-> e, read |-> now,
                plan |-> None] \in Resources!Params
         /\ \A x \in Project, o \in {"rename", "delete"} :
             [op |-> o, id |-> x] \in Resources!Params
         /\ \A x \in ApiKey : [op |-> "revoke", id |-> x] \in Resources!Params
         /\ \A p \in Plan : [op |-> "plan", plan |-> p] \in Resources!Params
  BY DEF Catalog, Resources!TypeOK, Resources!Params, Resources!Kind, Resources!Time

\* A creation with the plan it has read.
LEMMA PlannedParams ==
  ASSUME NEW p \in Resources!Params, p.op = "create", NEW q \in Plan
  PROVE  /\ [p EXCEPT !.plan = q] \in Resources!Params
         /\ [p EXCEPT !.plan = q].plan = q
         /\ [p EXCEPT !.plan = q].op = "create"
         /\ [p EXCEPT !.plan = q].kind = p.kind
         /\ [p EXCEPT !.plan = q].read = p.read
         /\ [p EXCEPT !.plan = q].expires = p.expires
<1>1. p \in [op : {"create"}, kind : Resources!Kind, expires : Resources!Time \cup {Resources!Never}, read : Resources!Time,
             plan : Plan \cup {None}]
  BY DEF Resources!Params
<1>2. [p EXCEPT !.plan = q] \in [op : {"create"}, kind : Resources!Kind, expires : Resources!Time \cup {Resources!Never},
                                 read : Resources!Time, plan : Plan \cup {None}]
  BY <1>1
<1> QED
  BY <1>1, <1>2 DEF Resources!Params

\* Every step keeps every variable in its domain.
LEMMA ResourcesTypeStep == ASSUME Catalog
    PROVE ResourcesInv /\ [Resources!Next]_(Resources!vars) => Resources!TypeOK'
<1> SUFFICES ASSUME Resources!TypeOK, \A r \in Requester : QuotaStage(r),
        [Resources!Next]_(Resources!vars) PROVE Resources!TypeOK'
  BY DEF ResourcesInv
<1> USE DEF Resources!TypeOK, Resources!NoParams
<1>1. ASSUME NEW r \in Requester, Resources!RequestProject(r)
        \/ Resources!RequestKey(r) \/ Resources!EditProject(r)
                                \/ Resources!RequestRevoke(r) \/ Resources!RequestPlan(r)
      PROVE  Resources!TypeOK'
  <2>1. \E p \in Resources!Params : Resources!Start(r, p)
    BY <1>1, StartTypes
    DEF Resources!RequestProject, Resources!RequestKey, Resources!EditProject,
        Resources!RequestRevoke, Resources!RequestPlan
  <2>2. UNCHANGED <<plan, rows, now>>
    BY <1>1 DEF Resources!RequestProject, Resources!RequestKey, Resources!EditProject,
        Resources!RequestRevoke, Resources!RequestPlan
  <2> QED
    BY <2>1, <2>2
<1>2. ASSUME NEW r \in Requester, Resources!ReadPlan(r) PROVE Resources!TypeOK'
  <2>1. req[r] \in Resources!Params /\ req[r].op = "create"
    BY <1>2 DEF Resources!ReadPlan, QuotaStage
  <2>2. [req[r] EXCEPT !.plan = plan] \in Resources!Params
    BY <2>1, PlannedParams
  <2> QED
    BY <1>2, <2>2 DEF Resources!ReadPlan
<1>3. ASSUME NEW r \in Requester, Resources!LockQuota(r) \/ Resources!Count(r)
        \/ Resources!LockRow(r) \/ Resources!LockPlan(r)
                                \/ Resources!Fail(r)
      PROVE  Resources!TypeOK'
  BY <1>3 DEF Resources!LockQuota, Resources!Count, Resources!LockRow,
      Resources!LockPlan, Resources!Fail
<1>4. ASSUME NEW r \in Requester, Resources!CommitCreate(r) PROVE Resources!TypeOK'
  <2>1. [state |-> "live", by |-> r, expires |-> req[r].expires] \in Resources!Row
    BY <1>4 DEF Resources!CommitCreate, QuotaStage, Resources!Row
  <2> QED
    BY <1>4, <2>1 DEF Resources!CommitCreate
<1>5. ASSUME NEW r \in Requester, Resources!CommitRow(r) PROVE Resources!TypeOK'
  <2>1. req[r].id \in Project \cup ApiKey
    BY <1>5 DEF Resources!CommitRow, QuotaStage
  <2>2. rows' \in [Project \cup ApiKey -> Resources!Row]
    BY <1>5, <2>1 DEF Resources!CommitRow, Resources!Row
  <2> QED
    BY <1>5, <2>2 DEF Resources!CommitRow
<1>6. ASSUME NEW r \in Requester, Resources!CommitPlan(r) PROVE Resources!TypeOK'
  BY <1>6 DEF Resources!CommitPlan, QuotaStage
<1>7. CASE Resources!Tick
  BY <1>7 DEF Resources!Tick, Resources!Time, Catalog
<1>8. CASE UNCHANGED Resources!vars
  BY <1>8 DEF Resources!vars
<1> QED
  BY <1>1, <1>2, <1>3, <1>4, <1>5, <1>6, <1>7, <1>8 DEF Resources!Next

\* A step that takes a request from one stage to another and leaves its
\* parameters, or ends it.
ResourcesMoves(r, step) == Resources!Goto(r, step) /\ UNCHANGED req

\* Every step leaves every request at a stage of its operation.
LEMMA QuotaStageStep == ASSUME Catalog
    PROVE ResourcesInv /\ [Resources!Next]_(Resources!vars) => \A r \in Requester :
        QuotaStage(r)'
<1> SUFFICES ASSUME Resources!TypeOK, \A r \in Requester : QuotaStage(r),
        [Resources!Next]_(Resources!vars), NEW q \in Requester
             PROVE  QuotaStage(q)'
  BY DEF ResourcesInv
<1> USE DEF Resources!TypeOK, Resources!NoParams, QuotaStage
<1>0. now \in Nat
  BY DEF Catalog, Resources!Time
<1>1. ASSUME NEW r \in Requester, Resources!RequestProject(r)
        \/ Resources!RequestKey(r) PROVE QuotaStage(q)'
  BY <1>0, <1>1 DEF Resources!RequestProject, Resources!RequestKey, Resources!Kind,
      Resources!Time, Catalog
<1>2. ASSUME NEW r \in Requester, Resources!EditProject(r)
        \/ Resources!RequestRevoke(r) \/ Resources!RequestPlan(r)
      PROVE  QuotaStage(q)'
  BY <1>2 DEF Resources!EditProject, Resources!RequestRevoke, Resources!RequestPlan
<1>3. ASSUME NEW r \in Requester, Resources!Finish(r), UNCHANGED now PROVE QuotaStage(q)'
  BY <1>3
<1>4. ASSUME NEW r \in Requester, Resources!ReadPlan(r), ~Resources!Finish(r) PROVE QuotaStage(q)'
  <2>1. /\ req' = [req EXCEPT ![r] = [req[r] EXCEPT !.plan = plan]]
        /\ Resources!Goto(r, "planned") /\ UNCHANGED now
            /\ req[r] \in Resources!Params /\ req[r].op = "create"
    BY <1>4 DEF Resources!ReadPlan
  <2>2. /\ req'[r].op = "create" /\ req'[r].kind = req[r].kind
        /\ req'[r].read = req[r].read /\ req'[r].expires = req[r].expires
    BY <2>1, PlannedParams
  <2> QED
    BY <2>1, <2>2
<1>5. ASSUME NEW r \in Requester, UNCHANGED now,
             \/ req[r].op = "create" /\ pc[r] # "idle"
                /\ \E s \in {"queued", "counted"} : ResourcesMoves(r, s)
             \/ req[r].op \in {"rename", "delete", "revoke", "plan"}
                 /\ ResourcesMoves(r, "locked")
      PROVE  QuotaStage(q)'
  BY <1>5 DEF ResourcesMoves
<1>6. CASE Resources!Tick
  BY <1>0, <1>6 DEF Resources!Tick, Resources!Time, Catalog
<1>7. CASE UNCHANGED Resources!vars
  BY <1>7 DEF Resources!vars
<1> QED
  BY <1>1, <1>2, <1>3, <1>4, <1>5, <1>6, <1>7
  DEF Resources!Next, Resources!LockQuota, Resources!ReadPlan, Resources!Count,
      Resources!CommitCreate, Resources!LockRow, Resources!CommitRow,
      Resources!LockPlan,
      Resources!CommitPlan, Resources!Fail, ResourcesMoves

\* A step is of one request; the others stay where they are.
ResourcesStepOf(r) == \A q \in Requester \ {r} : pc'[q] = pc[q] /\ req'[q] = req[q]

\* One creation of a kind has the advisory lock, whoever moves.
LEMMA QuotaExclusiveStep == ASSUME Catalog
    PROVE ResourcesInv /\ [Resources!Next]_(Resources!vars) => QuotaIsExclusive'
<1> SUFFICES ASSUME ResourcesInv, [Resources!Next]_(Resources!vars) PROVE QuotaIsExclusive'
  OBVIOUS
<1>0. Resources!TypeOK /\ QuotaIsExclusive /\ \A r \in Requester : QuotaStage(r)
  BY DEF ResourcesInv
<1> USE <1>0 DEF Resources!TypeOK
<1>1. ASSUME NEW r \in Requester, ResourcesStepOf(r), \A k \in Resources!Kind :
        Resources!HoldsQuota(r, k)' => Resources!HoldsQuota(r, k)
      PROVE  QuotaIsExclusive'
  BY <1>1 DEF ResourcesStepOf, QuotaIsExclusive, Resources!HoldsQuota, Resources!Creates
<1>2. ASSUME NEW r \in Requester, Resources!LockQuota(r) PROVE QuotaIsExclusive'
  BY <1>2 DEF Resources!LockQuota, QuotaIsExclusive, Resources!HoldsQuota, Resources!Creates
<1>3. ASSUME NEW r \in Requester, Resources!ReadPlan(r), ~Resources!Finish(r)
        PROVE QuotaIsExclusive'
  <2>1. /\ req' = [req EXCEPT ![r] = [req[r] EXCEPT !.plan = plan]]
        /\ pc[r] = "queued" /\ pc' = [pc EXCEPT ![r] = "planned"] /\ req[r] \in Resources!Params
        /\ req[r].op = "create"
    BY <1>3 DEF Resources!ReadPlan, QuotaStage, Resources!NoParams
  <2>2. req'[r].op = "create" /\ req'[r].kind = req[r].kind
    BY <2>1, PlannedParams
  <2> QED
    BY <1>1, <2>1, <2>2 DEF ResourcesStepOf, Resources!HoldsQuota, Resources!Creates
<1>4. ASSUME NEW r \in Requester, Resources!Count(r) PROVE QuotaIsExclusive'
  BY <1>1, <1>4 DEF Resources!Count, ResourcesStepOf, Resources!HoldsQuota,
      Resources!Creates, Resources!NoParams
<1>5. ASSUME NEW r \in Requester, Resources!Finish(r) PROVE QuotaIsExclusive'
  BY <1>1, <1>5 DEF ResourcesStepOf, Resources!HoldsQuota, Resources!Creates, Resources!NoParams
<1>6. ASSUME NEW r \in Requester, NEW p, Resources!Start(r, p) PROVE QuotaIsExclusive'
  BY <1>1, <1>6 DEF ResourcesStepOf, Resources!HoldsQuota, Resources!Creates
<1>7. ASSUME NEW r \in Requester, ResourcesMoves(r, "locked") PROVE QuotaIsExclusive'
  BY <1>1, <1>7 DEF ResourcesMoves, ResourcesStepOf, Resources!HoldsQuota, Resources!Creates
<1>8. ASSUME UNCHANGED <<pc, req>> PROVE QuotaIsExclusive'
  BY <1>8 DEF QuotaIsExclusive, Resources!HoldsQuota, Resources!Creates
<1> QED
  BY <1>2, <1>3, <1>4, <1>5, <1>6, <1>7, <1>8
  DEF Resources!Next, Resources!RequestProject, Resources!RequestKey,
      Resources!EditProject, Resources!RequestRevoke, Resources!RequestPlan,
      Resources!ReadPlan,
      Resources!CommitCreate, Resources!LockRow, Resources!CommitRow,
      Resources!LockPlan, Resources!CommitPlan, Resources!Fail, Resources!Tick,
      Resources!vars, ResourcesMoves

\* Nobody changes the plan while a creation has its row FOR SHARE.
LEMMA PlanCurrentStep == ASSUME Catalog
    PROVE ResourcesInv /\ [Resources!Next]_(Resources!vars) => PlanIsCurrent'
<1> SUFFICES ASSUME ResourcesInv, [Resources!Next]_(Resources!vars) PROVE PlanIsCurrent'
  OBVIOUS
<1>0. Resources!TypeOK /\ PlanIsCurrent /\ \A r \in Requester : QuotaStage(r)
  BY DEF ResourcesInv
<1> USE <1>0 DEF Resources!TypeOK
<1>1. ASSUME NEW r \in Requester, ResourcesStepOf(r), UNCHANGED plan,
             Resources!SharesPlan(r)' => Resources!SharesPlan(r) /\ req'[r] = req[r],
             Resources!HoldsPlan(r)' => Resources!HoldsPlan(r)
      PROVE  PlanIsCurrent'
  BY <1>1 DEF ResourcesStepOf, PlanIsCurrent, Resources!SharesPlan, Resources!HoldsPlan
<1>2. ASSUME NEW r \in Requester, Resources!LockPlan(r) PROVE PlanIsCurrent'
  BY <1>2 DEF Resources!LockPlan, PlanIsCurrent, Resources!SharesPlan, Resources!HoldsPlan
<1>3. ASSUME NEW r \in Requester, Resources!ReadPlan(r), ~Resources!Finish(r) PROVE PlanIsCurrent'
  <2>1. /\ req' = [req EXCEPT ![r] = [req[r] EXCEPT !.plan = plan]]
        /\ pc' = [pc EXCEPT ![r] = "planned"] /\ req[r] \in Resources!Params
            /\ req[r].op = "create"
        /\ req[r].kind = "api_keys" => plan \in KeyPlans
        /\ UNCHANGED plan /\ \A q \in Requester : ~Resources!HoldsPlan(q)
    BY <1>3 DEF Resources!ReadPlan, QuotaStage, Resources!NoParams
  <2>2. req'[r].op = "create" /\ req'[r].kind = req[r].kind /\ req'[r].plan = plan
    BY <2>1, PlannedParams
  <2> QED
    BY <2>1, <2>2 DEF PlanIsCurrent, Resources!SharesPlan, Resources!HoldsPlan
<1>4. ASSUME NEW r \in Requester, Resources!Count(r) PROVE PlanIsCurrent'
  BY <1>1, <1>4 DEF Resources!Count, ResourcesStepOf, Resources!SharesPlan,
      Resources!HoldsPlan, Resources!NoParams
<1>5. ASSUME NEW r \in Requester, Resources!Finish(r), UNCHANGED plan PROVE PlanIsCurrent'
  BY <1>1, <1>5 DEF ResourcesStepOf, Resources!SharesPlan, Resources!HoldsPlan, Resources!NoParams
<1>6. ASSUME NEW r \in Requester, NEW p, Resources!Start(r, p), UNCHANGED plan
        PROVE PlanIsCurrent'
  BY <1>1, <1>6 DEF ResourcesStepOf, Resources!SharesPlan, Resources!HoldsPlan
<1>7. ASSUME NEW r \in Requester, Resources!LockQuota(r) \/ Resources!LockRow(r)
        PROVE PlanIsCurrent'
  BY <1>1, <1>5, <1>7 DEF Resources!LockQuota, Resources!LockRow, ResourcesStepOf,
      Resources!SharesPlan, Resources!HoldsPlan
<1>8. ASSUME NEW r \in Requester, Resources!CommitPlan(r) PROVE PlanIsCurrent'
  <2>1. Resources!HoldsPlan(r)
    BY <1>8 DEF Resources!CommitPlan, Resources!HoldsPlan
  <2>2. \A q \in Requester : ~Resources!SharesPlan(q)
    BY <2>1 DEF PlanIsCurrent
  <2> QED
    BY <1>8, <2>2 DEF Resources!CommitPlan, PlanIsCurrent, Resources!SharesPlan
<1>9. ASSUME UNCHANGED <<plan, pc, req>> PROVE PlanIsCurrent'
  BY <1>9 DEF PlanIsCurrent, Resources!SharesPlan, Resources!HoldsPlan
<1> QED
  BY <1>2, <1>3, <1>4, <1>5, <1>6, <1>7, <1>8, <1>9
  DEF Resources!Next, Resources!RequestProject, Resources!RequestKey,
      Resources!EditProject, Resources!RequestRevoke, Resources!RequestPlan,
      Resources!ReadPlan,
      Resources!CommitCreate, Resources!CommitRow, Resources!Fail, Resources!Tick, Resources!vars

\* A row that is locked stays live until its holder commits.
LEMMA RowExclusiveStep == ASSUME Catalog
    PROVE ResourcesInv /\ [Resources!Next]_(Resources!vars) => RowIsExclusive'
<1> SUFFICES ASSUME ResourcesInv, [Resources!Next]_(Resources!vars) PROVE RowIsExclusive'
  OBVIOUS
<1>0. Resources!TypeOK /\ RowIsExclusive /\ \A r \in Requester : QuotaStage(r)
  BY DEF ResourcesInv
<1> USE <1>0 DEF Resources!TypeOK, RowIsExclusive
<1>1. ASSUME NEW r \in Requester, ResourcesStepOf(r),
             \A x \in Project \cup ApiKey : Resources!HoldsRow(r, x)' => Resources!HoldsRow(r, x),
             \A x \in Project \cup ApiKey : \A q \in Requester \ {r} :
                Resources!HoldsRow(q, x) /\ rows[x].state = "live" => rows'[x].state = "live",
             \A x \in Project \cup ApiKey :
                Resources!HoldsRow(r, x)' /\ rows[x].state = "live" => rows'[x].state = "live"
      PROVE  RowIsExclusive'
  BY <1>1 DEF ResourcesStepOf, Resources!HoldsRow
<1>2. ASSUME NEW r \in Requester, Resources!LockRow(r), ~Resources!Finish(r) PROVE RowIsExclusive'
  BY <1>2 DEF Resources!LockRow, Resources!HoldsRow
<1>3. ASSUME NEW r \in Requester, Resources!Finish(r), UNCHANGED rows PROVE RowIsExclusive'
  BY <1>1, <1>3 DEF ResourcesStepOf, Resources!HoldsRow, Resources!NoParams
<1>4. ASSUME NEW r \in Requester, NEW p, Resources!Start(r, p), UNCHANGED rows
        PROVE RowIsExclusive'
  BY <1>1, <1>4 DEF ResourcesStepOf, Resources!HoldsRow
<1>5. ASSUME NEW r \in Requester, UNCHANGED rows,
             Resources!LockQuota(r) \/ Resources!LockPlan(r) \/ Resources!Count(r)
                 \/ Resources!ReadPlan(r)
      PROVE  RowIsExclusive'
  <2>1. CASE Resources!Finish(r)
    BY <1>3, <1>5, <2>1
  <2>2. CASE ~Resources!Finish(r)
    BY <1>1, <1>5, <2>2 DEF Resources!LockQuota, Resources!LockPlan, Resources!Count,
        Resources!ReadPlan, ResourcesStepOf, Resources!HoldsRow
  <2> QED
    BY <2>1, <2>2
<1>6. ASSUME NEW r \in Requester, Resources!CommitCreate(r) PROVE RowIsExclusive'
  <2>1. \A x \in Project \cup ApiKey : rows[x].state = "live" => rows'[x] = rows[x]
    BY <1>6 DEF Resources!CommitCreate
  <2> QED
    BY <1>1, <1>6, <2>1 DEF Resources!CommitCreate, ResourcesStepOf,
        Resources!HoldsRow, Resources!NoParams
<1>7. ASSUME NEW r \in Requester, Resources!CommitRow(r) PROVE RowIsExclusive'
  <2>1. Resources!HoldsRow(r, req[r].id) /\ req[r].id \in Project \cup ApiKey
    BY <1>7 DEF Resources!CommitRow, Resources!HoldsRow, QuotaStage
  <2>2. \A x \in Project \cup ApiKey : x # req[r].id => rows'[x] = rows[x]
    BY <1>7 DEF Resources!CommitRow
  <2>3. \A q \in Requester \ {r} : ~Resources!HoldsRow(q, req[r].id)
    BY <2>1
  <2> QED
    BY <1>1, <1>7, <2>2, <2>3 DEF Resources!CommitRow, ResourcesStepOf,
        Resources!HoldsRow, Resources!NoParams
<1>8. ASSUME UNCHANGED <<rows, pc, req>> PROVE RowIsExclusive'
  BY <1>8 DEF Resources!HoldsRow
<1> QED
  BY <1>2, <1>3, <1>4, <1>5, <1>6, <1>7, <1>8
  DEF Resources!Next, Resources!RequestProject, Resources!RequestKey,
      Resources!EditProject, Resources!RequestRevoke, Resources!RequestPlan,
      Resources!LockQuota,
      Resources!LockPlan, Resources!Count, Resources!ReadPlan, Resources!LockRow,
      Resources!CommitPlan, Resources!Fail, Resources!Tick, Resources!vars

\* What is counted is finitely many rows of its kind.
LEMMA ActiveFinite ==
  ASSUME Catalog, NEW k \in Resources!Kind, NEW t
  PROVE  /\ IsFiniteSet(Resources!ActiveAt(k, t)) /\ Cardinality(Resources!ActiveAt(k, t)) \in Nat
         /\ \A S \in SUBSET Resources!ActiveAt(k, t) :
             Cardinality(S) <= Cardinality(Resources!ActiveAt(k, t))
<1>1. IsFiniteSet(Resources!Ids[k])
  BY DEF Catalog, Resources!Kind, Resources!Ids
<1>2. IsFiniteSet(Resources!ActiveAt(k, t))
  BY <1>1, FS_Subset DEF Resources!ActiveAt
<1> QED
  BY <1>2, FS_Subset, FS_CardinalityType

\* Only a creation of the kind adds to what counts.
LEMMA OthersOnlyTake ==
  ASSUME Catalog, ResourcesInv, [Resources!Next]_(Resources!vars),
      NEW k \in Resources!Kind, NEW t,
         \A r \in Requester : Resources!CommitCreate(r) => req[r].kind # k
  PROVE  \A x \in Resources!Ids[k] : rows'[x].state = "live" /\ rows'[x].expires > t =>
            rows[x].state = "live" /\ rows[x].expires > t
<1>0. Resources!Ids[k] \subseteq Project \cup ApiKey /\ Resources!TypeOK
  BY DEF Resources!Kind, Resources!Ids, ResourcesInv
<1>1. ASSUME NEW r \in Requester, Resources!CommitCreate(r)
      PROVE  \A x \in Resources!Ids[k] : rows'[x] = rows[x]
  <2>1. req[r].kind \in Resources!Kind /\ req[r].kind # k
    BY <1>1 DEF Resources!CommitCreate, ResourcesInv, QuotaStage
  <2>2. Resources!Ids[req[r].kind] \cap Resources!Ids[k] = {}
    BY <2>1 DEF Resources!Kind, Resources!Ids, Catalog
  <2> QED
    BY <1>0, <1>1, <2>2 DEF Resources!CommitCreate, Resources!TypeOK
<1>2. ASSUME NEW r \in Requester, Resources!CommitRow(r)
      PROVE  \A x \in Resources!Ids[k] : /\ rows'[x].expires = rows[x].expires
                               /\ rows'[x].state \in {rows[x].state, "ended"}
  BY <1>0, <1>2 DEF Resources!CommitRow, Resources!TypeOK, Resources!Row
<1>3. CASE UNCHANGED rows
  BY <1>3
<1> QED
  BY <1>1, <1>2, <1>3
  DEF Resources!Next, Resources!RequestProject, Resources!RequestKey,
      Resources!EditProject, Resources!RequestRevoke, Resources!RequestPlan,
      Resources!LockQuota,
      Resources!LockPlan, Resources!Count, Resources!ReadPlan, Resources!LockRow,
      Resources!CommitPlan, Resources!Fail, Resources!Tick, Resources!vars

\* The count a creation was let through with holds until its commit: another
\* creation of the kind would need the lock it has.
LEMMA CountHoldsStep == ASSUME Catalog
    PROVE ResourcesInv /\ [Resources!Next]_(Resources!vars) => CountHolds'
<1> SUFFICES ASSUME ResourcesInv, [Resources!Next]_(Resources!vars),
        NEW r \in Requester, pc'[r] = "counted"
             PROVE  Cardinality(Resources!ActiveAt(req[r].kind, req[r].read)')
                       < Resources!Limit(req[r].plan, req[r].kind)'
  BY DEF CountHolds
<1>0. Resources!TypeOK /\ QuotaStage(r) /\ QuotaIsExclusive /\ PlanIsCurrent /\ CountHolds
  BY DEF ResourcesInv
<1>1. req'[r] = req[r] /\ pc[r] \in {"planned", "counted"}
  <2> USE <1>0 DEF Resources!TypeOK
  <2>1. ASSUME NEW q \in Requester,
               \/ Resources!RequestProject(q) \/ Resources!RequestKey(q)
               \/ Resources!EditProject(q) \/ Resources!RequestRevoke(q)
               \/ Resources!RequestPlan(q)
        PROVE  req'[r] = req[r] /\ pc[r] \in {"planned", "counted"}
    <3>1. pc'[q] # "counted" /\ \A p \in Requester \ {q} : pc'[p] = pc[p] /\ req'[p] = req[p]
      BY <2>1 DEF Resources!RequestProject, Resources!RequestKey, Resources!EditProject,
          Resources!RequestRevoke, Resources!RequestPlan
    <3> QED
      BY <3>1
  <2>2. ASSUME NEW q \in Requester,
               \/ Resources!LockQuota(q) \/ Resources!ReadPlan(q) \/ Resources!Count(q)
               \/ Resources!LockRow(q) \/ Resources!LockPlan(q)
        PROVE  req'[r] = req[r] /\ pc[r] \in {"planned", "counted"}
    BY <2>2 DEF Resources!LockQuota, Resources!LockPlan, Resources!Count, Resources!ReadPlan,
        Resources!LockRow
  <2>3. ASSUME NEW q \in Requester,
               \/ Resources!CommitCreate(q) \/ Resources!CommitRow(q) \/ Resources!CommitPlan(q)
               \/ Resources!Fail(q)
        PROVE  req'[r] = req[r] /\ pc[r] \in {"planned", "counted"}
    <3>1. pc'[q] # "counted" /\ \A p \in Requester \ {q} : pc'[p] = pc[p] /\ req'[p] = req[p]
      BY <2>3 DEF Resources!CommitCreate, Resources!CommitRow, Resources!CommitPlan,
          Resources!Fail, Resources!Finish
    <3> QED
      BY <3>1
  <2>4. CASE Resources!Tick \/ UNCHANGED Resources!vars
    BY <2>4 DEF Resources!Tick, Resources!vars
  <2> QED
    BY <2>1, <2>2, <2>3, <2>4 DEF Resources!Next
<1>2. req[r].op = "create" /\ req[r].kind \in Resources!Kind /\ req[r].plan = plan
  BY <1>0, <1>1 DEF QuotaStage, PlanIsCurrent, Resources!SharesPlan
<1> DEFINE k == req[r].kind
           t == req[r].read
<1>3. Resources!Limit(plan, k) \in Nat
  BY <1>0, <1>2 DEF Catalog, Resources!TypeOK, Resources!Limit, Resources!Kind
<1>4. Cardinality(Resources!ActiveAt(k, t)) < Resources!Limit(plan, k)
  <2>1. CASE pc[r] = "counted"
    BY <1>0, <1>2, <2>1 DEF CountHolds
  <2>2. CASE pc[r] = "planned"
    <3>1. Resources!Count(r) /\ ~Resources!Finish(r)
      BY <1>0, <2>2
      DEF Resources!TypeOK, Resources!Next, Resources!RequestProject,
          Resources!RequestKey, Resources!EditProject, Resources!RequestRevoke,
          Resources!RequestPlan,
          Resources!LockQuota, Resources!LockPlan, Resources!Count, Resources!ReadPlan,
          Resources!CommitCreate, Resources!LockRow, Resources!CommitRow,
          Resources!CommitPlan,
          Resources!Fail, Resources!Tick, Resources!vars
    <3>2. ~(Cardinality(Resources!ActiveAt(k, t)) >= Resources!Limit(plan, k))
      BY <1>2, <3>1 DEF Resources!Count, Resources!Cardinality, Cardinality
    <3>3. Cardinality(Resources!ActiveAt(k, t)) \in Nat
      BY <1>2, ActiveFinite
    <3> QED
      BY <1>3, <3>2, <3>3
  <2> QED
    BY <1>1, <2>1, <2>2
<1>5. \A q \in Requester : Resources!CommitCreate(q) => req[q].kind # k
  <2> SUFFICES ASSUME NEW q \in Requester, Resources!CommitCreate(q), req[q].kind = k PROVE FALSE
    OBVIOUS
  <2>1. Resources!HoldsQuota(q, k) /\ Resources!HoldsQuota(r, k)
    BY <1>1, <1>2 DEF Resources!CommitCreate, Resources!HoldsQuota, Resources!Creates,
        ResourcesInv, QuotaStage
  <2>2. q = r
    BY <1>0, <1>2, <2>1 DEF QuotaIsExclusive
  <2> QED
    BY <1>0, <2>2 DEF Resources!CommitCreate, Resources!TypeOK
<1>6. {x \in Resources!Ids[k] : rows'[x].state = "live" /\ rows'[x].expires > t} \in SUBSET Resources!ActiveAt(k, t)
  BY <1>2, <1>5, OthersOnlyTake DEF Resources!ActiveAt
<1>7. Resources!ActiveAt(req[r].kind, req[r].read)'
         = {x \in Resources!Ids[k] : rows'[x].state = "live" /\ rows'[x].expires > t}
  BY <1>1 DEF Resources!ActiveAt
<1>8. Cardinality(Resources!ActiveAt(req[r].kind, req[r].read)') <= Cardinality(Resources!ActiveAt(k, t))
  BY <1>2, <1>6, <1>7, ActiveFinite
<1>9. Cardinality(Resources!ActiveAt(k, t)) \in Nat
      /\ Cardinality(Resources!ActiveAt(req[r].kind, req[r].read)') \in Nat
  BY <1>2, <1>6, <1>7, ActiveFinite, FS_Subset, FS_CardinalityType
<1>10. Resources!Limit(req[r].plan, req[r].kind)' = Resources!Limit(plan, k)
  BY <1>1, <1>2 DEF Resources!Limit
<1> QED
  BY <1>3, <1>4, <1>8, <1>9, <1>10

\* The invariant holds in every behaviour.
LEMMA ResourcesStays ==
  ASSUME Catalog PROVE ResourcesInv /\ [Resources!Next]_(Resources!vars) => ResourcesInv'
BY ResourcesTypeStep, QuotaStageStep, QuotaExclusiveStep, PlanCurrentStep, RowExclusiveStep,
   CountHoldsStep DEF ResourcesInv

\* What was deleted or revoked is never written again: a second deletion or a
\* rename that waited for the row finds it gone (softDeleteProject,
\* updateProject, revokeApiKey).
LEMMA EndedStays ==
  ASSUME Catalog
  PROVE  ResourcesInv /\ [Resources!Next]_(Resources!vars) => Resources!KeepsEnded
<1> SUFFICES ASSUME ResourcesInv, [Resources!Next]_(Resources!vars),
                    NEW x \in Project \cup ApiKey, rows[x].state = "ended"
             PROVE  rows'[x] = rows[x]
  BY DEF Resources!KeepsEnded
<1>1. ASSUME NEW r \in Requester, Resources!CommitCreate(r) PROVE rows'[x] = rows[x]
  BY <1>1 DEF Resources!CommitCreate
<1>2. ASSUME NEW r \in Requester, Resources!CommitRow(r) PROVE rows'[x] = rows[x]
  <2>1. Resources!HoldsRow(r, req[r].id) /\ req[r].id \in Project \cup ApiKey
    BY <1>2 DEF Resources!CommitRow, Resources!HoldsRow, ResourcesInv, QuotaStage
  <2>2. rows[req[r].id].state = "live"
    BY <2>1 DEF ResourcesInv, RowIsExclusive
  <2> QED
    BY <1>2, <2>2 DEF Resources!CommitRow, ResourcesInv, Resources!TypeOK
<1>3. CASE UNCHANGED rows
  BY <1>3
<1> QED
  BY <1>1, <1>2, <1>3
  DEF Resources!Next, Resources!RequestProject, Resources!RequestKey,
      Resources!EditProject, Resources!RequestRevoke, Resources!RequestPlan,
      Resources!LockQuota,
      Resources!LockPlan, Resources!Count, Resources!ReadPlan, Resources!LockRow,
      Resources!CommitPlan, Resources!Fail, Resources!Tick, Resources!vars

------------------------------------------------------------------------------
\* What counts now, of each kind, as QuotaPolicy sees it.
Active == [k \in Resources!Kind |-> Resources!ActiveAt(k, now)]

\* A creation that commits adds one row to what counts, within the ceiling of
\* the plan in force; when its key has expired meanwhile it adds nothing.
LEMMA CreationIsCreate ==
  ASSUME Catalog, ResourcesInv, Resources!TypeOK', NEW r \in Requester, Resources!CommitCreate(r)
  PROVE  Resources!Quota!Next \/ UNCHANGED <<Active, plan>>
<1> DEFINE k == req[r].kind
<1>1. /\ pc[r] = "counted" /\ k \in Resources!Kind /\ req[r].read <= now
      /\ req[r].read \in Resources!Time
          /\ req[r].expires \in Resources!Time \cup {Resources!Never}
      /\ now \in Resources!Time /\ UNCHANGED <<plan, now>>
  BY DEF Resources!CommitCreate, ResourcesInv, QuotaStage, Resources!TypeOK
<1>2. /\ req[r].plan = plan /\ (k = "api_keys" => plan \in KeyPlans) /\ plan \in Plan
      /\ Cardinality(Resources!ActiveAt(k, req[r].read)) < Resources!Limit(plan, k)
  BY <1>1 DEF ResourcesInv, PlanIsCurrent, Resources!SharesPlan, CountHolds, Resources!TypeOK
<1>3. PICK x \in Resources!Ids[k] : /\ rows[x].state = "absent"
                          /\ rows' = [rows EXCEPT ![x] = [state |-> "live", by |-> r,
                                                          expires |-> req[r].expires]]
  BY DEF Resources!CommitCreate
<1>4. \A j \in Resources!Kind : Resources!Ids[j] \subseteq Project \cup ApiKey
        /\ (j # k => x \notin Resources!Ids[j])
  BY <1>1, <1>3 DEF Resources!Kind, Resources!Ids, Catalog
<1>5. /\ rows'[x].state = "live" /\ rows'[x].expires = req[r].expires
      /\ \A y \in Project \cup ApiKey : y # x => rows'[y] = rows[y]
  BY <1>1, <1>3, <1>4 DEF ResourcesInv, Resources!TypeOK
<1>6. \A j \in Resources!Kind : Resources!ActiveAt(j, now)' =
         IF j = k /\ req[r].expires > now THEN Resources!ActiveAt(j, now) \cup {x} ELSE Resources!ActiveAt(j, now)
  <2> SUFFICES ASSUME NEW j \in Resources!Kind, NEW y \in Resources!Ids[j]
               PROVE  rows'[y].state = "live" /\ rows'[y].expires > now <=>
                         \/ rows[y].state = "live" /\ rows[y].expires > now
                         \/ j = k /\ req[r].expires > now /\ y = x
    BY <1>1, <1>3 DEF Resources!ActiveAt
  <2>1. CASE y = x
    BY <1>3, <1>4, <1>5, <2>1
  <2>2. CASE y # x
    BY <1>4, <1>5, <2>2
  <2> QED
    BY <2>1, <2>2
<1>7. CASE ~(req[r].expires > now)
  <2>1. \A j \in Resources!Kind : Resources!ActiveAt(j, now)' = Resources!ActiveAt(j, now)
    BY <1>6, <1>7
  <2> QED
    BY <1>1, <2>1 DEF Active
<1>8. CASE req[r].expires > now
  <2>1. Active' = [Active EXCEPT ![k] = Active[k] \cup {x}]
    BY <1>1, <1>6, <1>8 DEF Active
  <2>2. \A j \in Resources!Kind : x \notin Active[j]
    BY <1>3 DEF Active, Resources!ActiveAt
  <2>3. Cardinality(Active[k]) < Resources!Limit(plan, k)
    <3>1. Resources!ActiveAt(k, now) \in SUBSET Resources!ActiveAt(k, req[r].read)
      <4>1. \A y \in Resources!Ids[k] : rows[y].expires \in Nat
        BY <1>1, <1>4 DEF ResourcesInv, Resources!TypeOK, Resources!Row,
            Resources!Time, Resources!Never, Catalog
      <4>2. now \in Nat /\ req[r].read \in Nat
        BY <1>1 DEF Resources!Time
      <4> QED
        BY <1>1, <4>1, <4>2 DEF Resources!ActiveAt
    <3>2. /\ Cardinality(Resources!ActiveAt(k, now)) <= Cardinality(Resources!ActiveAt(k, req[r].read))
          /\ Cardinality(Resources!ActiveAt(k, now)) \in Nat
          /\ Cardinality(Resources!ActiveAt(k, req[r].read)) \in Nat
      BY <1>1, <3>1, ActiveFinite
    <3>3. Resources!Limit(plan, k) \in Nat
      BY <1>1, <1>2 DEF Resources!Limit, Catalog, Resources!Kind
    <3>4. Active[k] = Resources!ActiveAt(k, now)
      BY <1>1 DEF Active
    <3> QED
      BY <1>2, <3>2, <3>3, <3>4
  <2>4. Resources!Limit(plan, k) = [projects |-> MaxProjects[plan],
                          api_keys |-> IF plan \in KeyPlans THEN MaxKeys[plan] ELSE 0][k]
    BY <1>1, <1>2 DEF Resources!Limit, Resources!Kind
  <2>5. Resources!Quota!Cardinality(Active[k]) = Cardinality(Active[k])
    BY Zenon DEF Resources!Quota!Cardinality, Cardinality
  <2>6. Resources!Quota!Cardinality(Active[k]) <
          [p \in Plan |-> [projects |-> MaxProjects[p],
                           api_keys |-> IF p \in KeyPlans THEN MaxKeys[p] ELSE 0]][plan][k]
    BY <1>2, <2>3, <2>4, <2>5
  <2>7. Resources!Quota!Create(k, x)
    BY <1>1, <2>1, <2>2, <2>6 DEF Resources!Quota!Create, Active
  <2> QED
    BY <1>1, <1>4, <2>7 DEF Resources!Quota!Next
<1> QED
  BY <1>7, <1>8

\* The initial states are those of QuotaPolicy.
LEMMA QuotaInit == ASSUME Catalog PROVE Resources!Init => Resources!Quota!Init
<1> SUFFICES ASSUME Resources!Init PROVE Resources!Quota!Init
  OBVIOUS
<1>1. \A k \in Resources!Kind : Resources!ActiveAt(k, now) = {}
  BY DEF Resources!Init, Resources!NoRow, Resources!ActiveAt, Resources!Kind, Resources!Ids
<1> QED
  BY <1>1 DEF Resources!Init, Catalog, Resources!Quota!Init

\* Resources implements QuotaPolicy: a resource is created only while there is
\* room for it under the plan in force at the commit (createProject,
\* createApiKey).
LEMMA QuotaStep ==
  ASSUME Catalog
  PROVE  ResourcesInv /\ Resources!TypeOK' /\ [Resources!Next]_(Resources!vars)
            => [Resources!Quota!Next]_(Resources!Quota!vars)
<1> SUFFICES ASSUME ResourcesInv, Resources!TypeOK', [Resources!Next]_(Resources!vars),
        ~UNCHANGED <<Active, plan>>
             PROVE  Resources!Quota!Next
  BY DEF Resources!Quota!vars, Active
<1>1. ASSUME NEW r \in Requester, Resources!CommitCreate(r) PROVE Resources!Quota!Next
  BY <1>1, CreationIsCreate
<1>2. ASSUME NEW r \in Requester, Resources!CommitPlan(r) PROVE Resources!Quota!Next
  <2>1. req[r].plan \in Plan
    BY <1>2 DEF Resources!CommitPlan, ResourcesInv, QuotaStage
  <2>2. Active' = Active
    BY <1>2 DEF Resources!CommitPlan, Active, Resources!ActiveAt
  <2> QED
    BY <1>2, <2>1, <2>2 DEF Resources!CommitPlan, Resources!Quota!Next,
        Resources!Quota!SetPlan, Active
<1>3. ASSUME UNCHANGED plan, now' \in Nat, now <= now',
             \A r \in Requester : ~Resources!CommitCreate(r)
      PROVE  Resources!Quota!Next
  <2>1. \A k \in Resources!Kind : Resources!ActiveAt(k, now)' \subseteq Resources!ActiveAt(k, now)
    <3> SUFFICES ASSUME NEW k \in Resources!Kind, NEW x \in Resources!Ids[k],
                        rows'[x].state = "live", rows'[x].expires > now'
                 PROVE  rows[x].state = "live" /\ rows[x].expires > now
      BY DEF Resources!ActiveAt
    <3>1. rows'[x].expires \in Nat /\ now \in Nat
      BY DEF Resources!TypeOK, ResourcesInv, Resources!Row, Resources!Time,
          Resources!Never, Catalog, Resources!Kind, Resources!Ids
    <3>2. rows'[x].expires > now
      BY <1>3, <3>1
    <3> QED
      BY <1>3, <3>2, OthersOnlyTake
  <2>2. Active' \in [Resources!Kind -> SUBSET (Project \cup ApiKey)]
    BY DEF Active, Resources!ActiveAt, Resources!Kind, Resources!Ids
  <2>3. \A k \in Resources!Kind : Active'[k] \subseteq Active[k]
    BY <2>1 DEF Active
  <2> QED
    BY <1>3, <2>2, <2>3 DEF Resources!Quota!Next, Resources!Quota!GiveUp, Active
<1>4. CASE Resources!Tick
  <2>1. UNCHANGED <<plan, pc>> /\ now' = now + 1 /\ now \in Nat
    BY <1>4 DEF Resources!Tick, ResourcesInv, Resources!TypeOK, Resources!Time
  <2>2. \A r \in Requester : ~Resources!CommitCreate(r)
    BY <1>4 DEF Resources!Tick, Resources!CommitCreate, Resources!Finish, ResourcesInv,
        Resources!TypeOK
  <2> QED
    BY <1>3, <2>1, <2>2
<1>5. ASSUME NEW r \in Requester, Resources!CommitRow(r) PROVE Resources!Quota!Next
  <2>1. UNCHANGED <<plan, now>> /\ now \in Nat
    BY <1>5 DEF Resources!CommitRow, ResourcesInv, Resources!TypeOK, Resources!Time
  <2>2. CASE \E q \in Requester : Resources!CommitCreate(q)
    BY <1>1, <2>2
  <2>3. CASE ~\E q \in Requester : Resources!CommitCreate(q)
    BY <1>3, <2>1, <2>3
  <2> QED
    BY <2>2, <2>3
<1>6. ASSUME UNCHANGED <<rows, now, plan>> PROVE FALSE
  BY <1>6 DEF Active, Resources!ActiveAt
<1> QED
  BY <1>1, <1>2, <1>4, <1>5, <1>6
  DEF Resources!Next, Resources!RequestProject, Resources!RequestKey,
      Resources!EditProject, Resources!RequestRevoke, Resources!RequestPlan,
      Resources!LockQuota,
      Resources!LockPlan, Resources!Count, Resources!ReadPlan, Resources!LockRow,
      Resources!Fail, Resources!vars

\* The quota as a whole: for a Resources of its own.
THEOREM QuotaImplemented == ASSUME Catalog PROVE Resources!Spec => Resources!ImplementsQuota
<1>1. ResourcesInv => Resources!TypeOK
  BY DEF ResourcesInv
<1> QED
  BY QuotaInit, ResourcesInit, ResourcesStays, QuotaStep, <1>1, PTL
     DEF Resources!Spec, Resources!ImplementsQuota, Resources!Quota!Spec

------------------------------------------------------------------------------
\* Every organization is created whole, under the first slug that was free, and no answer
\* of a creation is contradicted (organization.service.ts); no organization ever holds more
\* resources of a kind than its plan allows at the time of the request, and what has
\* ended stays ended (project.service.ts, api-key.service.ts, plan.service.ts), for any
\* requests, names, plans and clock.
THEOREM OrganizationsSound == Spec => OrganizationsAreSound
<1> DEFINE Prov == component = "provisioning" => ProvisioningInv
           Inv  == /\ Prov
                   /\ component = "resources" => ResourcesInv
           Promise == component = "provisioning" =>
                        /\ Provisioning!SlugsAreFirstFree /\ Provisioning!OrganizationsAreWhole
                        /\ Provisioning!AnswersHold
           Quota  == component = "resources" =>
                        /\ [Resources!Quota!Next]_(Resources!Quota!vars)
                        /\ Resources!KeepsEnded
           First == component = "resources" => Resources!Quota!Init
<1>1. Init => Inv /\ First
  BY ProvisioningInit, ResourcesInit, QuotaInit, ResourcesAssumption DEF Init
<1>2. Inv /\ [Next]_vars => Inv' /\ [Quota]_vars
  <2> SUFFICES ASSUME Inv, [Next]_vars PROVE Inv' /\ (Quota \/ UNCHANGED vars)
    OBVIOUS
  <2>1. CASE Next
    <3>1. component' = component
      BY <2>1 DEF Next
    <3>2. ASSUME component = "provisioning" PROVE ProvisioningInv'
      BY <2>1, <3>2, ProvisioningStays DEF Next
    <3>3. ASSUME component = "resources"
          PROVE  /\ ResourcesInv'
                 /\ [Resources!Quota!Next]_(Resources!Quota!vars) /\ Resources!KeepsEnded
      <4>1. ResourcesInv /\ Resources!Next
        BY <2>1, <3>3 DEF Next
      <4>2. ResourcesInv'
        BY <4>1, ResourcesStays, ResourcesAssumption
      <4>3. Resources!TypeOK'
        BY <4>2 DEF ResourcesInv
      <4> QED
        BY <4>1, <4>2, <4>3, EndedStays, QuotaStep, ResourcesAssumption
    <3> QED
      BY <3>1, <3>2, <3>3
  <2>2. CASE UNCHANGED vars
    <3>1. UNCHANGED component
      BY <2>2 DEF vars
    <3>2. ProvisioningInv => ProvisioningInv'
      BY <2>2, ProvisioningStutter DEF vars
    <3>3. UNCHANGED Resources!vars
      BY <2>2 DEF vars, Resources!vars
    <3>4. ResourcesInv => ResourcesInv'
      BY <3>3, ResourcesStays, ResourcesAssumption
    <3> QED
      BY <2>2, <3>1, <3>2, <3>4
  <2> QED
    BY <2>1, <2>2
<1>3. Inv => Promise
  BY ProvisioningPromise
<1> HIDE DEF Inv, Promise, Quota, First
<1>4. Spec => []Promise /\ First /\ [][Quota]_vars
  BY <1>1, <1>2, <1>3, PTL DEF Spec
<1> QED
  BY <1>4, PTL DEF OrganizationsAreSound, Promise, Quota, First

==============================================================================
