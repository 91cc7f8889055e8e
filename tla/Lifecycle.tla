------------------------------ MODULE Lifecycle ------------------------------
(***************************************************************************)
(* One API process from listening to exit (server.ts) with its readiness   *)
(* probes: requests wait for PostgreSQL, probes for PostgreSQL and Redis,  *)
(* either dependency may be away for any time, and a signal starts a       *)
(* shutdown that closes the server, then the clients, and is cut short by  *)
(* a timer.  Handlers are one query here; what they do is in the others.   *)
(***************************************************************************)
EXTENDS Naturals

CONSTANTS
    Request, None,
    Timeout,   \* SHUTDOWN_TIMEOUT_MS
    MaxTime    \* bound on the clock

Dependency == {"postgres", "redis"}

VARIABLES
    now,
    up,         \* dependencies that answer
    server,     \* "listening", "closing", "draining" or "exited"
    code,       \* exit code of the process
    forceAt,    \* when the timer of the shutdown fires
    signalled,  \* history: when the first signal came
    request,    \* each request
    heard       \* history: dependencies that were up during the request

vars == <<now, up, server, code, forceAt, signalled, request, heard>>

Never == MaxTime + Timeout + 1
Idle  == [kind |-> "none", step |-> "idle", left |-> {}, ok |-> TRUE]

TypeOK ==
    /\ now \in 0 .. MaxTime /\ up \subseteq Dependency
    /\ server \in {"listening", "closing", "draining", "exited"} /\ code \in {0, 1, None}
    /\ {forceAt, signalled} \subseteq 0 .. Never
    /\ heard \in [Request -> SUBSET Dependency]
    /\ request \in [Request -> [kind : {"none", "work", "ready"}, ok : BOOLEAN,
                                step : {"idle", "running", "answered", "cut"},
                                left : SUBSET Dependency]]

Init ==
    /\ now = 0 /\ up \in SUBSET Dependency /\ server = "listening" /\ code = None
    /\ forceAt = Never /\ signalled = Never
    /\ request = [r \in Request |-> Idle] /\ heard = [r \in Request |-> {}]

-----------------------------------------------------------------------------
(* Requests *)

Running(r) == request[r].step = "running"
Pending    == {r \in Request : Running(r)}
process    == <<server, code, forceAt, signalled>>

\* A process that is closing takes no more requests.
Arrive(r) ==
    /\ server = "listening" /\ request[r].step \in {"idle", "answered"}
    /\ \E kind \in {"work", "ready"} :
          request' = [request EXCEPT ![r] =
              [kind |-> kind, step |-> "running", ok |-> TRUE,
               left |-> IF kind = "work" THEN {"postgres"} ELSE Dependency]]
    /\ heard' = [heard EXCEPT ![r] = up]
    /\ UNCHANGED <<now, up, process>>

\* A dependency answers or fails; one that is away may keep the caller waiting.
\* The pool is open until the shutdown ends it.
Hear(r, d) ==
    /\ Running(r) /\ d \in request[r].left /\ server # "exited"
    /\ \E ok \in BOOLEAN :
          /\ ok => d \in up /\ server # "draining"
          /\ request' = [request EXCEPT ![r].left = @ \ {d}, ![r].ok = @ /\ ok]
    /\ UNCHANGED <<now, up, process, heard>>

\* Mutant: one dependency is enough.
ReadyNow_Any(r) == request[r].ok \/ heard[r] # {}

\* evaluateReadiness: every probe passed.
ReadyNow(r) == request[r].ok

Respond(r) ==
    /\ Running(r) /\ request[r].left = {}
    /\ request' = [request EXCEPT ![r].step = "answered",
                      ![r].ok = IF request[r].kind = "ready" THEN ReadyNow(r) ELSE @]
    /\ UNCHANGED <<now, up, process, heard>>

-----------------------------------------------------------------------------
(* Shutdown *)

\* Mutant: the timer starts once the server is closed.
Signal_TimerLater ==
    /\ server \in {"listening", "closing", "draining"}
    /\ IF server # "listening" THEN UNCHANGED process
       ELSE server' = "closing" /\ signalled' = now /\ UNCHANGED <<code, forceAt>>
    /\ UNCHANGED <<now, up, request, heard>>

\* A signal during the shutdown is ignored.
Signal ==
    /\ server \in {"listening", "closing", "draining"}
    /\ IF server # "listening" THEN UNCHANGED process
       ELSE server' = "closing" /\ signalled' = now /\ forceAt' = now + Timeout /\ UNCHANGED code
    /\ UNCHANGED <<now, up, request, heard>>

\* Mutant: the server is closed without waiting for its requests.
Drained_Never == TRUE

\* app.close resolves when the requests under way are answered.
Drained == Pending = {}

CloseServer ==
    /\ server = "closing" /\ Drained
    /\ server' = "draining"
    /\ UNCHANGED <<now, up, code, forceAt, signalled, request, heard>>

\* The process ends; what still runs ends with it.
Exit(c) ==
    /\ server' = "exited" /\ code' = c
    /\ request' = [r \in Request |-> IF Running(r) THEN [request[r] EXCEPT !.step = "cut"]
                                     ELSE request[r]]
    /\ UNCHANGED <<now, up, forceAt, signalled, heard>>

\* sql.end, redis.disconnect, exit; sql.end gives up after a time of its own.
CloseClients == server = "draining" /\ Exit(0)

ForceExit == server \in {"closing", "draining"} /\ now = forceAt /\ Exit(1)

\* A rejected close is an unhandled rejection.
CloseFails == server \in {"closing", "draining"} /\ Exit(1)

-----------------------------------------------------------------------------
\* The timer fires when it is due.
Tick ==
    /\ now < MaxTime /\ (server \in {"closing", "draining"} => now # forceAt)
    /\ now' = now + 1
    /\ UNCHANGED <<up, process, request, heard>>

Flip(d) ==
    /\ up' = IF d \in up THEN up \ {d} ELSE up \cup {d}
    /\ heard' = [r \in Request |-> IF Running(r) THEN heard[r] \cup up' ELSE heard[r]]
    /\ UNCHANGED <<now, process, request>>

Next ==
    \/ \E r \in Request : Arrive(r) \/ Respond(r) \/ \E d \in Dependency : Hear(r, d)
    \/ Signal \/ CloseServer \/ CloseClients \/ ForceExit \/ CloseFails
    \/ Tick \/ \E d \in Dependency : Flip(d)

Spec == Init /\ [][Next]_vars

-----------------------------------------------------------------------------
\* The process is gone within the timeout of its first signal, however many
\* follow and whatever hangs; it exits with 0 only when every request it took
\* was answered; and it is ready only if every dependency was there meanwhile.
ShutdownIsOrderly ==
    /\ server # "exited" => now <= signalled + Timeout
    /\ code = 0 => \A r \in Request : request[r].step # "cut"
    /\ \A r \in Request : request[r].kind = "ready" /\ request[r].step = "answered" /\ request[r].ok
          => heard[r] = Dependency
=============================================================================
