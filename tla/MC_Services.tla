----------------------------- MODULE MC_Services ------------------------------
(* A small instance of each component of Services. *)
EXTENDS Services, Sequences, TLC

CONSTANTS
    a1, a2, a3,    \* requests, callers, processes
    p1, p2,        \* users
    o1, o2         \* keys, sessions, secrets

MCSymmetry == Permutations({a1, a2}) \cup Permutations({p1, p2}) \cup Permutations({o1, o2})

MCFailureMode == [api_key |-> "closed", accounts |-> "open", access |-> "closed"]
MCMaxTimeOf   == [resources |-> 1, api_key |-> 2, pages |-> 2, rotation |-> 5, access |-> 1,
                  server |-> 4, retention |-> 4]

\* Two requests, one project, two keys; the smaller plan grants no keys.
MCMaxProjects == [free |-> 1, pro |-> 2]
MCMaxKeys     == [free |-> 0, pro |-> 1]

\* The global bucket and one of a key, two calls a window.
MCBucketLimit == [global |-> 2, key |-> 2]

\* One execution; two sessions, a token and an event of the first; batches of
\* one row and at most two of them.
MCTableOf   == [s1 |-> "sessions", s2 |-> "sessions", t1 |-> "refresh_tokens",
                e1 |-> "security_events"]
MCSessionOf == [s1 |-> None, s2 |-> None, t1 |-> "s1", e1 |-> "s1"]

\* Three requests for organizations named alike, or for the slug such a name becomes;
\* a search that knows two numbers.
MCBase     == {<<"acme">>}
MCExplicit == {<<"acme">>, <<"acme", 2>>}

\* Three of the secrets and two edits of a correct production environment.
MCNames == <<"JWT_SECRET", "JWT_PREVIOUS_SECRET", "SMTP_PASSWORD">>
MCRaw == [NODE_ENV |-> {"production", "prod", None}, COOKIE_SECURE |-> {"true", None},
          MAIL_DRIVER |-> {"smtp", "memory", None}, RATE_LIMIT_FAILURE_MODE |-> {"open", None},
          TRUST_PROXY |-> {"1", "true"}, MAIL_FROM_EMAIL |-> {"no-reply@company", None},
          WEB_DEMO_URL |-> {"https://company", "http://company"},
          RETENTION_SECURITY_EVENT_DAYS |-> {29, 30, None},
          RETENTION_CLEANUP_BATCH_SIZE |-> {50001, None}, RATE_LIMIT_MAX |-> {0, None}]
MCSetting == DOMAIN MCRaw
MCInitial ==
    LET text(t) == [text |-> t, endings |-> 0]
    IN [env |-> [direct |-> ("JWT_SECRET" :> text("strong") @@ "JWT_PREVIOUS_SECRET" :> None
                             @@ "SMTP_PASSWORD" :> None),
                 path |-> ("JWT_SECRET" :> FALSE @@ "JWT_PREVIOUS_SECRET" :> FALSE
                           @@ "SMTP_PASSWORD" :> TRUE),
                 setting |-> [NODE_ENV |-> "production", COOKIE_SECURE |-> "true",
                              MAIL_DRIVER |-> "smtp", RATE_LIMIT_FAILURE_MODE |-> None,
                              TRUST_PROXY |-> "1", MAIL_FROM_EMAIL |-> "no-reply@company",
                              WEB_DEMO_URL |-> "https://company",
                              RETENTION_SECURITY_EVENT_DAYS |-> None,
                              RETENTION_CLEANUP_BATCH_SIZE |-> None, RATE_LIMIT_MAX |-> None]],
        files |-> ("JWT_SECRET" :> [text |-> "other", endings |-> 1]
                   @@ "JWT_PREVIOUS_SECRET" :> None
                   @@ "SMTP_PASSWORD" :> [text |-> "short", endings |-> 1])]
=============================================================================
