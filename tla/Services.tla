------------------------------- MODULE Services -------------------------------
(***************************************************************************)
(* The components of the API and of the web client, and the retention      *)
(* sweep, that share no state with others, side by side.  A behaviour is   *)
(* one of one component, chosen in the initial state: each behaves as if   *)
(* it were alone.  The variables are those of all components, and one name *)
(* serves every component that uses it; a component leaves the variables   *)
(* of the others at None.                                                  *)
(*                                                                         *)
(* A constant keeps the name its component gives it where no other         *)
(* component uses that name for something else.                            *)
(***************************************************************************)
EXTENDS Integers, Sequences, FiniteSets

CONSTANTS
    Checked,                   \* the components explored
    None,
    Requester, Session,        \* of Resources, ApiKeyAuth, AccountRequests, Access, Lifecycle
    FailureMode, MaxTimeOf,    \* by component: its FailureMode, its MaxTime
    Project, ApiKey, Plan, MaxProjects, MaxKeys, KeyPlans, FirstPlan,      \* Resources
    ExpiresAt, Throttle,                                                   \* ApiKeyAuth
    Caller, LimitBucket, BucketLimit, OpenBuckets,                         \* RateLimiter
    List, Id, PageSize, PerMilli,                                          \* Pagination
    Tab, MaxRotation,                                                      \* WebClient
    Process, SigningSecret, Weak, FirstKey, Ttl,                           \* KeyRotation
    RegisteringKinds, Recovery, RecoveringKinds, MaxHits, MaxNotices, MaxWindow,
                                                                           \* AccountRequests
    User, AccessTtl, SessionTtl,                                           \* Access
    Timeout,                                                               \* Lifecycle
    Sweeper, SweptRow, TableOf, SessionOf, EventDays, SessionDays, BatchSize, MaxBatches,
    Selections, Lifetime, SweepStart,                                      \* Retention
    Creation, Base, SlugToken, Last, Explicit,                             \* Provisioning
    SecretNames, Setting, Raw, Initial, Texts, MaxEdits,                   \* Configuration
    Page, LinkToken, MaxTries                                              \* EmailedLinks

VARIABLES component, plan, rows, now, pc, req, revoked, orgActive, access,
    lastUsed, found, seen, hits, timed, up, call, passed, list, walk, cursor,
    page, shown, standing, cuts, newest, live, stale, cookie, status, user,
    token, flight, auth, tripped, lossy, env, keys, fresh, stage, since,
    retired, emergency, tokens, window, storeUp, account, job, notices, events,
    session, rotating, server, code, forceAt, signalled, request, heard,
    present, at, late, sweep, clock, disturbed, slugOf, committed, written, ask,
    suffix, answer, files, edits, container, record, next, issues, config,
    offered, kind, link, held, submitted, post, me, refreshed, alive, verified,
    consumed, posts, judged, adopted, expired, dropped

vars == <<component, plan, rows, now, pc, req, revoked, orgActive, access,
          lastUsed, found, seen, hits, timed, up, call, passed, list, walk,
          cursor, page, shown, standing, cuts, newest, live, stale, cookie,
          status, user, token, flight, auth, tripped, lossy, env, keys, fresh,
          stage, since, retired, emergency, tokens, window, storeUp, account,
          job, notices, events, session, rotating, server, code, forceAt,
          signalled, request, heard, present, at, late, sweep, clock, disturbed,
          slugOf, committed, written, ask, suffix, answer, files, edits,
          container, record, next, issues, config, offered, kind, link, held,
          submitted, post, me, refreshed, alive, verified, consumed, posts,
          judged, adopted, expired, dropped>>

-----------------------------------------------------------------------------
Resources     == INSTANCE Resources WITH
                   Request <- Requester, Key <- ApiKey, MaxTime <- MaxTimeOf.resources
ApiKeyAuth    == INSTANCE ApiKeyAuth WITH
                   Request <- Requester, FailureMode <- FailureMode.api_key,
                   MaxTime <- MaxTimeOf.api_key
RateLimiter   == INSTANCE RateLimiter WITH Bucket <- LimitBucket, Limit <- BucketLimit
Pagination    == INSTANCE Pagination WITH Limit <- PageSize, MaxTime <- MaxTimeOf.pages
WebClient     == INSTANCE WebClient
KeyRotation   == INSTANCE KeyRotation WITH Key <- SigningSecret, MaxTime <- MaxTimeOf.rotation
\* The public endpoints K, called by R.
Public(R, K) == INSTANCE AccountRequests WITH
                    Request <- R, Kinds <- K, FailureMode <- FailureMode.accounts
Access        == INSTANCE Access WITH
                   Request <- Requester, FailureMode <- FailureMode.access,
                   MaxTime <- MaxTimeOf.access
Lifecycle     == INSTANCE Lifecycle WITH Request <- Requester, MaxTime <- MaxTimeOf.server
Retention     == INSTANCE Retention WITH
                   Row <- SweptRow, Start <- SweepStart, MaxTime <- MaxTimeOf.retention
Provisioning  == INSTANCE Provisioning WITH Request <- Creation, Token <- SlugToken
Configuration == INSTANCE Configuration WITH Names <- SecretNames
EmailedLinks  == INSTANCE EmailedLinks WITH Kind <- Page, Token <- LinkToken

-----------------------------------------------------------------------------
\* What the code's schema and plan catalog give: two kinds of rows of their own,
\* finitely many, and a ceiling of each kind for each plan.
Catalog ==
    /\ IsFiniteSet(Project) /\ IsFiniteSet(ApiKey) /\ Project \cap ApiKey = {}
    /\ MaxProjects \in [Plan -> Nat] /\ MaxKeys \in [Plan -> Nat]
    /\ KeyPlans \subseteq Plan /\ FirstPlan \in Plan
    /\ MaxTimeOf.resources \in Nat /\ None \notin Plan

ASSUME ResourcesAssumption == Catalog
ASSUME ApiKeyAssumption == ExpiresAt \in Nat
ASSUME LimiterAssumption == BucketLimit \in [LimitBucket -> Nat]

\* One tab: the tabs of a browser do not coordinate their refreshes.
ASSUME WebAssumption ==
    /\ MaxRotation \in Nat \ {0} /\ None \notin WebClient!Token
    /\ \A t, u \in Tab : t = u

\* The kinds are of those AccountRequests knows.
ASSUME PublicAssumption ==
    /\ RegisteringKinds \subseteq Public(Requester, RegisteringKinds)!Endpoint
    /\ RecoveringKinds \subseteq Public(Recovery, RecoveringKinds)!Endpoint
    /\ IsFiniteSet(Requester) /\ MaxHits \in Nat /\ MaxNotices \in Nat /\ MaxWindow \in Nat

ASSUME AccessAssumption ==
    /\ None \notin User \cup Session
    /\ AccessTtl \in Nat /\ SessionTtl \in Nat /\ MaxTimeOf.access \in Nat

ASSUME ServerAssumption ==
    Timeout \in Nat /\ MaxTimeOf.server \in Nat /\ None \notin {0, 1}

\* At least one numbered candidate is looked up; no answer is none.
ASSUME ProvisioningAssumption ==
    /\ Last \in Nat \ {0}
    /\ None \notin {"created", "taken", "throttled", "failed", "lost"}

\* The pages an emailed link opens.
ASSUME LinksAssumption ==
    /\ Page \subseteq {"complete", "verify", "reset", "invitation"}
    /\ None \notin LinkToken \cup {"old", "new"} /\ MaxTries \in Nat

\* The ids are ordered; a page has a row.
ASSUME PagesAssumption ==
    /\ Id \subseteq Nat /\ IsFiniteSet(Id) /\ PageSize \in Nat \ {0}
    /\ PerMilli \in Nat \ {0} /\ MaxTimeOf.pages \in Nat

\* The tables and their references as the schema has them; one sweep at a time.
ASSUME SweepAssumption ==
    /\ TableOf \in [SweptRow -> Retention!Category]
    /\ SessionOf \in [SweptRow -> SweptRow \cup {None}]
    /\ \A r \in SweptRow : SessionOf[r] # None =>
          TableOf[r] # "sessions" /\ SessionOf[r] \in SweptRow /\ TableOf[SessionOf[r]] = "sessions"
    /\ None \notin SweptRow
    /\ \A r \in SweptRow : TableOf[r] = "refresh_tokens" => SessionOf[r] # None
    /\ EventDays \in Nat /\ SessionDays \in Nat /\ Lifetime \in Nat
    /\ BatchSize \in Nat /\ MaxBatches \in Nat \ {0}
    /\ SweepStart \in Nat /\ MaxTimeOf.retention \in Nat /\ SweepStart <= MaxTimeOf.retention
    /\ Selections \subseteq (SUBSET Retention!Category) \ {{}}
    /\ \A v, w \in Sweeper : v = w

\* One process, as deployed: two would not switch secrets at the same moment.
ASSUME RotationAssumption ==
    /\ FirstKey \in SigningSecret /\ None \notin SigningSecret
    /\ Ttl \in Nat /\ MaxTimeOf.rotation \in Nat
    /\ \A p, q \in Process : p = q

\* The secrets and the settings the properties name are among those an instance
\* has, each text, address and number is written as the schema reads it, and the
\* operator starts from an environment.
ASSUME ConfigurationAssumption ==
    /\ SecretNames \in Seq(STRING)
    /\ {"JWT_SECRET", "JWT_PREVIOUS_SECRET", "SMTP_PASSWORD"} \subseteq Configuration!Secret
    /\ {"RATE_LIMIT_MAX", "RETENTION_SECURITY_EVENT_DAYS", "RETENTION_CLEANUP_BATCH_SIZE"}
         \subseteq Setting
    /\ {"MAIL_FROM_EMAIL", "WEB_DEMO_URL"} \subseteq Setting
    /\ \A s \in Configuration!Numbers : Raw[s] \subseteq Int \cup {None}
    /\ Raw["MAIL_FROM_EMAIL"] \subseteq
         {"no-reply@orgistry.local", "someone@company.test", "no-reply@company", None}
    /\ Raw["WEB_DEMO_URL"] \subseteq
         {"http://localhost:5173", "http://company", "https://localhost", "https://company", None}
    /\ Configuration!IsEnvironment(Initial.env)
    /\ Initial.files \in [Configuration!Secret -> Configuration!Content \cup {None}]
    /\ None \notin Configuration!Value \cup Configuration!Content
    /\ \A v \in Configuration!Value \cup {None} : None # [password |-> v]

-----------------------------------------------------------------------------
\* The variables of the other components.
Unused ==
    /\ component # "resources" =>
          /\ plan = None /\ req = None
    /\ component \notin {"resources", "pages"} =>
          /\ rows = None
    /\ component \notin {"resources", "api key", "pages", "rotation", "access", "server"} =>
          /\ now = None
    /\ component \notin {"resources", "api key", "provisioning"} =>
          /\ pc = None
    /\ component # "api key" =>
          /\ revoked = None /\ orgActive = None /\ access = None /\ lastUsed = None
          /\ found = None
    /\ component \notin {"api key", "access"} =>
          /\ seen = None
    /\ component \notin {"limiter", "registering", "recovering"} =>
          /\ hits = None
    /\ component # "limiter" =>
          /\ timed = None /\ passed = None
    /\ component \notin {"limiter", "server"} =>
          /\ up = None
    /\ component \notin {"limiter", "web"} =>
          /\ call = None
    /\ component \notin {"pages", "links"} =>
          /\ list = None /\ page = None /\ shown = None
    /\ component # "pages" =>
          /\ walk = None /\ cursor = None /\ standing = None /\ cuts = None
    /\ component # "web" =>
          /\ newest = None /\ live = None /\ stale = None /\ cookie = None /\ flight = None
          /\ auth = None /\ tripped = None /\ lossy = None
    /\ component \notin {"web", "access", "links"} =>
          /\ status = None
    /\ component \notin {"web", "links"} =>
          /\ user = None
    /\ component \notin {"web", "registering", "recovering"} =>
          /\ token = None
    /\ component \notin {"rotation", "configuration"} =>
          /\ env = None
    /\ component # "rotation" =>
          /\ keys = None /\ fresh = None /\ stage = None /\ since = None /\ retired = None
          /\ emergency = None
    /\ component \notin {"rotation", "access"} =>
          /\ tokens = None
    /\ component \notin {"registering", "recovering"} =>
          /\ window = None /\ storeUp = None /\ account = None /\ notices = None
    /\ component \notin {"registering", "recovering", "access"} =>
          /\ job = None /\ events = None
    /\ component # "access" =>
          /\ session = None /\ rotating = None
    /\ component # "server" =>
          /\ server = None /\ code = None /\ forceAt = None /\ signalled = None
          /\ request = None /\ heard = None
    /\ component # "retention" =>
          /\ present = None /\ at = None /\ late = None /\ sweep = None /\ clock = None
          /\ disturbed = None
    /\ component # "provisioning" =>
          /\ slugOf = None /\ committed = None /\ written = None /\ ask = None
          /\ suffix = None /\ answer = None
    /\ component # "configuration" =>
          /\ files = None /\ edits = None /\ container = None /\ record = None
          /\ next = None /\ issues = None /\ config = None /\ offered = None
    /\ component # "links" =>
          /\ kind = None /\ link = None /\ held = None /\ submitted = None /\ post = None
          /\ me = None /\ refreshed = None /\ alive = None /\ verified = None
          /\ consumed = None /\ posts = None /\ judged = None /\ adopted = None
          /\ expired = None /\ dropped = None

Init ==
    /\ component \in Checked
    /\ Unused
    /\ \/ component = "resources"     /\ Resources!Init
       \/ component = "api key"       /\ ApiKeyAuth!Init
       \/ component = "limiter"       /\ RateLimiter!Init
       \/ component = "pages"         /\ Pagination!Init
       \/ component = "web"           /\ WebClient!Init
       \/ component = "rotation"      /\ KeyRotation!Init
       \/ component = "registering"   /\ Public(Requester, RegisteringKinds)!Init
       \/ component = "recovering"    /\ Public(Recovery, RecoveringKinds)!Init
       \/ component = "access"        /\ Access!Init
       \/ component = "server"        /\ Lifecycle!Init
       \/ component = "retention"     /\ Retention!Init
       \/ component = "provisioning"  /\ Provisioning!Init
       \/ component = "configuration" /\ Configuration!Init
       \/ component = "links"         /\ EmailedLinks!Init

KeepUnused ==
    /\ component # "resources" => UNCHANGED <<plan, req>>
    /\ component \notin {"resources", "pages"} => UNCHANGED rows
    /\ component \notin {"resources", "api key", "pages", "rotation", "access", "server"} =>
          UNCHANGED now
    /\ component \notin {"resources", "api key", "provisioning"} => UNCHANGED pc
    /\ component # "api key" => UNCHANGED <<revoked, orgActive, access, lastUsed, found>>
    /\ component \notin {"api key", "access"} => UNCHANGED seen
    /\ component \notin {"limiter", "registering", "recovering"} => UNCHANGED hits
    /\ component # "limiter" => UNCHANGED <<timed, passed>>
    /\ component \notin {"limiter", "server"} => UNCHANGED up
    /\ component \notin {"limiter", "web"} => UNCHANGED call
    /\ component \notin {"pages", "links"} => UNCHANGED <<list, page, shown>>
    /\ component # "pages" => UNCHANGED <<walk, cursor, standing, cuts>>
    /\ component # "web" => UNCHANGED <<newest, live, stale, cookie, flight, auth, tripped,
          lossy>>
    /\ component \notin {"web", "access", "links"} => UNCHANGED status
    /\ component \notin {"web", "links"} => UNCHANGED user
    /\ component \notin {"web", "registering", "recovering"} => UNCHANGED token
    /\ component \notin {"rotation", "configuration"} => UNCHANGED env
    /\ component # "rotation" => UNCHANGED <<keys, fresh, stage, since, retired, emergency>>
    /\ component \notin {"rotation", "access"} => UNCHANGED tokens
    /\ component \notin {"registering", "recovering"} => UNCHANGED <<window, storeUp, account,
          notices>>
    /\ component \notin {"registering", "recovering", "access"} => UNCHANGED <<job, events>>
    /\ component # "access" => UNCHANGED <<session, rotating>>
    /\ component # "server" => UNCHANGED <<server, code, forceAt, signalled, request, heard>>
    /\ component # "retention" => UNCHANGED <<present, at, late, sweep, clock, disturbed>>
    /\ component # "provisioning" => UNCHANGED <<slugOf, committed, written, ask, suffix,
          answer>>
    /\ component # "configuration" => UNCHANGED <<files, edits, container, record, next,
          issues, config, offered>>
    /\ component # "links" => UNCHANGED <<kind, link, held, submitted, post, me, refreshed,
          alive, verified, consumed, posts, judged, adopted, expired, dropped>>

Next ==
    /\ UNCHANGED component
    /\ KeepUnused
    /\ \/ component = "resources"     /\ Resources!Next
       \/ component = "api key"       /\ ApiKeyAuth!Next
       \/ component = "limiter"       /\ RateLimiter!Next
       \/ component = "pages"         /\ Pagination!Next
       \/ component = "web"           /\ WebClient!Next
       \/ component = "rotation"      /\ KeyRotation!Next
       \/ component = "registering"   /\ Public(Requester, RegisteringKinds)!Next
       \/ component = "recovering"    /\ Public(Recovery, RecoveringKinds)!Next
       \/ component = "access"        /\ Access!Next
       \/ component = "server"        /\ Lifecycle!Next
       \/ component = "retention"     /\ Retention!Next
       \/ component = "provisioning"  /\ Provisioning!Next
       \/ component = "configuration" /\ Configuration!Next
       \/ component = "links"         /\ EmailedLinks!Next

Spec == Init /\ [][Next]_vars

-----------------------------------------------------------------------------
\* A request that is served holds a key or a token that was in order during it,
\* and what it answers has happened.
AccessIsSound ==
    /\ component = "api key" => ApiKeyAuth!GrantIsTimely
    /\ component = "access"  => Access!AccessIsTimely /\ Access!AnswersAreTrue

\* No more calls pass than a bucket allows, and no more emails leave.
LimitsHold ==
    /\ component = "limiter" => RateLimiter!ThrottleHolds
    /\ component = "registering" => Public(Requester, RegisteringKinds)!NoticesAreBounded

\* No answer and no event of a public endpoint tells accounts apart.
AccountsStayHidden ==
    /\ component = "registering" =>
         /\ Public(Requester, RegisteringKinds)!UniformAnswer
         /\ Public(Requester, RegisteringKinds)!AuditIsProven
    /\ component = "recovering" =>
         /\ Public(Recovery, RecoveringKinds)!UniformAnswer
         /\ Public(Recovery, RecoveringKinds)!AuditIsProven

\* A rotation of the signing secret ends no token before its time, a secret that was
\* withdrawn verifies none, and no process runs with a configuration the policies
\* refuse, whichever source its secrets come from.
ConfigurationIsSafe ==
    /\ component = "rotation" => KeyRotation!RotationIsSilent /\ KeyRotation!WithdrawnIsDead
    /\ component = "configuration" =>
         /\ Configuration!RunsSafely /\ Configuration!HeldWasOffered
         /\ Configuration!FormIsIrrelevant

\* The resources of an organization follow QuotaPolicy, and what was ended stays
\* ended.  An organization is created whole, under a slug of its own.
OrganizationsAreSound ==
    /\ [](component = "provisioning" =>
            /\ Provisioning!SlugsAreFirstFree /\ Provisioning!OrganizationsAreWhole
            /\ Provisioning!AnswersHold)
    /\ component = "resources" => Resources!Quota!Init
    /\ [][component = "resources" =>
            [Resources!Quota!Next]_(Resources!Quota!vars) /\ Resources!KeepsEnded]_vars

\* Reading a list to its end shows no row twice, and skips none but where two
\* rows share a millisecond.
WalkIsSound == component = "pages" => Pagination!WalkIsSound

\* Unless an answer was lost, a tab is never sent to the login page; and an emailed
\* link is followed once, to an answer that is shown and a session that stays.
WebIsSteady ==
    /\ component = "web" => WebClient!NeverBounced
    /\ component = "links" =>
         /\ EmailedLinks!AdoptionSticks /\ EmailedLinks!NoSecondTry
         /\ EmailedLinks!AnswerIsShown /\ EmailedLinks!VerifiedIsShown

\* After its first signal the process ends within the timeout, with 0 only when
\* every request it took was answered.
ShutdownIsOrderly == component = "server" => Lifecycle!ShutdownIsOrderly

\* A sweep deletes nothing younger than its retention period, and one that is
\* reported clean left nothing that was older.
SweepsAreExact ==
    /\ [](component = "retention" => Retention!CleanMeansClean)
    /\ [][component = "retention" => Retention!DeletesOnlyAged]_vars

\* The sweep of the expired sessions needs no other sweep before it.
SweepAloneSucceeds == component = "retention" => Retention!SweepAloneSucceeds
=============================================================================
