CONSTANTS
    Checked = {"retention"}
    None = None
    a1 = a1
    a2 = a2
    a3 = a3
    p1 = p1
    p2 = p2
    o1 = o1
    o2 = o2
    Requester = {a1, a2}
    Session = {o1, o2}
    FailureMode <- MCFailureMode
    MaxTimeOf <- MCMaxTimeOf
    Project = {"project"}
    ApiKey = {o1, o2}
    Plan = {"free", "pro"}
    MaxProjects <- MCMaxProjects
    MaxKeys <- MCMaxKeys
    KeyPlans = {"pro"}
    FirstPlan = "pro"
    ExpiresAt = 1
    Throttle = 1
    Caller = {a1, a2, a3}
    LimitBucket = {"global", "key"}
    BucketLimit <- MCBucketLimit
    OpenBuckets = {"global"}
    List = {"projects", "api_keys", "members", "organizations", "sessions", "invitations", "audit"}
    Id = {1, 2, 3}
    PageSize = 1
    PerMilli = 2
    Tab = {"tab"}
    MaxRotation = 2
    Process = {"api"}
    SigningSecret = {o1, o2, "first", "weak"}
    Weak = {"weak"}
    FirstKey = "first"
    Ttl = 1
    RegisteringKinds = {"register", "complete registration"}
    Recovery = {a1}
    RecoveringKinds = {"recover", "complete reset", "complete verification", "verify"}
    MaxHits = 1
    MaxNotices = 1
    MaxWindow = 1
    User = {p1, p2}
    AccessTtl = 2
    SessionTtl = 1
    Timeout = 2
    Sweeper = {"sweep"}
    SweptRow = {"s1", "s2", "t1", "e1"}
    TableOf <- MCTableOf
    SessionOf <- MCSessionOf
    EventDays = 2
    SessionDays = 1
    BatchSize = 1
    MaxBatches = 2
    Selections = {{"security_events", "refresh_tokens", "sessions"}, {"sessions"}}
    Lifetime = 1
    SweepStart = 3
    Creation = {a1, a2, a3}
    Base <- MCBase
    SlugToken = {100}
    Last = 2
    Explicit <- MCExplicit
    SecretNames <- MCNames
    Setting <- MCSetting
    Raw <- MCRaw
    Initial <- MCInitial
    Texts = {"empty", "short", "known", "repeated", "strong", "other"}
    MaxEdits = 2
    Page = {"complete", "verify", "reset", "invitation"}
    LinkToken = {o1, o2}
    MaxTries = 2
SYMMETRY MCSymmetry
SPECIFICATION Spec
INVARIANT SweepAloneSucceeds
CHECK_DEADLOCK FALSE
