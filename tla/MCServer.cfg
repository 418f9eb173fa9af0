\* Replay table: two requests at a time, the clock from 0 to 3, one restart.
\* Limiter: two calls and one cleanup in flight, at most two admissions in three
\* seconds, clock readings up to one second old.
\* Signing: two requests at a time, three in all, one crash at any point.
\* Schedule calls: two at a time for two clients and a passwordless rule, one end
\* of the server at any point.
\* Rules: every file of at most two rules out of MCRuleSpace.
\* All is bounded, and signing and schedule calls end, so the system stops.
SPECIFICATION MCSpec
CONSTANTS
    h1 = h1
    h2 = h2
    c1 = c1
    c2 = c2
    r1 = r1
    g1 = g1
    g2 = g2
    k1 = k1
    a1 = a1
    alice = alice
    bob = bob
    None = None
    NoVerifier = NoVerifier
    Verifiers = {h1, h2}
    Codes = {c1, c2}
    HotpSteps <- MCHotpSteps
    Window = 1
    MaxLag = 1
    MaxStep = 3
    MaxRestarts = 1
    Callers = {g1, g2}
    Cleaners = {k1}
    Addrs = {a1}
    MaxHits = 2
    WindowSec = 3
    MaxDelay = 1
    MaxTime = 5
    Handlers = {h1, h2}
    MaxRequests = 3
    MaxCrashes = 1
    Goroutines = {h1, h2}
    Agents = {c1, c2}
    RuleIds = {r1}
    Passwordless = {r1}
    MaxSubmits = 3
    MaxRevokes = 2
    MaxEdits = 1
    MaxEnds = 1
    Clients = {alice, bob}
    Weekdays = {0, 1}
    DayLen = 4
    RuleSpace <- MCRuleSpace
    MaxRules = 2
CHECK_DEADLOCK FALSE
INVARIANTS
    ReplayInv
    AtMostOncePerStep
    AcceptanceBound
    LimiterInv
    AdmissionsBounded
    TypeOK
    SafeUnlessOverlapped
    TempFilesOwned
    UnreadableOnlyDuringWrite
    RequestsKept
    OnePendingPerRule
    ApprovalsFollow
    QueriesFollowPriority
    SegmentsPartitionDay
    OccurrenceIsNext
PROPERTIES
    GrantsAtomically
    RequestsAnswered
    RefusalsJustified
    RequestsEnd
    LowerPriorityNeverOverrides
