\* A client no rule speaks of, against the documented default mode.
SPECIFICATION TargetSpec
CONSTANTS
    h1 = h1
    h2 = h2
    alice = alice
    c1 = c1
    admin = admin
    caPrimary = caPrimary
    None = None
    Handlers = {h1, h2}
    Clients = {alice}
    Codes = {c1}
    HotpSteps <- MCHotpSteps
    Window = 1
    Weekdays = {0}
    DayLen = 2
    StepsPerMinute = 1
    RuleFiles <- MCRuleFiles
    Issuers = {caPrimary}
    GroupName = admin
    Dashed = {caPrimary}
    Timeout = 1
    MaxEdits = 0
    MaxBumps = 2
    MaxRequests = 2
    MaxRestarts = 0
    MaxMixed = 1
    Quiet = {caPrimary}
    MaxClock = 0
PROPERTY
    DefaultAsksForCode
