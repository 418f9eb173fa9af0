\* Two requests at a time, one edit of the rules and one restart of the server.
\* One issuer is named like the group, which is the only way versions can match;
\* the other has a version where there is no edit and no restart.
SPECIFICATION TargetSpec
CONSTANTS
    h1 = h1
    h2 = h2
    alice = alice
    c1 = c1
    admin = admin
    caPrimary = caPrimary
    None = None
    Handlers = {h1, h2}
    Clients = {alice}
    Codes = {c1}
    HotpSteps <- MCHotpSteps
    Window = 1
    Weekdays = {0}
    DayLen = 2
    StepsPerMinute = 1
    RuleFiles <- MCRuleFiles
    Issuers = {admin, caPrimary}
    GroupName = admin
    Dashed = {}
    Timeout = 0
    MaxEdits = 1
    MaxBumps = 2
    MaxRequests = 2
    MaxRestarts = 1
    MaxMixed = 1
    Quiet = {caPrimary}
    MaxClock = 1
SYMMETRY Permuted
INVARIANTS
    TypeOK
    DecisionsWereCurrent
    CodesHaveOneFate
    BumpRevokesInTime
