\* Installation: three commands, or four client commands without a kill, one of
\* them perhaps a reset; two command processes and two names, of which init uses
\* one.  Schedules: eight operations of two processes over two days, five with a
\* kill, a client with two rules, one pending request at a time, one use a day.
\* Commands and operations are bounded, so the system stops.
SPECIFICATION MCSpec
CONSTANTS
    p1 = p1
    p2 = p2
    n1 = n1
    n2 = n2
    alice = alice
    r1 = r1
    r2 = r2
    Broken = Broken
    Procs = {p1, p2}
    Names = {n1, n2}
    Admin = n1
    MaxCommands = 4
    MaxResets = 1
    MaxCrashes = 1
    MaxLifecycle = 2
    MaxMixed = 3
    MaxKilledCommands = 3
    MaxKilledOps = 5
    Processes = {p1, p2}
    Clients = {alice}
    RuleNames = {r1, r2}
    MaxPending = 1
    MaxCount = 1
    MaxDays = 2
    MaxOps = 8
    MaxKills = 1
SYMMETRY Permuted
CHECK_DEADLOCK FALSE
INVARIANTS
    LifecycleTypeOK
    SerialsUnique
    RosterFollowsCommands
    SchedulesEndWithRevocation
    Startable
    PackagesMatch
    StoreTypeOK
    PendingBounded
    RuleNamesUnique
    InForceWasAgreed
    UsesBounded
PROPERTY
    ResetRepairs
