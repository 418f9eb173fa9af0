\* Four operations of one process, so nothing overlaps; no kill.
SPECIFICATION StoreSpec
CONSTANTS
    p1 = p1
    alice = alice
    r1 = r1
    r2 = r2
    Broken = Broken
    Processes = {p1}
    Clients = {alice}
    RuleNames = {r1, r2}
    MaxPending = 1
    MaxCount = 1
    MaxDays = 1
    MaxOps = 4
    MaxKills = 0
CHECK_DEADLOCK FALSE
INVARIANT
    RevocationMarksRequest
