\* One command at a time.
SPECIFICATION Spec
CONSTANTS
    p1 = p1
    p2 = p2
    n1 = n1
    n2 = n2
    Procs = {p1}
    Names = {n1, n2}
    MaxCommands = 4
    MaxResets = 1
    MaxCrashes = 0
CHECK_DEADLOCK FALSE
INVARIANT
    RevokedUnauthorized
