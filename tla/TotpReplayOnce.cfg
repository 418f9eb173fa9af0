\* The promise of a one-time code, with a single code and no restart.
SPECIFICATION ReplaySpec
CONSTANTS
    h1 = h1
    h2 = h2
    c1 = c1
    c2 = c2
    NoVerifier = NoVerifier
    Verifiers = {h1, h2}
    Codes = {c1, c2}
    HotpSteps <- MCHotpSteps
    Window = 1
    MaxLag = 1
    MaxStep = 3
    MaxRestarts = 0
INVARIANT
    CodeAcceptedOnce
