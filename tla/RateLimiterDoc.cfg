\* The documented window, against callers that wait.
CONSTANTS
    k1 = k1  k2 = k2  k3 = k3
    Callers = {k1, k2, k3}
    RateCalls = 2
    RatePeriod = 3
    None = None
    MaxClock = 6
SYMMETRY CallerSymmetry
SPECIFICATION Spec
INVARIANTS WindowLimit
