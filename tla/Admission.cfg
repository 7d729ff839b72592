\* Two callers that authenticate within a second and wait for the lock as long as
\* they may, four envelopes delivered at will over seven seconds, two calls in three
\* seconds.
CONSTANTS
    k1 = k1  k2 = k2
    e1 = e1  e2 = e2  e3 = e3  e4 = e4
    Callers = {k1, k2}
    Envelopes = {e1, e2, e3, e4}
    NonceOf <- MCNonceOf
    IssuedAt <- MCIssuedAt
    Skew = 1
    MaxLag = 1
    RateCalls = 2
    RatePeriod = 3
    None = None
    MaxClock = 7
SYMMETRY CallerSymmetry
SPECIFICATION AdmissionSpec
INVARIANTS Replays AcceptedOnce LaggedLimit RefusalIsEarned
