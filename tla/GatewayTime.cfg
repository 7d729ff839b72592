\* Approvals over time: pending calls and receipts that expire while calls wait
\* for the session lock.
CONSTANTS
    c1 = c1  c2 = c2  c3 = c3  c4 = c4  p1 = p1
    p2 = p2  s1 = s1  s2 = s2  i1 = i1  i2 = i2
    i3 = i3  a1 = a1  a2 = a2
    Calls = {c1, c2, c3}
    Procs = {p1}
    Sessions = {s1}
    Principals = {"agent"}
    PrincipalOf <- MCPrincipalOf
    Tools = {"read", "delete"}
    Effects = {"confidential", "external"}
    EffectsOf <- MCEffectsOf
    Forbidden = {}
    Gated = {"delete"}
    Volatile = {}
    Fragile = {}
    Uncredentialed = {"read"}
    Fallible = {}
    Rules = {}
    Ids = {i1, i2, i3}
    Nonces = {"n1", "n2", "n3", "n4"}
    Requests <- DeleteAndRead
    ReceiptIds = {a1}
    ReceiptTtls = {1}
    MaxTtl = 1
    PendingTtl = 2
    Skew = 1
    RateCalls = 2
    RatePeriod = 1
    Sqlite = FALSE
    Db = Db
    Null = Null
    MaxClock = 4
    MaxVersion = 1
    MaxFaults = 0
    MaxCrashes = 0
SYMMETRY CallSymmetry
SPECIFICATION Spec
INVARIANTS TimelyResumes
