\* Threads of one process on the in-memory store: four calls, two sessions
\* of one agent whose calls share the rate limit, one adapter that may raise.
CONSTANTS
    c1 = c1  c2 = c2  c3 = c3  c4 = c4  p1 = p1
    p2 = p2  s1 = s1  s2 = s2  i1 = i1  i2 = i2
    i3 = i3  a1 = a1  a2 = a2
    Calls = {c1, c2, c3, c4}
    Procs = {p1}
    Sessions = {s1, s2}
    Principals = {"agent"}
    PrincipalOf <- MCPrincipalOf
    Tools = {"read", "publish"}
    Effects = {"confidential", "external"}
    EffectsOf <- MCEffectsOf
    Forbidden = {}
    Gated = {}
    Volatile = {}
    Fragile = {}
    Uncredentialed = {}
    Fallible = {"publish"}
    Rules <- DenyLeak
    Ids = {i1, i2, i3}
    Nonces = {"n1", "n2", "n3", "n4"}
    Requests <- LeakRequests
    ReceiptIds = {}
    ReceiptTtls = {}
    MaxTtl = 1
    PendingTtl = 1
    Skew = 1
    RateCalls = 1
    RatePeriod = 1
    Sqlite = FALSE
    Db = Db
    Null = Null
    MaxClock = 0
    MaxVersion = 1
    MaxFaults = 0
    MaxCrashes = 0
SYMMETRY CallSymmetry
SPECIFICATION Spec
INVARIANTS TypeOK DecidedOnPrefix
PROPERTIES KeepsPromise
