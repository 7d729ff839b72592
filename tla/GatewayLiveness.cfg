\* Every call is answered and every announced execution settled: calls on one SQLite
\* file, a failure, a crash and exceptions out of policy evaluation, under weak
\* fairness of each call's steps.
CONSTANTS
    c1 = c1  c2 = c2  c3 = c3  c4 = c4  p1 = p1
    p2 = p2  s1 = s1  s2 = s2  i1 = i1  i2 = i2
    i3 = i3  a1 = a1  a2 = a2
    Calls = {c1, c2, c3}
    Procs = {p1}
    Sessions = {s1}
    Principals = {"agent"}
    PrincipalOf <- MCPrincipalOf
    Tools = {"read", "publish"}
    Effects = {"confidential", "external"}
    EffectsOf <- MCEffectsOf
    Forbidden = {}
    Gated = {}
    Volatile = {}
    Fragile = {"publish"}
    Uncredentialed = {}
    Fallible = {"publish"}
    Rules <- AskBeforeLeak
    Ids = {i1, i2, i3}
    Nonces = {"n1", "n2", "n3", "n4"}
    Requests <- ReadThenPublish
    ReceiptIds = {a1}
    ReceiptTtls = {1}
    MaxTtl = 1
    PendingTtl = 1
    Skew = 1
    RateCalls = 2
    RatePeriod = 1
    Sqlite = TRUE
    Db = Db
    Null = Null
    MaxClock = 0
    MaxVersion = 1
    MaxFaults = 1
    MaxCrashes = 1
SPECIFICATION FairSpec
PROPERTIES CallsReturn AnnouncedIsSettled
