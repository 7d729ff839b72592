\* The documented count of equal pairs, where a window needs no padding.
CONSTANTS
    Tools = {"archive", "fetch", "import", "note", "publish", "read"}
    Effects = {"confidential", "personal", "secret", "untrusted"}
    EffectsOf <- MCEffectsOf
    Templates = 5
    ToolOf <- MCToolOf
    MaxEvents = 4
    Suites <- TiedSuites
    Limits <- MCLimits
    Policies <- MCPolicies
    Thresholds <- MCThresholds
SPECIFICATION Spec
INVARIANTS PairCountIsReal
