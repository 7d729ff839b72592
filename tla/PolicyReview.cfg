\* Changes from three policies to every policy of at most two rules, four suites,
\* traces of three events, full and no thresholds, a budget that some searches
\* exceed and one that none does.
CONSTANTS
    Tools = {"fetch", "publish", "read"}
    Effects = {"confidential", "untrusted"}
    EffectsOf <- MCEffectsOf
    Templates = 3
    ToolOf <- MCToolOf
    MaxEvents = 3
    Policies <- SmallPolicies
    Baselines <- MCBaselines
    Suites <- MCSuites
    Thresholds <- MCThresholds
    Budgets = {38, 39}
SPECIFICATION ReviewSpec
INVARIANTS
    NoNewHarm NoLostUse CandidateConforms ChangesAreReal
    PassMeansConforms FailureIsExplained ReportsAreComplete SurvivorsConform
PROPERTIES EachIsChecked
