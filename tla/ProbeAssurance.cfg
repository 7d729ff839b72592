\* Suites of one or two requirements over five templates, with room for every
\* probe and without.
CONSTANTS
    Tools = {"archive", "fetch", "import", "note", "publish", "read"}
    Effects = {"confidential", "personal", "secret", "untrusted"}
    EffectsOf <- MCEffectsOf
    Templates = 5
    ToolOf <- MCToolOf
    MaxEvents = 4
    Suites <- MCSuites
    Limits <- MCLimits
    Policies <- MCPolicies
    Thresholds <- MCThresholds
SPECIFICATION Spec
INVARIANTS
    PassedReportsCompile CompleteReportsCover ProbesIsolate ProbesAreShortest
    ConformingPoliciesPass SurvivorsAreBacked ContractionIsNoticed
