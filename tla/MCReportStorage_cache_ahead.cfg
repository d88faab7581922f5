\* Writes never overlap: can a cache entry be ahead of the stored report?
CONSTANTS
    Clusters = {c1}
    Orgs = {o1}
    RuleIDs = {r1, r2}
    ErrorKeys = {e1}
    TemplateData = {d1}
    Writers = {w1, w2}
    Procs = {p1, p2}
    w1 = w1
    w2 = w2
    p1 = p1
    p2 = p2
    ProcOf <- MCProcOfTwoProcs
    MaxTime = 2
    MaxWrites = 2
    Driver = "postgres"
    SerialPerCluster = TRUE
    NoRow = NoRow
SPECIFICATION Spec
INVARIANT CacheNotAheadOfDB
