\* Writes of one cluster never overlap; writers in two replicas; one org.
CONSTANTS
    Clusters = {c1, c2}
    Orgs = {o1}
    RuleIDs = {r1}
    ErrorKeys = {e1}
    TemplateData = {d1}
    Writers = {w1, w2}
    Procs = {p1, p2}
    w1 = w1
    w2 = w2
    p1 = p1
    p2 = p2
    ProcOf <- MCProcOfTwoProcs
    MaxTime = 2
    MaxWrites = 2
    Driver = "postgres"
    SerialPerCluster = TRUE
    NoRow = NoRow
SPECIFICATION Spec
INVARIANTS TypeOK RuleHitsExact
PROPERTIES ReportMonotonic
