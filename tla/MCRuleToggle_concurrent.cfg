\* Two handlers toggle error keys of one rule concurrently.
CONSTANTS
    Clusters = {c1}
    RuleIDs = {r1}
    ErrorKeys = {e1, e2}
    Users = {u1, u2}
    MaxTime = 4
    SerialToggles = FALSE
    NoToggle = NoToggle
    NoKey = NoKey
    NotFound = NotFound
SPECIFICATION Spec
PROPERTY ImplementsAbstract
