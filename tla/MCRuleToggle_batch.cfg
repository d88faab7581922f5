\* Toggles never overlap; a rule with two error keys.
CONSTANTS
    Clusters = {c1}
    RuleIDs = {r1}
    ErrorKeys = {e1, e2}
    Users = {u1, u2}
    MaxTime = 4
    SerialToggles = TRUE
    NoToggle = NoToggle
    NoKey = NoKey
    NotFound = NotFound
SPECIFICATION Spec
INVARIANT TogglesForRulesAgree
