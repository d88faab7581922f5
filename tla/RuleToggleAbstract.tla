------------------------- MODULE RuleToggleAbstract -------------------------
(***************************************************************************)
(* What the rule toggle store promises its callers (the HTTP handlers     *)
(* that enable and disable a rule for a cluster): one enable/disable flag *)
(* per (cluster, rule, error key), overwritten by each toggle, and a      *)
(* lookup by (cluster, rule) that returns the flag of the toggle executed *)
(* last for that rule (last writer wins).  Each toggle and each delete    *)
(* takes effect in one atomic step.                                        *)
(***************************************************************************)
CONSTANTS
    Clusters, RuleIDs, ErrorKeys,
    NotToggled,  \* no toggle is stored for a key
    NoKey        \* no toggle is stored for any error key of a rule

VARIABLES
    flag,   \* (cluster, rule, error key) -> 1 (disabled), 0 (enabled) or NotToggled
    last    \* (cluster, rule) -> error key of the last toggle, or NoKey

Keys     == Clusters \X RuleIDs \X ErrorKeys
RuleKeys == Clusters \X RuleIDs

TypeOK ==
    /\ flag \in [Keys -> {0, 1, NotToggled}]
    /\ last \in [RuleKeys -> ErrorKeys \cup {NoKey}]

Init ==
    /\ flag = [k \in Keys |-> NotToggled]
    /\ last = [k \in RuleKeys |-> NoKey]

\* a toggle of (c, r, e) to v becomes the rule's current toggle
Toggle(c, r, e, v) ==
    /\ flag' = [flag EXCEPT ![<<c, r, e>>] = v]
    /\ last' = [last EXCEPT ![<<c, r>>] = e]

\* every toggle of the rule is removed
Delete(c, r) ==
    /\ flag' = [k \in Keys |-> IF k[1] = c /\ k[2] = r THEN NotToggled ELSE flag[k]]
    /\ last' = [last EXCEPT ![<<c, r>>] = NoKey]

Next ==
    \/ \E c \in Clusters, r \in RuleIDs, e \in ErrorKeys, v \in {0, 1} : Toggle(c, r, e, v)
    \/ \E c \in Clusters, r \in RuleIDs : Delete(c, r)

Spec == Init /\ [][Next]_<<flag, last>>

=============================================================================
