----------------------------- MODULE RuleToggle -----------------------------
(***************************************************************************)
(* The rule toggle store of storage.DBStorage (src/storage/rule_toggle.go)*)
(* against table cluster_rule_toggle, keyed by (cluster_id, rule_id,      *)
(* error_key).  Several HTTP handler goroutines call ToggleRuleForCluster *)
(* concurrently.  A call reads the clock first and then executes its     *)
(* upsert as one statement, so it is split in two steps.  The reads      *)
(* GetFromClusterRuleToggle and GetTogglesForRules are single SELECTs    *)
(* and change no state: they are operators giving the set of results a   *)
(* read can return.  DeleteFromRuleClusterToggle is one statement.       *)
(*                                                                         *)
(* time.Now() is a strictly increasing counter: two calls never read the *)
(* same time.                                                              *)
(***************************************************************************)
EXTENDS Naturals

CONSTANTS
    Clusters,       \* cluster names
    RuleIDs,        \* rule modules
    ErrorKeys,      \* error keys of the rules
    Users,          \* handler goroutines calling ToggleRuleForCluster
    MaxTime,        \* bound on the clock
    SerialToggles,  \* TRUE: two toggles of one (cluster, rule) never overlap
    NoToggle,       \* no row for a key
    NoKey,          \* no row for any error key of a rule
    NotFound        \* GetFromClusterRuleToggle returns ItemNotFoundError

ASSUME ToggleConstantsAssumption ==
    /\ Clusters # {} /\ RuleIDs # {} /\ ErrorKeys # {}
    /\ MaxTime \in Nat
    /\ SerialToggles \in BOOLEAN
    /\ NoKey \notin ErrorKeys

RuleToggleDisable == 1
RuleToggleEnable  == 0
RuleToggleValues  == {RuleToggleDisable, RuleToggleEnable}

\* an invalid sql.NullTime; every valid time is at least 1
Null  == 0
Times == 1..MaxTime

Keys     == Clusters \X RuleIDs \X ErrorKeys
RuleKeys == Clusters \X RuleIDs

\* a row of cluster_rule_toggle, without its key columns
ToggleRows == [disabled: RuleToggleValues, disabledAt: Times \cup {Null},
               enabledAt: Times \cup {Null}, updatedAt: Times]
ASSUME NoToggleAssumption == NoToggle \notin ToggleRows

VARIABLES
    toggles,  \* table cluster_rule_toggle: key -> row or NoToggle
    clock,    \* the last time time.Now() returned
    tg        \* local state of each handler goroutine

vars == <<toggles, clock, tg>>

\* ret is what the last call returned: nil or an error
HandlerStates == [pc: {"idle", "timed"}, key: Keys, toggle: RuleToggleValues,
                  now: 0..MaxTime, ret: {"nil", "error"}]

TypeOK ==
    /\ toggles \in [Keys -> ToggleRows \cup {NoToggle}]
    /\ clock \in 0..MaxTime
    /\ tg \in [Users -> HandlerStates]
    \* a handler between time.Now() and its upsert holds a time handed out
    /\ \A u \in Users : tg[u].pc = "timed" => tg[u].now \in 1..clock

\* the (cluster, rule) part of a key
RuleKeyOf(k) == <<k[1], k[2]>>

-----------------------------------------------------------------------------
(* Helpers that translate single statements.                               *)

\* the values ToggleRuleForCluster binds for toggle v read at time now:
\* disabled_at xor enabled_at is now, the other one NULL
ToggledRow(v, now) ==
    [disabled   |-> v,
     disabledAt |-> IF v = RuleToggleDisable THEN now ELSE Null,
     enabledAt  |-> IF v = RuleToggleEnable THEN now ELSE Null,
     updatedAt  |-> now]

\* the error keys that have a row for (cluster c, rule r)
RowsOfRule(c, r) == {e \in ErrorKeys : toggles[<<c, r, e>>] # NoToggle}

\* Variant: ORDER BY updated_at without DESC.
LatestToggleKeysAsc(c, r) ==
    {e \in RowsOfRule(c, r) :
        \A f \in RowsOfRule(c, r) :
            toggles[<<c, r, e>>].updatedAt <= toggles[<<c, r, f>>].updatedAt}

\* GetFromClusterRuleToggle: WHERE cluster_id AND rule_id ORDER BY
\* updated_at DESC LIMIT 1 may return the row of any of these error keys
LatestToggleKeys(c, r) ==
    {e \in RowsOfRule(c, r) :
        \A f \in RowsOfRule(c, r) :
            toggles[<<c, r, f>>].updatedAt <= toggles[<<c, r, e>>].updatedAt}

\* the results GetFromClusterRuleToggle(c, r) can return
GetFromClusterRuleToggle(c, r) ==
    IF RowsOfRule(c, r) = {} THEN {NotFound}
    ELSE {toggles[<<c, r, e>>] : e \in LatestToggleKeys(c, r)}

\* the maps GetTogglesForRules(c, rules) can return: for each rule with a
\* row, toggles[ruleID] = disabled of the row scanned last, and the rows
\* come in no specified order
GetTogglesForRules(c, rules) ==
    LET toggled == {r \in rules : RowsOfRule(c, r) # {}}
    IN {m \in [toggled -> BOOLEAN] :
          \A r \in toggled : \E e \in RowsOfRule(c, r) :
              m[r] = (toggles[<<c, r, e>>].disabled = RuleToggleDisable)}

-----------------------------------------------------------------------------
Init ==
    /\ toggles = [k \in Keys |-> NoToggle]
    /\ clock = 0
    /\ tg = [u \in Users |-> [pc |-> "idle", key |-> CHOOSE k \in Keys : TRUE,
                              toggle |-> RuleToggleEnable, now |-> 0,
                              ret |-> "nil"]]

(* ToggleRuleForCluster entry: the handler u toggles key k to v and reads *)
(* the clock (now := time.Now()).  A value other than enable or disable   *)
(* is rejected before any state changes and is not modelled.               *)
StartToggle(u) ==
    /\ tg[u].pc = "idle"
    /\ clock < MaxTime
    /\ \E k \in Keys, v \in RuleToggleValues :
        /\ SerialToggles =>
              \A u2 \in Users \ {u} :
                  tg[u2].pc = "idle" \/ RuleKeyOf(tg[u2].key) # RuleKeyOf(k)
        /\ tg' = [tg EXCEPT ![u] = [pc |-> "timed", key |-> k, toggle |-> v,
                                    now |-> clock + 1, ret |-> "nil"]]
    /\ clock' = clock + 1
    /\ UNCHANGED toggles

(* The upsert INSERT ... ON CONFLICT (cluster_id, rule_id, error_key) DO  *)
(* UPDATE executes: the key's row is overwritten unconditionally.          *)
ExecToggle(u) ==
    /\ tg[u].pc = "timed"
    /\ toggles' = [toggles EXCEPT ![tg[u].key] = ToggledRow(tg[u].toggle, tg[u].now)]
    /\ tg' = [tg EXCEPT ![u].pc = "idle", ![u].ret = "nil"]
    /\ UNCHANGED clock

(* The upsert fails: the error is returned and nothing is written.        *)
ExecToggleFail(u) ==
    /\ tg[u].pc = "timed"
    /\ tg' = [tg EXCEPT ![u].pc = "idle", ![u].ret = "error"]
    /\ UNCHANGED <<toggles, clock>>

(* DeleteFromRuleClusterToggle(c, r): DELETE WHERE cluster_id AND rule_id *)
(* removes the rows of every error key of the rule.                        *)
DeleteFromRuleClusterToggle(c, r) ==
    /\ toggles' = [k \in Keys |-> IF RuleKeyOf(k) = <<c, r>> THEN NoToggle
                                  ELSE toggles[k]]
    /\ UNCHANGED <<clock, tg>>

Next ==
    \/ \E u \in Users : StartToggle(u) \/ ExecToggle(u) \/ ExecToggleFail(u)
    \/ \E c \in Clusters, r \in RuleIDs : DeleteFromRuleClusterToggle(c, r)

Spec == Init /\ [][Next]_vars

-----------------------------------------------------------------------------
(* Refinement mapping onto RuleToggleAbstract: a key's flag is the        *)
(* disabled column of its row, and the rule's current toggle is the row   *)
(* GetFromClusterRuleToggle returns.                                       *)

flagBar == [k \in Keys |-> IF toggles[k] = NoToggle THEN NoToggle
                           ELSE toggles[k].disabled]
LatestKey(c, r) ==
    IF RowsOfRule(c, r) = {} THEN NoKey ELSE CHOOSE e \in LatestToggleKeys(c, r) : TRUE
lastBar == [k \in RuleKeys |-> LatestKey(k[1], k[2])]

Abstract == INSTANCE RuleToggleAbstract WITH
    flag <- flagBar, last <- lastBar, NotToggled <- NoToggle

-----------------------------------------------------------------------------
(* Properties.                                                             *)

(* The store implements RuleToggleAbstract: GetFromClusterRuleToggle      *)
(* returns the toggle the rule received last (last writer wins), though   *)
(* ToggleRuleForCluster reads the clock before its upsert executes.        *)
ImplementsAbstract == Abstract!Spec

(* GetTogglesForRules reports, for each rule, the disabled flag of the    *)
(* toggle GetFromClusterRuleToggle returns for that rule.                  *)
TogglesForRulesAgree ==
    \A c \in Clusters, r \in RuleIDs :
        \A m \in GetTogglesForRules(c, {r}), t \in GetFromClusterRuleToggle(c, r) :
            r \in DOMAIN m => m[r] = (t.disabled = RuleToggleDisable)

(* Enabling a disabled rule keeps the time it was disabled (the spec's    *)
(* example: after disable then enable, disabled_at of the prior write is  *)
(* still present).                                                         *)
DisabledAtKept ==
    [][\A k \in Keys :
          /\ toggles[k] # NoToggle /\ toggles'[k] # NoToggle
          /\ toggles[k].disabled = RuleToggleDisable
          /\ toggles'[k].disabled = RuleToggleEnable
          => toggles'[k].disabledAt = toggles[k].disabledAt]_vars

=============================================================================
