-------------------------- MODULE RuleToggleProofs --------------------------
(***************************************************************************)
(* Proofs about RuleToggle for every value of the constants: type         *)
(* correctness, the timestamp invariant of stored toggles, and, when       *)
(* toggles of one rule never overlap, that the store implements            *)
(* RuleToggleAbstract.                                                     *)
(***************************************************************************)
EXTENDS RuleToggle, TLAPS

-----------------------------------------------------------------------------
(* Type correctness.                                                       *)

\* the row ToggleRuleForCluster writes is a row of the table
LEMMA ToggledRowType ==
    ASSUME NEW v \in RuleToggleValues, NEW now \in Times
    PROVE  ToggledRow(v, now) \in ToggleRows
BY DEF ToggledRow, ToggleRows, RuleToggleValues, RuleToggleDisable,
       RuleToggleEnable, Null, Times

LEMMA InitTypeOK == Init => TypeOK
<1> SUFFICES ASSUME Init PROVE TypeOK
  OBVIOUS
<1>1. (CHOOSE k \in Keys : TRUE) \in Keys
  <2>1. PICK c \in Clusters, r \in RuleIDs, e \in ErrorKeys : TRUE
    BY ToggleConstantsAssumption
  <2>2. <<c, r, e>> \in Keys
    BY DEF Keys
  <2>3. QED
    BY <2>2
<1>2. QED
  BY <1>1, ToggleConstantsAssumption
  DEF Init, TypeOK, HandlerStates, RuleToggleValues, RuleToggleEnable

LEMMA NextTypeOK == TypeOK /\ [Next]_vars => TypeOK'
<1> SUFFICES ASSUME TypeOK, [Next]_vars PROVE TypeOK'
  OBVIOUS
<1> USE ToggleConstantsAssumption
<1>1. ASSUME NEW u \in Users, StartToggle(u) PROVE TypeOK'
  BY <1>1 DEF StartToggle, TypeOK, HandlerStates
<1>2. ASSUME NEW u \in Users, ExecToggle(u) PROVE TypeOK'
  <2>1. tg[u].now \in Times /\ tg[u].toggle \in RuleToggleValues
    BY <1>2 DEF ExecToggle, TypeOK, HandlerStates, Times
  <2>2. ToggledRow(tg[u].toggle, tg[u].now) \in ToggleRows
    BY <2>1, ToggledRowType
  <2>3. QED
    BY <1>2, <2>2 DEF ExecToggle, TypeOK, HandlerStates
<1>3. ASSUME NEW u \in Users, ExecToggleFail(u) PROVE TypeOK'
  BY <1>3 DEF ExecToggleFail, TypeOK, HandlerStates
<1>4. ASSUME NEW c \in Clusters, NEW r \in RuleIDs,
             DeleteFromRuleClusterToggle(c, r) PROVE TypeOK'
  BY <1>4 DEF DeleteFromRuleClusterToggle, TypeOK
<1>5. CASE UNCHANGED vars
  BY <1>5 DEF vars, TypeOK
<1>6. QED
  BY <1>1, <1>2, <1>3, <1>4, <1>5 DEF Next

\* Type correctness: every reachable state satisfies TypeOK.
THEOREM TypeCorrect == Spec => []TypeOK
BY InitTypeOK, NextTypeOK, PTL DEF Spec

-----------------------------------------------------------------------------
(* Refinement of RuleToggleAbstract when toggles of one rule never        *)
(* overlap.  The inductive invariant says that no stored row is newer     *)
(* than the clock, that a pending toggle read a time newer than every row *)
(* of its rule, and that two pending toggles are of different rules.  It  *)
(* is what makes the row an upsert writes the newest of its rule, so the  *)
(* row GetFromClusterRuleToggle returns is the one written last.          *)

RowsBeforeClock ==
    \A k \in Keys : toggles[k] # NoToggle => toggles[k].updatedAt <= clock

PendingIsNewest ==
    \A u \in Users : tg[u].pc = "timed" =>
        \A e \in ErrorKeys :
            LET k == <<tg[u].key[1], tg[u].key[2], e>>
            IN  toggles[k] # NoToggle => toggles[k].updatedAt < tg[u].now

PendingDistinctRules ==
    \A u, v \in Users :
        u # v /\ tg[u].pc = "timed" /\ tg[v].pc = "timed"
            => RuleKeyOf(tg[u].key) # RuleKeyOf(tg[v].key)

RefInv ==
    /\ TypeOK
    /\ RowsBeforeClock
    /\ SerialToggles => PendingIsNewest /\ PendingDistinctRules

LEMMA InitRefInv == Init => RefInv
BY InitTypeOK DEF Init, RefInv, RowsBeforeClock, PendingIsNewest, PendingDistinctRules

LEMMA NextRefInv == RefInv /\ [Next]_vars => RefInv'
<1> SUFFICES ASSUME RefInv, [Next]_vars PROVE RefInv'
  OBVIOUS
<1> USE ToggleConstantsAssumption
<1>1. TypeOK'
  BY NextTypeOK DEF RefInv
<1>2. ASSUME NEW u \in Users, StartToggle(u) PROVE RefInv'
  <2>1. PICK k \in Keys, v \in RuleToggleValues :
          /\ SerialToggles =>
                \A u2 \in Users \ {u} :
                    tg[u2].pc = "idle" \/ RuleKeyOf(tg[u2].key) # RuleKeyOf(k)
          /\ tg' = [tg EXCEPT ![u] = [pc |-> "timed", key |-> k, toggle |-> v,
                                      now |-> clock + 1, ret |-> "nil"]]
    BY <1>2 DEF StartToggle
  <2>2. RowsBeforeClock'
    BY <1>2 DEF StartToggle, RowsBeforeClock, RefInv, TypeOK, ToggleRows, Times
  <2>3. ASSUME SerialToggles PROVE PendingIsNewest'
    <3> SUFFICES ASSUME NEW u2 \in Users, tg'[u2].pc = "timed", NEW e \in ErrorKeys,
                        toggles'[<<tg'[u2].key[1], tg'[u2].key[2], e>>] # NoToggle
                 PROVE  toggles'[<<tg'[u2].key[1], tg'[u2].key[2], e>>].updatedAt < tg'[u2].now
      BY DEF PendingIsNewest
    <3>1. CASE u2 = u
      <4>1. tg'[u2].now = clock + 1 /\ tg'[u2].key = k
        BY <2>1, <3>1 DEF RefInv, TypeOK
      <4>2. <<k[1], k[2], e>> \in Keys
        BY DEF Keys
      <4>3. toggles[<<k[1], k[2], e>>] \in ToggleRows
        BY <1>2, <4>1, <4>2 DEF StartToggle, RefInv, TypeOK
      <4>4. toggles[<<k[1], k[2], e>>].updatedAt <= clock
        BY <1>2, <4>1, <4>2 DEF StartToggle, RefInv, RowsBeforeClock
      <4>5. QED
        BY <1>2, <4>1, <4>3, <4>4 DEF StartToggle, ToggleRows, Times, RefInv, TypeOK
    <3>2. CASE u2 # u
      BY <1>2, <2>1, <2>3, <3>2 DEF StartToggle, RefInv, PendingIsNewest, TypeOK
    <3>3. QED
      BY <3>1, <3>2
  <2>4. SerialToggles => PendingDistinctRules'
    BY <1>2, <2>1 DEF StartToggle, PendingDistinctRules, RefInv, TypeOK, HandlerStates
  <2>5. QED
    BY <1>1, <2>2, <2>3, <2>4 DEF RefInv
<1>3. ASSUME NEW u \in Users, ExecToggle(u) PROVE RefInv'
  <2>1. tg[u].now \in 1..clock /\ tg[u].key \in Keys
    BY <1>3 DEF ExecToggle, RefInv, TypeOK, HandlerStates
  <2>2. RowsBeforeClock'
    BY <1>3, <2>1 DEF ExecToggle, RowsBeforeClock, RefInv, TypeOK, ToggledRow
  <2>3. ASSUME SerialToggles PROVE PendingIsNewest'
    <3> SUFFICES ASSUME NEW u2 \in Users, tg'[u2].pc = "timed", NEW e \in ErrorKeys,
                        toggles'[<<tg'[u2].key[1], tg'[u2].key[2], e>>] # NoToggle
                 PROVE  toggles'[<<tg'[u2].key[1], tg'[u2].key[2], e>>].updatedAt < tg'[u2].now
      BY DEF PendingIsNewest
    <3>1. u2 # u /\ tg'[u2] = tg[u2] /\ tg[u2].pc = "timed"
      BY <1>3 DEF ExecToggle, RefInv, TypeOK
    <3>2. RuleKeyOf(tg[u2].key) # RuleKeyOf(tg[u].key)
      BY <1>3, <2>3, <3>1 DEF ExecToggle, RefInv, PendingDistinctRules
    <3>3. <<tg[u2].key[1], tg[u2].key[2], e>> # tg[u].key
      BY <3>2, <2>1 DEF RuleKeyOf, Keys
    <3>4. QED
      BY <1>3, <2>3, <3>1, <3>3 DEF ExecToggle, RefInv, PendingIsNewest, TypeOK
  <2>4. SerialToggles => PendingDistinctRules'
    BY <1>3 DEF ExecToggle, PendingDistinctRules, RefInv, TypeOK
  <2>5. QED
    BY <1>1, <2>2, <2>3, <2>4 DEF RefInv
<1>4. ASSUME NEW u \in Users, ExecToggleFail(u) PROVE RefInv'
  BY <1>1, <1>4 DEF ExecToggleFail, RefInv, RowsBeforeClock, PendingIsNewest,
                    PendingDistinctRules, TypeOK
<1>5. ASSUME NEW c \in Clusters, NEW r \in RuleIDs,
             DeleteFromRuleClusterToggle(c, r) PROVE RefInv'
  <2>1. \A k \in Keys : toggles'[k] = NoToggle \/ toggles'[k] = toggles[k]
    BY <1>5 DEF DeleteFromRuleClusterToggle
  <2>2. RowsBeforeClock'
    BY <1>5, <2>1 DEF DeleteFromRuleClusterToggle, RefInv, RowsBeforeClock
  <2>3. SerialToggles => PendingIsNewest'
    <3>1. \A u \in Users, e \in ErrorKeys : <<tg[u].key[1], tg[u].key[2], e>> \in Keys
      BY DEF RefInv, TypeOK, HandlerStates, Keys
    <3>2. QED
      BY <1>5, <2>1, <3>1 DEF DeleteFromRuleClusterToggle, RefInv, PendingIsNewest
  <2>4. SerialToggles => PendingDistinctRules'
    BY <1>5 DEF DeleteFromRuleClusterToggle, RefInv, PendingDistinctRules
  <2>5. QED
    BY <1>1, <2>2, <2>3, <2>4 DEF RefInv
<1>6. CASE UNCHANGED vars
  BY <1>1, <1>6 DEF vars, RefInv, RowsBeforeClock, PendingIsNewest, PendingDistinctRules
<1>7. QED
  BY <1>2, <1>3, <1>4, <1>5, <1>6 DEF Next

\* the current toggle of a rule depends only on the rows of that rule
LEMMA LatestKeyFrame ==
    ASSUME NEW c \in Clusters, NEW r \in RuleIDs,
           \A x \in ErrorKeys : toggles'[<<c, r, x>>] = toggles[<<c, r, x>>]
    PROVE  LatestKey(c, r)' = LatestKey(c, r)
<1>1. RowsOfRule(c, r)' = RowsOfRule(c, r)
  BY DEF RowsOfRule
<1>2. LatestToggleKeys(c, r)' = LatestToggleKeys(c, r)
  BY <1>1 DEF LatestToggleKeys, RowsOfRule
<1>3. QED
  BY <1>1, <1>2 DEF LatestKey

LEMMA InitRefines == Init => Abstract!Init
<1> SUFFICES ASSUME Init PROVE Abstract!Init
  OBVIOUS
<1>1. \A c \in Clusters, r \in RuleIDs : RowsOfRule(c, r) = {}
  BY DEF Init, RowsOfRule, Keys
<1>2. QED
  BY <1>1 DEF Init, Abstract!Init, flagBar, lastBar, LatestKey, Keys, RuleKeys,
              Abstract!Keys, Abstract!RuleKeys

\* a step of the store is a step of RuleToggleAbstract or leaves the
\* mapped state unchanged
LEMMA StepRefines ==
    ASSUME SerialToggles, RefInv, [Next]_vars
    PROVE  [Abstract!Next]_<<flagBar, lastBar>>
<1> USE ToggleConstantsAssumption
<1>1. CASE UNCHANGED toggles
  BY <1>1 DEF flagBar, lastBar, LatestKey, LatestToggleKeys, RowsOfRule
<1>2. ASSUME NEW u \in Users, ExecToggle(u)
      PROVE  [Abstract!Next]_<<flagBar, lastBar>>
  <2>1. PICK c \in Clusters, r \in RuleIDs, e \in ErrorKeys : tg[u].key = <<c, r, e>>
    BY <1>2 DEF ExecToggle, RefInv, TypeOK, HandlerStates, Keys
  <2>2. /\ tg[u].toggle \in RuleToggleValues
        /\ tg[u].now \in Times
        /\ tg[u].pc = "timed"
    BY <1>2 DEF ExecToggle, RefInv, TypeOK, HandlerStates, Times
  <2> DEFINE row == ToggledRow(tg[u].toggle, tg[u].now)
  <2>3. toggles' = [toggles EXCEPT ![<<c, r, e>>] = row]
    BY <1>2, <2>1 DEF ExecToggle
  <2>4. row # NoToggle /\ row.disabled = tg[u].toggle /\ row.updatedAt = tg[u].now
    BY <2>2, ToggledRowType, NoToggleAssumption DEF ToggledRow
  <2>5. flagBar' = [flagBar EXCEPT ![<<c, r, e>>] = tg[u].toggle]
    BY <2>3, <2>4 DEF flagBar, RefInv, TypeOK, Keys
  <2>6. LatestKey(c, r)' = e
    <3>1. e \in RowsOfRule(c, r)'
      BY <2>3, <2>4 DEF RowsOfRule, RefInv, TypeOK, Keys
    <3>2. \A f \in RowsOfRule(c, r)' : f # e =>
              /\ toggles'[<<c, r, f>>] = toggles[<<c, r, f>>]
              /\ toggles[<<c, r, f>>].updatedAt < tg[u].now
      BY <2>1, <2>2, <2>3 DEF RowsOfRule, RefInv, PendingIsNewest, TypeOK, Keys
    <3>3. \A f \in RowsOfRule(c, r)' : toggles'[<<c, r, f>>].updatedAt \in Nat
      BY <2>3, <2>4, <2>2 DEF RowsOfRule, RefInv, TypeOK, Keys, ToggleRows, Times
    <3>4. LatestToggleKeys(c, r)' = {e}
      BY <3>1, <3>2, <3>3, <2>3, <2>4 DEF LatestToggleKeys, RefInv, TypeOK, Keys
    <3>5. QED
      BY <3>1, <3>4 DEF LatestKey
  <2>7. lastBar' = [lastBar EXCEPT ![<<c, r>>] = e]
    <3>1. ASSUME NEW c2 \in Clusters, NEW r2 \in RuleIDs, <<c2, r2>> # <<c, r>>
          PROVE  LatestKey(c2, r2)' = LatestKey(c2, r2)
      <4>1. \A x \in ErrorKeys : toggles'[<<c2, r2, x>>] = toggles[<<c2, r2, x>>]
        BY <2>3, <3>1
      <4>2. QED
        BY <4>1, LatestKeyFrame
    <3>2. \A k \in RuleKeys : k # <<c, r>> =>
              LatestKey(k[1], k[2])' = LatestKey(k[1], k[2])
      BY <3>1 DEF RuleKeys
    <3>3. <<c, r>> \in RuleKeys
      BY DEF RuleKeys
    <3>4. lastBar' = [k \in RuleKeys |-> LatestKey(k[1], k[2])']
      BY DEF lastBar
    <3>5. lastBar = [k \in RuleKeys |-> LatestKey(k[1], k[2])]
      BY DEF lastBar
    <3>6. QED
      BY <2>6, <3>2, <3>3, <3>4, <3>5
  <2>8. Abstract!Toggle(c, r, e, tg[u].toggle)
    BY <2>5, <2>7 DEF Abstract!Toggle
  <2>9. QED
    BY <2>2, <2>8 DEF Abstract!Next, RuleToggleValues, RuleToggleDisable, RuleToggleEnable
<1>3. ASSUME NEW c \in Clusters, NEW r \in RuleIDs, DeleteFromRuleClusterToggle(c, r)
      PROVE  [Abstract!Next]_<<flagBar, lastBar>>
  <2>1. flagBar' = [k \in Keys |-> IF k[1] = c /\ k[2] = r THEN NoToggle ELSE flagBar[k]]
    BY <1>3 DEF DeleteFromRuleClusterToggle, flagBar, RuleKeyOf, Keys
  <2>2. LatestKey(c, r)' = NoKey
    <3>1. RowsOfRule(c, r)' = {}
      BY <1>3 DEF DeleteFromRuleClusterToggle, RowsOfRule, RuleKeyOf, Keys
    <3>2. QED
      BY <3>1 DEF LatestKey
  <2>3. lastBar' = [lastBar EXCEPT ![<<c, r>>] = NoKey]
    <3>1. ASSUME NEW c2 \in Clusters, NEW r2 \in RuleIDs, <<c2, r2>> # <<c, r>>
          PROVE  LatestKey(c2, r2)' = LatestKey(c2, r2)
      <4>1. \A x \in ErrorKeys : toggles'[<<c2, r2, x>>] = toggles[<<c2, r2, x>>]
        BY <1>3, <3>1 DEF DeleteFromRuleClusterToggle, RuleKeyOf, Keys
      <4>2. QED
        BY <4>1, LatestKeyFrame
    <3>2. \A k \in RuleKeys : k # <<c, r>> =>
              LatestKey(k[1], k[2])' = LatestKey(k[1], k[2])
      BY <3>1 DEF RuleKeys
    <3>3. <<c, r>> \in RuleKeys
      BY DEF RuleKeys
    <3>4. lastBar' = [k \in RuleKeys |-> LatestKey(k[1], k[2])']
      BY DEF lastBar
    <3>5. lastBar = [k \in RuleKeys |-> LatestKey(k[1], k[2])]
      BY DEF lastBar
    <3>6. QED
      BY <2>2, <3>2, <3>3, <3>4, <3>5
  <2>4. Abstract!Delete(c, r)
    BY <2>1, <2>3 DEF Abstract!Delete, Abstract!Keys, Keys
  <2>5. QED
    BY <2>4 DEF Abstract!Next
<1>4. QED
  BY <1>1, <1>2, <1>3 DEF Next, vars, StartToggle, ExecToggleFail

(* When the handlers never overlap two toggles of one rule, the store     *)
(* implements RuleToggleAbstract: GetFromClusterRuleToggle returns the    *)
(* toggle executed last for the rule.                                      *)
THEOREM SerialImplementsAbstract ==
    ASSUME SerialToggles PROVE Spec => ImplementsAbstract
<1>1. Spec => []RefInv
  BY InitRefInv, NextRefInv, PTL DEF Spec
<1>2. QED
  BY <1>1, InitRefines, StepRefines, PTL
  DEF Spec, ImplementsAbstract, Abstract!Spec

=============================================================================
