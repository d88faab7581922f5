------------------------ MODULE ReportStorageProofs ------------------------
(***************************************************************************)
(* Proofs about ReportStorage, for every value of the constants that       *)
(* satisfies ConstantsAssumption and NoRowAssumption.                      *)
(***************************************************************************)
EXTENDS ReportStorage, TLAPS

-----------------------------------------------------------------------------
(* Lemmas about the rule-hit upsert.                                       *)

(* The upsert of the rules of a report for (o, c) produces well-typed     *)
(* rule_hit rows, in either dialect.                                       *)
LEMMA UpsertType ==
    ASSUME NEW H \in SUBSET RuleHitRows, NEW o \in Orgs, NEW c \in Clusters,
           NEW items \in Reports, NEW id \in TxIds
    PROVE  UpsertRuleHits(H, o, c, items, id) \subseteq RuleHitRows
<1>1. items \subseteq ReportItems
  BY DEF Reports
<1>2. \A r \in H : [r EXCEPT !.templateData = r.errorKey] \in RuleHitRows
  BY DEF RuleHitRows
<1>3. \A i \in items :
        [org |-> o, cluster |-> c, module |-> i.module, errorKey |-> i.errorKey,
         templateData |-> i.templateData, id |-> id] \in RuleHitRows
  BY <1>1 DEF ReportItems, RuleHitRows
<1>. QED
  BY <1>2, <1>3 DEF UpsertRuleHits

(* The upsert leaves the rows of other clusters alone.                    *)
LEMMA UpsertKeepsOtherClusters ==
    ASSUME NEW H, NEW o, NEW c, NEW items, NEW id,
           NEW r \in H, r.cluster # c
    PROVE  r \in UpsertRuleHits(H, o, c, items, id)
<1>1. ~\E i \in items : KeyMatch(r, o, c, i)
  BY DEF KeyMatch
<1>. QED
  BY <1>1 DEF UpsertRuleHits

(* After the upsert, every rule of the report has a row with its key.     *)
LEMMA UpsertCoversItems ==
    ASSUME NEW H \in SUBSET RuleHitRows, NEW o, NEW c, NEW items, NEW id,
           NEW i \in items
    PROVE  \E r \in UpsertRuleHits(H, o, c, items, id) : KeyMatch(r, o, c, i)
<1>. DEFINE newRow == [org |-> o, cluster |-> c, module |-> i.module,
                       errorKey |-> i.errorKey, templateData |-> i.templateData,
                       id |-> id]
<1>1. KeyMatch(newRow, o, c, i)
  BY DEF KeyMatch
<1>2. CASE Driver = DriverSQLite3
  BY <1>1, <1>2 DEF UpsertRuleHits
<1>3. CASE Driver # DriverSQLite3
  <2>1. CASE \E r \in H : KeyMatch(r, o, c, i)
    <3>1. PICK r \in H : KeyMatch(r, o, c, i)
      BY <2>1
    <3>2. KeyMatch([r EXCEPT !.templateData = r.errorKey], o, c, i)
      BY <3>1 DEF RuleHitRows, KeyMatch
    <3>3. [r EXCEPT !.templateData = r.errorKey] \in UpsertRuleHits(H, o, c, items, id)
      BY <3>1, <1>3 DEF UpsertRuleHits
    <3>. QED
      BY <3>2, <3>3
  <2>2. CASE ~\E r \in H : KeyMatch(r, o, c, i)
    <3>1. newRow \in UpsertRuleHits(H, o, c, items, id)
      BY <2>2, <1>3 DEF UpsertRuleHits
    <3>. QED
      BY <1>1, <3>1
  <2>. QED
    BY <2>1, <2>2
<1>. QED
  BY <1>2, <1>3

-----------------------------------------------------------------------------
(* Type correctness.                                                       *)

LEMMA InitTypeOK == Init => TypeOK
<1>. SUFFICES ASSUME Init PROVE TypeOK
  OBVIOUS
<1>1. (CHOOSE o \in Orgs : TRUE) \in Orgs /\ (CHOOSE c \in Clusters : TRUE) \in Clusters
  BY ConstantsAssumption
<1>2. {} \in Reports
  BY DEF Reports
<1>3. 1 \in Times
  BY ConstantsAssumption DEF Times
<1>. QED
  BY <1>1, <1>2, <1>3, ConstantsAssumption
  DEF Init, TypeOK, WriterStates, PCs, HitsOf, NoTime

\* the state a writer returns to is well typed
LEMMA IdleType ==
    ASSUME TypeOK, NEW w \in Writers
    PROVE  /\ Idle(w) \in WriterStates
           /\ Idle(w).del \subseteq HitsOf(RuleHitRows, Idle(w).org, Idle(w).cluster)
           /\ Idle(w).pc = "idle"
BY DEF TypeOK, Idle, WriterStates, PCs

LEMMA NextTypeOK == TypeOK /\ [Next]_vars => TypeOK'
<1>. SUFFICES ASSUME TypeOK, [Next]_vars PROVE TypeOK'
  OBVIOUS
<1>. USE ConstantsAssumption
<1>1. ASSUME NEW w \in Writers, StartWrite(w) PROVE TypeOK'
  BY <1>1 DEF StartWrite, TypeOK, WriterStates, PCs, HitsOf
<1>2. ASSUME NEW w \in Writers, Recheck(w) PROVE TypeOK'
  <2>1. /\ wr'[w] \in WriterStates
        /\ wr'[w].del \subseteq HitsOf(RuleHitRows, wr'[w].org, wr'[w].cluster)
        /\ wr'[w].pc # "idle" => nWrites'[w] >= 1
    <3>1. CASE MoreRecentStored(wr[w].org, wr[w].cluster, wr[w].checked)
      <4>1. wr'[w] = Idle(w)
        BY <1>2, <3>1 DEF Recheck, TypeOK
      <4>. QED
        BY <4>1, IdleType
    <3>2. CASE ~MoreRecentStored(wr[w].org, wr[w].cluster, wr[w].checked)
      <4>1. wr'[w] = [wr[w] EXCEPT !.pc = "checked"]
        BY <1>2, <3>2 DEF Recheck, TypeOK
      <4>. QED
        BY <1>2, <4>1 DEF Recheck, TypeOK, WriterStates, PCs
    <3>. QED
      BY <3>1, <3>2
  <2>2. \A v \in Writers \ {w} : wr'[v] = wr[v]
    BY <1>2 DEF Recheck, TypeOK
  <2>3. DOMAIN wr' = Writers
    BY <1>2 DEF Recheck, TypeOK
  <2>4. wr' \in [Writers -> WriterStates]
    <3>1. wr' = [v \in Writers |-> wr'[v]]
      BY <1>2 DEF Recheck, TypeOK
    <3>. QED
      BY <2>1, <2>2, <3>1 DEF TypeOK
  <2>5. UNCHANGED <<report, ruleHits, cache, nWrites>>
    BY <1>2 DEF Recheck
  <2>6. \A v \in Writers : /\ wr'[v].pc # "idle" => nWrites'[v] >= 1
                           /\ wr'[v].del \subseteq HitsOf(RuleHitRows, wr'[v].org, wr'[v].cluster)
    BY <2>1, <2>2, <2>5 DEF TypeOK
  <2>. QED
    BY <2>4, <2>5, <2>6 DEF TypeOK
<1>3. ASSUME NEW w \in Writers, UpdateReport(w) PROVE TypeOK'
  <2>1. HitsOf(ruleHits, wr[w].org, wr[w].cluster)
          \subseteq HitsOf(RuleHitRows, wr[w].org, wr[w].cluster)
    BY DEF TypeOK, HitsOf
  <2>2. wr'[w] = [wr[w] EXCEPT !.pc = "updated",
                               !.del = HitsOf(ruleHits, wr[w].org, wr[w].cluster)]
    BY <1>3 DEF UpdateReport, TypeOK
  <2>3. wr'[w] \in WriterStates
    <3>1. wr[w] \in WriterStates
      BY DEF TypeOK
    <3>2. HitsOf(ruleHits, wr[w].org, wr[w].cluster) \in SUBSET RuleHitRows
      BY DEF TypeOK, HitsOf
    <3>. QED
      BY <2>2, <3>1, <3>2 DEF WriterStates, PCs
  <2>4. wr'[w].del \subseteq HitsOf(RuleHitRows, wr'[w].org, wr'[w].cluster)
    BY <2>1, <2>2 DEF TypeOK, WriterStates
  <2>. QED
    BY <1>3, <2>2, <2>3, <2>4 DEF UpdateReport, TypeOK
<1>4. ASSUME NEW w \in Writers, Abort(w) PROVE TypeOK'
  BY <1>4, IdleType DEF Abort, TypeOK
<1>5. ASSUME NEW w \in Writers, CacheSet(w) PROVE TypeOK'
  BY <1>5 DEF CacheSet, TypeOK, WriterStates, PCs
<1>6. ASSUME NEW w \in Writers, Commit(w) PROVE TypeOK'
  <2>1. <<w, nWrites[w]>> \in TxIds
    BY <1>6 DEF Commit, TypeOK, TxIds
  <2>2. ruleHits \ wr[w].del \in SUBSET RuleHitRows
    BY DEF TypeOK
  <2>3. ruleHits' \subseteq RuleHitRows
    BY <1>6, <2>1, <2>2, UpsertType DEF Commit, CommittedHits, TypeOK, WriterStates
  <2>4. report' \in [Clusters -> ReportRows \cup {NoRow}]
    BY <1>6 DEF Commit, CommittedReport, TypeOK, WriterStates, ReportRows
  <2>. QED
    BY <1>6, <2>3, <2>4, IdleType DEF Commit, TypeOK
<1>7. ASSUME NEW w \in Writers, CommitFail(w) PROVE TypeOK'
  BY <1>7, IdleType DEF CommitFail, TypeOK
<1>8. ASSUME NEW c \in Clusters, DeleteReportsForCluster(c) PROVE TypeOK'
  BY <1>8 DEF DeleteReportsForCluster, TypeOK
<1>9. ASSUME NEW o \in Orgs, DeleteReportsForOrg(o) PROVE TypeOK'
  BY <1>9 DEF DeleteReportsForOrg, TypeOK
<1>10. ASSUME NEW p \in Procs, Restart(p) PROVE TypeOK'
  <2>1. cache' \in [Procs -> [Clusters -> Times \cup {NoTime}]]
    BY <1>10 DEF Restart, TypeOK, ReportRows
  <2>2. wr' \in [Writers -> WriterStates]
    BY <1>10, IdleType DEF Restart, TypeOK
  <2>3. \A v \in Writers : wr'[v].del \subseteq HitsOf(RuleHitRows, wr'[v].org, wr'[v].cluster)
    BY <1>10, IdleType DEF Restart, TypeOK
  <2>4. \A v \in Writers : wr'[v].pc # "idle" => nWrites'[v] >= 1
    BY <1>10, IdleType DEF Restart, TypeOK
  <2>. QED
    BY <1>10, <2>1, <2>2, <2>3, <2>4 DEF Restart, TypeOK
<1>11. CASE UNCHANGED vars
  BY <1>11 DEF vars, TypeOK
<1>. QED
  BY <1>1, <1>2, <1>3, <1>4, <1>5, <1>6, <1>7, <1>8, <1>9, <1>10, <1>11 DEF Next

(* Every reachable state is well typed, every DELETE snapshot holds only  *)
(* rows of its writer's (org, cluster), and a writer inside a call has a  *)
(* transaction id.                                                        *)
THEOREM TypeCorrect == Spec => []TypeOK
BY InitTypeOK, NextTypeOK, PTL DEF Spec

-----------------------------------------------------------------------------
(* StoredReportComplete.  It is inductive together with TypeOK: TypeOK    *)
(* supplies that a DELETE snapshot only holds rows of its writer's own    *)
(* cluster, so a COMMIT for one cluster cannot remove the rule hits of    *)
(* another, and the upsert re-creates a row for every rule it writes.     *)

LEMMA InitComplete == Init => StoredReportComplete
BY NoRowAssumption DEF Init, StoredReportComplete

\* the commit of writer w keeps the rule hits of every stored report
LEMMA CommitComplete ==
    ASSUME TypeOK, StoredReportComplete, NEW w \in Writers, Commit(w)
    PROVE  StoredReportComplete'
<1>. DEFINE o == wr[w].org
            cw == wr[w].cluster
            H == ruleHits \ wr[w].del
            id == <<w, nWrites[w]>>
<1>1. ruleHits' = UpsertRuleHits(H, o, cw, wr[w].rules, id)
  BY DEF Commit, CommittedHits
<1>2. H \in SUBSET RuleHitRows
  BY DEF TypeOK
<1>3. SUFFICES ASSUME NEW c \in Clusters, report'[c] # NoRow,
                      NEW i \in report'[c].rules
               PROVE  \E r \in ruleHits' : KeyMatch(r, report'[c].org, c, i)
  BY DEF StoredReportComplete
<1>4. CASE c = cw
  <2>1. report'[c] = [org |-> o, checked |-> wr[w].checked, rules |-> wr[w].rules]
    BY <1>4 DEF Commit, CommittedReport, TypeOK, WriterStates
  <2>2. i \in wr[w].rules
    BY <1>3, <2>1
  <2>. QED
    BY <1>1, <1>2, <1>4, <2>1, <2>2, UpsertCoversItems
<1>5. CASE c # cw
  <2>1. report'[c] = report[c]
    BY <1>5 DEF Commit, CommittedReport, TypeOK
  <2>2. PICK r \in ruleHits : KeyMatch(r, report[c].org, c, i)
    BY <1>3, <2>1 DEF StoredReportComplete
  <2>3. r \notin wr[w].del
    BY <1>5, <2>2 DEF TypeOK, HitsOf, KeyMatch
  <2>4. r \in H /\ r.cluster # cw
    BY <1>5, <2>2, <2>3 DEF KeyMatch
  <2>5. r \in ruleHits'
    BY <1>1, <2>4, UpsertKeepsOtherClusters
  <2>. QED
    BY <2>1, <2>2, <2>5
<1>. QED
  BY <1>4, <1>5

LEMMA NextComplete ==
    TypeOK /\ StoredReportComplete /\ [Next]_vars => StoredReportComplete'
<1>. SUFFICES ASSUME TypeOK, StoredReportComplete, [Next]_vars
              PROVE  StoredReportComplete'
  OBVIOUS
\* the steps that leave both tables alone
<1>1. CASE UNCHANGED <<report, ruleHits>>
  BY <1>1 DEF StoredReportComplete, KeyMatch
<1>2. ASSUME NEW w \in Writers, Commit(w) PROVE StoredReportComplete'
  BY <1>2, CommitComplete
<1>3. ASSUME NEW c \in Clusters, DeleteReportsForCluster(c) PROVE StoredReportComplete'
  BY <1>3 DEF DeleteReportsForCluster, StoredReportComplete, TypeOK
<1>4. ASSUME NEW o \in Orgs, DeleteReportsForOrg(o) PROVE StoredReportComplete'
  BY <1>4 DEF DeleteReportsForOrg, StoredReportComplete, TypeOK
<1>5. ASSUME NEW w \in Writers,
             StartWrite(w) \/ Recheck(w) \/ UpdateReport(w) \/ Abort(w)
             \/ CacheSet(w) \/ CommitFail(w)
      PROVE  StoredReportComplete'
  <2>1. UNCHANGED <<report, ruleHits>>
    BY <1>5 DEF StartWrite, Recheck, UpdateReport, Abort, CacheSet, CommitFail
  <2>. QED
    BY <1>1, <2>1
<1>6. ASSUME NEW p \in Procs, Restart(p) PROVE StoredReportComplete'
  <2>1. UNCHANGED <<report, ruleHits>>
    BY <1>6 DEF Restart
  <2>. QED
    BY <1>1, <2>1
<1>7. CASE UNCHANGED vars
  BY <1>1, <1>7 DEF vars
<1>8. CASE Next
  <2>1. CASE \E w \in Writers :
               \/ StartWrite(w) \/ Recheck(w) \/ UpdateReport(w) \/ Abort(w)
               \/ CacheSet(w) \/ Commit(w) \/ CommitFail(w)
    BY <2>1, <1>2, <1>5
  <2>2. CASE \E c \in Clusters : DeleteReportsForCluster(c)
    BY <2>2, <1>3
  <2>3. CASE \E o \in Orgs : DeleteReportsForOrg(o)
    BY <2>3, <1>4
  <2>4. CASE \E p \in Procs : Restart(p)
    BY <2>4, <1>6
  <2>. QED
    BY <1>8, <2>1, <2>2, <2>3, <2>4 DEF Next
<1>. QED
  BY <1>7, <1>8

(* Every rule of a stored report has its rule_hit row under the report's *)
(* org, whatever the interleaving of WriteReportForCluster calls, failed  *)
(* statements, failed commits, deletions and process restarts.            *)
THEOREM StoredReportCompleteHolds == Spec => []StoredReportComplete
<1>1. Init => TypeOK /\ StoredReportComplete
  BY InitTypeOK, InitComplete
<1>2. TypeOK /\ StoredReportComplete /\ [Next]_vars
        => (TypeOK /\ StoredReportComplete)'
  BY NextTypeOK, NextComplete
<1>. QED
  BY <1>1, <1>2, PTL DEF Spec

-----------------------------------------------------------------------------
(* ReadReportForClusterExact when writes of one cluster never overlap.   *)
(* The inductive invariant says that the rule hits of the org that owns a *)
(* cluster's report are the report's rules, that a writer past its DELETE *)
(* holds a snapshot of all the rule hits of its (org, cluster), and that   *)
(* two writers inside a call write different clusters.  The snapshot      *)
(* conjunct is what makes the commit replace the whole set.               *)

ByOrgExact ==
    \A c \in Clusters : report[c] # NoRow =>
        {HitView(r) : r \in HitsOf(ruleHits, report[c].org, c)} = report[c].rules

SnapshotCurrent ==
    \A w \in Writers : wr[w].pc \in {"updated", "cached"} =>
        wr[w].del = HitsOf(ruleHits, wr[w].org, wr[w].cluster)

OneWriterPerCluster ==
    \A w, v \in Writers :
        w # v /\ wr[w].pc # "idle" /\ wr[v].pc # "idle" => wr[w].cluster # wr[v].cluster

SerialInv == TypeOK /\ ByOrgExact /\ SnapshotCurrent /\ OneWriterPerCluster

(* An upsert for (o, c) into a table with no row of (o, c) leaves exactly *)
(* one row per rule of the report for (o, c), in either dialect.           *)
LEMMA UpsertFresh ==
    ASSUME NEW H \in SUBSET RuleHitRows, NEW o, NEW c, NEW items \in Reports,
           NEW id, HitsOf(H, o, c) = {}
    PROVE  {HitView(r) : r \in HitsOf(UpsertRuleHits(H, o, c, items, id), o, c)} = items
<1>. DEFINE newRow(i) == [org |-> o, cluster |-> c, module |-> i.module,
                          errorKey |-> i.errorKey, templateData |-> i.templateData,
                          id |-> id]
            U == UpsertRuleHits(H, o, c, items, id)
<1>1. {r \in H : \E i \in items : KeyMatch(r, o, c, i)} = {}
  BY DEF HitsOf, KeyMatch
<1>2. \A i \in items : ~\E r \in H : KeyMatch(r, o, c, i)
  BY DEF HitsOf, KeyMatch
<1>3. U = H \cup {newRow(i) : i \in items}
  <2>1. CASE Driver = DriverSQLite3
    BY <1>1, <2>1 DEF UpsertRuleHits
  <2>2. CASE Driver # DriverSQLite3
    <3>1. {j \in items : ~\E r \in H : KeyMatch(r, o, c, j)} = items
      BY <1>2
    <3>2. QED
      BY <1>1, <2>2, <3>1 DEF UpsertRuleHits
  <2>3. QED
    BY <2>1, <2>2
<1>4. HitsOf(U, o, c) = {newRow(i) : i \in items}
  BY <1>3 DEF HitsOf
<1>5. \A i \in items : HitView(newRow(i)) = i
  <2>1. items \subseteq ReportItems
    BY DEF Reports
  <2>2. QED
    BY <2>1 DEF HitView, ReportItems
<1>6. {HitView(r) : r \in HitsOf(U, o, c)} = {HitView(newRow(i)) : i \in items}
  BY <1>4
<1>7. QED
  BY <1>5, <1>6

(* An upsert for (o, c) leaves the rows of every other (org, cluster).    *)
LEMMA UpsertOtherKeys ==
    ASSUME NEW H \in SUBSET RuleHitRows, NEW o, NEW c, NEW items, NEW id,
           NEW o2, NEW c2, o2 # o \/ c2 # c
    PROVE  HitsOf(UpsertRuleHits(H, o, c, items, id), o2, c2) = HitsOf(H, o2, c2)
<1>. DEFINE conf == {r \in H : \E i \in items : KeyMatch(r, o, c, i)}
            newRows(S) == {[org |-> o, cluster |-> c, module |-> i.module,
                            errorKey |-> i.errorKey, templateData |-> i.templateData,
                            id |-> id] : i \in S}
            fixed == {[r EXCEPT !.templateData = r.errorKey] : r \in conf}
<1>1. HitsOf(H \ conf, o2, c2) = HitsOf(H, o2, c2)
  BY DEF KeyMatch, HitsOf
<1>3. HitsOf(fixed, o2, c2) = {}
  BY DEF KeyMatch, HitsOf, RuleHitRows
<1>5. CASE Driver = DriverSQLite3
  <2>1. UpsertRuleHits(H, o, c, items, id) = (H \ conf) \cup newRows(items)
    BY <1>5 DEF UpsertRuleHits
  <2>2. HitsOf((H \ conf) \cup newRows(items), o2, c2) = HitsOf(H \ conf, o2, c2)
    BY DEF HitsOf
  <2>3. QED
    BY <1>1, <2>1, <2>2
<1>6. CASE Driver # DriverSQLite3
  <2>1. UpsertRuleHits(H, o, c, items, id)
          = ((H \ conf) \cup fixed)
              \cup newRows({j \in items : ~\E r \in H : KeyMatch(r, o, c, j)})
    BY <1>6 DEF UpsertRuleHits
  <2>2. HitsOf(((H \ conf) \cup fixed)
                  \cup newRows({j \in items : ~\E r \in H : KeyMatch(r, o, c, j)}), o2, c2)
          = HitsOf(H \ conf, o2, c2) \cup HitsOf(fixed, o2, c2)
    BY DEF HitsOf
  <2>3. QED
    BY <1>1, <1>3, <2>1, <2>2
<1>7. QED
  BY <1>5, <1>6

\* the commit of writer w keeps the invariant when writes do not overlap
LEMMA CommitSerial ==
    ASSUME SerialPerCluster, SerialInv, NEW w \in Writers, Commit(w)
    PROVE  ByOrgExact' /\ SnapshotCurrent' /\ OneWriterPerCluster'
<1>. DEFINE o == wr[w].org
            cw == wr[w].cluster
            D == wr[w].del
            H == ruleHits \ D
            id == <<w, nWrites[w]>>
<1>1. ruleHits' = UpsertRuleHits(H, o, cw, wr[w].rules, id)
  BY DEF Commit, CommittedHits
<1>2. /\ H \in SUBSET RuleHitRows
      /\ D \in SUBSET HitsOf(RuleHitRows, o, cw)
      /\ wr[w].rules \in Reports
      /\ o \in Orgs /\ cw \in Clusters
      /\ wr[w].pc = "cached"
  BY DEF SerialInv, TypeOK, WriterStates, Commit
<1>3. D = HitsOf(ruleHits, o, cw)
  BY <1>2 DEF SerialInv, SnapshotCurrent
<1>4. HitsOf(H, o, cw) = {}
  BY <1>3 DEF HitsOf
\* the rows of any other (org, cluster) are those before the commit
<1>5. ASSUME NEW o2, NEW c2, o2 # o \/ c2 # cw
      PROVE  HitsOf(ruleHits', o2, c2) = HitsOf(ruleHits, o2, c2)
  <2>1. HitsOf(ruleHits', o2, c2) = HitsOf(H, o2, c2)
    BY <1>1, <1>2, <1>5, UpsertOtherKeys
  <2>2. HitsOf(H, o2, c2) = HitsOf(ruleHits, o2, c2)
    BY <1>2, <1>5 DEF HitsOf
  <2>3. QED
    BY <2>1, <2>2
<1>6. ByOrgExact'
  <2> SUFFICES ASSUME NEW c \in Clusters, report'[c] # NoRow
               PROVE  {HitView(r) : r \in HitsOf(ruleHits', report'[c].org, c)} = report'[c].rules
    BY DEF ByOrgExact
  <2>1. CASE c = cw
    <3>1. report'[c].org = o /\ report'[c].rules = wr[w].rules
      BY <2>1, <1>2 DEF Commit, CommittedReport, SerialInv, TypeOK
    <3>2. {HitView(r) : r \in HitsOf(ruleHits', o, cw)} = wr[w].rules
      BY <1>1, <1>2, <1>4, UpsertFresh
    <3>3. QED
      BY <2>1, <3>1, <3>2
  <2>2. CASE c # cw
    <3>1. report'[c] = report[c]
      BY <2>2 DEF Commit, CommittedReport, SerialInv, TypeOK
    <3>2. HitsOf(ruleHits', report[c].org, c) = HitsOf(ruleHits, report[c].org, c)
      BY <2>2, <1>5
    <3>3. QED
      BY <3>1, <3>2 DEF SerialInv, ByOrgExact
  <2>3. QED
    BY <2>1, <2>2
<1>7. SnapshotCurrent'
  <2> SUFFICES ASSUME NEW v \in Writers, wr'[v].pc \in {"updated", "cached"}
               PROVE  wr'[v].del = HitsOf(ruleHits', wr'[v].org, wr'[v].cluster)
    BY DEF SnapshotCurrent
  <2>1. v # w /\ wr'[v] = wr[v]
    BY DEF Commit, Idle, SerialInv, TypeOK
  <2>2. wr[v].cluster # cw
    BY <1>2, <2>1 DEF SerialInv, OneWriterPerCluster
  <2>3. HitsOf(ruleHits', wr[v].org, wr[v].cluster) = HitsOf(ruleHits, wr[v].org, wr[v].cluster)
    BY <2>2, <1>5
  <2>4. QED
    BY <2>1, <2>3 DEF SerialInv, SnapshotCurrent
<1>8. OneWriterPerCluster'
  BY DEF Commit, Idle, SerialInv, TypeOK, OneWriterPerCluster
<1>9. QED
  BY <1>6, <1>7, <1>8

LEMMA InitSerial == Init => SerialInv
<1>. SUFFICES ASSUME Init PROVE SerialInv
  OBVIOUS
<1>. QED
  BY InitTypeOK, NoRowAssumption
  DEF Init, SerialInv, ByOrgExact, SnapshotCurrent, OneWriterPerCluster

LEMMA NextSerial ==
    ASSUME SerialPerCluster
    PROVE  SerialInv /\ [Next]_vars => SerialInv'
<1>. SUFFICES ASSUME SerialInv, [Next]_vars PROVE SerialInv'
  OBVIOUS
<1>0. TypeOK'
  BY NextTypeOK DEF SerialInv
\* the steps that leave both tables alone keep ByOrgExact
<1>1. ASSUME UNCHANGED <<report, ruleHits>> PROVE ByOrgExact'
  BY <1>1 DEF SerialInv, ByOrgExact, HitsOf, HitView
\* a writer that leaves its call or has not deleted yet needs no snapshot
<1>2. ASSUME NEW w \in Writers, StartWrite(w) PROVE SerialInv'
  <2>1. SnapshotCurrent'
    BY <1>2 DEF StartWrite, SerialInv, TypeOK, SnapshotCurrent
  <2>2. OneWriterPerCluster'
    BY <1>2 DEF StartWrite, SerialInv, TypeOK, OneWriterPerCluster
  <2>. QED
    BY <1>0, <1>1, <1>2, <2>1, <2>2 DEF StartWrite, SerialInv
<1>3. ASSUME NEW w \in Writers, Recheck(w) PROVE SerialInv'
  <2>1. /\ wr'[w].pc \in {"idle", "checked"}
        /\ wr'[w].cluster = wr[w].cluster
        /\ wr[w].pc # "idle"
    BY <1>3 DEF Recheck, Idle, SerialInv, TypeOK, WriterStates
  <2>2. \A v \in Writers \ {w} : wr'[v] = wr[v]
    BY <1>3 DEF Recheck, SerialInv, TypeOK
  <2>3. SnapshotCurrent'
    BY <1>3, <2>1, <2>2 DEF Recheck, SerialInv, SnapshotCurrent
  <2>4. OneWriterPerCluster'
    BY <2>1, <2>2 DEF SerialInv, OneWriterPerCluster
  <2>. QED
    BY <1>0, <1>1, <1>3, <2>3, <2>4 DEF Recheck, SerialInv
<1>4. ASSUME NEW w \in Writers, UpdateReport(w) PROVE SerialInv'
  <2>1. SnapshotCurrent'
    BY <1>4 DEF UpdateReport, SerialInv, TypeOK, WriterStates, SnapshotCurrent
  <2>2. OneWriterPerCluster'
    BY <1>4 DEF UpdateReport, SerialInv, TypeOK, WriterStates, OneWriterPerCluster
  <2>. QED
    BY <1>0, <1>1, <1>4, <2>1, <2>2 DEF UpdateReport, SerialInv
\* a writer returns: its snapshot and its cluster are released
<1>5. ASSUME NEW w \in Writers, Abort(w) \/ CommitFail(w) PROVE SerialInv'
  <2>1. /\ wr' = [wr EXCEPT ![w] = Idle(w)]
        /\ UNCHANGED <<report, ruleHits>>
    BY <1>5 DEF Abort, CommitFail
  <2>2. wr'[w].pc = "idle"
    BY <2>1 DEF Idle, SerialInv, TypeOK
  <2>3. \A v \in Writers \ {w} : wr'[v] = wr[v]
    BY <2>1 DEF SerialInv, TypeOK
  <2>4. SnapshotCurrent' /\ OneWriterPerCluster'
    BY <2>1, <2>2, <2>3 DEF SerialInv, SnapshotCurrent, OneWriterPerCluster
  <2>. QED
    BY <1>0, <1>1, <2>1, <2>4 DEF SerialInv
<1>6. ASSUME NEW w \in Writers, CacheSet(w) PROVE SerialInv'
  <2>1. SnapshotCurrent' /\ OneWriterPerCluster'
    BY <1>6 DEF CacheSet, SerialInv, TypeOK, WriterStates,
               SnapshotCurrent, OneWriterPerCluster
  <2>. QED
    BY <1>0, <1>1, <1>6, <2>1 DEF CacheSet, SerialInv
<1>7. ASSUME NEW w \in Writers, Commit(w) PROVE SerialInv'
  BY <1>0, <1>7, CommitSerial DEF SerialInv
\* a deleted report row asks nothing of the rule hits
<1>8. ASSUME UNCHANGED <<ruleHits, wr>>,
             \A c \in Clusters : report'[c] = report[c] \/ report'[c] = NoRow
      PROVE  SerialInv'
  <2>1. ByOrgExact'
    BY <1>8 DEF SerialInv, ByOrgExact
  <2>. QED
    BY <1>0, <1>8, <2>1 DEF SerialInv, SnapshotCurrent, OneWriterPerCluster
<1>9. ASSUME NEW c \in Clusters, DeleteReportsForCluster(c) PROVE SerialInv'
  BY <1>8, <1>9 DEF DeleteReportsForCluster, SerialInv, TypeOK
<1>10. ASSUME NEW o \in Orgs, DeleteReportsForOrg(o) PROVE SerialInv'
  BY <1>8, <1>10 DEF DeleteReportsForOrg
<1>11. ASSUME NEW p \in Procs, Restart(p) PROVE SerialInv'
  <2>1. \A v \in Writers : wr'[v] = wr[v] \/ wr'[v] = Idle(v)
    BY <1>11 DEF Restart
  <2>2. \A v \in Writers : wr'[v] = Idle(v) => wr'[v].pc = "idle"
    BY DEF Idle, SerialInv, TypeOK
  <2>3. SnapshotCurrent' /\ OneWriterPerCluster'
    BY <1>11, <2>1, <2>2 DEF Restart, SerialInv, SnapshotCurrent, OneWriterPerCluster
  <2>. QED
    BY <1>0, <1>1, <1>11, <2>3 DEF Restart, SerialInv
<1>12. CASE UNCHANGED vars
  BY <1>0, <1>12 DEF vars, SerialInv, ByOrgExact, SnapshotCurrent, OneWriterPerCluster
<1>. QED
  BY <1>2, <1>3, <1>4, <1>5, <1>6, <1>7, <1>9, <1>10, <1>11, <1>12 DEF Next

(* When the caller never overlaps two writes of one cluster (the          *)
(* SerialPerCluster discipline), ReadReportForCluster returns exactly the *)
(* rules of the stored report whenever it finds one, for every number of *)
(* clusters, orgs, rules, writers and processes.                           *)
THEOREM ReadReportForClusterExactHolds ==
    ASSUME SerialPerCluster
    PROVE  Spec => []ReadReportForClusterExact
<1>1. SerialInv => ReadReportForClusterExact
  <2>. SUFFICES ASSUME SerialInv, NEW o \in Orgs, NEW c \in Clusters,
                       ReadReportForCluster(o, c).err = "nil"
                PROVE  ReadReportForCluster(o, c).rules = report[c].rules
    BY DEF ReadReportForClusterExact
  <2>1. report[c] # NoRow /\ report[c].org = o
    BY DEF ReadReportForCluster, ReadNotFound
  <2>. QED
    BY <2>1 DEF ReadReportForCluster, SerialInv, ByOrgExact
<1>. QED
  BY <1>1, InitSerial, NextSerial, PTL DEF Spec

(* With a single org and writes of one cluster that never overlap, the   *)
(* read by cluster name (ReadReportForClusterByClusterName) returns       *)
(* exactly the rules of the stored report.  With two orgs it does not     *)
(* (run moved_cluster): every rule_hit row then belongs to the one org,   *)
(* so the rows of the cluster are the rows of its owner.                  *)
THEOREM RuleHitsExactOneOrg ==
    ASSUME SerialPerCluster, NEW o0, Orgs = {o0}
    PROVE  Spec => []RuleHitsExact
<1>1. SerialInv => RuleHitsExact
  <2>. SUFFICES ASSUME SerialInv, NEW c \in Clusters, report[c] # NoRow
                PROVE  ReadReportForClusterByClusterName(c).rules = report[c].rules
    BY DEF RuleHitsExact
  <2>1. report[c].org = o0
    BY DEF SerialInv, TypeOK, ReportRows
  <2>2. HitsOfCluster(c) = HitsOf(ruleHits, report[c].org, c)
    BY <2>1 DEF SerialInv, TypeOK, RuleHitRows, HitsOfCluster, HitsOf
  <2>3. ReadReportForClusterByClusterName(c).rules = {HitView(r) : r \in HitsOfCluster(c)}
    BY DEF ReadReportForClusterByClusterName
  <2>. QED
    BY <2>2, <2>3 DEF SerialInv, ByOrgExact
<1>. QED
  BY <1>1, InitSerial, NextSerial, PTL DEF Spec

-----------------------------------------------------------------------------
(* ReportMonotonic and the refinement of ReportStoreAbstract.  Both need  *)
(* one more conjunct: a writer past its re-check saw no more recent       *)
(* report of its (org, cluster), and since no other writer writes that    *)
(* cluster until it returns, what it saw is still true at its COMMIT.     *)

RecheckPassed ==
    \A w \in Writers : wr[w].pc \in {"checked", "updated", "cached"} =>
        ~MoreRecentStored(wr[w].org, wr[w].cluster, wr[w].checked)

MonoInv == SerialInv /\ RecheckPassed

\* a step that changes no report row into a more recent one, and leaves
\* the writer's arguments alone, keeps what its re-check saw
LEMMA NoNewerReport ==
    ASSUME NEW o, NEW c \in Clusters, NEW t,
           report'[c] = report[c] \/ report'[c] = NoRow,
           ~MoreRecentStored(o, c, t)
    PROVE  ~MoreRecentStored(o, c, t)'
BY DEF MoreRecentStored

LEMMA NextRecheck ==
    ASSUME SerialPerCluster, SerialInv, RecheckPassed, [Next]_vars
    PROVE  RecheckPassed'
<1>. DEFINE Passed(v) == wr[v].pc \in {"checked", "updated", "cached"}
<1>. SUFFICES ASSUME NEW v \in Writers, Passed(v)'
              PROVE  ~MoreRecentStored(wr[v].org, wr[v].cluster, wr[v].checked)'
  BY DEF RecheckPassed
<1>0. wr[v].cluster \in Clusters
  BY DEF SerialInv, TypeOK, WriterStates
\* the steps that leave the report table and v's arguments alone
<1>1. ASSUME report' = report, Passed(v),
             wr'[v].org = wr[v].org, wr'[v].cluster = wr[v].cluster,
             wr'[v].checked = wr[v].checked
      PROVE  ~MoreRecentStored(wr[v].org, wr[v].cluster, wr[v].checked)'
  BY <1>0, <1>1, NoNewerReport DEF RecheckPassed
<1>2. ASSUME NEW w \in Writers, StartWrite(w)
      PROVE  ~MoreRecentStored(wr[v].org, wr[v].cluster, wr[v].checked)'
  <2>1. v # w /\ wr'[v] = wr[v]
    BY <1>2 DEF StartWrite, SerialInv, TypeOK
  <2>. QED
    BY <1>1, <1>2, <2>1 DEF StartWrite
<1>3. ASSUME NEW w \in Writers, Recheck(w)
      PROVE  ~MoreRecentStored(wr[v].org, wr[v].cluster, wr[v].checked)'
  <2>1. CASE v = w
    <3>1. ~MoreRecentStored(wr[w].org, wr[w].cluster, wr[w].checked)
      BY <1>3, <2>1 DEF Recheck, Idle, SerialInv, TypeOK, WriterStates
    <3>2. wr'[w].org = wr[w].org /\ wr'[w].cluster = wr[w].cluster
          /\ wr'[w].checked = wr[w].checked
      BY <1>3, <3>1 DEF Recheck, SerialInv, TypeOK, WriterStates
    <3>3. report' = report
      BY <1>3 DEF Recheck
    <3>. QED
      BY <1>0, <2>1, <3>1, <3>2, <3>3, NoNewerReport
  <2>2. CASE v # w
    BY <1>1, <1>3, <2>2 DEF Recheck, SerialInv, TypeOK
  <2>. QED
    BY <2>1, <2>2
<1>4. ASSUME NEW w \in Writers, UpdateReport(w) \/ CacheSet(w)
      PROVE  ~MoreRecentStored(wr[v].org, wr[v].cluster, wr[v].checked)'
  <2>0. wr[v] \in WriterStates
    BY DEF SerialInv, TypeOK
  <2>1. CASE UpdateReport(w)
    <3>1. report' = report /\ wr' = [wr EXCEPT ![w].pc = "updated",
                  ![w].del = HitsOf(ruleHits, wr[w].org, wr[w].cluster)]
      BY <2>1 DEF UpdateReport
    <3>2. wr'[v].org = wr[v].org /\ wr'[v].cluster = wr[v].cluster
          /\ wr'[v].checked = wr[v].checked /\ wr[v].pc \in {"checked", "updated", "cached"}
      <4>1. CASE v = w
        <5>1. wr[w].pc = "checked" /\ wr[w] \in WriterStates
          BY <2>1 DEF UpdateReport, SerialInv, TypeOK
        <5>2. wr'[w] = [wr[w] EXCEPT !.pc = "updated",
                          !.del = HitsOf(ruleHits, wr[w].org, wr[w].cluster)]
          BY <3>1, <5>1 DEF SerialInv, TypeOK
        <5>. QED
          BY <4>1, <5>1, <5>2 DEF WriterStates
      <4>2. CASE v # w
        <5>1. wr'[v] = wr[v]
          BY <3>1, <4>2 DEF SerialInv, TypeOK
        <5>. QED
          BY <5>1
      <4>. QED
        BY <4>1, <4>2
    <3>. QED
      BY <1>0, <3>1, <3>2, NoNewerReport DEF RecheckPassed, MoreRecentStored
  <2>2. CASE CacheSet(w)
    <3>1. report' = report /\ wr' = [wr EXCEPT ![w].pc = "cached"]
      BY <2>2 DEF CacheSet
    <3>2. wr'[v].org = wr[v].org /\ wr'[v].cluster = wr[v].cluster
          /\ wr'[v].checked = wr[v].checked /\ wr[v].pc \in {"checked", "updated", "cached"}
      <4>1. CASE v = w
        <5>1. wr[w].pc = "updated" /\ wr[w] \in WriterStates
          BY <2>2 DEF CacheSet, SerialInv, TypeOK
        <5>2. wr'[w] = [wr[w] EXCEPT !.pc = "cached"]
          BY <3>1, <5>1 DEF SerialInv, TypeOK
        <5>. QED
          BY <4>1, <5>1, <5>2 DEF WriterStates
      <4>2. CASE v # w
        <5>1. wr'[v] = wr[v]
          BY <3>1, <4>2 DEF SerialInv, TypeOK
        <5>. QED
          BY <5>1
      <4>. QED
        BY <4>1, <4>2
    <3>. QED
      BY <1>0, <3>1, <3>2, NoNewerReport DEF RecheckPassed, MoreRecentStored
  <2>. QED
    BY <1>4, <2>1, <2>2
<1>5. ASSUME NEW w \in Writers, Abort(w) \/ CommitFail(w)
      PROVE  ~MoreRecentStored(wr[v].org, wr[v].cluster, wr[v].checked)'
  <2>1. wr' = [wr EXCEPT ![w] = Idle(w)] /\ report' = report
    BY <1>5 DEF Abort, CommitFail
  <2>2. v # w /\ wr'[v] = wr[v]
    BY <2>1 DEF Idle, SerialInv, TypeOK
  <2>. QED
    BY <1>1, <2>1, <2>2
<1>6. ASSUME NEW w \in Writers, Commit(w)
      PROVE  ~MoreRecentStored(wr[v].org, wr[v].cluster, wr[v].checked)'
  <2>1. v # w /\ wr'[v] = wr[v]
    BY <1>6 DEF Commit, Idle, SerialInv, TypeOK
  <2>2. wr[v].cluster # wr[w].cluster
    BY <1>6, <2>1 DEF Commit, SerialInv, OneWriterPerCluster
  <2>3. report'[wr[v].cluster] = report[wr[v].cluster]
    BY <1>6, <2>2 DEF Commit, CommittedReport, SerialInv, TypeOK
  <2>. QED
    BY <1>0, <2>1, <2>3, NoNewerReport DEF RecheckPassed
<1>7. ASSUME UNCHANGED wr, \A c \in Clusters : report'[c] = report[c] \/ report'[c] = NoRow
      PROVE  ~MoreRecentStored(wr[v].org, wr[v].cluster, wr[v].checked)'
  BY <1>0, <1>7, NoNewerReport DEF RecheckPassed
<1>8. ASSUME NEW c \in Clusters, DeleteReportsForCluster(c)
      PROVE  ~MoreRecentStored(wr[v].org, wr[v].cluster, wr[v].checked)'
  BY <1>7, <1>8 DEF DeleteReportsForCluster, SerialInv, TypeOK
<1>9. ASSUME NEW o \in Orgs, DeleteReportsForOrg(o)
      PROVE  ~MoreRecentStored(wr[v].org, wr[v].cluster, wr[v].checked)'
  BY <1>7, <1>9 DEF DeleteReportsForOrg
<1>10. ASSUME NEW p \in Procs, Restart(p)
       PROVE  ~MoreRecentStored(wr[v].org, wr[v].cluster, wr[v].checked)'
  <2>1. wr'[v] = IF ProcOf[v] = p THEN Idle(v) ELSE wr[v]
    BY <1>10 DEF Restart
  <2>2. wr'[v] = wr[v]
    BY <2>1 DEF Idle, SerialInv, TypeOK
  <2>. QED
    BY <1>1, <1>10, <2>2 DEF Restart
<1>11. CASE UNCHANGED vars
  BY <1>1, <1>11 DEF vars
<1>. QED
  BY <1>2, <1>3, <1>4, <1>5, <1>6, <1>8, <1>9, <1>10, <1>11 DEF Next

LEMMA InitMono == Init => MonoInv
BY InitSerial DEF Init, MonoInv, RecheckPassed

LEMMA NextMono ==
    ASSUME SerialPerCluster
    PROVE  MonoInv /\ [Next]_vars => MonoInv'
BY NextSerial, NextRecheck DEF MonoInv

\* a COMMIT writes a report at least as recent as the one it replaces, when
\* every report belongs to the one org
LEMMA CommitNotOlder ==
    ASSUME SerialPerCluster, NEW o0, Orgs = {o0}, MonoInv,
           NEW w \in Writers, Commit(w),
           NEW c \in Clusters, report[c] # NoRow
    PROVE  report'[c].checked >= report[c].checked
<1>1. CASE c = wr[w].cluster
  <2>1. report[c].org = wr[w].org /\ report[c].checked \in Times
        /\ wr[w].checked \in Times
    BY DEF MonoInv, SerialInv, TypeOK, ReportRows, WriterStates
  <2>2. ~(report[c].checked > wr[w].checked)
    BY <1>1, <2>1 DEF Commit, MonoInv, RecheckPassed, MoreRecentStored
  <2>3. report'[c].checked = wr[w].checked
    BY <1>1 DEF Commit, CommittedReport, MonoInv, SerialInv, TypeOK
  <2>. QED
    BY <2>1, <2>2, <2>3 DEF Times
<1>2. CASE c # wr[w].cluster
  <2>1. report'[c] = report[c] /\ report[c].checked \in Times
    BY <1>2 DEF Commit, CommittedReport, MonoInv, SerialInv, TypeOK, ReportRows
  <2>. QED
    BY <2>1 DEF Times
<1>. QED
  BY <1>1, <1>2

(* ReportMonotonic for every number of clusters, writers and processes,  *)
(* when one org sends every report and writes of one cluster are serial: *)
(* the re-check in updateReport (MoreRecentStored) and the cluster lock  *)
(* together keep an older report from replacing a newer one.             *)
THEOREM ReportMonotonicHolds ==
    ASSUME SerialPerCluster, NEW o0, Orgs = {o0}
    PROVE  Spec => ReportMonotonic
<1>. DEFINE NotBack == \A c \in Clusters :
                          report[c] # NoRow /\ report'[c] # NoRow =>
                              report'[c].checked >= report[c].checked
<1>1. MonoInv /\ [Next]_vars => [NotBack]_vars
  <2>. SUFFICES ASSUME MonoInv, [Next]_vars, NEW c \in Clusters,
                       report[c] # NoRow, report'[c] # NoRow
                PROVE  report'[c].checked >= report[c].checked
    OBVIOUS
  <2>0. report[c].checked \in Nat
    BY DEF MonoInv, SerialInv, TypeOK, ReportRows, Times
  <2>1. ASSUME NEW w \in Writers, Commit(w)
        PROVE  report'[c].checked >= report[c].checked
    BY <2>1, CommitNotOlder
  <2>2. ASSUME NEW d \in Clusters, DeleteReportsForCluster(d)
        PROVE  report'[c].checked >= report[c].checked
    BY <2>0, <2>2 DEF DeleteReportsForCluster, MonoInv, SerialInv, TypeOK
  <2>3. ASSUME NEW o \in Orgs, DeleteReportsForOrg(o)
        PROVE  report'[c].checked >= report[c].checked
    BY <2>0, <2>3 DEF DeleteReportsForOrg
  <2>4. ASSUME report' = report
        PROVE  report'[c].checked >= report[c].checked
    BY <2>0, <2>4
  <2>. QED
    BY <2>1, <2>2, <2>3, <2>4
       DEF Next, vars, StartWrite, Recheck, UpdateReport, Abort, CacheSet,
           CommitFail, Restart
<1>. QED
  BY <1>1, InitMono, NextMono, PTL DEF Spec, ReportMonotonic

=============================================================================
