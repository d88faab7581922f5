--------------------------- MODULE ReportStorage ---------------------------
(***************************************************************************)
(* The report write path of storage.DBStorage (src/storage/storage.go):   *)
(* WriteReportForCluster, run by several writer goroutines that live in    *)
(* several aggregator processes (db-writer replicas), each process with    *)
(* its own in-memory clustersLastChecked map, against one shared database  *)
(* holding the tables report and rule_hit.                                 *)
(*                                                                         *)
(* A writer's transaction is split at the points where another writer's   *)
(* statements can interleave: the fast-path cache check and BEGIN, the     *)
(* re-check SELECT, updateReport (DELETE of the old rule hits), the write  *)
(* to the cache, and COMMIT.  Statements read the committed state at the  *)
(* moment they run (PostgreSQL READ COMMITTED).  The DELETE removes the    *)
(* row versions it saw when it ran; the rule-hit and report upserts take   *)
(* effect at COMMIT: an upsert that meets another transaction's row blocks *)
(* until that transaction ends, so the transaction that commits first      *)
(* inserts and the later one takes the ON CONFLICT branch.                 *)
(***************************************************************************)
EXTENDS Naturals, FiniteSets

CONSTANTS
    Clusters,        \* cluster names
    Orgs,            \* organization IDs
    RuleIDs,         \* rule modules (rule_fqdn)
    ErrorKeys,       \* error keys of the rules
    TemplateData,    \* template data payloads of rule hits
    Writers,         \* goroutines calling WriteReportForCluster
    Procs,           \* aggregator processes, one DBStorage each
    ProcOf,          \* the process a writer goroutine runs in
    MaxTime,         \* checked-at timestamps are 1..MaxTime
    MaxWrites,       \* bound on the calls one writer makes
    Driver,          \* storage.dbDriverType
    SerialPerCluster,\* TRUE: the caller never overlaps two writes of a cluster
    NoRow            \* no report row for a cluster

DriverSQLite3  == "sqlite3"
DriverPostgres == "postgres"

ASSUME ConstantsAssumption ==
    /\ Clusters # {} /\ Orgs # {}
    /\ MaxTime \in Nat \ {0}
    /\ MaxWrites \in Nat \ {0}
    /\ ProcOf \in [Writers -> Procs]
    /\ SerialPerCluster \in BOOLEAN
    /\ Driver \in {DriverSQLite3, DriverPostgres, "unsupported"}

Times == 1..MaxTime
\* clustersLastChecked has no entry for a cluster: 0 is below every timestamp
NoTime == 0

\* One rule of an incoming report (types.ReportItem): module, error key,
\* template data.  A report lists each (module, error key) at most once.
ReportItems == [module: RuleIDs, errorKey: ErrorKeys, templateData: TemplateData]
SameRule(a, b) == a.module = b.module /\ a.errorKey = b.errorKey
Reports == {S \in SUBSET ReportItems : \A a, b \in S : SameRule(a, b) => a = b}

\* A row of table report.  The report blob is abstracted to the rules it lists.
ReportRows == [org: Orgs, checked: Times, rules: Reports]
ASSUME NoRowAssumption == NoRow \notin ReportRows

\* A row version of table rule_hit.  id names the transaction that inserted
\* it, so that a DELETE removes exactly the versions it saw.  The ON
\* CONFLICT branch of the PostgreSQL upsert stores the error key as the
\* template data, so templateData also ranges over ErrorKeys.
TxIds == Writers \X (1..MaxWrites)
RuleHitRows == [org: Orgs, cluster: Clusters, module: RuleIDs,
                errorKey: ErrorKeys, templateData: TemplateData \cup ErrorKeys,
                id: TxIds]

PCs == {"idle", "begun", "checked", "updated", "cached"}

VARIABLES
    report,     \* table report: cluster -> row or NoRow
    ruleHits,   \* table rule_hit: set of row versions
    cache,      \* clustersLastChecked of each process: cluster -> time or NoTime
    wr,         \* local state of each writer goroutine
    nWrites     \* calls made by each writer so far

vars == <<report, ruleHits, cache, wr, nWrites>>

WriterStates == [pc: PCs, org: Orgs, cluster: Clusters, checked: Times,
                 rules: Reports, del: SUBSET RuleHitRows]

\* The rule_hit rows of one (org, cluster): what the DELETE of updateReport
\* and ReadReportForCluster select.
HitsOf(H, o, c) == {r \in H : r.org = o /\ r.cluster = c}

TypeOK ==
    /\ report \in [Clusters -> ReportRows \cup {NoRow}]
    /\ ruleHits \subseteq RuleHitRows
    /\ cache \in [Procs -> [Clusters -> Times \cup {NoTime}]]
    /\ wr \in [Writers -> WriterStates]
    /\ nWrites \in [Writers -> 0..MaxWrites]
    \* a writer inside a call has counted it: its transaction id is a TxId
    /\ \A w \in Writers : wr[w].pc # "idle" => nWrites[w] >= 1
    \* a DELETE only saw rows of the writer's own (org, cluster)
    /\ \A w \in Writers : wr[w].del \subseteq HitsOf(RuleHitRows, wr[w].org, wr[w].cluster)

-----------------------------------------------------------------------------
(* Helpers that translate single statements.                               *)

\* Variant: the authoritative re-check is left out.
MoreRecentStoredSkipped(o, c, t) == FALSE

\* the SELECT of the authoritative re-check finds a more recent report
\* for the same org and cluster
MoreRecentStored(o, c, t) ==
    /\ report[c] # NoRow
    /\ report[c].org = o
    /\ report[c].checked > t

\* a stored row version with the key (org_id, cluster_id, rule_fqdn, error_key)
\* of report item i
KeyMatch(r, o, c, i) ==
    /\ r.org = o /\ r.cluster = c
    /\ r.module = i.module /\ r.errorKey = i.errorKey

\* getRuleHitUpsertQuery, run once per report item on the rule_hit table H
\* from which the transaction's DELETE has been applied.  SQLite INSERT OR
\* REPLACE replaces a conflicting row; PostgreSQL ON CONFLICT DO UPDATE sets
\* template_data = $4, which is bound to the error key.
UpsertRuleHits(H, o, c, items, id) ==
    LET hit(i) == \E r \in H : KeyMatch(r, o, c, i)
        newRow(i) == [org |-> o, cluster |-> c, module |-> i.module,
                      errorKey |-> i.errorKey, templateData |-> i.templateData,
                      id |-> id]
        conflicting == {r \in H : \E i \in items : KeyMatch(r, o, c, i)}
    IN IF Driver = DriverSQLite3
       THEN (H \ conflicting) \cup {newRow(i) : i \in items}
       ELSE (H \ conflicting)
              \cup {[r EXCEPT !.templateData = r.errorKey] : r \in conflicting}
              \cup {newRow(i) : i \in {j \in items : ~hit(j)}}

-----------------------------------------------------------------------------
(* Initial state: schema migrated, no reports, every process after Init   *)
(* (an empty table warms an empty cache).                                  *)

Init ==
    /\ report = [c \in Clusters |-> NoRow]
    /\ ruleHits = {}
    /\ cache = [p \in Procs |-> [c \in Clusters |-> NoTime]]
    /\ wr = [w \in Writers |-> [pc |-> "idle", org |-> CHOOSE o \in Orgs : TRUE,
                                cluster |-> CHOOSE c \in Clusters : TRUE,
                                checked |-> 1, rules |-> {}, del |-> {}]]
    /\ nWrites = [w \in Writers |-> 0]

\* the writer goroutine w returns from WriteReportForCluster
Idle(w) == [wr[w] EXCEPT !.pc = "idle", !.del = {}]

(* WriteReportForCluster entry: a call with org o, cluster c, timestamp t  *)
(* and rules passes the fast-path check on the process's cache and the     *)
(* driver check, and BEGINs.  A call rejected there (ErrOldReport, driver  *)
(* not supported, Begin failing) returns without changing any state.       *)
StartWrite(w) ==
    /\ wr[w].pc = "idle"
    /\ nWrites[w] < MaxWrites
    /\ Driver \in {DriverSQLite3, DriverPostgres}
    /\ \E o \in Orgs, c \in Clusters, t \in Times, rules \in Reports :
        /\ SerialPerCluster =>
              \A v \in Writers \ {w} : wr[v].pc = "idle" \/ wr[v].cluster # c
        /\ cache[ProcOf[w]][c] = NoTime \/ t > cache[ProcOf[w]][c]
        /\ wr' = [wr EXCEPT ![w] = [pc |-> "begun", org |-> o, cluster |-> c,
                                    checked |-> t, rules |-> rules, del |-> {}]]
    /\ nWrites' = [nWrites EXCEPT ![w] = @ + 1]
    /\ UNCHANGED <<report, ruleHits, cache>>

(* The re-check SELECT inside the transaction.  When it finds a more     *)
(* recent report, the closure returns nil and the empty transaction is    *)
(* committed: the call succeeds without writing.                          *)
Recheck(w) ==
    /\ wr[w].pc = "begun"
    /\ wr' = [wr EXCEPT ![w] =
                IF MoreRecentStored(wr[w].org, wr[w].cluster, wr[w].checked)
                THEN Idle(w)
                ELSE [wr[w] EXCEPT !.pc = "checked"]]
    /\ UNCHANGED <<report, ruleHits, cache, nWrites>>

\* Variant: updateReport does not delete the previous rule hits.
UpdateReportNoDelete(w) ==
    /\ wr[w].pc = "checked"
    /\ wr' = [wr EXCEPT ![w].pc = "updated", ![w].del = {}]
    /\ UNCHANGED <<report, ruleHits, cache, nWrites>>

\* Variant: the DELETE filters on org_id only.
UpdateReportOrgOnly(w) ==
    /\ wr[w].pc = "checked"
    /\ wr' = [wr EXCEPT ![w].pc = "updated",
                        ![w].del = {r \in ruleHits : r.org = wr[w].org}]
    /\ UNCHANGED <<report, ruleHits, cache, nWrites>>

(* updateReport: the DELETE of the cluster's rule hits runs now and       *)
(* removes the row versions it sees; the upserts that follow take effect  *)
(* at COMMIT (see the module header).                                     *)
UpdateReport(w) ==
    /\ wr[w].pc = "checked"
    /\ wr' = [wr EXCEPT ![w].pc = "updated",
                        ![w].del = HitsOf(ruleHits, wr[w].org, wr[w].cluster)]
    /\ UNCHANGED <<report, ruleHits, cache, nWrites>>

(* A statement of the re-check or of updateReport fails: the closure      *)
(* returns the error, finishTransaction rolls back, the call returns it.  *)
Abort(w) ==
    /\ wr[w].pc \in {"begun", "checked", "updated"}
    /\ wr' = [wr EXCEPT ![w] = Idle(w)]
    /\ UNCHANGED <<report, ruleHits, cache, nWrites>>

(* Still inside the closure, before COMMIT: the process's cache records  *)
(* the new timestamp.                                                      *)
CacheSet(w) ==
    /\ wr[w].pc = "updated"
    /\ cache' = [cache EXCEPT ![ProcOf[w]][wr[w].cluster] = wr[w].checked]
    /\ wr' = [wr EXCEPT ![w].pc = "cached"]
    /\ UNCHANGED <<report, ruleHits, nWrites>>

\* Variant: the DELETE of the cluster's rule hits runs after the upserts.
CommittedHitsDeleteLast(w) ==
    LET H == UpsertRuleHits(ruleHits, wr[w].org, wr[w].cluster, wr[w].rules,
                            <<w, nWrites[w]>>)
    IN H \ HitsOf(H, wr[w].org, wr[w].cluster)

\* the state of the tables once w's transaction is committed
CommittedHits(w) ==
    UpsertRuleHits(ruleHits \ wr[w].del, wr[w].org, wr[w].cluster, wr[w].rules,
                   <<w, nWrites[w]>>)

\* getReportUpsertQuery: both dialects replace the row of the cluster
CommittedReport(w) ==
    [report EXCEPT ![wr[w].cluster] = [org |-> wr[w].org,
                                       checked |-> wr[w].checked,
                                       rules |-> wr[w].rules]]

(* finishTransaction with err = nil: COMMIT succeeds.                    *)
Commit(w) ==
    /\ wr[w].pc = "cached"
    /\ ruleHits' = CommittedHits(w)
    /\ report' = CommittedReport(w)
    /\ wr' = [wr EXCEPT ![w] = Idle(w)]
    /\ UNCHANGED <<cache, nWrites>>

(* finishTransaction with err = nil: COMMIT fails.  The error is only     *)
(* logged, the call returns nil, and the cache keeps the new timestamp.   *)
CommitFail(w) ==
    /\ wr[w].pc = "cached"
    /\ wr' = [wr EXCEPT ![w] = Idle(w)]
    /\ UNCHANGED <<report, ruleHits, cache, nWrites>>

(* DeleteReportsForCluster: removes the report row only; rule_hit rows   *)
(* and every process's cache entry stay.                                  *)
DeleteReportsForCluster(c) ==
    /\ report[c] # NoRow
    /\ report' = [report EXCEPT ![c] = NoRow]
    /\ UNCHANGED <<ruleHits, cache, wr, nWrites>>

(* DeleteReportsForOrg: removes the org's report rows only.              *)
DeleteReportsForOrg(o) ==
    /\ \E c \in Clusters : report[c] # NoRow /\ report[c].org = o
    /\ report' = [c \in Clusters |->
                    IF report[c] # NoRow /\ report[c].org = o THEN NoRow ELSE report[c]]
    /\ UNCHANGED <<ruleHits, cache, wr, nWrites>>

(* Process p crashes and restarts: its open transactions are rolled back *)
(* by the database, its cache is lost, and Init warms it again from every *)
(* row of table report.                                                    *)
Restart(p) ==
    /\ cache' = [cache EXCEPT ![p] =
                   [c \in Clusters |-> IF report[c] = NoRow THEN NoTime
                                       ELSE report[c].checked]]
    /\ wr' = [w \in Writers |-> IF ProcOf[w] = p THEN Idle(w) ELSE wr[w]]
    /\ UNCHANGED <<report, ruleHits, nWrites>>

Next ==
    \/ \E w \in Writers :
          \/ StartWrite(w) \/ Recheck(w) \/ UpdateReport(w) \/ Abort(w)
          \/ CacheSet(w) \/ Commit(w) \/ CommitFail(w)
    \/ \E c \in Clusters : DeleteReportsForCluster(c)
    \/ \E o \in Orgs : DeleteReportsForOrg(o)
    \/ \E p \in Procs : Restart(p)

Spec == Init /\ [][Next]_vars

-----------------------------------------------------------------------------
(* Read paths.  Each SELECT reads committed state in one step; they change *)
(* no state and are operators giving what a read returns in a state.  The *)
(* two SELECTs of one read are evaluated in the same state (a write       *)
(* committed between them is not modelled: the spec does not promise a    *)
(* snapshot across them).                                                  *)

\* a read returns (rules, last_checked_at, err); ItemNotFoundError comes
\* with no rules and the zero time
ReadNotFound == [rules |-> {}, checked |-> NoTime, err |-> "ItemNotFoundError"]

\* parseRuleRows: a rule_hit row as a report read returns it
HitView(r) == [module |-> r.module, errorKey |-> r.errorKey,
               templateData |-> r.templateData]

\* the rule_hit rows SELECTed WHERE cluster_id = $1
HitsOfCluster(c) == {r \in ruleHits : r.cluster = c}

\* ReadReportForCluster: last_checked_at WHERE org_id AND cluster, then the
\* rule hits WHERE org_id AND cluster_id
ReadReportForCluster(o, c) ==
    IF report[c] = NoRow \/ report[c].org # o THEN ReadNotFound
    ELSE [rules   |-> {HitView(r) : r \in HitsOf(ruleHits, o, c)},
          checked |-> report[c].checked, err |-> "nil"]

\* ReadReportForClusterByClusterName: last_checked_at WHERE cluster, then the
\* rule hits WHERE cluster_id
ReadReportForClusterByClusterName(c) ==
    IF report[c] = NoRow THEN ReadNotFound
    ELSE [rules   |-> {HitView(r) : r \in HitsOfCluster(c)},
          checked |-> report[c].checked, err |-> "nil"]

\* the clusters that have a report row
StoredClusters == {c \in Clusters : report[c] # NoRow}

\* DoesClusterExist: SELECT cluster FROM report WHERE cluster = $1
DoesClusterExist(c) == report[c] # NoRow

\* ReportsCount: SELECT count(*) FROM report
ReportsCount == Cardinality(StoredClusters)

\* ListOfOrgs: SELECT DISTINCT org_id FROM report (sorted: a set here)
ListOfOrgs == {report[c].org : c \in StoredClusters}

\* GetOrgIDByClusterID: the org of the cluster's row, or sql.ErrNoRows
GetOrgIDByClusterID(c) ==
    IF report[c] = NoRow THEN [org |-> NoRow, err |-> "ErrNoRows"]
    ELSE [org |-> report[c].org, err |-> "nil"]

\* constructInClausule(howMany): the number of placeholders $1,...,$n it
\* writes; "$1" is written before the loop, so there is always one
InPlaceholders(howMany) == IF howMany < 1 THEN 1 ELSE howMany

\* database/sql rejects a statement whose placeholders and arguments differ
\* in number before it reaches the database
ArgsMismatch(names) == InPlaceholders(Cardinality(names)) # Cardinality(names)

\* ReadOrgIDsForClusters(names): DISTINCT org_id WHERE cluster IN (...)
ReadOrgIDsForClusters(names) ==
    IF ArgsMismatch(names) THEN [ids |-> {}, err |-> "error"]
    ELSE [ids |-> {report[c].org : c \in names \cap StoredClusters}, err |-> "nil"]

\* ReadReportsForClusters(names): cluster -> report WHERE cluster IN (...);
\* the report blob is abstracted to the rules it lists
ReadReportsForClusters(names) ==
    IF ArgsMismatch(names) THEN [reports |-> [c \in {} |-> {}], err |-> "error"]
    ELSE [reports |-> [c \in names \cap StoredClusters |-> report[c].rules],
          err |-> "nil"]

\* ReadSingleRuleTemplateData: QueryRow by the rule_hit key; the results it
\* can return (the first row scanned, or not found)
ReadSingleRuleTemplateData(o, c, m, e) ==
    LET rows == {r \in HitsOf(ruleHits, o, c) : r.module = m /\ r.errorKey = e}
    IN IF rows = {} THEN {"ItemNotFoundError"} ELSE {r.templateData : r \in rows}

-----------------------------------------------------------------------------
(* Properties.                                                             *)

RuleKey(x) == <<x.module, x.errorKey>>

(* Every rule of the report stored for a cluster has a rule_hit row under *)
(* the report's org: a DELETE of a concurrent writer of the same cluster  *)
(* never removes the rule hits of the report that is committed.           *)
StoredReportComplete ==
    \A c \in Clusters : report[c] # NoRow =>
        \A i \in report[c].rules :
            \E r \in ruleHits : KeyMatch(r, report[c].org, c, i)

(* Reading a cluster's report by its name                                *)
(* (ReadReportForClusterByClusterName) returns exactly the rules, with    *)
(* their template data, of the report stored for it:                      *)
(* WriteReportForCluster replaces the whole set.                          *)
RuleHitsExact ==
    \A c \in Clusters : report[c] # NoRow =>
        ReadReportForClusterByClusterName(c).rules = report[c].rules

(* Reading a cluster's report for an org (ReadReportForCluster) returns,  *)
(* when it finds the report, exactly the rules of the report stored for   *)
(* the cluster, also after the cluster's report moved between orgs.       *)
ReadReportForClusterExact ==
    \A o \in Orgs, c \in Clusters : ReadReportForCluster(o, c).err = "nil" =>
        ReadReportForCluster(o, c).rules = report[c].rules

(* No rule hit of a superseded report survives next to the stored report *)
(* (the keys of the cluster's rule hits are those of its report).         *)
NoStaleRuleHits ==
    \A c \in Clusters : report[c] # NoRow =>
        {RuleKey(r) : r \in HitsOfCluster(c)} = {RuleKey(i) : i \in report[c].rules}

(* Every stored template_data is the template data some report sent.     *)
TemplateDataIntact ==
    \A r \in ruleHits : r.templateData \in TemplateData

(* The last_checked_at of a cluster's stored report never goes back: an  *)
(* older report is never written over a newer one.                        *)
ReportMonotonic ==
    [][\A c \in Clusters :
          report[c] # NoRow /\ report'[c] # NoRow =>
              report'[c].checked >= report[c].checked]_vars

(* A process's clustersLastChecked entry never runs ahead of the database:*)
(* the fast path only rejects a report when a report at least as recent   *)
(* is stored.                                                             *)
CacheNotAheadOfDB ==
    \A p \in Procs, c \in Clusters : cache[p][c] # NoTime =>
        /\ report[c] # NoRow
        /\ report[c].checked >= cache[p][c]

=============================================================================
