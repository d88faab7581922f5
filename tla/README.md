# TLA+ verification of the insights-results-aggregator storage layer

This directory holds TLA+ models of the storage layer in `src/storage/`. It
also holds the TLC configurations that model-check them and the TLAPS proofs
about them. `PROJECT.json` lists the components, runs, mutants, the map from
each definition to the Go lines it translates, the findings, the hazards and
the theorems.

## 1. Inventory

### Components and their state

| Component | Source | State | Operations |
|---|---|---|---|
| Report Upsert Engine | `storage.go` 594-745 | tables `report` (one row per cluster: org, report blob, reported_at, last_checked_at, kafka_offset) and `rule_hit` (one row per org, cluster, rule, error key: template data) | `WriteReportForCluster`, `updateReport`, `finishTransaction` |
| Staleness Cache | `storage.go` 147-182, 229-258, 681, 721 | `clustersLastChecked`: a map from cluster to time in each process | `Init` (warm from `report`), the fast-path read, the write before COMMIT |
| Dialect Adapter | `storage.go` 186-217, 594-624 | the constant `dbDriverType` | `initAndGetDriver`, `getReportUpsertQuery`, `getRuleHitUpsertQuery` |
| Connection/Transaction Manager | `storage.go` 155-182, 219-271, 732-745 | the `*sql.DB` handle | `New`, `MigrateToLatest`, `Close`, `finishTransaction` |
| Administrative deletes | `storage.go` 756-766 | `report` | `DeleteReportsForOrg`, `DeleteReportsForCluster` |
| Rule Toggle Store | `rule_toggle.go` | table `cluster_rule_toggle` (cluster, rule, error key: disabled, disabled_at, enabled_at, updated_at) | `ToggleRuleForCluster`, `GetFromClusterRuleToggle`, `GetTogglesForRules`, `DeleteFromRuleClusterToggle` |
| Query Engine | `storage.go` 288-592, 747-800 | none (reads of `report` and `rule_hit`) | organization and cluster lists, report reads by org and cluster or by cluster, batch reads, `GetLatestKafkaOffset`, `ReportsCount`, `DoesClusterExist` |
| Consumer Error Recorder | `storage.go` 773-781 | table `consumer_error` | `WriteConsumerError` |

### How the components interact

The Kafka consumer calls `WriteReportForCluster` (not in the sources). Sarama
runs one goroutine per claimed partition, so one process has several writer
goroutines. The deployment (`deploy/clowdapp.yaml`, `DB_WRITER_REPLICAS`) runs
several db-writer processes. Every writer shares the database. Each process
has its own `clustersLastChecked` map, shared by its goroutines without a
lock. The HTTP layer calls the read paths, the toggle store and the
administrative deletes on the same connection pool.

A write goes through these steps:

1. A fast-path check on the process's cache (`ErrOldReport`).
2. A driver check, then BEGIN.
3. The re-check `SELECT ... WHERE org_id AND cluster AND last_checked_at > t`.
   If it finds a row, the call returns nil and writes nothing.
4. `DELETE FROM rule_hit WHERE org_id AND cluster_id`.
5. One rule-hit upsert per rule.
6. The report upsert.
7. The cache write.
8. COMMIT, or ROLLBACK if a step failed.

COMMIT errors are only logged.

### What is hard

- Interleaving. Writes of the same cluster overlap when messages are
  redelivered or reordered, or when partitions move between replicas. Under
  PostgreSQL READ COMMITTED each statement sees only what was committed when
  it runs.
- Partial failure. Any statement can fail, and so can COMMIT, whose error is
  ignored after the cache was written.
- Crash and restart. A restart loses the cache and rebuilds it from the table.
- Stale state. The per-process cache does not see other replicas' writes or
  deletes.
- Ordering. Timestamps are taken before statements run, both in the toggle
  store and in `reported_at`.

### Properties that make each component correct

- Report Upsert Engine:
  - the stored rule hits are exactly the stored report's rules;
  - the stored report never goes back to an older checked-at;
  - template data is stored as sent.
- Staleness Cache: the fast path only rejects what is really stale, so the
  cache is never ahead of the table.
- Rule Toggle Store:
  - a read returns the last toggle;
  - the batch read agrees with the single read;
  - `disabled_at` keeps the time of the last disable.

  That exactly one of disabled_at and enabled_at is set holds by
  construction: every row is written by one switch. So no run checks it.
- Query Engine: a read returns exactly the stored report's rules, whichever
  key it uses.

`PROJECT.json` "hazards" lists each hazard at its source line.

## 2. Plan and status

1. **`ReportStorage`** (done) covers the write path, the caches, transactions
   with failures, restarts and the administrative deletes. It models both
   dialects' upsert semantics.
2. **Query Engine** (done as operators on `ReportStorage`'s state). Every
   read is one SELECT, or two that the spec (section 5) allows to see
   different states. So a read is an operator giving what it returns in a
   state, not an action.
3. **`RuleToggle`** and **`RuleToggleAbstract`** (done). The toggle store is
   refined onto the last-writer-wins store where toggles of one rule do not
   overlap, and the refinement is proved.
4. **SQLite locking** (open): transactions that write serialize or fail with
   BUSY. SQLite runs would then cover several writers.
5. **An abstract report store** (dropped). A store "replaced atomically
   by a report at least as recent" was tried as a refinement target. Under
   the assumptions where it holds, its mapping equals the report table, so
   it said nothing beyond `RuleHitsExact` and `ReportMonotonic`.

Liveness is not checked, and no fairness is assumed. No write or toggle step
waits on another: the database's lock waits are folded into COMMIT. Every
failure is a nondeterministic choice that no fairness condition of the code
excludes. The only "eventually" the code could promise is that a call
returns, and that holds by the shape of the model.

## 3. Module `ReportStorage`

### Constants

| Constant | Meaning |
|---|---|
| `Clusters`, `Orgs`, `RuleIDs`, `ErrorKeys`, `TemplateData` | data, as model values |
| `Writers` | goroutines calling `WriteReportForCluster` |
| `Procs`, `ProcOf` | processes, and which process each goroutine runs in |
| `MaxTime` | timestamps are `1..MaxTime` |
| `MaxWrites` | the number of calls per writer |
| `Driver` | `dbDriverType` |
| `SerialPerCluster` | whether the caller may overlap two writes of one cluster |

The report blob is abstracted to the set of rules it lists. `Reports` admits
only reports that list each (module, error key) once. The code accepts any
slice (`storage.go:670-678`). With a duplicated rule, the second upsert in
the same PostgreSQL transaction takes the ON CONFLICT branch and stores the
error key as `template_data`. That is a single-transaction path to the bug
`template_pg` shows with two writers, and the model does not reach it.

### State

| Variable | Meaning |
|---|---|
| `report` | table `report`: cluster -> row or `NoRow` |
| `ruleHits` | table `rule_hit`, as row versions tagged with the transaction that inserted them |
| `cache` | `clustersLastChecked` per process; 0 means no entry |
| `wr` | each writer's program counter, arguments and DELETE snapshot |
| `nWrites` | the number of calls each writer has made |

### Actions

| Action | Code |
|---|---|
| `StartWrite` | entry, fast path and BEGIN (a rejected call changes nothing) |
| `Recheck` | the re-check SELECT; it returns nil when a newer report exists |
| `UpdateReport` | the DELETE runs and remembers the row versions it saw |
| `Abort` | a failing statement followed by ROLLBACK |
| `CacheSet` | line 721 |
| `Commit` | the upserts take effect |
| `CommitFail` | COMMIT fails, the error is ignored, the cache stays |
| `DeleteReportsForCluster`, `DeleteReportsForOrg` | the administrative deletes |
| `Restart` | open transactions roll back and `Init` warms the cache |

### Why upserts take effect at COMMIT

Under READ COMMITTED, an upsert that meets a row of an uncommitted transaction
blocks until that transaction ends. So the transaction that commits first
inserts the row, and the later one takes the ON CONFLICT branch. Applying the
upserts at COMMIT gives the same outcomes. A DELETE that blocks on a row
another transaction deleted skips that row. It does not see rows committed
after it started. This is why rows carry the id of the transaction that
inserted them: COMMIT removes exactly the versions the DELETE saw.

### Runs

All runs use two writers, `MaxTime = 2` and `MaxWrites = 2`. A cluster is
written up to four times, with both orders of timestamps, and both
interleavings of the two writers at every step.

| Run | Setting | Checks | Result |
|---|---|---|---|
| `write_serial_pg` | two replicas, one org, two clusters, one rule; writes of a cluster never overlap | `TypeOK`, `RuleHitsExact`, `ReportMonotonic` | passes (628k states). Restarts, failed statements, failed commits and deletes all occur. |
| `write_concurrent_pg` | overlapping writes of one cluster, two rules | `StoredReportComplete` | passes (386k states) |
| `stale_hits_pg` | overlapping writes of one cluster | `NoStaleRuleHits` | violated. One report's rule hits survive next to another's (finding). |
| `template_pg` | overlapping writes of one cluster | `TemplateDataIntact` | violated. `template_data = $4` stores the error key (finding). |
| `org_regress` | non-overlapping writes, two orgs | `ReportMonotonic` | violated. The re-check filters on org but the upsert replaces by cluster (finding). |
| `cache_ahead` | non-overlapping writes | `CacheNotAheadOfDB` | violated. The cache is written before COMMIT and a COMMIT error is ignored (finding). |
| `read_by_org` | non-overlapping writes, one cluster, two orgs, two rules | `ReadReportForClusterExact` | passes (940k states). The cluster's report moves between the orgs. |
| `moved_cluster` | as `read_by_org` | `RuleHitsExact` | violated. The read by cluster name returns the old org's rule hits next to the new report (finding). |

Each property of a passing run has a mutant in `PROJECT.json`. The mutants
are:

- the DELETE dropped;
- the DELETE filtering on org only;
- the re-check dropped;
- the DELETE moved after the upserts.

TLC finds each of these. `read_by_org` uses the mutant that drops the DELETE.

No fairness is assumed and no liveness is checked. Deadlock checking is on.
`Restart` is always enabled, so the model never stops.

### Read paths

These operators are defined after `Spec`. Each gives what the read returns
in a state:

- `ReadReportForCluster`;
- `ReadReportForClusterByClusterName`;
- `ReadReportsForClusters` and `ReadOrgIDsForClusters`. `InPlaceholders`
  models `constructInClausule` by the number of placeholders it writes.
  `ArgsMismatch` models database/sql rejecting a statement whose
  placeholders and arguments differ in number;
- `ReadSingleRuleTemplateData`;
- `ListOfOrgs`, `GetOrgIDByClusterID`, `ReportsCount` and `DoesClusterExist`.

The operators show two disagreements with the spec's section 8. No run
checks them, because neither depends on the interleaving:

- `ReadReportsForClusters({})` and `ReadOrgIDsForClusters({})` return an
  error in every state. `constructInClausule(0)` writes `$1` for a query
  with no argument. The spec says an empty list returns an empty mapping
  without a query.
- `ReadReportForCluster(o, c)` returns `ItemNotFoundError` when `c`'s report
  belongs to another org. One scenario of section 8 expects the read to
  succeed, while section 4.4 expects NotFound.

### Disagreements no run shows

Three disagreements with the spec have no run of their own:

- **Overlapping writes of one cluster (`storage.go:710`).** Both writers can
  pass the re-check before either commits, and the one that commits last
  wins even if its report is older. With one org, TLC finds a
  `ReportMonotonic` violation in the `write_concurrent_pg` setting by
  exactly this interleaving. The spec (section 4.2, step 4) calls the
  re-check the linearization point, where "a concurrently-committed newer
  report always wins". Under READ COMMITTED, it is not.
- **Equal timestamps (`storage.go:681` and `699`).** The fast path rejects a
  report whose checked-at time equals the cached one. The re-check skips
  only a strictly greater stored time. So a replica whose cache lacks the
  cluster re-applies a report with an equal timestamp. The spec's edge-case
  policy says such a retry is rejected. `ReportMonotonic` allows equality,
  and the model does not carry `reported_at` or `kafka_offset`, which a
  re-apply rewrites.
- **The process cache (`storage.go:681` and `721`).** `clustersLastChecked`
  is a Go map shared without a lock. The model takes each access as one
  step. It does not represent the runtime's fatal error on concurrent map
  writes.

A two-statement read is evaluated in one state. The spec (section 5)
promises readers no snapshot beyond a single statement, so a read that pairs
one report's timestamp with another report's rules is not a property of the
code.

### What is proved

These theorems are in `ReportStorageProofs`. They are checked by TLAPS for
all values of the constants that satisfy `ConstantsAssumption` and
`NoRowAssumption`.

- **`TypeCorrect`**: `Spec => []TypeOK`. `TypeOK` also says two more things:
  - a DELETE snapshot holds only rows of the writer's own org and cluster;
  - a writer inside a call has counted the call, so its transaction id is
    well formed.
- **`StoredReportCompleteHolds`**: `Spec => []StoredReportComplete`.
  `StoredReportComplete` alone is not inductive. A COMMIT removes its DELETE
  snapshot, so the proof needs `TypeOK`'s snapshot conjunct: it shows the
  snapshot cannot contain another cluster's rows. The inductive invariant is
  `TypeOK /\ StoredReportComplete`. The lemmas it rests on are:
  - `UpsertCoversItems`: after the upsert, every rule written has a row with
    its key, in either dialect;
  - `UpsertKeepsOtherClusters`: the upsert keeps other clusters' rows.
- **`ReadReportForClusterExactHolds`**: under `SerialPerCluster`,
  `Spec => []ReadReportForClusterExact`. The inductive invariant `SerialInv`
  is `TypeOK` together with three conjuncts:
  - `ByOrgExact`: the rule hits of the org that owns a cluster's report are
    the report's rules;
  - `SnapshotCurrent`: a writer past its DELETE holds a snapshot of all
    current rule hits of its (org, cluster);
  - `OneWriterPerCluster`: two writers inside a call write different
    clusters.

  `SnapshotCurrent` is what makes COMMIT replace the whole set. It needs
  `OneWriterPerCluster`, because only a writer of the same cluster could add
  rows under the snapshot. The lemmas are:
  - `UpsertFresh`: an upsert into a table with no row of (org, cluster)
    leaves exactly the report's rules;
  - `UpsertOtherKeys`: an upsert leaves every other (org, cluster) alone;
  - `CommitSerial`: COMMIT preserves the three conjuncts.

  TLC checked `SerialInv` as an invariant of `read_by_org` and
  `write_serial_pg` before it was proved.
- **`RuleHitsExactOneOrg`**: with `SerialPerCluster` and a single org,
  `Spec => []RuleHitsExact`. Every rule_hit row then belongs to the one org,
  so the read by cluster name sees exactly the owner's rows. `moved_cluster`
  shows that the theorem fails with two orgs.
- **`ReportMonotonicHolds`**: with `SerialPerCluster` and a single org,
  `Spec => ReportMonotonic`. The argument: a COMMIT writes the checked-at
  time its writer compared against in `Recheck`, and nothing has written
  the cluster since. `SerialInv` is not enough for this, because it does
  not remember the re-check. The inductive invariant is
  `MonoInv == SerialInv /\ RecheckPassed`. `RecheckPassed` says that a
  writer past its re-check (`pc` in checked, updated or cached) still
  sees no more recent report of its (org, cluster). Three things keep it
  true:
  - by `OneWriterPerCluster`, no other writer commits to that cluster;
  - the deletes only turn rows into `NoRow`;
  - every other step leaves the report table and the writer's arguments
    alone.

  With one org, the report's org is the writer's org, so `RecheckPassed`
  gives `report[c].checked <= wr[w].checked` at COMMIT (lemma
  `CommitNotOlder`). TLC checked `MonoInv` as an invariant of
  `write_serial_pg` and `read_by_org` before it was proved. `org_regress`
  shows the theorem fails with two orgs: the re-check filters on org, and
  the upsert replaces by cluster.

## 4. Modules `RuleToggle` and `RuleToggleAbstract`

### Constants and state

| Constant | Meaning |
|---|---|
| `Clusters`, `RuleIDs`, `ErrorKeys` | the key of `cluster_rule_toggle` |
| `Users` | handler goroutines calling `ToggleRuleForCluster` |
| `MaxTime` | bound on the clock |
| `SerialToggles` | whether two toggles of one (cluster, rule) may overlap |

| Variable | Meaning |
|---|---|
| `toggles` | table `cluster_rule_toggle`: key -> row (`disabled`, `disabledAt`, `enabledAt`, `updatedAt`) or `NoToggle` |
| `clock` | the last value `time.Now()` returned; `time.Now()` is strictly increasing |

`time.Now()` is modelled as one global clock that only increases. The API
runs on several replicas, whose wall clocks can disagree or step back. That
makes the out-of-order timestamps of `toggle_concurrent` easier to reach,
and it is outside what `SerialImplementsAbstract` assumes.
| `tg` | each handler's program counter, key, toggle, clock value and return value |

### Actions and reads

| Action | Code |
|---|---|
| `StartToggle` | `now := time.Now()` and the switch (an invalid value returns before any change) |
| `ExecToggle` | the upsert: `INSERT ... ON CONFLICT (cluster_id, rule_id, error_key) DO UPDATE` overwrites the row |
| `ExecToggleFail` | the upsert fails and the error is returned |
| `DeleteFromRuleClusterToggle` | `DELETE WHERE cluster_id AND rule_id` |

`GetFromClusterRuleToggle` returns the set of rows it may return
(`ORDER BY updated_at DESC LIMIT 1`, where ties are unordered).
`GetTogglesForRules` returns the set of maps it may build, because the rows
of a rule arrive in no specified order.

### Refinement

`RuleToggleAbstract` is what the spec (4.3) promises. It has one flag per
(cluster, rule, error key), and a lookup per (cluster, rule) that returns
the flag of the toggle executed last. Each toggle and each delete is one
atomic step. `RuleToggle` instantiates it with this mapping:

- `flagBar` is the `disabled` column of each row;
- `lastBar` is the error key whose row has the greatest `updated_at`, which
  is what the lookup reads.

The property `ImplementsAbstract == Abstract!Spec` is checked as follows:

- `StartToggle` and `ExecToggleFail` are stutters;
- `ExecToggle` maps to `Toggle`;
- the delete maps to `Delete`.

### Runs

All runs use one cluster, one rule, two error keys, two handlers and
`MaxTime = 4`. This is enough for a disable and an enable of each key, and
for two overlapping toggles.

| Run | Checks | Result |
|---|---|---|
| `toggle_serial` (`SerialToggles`) | `ImplementsAbstract` | passes (10k states) |
| `toggle_concurrent` | `ImplementsAbstract` | violated. The toggle executed last read the clock first, so the lookup returns the other key (finding). |
| `toggle_batch` | `TogglesForRulesAgree` | violated. The batch lookup takes an arbitrary error key's flag (finding). |
| `toggle_disabled_at` | `DisabledAtKept` | violated. Enabling sets `disabled_at` to NULL, although the spec's section 8 example keeps it (finding). |

These are the mutants, and TLC finds each of them:

- `ORDER BY updated_at` ascending.

### What is proved (`RuleToggleProofs`)

- **`TypeCorrect`**: `Spec => []TypeOK`.
- **`SerialImplementsAbstract`**: under `SerialToggles`,
  `Spec => ImplementsAbstract`. The proof uses `RefInv`, which is `TypeOK`
  together with three conjuncts:
  - `RowsBeforeClock`: no stored `updated_at` exceeds the clock;
  - `PendingIsNewest`: a handler between its clock read and its upsert holds
    a time newer than every row of its rule;
  - `PendingDistinctRules`: two pending handlers toggle different rules.

  `PendingIsNewest` is what makes the executed row the latest, so that
  `lastBar` moves to its key. The proof has two parts:
  - `InitRefines`: Init maps to the abstract Init;
  - `StepRefines`: every step maps to an abstract step or a stutter.

  The temporal theorem combines them with PTL.

### Schema note

`docs/db_structure.md` documents `cluster_rule_toggle` with a `user_id`
column and the primary key `(cluster_id, rule_id, user_id)`. The code uses an
`error_key` column and `ON CONFLICT (cluster_id, rule_id, error_key)`. The
model follows the code.

## 5. Only model-checked, not proved

- `ReportMonotonic` is proved only with `SerialPerCluster` and one org,
  since `org_regress` shows it is false with two orgs, and overlapping writes
  break it too (see "Disagreements no run shows"). The other settings stay model-checked.
- `TypeOK` with one org is proved. `RuleHitsExact` with one org is proved,
  and with two orgs it is false (`moved_cluster`).
- The violation runs are counterexamples found by TLC, not claims.
- Liveness and ENABLED are beyond TLAPS here and are not checked (see
  section 2).

## 6. Not modelled


- Strings: data-source strings, SQL text, and the logging driver.
- JSON parsing of template data (`parseTemplateData`). It always returns a
  value and changes no state.
- Migrations. They are in another package and are a precondition.
- The feedback and vote operations. Only the interface is among the sources.
- The HTTP layer.
- The consumer itself. Its concurrency is represented by the writer
  goroutines and `SerialPerCluster`.
- `ListOfClustersForOrg` filters on `reported_at`, which is wall-clock time
  that the model does not carry.
- `GetLatestKafkaOffset` reads `kafka_offset`, an opaque value the transport
  passes through. What the transport does with the resume offset is not
  among the sources.
- `WriteConsumerError` is one INSERT into `consumer_error`, with no read, no
  retry and no other writer of the table. No interleaving or failure changes
  what it does, so a model would only restate the primary key.
- SQLite's own locking. The SQLite dialect's upserts are modelled, but the
  runs use PostgreSQL.
