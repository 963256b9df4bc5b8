# db-condenser in TLA+

db-condenser copies a referentially closed subset of a source database into a
destination. Starting from a few *direct targets* it walks the foreign-key graph
"middle-out": rows that refer to what is already selected (upstream), tables
copied whole (passthrough), and then every row that selected rows refer to
(downstream). A *recreate* run rebuilds the destination; the incremental modes
*topup* and *grow* add to an existing one, and survive failures through a durable
journal in the destination.

This directory models that behaviour: TLA+ modules, TLC configurations over small
instances, and proofs checked by TLAPS that hold for every instance. Paths below
are relative to `src/src/db_condenser/` of the repository.

## The system

| Part | State | Operations | Hard because |
|---|---|---|---|
| FK graph, strata (`subset_utils.py`, `topo_orderer.py`) | none | breaks, components, topological order, strata of either direction | the strata order decides what later stages may rely on |
| Copy of one table (`subset.py`) | ID cursors, source pool, futures | `__subset_upstream` with its passes and batches, `subset_downstream`, `__subset_direct`, `__parallel_id_batches` | the table is cut into statements in a dozen ways that must add up; rounds of jobs share connections |
| Traversal (`subset.py`) | `processed_tables`, ID temp tables | `run_middle_out` and its stages, delta plans, thread pools | tables of a stratum run concurrently; a run may resume another's journal; the source moves on |
| Row copy (`psql_database_helper.py`) | destination rows, delta tables, staging tables | `copy_rows`, `stage_rows`, `apply_staged` | the row and its delta must commit together; a live unique index constrains the order |
| Parallel copy of one table (`subset.py`) | one barrier, one connection per worker | `__copy_table_ctid_parallel` | refresh and insert phases of several workers, failures around a barrier |
| Incremental journal (`psql_database_helper.py`, `backends/postgres.py`) | `_condenser.run_state`, `_condenser.fk_backup`, delta tables, advisory lock, `SQL/incremental_fk_backup.sql` | prepare, drop keys, restore keys, retain or drop the journal | several transactions, a file and memory have to agree wherever the process dies |
| Run session (`backends/session.py`, `backends/postgres.py`) | connections, source pool, exported snapshot | open, prepare, finish, close | the snapshot and the lock live as long as a connection does; errors and interrupts at any time; `psql` waits for locks of the run itself |
| Entry point (`direct_subset.py`) | `succeeded` | teardown and create, run, constraints, finish, close | what happens on each failure path |
| Schema creator (`psql_database_creator.py`) | destination schema | teardown, create, add_constraints | a recreate run does not take the lock |
| Identity resolution (`psql_database_helper.py`) | none | which unique key names a row | pure catalog reading |
| Configuration, MySQL backend, connections, masking, tabulation | - | - | parsing, a recreate-only backend, thin wrappers, reports |

How they interact: `main` calls teardown and create in a recreate run, then builds
a `Subset`, which opens a run session (a repeatable-read source connection whose
snapshot is exported to all others). `prep_temp_dbs` prepares an incremental run:
lock, validation, journal, foreign keys dropped. `run_middle_out` drives the
stages; their tasks run in thread pools with connections of their own and share
only the destination. `add_constraints` ends a recreate run; `finish`, always
called, restores the keys and drops or retains the journal of an incremental one.

What makes the parts correct:

* traversal: no dangling reference, nothing copied twice, exactly the rows the AND
  semantics of CONFIG.md selects and no parent that nothing points at, topup freezes
  old entities yet misses nothing new, every run ends;
* delta journal: an entry says exactly what happened to its row, however often a run
  fails and is resumed;
* journal and keys: no key is ever lost, success restores all of them, no run copies
  under another's journal, one holder of the lock at a time, the lock is let go of;
* copy of one table: its statements add up to the rows wanted, nothing twice, one job
  per connection, always ends;
* run session: one snapshot for all readers, nothing restored or closed under a
  running worker, every connection closed, no success over an error;
* parallel copy: inserts after all refreshes, no clash but with deleted rows,
  complete when done, always ends.

## Modules

| Module | What it is |
|---|---|
| `FkGraph` | pure definitions: relationships, breaks, components, topological layers, strata |
| `MiddleOut` | the traversal and the runs of one destination, over `FkGraph` |
| `IncrementalJournal` | lock, journal, key backup, file, across processes and crashes |
| `TableMerge` | abstract: what the copy of one table promises |
| `TableStatements` | pure definitions: the queries that read one table, page ranges, and the rows a copy is for |
| `TableCopy` | the copy of one table as its statements, batches and fan-outs; implements `TableMerge` |
| `TwoPhaseCopy` | one table copied by several workers under a unique index; implements `TableMerge` |
| `RunSession` | a run's connections, snapshot, workers, interrupts, from opening to close |
| `MCMiddleOut`, `MCShop`, `MCIncrementalJournal`, `MCTableCopy`, `MCTwoPhaseCopy`, `MCRunSession` | instances for TLC |
| `FkGraph_proofs` | when the sort succeeds, what is disconnected, how strata relate, for every graph |
| `MiddleOut_proofs`, `Selection_proofs`, `Closure_proofs` | the traversal: types and deltas; which rows it selects; that it closes |
| `IncrementalJournal_proofs`, `TableCopy_proofs`, `TwoPhaseCopy_proofs`, `RunSession_proofs` | theorems and proofs about the other modules |

How they fit: `MiddleOut` takes the copy of a table for a choice of rows written one
after the other; `TableMerge` is that view of it, and `TableCopy` and `TwoPhaseCopy` are
shown to implement it. `MiddleOut` and `IncrementalJournal` take a run's reads for one
snapshot and its end for clean; `RunSession` is where that is shown.

Operators whose comment says *Mutant* are plausible bugs of the definition they
precede. No specification uses them; PROJECT.json pairs each with the property that
detects it.

### MiddleOut

A row is an identity; its image is where each foreign key points (a row or `Null`).
A destination holds for every identity the *sequence* of its copies, because a
recreate run loads without unique indexes.

| State | Code |
|---|---|
| `src`, `snap` | the source, and the snapshot `_initialize` exports |
| `dest` | destination tables |
| `delta` | the tables `_condenser.new_ids_*`: no entry, or an entry with `_inserted` false or true |
| `journal` | whether `_condenser` exists, and for which mode |
| `built` | the unique keys exist, without which an incremental run is rejected |
| `stage`, `level`, `processed` | the position in `run_middle_out`, the stratum, `processed_tables` |
| `status`, `todo` | per table, the task of this stage and what it has still to write |
| `base`, `origin` | history: the destination when the journal was opened; the stage that inserted a row |

`Begin(t)` is a task reading what it needs: `RowChoices` gives what the stage's
function selects (`__subset_direct`, the delta plans with `__subset_upstream` and its
two implementations, `__copy_table_worker`, `subset_downstream`). `Copy(t)` writes one
row by `Write`, the whole of `copy_rows`: append, or upsert together with its delta
entry. Larger transactions are sequences of such steps, which only adds
interleavings and points of failure. `MayBegin` and `InTurn` are the scheduling: the pool of
`TableWorkers` threads, tables the main thread copies one by one, big tables after
the pool, and pools that go on when a task has failed. `AdvanceStage` is the end of a
stage, with what it adds to `processed_tables`. `RunFails`, `Crash`, `TaskFails` are the
ways a run is cut short. `StartRecreate`, `StartIncremental`, `AddConstraints`,
`FinishIncremental` are `main` around it; what they do to the keys in detail is
`IncrementalJournal`. `SourceChange` is any consistent transaction on one source row.

Abstractions: both upstream implementations (temp tables, unnest) select the same
rows (`TableCopy`), so there is one `UpstreamRows`; composite keys are one relationship with one
`Null`; `upstream_filters` are a set of rejected rows; `where` and `percent` are
sets of rows to choose from; a row limit chooses any subset of the right size. A
destination whose keys could be built only in part rejects incremental runs.

### IncrementalJournal

Every action is one transaction on the destination or one step of the process
between two. `drop_fk_constraints` is `RecordFks` (first transaction), `TruncateFile`
and `WriteFile` (the two effects of `open(path, "w")` and writing), `DropFks` (second
transaction), and `ReturnFks`, where its result reaches `_dropped_fks`: a failure
before that leaves `finish` nothing to restore, and the journal has to make up for
it. `Fails` is main's `finally` clause. `Reject` stands for every validation of
`prep_incremental`. `LoseConnection` ends the session that holds the advisory lock
without the process noticing. `AlterFk` is somebody changing keys between runs, and
`installed` the history of what the destination is meant to have.

The constants `OverlappingRecreates` and `ConnectionLoss` say what the environment may
do, so that each run states what its property depends on. Two limits of the code lie
outside these assumptions. A recreate run takes no lock (`direct_subset.py:104`): started
during an incremental run it tears down the journal and the tables under it, so the
properties of this module assume that recreate runs start alone. This is a guard of `Start` and
`StartRecreate` that the code does not have: an assumption on whoever starts runs, and no
property states the exclusion it gives. And the file is
truncated before it is rewritten (`psql_database_helper.py:643`): a run killed in
between, that found keys of a failed run only in the journal, leaves the file
incomplete; the journal, not the file, is what `NoFkLost` relies on.

### TwoPhaseCopy

A row has an identity and one value under the secondary unique index (or a free one,
as in a partial index). A statement writes its staged rows one by one in an order of
the server's choosing (`Orders`), checks the index at each (`Holders`), waits for
uncommitted writers of the same key (`BlockedBy`), and the server ends a circle of
waits by aborting one (`DeadlockVictim`). `CommitRefresh` arrives at the barrier, `Abort`
is the exception handler with `barrier.abort()`. `ConnectFails` is the connection
opened *before* the `try`.

It implements `TableMerge` with the identity as refinement mapping on the destination:
every worker's transaction is a step or a stutter.

### TableStatements and TableCopy

A *task* is a record that says what is copied and how: the table's rows, its
constraints and the parents they are grouped by, the IDs these have in the
destination, what a topup run inserted (`fresh`), the condition, the pre_filter's
values, heap pages, and the switches that choose a path (pool, alone in its stratum,
temp tables, row limit, incremental). A row is what each constraint points at. Each
query builder is a set of rows (`UpstreamQuery`, `NeutralRows`, `DownstreamQuery`,
`DirectQuery`, ...), and `Wanted` is the definition they are held against, from
CONFIG.md. Conditions are sequences of the alternatives an OR separates, so that the
precedence of AND over OR is modelled where the code joins text
(`AndUnwrapped`, `UnwrappedAnd`) and parenthesised otherwise.

| State | Code |
|---|---|
| `pc` | where the thread of the table is |
| `passes`, `pass` | delta passes or downstream column sets still to come, and the current one |
| `batched`, `unread`, `first` | the constraint whose IDs come through a cursor, and what is left of it |
| `turn`, `jobs`, `open`, `failed` | `__parallel_id_batches` and the ctid split: the round, submitted futures, destination connections, whether one raised |
| `staged`, `copied` | the staging table; how many copies of each row the destination has |

`TempPass`, `ResidentPass`, `BatchedPass`, `StreamedPass` and `EndBatches` are the branches of
the upstream copies, `ReadMissing` the downstream step, `Submit`, `RunJob`, `NextRound`, `EndFan` the
rounds over the pool, `Split` and `EndSplit` the page ranges. A cursor returns its IDs in
any order. `Enough` says how far a row limit lets a copy fall short.

### RunSession

The main thread's place (`at`), the session's connections (`owned`, `open`), what each
reader's transaction sees, the version exported, and for every table of a stage the
state of its worker. `MainCopies` is a table copied by the main thread, alone or split
over the session's readers. `Raise` is an exception on its way to the next `finally`.
`Interrupt` is Ctrl-C: in a thread pool's context manager it waits for the pool (`raised`),
once; elsewhere it raises. `locked` records whether the main destination connection is
in a transaction that holds locks on tables (`LockAfter` says which copies may leave it
so), and `AddConstraints`, which is `psql` altering those tables while the main thread
waits for it, needs it not to be. `SourceChange` is a transaction on the source: snapshots
are versions.

## Runs

| Run | Instance | Shows |
|---|---|---|
| `incremental` | diamond of 4 tables, every wiring of 5 existing rows, 3 runs of any mode, 1 source change | typed and closed; nothing twice; upstream phase sound and complete; topup complete; downstream brings in needed rows only; deltas exact across failures, kills, resumes |
| `shop_incremental` | 7 tables, 11 rows, 3 runs, 1 source change, source pool, a big table, 2 workers, fairness | topup freezes old entities, sound for good, re-read rows heal, nothing twice, every run ends |
| `journal` | 2 processes, 2 keys with 2 definitions, 2 configurations, crashes, lost connections | no key lost, success restores all, own journal only, holder only |
| `journal_locked` | the same, connections last, fairness | keys are dropped only when recorded twice; the lock is let go of |
| `two_phase` | 2 workers, 2 keys; any source over any destination of 3 rows, and every update of 4; failures anywhere, fairness | refreshes first, clashes with deleted rows only, complete when done; implements `TableMerge`; ends once all are connected |
| `table_copy` | every path with every kind of row: 1 to 3 constraints, ID sets around the batch size of 2, NULLs, delta plans, pools of 1 to 3, page counts that lag, row limits; failures anywhere, fairness | implements `TableMerge`; nothing twice without an index; one job per connection, none closed in use; ends |
| `run_session` | 3 tables, 4 plans, 2 readers, 2 workers, 2 source changes, 2 interrupts, failures anywhere, fairness | one snapshot; ends alone; releases all; success is earned; ends unless `psql` is stuck |

Five more runs each check one sentence of the documentation or code that TLC refutes:

| Run | Sentence | Counterexample |
|---|---|---|
| `shop_resume` | CONFIG.md:222-223, topup "only follows history belonging to newly inserted direct targets" | the journal does not say which phase inserted a row: a topup run killed in its downstream phase is resumed, and the next upstream phase follows what the downstream phase had inserted |
| `two_phase_stranded` | subset.py:497-498, workers that fail early must not strand the rest at the barrier | a worker whose connection cannot be opened does, line 476 |
| `two_phase_order` | psql_database_helper.py:843-844, refreshes in "any order" are safe | two rows that exchanged their keys |
| `table_conditions` | CONFIG.md:132-134, cached values "are applied as `AND <column> = ANY(...)` to the target's query", and conditions with OR as in tests/psql/test_integration.py:2796 | `where` and, in a ctid split, upstream filters are joined without parentheses (subset.py:672, 483), so the last alternative of an OR escapes the page range and the IDs; an empty cache is not applied (line 434) |
| `session_hang` | backends/contracts.py:66, "close always releases connections" | the main destination connection stays in a transaction that read a parent table (subset.py:1107-1154, 1206-1212); `psql` waits for it, and `main` for `psql` |

`table_conditions` needs an OR at the top level of a condition; for conditions
without, `PlainConditionsNarrow` proves the property. `session_hang` needs a recreate run
in which an upstream table on the main thread had nothing to copy, or was fanned out
over the pool, and no later table on the main connection commits: a downstream table
that others refer to always does (subset.py:1465), one that nothing refers to returns at
once (line 1371). In the trace a lone upstream table refers to two targets; its own
downstream step returns, and those of the targets have workers.

Three more differences from CONFIG.md follow from reading the code and have no run:

* Passthrough and disconnected tables are read with `SELECT *` (subset.py:372, 225), so
  columns of broken relationships keep their values there (lines 97-98 say they are
  nulled on every copy path). For a passthrough table with a broken relationship to a table
  that is subsetted, the value may name a row the subset does not have, and that key cannot
  be added or restored (see `PassthroughCovered` below).
* "The destination is protected by an advisory lock" (line 201) as long as the main connection
  lasts: it is a session lock, taken once (psql_database_helper.py:387), and workers
  write over connections of their own (subset.py:301). When the server ends the main session,
  a run copies on until its main thread next uses that connection, at the latest in
  `finish`, while another may take the lock and the journal. `IncrementalJournal` has these
  behaviours (`LoseConnection` in `copying`): that no key is lost and that only the holder
  owns the journal is checked and proved over them, that copies do not overlap does not hold.
* `max_rows_per_table` (line 72, "applied to all tables") limits single statements of upstream
  and whole tables, not direct targets, downstream tables or batches.

### Bounds, and why they are enough

* `MaxRuns = 3`: build a destination, leave it half-way through an incremental run,
  resume; or two complete incremental runs on top of a recreate. A destination needs
  one recreate run before any other.
* `MaxChanges = 1` in the traversal: one row inserted, deleted or re-pointed, at every
  point before, between and during runs. The session's two changes make three
  versions, before, at and after the export.
* The diamond has the shapes the upstream phase distinguishes: a table with two
  followed parents (AND semantics, neutral `Null`), a parent in the stratum
  between, a parent only the downstream phase brings. The shop adds two targets in
  different strata, a broken cycle, a broken self reference, a passthrough parent, a
  disconnected table, and rows only the downstream phase can bring in that have
  history of their own.
* Two processes and two keys: one key may be live and the other dropped, and one
  process may be past the lock while another is anywhere. The proofs lift the bound.
* Two workers and three rows: a swap, a chain of replaced rows, a deleted row in the
  way. A circle of waits needs two rows to write in each of two transactions, so the
  updates of four rows, two per worker, are added to the instance. `Layouts` is the
  set of starting contents that respect the index; the proofs hold for any such set,
  and for any number of workers and rows.

* `table_copy`: a batch is two IDs and a split needs one page per worker, so that none,
  one, two and more batches, full and short last fetches, batches of NULLs only, two
  rounds on two connections, ties for the largest ID set, and page counts below, at
  and above the real ones all occur. Rows are all combinations of IDs, so each
  statement meets every kind of row. `compute_batch_size` and the 12800-page threshold
  are the constants `BatchSize` and `MinPages`; the theorems hold for all values.
* `run_session`: a stage with more tables than workers, one with two, lone tables of the main
  thread that others refer to and that nothing refers to, before and after stages with
  workers, and none. `MaxInterrupts = 2` because the second Ctrl-C
  behaves differently from the first; more repeat the second.

`CHECK_DEADLOCK FALSE` is set where the system may stop: for `MiddleOut`, whose runs and
changes are bounded and which is idle between runs; for `RunSession`, whose run ends; and in `two_phase` and
`two_phase_stranded`, where a worker that cannot connect really does leave the others
waiting; there `CopyEndsOnceConnected` says what must not stop. The runs of
`IncrementalJournal` and `TableCopy` check deadlock.

### Fairness

`MiddleOut.Fairness` is weak fairness of the threads as a whole and of the main
thread's own steps: the process keeps executing, and nothing forces a start, a
failure, a kill or a source transaction. A statement that never returns is outside
it: the program sets no timeouts. `IncrementalJournal.FairSpec` is weak fairness of every
started process. `TwoPhaseCopy.FairSpec` is weak fairness of every worker, since the
pool is as wide as the number of workers, and of the server's deadlock detection.
`TableCopy.FairSpec` is weak fairness of the table's own thread and of its pool as a whole,
whose executor has a thread per connection. `RunSession.FairSpec` is weak fairness of the
main thread and of every table worker, which includes that the server grants a lock
nobody holds; failures, interrupts and source changes are never forced.

## Proofs

All hold for every value of the constants that satisfies the named assumptions.

**FkGraph_proofs** (assumes `GraphAssumption`; what is about strata also `AcyclicAssumption`, that
the topological sort succeeds: the code stops when it finds a cycle).

* `SortsUnlessCircular`: the sort succeeds exactly when no tables refer to each other in a
  circle of followed relationships. So `AcyclicAssumption` excludes the schemas the code
  rejects and nothing else. A circle never gets a layer; without one, a layer that adds
  nothing has placed all, and `ChainSettles` finds one within as many layers as there are
  tables.
* `DisconnectedIsUnreachable`: the search of `compute_disconnected_tables` stops at the least set
  that has the targets and passthrough tables and is closed under relationships in both
  directions; a table is disconnected exactly when it is outside.
* `ParentsComeLater`: an unbroken relationship leads from one stratum to a strictly lower
  one, and both are visited. Other lemmas: strata do not overlap, none below the last is
  empty, every ordered table has one (`OrderedIsInStratum`), and no relationship leaves the
  connected tables.

Layers and reach are recursive functions over the naturals; since induction theorems that
take an operator are of no use here, `LeastNumber` takes the least element of a *set* of
counterexamples, and `AllNaturals` and the existence of the recursive functions follow from it.

**MiddleOut_proofs** (assumes `GraphAssumption` and `RowAssumption`, which says of the source that
its keys hold and of a target that its `where` or `percent` selects some set of rows; does
not use that the graph is acyclic).

* `TypeCorrect`: the type invariant together with `TodoIsLive`, that tasks copy rows
  of the snapshot, without which an image written could be `Absent`. The sublemmas
  show that the strata a run goes on to exist (`NextStopType`).
* `DeltasAreExact`: by `JournalInvariant`. The strengthening `DInv` adds that without
  a journal there are no entries at all; with one, `EntryTells` relates entry, row and
  the destination as it was when the journal was opened. Only `Write` changes an
  entry, and it writes the row in the same step; every other action, including
  every way to die, leaves all three or opens or closes the journal.

**Selection_proofs** (assumes also `AcyclicAssumption`). All rests on `RunInv`: the place in
`run_middle_out` determines what `processed_tables` holds (`PositionInv`), and a task writes
missing rows of its own table in its own stage (`TaskInv`). So the parents a stratum is
selected by lie in lower strata and are not written while it is copied: what a task has read
still holds when it writes, however the workers of a pool interleave.

* `NothingIsCopiedTwice`: by `SingleInv`. Whatever a recreate run has written is in a table
  it has visited (`Visited`), and no stage after that visits a table again without leaving
  out what is there.
* `ReReadsAreFresh`: by `FreshInv`, which follows a re-read row from unread over about to be
  written to written, and shows that no later stage writes something else.
* `UpstreamIsSound`: by `SoundInv`. A row whose parents selected it keeps them: later stages
  and later runs, refreshes included, only write images that are selected again.
* `EntitiesStayFrozen`: by `FrozenInv`, over all runs that share a journal, because a
  resumed run must not unfreeze what the failed one left.
* `UpstreamIsComplete`, `TopupIsComplete`: by `CompleteInv`. What the phase owes of a table is
  there or about to be written from the moment its task has read; it is then owed no more
  rows, because the parents are settled.

The theorems about single copies, frozen entities and completeness assume `PassthroughApart`,
no passthrough table that is followed upstream: "A passthrough table must not also be
upstream-subsetted, or a recreate run would copy it twice"
(`tests/psql/test_integration.py:2099`).

**Closure_proofs.** `TraversalCloses`: when the traversal is done, the keys can be restored,
for every graph, every source that changes meanwhile and every sequence of recreate, topup
and grow runs. `ClosureInv` follows a copied row and one of its relationships: a row without a
journal entry is as it was when the journal was opened, and the destination was closed then
(`BaseInv`); parents in a table copied whole are there (`WholeInv`); a relationship that is
not followed was copied as NULL (`NulledInv`); any other parent is settled when the downstream
phase, which comes down the strata, has read the parents' table, since all tables that
point at it were done before (`SettledInv`). `AdmittedIsClosed` is what it gives between
runs: the destination an incremental run is admitted to has no dangling reference. That
is needed for the induction over runs, too.

Both assume `PassthroughCovered`: no row limit where others rely on a passthrough table being
whole, and no broken relationship from a passthrough table to one that is subsetted. The code
checks neither, and TLC shows that neither can go: with `MaxRows = 1` and two countries in
the shop's passthrough table, or with a break from such a table to a subsetted one, it
finds a run that ends with a dangling reference.

`ParentsAreNeeded`, by `NeededInv`: the downstream phase only brings in rows that a copied row
points at. A task has read which parents are missing before it writes them, and the other
tasks of its stratum write meanwhile; but these only add rows that are not there, so no
pointer the reading relied on is taken away. `RecreateIsMinimal` says the same of the
destination of a recreate run at any time. (An incremental run may re-point a row
it re-reads, after which the old parent stays although nothing refers to it.)

`RunsNeverStick` and `RunsAdvance` are the parts of `RunsEnd` that are not about fairness, see below.

**IncrementalJournal_proofs.**

* `HolderCorrect` needs no assumption on the environment.
* `NoFkIsLost`, `SuccessIsComplete`, `OwnJournal` assume `~OverlappingRecreates`; connections
  may be lost. The argument: call a process past the lock with a live connection the
  *owner*. There is at most one, and only the owner or a recreate run changes catalog or
  journal. So what the owner read in one transaction still holds in the next
  (`OwnersView`): the keys it is to drop are in the backup with their live
  definitions, what it returns is the whole backup, what it restored is live. The
  promise itself is inductive only with that: dropping a key is harmless only
  because the backup has it, and dropping the journal only because the restore put
  every key back.
* `DropsAreRecorded` assumes moreover that connections last. A process that
  lost its lock with its connection goes on until it next uses it; meanwhile
  another may own the journal, and may even truncate the file.

**TwoPhaseCopy_proofs.** Rows are partitioned among the workers, and a row of the
destination changes only to what the snapshot says. `Progress` says where a worker's rows
are: once its refresh is committed each is as in the snapshot or absent, and stays so,
whatever others do. Past the barrier this holds for all workers, so a key in the way
of an insert is held by a row that the snapshot, which respects the index itself, does
not have.

`ImplementsTableMerge` is the refinement: every step of the workers is a transaction of
the abstract merge or a stutter, and `CopyIsComplete` gives its last step.

`OnlyTheBarrierStrands`: while the copy is not over some worker can go on, with one exception,
the one `two_phase_stranded` shows: workers wait for one that failed without breaking the
barrier. Blocked workers alone are no obstacle: a worker is blocked by one that has an open
transaction, and if all of these are blocked, they block each other in a circle
(`BlockedInACircle`), of which the server aborts one. `WorkersAdvance`: no worker is ever taken
back.

**TableCopy_proofs** (assumes `StatementAssumption` and `LayoutAssumption`: rows, constraints and ID sets
are finite, a delta plan belongs to an incremental run and its new IDs are among the
destination's IDs, and a condition is a nonempty sequence of sets of rows).

* `TypeCorrect`, `OneJobEach`, `NothingClosedInUse`: by `FanInv`. A connection behind `turn` has no job, so
  the one `Submit` gives it is its only one; rounds and ends wait for `Idle`.
* `PlainConditionsNarrow`: by `SoundInv`. `SelectsWanted` is the one fact about queries: joins with
  subsets of the destination's IDs, and a required constraint that drives the pass, select
  only wanted rows. `CursorInv` says that what the cursor reads, and the pass it belongs
  to, meet its hypotheses on every path.
* `NothingTwice`: by `OnceInv`. Rows of jobs, rows the cursor's IDs still lead to and, until the last
  statement, rows whose batched constraint is NULL are apart from each other and from
  what is there; a recreate run has one pass; page ranges do not overlap (`RangesApart`). For
  upstream filters without an OR (`OrFree`); `table_conditions` shows what one does.
* `ImplementsTableMerge`: `SoundInv` shows that a step only writes wanted rows. That success means
  enough of them is `CoverInv`: as long as nothing failed and no row limit is used up,
  every wanted row is there, staged, in a job, under the cursor or in a pass to come (`Due`).
  `RangesCover`, `PassesCover`, `BatchTakes`, `NeutralTakes` and `ShortFetch` are the facts that make
  each statement take what it owes. Assumed of the task: `Plain`, no OR and no empty
  pre_filter; and `KeyedByIds`, that the columns others refer to identify a row. These are
  keys where the database declares the foreign key, but `fk_augmentation` may name any columns;
  then a row that shares its ID with one that is there is not copied.
* `CopyNeverSticks`: every pass falls under one of the three ways to read it (`PassesCanGoOn`), a
  cursor that is asked has something to return (`FetchesExist`), a row limit leaves rows to
  take (`LimitedExists`), a connection of the round is there for every batch. `CopyAdvances`: each
  step leaves fewer passes, IDs or jobs, or begins or ends the last round.

The last proof found an error of an earlier version of `CopyBatch`, which took the row limit
for a downstream batch that was short; the downstream code has no limit. No instance had a
downstream table with a row limit, so TLC could not see it.

**RunSession_proofs** (assumes `SessionAssumption`).

* `ConnectionsAreReleased`: by `ConnInv`, which accounts for open and owned connections in
  every place; only a reader between open and import is open and not owned.
* `ReadsOneSnapshot`: by `SnapInv`. A worker's transaction sees the exported version from the
  import on, and nobody reads before.
* `PoolsRunDryFirst`, `SuccessMeansNoError`: by `BlameInv`. Something raised while a stage copies is
  remembered by a failed table or a waiting interrupt until the stage fails; the places
  after it are reached with the pool dry, unless a second interrupt came.
* `OnlyPsqlSticks`: before its end a run always has a step to take, unless `psql` waits for the
  run's own lock; `StuckAfterUpstream`, by `LockInv`: that only happens in a recreate run with
  an upstream table that the main thread copies, after which it copies no table that is sure to
  commit. `SessionAdvances`: each step leads to a later
  place, stage or state of a worker.

TLC checked the properties on the instances above before they were proved.

### Only model-checked

* `RunsEnd`, `LockIsReleased`, `CopyEndsOnceConnected`, `CopyTableEnds`, `EndsUnlessStuck`: liveness under
  fairness, and `ENABLED`, are beyond the prover. For all but `LockIsReleased` two halves of the
  argument are proved for every instance: something can go on wherever the system is not
  over (`RunsNeverStick`, `OnlyTheBarrierStrands`, `CopyNeverSticks`, `OnlyPsqlSticks`), and every step
  leaves less to do in a well-founded order (`RunsAdvance`, `WorkersAdvance`, `CopyAdvances`,
  `SessionAdvances`). What is left to TLC is that weak fairness makes what can go on go on.
  The guards these theorems name (`CanGoOn`, `MainCanGoOn`, `WorkerCanGoOn`) are written out by hand;
  on the instances above TLC finds each equivalent to `ENABLED` of the steps the fairness
  conditions are about, in every reachable state. `LockIsReleased` has no such pair: a process
  of `IncrementalJournal` goes through its places in order, and each has a step.
* Nothing else that a passing run checks: every invariant and action property, and both
  refinements, are proved as well, under the hypotheses named above. The sentences refuted by
  the other five runs are checked by TLC only.
* That the recursive definitions say what the code computes is by translation; the theorems
  about them (`SortsUnlessCircular`, `DisconnectedIsUnreachable`) say what they compute.

## Not modelled

* Configuration parsing, SQL text, quoting, column metadata, type casts: conversions
  no property is about. `fk_augmentation` adds relationships to the constant `Fks`.
* Identity resolution and schema validation, beyond the rejection they may lead to.
* Sequence numbering and what user SQL does; dump and `psql` beyond the locks it waits for.
* In `TableCopy`: the secondary unique index. An incremental upstream table that has one and
  whose IDs take several batches inserts a batch's new rows before the next batch's
  refreshes, contrary to CONFIG.md:159-161; phased copies (one staging table, refreshes
  first) are modelled for downstream tables and, split over workers, in `TwoPhaseCopy`. The
  wholly lost connections of a fan-out (a destination connection that cannot be opened
  among several, line 548) leave the others to the garbage collector.
* In `RunSession`: a connection lost while in use is a failure of the step that uses it;
  locks of user SQL; a Ctrl-C exactly between two closes of `close`. A worker's source
  connection that stays open when its destination cannot be reached (subset.py:300) is recorded
  in `leaked`, which no property is about.
* What the workers of a process that has lost its lock do to the rows: the copy is one step of
  `IncrementalJournal`, which may overlap with another's.
* The MySQL backend, which has no incremental modes.
* A passthrough table that is also upstream: both phases copy it, as
  `tests/psql/test_integration.py:2099` warns; no instance has one.

## Plan

Done, in this order: the traversal and its graph, the journal, the two-phase copy; then
the statements and batches of one table, its abstract specification and both
refinements, the run session; then the proofs, from types and journals over the
traversal's selection and closure to the completeness of one table's copy, that the subset
is no larger than needed, and that nothing sticks or goes on for ever.

Left:

1. Theorems: that `MiddleOut`'s `Copy` steps of one task refine `TableMerge`, so that its view
   of a table is proved from both sides.
2. The unique index in `TableCopy`, across the batches of an upstream table.
3. `IdentityKeys`: the resolution of incremental identities against CONFIG.md.
4. The rows that two overlapping copies write; `UnionFind` as operators against
   `Connected` on the code's own data structure; the temp databases of the MySQL backend.
