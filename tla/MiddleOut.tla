----------------------------- MODULE MiddleOut -----------------------------
(***************************************************************************)
(* The middle-out traversal (Subset.run_middle_out) over a source that     *)
(* evolves, a destination, and the durable delta journal of incremental    *)
(* runs, with the runs of one destination following one another: recreate, *)
(* topup and grow runs, runs that fail or are killed, and runs that resume *)
(* a retained journal.                                                     *)
(*                                                                         *)
(* The unit of data is a row named by its identity. What a source row says *)
(* is where its foreign keys point: a function from the relationships of   *)
(* its table to rows or Null. The destination holds, for every identity, a *)
(* sequence of copies (a recreate run loads without unique indexes, so     *)
(* nothing stops a second copy).                                           *)
(*                                                                         *)
(* A table's work is a task: it reads what it needs (Begin), and writes    *)
(* its rows in transactions of any size (Copy); the tasks of one stage     *)
(* interleave as far as the thread pool lets them.                         *)
(***************************************************************************)
EXTENDS FkGraph, Sequences, FiniteSetsExt

CONSTANTS
    Rows,           \* row identities
    table_of,       \* [Rows -> Tables]
    Selections,     \* [InitialTargetTables -> SUBSET SUBSET Rows]: what a where
                    \* (one set) or a percent (several) may select
    Filtered,       \* rows the upstream_filters reject
    KeepDisconnected, \* keep_disconnected_tables
    MaxRows,        \* max_rows_per_table, or Unlimited
    SourcePool,     \* parallel_read_workers > 1
    BigTables,      \* tables of 12800 heap pages and more
    TableWorkers,   \* width of the table-level thread pool
    Modes,          \* the destination modes runs may ask for
    InitialSources, \* source contents to start from
    MaxRuns,        \* bound: runs started
    MaxChanges,     \* bound: source transactions
    Null, Absent, Unlimited

VARIABLES
    src,        \* the source database: [Rows -> image or Absent]
    snap,       \* the snapshot the run's connections share
    dest,       \* [Rows -> Seq(image)]: the copies in the destination
    delta,      \* the journal's delta tables: no entry, or an entry with
                \* _inserted false ("refreshed") or true ("inserted")
    journal,    \* mode whose configuration hash run_state holds, or "none"
    built,      \* the destination has the keys a recreate run ends by adding
    mode,       \* destination_mode of the current or latest run
    stage,      \* where run_middle_out is
    level,      \* the stratum being processed
    processed,  \* processed_tables
    status,     \* [Tables -> status of the table's task in this stage]
    todo,       \* [Tables -> rows the task has still to write]
    base,       \* history: dest when the journal was opened
    origin,     \* history: the stage that first inserted a row
    runs, changes

vars == <<src, snap, dest, delta, journal, built, mode, stage, level,
          processed, status, todo, base, origin, runs, changes>>

----------------------------------------------------------------------------
Incremental == {"topup", "grow"}
Stages == {"idle", "direct", "upstream", "passthrough", "downstream",
           "disconnected", "constraints"}

RowsOf(t) == {r \in Rows : table_of[r] = t}

\* The images a row may have, whatever the rest of the database holds.
Images(r) == {c \in [FksOf(table_of[r]) -> Rows \cup {Null}] :
                 \A k \in DOMAIN c : c[k] # Null => table_of[c[k]] = target_table[k]}

AllImages == UNION {Images(r) : r \in Rows}

Live(db) == {r \in Rows : db[r] # Absent}

\* The source's own constraints hold in every state it commits.
Consistent(db) ==
    \A r \in Live(db) : \A k \in DOMAIN db[r] : db[r][k] = Null \/ db[r][k] \in Live(db)

IsDatabase(db) == /\ DOMAIN db = Rows /\ \A r \in Live(db) : db[r] \in Images(r)
                  /\ Consistent(db)

ASSUME RowAssumption ==
    /\ IsFiniteSet(Rows) /\ table_of \in [Rows -> Tables]
    /\ Null \notin Rows /\ Filtered \subseteq Rows
    /\ \A t \in InitialTargetTables :
          Selections[t] # {} /\ Selections[t] \subseteq SUBSET RowsOf(t)
    /\ MaxRows = Unlimited \/ MaxRows \in Nat
    /\ TableWorkers \in Nat \ {0} /\ MaxRuns \in Nat /\ MaxChanges \in Nat
    /\ SourcePool \in BOOLEAN /\ KeepDisconnected \in BOOLEAN
    /\ BigTables \subseteq Tables /\ (~SourcePool => BigTables = {})
    /\ Modes \subseteq {"recreate"} \cup Incremental
    /\ \A db \in InitialSources : IsDatabase(db)

----------------------------------------------------------------------------
(* The rows a task selects.                                                *)

Resident(r) == dest[r] # <<>>

\* columns_to_copy: relationships broken and not preserved are copied as NULL.
Redact(c) == [k \in DOMAIN c |-> IF k \in Nulled THEN Null ELSE c[k]]

\* A LIMIT of the whole statement.
Limited(S) ==
    IF MaxRows = Unlimited \/ Cardinality(S) <= MaxRows THEN {S}
    ELSE {T \in SUBSET S : Cardinality(T) = MaxRows}

\* The upstream paths limit some of their statements only: the batches of a
\* multi-batch copy and the neutral rows are not limited.
PartlyLimited(S) ==
    IF MaxRows = Unlimited \/ Cardinality(S) <= MaxRows THEN {S}
    ELSE {T \in SUBSET S : Cardinality(T) >= MaxRows}

\* __subset_direct, __subset_direct_parallel
DirectRows(t) == {S \cap Live(snap) : S \in Selections[t]}

\* The constraints of t to tables already processed.
Relevant(t) == {k \in Redacted : fk_table[k] = t /\ target_table[k] \in processed}

\* __upstream_delta_plan: in topup, only parents that gained rows drive a pass.
Gained(p) == \E r \in RowsOf(p) : delta[r] = "inserted"

\* Mutant: topup reads full parent sets, as grow does.
DeltaReadsNever == FALSE

DeltaReads == mode = "topup"

\* Mutant: the join with the destination's IDs is lost.
MatchedNonNull(c, k) == c[k] # Null

Matched(c, k) == c[k] # Null /\ Resident(c[k])

\* Mutant: a delta pass is planned only when every parent gained rows.
DrivesWhenAllGained(c, k) ==
    /\ Matched(c, k)
    /\ DeltaReads => /\ delta[c[k]] = "inserted"
                     /\ \A j \in DOMAIN c : Gained(target_table[j])

\* The constraint that brings the row in: in a delta pass it must join the
\* parent's delta, otherwise any match will do.
Drives(c, k) ==
    /\ Matched(c, k)
    /\ DeltaReads => Gained(target_table[k]) /\ delta[c[k]] = "inserted"

\* Mutants: a NULL relationship disqualifies the row; OR semantics, one selected
\* parent is enough.
UpstreamRowsNoNulls(t) ==
    PartlyLimited({r \in RowsOf(t) \cap Live(snap) :
        /\ r \notin Filtered /\ \A k \in Relevant(t) : Matched(snap[r], k)
        /\ \E k \in Relevant(t) : Drives(snap[r], k)})
UpstreamRowsAny(t) ==
    PartlyLimited({r \in RowsOf(t) \cap Live(snap) :
        r \notin Filtered /\ \E k \in Relevant(t) : Drives(snap[r], k)})

UpstreamRows(t) ==
    PartlyLimited({r \in RowsOf(t) \cap Live(snap) :
        /\ r \notin Filtered
        /\ \A k \in Relevant(t) : snap[r][k] = Null \/ Matched(snap[r], k)
        /\ \E k \in Relevant(t) : Drives(snap[r], k)})

\* __downstream_delta_plan and subset_downstream: the parents that copied
\* children point at and the destination lacks. An incremental run scans the
\* children its delta tables list, inserted or refreshed.
\* Mutants: refreshed children are not scanned; deltas are read in every mode.
ScannedInserted(r) == mode \in Incremental => delta[r] = "inserted"
ScannedDeltasOnly(r) == delta[r] # "none"

Scanned(r) == mode \in Incremental => delta[r] # "none"

\* Mutants: the NOT EXISTS against the destination is lost; the source's
\* children are read instead of the destination's.
ParentsOfAnyChild(t) ==
    {p \in RowsOf(t) : /\ ~Resident(p)
                       /\ \E k \in Redacted, r \in Live(snap) :
                             target_table[k] = t /\ fk_table[k] = table_of[r] /\ snap[r][k] = p}
ReferencedParents(t) ==
    {p \in RowsOf(t) : \E k \in Redacted, r \in Rows :
        /\ target_table[k] = t /\ fk_table[k] = table_of[r] /\ Scanned(r)
        /\ \E i \in 1 .. Len(dest[r]) : dest[r][i][k] = p}

MissingParents(t) ==
    {p \in RowsOf(t) : /\ ~Resident(p)
                       /\ \E k \in Redacted, r \in Rows :
                             /\ target_table[k] = t /\ fk_table[k] = table_of[r]
                             /\ Scanned(r)
                             /\ \E i \in 1 .. Len(dest[r]) : dest[r][i][k] = p}

DownstreamRows(t) == {MissingParents(t) \cap Live(snap)}

\* The row sets the task of t may choose in the current stage.
RowChoices(t) ==
    CASE stage = "direct"       -> DirectRows(t)
      [] stage = "upstream"     -> IF Relevant(t) = {} \/ t \in processed
                                   THEN {{}} ELSE UpstreamRows(t)
      [] stage = "passthrough"  -> Limited(RowsOf(t) \cap Live(snap))
      [] stage = "downstream"   -> DownstreamRows(t)
      [] stage = "disconnected" -> {RowsOf(t) \cap Live(snap)}

\* SELECT * where whole tables are copied, columns_to_copy everywhere else.
Fetched(r) == IF stage \in {"passthrough", "disconnected"} THEN snap[r]
                                                           ELSE Redact(snap[r])

----------------------------------------------------------------------------
(* Stages and their tasks.                                                 *)

StageTables ==
    CASE stage = "direct"       -> InitialTargetTables
      [] stage = "upstream"     -> Strata[level]
      [] stage = "passthrough"  -> PassthroughTables
      [] stage = "downstream"   -> DownstreamStratum(level)
      [] stage = "disconnected" -> Disconnected
      [] OTHER                  -> {}

\* Tables copied by the main thread, one after the other.
InTurn(t) ==
    \/ stage = "direct" /\ (SourcePool \/ Cardinality(InitialTargetTables) < 3)
    \/ stage = "upstream" /\ Cardinality(StageTables) > 1 /\ t \in BigTables
    \/ stage = "passthrough" /\ SourcePool /\ MaxRows = Unlimited
    \/ stage = "disconnected"

With(state) == {t \in StageTables : status[t] = state}

\* A table in turn starts when the pool is done and nothing has failed; the
\* pool runs every table submitted to it even when one of them fails.
MayBegin(t) ==
    /\ t \in With("pending")
    /\ IF InTurn(t)
       THEN /\ With("running") = {} /\ With("failed") = {}
            /\ \A u \in With("pending") : InTurn(u)
       ELSE Cardinality(With("running")) < TableWorkers

Begin(t) ==
    /\ MayBegin(t)
    /\ \E S \in RowChoices(t) :
          /\ todo' = [todo EXCEPT ![t] = S]
          /\ status' = [status EXCEPT ![t] = IF S = {} THEN "done" ELSE "running"]
    /\ UNCHANGED <<src, snap, dest, delta, journal, built, mode, stage, level,
                   processed, base, origin, runs, changes>>

\* Mutants: a refresh overwrites the inserted mark; existing rows are left alone.
WriteForgetsInserts(r) ==
    IF mode = "recreate"
    THEN dest' = [dest EXCEPT ![r] = Append(@, Fetched(r))] /\ UNCHANGED delta
    ELSE /\ dest' = [dest EXCEPT ![r] = <<Fetched(r)>>]
         /\ delta' = [delta EXCEPT ![r] = IF ~Resident(r) THEN "inserted"
                                          ELSE IF dest[r] = <<Fetched(r)>> THEN @
                                          ELSE "refreshed"]
WriteOnlyNew(r) ==
    IF mode = "recreate"
    THEN dest' = [dest EXCEPT ![r] = Append(@, Fetched(r))] /\ UNCHANGED delta
    ELSE IF Resident(r) THEN UNCHANGED <<dest, delta>>
    ELSE dest' = [dest EXCEPT ![r] = <<Fetched(r)>>] /\ delta' = [delta EXCEPT ![r] = "inserted"]

\* copy_rows: a recreate run appends to the table; an incremental run upserts
\* on the identity, skips unchanged rows, and writes the delta entry in the
\* same statement.
Write(r) ==
    LET c == Fetched(r) IN
    IF mode = "recreate"
    THEN /\ dest' = [dest EXCEPT ![r] = Append(@, c)]
         /\ UNCHANGED delta
    ELSE /\ dest' = [dest EXCEPT ![r] = <<c>>]
         /\ delta' = [delta EXCEPT ![r] = IF ~Resident(r) THEN "inserted"
                                          ELSE IF dest[r] = <<c>> \/ @ # "none" THEN @
                                          ELSE "refreshed"]

Copy(t) ==
    /\ t \in With("running")
    /\ \E r \in todo[t] :
          /\ Write(r)
          /\ origin' = IF Resident(r) THEN origin ELSE [origin EXCEPT ![r] = stage]
          /\ todo' = [todo EXCEPT ![t] = @ \ {r}]
          /\ status' = IF todo[t] = {r} THEN [status EXCEPT ![t] = "done"] ELSE status
    /\ UNCHANGED <<src, snap, journal, built, mode, stage, level, processed,
                   base, runs, changes>>

\* A statement or a connection of the task fails; what it committed stays.
TaskFails(t) ==
    /\ t \in With("running") \/ MayBegin(t)
    /\ status' = [status EXCEPT ![t] = "failed"]
    /\ todo' = [todo EXCEPT ![t] = {}]
    /\ UNCHANGED <<src, snap, dest, delta, journal, built, mode, stage, level,
                   processed, base, origin, runs, changes>>

----------------------------------------------------------------------------
(* The run.                                                                *)

\* Mutant: the upstream strata are counted one past the last.
NextStopPastEnd ==
    IF stage \in {"direct", "upstream"} /\ level <= Depth THEN <<"upstream", level + 1>>
    ELSE <<"constraints", 0>>

\* run_middle_out's sequence; the strata of a stage are visited in order.
NextStop ==
    LET upstream(n)   == {m \in UpstreamLevels : m > n}
        downstream(n) == {m \in DownstreamLevels : m < n}
        afterUp       == <<"passthrough", 0>>
        afterDown     == IF KeepDisconnected THEN <<"disconnected", 0>>
                                             ELSE <<"constraints", 0>>
        goUp(n)   == IF upstream(n) = {} THEN afterUp ELSE <<"upstream", Min(upstream(n))>>
        goDown(n) == IF downstream(n) = {} THEN afterDown
                                           ELSE <<"downstream", Max(downstream(n))>>
    IN  CASE stage = "direct"      -> goUp(0)
          [] stage = "upstream"    -> goUp(level)
          [] stage = "passthrough" -> goDown(Depth + 1)
          [] stage = "downstream"  -> goDown(level)
          [] OTHER                 -> <<"constraints", 0>>

\* The tables whose subsetting the stage reports: __subset_upstream returns
\* True even when it skipped the table.
Added == IF stage = "direct" THEN InitialTargetTables
         ELSE IF stage = "upstream" THEN {t \in StageTables : Relevant(t) # {}}
         ELSE {}

ResetTasks == /\ status' = [t \in Tables |-> "pending"]
              /\ todo' = [t \in Tables |-> {}]

AdvanceStage ==
    /\ stage \notin {"idle", "constraints"}
    /\ With("done") = StageTables
    /\ processed' = processed \cup Added
    /\ stage' = NextStop[1] /\ level' = NextStop[2]
    /\ ResetTasks
    /\ UNCHANGED <<src, snap, dest, delta, journal, built, mode, base, origin,
                   runs, changes>>

StartRun(m) ==
    /\ stage = "idle" /\ runs < MaxRuns /\ m \in Modes
    /\ mode' = m /\ runs' = runs + 1
    /\ snap' = src
    /\ stage' = "direct" /\ level' = 0 /\ processed' = {}
    /\ ResetTasks
    /\ UNCHANGED <<src, changes>>

\* main: teardown drops everything, the journal included, and create loads the
\* pre-data schema.
StartRecreate ==
    /\ StartRun("recreate")
    /\ dest' = [r \in Rows |-> <<>>] /\ delta' = [r \in Rows |-> "none"]
    /\ journal' = "none" /\ built' = FALSE
    /\ base' = dest' /\ origin' = [r \in Rows |-> "idle"]

\* prep_incremental: the identities must exist (a destination whose keys were
\* never added is rejected), and a retained journal must be of this
\* configuration; it is then resumed with its deltas.
StartIncremental(m) ==
    /\ m \in Incremental /\ StartRun(m)
    /\ built
    /\ journal \in {"none", m}
    /\ journal' = m
    /\ base' = IF journal = "none" THEN dest ELSE base
    /\ UNCHANGED <<dest, delta, built, origin>>

\* The run is over, by an exception or by the death of the process: tasks in
\* flight are lost, an incremental run's journal stays.
Abandon ==
    /\ stage' = "idle" /\ level' = 0 /\ processed' = {}
    /\ ResetTasks
    /\ UNCHANGED <<src, snap, dest, delta, journal, built, mode, base, origin,
                   runs, changes>>

\* Mutant: the failure is looked at when every table has been tried.
RunFailsWhenAllTried ==
    /\ With("failed") # {} /\ With("running") = {} /\ With("pending") = {}
    /\ Abandon

\* The exception leaves the stage once the pool has run dry.
RunFails ==
    /\ With("failed") # {} /\ With("running") = {}
    /\ \A t \in With("pending") : ~MayBegin(t)
    /\ Abandon

Crash == stage # "idle" /\ Abandon

\* What ADD CONSTRAINT ... FOREIGN KEY checks.
ForeignKeysHold ==
    \A r \in Rows : \A i \in 1 .. Len(dest[r]) : \A k \in DOMAIN dest[r][i] :
        dest[r][i][k] = Null \/ Resident(dest[r][i][k])

SingleCopies == \A r \in Rows : Len(dest[r]) <= 1

\* add_constraints: the post-data schema; unique keys need single copies.
AddConstraints ==
    /\ stage = "constraints" /\ mode = "recreate"
    /\ built' = SingleCopies
    /\ stage' = "idle" /\ level' = 0 /\ processed' = {}
    /\ ResetTasks
    /\ UNCHANGED <<src, snap, dest, delta, journal, mode, base, origin, runs, changes>>

\* finish: the journal goes once the foreign keys are back. When they cannot
\* be restored the run ends as a failed one.
FinishIncremental ==
    /\ stage = "constraints" /\ mode \in Incremental
    /\ IF ForeignKeysHold
       THEN journal' = "none" /\ delta' = [r \in Rows |-> "none"]
       ELSE UNCHANGED <<journal, delta>>
    /\ stage' = "idle" /\ level' = 0 /\ processed' = {}
    /\ ResetTasks
    /\ UNCHANGED <<src, snap, dest, built, mode, base, origin, runs, changes>>

\* A source transaction: one row is inserted, changed or deleted.
SourceChange ==
    /\ changes < MaxChanges
    /\ \E r \in Rows : \E c \in Images(r) \cup {Absent} :
          /\ c # src[r]
          /\ src' = [src EXCEPT ![r] = c]
          /\ Consistent(src')
    /\ changes' = changes + 1
    /\ UNCHANGED <<snap, dest, delta, journal, built, mode, stage, level,
                   processed, status, todo, base, origin, runs>>

----------------------------------------------------------------------------
Init ==
    /\ src \in InitialSources /\ snap = src
    /\ dest = [r \in Rows |-> <<>>] /\ delta = [r \in Rows |-> "none"]
    /\ journal = "none" /\ built = FALSE
    /\ mode = "recreate" /\ stage = "idle" /\ level = 0 /\ processed = {}
    /\ status = [t \in Tables |-> "pending"] /\ todo = [t \in Tables |-> {}]
    /\ base = dest /\ origin = [r \in Rows |-> "idle"]
    /\ runs = 0 /\ changes = 0

TaskStep == \E t \in Tables : Begin(t) \/ Copy(t)

Next ==
    \/ StartRecreate
    \/ \E m \in Incremental : StartIncremental(m)
    \/ TaskStep
    \/ \E t \in Tables : TaskFails(t)
    \/ AdvanceStage \/ RunFails \/ Crash
    \/ AddConstraints \/ FinishIncremental
    \/ SourceChange

Spec == Init /\ [][Next]_vars

\* The process keeps executing: the threads run and the main thread goes on.
\* Starting runs, failures and source transactions are never forced.
Fairness ==
    /\ WF_vars(TaskStep)
    /\ WF_vars(AdvanceStage \/ RunFails \/ AddConstraints \/ FinishIncremental)

FairSpec == Spec /\ Fairness

----------------------------------------------------------------------------
(* Properties.                                                             *)

\* The type of every variable.
TypeOK ==
    /\ IsDatabase(src) /\ IsDatabase(snap)
    /\ dest \in [Rows -> Seq(AllImages)]
    /\ delta \in [Rows -> {"none", "refreshed", "inserted"}]
    /\ journal \in {"none"} \cup Incremental /\ built \in BOOLEAN
    /\ mode \in {"recreate"} \cup Incremental
    /\ stage \in Stages /\ level \in 0 .. Depth
    /\ processed \subseteq Tables
    /\ status \in [Tables -> {"pending", "running", "done", "failed"}]
    /\ todo \in [Tables -> SUBSET Rows]
    /\ base \in [Rows -> Seq(AllImages)]
    /\ origin \in [Rows -> Stages]
    /\ runs \in 0 .. MaxRuns /\ changes \in 0 .. MaxChanges

\* When the traversal is done, a copied row points, through every relationship
\* whose columns were not given up, at a row that was copied too. The only
\* exception is a parent the run's own snapshot no longer has: a row an
\* abandoned run left behind may still name it. A stratum visited in the wrong
\* order, a child missed by the delta scan, or a parent excluded from the
\* downstream pass leaves the foreign keys unrestorable.
ReferentiallyClosed ==
    stage = "constraints" =>
        \A r \in Rows : \A i \in 1 .. Len(dest[r]) : \A k \in DOMAIN dest[r][i] :
            LET p == dest[r][i][k] IN
                p = Null \/ Resident(p) \/ p \notin Live(snap) \/ Pair(k) \in Opportunists

\* No row is copied twice in one run, and no run duplicates a row an earlier
\* one brought: the keys and unique indexes can be created.
NoDuplicateCopies == SingleCopies

\* The tables the upstream phase reaches, by definition rather than by what a
\* run has recorded: the targets, and in later strata the tables with a
\* relationship to one of them.
FollowedUpTo[n \in Nat] ==
    IF n = 0 THEN InitialTargetTables
    ELSE LET before == FollowedUpTo[n - 1]
             joined == {fk_table[k] : k \in {j \in Redacted : target_table[j] \in before}}
         IN  IF n \in UpstreamLevels THEN before \cup (Strata[n] \cap joined) ELSE before
Followed == FollowedUpTo[Depth]

\* The AND semantics of CONFIG.md over the finished destination, whatever the
\* order and the deltas the passes read: each relationship of the row to a
\* followed table is NULL or points at a row that is there, and one does.
SelectedByParents(r, c) ==
    LET ks == {k \in Redacted : fk_table[k] = table_of[r] /\ target_table[k] \in Followed}
    IN  /\ \A k \in ks : c[k] = Null \/ Resident(c[k])
        /\ \E k \in ks : c[k] # Null /\ Resident(c[k])

ByUpstreamOnly(r) == table_of[r] \in Followed \ InitialTargetTables

\* At the end of the upstream phase of a recreate or grow run the destination
\* holds every source row the AND semantics select, wherever its parents came
\* from: targets, earlier strata, or (grow) earlier runs.
UpstreamComplete ==
    (stage = "passthrough" /\ mode # "topup" /\ MaxRows = Unlimited) =>
        \A r \in Live(snap) \ Filtered :
            (ByUpstreamOnly(r) /\ SelectedByParents(r, snap[r])) => Resident(r)

\* And a row the upstream phase brought in satisfies it for good: no later
\* stage, refresh, resumed run or other mode leaves it without its parents.
UpstreamSound ==
    \A r \in Rows :
        (origin[r] = "upstream" /\ ByUpstreamOnly(r) /\ table_of[r] \notin PassthroughTables) =>
            \A i \in 1 .. Len(dest[r]) : SelectedByParents(r, dest[r][i])

\* A topup run leaves the entities of earlier runs frozen: a row its upstream
\* phase inserts hangs from a row inserted under the same journal, never only
\* from rows that were there before.
FrozenEntities ==
    (mode = "topup" /\ stage # "idle") =>
        \A r \in Rows : (delta[r] = "inserted" /\ origin[r] = "upstream") =>
            \E k \in FksOf(table_of[r]) :
                dest[r][1][k] # Null /\ delta[dest[r][1][k]] = "inserted"

\* A topup run still follows what it must: every child of rows inserted under
\* the journal that the AND semantics select is there after the upstream phase.
TopupComplete ==
    (stage = "passthrough" /\ mode = "topup" /\ MaxRows = Unlimited) =>
        \A r \in Live(snap) \ Filtered :
            (/\ ByUpstreamOnly(r) /\ SelectedByParents(r, snap[r])
             /\ \E k \in Redacted : /\ fk_table[k] = table_of[r]
                                     /\ target_table[k] \in Followed
                                     /\ snap[r][k] # Null
                                     /\ delta[snap[r][k]] = "inserted")
                => Resident(r)

\* A copied row points at p through a relationship that is followed, a row of
\* this run or, in an incremental run, of one that shared its journal.
PointedAt(p) ==
    \E k \in Redacted, r \in Rows :
        /\ fk_table[k] = table_of[r] /\ target_table[k] = table_of[p]
        /\ mode \in Incremental => delta[r] # "none"
        /\ \E i \in 1 .. Len(dest[r]) : dest[r][i][k] = p

\* The subset is no larger than it has to be: the downstream phase brings in a
\* row only while a copied row points at it, although the tasks of a stratum
\* read what is missing at one time and write it at another.
OnlyNeededParents ==
    [][stage = "downstream" =>
          \A p \in Rows : (~Resident(p) /\ Resident(p)') => PointedAt(p)']_vars

\* The journal tells a resumed run exactly what its predecessors inserted,
\* through any number of failures, kills and resumes: an entry is marked
\* inserted if and only if the row is there and was not when the journal was
\* opened, and a row without an entry is as it was then.
DeltaTracksInserts ==
    journal # "none" =>
        \A r \in Rows :
            /\ delta[r] = "inserted" <=> Resident(r) /\ base[r] = <<>>
            /\ delta[r] = "none" => dest[r] = base[r]

\* A row the finished incremental run re-read says what the snapshot says:
\* changed columns heal on a target or passthrough row.
ReReadRowsFresh ==
    (stage = "constraints" /\ mode \in Incremental /\ MaxRows = Unlimited) =>
        \A r \in Live(snap) :
            /\ table_of[r] \in PassthroughTables => dest[r] = <<snap[r]>>
            /\ (/\ table_of[r] \in InitialTargetTables \ PassthroughTables
                /\ \A S \in Selections[table_of[r]] : r \in S)
                  => dest[r] = <<Redact(snap[r])>>

\* Every run comes to its end, by success or failure: no pool waits for a task
\* that nobody starts.
RunsEnd == stage # "idle" ~> stage = "idle"

----------------------------------------------------------------------------
(* What the documentation says and the code does not do.                   *)

\* CONFIG.md, on topup: it "only follows history belonging to newly inserted
\* direct targets". A row brought in by the upstream phase hangs from a row
\* that the direct or the upstream phase inserted.
FollowsDirectTargetsOnly ==
    (mode = "topup" /\ stage # "idle") =>
        \A r \in Rows : (delta[r] = "inserted" /\ origin[r] = "upstream") =>
            \E k \in FksOf(table_of[r]) :
                LET p == dest[r][1][k] IN
                    p # Null /\ delta[p] = "inserted" /\ origin[p] \in {"direct", "upstream"}
============================================================================
