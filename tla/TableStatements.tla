-------------------------- MODULE TableStatements --------------------------
(***************************************************************************)
(* The statements that read one table from the source, as the sets of rows *)
(* they select, and the rows the table's copy is meant to bring over. Pure *)
(* definitions over a description of the table and of its part in the run. *)
(*                                                                         *)
(* A row is where each constraint of the table points: an ID of the parent *)
(* or one of Nulls. Composite keys are one ID, of Nulls when any column is *)
(* NULL. For the downstream step the roles turn: a constraint is a column  *)
(* set that others refer to, and the row has one of the IDs in it.         *)
(***************************************************************************)
EXTENDS Naturals, SequencesExt

CONSTANTS
    Nulls,     \* IDs with a NULL in some column
    NoPlan,    \* no delta plan (recreate and grow runs), no pre_filter
    Unlimited, \* no max_rows_per_table
    BatchSize, \* compute_batch_size: IDs fetched at a time
    MinPages   \* pages per worker that make a ctid split worth while

ASSUME StatementAssumption ==
    /\ BatchSize \in Nat \ {0} /\ MinPages \in Nat \ {0}

(***************************************************************************)
(* A task is a record:                                                     *)
(*   path      "upstream", "downstream", "direct" or "whole"               *)
(*   rows      the source rows                                             *)
(*   kcs       the constraints to processed tables; downstream: the column *)
(*             sets others refer to                                        *)
(*   group     [kcs -> parent and columns it refers to]                    *)
(*   ids       [groups -> IDs]: the parents in the destination; downstream:*)
(*             the IDs that copied children refer to                       *)
(*   fresh     delta plan: [groups whose parent gained rows -> new IDs],   *)
(*             or NoPlan                                                   *)
(*   condition the where clause or upstream filter as it is written: the   *)
(*             alternatives an OR separates                                *)
(*   cached    what the pre_filter's query returned: [values -> rows that  *)
(*             have the value], or NoPlan                                  *)
(*   pages     [rows -> heap page]; relpages: what the catalog says        *)
(*   pool      number of pool connections, 0 without parallel reads        *)
(*   alone, temps, composite, upsert, phased                               *)
(*             allow_chunk, use_temp_tables, keys of several columns, an   *)
(*             incremental run, and a table of it with a secondary unique  *)
(*             index                                                       *)
(*   limit     max_rows_per_table                                          *)
(***************************************************************************)

Groups(task) == {task.group[k] : k \in task.kcs}
Either(condition) == UNION ToSet(condition)

\* Rows of a fetch without a NULL.
Valid(ids) == ids \ Nulls
Fetches(ids) == {B \in SUBSET ids : Cardinality(B) = Min({BatchSize, Cardinality(ids)})}

----------------------------------------------------------------------------
(* Text put together: AND binds tighter than the OR of a condition.        *)

AndUnwrapped(S, condition) == (S \cap Head(condition)) \cup Either(Tail(condition))
UnwrappedAnd(condition, S) == Either(Front(condition)) \cup (Last(condition) \cap S)

----------------------------------------------------------------------------
(* Upstream.                                                               *)

Matches(r, k, joins) == r[k] \in joins[k]

\* __build_upstream_unnest_query: the constraints of "joins" match or are
\* NULL, those of "nulls" are NULL, and the required one matches (any one, if
\* none is named).
UpstreamQuery(task, joins, required, nulls) ==
    {r \in task.rows \cap Either(task.condition) :
        /\ \A k \in DOMAIN joins : r[k] \in Nulls \/ Matches(r, k, joins)
        /\ \A k \in nulls : r[k] \in Nulls
        /\ \E k \in DOMAIN joins : (k = required \/ required = NoPlan) /\ Matches(r, k, joins)}

\* The full IDs, the new ones for the constraint that drives a delta pass.
PassJoins(task, pass) ==
    [k \in task.kcs |-> Valid(IF k = pass THEN task.fresh[task.group[k]]
                                           ELSE task.ids[task.group[k]])]

\* One pass, or one for every constraint whose parent gained rows.
Passes(task) ==
    IF task.fresh = NoPlan THEN {NoPlan}
    ELSE {k \in task.kcs : task.group[k] \in DOMAIN task.fresh}

\* __upstream_delta_plan: no parent gained rows.
NothingNew(task) == task.fresh # NoPlan /\ DOMAIN task.fresh = {}

\* The groups a pass may stream through a cursor: used by one constraint
\* only, and not the one whose new IDs drive the pass.
Streamable(task, pass) ==
    {k \in task.kcs \ {pass} : \A j \in task.kcs \ {k} : task.group[j] # task.group[k]}

\* What counts most: the constraints whose ID set is the largest.
Largest(K, ids) == {k \in K : \A j \in K : Cardinality(ids[j]) <= Cardinality(ids[k])}
FullIds(task) == [k \in task.kcs |-> task.ids[task.group[k]]]

\* Mutant: the neutral pass is forgotten.
NeutralForgotten(task, joins, batched, pass) == {}

\* copy_neutral_rows: the rows whose batched constraint is NULL, which no
\* batch with that constraint required has brought.
NeutralRows(task, joins, batched, pass) ==
    LET remaining == [k \in task.kcs \ {batched} |-> joins[k]] IN
        IF pass = batched THEN {}
        ELSE UpstreamQuery(task, remaining, pass, {batched})

----------------------------------------------------------------------------
(* Downstream.                                                             *)

\* The rows with one of the IDs in the column set k.
DownstreamQuery(task, k, ids) == {r \in task.rows : r[k] \in Valid(ids)}

\* Mutant: the NOT EXISTS is lost.
ReferredIds(task, k, present) == task.ids[task.group[k]]

\* The IDs children refer to and no row of the destination has.
MissingIds(task, k, present) ==
    {i \in task.ids[task.group[k]] : i \in Nulls \/ \A r \in present : r[k] # i}

----------------------------------------------------------------------------
(* Direct targets and whole tables.                                        *)

\* __get_pre_filter_info: no value is no filter.
Filters(task) == task.cached # NoPlan /\ DOMAIN task.cached # {}
Cached(task) == UNION {task.cached[v] : v \in DOMAIN task.cached}

DirectQuery(task) ==
    IF Filters(task) THEN UnwrappedAnd(task.condition, Cached(task))
    ELSE Either(task.condition)

DirectSplitQuery(task) ==
    IF Filters(task) THEN Either(task.condition) \cap Cached(task)
    ELSE Either(task.condition)

----------------------------------------------------------------------------
(* Page ranges.                                                            *)

\* __copy_table_ctid_parallel applies: large enough, and its order of writes
\* does not matter (a phased table is split in two phases: TwoPhaseCopy).
Splittable(task) ==
    task.pool > 0 /\ ~task.phased /\ task.relpages >= task.pool * MinPages

PerWorker(task) == task.relpages \div task.pool

\* The catalog may undercount: the last range is open.
InRange(task, i, r) ==
    /\ task.pages[r] >= (i - 1) * PerWorker(task)
    /\ i = task.pool \/ task.pages[r] < i * PerWorker(task)

InRanges(task, i) == {r \in task.rows : InRange(task, i, r)}

----------------------------------------------------------------------------
(* What the copy is for: the definition, whatever the path.                *)

\* CONFIG.md: every constraint NULL or satisfied, one of them by a parent
\* that is there (topup: by one inserted in this run), and the filters.
WantedUpstream(task) ==
    {r \in task.rows \cap Either(task.condition) :
        /\ \A k \in task.kcs : r[k] \in Nulls \/ r[k] \in task.ids[task.group[k]]
        /\ \E k \in task.kcs :
              /\ r[k] \notin Nulls
              /\ IF task.fresh = NoPlan THEN r[k] \in task.ids[task.group[k]]
                 ELSE /\ task.group[k] \in DOMAIN task.fresh
                      /\ r[k] \in task.fresh[task.group[k]]}

Wanted(task) ==
    CASE task.path = "upstream"   -> WantedUpstream(task)
      [] task.path = "downstream" ->
            {r \in task.rows : \E k \in task.kcs :
                r[k] \notin Nulls /\ r[k] \in task.ids[task.group[k]]}
      [] task.path = "direct" ->
            IF task.cached = NoPlan THEN Either(task.condition)
            ELSE Either(task.condition) \cap Cached(task)
      [] task.path = "whole" -> task.rows

\* A row limit lets an upstream or whole table end with fewer rows, but not
\* without need.
Enough(task) ==
    IF task.limit = Unlimited \/ task.path \in {"direct", "downstream"}
    THEN Cardinality(Wanted(task))
    ELSE Min({task.limit, Cardinality(Wanted(task))})
=============================================================================
