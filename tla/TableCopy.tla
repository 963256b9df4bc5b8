----------------------------- MODULE TableCopy -----------------------------
(***************************************************************************)
(* The copy of one table: the main thread of the task (pc) decides which   *)
(* statements read the table and runs them on its own two connections, or  *)
(* fans them out over the source pool: ID batches round by round           *)
(* (__parallel_id_batches) or one page range per connection                *)
(* (__copy_table_ctid_parallel). Every statement is one transaction of the *)
(* destination; any of them, and any connection, may fail.                 *)
(*                                                                         *)
(* The parents' IDs do not change meanwhile: they are of earlier strata.   *)
(***************************************************************************)
EXTENDS TableStatements

CONSTANTS
    Layouts, \* the tasks to choose from
    MayFail

ASSUME LayoutAssumption ==
    /\ MayFail \in BOOLEAN
    /\ \A t \in Layouts :
          /\ t.path \in {"upstream", "downstream", "direct", "whole"}
          /\ t.pool \in Nat /\ t.relpages \in Nat /\ t.limit \in Nat \cup {Unlimited}
          /\ t.phased => t.upsert /\ t.path = "downstream"
          /\ IsFiniteSet(t.rows) /\ t.pages \in [t.rows -> Nat]
          /\ \A g \in Groups(t) : IsFiniteSet(t.ids[g])
          /\ t.condition \in Seq(SUBSET t.rows) \ {<<>>}
          /\ IsFiniteSet(t.kcs) /\ NoPlan \notin t.kcs
          /\ t.fresh # NoPlan => /\ t.upsert
                                /\ DOMAIN t.fresh \subseteq Groups(t)
                                /\ \A g \in DOMAIN t.fresh : t.fresh[g] \subseteq t.ids[g]

VARIABLES
    task,    \* what is to be copied, and how: constant in a run
    pc,      \* where the main thread is
    passes,  \* passes, or downstream column sets, still to come
    pass,    \* the constraint that drives the current pass, or NoPlan
    batched, \* the constraint whose IDs come in batches
    unread,  \* IDs its cursor has still to return
    first,   \* nothing has been fetched from the cursor yet
    turn,    \* the pool connection that gets the next batch of the round
    jobs,    \* [pool -> Seq(rows to select)]: submitted and not finished
    open,    \* pool positions whose destination connection is open
    failed,  \* a submitted job has raised
    staged,  \* rows of the staging table (phased downstream copies)
    copied   \* [rows -> how many copies the destination has]

vars == <<task, pc, passes, pass, batched, unread, first, turn, jobs, open, failed,
          staged, copied>>

cursorVars == <<pass, batched, unread, first>>
poolVars == <<turn, jobs, open, failed>>

Pool == 1 .. task.pool
Places == {"start", "temps", "passes", "batches", "first", "connect", "fan", "drain",
           "split", "apply", "done", "failed"}

Constraint == CHOOSE k \in task.kcs : TRUE
Present == {r \in task.rows : copied[r] > 0}

----------------------------------------------------------------------------
(* One statement.                                                          *)

Limited(S, single) ==
    IF ~single \/ task.limit = Unlimited \/ Cardinality(S) <= task.limit THEN {S}
    ELSE kSubset(task.limit, S)

Store(S) ==
    copied' = [r \in task.rows |-> IF r \notin S THEN copied[r]
                                   ELSE IF task.upsert THEN 1 ELSE copied[r] + 1]

\* copy_rows, or stage_rows where refreshes have to come first.
Execute(S, single) ==
    \E T \in Limited(S, single) :
        IF task.phased THEN staged' = staged \cup T /\ UNCHANGED copied
                       ELSE Store(T) /\ UNCHANGED staged

\* A statement, or what it needs, raises: the copy is over.
StatementFails ==
    /\ MayFail /\ pc \notin {"fan", "drain", "split", "done", "failed"}
    /\ pc' = "failed"
    /\ UNCHANGED <<task, passes, cursorVars, poolVars, staged, copied>>

----------------------------------------------------------------------------
(* Direct targets and whole tables: one statement, or page ranges.         *)

\* Jobs for the page ranges of the query's rows.
Split(query) ==
    /\ jobs' = [i \in Pool |-> <<query[i]>>]
    /\ pc' = "split"
    /\ UNCHANGED <<task, passes, cursorVars, turn, open, failed, staged, copied>>

CopyTarget ==
    /\ pc = "start" /\ task.path = "direct"
    /\ IF Splittable(task)
       THEN Split([i \in Pool |-> InRanges(task, i) \cap DirectSplitQuery(task)])
       ELSE /\ Execute(DirectQuery(task), FALSE)
            /\ pc' = "done"
            /\ UNCHANGED <<task, passes, cursorVars, poolVars>>

\* Tables are split only when no row limit is set.
CopyWhole ==
    /\ pc = "start" /\ task.path = "whole"
    /\ IF Splittable(task) /\ task.limit = Unlimited
       THEN Split([i \in Pool |-> InRanges(task, i)])
       ELSE /\ Execute(task.rows, TRUE)
            /\ pc' = "done"
            /\ UNCHANGED <<task, passes, cursorVars, poolVars>>

----------------------------------------------------------------------------
(* Upstream: which statements.                                             *)

StartUpstream ==
    /\ pc = "start" /\ task.path = "upstream"
    /\ IF NothingNew(task) THEN pc' = "done" /\ UNCHANGED <<passes, cursorVars>>
       ELSE IF task.temps
       THEN pc' = "temps" /\ passes' = Passes(task) /\ UNCHANGED cursorVars
       ELSE IF Cardinality(task.kcs) = 1 /\ task.limit = Unlimited
       THEN /\ pc' = IF task.alone /\ task.pool > 0 THEN "first" ELSE "batches"
            /\ pass' = NoPlan /\ batched' = Constraint /\ first' = TRUE
            /\ unread' = IF task.fresh = NoPlan THEN task.ids[task.group[Constraint]]
                         ELSE task.fresh[task.group[Constraint]]
            /\ UNCHANGED passes
       ELSE /\ pc' = "passes"
            /\ passes' = {p \in Passes(task) :
                             p # NoPlan => Valid(task.fresh[task.group[p]]) # {}}
            /\ UNCHANGED cursorVars
    /\ UNCHANGED <<task, poolVars, staged, copied>>

\* use_temp_tables: every pass is one statement against temporary ID tables.
TempPass ==
    /\ pc = "temps"
    /\ \E p \in passes :
          /\ Execute(UpstreamQuery(task, PassJoins(task, p), p, {}), TRUE)
          /\ passes' = passes \ {p}
    /\ UNCHANGED <<task, pc, cursorVars, poolVars>>

\* All ID sets are in memory and fit one statement.
ResidentPass ==
    /\ pc = "passes" /\ task.path = "upstream"
    /\ \E p \in passes :
          LET joins == PassJoins(task, p) IN
          /\ Streamable(task, p) = {}
          /\ \A k \in task.kcs : Cardinality(joins[k]) <= BatchSize
          /\ Execute(UpstreamQuery(task, joins, p, {}), TRUE)
          /\ passes' = passes \ {p}
    /\ UNCHANGED <<task, pc, cursorVars, poolVars>>

\* The largest set is cut into batches; the first of several when they tie.
BatchedPass ==
    /\ pc = "passes" /\ task.path = "upstream"
    /\ \E p \in passes :
          LET joins == PassJoins(task, p) IN
          /\ Streamable(task, p) = {}
          /\ \E k \in Largest(task.kcs, joins) :
                Cardinality(joins[k]) > BatchSize /\ batched' = k /\ unread' = joins[k]
          /\ pass' = p /\ first' = FALSE
          /\ passes' = passes \ {p}
    /\ pc' = "batches"
    /\ UNCHANGED <<task, poolVars, staged, copied>>

\* The largest set of its own is read through a cursor.
StreamedPass ==
    /\ pc = "passes" /\ task.path = "upstream"
    /\ \E p \in passes :
          /\ \E k \in Largest(Streamable(task, p), FullIds(task)) :
                batched' = k /\ unread' = FullIds(task)[k]
          /\ pass' = p /\ first' = TRUE
          /\ passes' = passes \ {p}
    /\ pc' = "batches"
    /\ UNCHANGED <<task, poolVars, staged, copied>>

\* The rows a batch of IDs selects.
BatchQuery(ids) ==
    IF task.path = "downstream" THEN DownstreamQuery(task, batched, ids)
    ELSE UpstreamQuery(task, [PassJoins(task, pass) EXCEPT ![batched] = Valid(ids)],
                       IF pass = NoPlan THEN batched ELSE pass, {})

\* Only an upstream cursor whose first fetch was short has shown that one
\* statement will do, and takes the row limit.
CopyBatch ==
    /\ pc = "batches" /\ unread # {}
    /\ \E ids \in Fetches(unread) :
          /\ unread' = unread \ ids /\ first' = FALSE
          /\ IF Valid(ids) = {} THEN UNCHANGED <<staged, copied>>
             ELSE Execute(BatchQuery(ids), /\ task.path = "upstream" /\ first
                                           /\ Cardinality(ids) < BatchSize)
    /\ UNCHANGED <<task, pc, passes, pass, batched, poolVars>>

EndBatches ==
    /\ pc = "batches" /\ unread = {}
    /\ IF task.path = "downstream" THEN UNCHANGED <<staged, copied>>
       ELSE Execute(NeutralRows(task, PassJoins(task, pass), batched, pass), FALSE)
    /\ pc' = "passes"
    /\ UNCHANGED <<task, passes, cursorVars, poolVars>>

EndPasses ==
    /\ pc \in {"passes", "temps"} /\ passes = {} /\ task.path = "upstream"
    /\ pc' = "done"
    /\ UNCHANGED <<task, passes, cursorVars, poolVars, staged, copied>>

----------------------------------------------------------------------------
(* Downstream: one column set after the other.                             *)

StartDownstream ==
    /\ pc = "start" /\ task.path = "downstream"
    /\ passes' = task.kcs /\ pc' = "passes"
    /\ UNCHANGED <<task, cursorVars, poolVars, staged, copied>>

\* The missing IDs go to a temporary table; what that table has is read in
\* batches, at once through a temporary table of the source, or fanned out.
ReadMissing ==
    /\ pc = "passes" /\ task.path = "downstream"
    /\ \E k \in passes :
          LET missing == MissingIds(task, k, Present) IN
          /\ passes' = passes \ {k}
          /\ pass' = NoPlan /\ batched' = k /\ first' = TRUE
          /\ IF task.temps
             THEN /\ Execute(DownstreamQuery(task, k, missing), FALSE)
                  /\ unread' = {} /\ UNCHANGED pc
             ELSE /\ unread' = missing /\ UNCHANGED <<staged, copied>>
                  /\ pc' = IF task.alone /\ task.pool > 0 /\ ~task.phased
                           THEN "connect" ELSE "batches"
    /\ UNCHANGED <<task, poolVars>>

EndDownstream ==
    /\ pc = "passes" /\ passes = {} /\ task.path = "downstream"
    /\ pc' = IF task.phased THEN "apply" ELSE "done"
    /\ UNCHANGED <<task, passes, cursorVars, poolVars, staged, copied>>

\* apply_staged: refreshes, then inserts, each identity once.
Apply ==
    /\ pc = "apply"
    /\ Store(staged) /\ staged' = {}
    /\ pc' = "done"
    /\ UNCHANGED <<task, passes, cursorVars, poolVars>>

----------------------------------------------------------------------------
(* The source pool.                                                        *)

\* A lone table's ID stream: nothing to do, IDs that fit one batch (then the
\* table itself is split), or batches to fan out.
FirstFetch ==
    /\ pc = "first"
    /\ \E ids \in Fetches(unread) :
          LET fits == Cardinality(ids) < BatchSize /\ ~task.composite IN
          IF ids = {} \/ (fits /\ Valid(ids) = {})
          THEN pc' = "done" /\ UNCHANGED <<task, passes, cursorVars, poolVars, staged, copied>>
          ELSE IF ~fits
          THEN pc' = "connect" /\ UNCHANGED <<task, passes, cursorVars, poolVars, staged, copied>>
          ELSE IF Splittable(task)
          THEN Split([i \in Pool |->
                  AndUnwrapped(InRanges(task, i)
                                 \cap {r \in task.rows : r[batched] \in Valid(ids)},
                               task.condition)])
          ELSE /\ Execute(BatchQuery(ids), FALSE)
               /\ pc' = "done"
               /\ UNCHANGED <<task, passes, cursorVars, poolVars>>

\* One destination connection for each connection of the pool.
Connect ==
    /\ pc = "connect"
    /\ open' = Pool /\ turn' = 1
    /\ pc' = "fan"
    /\ UNCHANGED <<task, passes, cursorVars, jobs, failed, staged, copied>>

\* A batch for the next connection of the round.
Submit ==
    /\ pc = "fan" /\ unread # {}
    /\ \E ids \in Fetches(unread) :
          /\ unread' = unread \ ids
          /\ jobs' = IF Valid(ids) = {} THEN jobs
                     ELSE [jobs EXCEPT ![turn] = Append(@, BatchQuery(ids))]
    /\ first' = FALSE /\ turn' = turn + 1
    /\ pc' = IF turn = task.pool THEN "drain" ELSE "fan"
    /\ UNCHANGED <<task, passes, pass, batched, open, failed, staged, copied>>

\* The cursor raises; the jobs of the round are waited for.
FetchFails ==
    /\ MayFail /\ pc = "fan"
    /\ failed' = TRUE /\ pc' = "drain"
    /\ UNCHANGED <<task, passes, cursorVars, turn, jobs, open, staged, copied>>

Exhausted ==
    /\ pc = "fan" /\ unread = {}
    /\ pc' = "drain"
    /\ UNCHANGED <<task, passes, cursorVars, poolVars, staged, copied>>

RunJob(i) ==
    /\ pc \in {"fan", "drain", "split"}
    /\ jobs[i] # <<>> /\ i \in open
    /\ Store(Head(jobs[i]))
    /\ jobs' = [jobs EXCEPT ![i] = Tail(@)]
    /\ open' = IF pc = "split" THEN open \ {i} ELSE open
    /\ UNCHANGED <<task, pc, passes, cursorVars, turn, failed, staged>>

\* The statement raises, or a page-range worker cannot connect.
JobFails(i) ==
    /\ MayFail /\ pc \in {"fan", "drain", "split"}
    /\ jobs[i] # <<>> /\ (i \in open \/ pc = "split")
    /\ failed' = TRUE
    /\ jobs' = [jobs EXCEPT ![i] = Tail(@)]
    /\ open' = IF pc = "split" THEN open \ {i} ELSE open
    /\ UNCHANGED <<task, pc, passes, cursorVars, turn, staged, copied>>

\* A page-range worker opens its destination connection.
WorkerConnects(i) ==
    /\ pc = "split" /\ jobs[i] # <<>> /\ i \notin open
    /\ open' = open \cup {i}
    /\ UNCHANGED <<task, pc, passes, cursorVars, turn, jobs, failed, staged, copied>>

Idle == \A i \in Pool : jobs[i] = <<>>

\* Mutants: nobody waits for the round; its connections are used up; the loop
\* has no end; the connections are closed first.
NextRoundAtOnce ==
    /\ pc = "drain" /\ ~failed /\ unread # {}
    /\ turn' = 1 /\ pc' = "fan"
    /\ UNCHANGED <<task, passes, cursorVars, jobs, open, failed, staged, copied>>
NextRoundUsedUp ==
    /\ pc = "drain" /\ Idle /\ ~failed /\ unread # {}
    /\ pc' = "fan"
    /\ UNCHANGED <<task, passes, cursorVars, poolVars, staged, copied>>
NextRoundNoEnd ==
    /\ pc = "drain" /\ Idle /\ ~failed
    /\ turn' = 1 /\ pc' = "fan"
    /\ UNCHANGED <<task, passes, cursorVars, jobs, open, failed, staged, copied>>
EndFanAtOnce ==
    /\ pc = "drain" /\ (failed \/ unread = {})
    /\ open' = {}
    /\ pc' = IF failed THEN "failed" ELSE IF task.path = "downstream" THEN "passes" ELSE "done"
    /\ UNCHANGED <<task, passes, cursorVars, turn, jobs, failed, staged, copied>>

NextRound ==
    /\ pc = "drain" /\ Idle /\ ~failed /\ unread # {}
    /\ turn' = 1 /\ pc' = "fan"
    /\ UNCHANGED <<task, passes, cursorVars, jobs, open, failed, staged, copied>>

\* The cursor has nothing left, or a future has raised: either way the pool is
\* joined before the connections are closed.
EndFan ==
    /\ pc = "drain" /\ Idle /\ (failed \/ unread = {})
    /\ open' = {}
    /\ pc' = IF failed THEN "failed"
             ELSE IF task.path = "downstream" THEN "passes" ELSE "done"
    /\ UNCHANGED <<task, passes, cursorVars, turn, jobs, failed, staged, copied>>

EndSplit ==
    /\ pc = "split" /\ Idle
    /\ pc' = IF failed THEN "failed" ELSE "done"
    /\ UNCHANGED <<task, passes, cursorVars, poolVars, staged, copied>>

----------------------------------------------------------------------------
Init ==
    /\ task \in Layouts
    /\ pc = "start" /\ passes = {} /\ pass = NoPlan /\ batched = NoPlan /\ unread = {}
    /\ first = TRUE /\ turn = 1
    /\ jobs = [i \in Pool |-> <<>>] /\ open = {} /\ failed = FALSE
    /\ staged = {} /\ copied = [r \in task.rows |-> 0]

MainStep ==
    \/ CopyTarget \/ CopyWhole
    \/ StartUpstream \/ TempPass \/ ResidentPass \/ BatchedPass \/ StreamedPass
    \/ CopyBatch \/ EndBatches \/ EndPasses
    \/ StartDownstream \/ ReadMissing \/ EndDownstream \/ Apply
    \/ FirstFetch \/ Connect \/ Submit \/ Exhausted \/ NextRound \/ EndFan \/ EndSplit

Over == pc \in {"done", "failed"} /\ UNCHANGED vars

Next ==
    \/ MainStep \/ StatementFails \/ FetchFails
    \/ \E i \in Pool : WorkerConnects(i) \/ RunJob(i) \/ JobFails(i)
    \/ Over

Spec == Init /\ [][Next]_vars

\* The main thread and the pool's threads, one per connection, keep running.
FairSpec ==
    /\ Spec /\ WF_vars(MainStep)
    /\ WF_vars(\E i \in Pool : WorkerConnects(i) \/ RunJob(i))

----------------------------------------------------------------------------
(* Properties.                                                             *)

\* The type of every variable but the task, which no step changes.
TypeOK ==
    /\ pc \in Places
    /\ passes \subseteq task.kcs \cup {NoPlan}
    /\ pass \in task.kcs \cup {NoPlan} /\ batched \in task.kcs \cup {NoPlan}
    /\ batched # NoPlan => unread \subseteq task.ids[task.group[batched]]
    /\ first \in BOOLEAN /\ failed \in BOOLEAN
    /\ turn \in 1 .. task.pool + 1 /\ open \subseteq Pool
    /\ jobs \in [Pool -> Seq(SUBSET task.rows)]
    /\ staged \subseteq task.rows /\ copied \in [task.rows -> Nat]

\* A recreate run loads without unique indexes: nothing but the way the table
\* is cut into passes, batches, neutral rows, page ranges and column sets
\* keeps a row from being copied twice.
CopiedOnce == ~task.upsert => \A r \in task.rows : copied[r] <= 1

\* A connection serves one statement at a time, whatever fails meanwhile.
OneJobPerConnection == \A i \in Pool : Len(jobs[i]) <= 1

\* A destination connection of a fan-out is not closed under a running batch.
OpenWhileInUse == pc # "split" => \A i \in Pool : jobs[i] # <<>> => i \in open

\* The copy returns or raises.
CopyTableEnds == <>(pc \in {"done", "failed"})

\* The copy as the run sees it.
Table == INSTANCE TableMerge WITH
            Absent <- "absent",
            wanted <- [r \in task.rows |-> IF r \in Wanted(task) THEN "there" ELSE "absent"],
            enough <- Enough(task),
            dest <- [r \in task.rows |-> IF r \in Present THEN "there" ELSE "absent"],
            outcome <- CASE pc = "done" -> "merged" [] pc = "failed" -> "failed"
                         [] OTHER -> "running"

\* Whatever the path, the batches, passes and ranges add up to the rows the
\* task is for: nothing else is ever copied, and a copy that succeeds has them
\* all, or as many as the row limit asks for. So the traversal may take the
\* copy of a table for a choice of rows written one after the other.
MergesTable == Table!MergeSpec

----------------------------------------------------------------------------
(* What the documentation and a test say and the code does not do.         *)

\* CONFIG.md, on pre_filters: the cached results "are applied as AND <column> =
\* ANY(<cached values>) to the target's query"; and the upstream filters narrow
\* what the parents select. A condition narrows the copy, OR or not.
ConditionsNarrow == \A r \in Present : r \in Wanted(task)
=============================================================================
