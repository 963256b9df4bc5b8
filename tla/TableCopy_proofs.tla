-------------------------- MODULE TableCopy_proofs --------------------------
(***************************************************************************)
(* The copy of one table, for any rows, IDs, batch size and pool: what the *)
(* fan-out over the pool may rely on; that no path copies a row it should  *)
(* not, a row twice where no index would stop it, or ends without all of   *)
(* the rows; hence that the copy implements TableMerge. All this as long   *)
(* as no condition has an OR and no pre_filter came back empty.            *)
(*                                                                         *)
(* FanInv says which connections may have a job, CursorInv what the batch  *)
(* cursor reads and which passes are still to come. With these, every      *)
(* statement is a case of SelectsWanted (SoundInv). OnceInv keeps what is  *)
(* still to be read or written apart from what is there, and CoverInv says *)
(* where a row that is still missing may be: in a job, in the staging      *)
(* table, under the cursor or in a pass to come.                           *)
(*                                                                         *)
(* At last, that the copy cannot get stuck or go on for ever: every pass   *)
(* has a way to be read, and every step leaves less to do.                 *)
(***************************************************************************)
EXTENDS TableCopy, SequenceTheorems, FiniteSetTheorems, WellFoundedInduction, TLAPS

Fanning == {"fan", "drain"}
Reading == {"batches", "first", "connect"} \cup Fanning

\* Only jobs of the current round, one per connection, and all of them open.
FanInv ==
    /\ pc \notin Fanning \cup {"split"} => \A i \in Pool : jobs[i] = <<>>
    /\ OneJobPerConnection
    /\ pc = "fan" => turn <= task.pool /\ \A i \in turn .. task.pool : jobs[i] = <<>>
    /\ pc \in Fanning => open = Pool
    /\ pc \in Fanning \cup {"first", "connect"} => task.pool > 0

\* The IDs that the cursor reads drive the pass they belong to.
CursorInv ==
    /\ task \in Layouts
    /\ task.path = "upstream" => passes \subseteq Passes(task)
    /\ pc \in {"temps", "first"} => task.path = "upstream"
    /\ task.path = "downstream" => NoPlan \notin passes
    /\ pc = "first" => task.kcs = {batched} /\ pass = NoPlan
    /\ pc \in Reading =>
          /\ batched \in task.kcs /\ task.path \in {"upstream", "downstream"}
          /\ task.path = "upstream" =>
                /\ pass # NoPlan => pass \in Passes(task)
                /\ task.fresh # NoPlan =>
                      /\ pass = NoPlan => task.kcs = {batched}
                      /\ pass \in {NoPlan, batched} =>
                            /\ task.group[batched] \in DOMAIN task.fresh
                            /\ unread \subseteq task.fresh[task.group[batched]]

----------------------------------------------------------------------------
(* Statements.                                                             *)

\* What storing a statement's rows does to the destination.
LEMMA StoreAdds ==
    ASSUME TypeOK, NEW S \in SUBSET task.rows, Store(S), task' = task
    PROVE  copied' \in [task.rows -> Nat] /\ Present' \subseteq Present \cup S
BY DEF TypeOK, Store, Present

\* A statement adds rows it selects to the destination or the staging table.
LEMMA ExecuteAdds ==
    ASSUME TypeOK, NEW S \in SUBSET task.rows, NEW single \in BOOLEAN,
           Execute(S, single), task' = task
    PROVE  /\ copied' \in [task.rows -> Nat] /\ Present' \subseteq Present \cup S
           /\ staged' \subseteq staged \cup S
<1>1. PICK T \in Limited(S, single) :
        IF task.phased THEN staged' = staged \cup T /\ UNCHANGED copied
                       ELSE Store(T) /\ UNCHANGED staged
  BY DEF Execute
<1>2. T \in SUBSET S
  BY DEF Limited, kSubset
<1>3. CASE task.phased
  BY <1>1, <1>2, <1>3 DEF TypeOK, Present
<1>4. CASE ~task.phased
  BY <1>1, <1>2, <1>4, StoreAdds
<1>. QED
  BY <1>3, <1>4

\* The parts of a sequence have its elements.
LEMMA PartsOfSeq ==
    ASSUME NEW S, NEW c \in Seq(S), c # <<>>
    PROVE  /\ Head(c) \in S /\ Tail(c) \in Seq(S)
           /\ Last(c) \in S /\ Front(c) \in Seq(S)
<1>1. Len(c) \in Nat \ {0} /\ c = [i \in 1 .. Len(c) |-> c[i]]
  BY EmptySeq, LenProperties
<1>2. Head(c) \in S /\ Tail(c) \in Seq(S)
  BY HeadTailProperties
<1>3. c[Len(c)] \in S
  BY <1>1, ElementOfSeq
<1>4. SubSeq(c, 1, Len(c) - 1) \in Seq(S)
  BY <1>1
<1>. QED
  BY <1>2, <1>3, <1>4 DEF Last, Front

\* The alternatives of a condition are sets of rows.
LEMMA ConditionRows ==
    ASSUME NEW t \in Layouts
    PROVE  /\ Either(t.condition) \subseteq t.rows
           /\ \A S : /\ AndUnwrapped(S, t.condition) \subseteq t.rows
                     /\ UnwrappedAnd(t.condition, S) \subseteq t.rows
<1>. DEFINE c == t.condition
<1>1. c \in Seq(SUBSET t.rows) /\ c # <<>>
  BY LayoutAssumption
<1>. HIDE DEF c
<1>2. /\ Head(c) \in SUBSET t.rows /\ Tail(c) \in Seq(SUBSET t.rows)
      /\ Last(c) \in SUBSET t.rows /\ Front(c) \in Seq(SUBSET t.rows)
  BY <1>1, PartsOfSeq
<1>4. \A d \in Seq(SUBSET t.rows) : Either(d) \subseteq t.rows
  BY DEF Either, ToSet
<1>5. Either(c) \subseteq t.rows
  BY <1>1, <1>4
<1>6. \A S : AndUnwrapped(S, c) \subseteq t.rows /\ UnwrappedAnd(c, S) \subseteq t.rows
  BY <1>2, <1>4 DEF AndUnwrapped, UnwrappedAnd
<1>. QED
  BY <1>5, <1>6 DEF c

\* A condition without an OR.
LEMMA PlainCondition ==
    ASSUME NEW t \in Layouts, Len(t.condition) = 1, NEW S
    PROVE  /\ AndUnwrapped(S, t.condition) = S \cap Either(t.condition)
           /\ UnwrappedAnd(t.condition, S) = S \cap Either(t.condition)
<1>. DEFINE c == t.condition
<1>1. c \in Seq(SUBSET t.rows) /\ Len(c) = 1
  BY LayoutAssumption
<1>2. Either(c) = c[1] /\ Head(c) = c[1] /\ Last(c) = c[1]
  BY <1>1 DEF Either, ToSet, Last
<1>3. Either(Tail(c)) = {} /\ Either(Front(c)) = {}
  BY <1>1 DEF Either, ToSet, Front
<1>. QED
  BY <1>2, <1>3 DEF AndUnwrapped, UnwrappedAnd

\* The upstream statement: its joins are with IDs the destination has, and what
\* it requires is new where a delta plan says so.
LEMMA SelectsWanted ==
    ASSUME NEW t \in Layouts, t.path = "upstream",
           NEW joins, NEW required, NEW nulls,
           DOMAIN joins \subseteq t.kcs, t.kcs \subseteq DOMAIN joins \cup nulls,
           \A k \in DOMAIN joins : joins[k] \subseteq Valid(t.ids[t.group[k]]),
           t.fresh # NoPlan =>
              \/ DOMAIN joins = {}
              \/ /\ required # NoPlan /\ t.group[required] \in DOMAIN t.fresh
                 /\ required \in DOMAIN joins =>
                        joins[required] \subseteq t.fresh[t.group[required]]
    PROVE  UpstreamQuery(t, joins, required, nulls) \subseteq Wanted(t)
<1>. SUFFICES ASSUME NEW r \in UpstreamQuery(t, joins, required, nulls)
              PROVE  r \in WantedUpstream(t)
  BY DEF Wanted
<1>1. r \in t.rows \cap Either(t.condition)
  BY DEF UpstreamQuery
<1>2. \A k \in t.kcs : r[k] \in Nulls \/ r[k] \in t.ids[t.group[k]]
  BY DEF UpstreamQuery, Matches, Valid
<1>3. PICK k \in DOMAIN joins : (k = required \/ required = NoPlan) /\ r[k] \in joins[k]
  BY DEF UpstreamQuery, Matches
<1>4. k \in t.kcs /\ r[k] \notin Nulls /\ r[k] \in t.ids[t.group[k]]
  BY <1>3 DEF Valid
<1>5. t.fresh # NoPlan => t.group[k] \in DOMAIN t.fresh /\ r[k] \in t.fresh[t.group[k]]
  BY <1>3
<1>. QED
  BY <1>1, <1>2, <1>4, <1>5 DEF WantedUpstream

----------------------------------------------------------------------------
(* Passes and cursors.                                                     *)

\* The passes are driven by constraints of the table, and what a pass joins is
\* in the destination.
LEMMA PassesJoinIds ==
    ASSUME NEW t \in Layouts
    PROVE  /\ Passes(t) \subseteq t.kcs \cup {NoPlan}
           /\ \A p \in Passes(t) : /\ p = NoPlan <=> t.fresh = NoPlan
                                   /\ p # NoPlan => t.group[p] \in DOMAIN t.fresh
           /\ \A p \in Passes(t) \cup {NoPlan} : \A k \in t.kcs :
                 PassJoins(t, p)[k] \subseteq Valid(t.ids[t.group[k]])
<1>1. NoPlan \notin t.kcs
  BY LayoutAssumption
<1>2. \A g \in Groups(t) : t.fresh # NoPlan /\ g \in DOMAIN t.fresh =>
            t.fresh[g] \subseteq t.ids[g]
  BY LayoutAssumption
<1>3. \A p \in Passes(t) : p # NoPlan =>
            t.fresh # NoPlan /\ p \in t.kcs /\ t.group[p] \in DOMAIN t.fresh
  BY DEF Passes
<1>4. \A p \in Passes(t) : p # NoPlan => t.fresh[t.group[p]] \subseteq t.ids[t.group[p]]
  BY <1>2, <1>3 DEF Groups
<1>5. \A p \in Passes(t) \cup {NoPlan} : \A k \in t.kcs :
            PassJoins(t, p)[k] \subseteq Valid(t.ids[t.group[k]])
  BY <1>1, <1>4 DEF PassJoins, Valid
<1>. QED
  BY <1>1, <1>3, <1>5 DEF Passes

\* A table with one constraint has that one.
LEMMA OneConstraint ==
    ASSUME task \in Layouts, Cardinality(task.kcs) = 1
    PROVE  task.kcs = {Constraint}
<1>1. IsFiniteSet(task.kcs)
  BY LayoutAssumption
<1>2. \E k : task.kcs = {k}
  BY <1>1, FS_Singleton
<1>. QED
  BY <1>2 DEF Constraint

\* What StartUpstream may rely on when the table has a single constraint.
LEMMA OneDriver ==
    ASSUME task \in Layouts, ~NothingNew(task), task.kcs = {Constraint},
           task.fresh # NoPlan
    PROVE  /\ task.group[Constraint] \in DOMAIN task.fresh
           /\ task.fresh[task.group[Constraint]] \subseteq task.ids[task.group[Constraint]]
<1>1. DOMAIN task.fresh # {} /\ DOMAIN task.fresh \subseteq Groups(task)
  BY LayoutAssumption DEF NothingNew
<1>2. Groups(task) = {task.group[Constraint]}
  BY DEF Groups
<1>3. task.group[Constraint] \in DOMAIN task.fresh
  BY <1>1, <1>2
<1>. QED
  BY <1>3, LayoutAssumption

\* Statements select rows of the table.
LEMMA QueriesSelectRows ==
    ASSUME NEW t \in Layouts
    PROVE  /\ \A joins, required, nulls : UpstreamQuery(t, joins, required, nulls) \subseteq t.rows
           /\ \A k, ids : DownstreamQuery(t, k, ids) \subseteq t.rows
           /\ \A joins, b, p : NeutralRows(t, joins, b, p) \subseteq t.rows
           /\ DirectQuery(t) \subseteq t.rows /\ DirectSplitQuery(t) \subseteq t.rows
<1>1. \A joins, required, nulls : UpstreamQuery(t, joins, required, nulls) \subseteq t.rows
  BY DEF UpstreamQuery
<1>2. \A k, ids : DownstreamQuery(t, k, ids) \subseteq t.rows
  BY DEF DownstreamQuery
<1>3. \A joins, b, p : NeutralRows(t, joins, b, p) \subseteq t.rows
  BY <1>1 DEF NeutralRows
<1>4. DirectSplitQuery(t) \subseteq t.rows
  BY ConditionRows DEF DirectSplitQuery
<1>5. DirectQuery(t) \subseteq t.rows
  BY ConditionRows DEF DirectQuery
<1>. QED
  BY <1>1, <1>2, <1>3, <1>4, <1>5

\* So does every batch, whatever its IDs.
LEMMA BatchesSelectRows ==
    ASSUME task \in Layouts, NEW ids
    PROVE  BatchQuery(ids) \in SUBSET task.rows
BY QueriesSelectRows DEF BatchQuery

\* No step is about another task, and none takes rows from the destination.
LEMMA StepsStore ==
    ASSUME [Next]_vars
    PROVE  task' = task /\ (copied' = copied \/ \E S : Store(S))
<1>1. ASSUME NEW S, NEW single, Execute(S, single)
      PROVE  copied' = copied \/ \E T : Store(T)
  BY <1>1 DEF Execute
<1>2. ASSUME NEW i \in Pool, WorkerConnects(i) \/ RunJob(i) \/ JobFails(i)
      PROVE  task' = task /\ (copied' = copied \/ \E S : Store(S))
  BY <1>2 DEF WorkerConnects, RunJob, JobFails
<1>3. CASE MainStep
  <2>1. CASE CopyTarget \/ CopyWhole \/ TempPass \/ ResidentPass \/ CopyBatch \/ EndBatches
             \/ ReadMissing \/ FirstFetch
    BY <1>1, <2>1 DEF CopyTarget, CopyWhole, Split, TempPass, ResidentPass, CopyBatch,
                      EndBatches, ReadMissing, FirstFetch
  <2>2. CASE \/ StartUpstream \/ BatchedPass \/ StreamedPass \/ EndPasses \/ StartDownstream
             \/ EndDownstream \/ Connect \/ Submit \/ Exhausted \/ NextRound \/ EndFan
             \/ EndSplit
    BY <2>2 DEF StartUpstream, BatchedPass, StreamedPass, EndPasses, StartDownstream,
                EndDownstream, Connect, Submit, Exhausted, NextRound, EndFan, EndSplit
  <2>3. CASE Apply
    BY <2>3 DEF Apply
  <2>. QED
    BY <1>3, <2>1, <2>2, <2>3 DEF MainStep
<1>4. CASE StatementFails \/ FetchFails \/ Over \/ UNCHANGED vars
  BY <1>4 DEF StatementFails, FetchFails, Over, vars
<1>. QED
  BY <1>2, <1>3, <1>4 DEF Next

----------------------------------------------------------------------------
(* Type correctness.                                                       *)

\* The initial states are of the type.
LEMMA TypeInit == Init => TypeOK /\ task \in Layouts
<1>. SUFFICES ASSUME Init PROVE TypeOK
  BY DEF Init
<1>1. task.pool \in Nat
  BY LayoutAssumption DEF Init
<1>2. jobs \in [Pool -> Seq(SUBSET task.rows)]
  BY DEF Init
<1>3. turn \in 1 .. task.pool + 1
  BY <1>1 DEF Init
<1>. QED
  BY <1>2, <1>3 DEF Init, TypeOK, Places

\* A split hands out page ranges of rows of the table.
LEMMA SplitType ==
    ASSUME TypeOK, NEW query, Split(query), \A i \in Pool : query[i] \subseteq task.rows
    PROVE  TypeOK'
<1>1. ASSUME NEW i \in Pool PROVE <<query[i]>> \in Seq(SUBSET task.rows)
  <2>1. query[i] \in SUBSET task.rows
    OBVIOUS
  <2>. QED
    BY <2>1
<1>2. jobs' \in [Pool -> Seq(SUBSET task.rows)]
  BY <1>1 DEF Split
<1>. QED
  BY <1>2 DEF TypeOK, Split, cursorVars, Places, Pool

\* Steps that only move the main thread.
LEMMA MoveType ==
    ASSUME TypeOK, UNCHANGED <<task, passes, cursorVars, turn, jobs, staged, copied>>,
           pc' \in Places, failed' \in BOOLEAN, open' \in SUBSET Pool
    PROVE  TypeOK'
BY DEF TypeOK, cursorVars, Pool

\* Steps of the main thread that run one statement.
LEMMA StatementType ==
    ASSUME TypeOK, NEW S \in SUBSET task.rows, NEW single \in BOOLEAN, Execute(S, single),
           UNCHANGED <<task, batched, poolVars>>, pc' \in Places,
           passes' \subseteq passes, pass' \in task.kcs \cup {NoPlan},
           unread' \subseteq unread, first' \in BOOLEAN
    PROVE  TypeOK'
<1>1. copied' \in [task.rows -> Nat] /\ staged' \subseteq task.rows
  BY ExecuteAdds DEF TypeOK
<1>. QED
  BY <1>1 DEF TypeOK, poolVars, Pool

\* Every step keeps the type.
LEMMA TypeStep == TypeOK /\ FanInv /\ CursorInv /\ [Next]_vars => TypeOK'
<1>. SUFFICES ASSUME TypeOK, FanInv, CursorInv, [Next]_vars PROVE TypeOK'
  OBVIOUS
<1>a. task \in Layouts /\ task.pool \in Nat /\ NoPlan \notin task.kcs
  BY LayoutAssumption DEF CursorInv
<1>b. pc \in Places /\ open \in SUBSET Pool /\ failed \in BOOLEAN /\ TRUE \in BOOLEAN
      /\ FALSE \in BOOLEAN /\ passes \subseteq passes /\ unread \subseteq unread
      /\ pass \in task.kcs \cup {NoPlan} /\ first \in BOOLEAN
  BY DEF TypeOK
<1>1. CASE CopyTarget
  <2>1. CASE Splittable(task)
    <3>1. Split([i \in Pool |-> InRanges(task, i) \cap DirectSplitQuery(task)])
      BY <1>1, <2>1 DEF CopyTarget
    <3>. QED
      BY <1>a, <3>1, SplitType, QueriesSelectRows
  <2>2. CASE ~Splittable(task)
    BY <1>1, <1>a, <1>b, <2>2, StatementType, QueriesSelectRows
    DEF CopyTarget, cursorVars, Places
  <2>. QED
    BY <2>1, <2>2
<1>2. CASE CopyWhole
  <2>1. CASE Splittable(task) /\ task.limit = Unlimited
    <3>1. Split([i \in Pool |-> InRanges(task, i)])
      BY <1>2, <2>1 DEF CopyWhole
    <3>. QED
      BY <3>1, SplitType DEF InRanges
  <2>2. CASE ~(Splittable(task) /\ task.limit = Unlimited)
    BY <1>2, <1>b, <2>2, StatementType DEF CopyWhole, cursorVars, Places
  <2>. QED
    BY <2>1, <2>2
<1>3. CASE StartUpstream
  <2>1. CASE pc' \notin {"first", "batches"}
    <3>1. passes' \subseteq task.kcs \cup {NoPlan}
      BY <1>3, <1>a, <2>1, PassesJoinIds DEF StartUpstream, TypeOK
    <3>. QED
      BY <1>3, <2>1, <3>1 DEF StartUpstream, TypeOK, cursorVars, poolVars, Places, Pool
  <2>2. CASE pc' \in {"first", "batches"}
    <3>1. ~NothingNew(task) /\ Cardinality(task.kcs) = 1
      BY <1>3, <2>2 DEF StartUpstream
    <3>2. task.kcs = {Constraint}
      BY <1>a, <3>1, OneConstraint
    <3>3. pass' = NoPlan /\ batched' = Constraint /\ first' = TRUE /\ UNCHANGED passes
      BY <1>3, <2>2 DEF StartUpstream
    <3>4. unread' \subseteq task.ids[task.group[Constraint]]
      BY <1>3, <1>a, <2>2, <3>1, <3>2, OneDriver DEF StartUpstream
    <3>. QED
      BY <1>3, <2>2, <3>2, <3>3, <3>4 DEF StartUpstream, TypeOK, poolVars, Places, Pool
  <2>. QED
    BY <2>1, <2>2
<1>4. CASE TempPass
  BY <1>4, <1>a, <1>b, StatementType, QueriesSelectRows DEF TempPass, cursorVars
<1>5. CASE ResidentPass
  BY <1>5, <1>a, <1>b, StatementType, QueriesSelectRows DEF ResidentPass, cursorVars
<1>6. CASE BatchedPass
  <2>1. PICK p \in passes : \E k \in Largest(task.kcs, PassJoins(task, p)) :
          batched' = k /\ unread' = PassJoins(task, p)[k] /\ pass' = p
    BY <1>6 DEF BatchedPass
  <2>2. PICK k \in Largest(task.kcs, PassJoins(task, p)) :
          batched' = k /\ unread' = PassJoins(task, p)[k]
    BY <2>1
  <2>3. k \in task.kcs /\ p \in Passes(task)
    BY <1>6, <2>2 DEF Largest, CursorInv, BatchedPass
  <2>4. unread' \subseteq task.ids[task.group[k]]
    BY <1>a, <2>2, <2>3, PassesJoinIds DEF Valid
  <2>. QED
    BY <1>6, <1>a, <2>1, <2>2, <2>3, <2>4, PassesJoinIds
    DEF BatchedPass, TypeOK, poolVars, Places, Pool
<1>7. CASE StreamedPass
  <2>1. PICK p \in passes : \E k \in Largest(Streamable(task, p), FullIds(task)) :
          batched' = k /\ unread' = FullIds(task)[k] /\ pass' = p
    BY <1>7 DEF StreamedPass
  <2>2. PICK k \in Largest(Streamable(task, p), FullIds(task)) :
          batched' = k /\ unread' = FullIds(task)[k]
    BY <2>1
  <2>3. k \in task.kcs /\ p \in task.kcs \cup {NoPlan}
    BY <2>2 DEF Largest, Streamable, TypeOK
  <2>. QED
    BY <1>7, <2>1, <2>2, <2>3 DEF StreamedPass, TypeOK, poolVars, Places, Pool, FullIds
<1>8. CASE CopyBatch
  <2>1. PICK ids \in Fetches(unread) :
          /\ unread' = unread \ ids /\ first' = FALSE
          /\ IF Valid(ids) = {} THEN UNCHANGED <<staged, copied>>
             ELSE Execute(BatchQuery(ids), task.path = "upstream" /\ first
                                          /\ Cardinality(ids) < BatchSize)
    BY <1>8 DEF CopyBatch
  <2>2. CASE Valid(ids) = {}
    BY <1>8, <2>1, <2>2 DEF CopyBatch, TypeOK, poolVars, Pool
  <2>3. CASE Valid(ids) # {}
    <3>. DEFINE single == task.path = "upstream" /\ first /\ Cardinality(ids) < BatchSize
    <3>1. Execute(BatchQuery(ids), single) /\ single \in BOOLEAN
      BY <2>1, <2>3
    <3>. HIDE DEF single
    <3>2. unread' \subseteq unread /\ first' \in BOOLEAN
      BY <2>1
    <3>. QED
      BY <1>8, <1>a, <1>b, <3>1, <3>2, BatchesSelectRows, StatementType DEF CopyBatch
  <2>. QED
    BY <2>2, <2>3
<1>9. CASE EndBatches
  <2>1. CASE task.path = "downstream"
    BY <1>9, <2>1 DEF EndBatches, TypeOK, cursorVars, poolVars, Places, Pool
  <2>2. CASE task.path # "downstream"
    <3>. DEFINE S == NeutralRows(task, PassJoins(task, pass), batched, pass)
    <3>1. Execute(S, FALSE) /\ S \in SUBSET task.rows
      BY <1>9, <1>a, <2>2, QueriesSelectRows DEF EndBatches
    <3>. QED
      BY <1>9, <1>b, <3>1, StatementType DEF EndBatches, cursorVars, Places
  <2>. QED
    BY <2>1, <2>2
<1>10. CASE EndPasses \/ EndDownstream \/ Exhausted \/ EndFan \/ EndSplit \/ StatementFails
              \/ FetchFails \/ \E i \in Pool : WorkerConnects(i)
  BY <1>10, <1>b, MoveType
  DEF EndPasses, EndDownstream, Exhausted, EndFan, EndSplit, StatementFails, FetchFails,
      WorkerConnects, cursorVars, poolVars, Places
<1>11. CASE StartDownstream
  BY <1>11 DEF StartDownstream, TypeOK, cursorVars, poolVars, Places, Pool
<1>12. CASE ReadMissing
  <2>1. PICK k \in passes :
          /\ passes' = passes \ {k}
          /\ pass' = NoPlan /\ batched' = k /\ first' = TRUE
          /\ IF task.temps
             THEN /\ Execute(DownstreamQuery(task, k, MissingIds(task, k, Present)), FALSE)
                  /\ unread' = {} /\ UNCHANGED pc
             ELSE /\ unread' = MissingIds(task, k, Present) /\ UNCHANGED <<staged, copied>>
                  /\ pc' = IF task.alone /\ task.pool > 0 /\ ~task.phased
                           THEN "connect" ELSE "batches"
    BY <1>12 DEF ReadMissing
  <2>2. unread' # {} => unread' \subseteq task.ids[task.group[k]]
    BY <2>1 DEF MissingIds
  <2>3. copied' \in [task.rows -> Nat] /\ staged' \subseteq task.rows
    <3>1. CASE task.temps
      <4>1. Execute(DownstreamQuery(task, k, MissingIds(task, k, Present)), FALSE)
        BY <2>1, <3>1
      <4>2. DownstreamQuery(task, k, MissingIds(task, k, Present)) \in SUBSET task.rows
        BY <1>a, QueriesSelectRows
      <4>3. task' = task
        BY <1>12 DEF ReadMissing
      <4>. QED
        BY <4>1, <4>2, <4>3, ExecuteAdds DEF TypeOK
    <3>2. CASE ~task.temps
      BY <2>1, <3>2 DEF TypeOK
    <3>. QED
      BY <3>1, <3>2
  <2>4. pc' \in Places
    BY <2>1 DEF TypeOK, Places
  <2>. QED
    BY <1>12, <2>1, <2>2, <2>3, <2>4 DEF ReadMissing, TypeOK, poolVars, Pool
<1>13. CASE Apply
  <2>1. copied' \in [task.rows -> Nat]
    BY <1>13, StoreAdds DEF Apply, TypeOK
  <2>. QED
    BY <1>13, <2>1 DEF Apply, TypeOK, cursorVars, poolVars, Places, Pool
<1>14. CASE FirstFetch
  <2>1. PICK ids \in Fetches(unread) :
          \/ pc' \in {"done", "connect"}
             /\ UNCHANGED <<task, passes, cursorVars, poolVars, staged, copied>>
          \/ Split([i \in Pool |->
                  AndUnwrapped(InRanges(task, i)
                                 \cap {r \in task.rows : r[batched] \in Valid(ids)},
                               task.condition)])
          \/ /\ Execute(BatchQuery(ids), FALSE)
             /\ pc' = "done"
             /\ UNCHANGED <<task, passes, cursorVars, poolVars>>
    BY <1>14 DEF FirstFetch
  <2>2. CASE pc' \in {"done", "connect"}
             /\ UNCHANGED <<task, passes, cursorVars, poolVars, staged, copied>>
    BY <2>2, <1>b, MoveType DEF poolVars, Places
  <2>3. CASE Split([i \in Pool |->
                  AndUnwrapped(InRanges(task, i)
                                 \cap {r \in task.rows : r[batched] \in Valid(ids)},
                               task.condition)])
    BY <2>3, <1>a, SplitType, ConditionRows
  <2>4. CASE /\ Execute(BatchQuery(ids), FALSE)
             /\ pc' = "done"
             /\ UNCHANGED <<task, passes, cursorVars, poolVars>>
    BY <2>4, <1>a, <1>b, BatchesSelectRows, StatementType DEF cursorVars, Places
  <2>. QED
    BY <2>1, <2>2, <2>3, <2>4
<1>15. CASE Connect
  BY <1>15, <1>a DEF Connect, TypeOK, cursorVars, Places, Pool
<1>16. CASE Submit
  <2>1. PICK ids \in Fetches(unread) :
          /\ unread' = unread \ ids
          /\ jobs' = IF Valid(ids) = {} THEN jobs
                     ELSE [jobs EXCEPT ![turn] = Append(@, BatchQuery(ids))]
    BY <1>16 DEF Submit
  <2>2. BatchQuery(ids) \in SUBSET task.rows
    BY <1>a, BatchesSelectRows
  <2>3. turn \in Pool
    BY <1>16, <1>a DEF Submit, FanInv, TypeOK, Pool
  <2>4. jobs' \in [Pool -> Seq(SUBSET task.rows)]
    BY <2>1, <2>2, <2>3 DEF TypeOK
  <2>. QED
    <3>1. turn + 1 \in 1 .. task.pool + 1
      BY <1>a, <2>3 DEF Pool
    <3>2. pc' \in Places /\ task' = task
      BY <1>16 DEF Submit, Places
    <3>3. UNCHANGED <<passes, pass, batched, open, failed, staged, copied>>
          /\ first' = FALSE /\ turn' = turn + 1
      BY <1>16 DEF Submit
    <3>. QED
      BY <2>1, <2>4, <3>1, <3>2, <3>3 DEF TypeOK, Pool
<1>17. CASE NextRound
  BY <1>17, <1>a DEF NextRound, TypeOK, cursorVars, Places, Pool
<1>18. ASSUME NEW i \in Pool, RunJob(i) \/ JobFails(i) PROVE TypeOK'
  <2>1. jobs[i] \in Seq(SUBSET task.rows) /\ jobs[i] # <<>>
    BY <1>18 DEF TypeOK, RunJob, JobFails
  <2>2. Head(jobs[i]) \in SUBSET task.rows /\ Tail(jobs[i]) \in Seq(SUBSET task.rows)
    BY <2>1, HeadTailProperties
  <2>3. jobs' \in [Pool -> Seq(SUBSET task.rows)]
    BY <1>18, <2>2 DEF TypeOK, RunJob, JobFails
  <2>4. copied' \in [task.rows -> Nat]
    BY <1>18, <2>2, StoreAdds DEF TypeOK, RunJob, JobFails
  <2>5. open' \in SUBSET Pool
    BY <1>18, <1>b DEF RunJob, JobFails
  <2>. QED
    BY <1>18, <2>3, <2>4, <2>5 DEF TypeOK, RunJob, JobFails, cursorVars, Pool
<1>19. CASE UNCHANGED vars
  BY <1>19 DEF TypeOK, vars, cursorVars, poolVars, Pool
<1>. QED
  BY <1>1, <1>2, <1>3, <1>4, <1>5, <1>6, <1>7, <1>8, <1>9, <1>10, <1>11, <1>12, <1>13, <1>14,
     <1>15, <1>16, <1>17, <1>18, <1>19
  DEF Next, MainStep, Over

----------------------------------------------------------------------------
(* The fan-out.                                                            *)

\* Steps outside the fan-out do not touch the pool.
LEMMA QuietFan ==
    ASSUME FanInv, UNCHANGED <<task, jobs>>, pc \notin Fanning \cup {"split"},
           pc' \notin Fanning \cup {"split"}, pc' \in {"first", "connect"} => task.pool > 0
    PROVE  FanInv'
BY DEF FanInv, OneJobPerConnection, Pool, Fanning

\* A split has one job for each connection.
LEMMA SplitFan ==
    ASSUME FanInv, NEW query, Split(query)
    PROVE  FanInv'
<1>1. \A i \in Pool : jobs'[i] = <<query[i]>>
  BY DEF Split
<1>2. ASSUME NEW i \in Pool PROVE Len(jobs'[i]) <= 1
  <2>1. jobs'[i] = <<query[i]>>
    BY <1>1
  <2>2. Len(<<query[i]>>) = 1
    OBVIOUS
  <2>. QED
    BY <2>1, <2>2
<1>. QED
  BY <1>2 DEF Split, FanInv, OneJobPerConnection, Pool, Fanning

\* A job that is over leaves its connection free.
LEMMA JobFan ==
    ASSUME TypeOK, FanInv, NEW i \in Pool, jobs[i] # <<>>,
           jobs' = [jobs EXCEPT ![i] = Tail(@)], UNCHANGED <<task, pc, turn>>,
           pc \in Fanning \cup {"split"}, pc # "split" => open' = open
    PROVE  FanInv'
<1>1. jobs \in [Pool -> Seq(SUBSET task.rows)] /\ Len(jobs[i]) <= 1
  BY DEF TypeOK, FanInv, OneJobPerConnection
<1>2. jobs[i] \in Seq(SUBSET task.rows)
  BY <1>1
<1>3. Len(Tail(jobs[i])) = Len(jobs[i]) - 1 /\ Len(jobs[i]) \in Nat
  BY <1>2, HeadTailProperties, LenProperties
<1>4. jobs[i] \in Seq(SUBSET task.rows) /\ Tail(jobs[i]) \in Seq(SUBSET task.rows)
  BY <1>2, HeadTailProperties
<1>5. Len(Tail(jobs[i])) \in Nat
  BY <1>4, LenProperties
<1>6. Len(Tail(jobs[i])) <= 1
  BY <1>1, <1>3
<1>7. pc = "fan" => turn <= task.pool /\ \A j \in turn .. task.pool : jobs'[j] = <<>>
  <2>1. pc = "fan" => \A j \in turn .. task.pool : j # i
    BY DEF FanInv
  <2>. QED
    BY <1>1, <2>1 DEF FanInv
<1>8. \A j \in Pool : Len(jobs'[j]) <= 1
  BY <1>1, <1>6 DEF FanInv, OneJobPerConnection
<1>. QED
  BY <1>7, <1>8 DEF FanInv, OneJobPerConnection, Pool, Fanning

\* Every step of the fan-out respects its rounds.
LEMMA FanStep == TypeOK /\ FanInv /\ CursorInv /\ [Next]_vars => FanInv'
<1>. SUFFICES ASSUME TypeOK, FanInv, CursorInv, [Next]_vars PROVE FanInv'
  OBVIOUS
<1>a. task \in Layouts /\ task.pool \in Nat
  BY LayoutAssumption DEF CursorInv
<1>1. CASE CopyTarget \/ CopyWhole \/ FirstFetch
  <2>1. CASE pc' = "split"
    <3>1. \E query : Split(query)
      BY <1>1, <2>1 DEF CopyTarget, CopyWhole, FirstFetch
    <3>. QED
      BY <3>1, SplitFan
  <2>2. CASE pc' # "split"
    <3>1. pc' \in {"done", "connect"} /\ UNCHANGED <<task, jobs>>
      BY <1>1, <2>2 DEF CopyTarget, CopyWhole, FirstFetch, Split, poolVars
    <3>2. pc' = "connect" => pc = "first"
      BY <1>1 DEF CopyTarget, CopyWhole, FirstFetch, Split
    <3>3. pc \in {"start", "first"}
      BY <1>1 DEF CopyTarget, CopyWhole, FirstFetch
    <3>4. pc' = "connect" => task.pool > 0
      BY <3>2 DEF FanInv
    <3>. QED
      BY <3>1, <3>3, <3>4, QuietFan DEF Fanning
  <2>. QED
    BY <2>1, <2>2
<1>2. CASE StartUpstream
  <2>1. pc' \in {"done", "temps", "first", "batches", "passes"} /\ UNCHANGED <<task, jobs>>
    BY <1>2 DEF StartUpstream, poolVars
  <2>2. pc' = "first" => task.pool > 0
    BY <1>2 DEF StartUpstream
  <2>. QED
    BY <1>2, <2>1, <2>2, QuietFan DEF StartUpstream, Fanning
<1>3. CASE TempPass \/ ResidentPass \/ BatchedPass \/ StreamedPass \/ CopyBatch \/ EndBatches
             \/ EndPasses \/ StartDownstream \/ EndDownstream \/ Apply
  <2>1. /\ UNCHANGED <<task, jobs>> /\ pc \in {"temps", "passes", "batches", "start", "apply"}
        /\ pc' \in {"temps", "passes", "batches", "apply", "done"}
    BY <1>3 DEF TempPass, ResidentPass, BatchedPass, StreamedPass, CopyBatch, EndBatches,
                EndPasses, StartDownstream, EndDownstream, Apply, poolVars
  <2>. QED
    BY <2>1, QuietFan DEF Fanning
<1>4. CASE ReadMissing
  <2>1. UNCHANGED <<task, jobs>> /\ pc = "passes" /\ pc' \in {"passes", "batches", "connect"}
        /\ (pc' = "connect" => task.pool > 0)
    BY <1>4 DEF ReadMissing, poolVars
  <2>. QED
    BY <2>1, QuietFan DEF Fanning
<1>5. CASE StatementFails
  BY <1>5, QuietFan DEF StatementFails, poolVars, Fanning
<1>6. CASE Connect
  BY <1>6, <1>a DEF Connect, FanInv, OneJobPerConnection, Pool, Fanning
<1>7. CASE Submit
  <2>1. PICK ids \in Fetches(unread) :
          jobs' = IF Valid(ids) = {} THEN jobs
                  ELSE [jobs EXCEPT ![turn] = Append(@, BatchQuery(ids))]
    BY <1>7 DEF Submit
  <2>2. /\ pc = "fan" /\ turn' = turn + 1 /\ UNCHANGED <<task, open>>
        /\ pc' = IF turn = task.pool THEN "drain" ELSE "fan"
    BY <1>7 DEF Submit
  <2>3. turn \in Pool /\ jobs[turn] = <<>> /\ turn <= task.pool
    BY <1>a, <2>2 DEF FanInv, TypeOK, Pool
  <2>4. jobs' = jobs \/ jobs' = [jobs EXCEPT ![turn] = <<BatchQuery(ids)>>]
    BY <2>1, <2>3 DEF TypeOK
  <2>5. \A i \in Pool : Len(jobs'[i]) <= 1 /\ (i # turn => jobs'[i] = jobs[i])
    <3>. SUFFICES ASSUME NEW i \in Pool
                  PROVE  Len(jobs'[i]) <= 1 /\ (i # turn => jobs'[i] = jobs[i])
      OBVIOUS
    <3>1. Len(jobs[i]) <= 1
      BY DEF FanInv, OneJobPerConnection
    <3>. DEFINE new == <<BatchQuery(ids)>>
    <3>0. Len(new) <= 1
      OBVIOUS
    <3>2. jobs' = jobs \/ jobs' = [jobs EXCEPT ![turn] = new]
      BY <2>4
    <3>3. DOMAIN jobs = Pool
      BY DEF TypeOK
    <3>. HIDE DEF new
    <3>4. Len(jobs'[i]) <= 1
      <4>1. jobs'[i] = jobs[i] \/ jobs'[i] = new
        BY <3>2, <3>3
      <4>2. CASE jobs'[i] = jobs[i]
        BY <3>1, <4>2
      <4>3. CASE jobs'[i] = new
        BY <3>0, <4>3
      <4>. QED
        BY <4>1, <4>2, <4>3
    <3>5. i # turn => jobs'[i] = jobs[i]
      BY <3>2, <3>3
    <3>. QED
      BY <3>4, <3>5
  <2>6. pc' = "fan" => /\ turn' <= task.pool
                       /\ \A i \in turn' .. task.pool : jobs'[i] = <<>>
    BY <1>a, <2>2, <2>3, <2>5 DEF FanInv, Pool
  <2>. QED
    BY <2>2, <2>5, <2>6 DEF FanInv, OneJobPerConnection, Pool, Fanning
<1>8. CASE FetchFails \/ Exhausted
  BY <1>8 DEF FetchFails, Exhausted, FanInv, OneJobPerConnection, Pool, Fanning, poolVars
<1>9. CASE NextRound
  BY <1>9, <1>a DEF NextRound, Idle, FanInv, OneJobPerConnection, Pool, Fanning
<1>10. CASE EndFan \/ EndSplit
  BY <1>10 DEF EndFan, EndSplit, Idle, FanInv, OneJobPerConnection, Pool, Fanning, poolVars
<1>11. ASSUME NEW i \in Pool, WorkerConnects(i) PROVE FanInv'
  BY <1>11 DEF WorkerConnects, FanInv, OneJobPerConnection, Pool, Fanning
<1>12. ASSUME NEW i \in Pool, RunJob(i) \/ JobFails(i) PROVE FanInv'
  <2>1. /\ jobs[i] # <<>> /\ jobs' = [jobs EXCEPT ![i] = Tail(@)]
        /\ UNCHANGED <<task, pc, turn>> /\ pc \in Fanning \cup {"split"}
        /\ pc # "split" => open' = open
    BY <1>12 DEF RunJob, JobFails, Fanning
  <2>. QED
    BY <2>1, JobFan
<1>13. CASE UNCHANGED vars
  BY <1>13 DEF FanInv, OneJobPerConnection, Pool, vars, poolVars
<1>. QED
  BY <1>1, <1>2, <1>3, <1>4, <1>5, <1>6, <1>7, <1>8, <1>9, <1>10, <1>11, <1>12, <1>13
  DEF Next, MainStep, Over

----------------------------------------------------------------------------
(* The cursor.                                                             *)

\* Steps that leave the cursor and the passes alone, or read on.
LEMMA QuietCursor ==
    ASSUME CursorInv, UNCHANGED <<task, passes, pass, batched>>, unread' \subseteq unread,
           pc' \in {"done", "failed", "split", "apply"}
             \/ pc' = pc \/ (pc \in Reading /\ pc' \in Reading \ {"first"})
    PROVE  CursorInv'
BY DEF CursorInv, Reading, Fanning

\* Every step keeps the cursor and the passes together.
LEMMA CursorStep == TypeOK /\ CursorInv /\ [Next]_vars => CursorInv'
<1>. SUFFICES ASSUME TypeOK, CursorInv, [Next]_vars PROVE CursorInv'
  OBVIOUS
<1>a. task \in Layouts /\ NoPlan \notin task.kcs
  BY LayoutAssumption DEF CursorInv
<1>1. CASE CopyTarget \/ CopyWhole \/ FirstFetch
  <2>1. /\ UNCHANGED <<task, passes, pass, batched, unread>>
        /\ pc' \in {"done", "split"} \/ (pc = "first" /\ pc' = "connect")
    BY <1>1 DEF CopyTarget, CopyWhole, FirstFetch, Split, cursorVars
  <2>. QED
    BY <2>1, QuietCursor DEF Reading, Fanning
<1>2. CASE StartUpstream
  <2>1. pc' \in {"done", "temps", "passes", "first", "batches"} /\ task' = task
        /\ task.path = "upstream"
    BY <1>2 DEF StartUpstream
  <2>2. CASE pc' = "done"
    <3>1. UNCHANGED <<passes, pass, batched, unread>>
      BY <1>2, <2>2 DEF StartUpstream, cursorVars
    <3>. QED
      BY <2>1, <2>2, <3>1, QuietCursor
  <2>3. CASE pc' \in {"temps", "passes"}
    <3>1. passes' \subseteq Passes(task)
      BY <1>2, <2>3 DEF StartUpstream
    <3>. QED
      BY <1>a, <2>1, <2>3, <3>1 DEF CursorInv, Reading, Fanning, Passes
  <2>4. CASE pc' \in {"first", "batches"}
    <3>1. ~NothingNew(task) /\ Cardinality(task.kcs) = 1
      BY <1>2, <2>4 DEF StartUpstream
    <3>2. task.kcs = {Constraint}
      BY <1>a, <3>1, OneConstraint
    <3>3. pass' = NoPlan /\ batched' = Constraint /\ passes' = passes
      BY <1>2, <2>4 DEF StartUpstream
    <3>4. task.fresh # NoPlan => /\ task.group[Constraint] \in DOMAIN task.fresh
                                 /\ unread' \subseteq task.fresh[task.group[Constraint]]
      BY <1>2, <1>a, <2>4, <3>1, <3>2, OneDriver DEF StartUpstream
    <3>. QED
      BY <1>a, <2>1, <2>4, <3>2, <3>3, <3>4 DEF CursorInv, Reading, Fanning
  <2>. QED
    BY <2>1, <2>2, <2>3, <2>4
<1>3. CASE TempPass \/ ResidentPass
  <2>1. /\ UNCHANGED <<task, pc>> /\ pc \in {"temps", "passes"} /\ passes' \subseteq passes
    BY <1>3 DEF TempPass, ResidentPass
  <2>. QED
    BY <2>1 DEF CursorInv, Reading, Fanning, Passes
<1>4. CASE BatchedPass
  <2>1. PICK p \in passes : \E k \in Largest(task.kcs, PassJoins(task, p)) :
          batched' = k /\ unread' = PassJoins(task, p)[k] /\ pass' = p
    BY <1>4 DEF BatchedPass
  <2>2. PICK k \in Largest(task.kcs, PassJoins(task, p)) :
          batched' = k /\ unread' = PassJoins(task, p)[k]
    BY <2>1
  <2>3. k \in task.kcs /\ p \in Passes(task)
    BY <1>4, <2>2 DEF Largest, CursorInv, BatchedPass
  <2>4. k = p => unread' \subseteq task.fresh[task.group[k]]
    BY <2>2, <2>3 DEF PassJoins, Valid
  <2>5. p = NoPlan <=> task.fresh = NoPlan
    BY <1>a, <2>3, PassesJoinIds
  <2>6. p # NoPlan => task.group[p] \in DOMAIN task.fresh
    BY <1>a, <2>3, PassesJoinIds
  <2>7. pc' = "batches" /\ task' = task /\ task.path = "upstream" /\ passes' \subseteq passes
    BY <1>4 DEF BatchedPass
  <2>. QED
    BY <1>a, <2>1, <2>2, <2>3, <2>4, <2>5, <2>6, <2>7 DEF CursorInv, Reading, Fanning, Passes
<1>5. CASE StreamedPass
  <2>1. PICK p \in passes : \E k \in Largest(Streamable(task, p), FullIds(task)) :
          batched' = k /\ pass' = p
    BY <1>5 DEF StreamedPass
  <2>2. PICK k \in Streamable(task, p) : batched' = k /\ pass' = p
    BY <2>1 DEF Largest
  <2>3. k \in task.kcs /\ k # p /\ p \in Passes(task)
    BY <1>5, <2>2 DEF Streamable, CursorInv, StreamedPass
  <2>4. p = NoPlan <=> task.fresh = NoPlan
    BY <1>a, <2>3, PassesJoinIds
  <2>5. pc' = "batches" /\ task' = task /\ task.path = "upstream" /\ passes' \subseteq passes
    BY <1>5 DEF StreamedPass
  <2>. QED
    BY <1>a, <2>2, <2>3, <2>4, <2>5 DEF CursorInv, Reading, Fanning, Passes
<1>6. CASE CopyBatch \/ Submit
  <2>1. /\ UNCHANGED <<task, passes, pass, batched>> /\ unread' \subseteq unread
        /\ pc' = pc \/ (pc = "fan" /\ pc' = "drain")
    BY <1>6 DEF CopyBatch, Submit
  <2>. QED
    BY <2>1, QuietCursor DEF Reading, Fanning
<1>7. CASE EndBatches
  <2>1. UNCHANGED <<task, passes, pass, batched, unread>> /\ pc = "batches" /\ pc' = "passes"
    BY <1>7 DEF EndBatches, cursorVars
  <2>. QED
    BY <2>1 DEF CursorInv, Reading, Fanning
<1>8. CASE StartDownstream
  BY <1>8, <1>a DEF StartDownstream, CursorInv, Reading, Fanning
<1>9. CASE ReadMissing
  <2>1. PICK k \in passes : pass' = NoPlan /\ batched' = k /\ passes' = passes \ {k}
    BY <1>9 DEF ReadMissing
  <2>2. /\ task' = task /\ task.path = "downstream"
        /\ pc' \in {"passes", "batches", "connect"}
    BY <1>9 DEF ReadMissing
  <2>3. k \in task.kcs
    BY <2>2 DEF TypeOK, CursorInv
  <2>. QED
    BY <2>1, <2>2, <2>3 DEF CursorInv, Reading, Fanning
<1>10. CASE EndPasses \/ EndDownstream \/ Apply \/ EndSplit \/ StatementFails \/ FetchFails
              \/ Exhausted \/ Connect \/ NextRound \/ EndFan
  <2>1. CASE EndFan
    <3>1. /\ UNCHANGED <<task, passes, pass, batched, unread>> /\ pc = "drain"
          /\ pc' \in {"failed", "done"} \/ (pc' = "passes" /\ task.path = "downstream")
      BY <2>1 DEF EndFan, cursorVars
    <3>. QED
      BY <3>1 DEF CursorInv, Reading, Fanning
  <2>2. CASE ~EndFan
    BY <1>10, <2>2, QuietCursor
    DEF EndPasses, EndDownstream, Apply, EndSplit, StatementFails, FetchFails, Exhausted,
        Connect, NextRound, Reading, Fanning, cursorVars
  <2>. QED
    BY <2>1, <2>2
<1>11. ASSUME NEW i \in Pool, WorkerConnects(i) \/ RunJob(i) \/ JobFails(i) PROVE CursorInv'
  BY <1>11, QuietCursor DEF WorkerConnects, RunJob, JobFails, cursorVars
<1>12. CASE UNCHANGED vars
  BY <1>12, QuietCursor DEF vars
<1>. QED
  BY <1>1, <1>2, <1>3, <1>4, <1>5, <1>6, <1>7, <1>8, <1>9, <1>10, <1>11, <1>12
  DEF Next, MainStep, Over

----------------------------------------------------------------------------
(* Only wanted rows.                                                       *)

\* No condition has an OR, and a pre_filter has found something.
Plain(t) == Len(t.condition) = 1 /\ (t.cached = NoPlan \/ DOMAIN t.cached # {})

SoundInv ==
    /\ Present \subseteq Wanted(task) /\ staged \subseteq Wanted(task)
    /\ \A i \in Pool : jobs[i] # <<>> => Head(jobs[i]) \subseteq Wanted(task)

\* The statement of a whole pass.
LEMMA PassesSelectWanted ==
    ASSUME NEW t \in Layouts, t.path = "upstream", NEW p \in Passes(t)
    PROVE  UpstreamQuery(t, PassJoins(t, p), p, {}) \subseteq Wanted(t)
<1>. DEFINE joins == PassJoins(t, p)
<1>1. NoPlan \notin t.kcs /\ DOMAIN joins = t.kcs
  BY LayoutAssumption DEF PassJoins
<1>2. \A k \in t.kcs : joins[k] \subseteq Valid(t.ids[t.group[k]])
  BY PassesJoinIds
<1>3. t.fresh # NoPlan => /\ p # NoPlan /\ t.group[p] \in DOMAIN t.fresh
                          /\ joins[p] \subseteq t.fresh[t.group[p]]
  <2>1. t.fresh # NoPlan => p \in t.kcs /\ p # NoPlan /\ t.group[p] \in DOMAIN t.fresh
    BY <1>1 DEF Passes
  <2>2. p \in t.kcs => joins[p] = Valid(t.fresh[t.group[p]])
    BY DEF PassJoins
  <2>. QED
    BY <2>1, <2>2 DEF Valid
<1>. HIDE DEF joins
<1>4. UpstreamQuery(t, joins, p, {}) \subseteq Wanted(t)
  BY <1>1, <1>2, <1>3, SelectsWanted
<1>. QED
  BY <1>4 DEF joins

\* A batch of the IDs the cursor reads.
LEMMA BatchesSelectWanted ==
    ASSUME TypeOK, CursorInv, pc \in Reading, NEW ids \in SUBSET unread
    PROVE  BatchQuery(ids) \subseteq Wanted(task)
<1>. DEFINE k == batched
            joins == [PassJoins(task, pass) EXCEPT ![k] = Valid(ids)]
            required == IF pass = NoPlan THEN k ELSE pass
<1>1. /\ task \in Layouts /\ k \in task.kcs /\ NoPlan \notin task.kcs
      /\ task.path \in {"upstream", "downstream"}
      /\ unread \subseteq task.ids[task.group[k]]
  <2>1. task \in Layouts /\ k \in task.kcs /\ task.path \in {"upstream", "downstream"}
    BY DEF CursorInv
  <2>2. NoPlan \notin task.kcs
    BY <2>1, LayoutAssumption
  <2>3. k # NoPlan
    BY <2>1, <2>2
  <2>4. unread \subseteq task.ids[task.group[k]]
    BY <2>3 DEF TypeOK
  <2>. QED
    BY <2>1, <2>2, <2>4
<1>2. CASE task.path = "downstream"
  BY <1>1, <1>2 DEF BatchQuery, DownstreamQuery, Valid, Wanted
<1>3. CASE task.path = "upstream"
  <2>1. pass \in Passes(task) \cup {NoPlan}
    BY <1>3 DEF CursorInv
  <2>2. DOMAIN joins = task.kcs
    BY <1>1 DEF PassJoins
  <2>3. \A j \in task.kcs : PassJoins(task, pass)[j] \subseteq Valid(task.ids[task.group[j]])
    BY <1>1, <2>1, PassesJoinIds
  <2>4. joins[k] = Valid(ids) /\ \A j \in task.kcs \ {k} : joins[j] = PassJoins(task, pass)[j]
    BY <1>1 DEF PassJoins
  <2>5. Valid(ids) \subseteq Valid(task.ids[task.group[k]])
    BY <1>1 DEF Valid
  <2>6. \A j \in task.kcs : joins[j] \subseteq Valid(task.ids[task.group[j]])
    BY <2>3, <2>4, <2>5
  <2>7. required # NoPlan /\ required \in task.kcs
    BY <1>1, <2>1, PassesJoinIds
  <2>8. ASSUME task.fresh # NoPlan
        PROVE  /\ task.group[required] \in DOMAIN task.fresh
               /\ joins[required] \subseteq task.fresh[task.group[required]]
    <3>1. CASE required = k
      <4>1. pass \in {NoPlan, batched}
        BY <3>1
      <4>2. /\ task.group[k] \in DOMAIN task.fresh
            /\ unread \subseteq task.fresh[task.group[k]]
        BY <1>3, <2>8, <4>1 DEF CursorInv
      <4>. QED
        BY <2>4, <3>1, <4>2 DEF Valid
    <3>2. CASE required # k
      <4>1. pass = required /\ pass # NoPlan /\ pass \in Passes(task)
        BY <2>1, <3>2
      <4>2. task.group[pass] \in DOMAIN task.fresh
        BY <1>1, <4>1, PassesJoinIds
      <4>3. joins[required] = Valid(task.fresh[task.group[pass]])
        BY <2>4, <2>7, <3>2, <4>1 DEF PassJoins
      <4>. QED
        BY <4>1, <4>2, <4>3 DEF Valid
    <3>. QED
      BY <3>1, <3>2
  <2>9. BatchQuery(ids) = UpstreamQuery(task, joins, required, {})
    BY <1>3 DEF BatchQuery
  <2>. HIDE DEF joins, required
  <2>10. UpstreamQuery(task, joins, required, {}) \subseteq Wanted(task)
    BY <1>1, <1>3, <2>2, <2>6, <2>7, <2>8, SelectsWanted
  <2>. QED
    BY <2>9, <2>10
<1>. QED
  BY <1>1, <1>2, <1>3

\* The neutral rows that no batch has brought.
LEMMA NeutralWanted ==
    ASSUME TypeOK, CursorInv, pc = "batches", task.path = "upstream"
    PROVE  NeutralRows(task, PassJoins(task, pass), batched, pass) \subseteq Wanted(task)
<1>. DEFINE joins == PassJoins(task, pass)
            remaining == [k \in task.kcs \ {batched} |-> joins[k]]
<1>1. /\ task \in Layouts /\ batched \in task.kcs /\ NoPlan \notin task.kcs
      /\ pass \in Passes(task) \cup {NoPlan}
  BY LayoutAssumption DEF CursorInv, Reading, Fanning
<1>2. \A k \in task.kcs : joins[k] \subseteq Valid(task.ids[task.group[k]])
  BY <1>1, PassesJoinIds
<1>3. /\ DOMAIN remaining = task.kcs \ {batched}
      /\ \A k \in task.kcs \ {batched} : remaining[k] = joins[k]
  OBVIOUS
<1>4. ASSUME task.fresh # NoPlan, pass # NoPlan
      PROVE  /\ task.group[pass] \in DOMAIN task.fresh
             /\ pass \in task.kcs /\ joins[pass] \subseteq task.fresh[task.group[pass]]
  BY <1>1, <1>4, PassesJoinIds DEF PassJoins, Valid
<1>5. task.fresh # NoPlan /\ pass = NoPlan => task.kcs = {batched}
  BY DEF CursorInv, Reading, Fanning
<1>6. task.fresh # NoPlan =>
        \/ DOMAIN remaining = {}
        \/ /\ pass # NoPlan /\ task.group[pass] \in DOMAIN task.fresh
           /\ pass \in DOMAIN remaining => remaining[pass] \subseteq task.fresh[task.group[pass]]
  BY <1>3, <1>4, <1>5
<1>7. NeutralRows(task, joins, batched, pass)
        \subseteq UpstreamQuery(task, remaining, pass, {batched})
  BY DEF NeutralRows
<1>. HIDE DEF remaining, joins
<1>8. UpstreamQuery(task, remaining, pass, {batched}) \subseteq Wanted(task)
  BY <1>1, <1>2, <1>3, <1>6, SelectsWanted
<1>. QED
  BY <1>7, <1>8 DEF joins

\* Whatever is wanted from a plain target, split or not, its query selects.
LEMMA TargetsTake ==
    ASSUME NEW t \in Layouts, t.path = "direct", Plain(t)
    PROVE  DirectQuery(t) = Wanted(t) /\ DirectSplitQuery(t) = Wanted(t)
<1>1. Filters(t) <=> t.cached # NoPlan
  BY DEF Filters, Plain
<1>2. UnwrappedAnd(t.condition, Cached(t)) = Cached(t) \cap Either(t.condition)
  BY PlainCondition DEF Plain
<1>. QED
  BY <1>1, <1>2 DEF DirectQuery, DirectSplitQuery, Wanted

\* Steps that store nothing and submit nothing.
LEMMA QuietSound ==
    ASSUME SoundInv, UNCHANGED <<task, jobs, staged, copied>>
    PROVE  SoundInv'
BY DEF SoundInv, Present, Pool

\* A statement of the main thread.
LEMMA StatementSound ==
    ASSUME TypeOK, SoundInv, NEW S \in SUBSET task.rows, NEW single \in BOOLEAN,
           Execute(S, single), UNCHANGED <<task, jobs>>, S \subseteq Wanted(task)
    PROVE  SoundInv'
<1>1. Present' \subseteq Present \cup S /\ staged' \subseteq staged \cup S
  BY ExecuteAdds
<1>. QED
  BY <1>1 DEF SoundInv, Pool

\* A split over page ranges.
LEMMA SplitSound ==
    ASSUME SoundInv, NEW query, Split(query), \A i \in Pool : query[i] \subseteq Wanted(task)
    PROVE  SoundInv'
<1>1. \A i \in Pool : Head(jobs'[i]) \subseteq Wanted(task)
  <2>. SUFFICES ASSUME NEW i \in Pool PROVE Head(jobs'[i]) \subseteq Wanted(task)
    OBVIOUS
  <2>1. jobs'[i] = <<query[i]>>
    BY DEF Split
  <2>2. Head(<<query[i]>>) = query[i]
    OBVIOUS
  <2>. QED
    BY <2>1, <2>2
<1>2. UNCHANGED <<task, staged, copied>>
  BY DEF Split
<1>. QED
  BY <1>1, <1>2 DEF SoundInv, Present, Pool

\* A job that has run, or failed, is the only one of its connection.
LEMMA OneJobLess ==
    ASSUME TypeOK, FanInv, NEW i \in Pool, RunJob(i) \/ JobFails(i)
    PROVE  /\ jobs[i] # <<>> /\ Head(jobs[i]) \in SUBSET task.rows
           /\ \A j \in Pool : jobs'[j] = IF j = i THEN <<>> ELSE jobs[j]
<1>1. /\ jobs[i] \in Seq(SUBSET task.rows) /\ jobs[i] # <<>> /\ Len(jobs[i]) <= 1
  BY DEF TypeOK, FanInv, OneJobPerConnection, RunJob, JobFails
<1>2. Head(jobs[i]) \in SUBSET task.rows /\ Tail(jobs[i]) \in Seq(SUBSET task.rows)
      /\ Len(Tail(jobs[i])) = Len(jobs[i]) - 1
  BY <1>1, HeadTailProperties
<1>3. Tail(jobs[i]) = <<>>
  BY <1>1, <1>2, LenProperties, EmptySeq
<1>. QED
  BY <1>1, <1>2, <1>3 DEF RunJob, JobFails, TypeOK

\* A job brings only what its statement selects.
LEMMA JobSound ==
    ASSUME TypeOK, FanInv, SoundInv, NEW i \in Pool, RunJob(i) \/ JobFails(i)
    PROVE  SoundInv'
<1>1. /\ jobs[i] # <<>> /\ Head(jobs[i]) \in SUBSET task.rows
      /\ \A j \in Pool : jobs'[j] = IF j = i THEN <<>> ELSE jobs[j]
  BY OneJobLess
<1>2. Present' \subseteq Present \cup Head(jobs[i]) /\ UNCHANGED <<task, staged>>
  BY <1>1, StoreAdds DEF RunJob, JobFails, Present
<1>3. Head(jobs[i]) \subseteq Wanted(task)
  BY <1>1 DEF SoundInv
<1>. QED
  BY <1>1, <1>2, <1>3 DEF SoundInv, Pool

\* No step of the copy of a plain table brings in a row that is not wanted.
LEMMA SoundStep ==
    TypeOK /\ FanInv /\ CursorInv /\ Plain(task) /\ SoundInv /\ [Next]_vars => SoundInv'
<1>. SUFFICES ASSUME TypeOK, FanInv, CursorInv, Plain(task), SoundInv, [Next]_vars
              PROVE  SoundInv'
  OBVIOUS
<1>a. task \in Layouts
  BY DEF CursorInv
<1>1. CASE CopyTarget
  <2>1. CASE Splittable(task)
    <3>1. Split([i \in Pool |-> InRanges(task, i) \cap DirectSplitQuery(task)])
      BY <1>1, <2>1 DEF CopyTarget
    <3>2. DirectSplitQuery(task) \subseteq Wanted(task)
      BY <1>1, <1>a, TargetsTake DEF CopyTarget
    <3>. QED
      BY <3>1, <3>2, SplitSound
  <2>2. CASE ~Splittable(task)
    <3>1. Execute(DirectQuery(task), FALSE) /\ task' = task /\ jobs' = jobs
      BY <1>1, <2>2 DEF CopyTarget, poolVars
    <3>2. DirectQuery(task) \subseteq Wanted(task) /\ DirectQuery(task) \in SUBSET task.rows
      BY <1>1, <1>a, TargetsTake, QueriesSelectRows DEF CopyTarget
    <3>. QED
      BY <3>1, <3>2, StatementSound
  <2>. QED
    BY <2>1, <2>2
<1>2. CASE CopyWhole
  <2>1. Wanted(task) = task.rows
    BY <1>2 DEF CopyWhole, Wanted
  <2>2. CASE Splittable(task) /\ task.limit = Unlimited
    <3>1. Split([i \in Pool |-> InRanges(task, i)])
      BY <1>2, <2>2 DEF CopyWhole
    <3>. QED
      BY <2>1, <3>1, SplitSound DEF InRanges
  <2>3. CASE ~(Splittable(task) /\ task.limit = Unlimited)
    <3>1. Execute(task.rows, TRUE) /\ task' = task /\ jobs' = jobs
      BY <1>2, <2>3 DEF CopyWhole, poolVars
    <3>. QED
      BY <2>1, <3>1, StatementSound
  <2>. QED
    BY <2>2, <2>3
<1>3. CASE TempPass \/ ResidentPass
  <2>1. PICK p \in passes : Execute(UpstreamQuery(task, PassJoins(task, p), p, {}), TRUE)
    BY <1>3 DEF TempPass, ResidentPass
  <2>2. task.path = "upstream" /\ task' = task /\ jobs' = jobs
    BY <1>3 DEF TempPass, ResidentPass, poolVars, CursorInv
  <2>3. p \in Passes(task)
    BY <2>2 DEF CursorInv
  <2>4. UpstreamQuery(task, PassJoins(task, p), p, {}) \subseteq Wanted(task)
    BY <1>a, <2>2, <2>3, PassesSelectWanted
  <2>5. UpstreamQuery(task, PassJoins(task, p), p, {}) \in SUBSET task.rows
    BY <1>a, QueriesSelectRows
  <2>. QED
    BY <2>1, <2>2, <2>4, <2>5, StatementSound
<1>4. CASE CopyBatch
  <2>1. PICK ids \in Fetches(unread) :
          IF Valid(ids) = {} THEN UNCHANGED <<staged, copied>>
          ELSE Execute(BatchQuery(ids), task.path = "upstream" /\ first
                                          /\ Cardinality(ids) < BatchSize)
    BY <1>4 DEF CopyBatch
  <2>2. task' = task /\ jobs' = jobs /\ pc \in Reading /\ ids \in SUBSET unread
    BY <1>4 DEF CopyBatch, poolVars, Reading, Fetches
  <2>3. CASE Valid(ids) = {}
    BY <2>1, <2>2, <2>3, QuietSound
  <2>4. CASE Valid(ids) # {}
    <3>. DEFINE single == task.path = "upstream" /\ first /\ Cardinality(ids) < BatchSize
    <3>1. Execute(BatchQuery(ids), single) /\ single \in BOOLEAN
      BY <2>1, <2>4
    <3>. HIDE DEF single
    <3>. QED
      BY <1>a, <2>2, <3>1, BatchesSelectWanted, BatchesSelectRows, StatementSound
  <2>. QED
    BY <2>3, <2>4
<1>5. CASE EndBatches
  <2>1. task' = task /\ jobs' = jobs /\ pc = "batches"
    BY <1>5 DEF EndBatches, poolVars
  <2>2. CASE task.path = "downstream"
    BY <1>5, <2>1, <2>2, QuietSound DEF EndBatches
  <2>3. CASE task.path # "downstream"
    <3>. DEFINE S == NeutralRows(task, PassJoins(task, pass), batched, pass)
    <3>1. Execute(S, FALSE) /\ S \in SUBSET task.rows
      BY <1>5, <1>a, <2>3, QueriesSelectRows DEF EndBatches
    <3>2. S \subseteq Wanted(task)
      BY <2>1, <2>3, NeutralWanted DEF CursorInv, Reading
    <3>. QED
      BY <2>1, <3>1, <3>2, StatementSound
  <2>. QED
    BY <2>2, <2>3
<1>6. CASE ReadMissing
  <2>1. PICK k \in passes :
          IF task.temps
          THEN Execute(DownstreamQuery(task, k, MissingIds(task, k, Present)), FALSE)
          ELSE UNCHANGED <<staged, copied>>
    BY <1>6 DEF ReadMissing
  <2>2. task' = task /\ jobs' = jobs /\ task.path = "downstream"
    BY <1>6 DEF ReadMissing, poolVars
  <2>3. k \in task.kcs
    BY <2>2 DEF TypeOK, CursorInv
  <2>4. DownstreamQuery(task, k, MissingIds(task, k, Present)) \subseteq Wanted(task)
    BY <2>2, <2>3 DEF DownstreamQuery, MissingIds, Valid, Wanted
  <2>5. DownstreamQuery(task, k, MissingIds(task, k, Present)) \in SUBSET task.rows
    BY <1>a, QueriesSelectRows
  <2>6. CASE task.temps
    BY <2>1, <2>2, <2>4, <2>5, <2>6, StatementSound
  <2>7. CASE ~task.temps
    BY <2>1, <2>2, <2>7, QuietSound
  <2>. QED
    BY <2>6, <2>7
<1>7. CASE Apply
  <2>1. task' = task /\ jobs' = jobs /\ staged' = {} /\ Store(staged)
    BY <1>7 DEF Apply, poolVars
  <2>2. Present' \subseteq Present \cup staged
    BY <2>1, StoreAdds DEF TypeOK
  <2>. QED
    BY <2>1, <2>2 DEF SoundInv, Pool
<1>8. CASE FirstFetch
  <2>0. pc \in Reading /\ task.path = "upstream" /\ task.kcs = {batched} /\ pass = NoPlan
    BY <1>8 DEF FirstFetch, CursorInv, Reading
  <2>1. PICK ids \in Fetches(unread) :
          \/ UNCHANGED <<task, jobs, staged, copied>>
          \/ Split([i \in Pool |->
                  AndUnwrapped(InRanges(task, i)
                                 \cap {r \in task.rows : r[batched] \in Valid(ids)},
                               task.condition)])
          \/ Execute(BatchQuery(ids), FALSE) /\ UNCHANGED <<task, jobs>>
    BY <1>8 DEF FirstFetch, poolVars
  <2>2. ids \in SUBSET unread /\ BatchQuery(ids) \subseteq Wanted(task)
    BY <2>0, BatchesSelectWanted DEF Fetches
  <2>3. CASE Split([i \in Pool |->
                  AndUnwrapped(InRanges(task, i)
                                 \cap {r \in task.rows : r[batched] \in Valid(ids)},
                               task.condition)])
    <3>1. {r \in task.rows \cap Either(task.condition) : r[batched] \in Valid(ids)}
            \subseteq BatchQuery(ids)
      BY <2>0 DEF BatchQuery, UpstreamQuery, PassJoins, Matches
    <3>2. \A S : AndUnwrapped(S, task.condition) = S \cap Either(task.condition)
      BY <1>a, PlainCondition DEF Plain
    <3>3. \A i \in Pool : AndUnwrapped(InRanges(task, i)
                                         \cap {r \in task.rows : r[batched] \in Valid(ids)},
                                       task.condition) \subseteq Wanted(task)
      BY <2>2, <3>1, <3>2
    <3>. QED
      BY <2>3, <3>3, SplitSound
  <2>4. CASE Execute(BatchQuery(ids), FALSE) /\ UNCHANGED <<task, jobs>>
    BY <1>a, <2>2, <2>4, BatchesSelectRows, StatementSound
  <2>. QED
    BY <2>1, <2>3, <2>4, QuietSound
<1>9. CASE Submit
  <2>1. PICK ids \in Fetches(unread) :
          jobs' = IF Valid(ids) = {} THEN jobs
                  ELSE [jobs EXCEPT ![turn] = Append(@, BatchQuery(ids))]
    BY <1>9 DEF Submit
  <2>2. pc = "fan" /\ UNCHANGED <<task, staged, copied>> /\ ids \in SUBSET unread
    BY <1>9 DEF Submit, Fetches
  <2>3. BatchQuery(ids) \subseteq Wanted(task)
    BY <2>2, BatchesSelectWanted DEF Reading, Fanning
  <2>4. turn \in Pool /\ jobs[turn] = <<>>
    <3>1. task.pool \in Nat
      BY <1>a, LayoutAssumption
    <3>. QED
      BY <2>2, <3>1 DEF FanInv, TypeOK, Pool
  <2>. DEFINE new == <<BatchQuery(ids)>>
  <2>5. Head(new) = BatchQuery(ids) /\ (jobs' = jobs \/ jobs' = [jobs EXCEPT ![turn] = new])
    BY <2>1, <2>4 DEF TypeOK
  <2>6. DOMAIN jobs = Pool /\ Head(new) \subseteq Wanted(task)
    BY <2>3, <2>5 DEF TypeOK
  <2>. HIDE DEF new
  <2>7. \A i \in Pool : jobs'[i] = jobs[i] \/ jobs'[i] = new
    BY <2>5, <2>6
  <2>8. \A i \in Pool : jobs'[i] # <<>> => Head(jobs'[i]) \subseteq Wanted(task)
    BY <2>6, <2>7 DEF SoundInv
  <2>. QED
    BY <2>2, <2>8 DEF SoundInv, Present, Pool
<1>10. ASSUME NEW i \in Pool, RunJob(i) \/ JobFails(i) PROVE SoundInv'
  BY <1>10, JobSound
<1>11. CASE \/ StartUpstream \/ BatchedPass \/ StreamedPass \/ EndPasses \/ StartDownstream
            \/ EndDownstream \/ Connect \/ Exhausted \/ NextRound \/ EndFan \/ EndSplit
            \/ StatementFails \/ FetchFails \/ UNCHANGED vars
            \/ \E i \in Pool : WorkerConnects(i)
  BY <1>11, QuietSound
  DEF StartUpstream, BatchedPass, StreamedPass, EndPasses, StartDownstream, EndDownstream,
      Connect, Exhausted, NextRound, EndFan, EndSplit, StatementFails, FetchFails,
      WorkerConnects, vars, poolVars
<1>. QED
  BY <1>1, <1>2, <1>3, <1>4, <1>5, <1>6, <1>7, <1>8, <1>9, <1>10, <1>11
  DEF Next, MainStep, Over

----------------------------------------------------------------------------
(* All of it holds of every copy.                                          *)

\* The initial states.
LEMMA InvInit == Init => TypeOK /\ FanInv /\ CursorInv /\ (Plain(task) => SoundInv)
<1>. SUFFICES ASSUME Init PROVE FanInv /\ CursorInv /\ SoundInv
  BY TypeInit
<1>1. FanInv
  BY DEF Init, FanInv, OneJobPerConnection, Pool, Fanning
<1>2. CursorInv
  BY DEF Init, CursorInv, Reading, Fanning
<1>3. SoundInv
  BY DEF Init, SoundInv, Present
<1>. QED
  BY <1>1, <1>2, <1>3

\* All of it holds of every copy, whatever fails.
LEMMA Invariants == Spec => [](TypeOK /\ FanInv /\ CursorInv /\ (Plain(task) => SoundInv))
<1>1. TypeOK /\ FanInv /\ CursorInv /\ (Plain(task) => SoundInv) /\ [Next]_vars
        => (TypeOK /\ FanInv /\ CursorInv /\ (Plain(task) => SoundInv))'
  <2>. SUFFICES ASSUME TypeOK, FanInv, CursorInv, Plain(task) => SoundInv, [Next]_vars
                PROVE  (TypeOK /\ FanInv /\ CursorInv /\ (Plain(task) => SoundInv))'
    OBVIOUS
  <2>1. task' = task
    BY StepsStore
  <2>2. Plain(task)' => Plain(task)
    BY <2>1
  <2>. QED
    BY <2>2, TypeStep, FanStep, CursorStep, SoundStep
<1>. QED
  BY <1>1, InvInit, PTL DEF Spec

----------------------------------------------------------------------------
(* Nothing twice.                                                          *)

\* A job still to run, or running, has the row.
InJob(r) == \E i \in Pool : jobs[i] # <<>> /\ r \in Head(jobs[i])

\* No OR in what filters an upstream table.
OrFree(t) == t.path = "upstream" => Len(t.condition) = 1

\* Nothing of the table has been copied before the first statement.
Untouched == \/ pc = "start"
             \/ task.path = "upstream" /\ pc \in {"temps", "passes"} /\ passes # {}

\* The statement of a whole pass.
PassQuery(t, p) == UpstreamQuery(t, PassJoins(t, p), p, {})

\* Without an index, what is still to be read or written is apart from what is
\* there: jobs have rows of their own, the cursor's IDs lead to rows of no
\* earlier batch, and only the last statement is for rows with a NULL.
OnceInv ==
    /\ \A r \in task.rows : copied[r] <= 1
    /\ \A i \in Pool : jobs[i] # <<>> => Head(jobs[i]) \cap Present = {}
    /\ \A i, j \in Pool : (i # j /\ jobs[i] # <<>> /\ jobs[j] # <<>>) =>
                              Head(jobs[i]) \cap Head(jobs[j]) = {}
    /\ Untouched => Present = {}
    /\ pc \in Reading => \A r \in task.rows :
          /\ r[batched] \in unread \ Nulls => r \notin Present /\ ~InJob(r)
          /\ (task.path = "upstream" /\ r[batched] \in Nulls) => r \notin Present /\ ~InJob(r)
    /\ (pc \in Reading \cup {"start"} /\ task.path = "upstream") => passes = {}
    /\ pc # "apply"

\* The copy is of one task, and nothing is taken back.
LEMMA StoreKeeps ==
    ASSUME TypeOK, NEW S \in SUBSET task.rows, Store(S), task' = task
    PROVE  Present' = Present \cup S
BY DEF TypeOK, Store, Present

\* A statement whose rows are not there brings each once.
LEMMA ExecuteOnce ==
    ASSUME TypeOK, task \in Layouts, ~task.upsert, \A r \in task.rows : copied[r] <= 1,
           NEW S \in SUBSET task.rows, S \cap Present = {},
           NEW single \in BOOLEAN, Execute(S, single), task' = task
    PROVE  /\ \A r \in task.rows : copied'[r] <= 1
           /\ Present' \subseteq Present \cup S
<1>1. ~task.phased
  BY LayoutAssumption
<1>2. PICK T \in Limited(S, single) : Store(T)
  BY <1>1 DEF Execute
<1>3. T \subseteq S
  BY <1>2 DEF Limited, kSubset
<1>4. \A r \in T : copied[r] = 0
  BY <1>3 DEF Present, TypeOK
<1>5. \A r \in task.rows : copied'[r] <= 1
  BY <1>2, <1>3, <1>4 DEF Store, TypeOK
<1>. QED
  BY <1>3, <1>5, ExecuteAdds

\* What a batch of IDs selects has one of the IDs, unless a delta pass drives it.
LEMMA BatchRows ==
    ASSUME TypeOK, CursorInv, pc \in Reading, NEW ids,
           task.path = "upstream" => pass = NoPlan
    PROVE  /\ BatchQuery(ids) \in SUBSET task.rows
           /\ \A r \in BatchQuery(ids) : r[batched] \in ids \ Nulls
<1>1. task \in Layouts /\ batched \in task.kcs /\ NoPlan \notin task.kcs
  BY LayoutAssumption DEF CursorInv
<1>2. CASE task.path = "downstream"
  BY <1>2 DEF BatchQuery, DownstreamQuery, Valid
<1>3. CASE task.path # "downstream"
  <2>. DEFINE joins == [PassJoins(task, pass) EXCEPT ![batched] = Valid(ids)]
  <2>1. joins[batched] = Valid(ids)
    BY <1>1 DEF PassJoins
  <2>2. BatchQuery(ids) = UpstreamQuery(task, joins, batched, {})
    BY <1>1, <1>3 DEF BatchQuery, CursorInv
  <2>. HIDE DEF joins
  <2>3. \A r \in BatchQuery(ids) : r[batched] \in Valid(ids)
    BY <1>1, <2>1, <2>2 DEF UpstreamQuery, Matches
  <2>. QED
    BY <1>1, <2>3, BatchesSelectRows DEF Valid
<1>. QED
  BY <1>1, <1>2, <1>3, BatchesSelectRows

\* Without a delta plan a pass has no driver.
LEMMA RecreateHasNoPlan ==
    ASSUME CursorInv, ~task.upsert
    PROVE  /\ task.fresh = NoPlan /\ ~task.phased
           /\ (task.path = "upstream" /\ pc \in Reading) => pass = NoPlan
           /\ task.path = "upstream" => passes \subseteq {NoPlan}
BY LayoutAssumption DEF CursorInv, Passes

\* What a task is known to be.
LEMMA LayoutFacts ==
    ASSUME NEW t \in Layouts
    PROVE  /\ t.pool \in Nat /\ t.relpages \in Nat
           /\ IsFiniteSet(t.rows) /\ IsFiniteSet(t.kcs)
           /\ \A r \in t.rows : t.pages[r] \in Nat
           /\ \A k \in t.kcs : IsFiniteSet(t.ids[t.group[k]])
<1>1. /\ t.pool \in Nat /\ t.relpages \in Nat
      /\ IsFiniteSet(t.rows) /\ IsFiniteSet(t.kcs)
      /\ t.pages \in [t.rows -> Nat]
      /\ \A g \in Groups(t) : IsFiniteSet(t.ids[g])
  BY LayoutAssumption
<1>2. \A r \in t.rows : t.pages[r] \in Nat
  BY <1>1
<1>3. \A k \in t.kcs : t.group[k] \in Groups(t)
  BY DEF Groups
<1>. QED
  BY <1>1, <1>2, <1>3

\* Page ranges do not overlap.
LEMMA RangesApart ==
    ASSUME task \in Layouts, Splittable(task), NEW i \in Pool, NEW j \in Pool, i # j
    PROVE  InRanges(task, i) \cap InRanges(task, j) = {}
<1>1. /\ task.pool \in Nat \ {0} /\ PerWorker(task) \in Nat
      /\ \A r \in task.rows : task.pages[r] \in Nat
  <2>1. task.pool \in Nat /\ task.pool > 0 /\ task.relpages \in Nat
    BY LayoutFacts DEF Splittable
  <2>2. PerWorker(task) \in Nat
    BY <2>1 DEF PerWorker
  <2>. QED
    BY <2>1, <2>2, LayoutFacts
<1>2. ASSUME NEW m \in Pool, NEW n \in Pool, m < n, NEW r \in task.rows,
             InRange(task, m, r), InRange(task, n, r)
      PROVE  FALSE
  <2>1. m \in Nat /\ n \in Nat /\ m <= n - 1 /\ m # task.pool
    BY <1>1, <1>2 DEF Pool
  <2>2. task.pages[r] < m * PerWorker(task) /\ task.pages[r] >= (n - 1) * PerWorker(task)
    BY <1>2, <2>1 DEF InRange
  <2>3. m * PerWorker(task) <= (n - 1) * PerWorker(task)
    <3>. DEFINE d == (n - 1) - m
                P == PerWorker(task)
    <3>1. d \in Nat /\ n - 1 = m + d /\ P \in Nat
      BY <1>1, <2>1
    <3>. HIDE DEF d, P
    <3>2. (m + d) * P = m * P + d * P /\ d * P \in Nat /\ m * P \in Nat
      BY <2>1, <3>1
    <3>3. m * P <= (m + d) * P
      BY <3>2
    <3>. QED
      BY <3>1, <3>3 DEF P
  <2>. QED
    BY <1>1, <2>1, <2>2, <2>3
<1>3. i < j \/ j < i
  BY <1>1 DEF Pool
<1>. QED
  BY <1>2, <1>3 DEF InRanges

\* Steps that neither store nor submit nor read.
LEMMA QuietOnce ==
    ASSUME OnceInv, UNCHANGED <<task, jobs, copied>>,
           pc' \in Reading => /\ pc \in Reading /\ batched' = batched
                              /\ unread' \subseteq unread /\ passes' = passes,
           pc' = "start" => pc = "start" /\ passes' = passes,
           Untouched' => Untouched, pc' # "apply"
    PROVE  OnceInv'
<1>1. Present' = Present /\ Pool' = Pool
  BY DEF Present, Pool
<1>2. \A r : InJob(r)' = InJob(r)
  BY <1>1 DEF InJob
<1>. QED
  BY <1>1, <1>2 DEF OnceInv

\* A statement of the main thread, with its pool at rest.
LEMMA StatementOnce ==
    ASSUME TypeOK, FanInv, task \in Layouts, ~task.upsert, OnceInv,
           NEW S \in SUBSET task.rows, S \cap Present = {},
           NEW single \in BOOLEAN, Execute(S, single), UNCHANGED <<task, jobs>>,
           pc \notin Fanning \cup {"split"}, ~Untouched', pc' # "apply",
           pc' \in Reading =>
              /\ pc \in Reading /\ batched' = batched /\ unread' \subseteq unread
              /\ passes' = passes
              /\ \A r \in S : r[batched] \notin unread' \cup Nulls
    PROVE  OnceInv'
<1>1. /\ \A r \in task.rows : copied'[r] <= 1
      /\ Present' \subseteq Present \cup S
  BY ExecuteOnce DEF OnceInv
<1>2. \A i \in Pool : jobs'[i] = <<>>
  BY DEF FanInv
<1>3. \A r : ~InJob(r)'
  BY <1>2 DEF InJob, Pool
<1>. QED
  BY <1>1, <1>2, <1>3 DEF OnceInv, Pool, Untouched

\* A split over page ranges.
LEMMA SplitOnce ==
    ASSUME task \in Layouts, OnceInv, NEW query, Split(query), Splittable(task),
           \A i \in Pool : query[i] \subseteq InRanges(task, i) \ Present
    PROVE  OnceInv'
<1>1. UNCHANGED <<task, copied>> /\ pc' = "split" /\ Pool' = Pool
  BY DEF Split, Pool
<1>2. ASSUME NEW i \in Pool PROVE Head(jobs'[i]) = query[i]
  <2>1. jobs'[i] = <<query[i]>>
    BY DEF Split
  <2>2. Head(<<query[i]>>) = query[i]
    OBVIOUS
  <2>. QED
    BY <2>1, <2>2
<1>3. Present' = Present
  BY <1>1 DEF Present
<1>4. \A i, j \in Pool : i # j => Head(jobs'[i]) \cap Head(jobs'[j]) = {}
  BY <1>2, RangesApart
<1>. QED
  BY <1>1, <1>2, <1>3, <1>4 DEF OnceInv, Untouched, Reading, Fanning

\* A job brings each of its rows once.
LEMMA JobOnce ==
    ASSUME TypeOK, FanInv, task \in Layouts, ~task.upsert, OnceInv,
           NEW i \in Pool, RunJob(i) \/ JobFails(i)
    PROVE  OnceInv'
<1>. DEFINE S == Head(jobs[i])
<1>1. /\ jobs[i] # <<>> /\ S \in SUBSET task.rows
      /\ \A j \in Pool : jobs'[j] = IF j = i THEN <<>> ELSE jobs[j]
  BY OneJobLess
<1>2. jobs[i] # <<>> /\ S \in SUBSET task.rows
  BY <1>1
<1>3. UNCHANGED <<task, pc, passes, batched, unread>> /\ Pool' = Pool
  BY DEF RunJob, JobFails, cursorVars, Pool
<1>4. Present' \subseteq Present \cup S
  BY <1>2, <1>3, StoreAdds DEF RunJob, JobFails, Present
<1>5. S \cap Present = {}
  BY <1>2 DEF OnceInv
<1>6. \A r \in S : copied[r] = 0
  BY <1>2, <1>5 DEF Present, TypeOK
<1>7. \A r \in task.rows : copied'[r] <= 1
  BY <1>2, <1>6 DEF RunJob, JobFails, Store, OnceInv, TypeOK
<1>8. \A r : (InJob(r)' => InJob(r)) /\ (r \in S => InJob(r))
  BY <1>1, <1>3 DEF InJob
<1>9. ~Untouched'
  BY <1>3 DEF Untouched, RunJob, JobFails
<1>10. \A j \in Pool : jobs'[j] # <<>> =>
          jobs'[j] = jobs[j] /\ Head(jobs[j]) \cap S = {}
  BY <1>1 DEF OnceInv
<1>. HIDE DEF S
<1>11. \A j \in Pool : jobs'[j] # <<>> => Head(jobs'[j]) \cap Present' = {}
  BY <1>4, <1>10 DEF OnceInv
<1>. QED
  BY <1>3, <1>4, <1>7, <1>8, <1>9, <1>10, <1>11 DEF OnceInv

\* No step of a copy without an index brings a row that is there.
LEMMA OnceStep ==
    ASSUME TypeOK, FanInv, CursorInv, OrFree(task), ~task.upsert, OnceInv, [Next]_vars
    PROVE  OnceInv'
<1>a. task \in Layouts /\ NoPlan \notin task.kcs
  BY LayoutAssumption DEF CursorInv
<1>b. /\ task.fresh = NoPlan /\ ~task.phased
      /\ (task.path = "upstream" /\ pc \in Reading) => pass = NoPlan
      /\ task.path = "upstream" => passes \subseteq {NoPlan}
  BY RecreateHasNoPlan
<1>c. pc \notin Fanning \cup {"split"} => \A r : ~InJob(r)
  BY DEF FanInv, InJob
<1>d. Untouched => Present = {}
  BY DEF OnceInv
<1>1. CASE CopyTarget
  <2>1. pc = "start" /\ task.path = "direct" /\ Present = {}
    BY <1>1, <1>d DEF CopyTarget, Untouched
  <2>2. CASE Splittable(task)
    <3>1. Split([i \in Pool |-> InRanges(task, i) \cap DirectSplitQuery(task)])
      BY <1>1, <2>2 DEF CopyTarget
    <3>. QED
      BY <1>a, <2>1, <2>2, <3>1, SplitOnce
  <2>3. CASE ~Splittable(task)
    <3>1. /\ Execute(DirectQuery(task), FALSE) /\ UNCHANGED <<task, jobs>> /\ pc' = "done"
      BY <1>1, <2>3 DEF CopyTarget, poolVars
    <3>2. DirectQuery(task) \in SUBSET task.rows
      BY <1>a, QueriesSelectRows
    <3>. QED
      BY <1>a, <2>1, <3>1, <3>2, StatementOnce DEF Untouched, Reading, Fanning
  <2>. QED
    BY <2>2, <2>3
<1>2. CASE CopyWhole
  <2>1. pc = "start" /\ task.path = "whole" /\ Present = {}
    BY <1>2, <1>d DEF CopyWhole, Untouched
  <2>2. CASE Splittable(task) /\ task.limit = Unlimited
    <3>1. Split([i \in Pool |-> InRanges(task, i)])
      BY <1>2, <2>2 DEF CopyWhole
    <3>. QED
      BY <1>a, <2>1, <2>2, <3>1, SplitOnce
  <2>3. CASE ~(Splittable(task) /\ task.limit = Unlimited)
    <3>1. /\ Execute(task.rows, TRUE) /\ UNCHANGED <<task, jobs>> /\ pc' = "done"
      BY <1>2, <2>3 DEF CopyWhole, poolVars
    <3>. QED
      BY <1>a, <2>1, <3>1, StatementOnce DEF Untouched, Reading, Fanning
  <2>. QED
    BY <2>2, <2>3
<1>3. CASE StartUpstream
  <2>1. /\ pc = "start" /\ task.path = "upstream" /\ UNCHANGED <<task, jobs, copied>>
        /\ pc' \in {"done", "temps", "first", "batches", "passes"}
        /\ pc' \in {"first", "batches"} => passes' = passes
    BY <1>3 DEF StartUpstream, poolVars
  <2>2. Present' = {} /\ passes = {}
    BY <1>d, <2>1 DEF Present, Untouched, OnceInv
  <2>3. (\A r : ~InJob(r)') /\ \A i \in Pool : jobs'[i] = <<>>
    BY <1>c, <2>1 DEF InJob, Pool, Fanning, FanInv
  <2>. QED
    BY <2>1, <2>2, <2>3 DEF OnceInv, Reading, Fanning, Pool
<1>4. CASE TempPass \/ ResidentPass
  <2>1. PICK p \in passes : /\ Execute(PassQuery(task, p), TRUE) /\ passes' = passes \ {p}
    BY <1>4 DEF TempPass, ResidentPass, PassQuery
  <2>2. /\ task.path = "upstream" /\ UNCHANGED <<task, pc, jobs>> /\ pc \in {"temps", "passes"}
    BY <1>4 DEF TempPass, ResidentPass, poolVars, CursorInv
  <2>3. Present = {} /\ passes' = {}
    BY <1>b, <1>d, <2>1, <2>2 DEF Untouched
  <2>4. PassQuery(task, p) \in SUBSET task.rows
    BY <1>a, QueriesSelectRows DEF PassQuery
  <2>. QED
    BY <1>a, <2>1, <2>2, <2>3, <2>4, StatementOnce DEF Untouched, Reading, Fanning
<1>5. CASE BatchedPass \/ StreamedPass
  <2>1. /\ pc = "passes" /\ task.path = "upstream" /\ UNCHANGED <<task, jobs, copied>>
        /\ pc' = "batches" /\ \E p \in passes : passes' = passes \ {p}
    BY <1>5 DEF BatchedPass, StreamedPass, poolVars
  <2>2. Present' = {} /\ passes' = {}
    BY <1>b, <1>d, <2>1 DEF Present, Untouched
  <2>3. (\A r : ~InJob(r)') /\ \A i \in Pool : jobs'[i] = <<>>
    BY <1>c, <2>1 DEF InJob, Pool, Fanning, FanInv
  <2>. QED
    BY <2>1, <2>2, <2>3 DEF OnceInv, Reading, Fanning, Pool
<1>6. CASE CopyBatch
  <2>1. PICK ids \in Fetches(unread) :
          /\ unread' = unread \ ids
          /\ IF Valid(ids) = {} THEN UNCHANGED <<staged, copied>>
             ELSE Execute(BatchQuery(ids), task.path = "upstream" /\ first
                                             /\ Cardinality(ids) < BatchSize)
    BY <1>6 DEF CopyBatch
  <2>2. /\ UNCHANGED <<task, pc, passes, batched, jobs>> /\ pc = "batches"
        /\ ids \in SUBSET unread
    BY <1>6 DEF CopyBatch, poolVars, Fetches
  <2>3. ~Untouched /\ ~Untouched'
    BY <2>2 DEF Untouched
  <2>4. CASE Valid(ids) = {}
    <3>1. UNCHANGED copied
      BY <2>1, <2>4
    <3>. QED
      BY <2>1, <2>2, <2>3, <3>1, QuietOnce
  <2>5. CASE Valid(ids) # {}
    <3>. DEFINE single == task.path = "upstream" /\ first /\ Cardinality(ids) < BatchSize
    <3>1. Execute(BatchQuery(ids), single) /\ single \in BOOLEAN
      BY <2>1, <2>5
    <3>. HIDE DEF single
    <3>2. /\ BatchQuery(ids) \in SUBSET task.rows
          /\ \A r \in BatchQuery(ids) : r[batched] \in ids \ Nulls
      BY <1>b, <2>2, BatchRows DEF Reading
    <3>3. BatchQuery(ids) \cap Present = {}
      BY <2>2, <3>2 DEF OnceInv, Reading
    <3>. QED
      BY <1>a, <2>1, <2>2, <2>3, <3>1, <3>2, <3>3, StatementOnce DEF Fanning
  <2>. QED
    BY <2>4, <2>5
<1>7. CASE EndBatches
  <2>1. UNCHANGED <<task, jobs, passes>> /\ pc = "batches" /\ pc' = "passes"
    BY <1>7 DEF EndBatches, poolVars
  <2>2. ~Untouched'
    BY <2>1 DEF Untouched, OnceInv, Reading
  <2>3. CASE task.path = "downstream"
    BY <1>7, <2>1, <2>2, <2>3, QuietOnce DEF EndBatches, Reading, Fanning
  <2>4. CASE task.path # "downstream"
    <3>. DEFINE S == NeutralRows(task, PassJoins(task, pass), batched, pass)
    <3>1. Execute(S, FALSE) /\ S \in SUBSET task.rows
      BY <1>7, <1>a, <2>4, QueriesSelectRows DEF EndBatches
    <3>2. \A r \in S : r[batched] \in Nulls
      BY DEF NeutralRows, UpstreamQuery
    <3>3. task.path = "upstream"
      BY <2>1, <2>4 DEF CursorInv, Reading
    <3>. HIDE DEF S
    <3>4. S \cap Present = {}
      BY <2>1, <3>1, <3>2, <3>3 DEF OnceInv, Reading
    <3>. QED
      BY <1>a, <2>1, <2>2, <3>1, <3>4, StatementOnce DEF Reading, Fanning
  <2>. QED
    BY <2>3, <2>4
<1>8. CASE ReadMissing
  <2>1. PICK k \in passes :
          LET missing == MissingIds(task, k, Present) IN
          /\ batched' = k
          /\ IF task.temps THEN Execute(DownstreamQuery(task, k, missing), FALSE) /\ pc' = pc
             ELSE unread' = missing /\ UNCHANGED copied /\ pc' \in {"connect", "batches"}
    BY <1>8 DEF ReadMissing
  <2>2. /\ UNCHANGED <<task, jobs>> /\ task.path = "downstream" /\ pc = "passes"
    BY <1>8 DEF ReadMissing, poolVars
  <2>. DEFINE missing == MissingIds(task, k, Present)
  <2>3. \A r \in task.rows : r[k] \in missing \ Nulls => r \notin Present
    BY DEF MissingIds
  <2>4. CASE task.temps
    <3>1. DownstreamQuery(task, k, missing) \cap Present = {}
      BY <2>3 DEF DownstreamQuery, Valid
    <3>2. DownstreamQuery(task, k, missing) \in SUBSET task.rows
      BY <1>a, QueriesSelectRows
    <3>. QED
      BY <1>a, <2>1, <2>2, <2>4, <3>1, <3>2, StatementOnce DEF Untouched, Reading, Fanning
  <2>5. CASE ~task.temps
    <3>1. /\ unread' = missing /\ batched' = k /\ Present' = Present
          /\ pc' \in {"connect", "batches"}
      BY <2>1, <2>2, <2>5 DEF Present
    <3>2. (\A r : ~InJob(r)') /\ \A i \in Pool : jobs'[i] = <<>>
      BY <1>c, <2>2 DEF InJob, Pool, Fanning, FanInv
    <3>. HIDE DEF missing
    <3>3. \A r \in task.rows : copied'[r] <= 1
      BY <2>1, <2>5 DEF OnceInv
    <3>. QED
      BY <2>2, <2>3, <3>1, <3>2, <3>3 DEF OnceInv, Untouched, Pool
  <2>. QED
    BY <2>4, <2>5
<1>9. CASE FirstFetch
  <2>0. /\ pc = "first" /\ task.path = "upstream"
    BY <1>9 DEF FirstFetch, CursorInv
  <2>1. PICK ids \in Fetches(unread) :
          \/ UNCHANGED <<task, jobs, copied, cursorVars, passes>> /\ pc' \in {"done", "connect"}
          \/ /\ Splittable(task)
             /\ Split([i \in Pool |->
                  AndUnwrapped(InRanges(task, i)
                                 \cap {r \in task.rows : r[batched] \in Valid(ids)},
                               task.condition)])
          \/ Execute(BatchQuery(ids), FALSE) /\ UNCHANGED <<task, jobs>> /\ pc' = "done"
    BY <1>9 DEF FirstFetch, poolVars
  <2>2. ids \in SUBSET unread
    BY DEF Fetches
  <2>3. \A r \in task.rows : r[batched] \in ids \ Nulls => r \notin Present
    BY <2>0, <2>2 DEF OnceInv, Reading
  <2>4. CASE Splittable(task) /\ Split([i \in Pool |->
                  AndUnwrapped(InRanges(task, i)
                                 \cap {r \in task.rows : r[batched] \in Valid(ids)},
                               task.condition)])
    <3>1. \A S : AndUnwrapped(S, task.condition) = S \cap Either(task.condition)
      BY <1>a, <2>0, PlainCondition DEF OrFree
    <3>2. \A i \in Pool : AndUnwrapped(InRanges(task, i)
                                         \cap {r \in task.rows : r[batched] \in Valid(ids)},
                                       task.condition) \subseteq InRanges(task, i) \ Present
      BY <2>3, <3>1 DEF Valid
    <3>. QED
      BY <1>a, <2>4, <3>2, SplitOnce
  <2>5. CASE Execute(BatchQuery(ids), FALSE) /\ UNCHANGED <<task, jobs>> /\ pc' = "done"
    <3>1. /\ BatchQuery(ids) \in SUBSET task.rows
          /\ \A r \in BatchQuery(ids) : r[batched] \in ids \ Nulls
      BY <1>b, <2>0, BatchRows DEF Reading
    <3>2. BatchQuery(ids) \cap Present = {}
      BY <2>3, <3>1
    <3>. QED
      BY <1>a, <2>0, <2>5, <3>1, <3>2, StatementOnce DEF Untouched, Reading, Fanning
  <2>6. CASE UNCHANGED <<task, jobs, copied, cursorVars, passes>> /\ pc' \in {"done", "connect"}
    BY <2>0, <2>6, QuietOnce DEF cursorVars, Untouched, Reading, Fanning
  <2>. QED
    BY <2>1, <2>4, <2>5, <2>6
<1>10. CASE Submit
  <2>1. PICK ids \in Fetches(unread) :
          /\ unread' = unread \ ids
          /\ jobs' = IF Valid(ids) = {} THEN jobs
                     ELSE [jobs EXCEPT ![turn] = Append(@, BatchQuery(ids))]
    BY <1>10 DEF Submit
  <2>2. /\ pc = "fan" /\ pc' \in {"fan", "drain"} /\ ids \in SUBSET unread
        /\ UNCHANGED <<task, passes, batched, copied>> /\ Pool' = Pool
    BY <1>10 DEF Submit, Fetches, Pool
  <2>3. Present' = Present
    BY <2>2 DEF Present
  <2>4. CASE Valid(ids) = {}
    <3>1. UNCHANGED jobs
      BY <2>1, <2>4
    <3>. QED
      BY <2>1, <2>2, <3>1, QuietOnce DEF Reading, Fanning, Untouched
  <2>5. CASE Valid(ids) # {}
    <3>. DEFINE S == BatchQuery(ids)
    <3>1. turn \in Pool /\ jobs[turn] = <<>>
      BY <1>a, <2>2, LayoutFacts DEF FanInv, TypeOK, Pool
    <3>2. jobs' = [jobs EXCEPT ![turn] = <<S>>] /\ Head(<<S>>) = S
      BY <2>1, <2>5, <3>1 DEF TypeOK
    <3>3. S \in SUBSET task.rows /\ \A r \in S : r[batched] \in ids \ Nulls
      BY <1>b, <2>2, BatchRows DEF Reading, Fanning
    <3>4. \A r \in S : r \notin Present /\ ~InJob(r)
      BY <2>2, <3>3 DEF OnceInv, Reading, Fanning
    <3>. HIDE DEF S
    <3>5. /\ jobs'[turn] # <<>> /\ Head(jobs'[turn]) = S
          /\ \A i \in Pool \ {turn} : jobs'[i] = jobs[i]
      BY <3>1, <3>2 DEF TypeOK
    <3>6. \A r : InJob(r)' => InJob(r) \/ r \in S
      BY <2>2, <3>5 DEF InJob
    <3>7. \A i \in Pool \ {turn} : jobs[i] # <<>> => Head(jobs[i]) \cap S = {}
      BY <3>4 DEF InJob
    <3>8. \A i \in Pool : jobs'[i] # <<>> => Head(jobs'[i]) \cap Present = {}
      BY <3>1, <3>4, <3>5 DEF OnceInv
    <3>9. \A i, j \in Pool : (i # j /\ jobs'[i] # <<>> /\ jobs'[j] # <<>>) =>
                                Head(jobs'[i]) \cap Head(jobs'[j]) = {}
      BY <3>5, <3>7 DEF OnceInv
    <3>10. \A r \in task.rows :
              /\ r[batched] \in unread' \ Nulls => r \notin Present /\ ~InJob(r)'
              /\ (task.path = "upstream" /\ r[batched] \in Nulls) => r \notin Present /\ ~InJob(r)'
      BY <2>1, <2>2, <3>3, <3>6 DEF OnceInv, Reading, Fanning
    <3>. QED
      BY <2>2, <2>3, <3>8, <3>9, <3>10 DEF OnceInv, Untouched, Reading, Fanning
  <2>. QED
    BY <2>4, <2>5
<1>11. ASSUME NEW i \in Pool, RunJob(i) \/ JobFails(i) PROVE OnceInv'
  BY <1>11, <1>a, JobOnce
<1>12. CASE \/ EndPasses \/ StartDownstream \/ EndDownstream \/ Connect \/ Exhausted
            \/ NextRound \/ EndFan \/ EndSplit \/ StatementFails \/ FetchFails
            \/ UNCHANGED vars \/ \E i \in Pool : WorkerConnects(i)
  <2>1. UNCHANGED <<task, jobs, copied>> /\ (Untouched' => Untouched)
    BY <1>12, <1>b
    DEF EndPasses, StartDownstream, EndDownstream, Connect, Exhausted, NextRound, EndFan,
        EndSplit, StatementFails, FetchFails, WorkerConnects, vars, poolVars, Untouched
  <2>2. /\ pc' \in Reading => /\ pc \in Reading /\ batched' = batched
                              /\ unread' \subseteq unread /\ passes' = passes
        /\ pc' = "start" => pc = "start" /\ passes' = passes
    BY <1>12
    DEF EndPasses, StartDownstream, EndDownstream, Connect, Exhausted, NextRound, EndFan,
        EndSplit, StatementFails, FetchFails, WorkerConnects, vars, poolVars, cursorVars,
        Reading, Fanning
  <2>3. pc' = "apply" => pc = "apply"
    BY <1>12, <1>b
    DEF EndPasses, StartDownstream, EndDownstream, Connect, Exhausted, NextRound, EndFan,
        EndSplit, StatementFails, FetchFails, WorkerConnects, vars, poolVars
  <2>. QED
    BY <2>1, <2>2, <2>3, QuietOnce DEF OnceInv
<1>. QED
  BY <1>1, <1>2, <1>3, <1>4, <1>5, <1>6, <1>7, <1>8, <1>9, <1>10, <1>11, <1>12
  DEF Next, MainStep, Over, OnceInv, Apply

----------------------------------------------------------------------------
(* All of what is wanted.                                                  *)

\* The columns that others refer to are a key: no two rows have one ID.
KeyedByIds(t) ==
    t.path = "downstream" =>
        \A k \in t.kcs : \A r, s \in t.rows : (r[k] = s[k] /\ r[k] \notin Nulls) => r = s

\* The row limit has been used up.
Satisfied == /\ task.path \in {"upstream", "whole"} /\ task.limit # Unlimited
             /\ Cardinality(Present) >= task.limit

\* The cursor has still to return the row's ID, or the neutral rows that come
\* after all IDs will have it.
Unread(r) ==
    /\ pc \in Reading
    /\ \/ r[batched] \in unread \ Nulls
       \/ task.path = "upstream" /\ pc = "batches" /\ r[batched] \in Nulls
    /\ task.path = "upstream" => r \in PassQuery(task, pass)

\* A pass still to come is for the row.
Ahead(r) ==
    \E p \in passes : IF task.path = "upstream" THEN r \in PassQuery(task, p)
                      ELSE r[p] \in task.ids[task.group[p]] \ Nulls

\* Where a wanted row may be.
Due(r) == r \in Present \/ (task.phased /\ r \in staged) \/ InJob(r) \/ Unread(r) \/ Ahead(r)

\* Which places go with which path.
PlacesInv ==
    /\ failed => pc \in Fanning \cup {"split", "failed"}
    /\ pc \in {"start", "first", "split"} => passes = {}
    /\ (task.path = "upstream" /\ pc \in {"connect"} \cup Fanning) => passes = {}
    /\ task.path \in {"direct", "whole"} => pc \in {"start", "split", "done", "failed"}
    /\ pc = "apply" => passes = {} /\ task.path = "downstream"
    /\ pc = "split" => task.path # "downstream"

\* Until something fails or the row limit is used up, no wanted row is lost.
Kept(r) == IF pc = "done" THEN r \in Present ELSE Due(r)
CoverInv ==
    (pc \notin {"start", "failed"} /\ ~failed /\ ~Satisfied) => \A r \in Wanted(task) : Kept(r)

\* A quotient and its remainder.
LEMMA DivFacts ==
    ASSUME NEW x \in Nat, NEW d \in Nat \ {0}
    PROVE  x \div d \in Nat /\ (x \div d) * d <= x /\ x < (x \div d + 1) * d
OBVIOUS

\* Page ranges leave no page out.
LEMMA RangesCover ==
    ASSUME task \in Layouts, Splittable(task), NEW r \in task.rows
    PROVE  \E i \in Pool : r \in InRanges(task, i)
<1>. DEFINE n == task.pool
            P == PerWorker(task)
            x == task.pages[r]
<1>1. n \in Nat \ {0} /\ x \in Nat /\ task.relpages \in Nat /\ task.relpages >= n * MinPages
  BY LayoutFacts DEF Splittable
<1>2. P \in Nat \ {0}
  <2>1. n * MinPages >= n
    BY <1>1, StatementAssumption
  <2>2. task.relpages \div n \in Nat /\ task.relpages < (task.relpages \div n + 1) * n
    BY <1>1, DivFacts
  <2>3. task.relpages >= n
    <3>1. n * MinPages \in Nat
      BY <1>1, StatementAssumption
    <3>. QED
      BY <1>1, <2>1, <3>1
  <2>4. task.relpages \div n # 0
    BY <1>1, <2>2, <2>3
  <2>. QED
    BY <2>2, <2>4 DEF PerWorker
<1>3. CASE x >= (n - 1) * P
  <2>1. n \in Pool
    BY <1>1 DEF Pool
  <2>. QED
    BY <1>3, <2>1 DEF InRanges, InRange
<1>4. CASE x < (n - 1) * P
  <2>. DEFINE q == x \div P
  <2>1. q \in Nat /\ q * P <= x /\ x < (q + 1) * P
    BY <1>1, <1>2, DivFacts
  <2>. HIDE DEF q, n, P, x
  <2>2. q * P < (n - 1) * P
    BY <1>1, <1>2, <1>4, <2>1
  <2>3. q < n - 1
    <3>1. SUFFICES ASSUME n - 1 <= q PROVE FALSE
      BY <1>1, <2>1
    <3>2. (n - 1) * P <= q * P
      <4>. DEFINE d == q - (n - 1)
      <4>1. d \in Nat /\ q = (n - 1) + d /\ n - 1 \in Nat
        BY <1>1, <2>1, <3>1
      <4>. HIDE DEF d
      <4>2. ((n - 1) + d) * P = (n - 1) * P + d * P /\ d * P \in Nat /\ (n - 1) * P \in Nat
        BY <1>2, <4>1
      <4>. QED
        BY <4>1, <4>2
    <3>. QED
      BY <1>1, <1>2, <2>1, <2>2, <3>2
  <2>4. q + 1 \in 1 .. n /\ (q + 1) - 1 = q
    BY <1>1, <2>1, <2>3
  <2>5. x >= ((q + 1) - 1) * P /\ x < (q + 1) * P
    BY <1>1, <1>2, <2>1, <2>4
  <2>. QED
    BY <2>4, <2>5 DEF InRanges, InRange, Pool, n, P, x
<1>. QED
  BY <1>1, <1>2, <1>3, <1>4

\* Whatever is wanted upstream, some pass selects.
LEMMA PassesCover ==
    ASSUME NEW t \in Layouts, t.path = "upstream", NEW r \in Wanted(t)
    PROVE  \E p \in Passes(t) : /\ r \in PassQuery(t, p)
                                /\ p # NoPlan => Valid(t.fresh[t.group[p]]) # {}
<1>1. /\ r \in t.rows \cap Either(t.condition)
      /\ \A k \in t.kcs : r[k] \in Nulls \/ r[k] \in t.ids[t.group[k]]
      /\ NoPlan \notin t.kcs
  BY LayoutAssumption DEF Wanted, WantedUpstream
<1>2. PICK k \in t.kcs :
        /\ r[k] \notin Nulls
        /\ IF t.fresh = NoPlan THEN r[k] \in t.ids[t.group[k]]
           ELSE t.group[k] \in DOMAIN t.fresh /\ r[k] \in t.fresh[t.group[k]]
  BY DEF Wanted, WantedUpstream
<1>. DEFINE p == IF t.fresh = NoPlan THEN NoPlan ELSE k
            joins == PassJoins(t, p)
<1>3. p \in Passes(t)
  BY <1>2 DEF Passes
<1>4. /\ DOMAIN joins = t.kcs
      /\ \A j \in t.kcs : joins[j] = Valid(IF j = p THEN t.fresh[t.group[j]] ELSE t.ids[t.group[j]])
  BY DEF PassJoins
<1>5. r[k] \in joins[k]
  BY <1>1, <1>2, <1>4 DEF Valid
<1>6. \A j \in t.kcs : r[j] \in Nulls \/ r[j] \in joins[j]
  BY <1>1, <1>4, <1>5 DEF Valid
<1>7. k = p \/ p = NoPlan
  OBVIOUS
<1>8. p # NoPlan => r[k] \in Valid(t.fresh[t.group[p]])
  BY <1>2 DEF Valid
<1>9. PassQuery(t, p) = UpstreamQuery(t, joins, p, {})
  BY DEF PassQuery
<1>. HIDE DEF p, joins
<1>10. r \in PassQuery(t, p)
  BY <1>1, <1>2, <1>4, <1>5, <1>6, <1>7, <1>9 DEF UpstreamQuery, Matches
<1>. QED
  BY <1>3, <1>8, <1>10

\* A batch takes the rows of its IDs.
LEMMA BatchTakes ==
    ASSUME TypeOK, CursorInv, pc \in Reading, NEW ids, NEW r \in task.rows,
           r[batched] \in ids \ Nulls,
           task.path = "upstream" => r \in PassQuery(task, pass)
    PROVE  r \in BatchQuery(ids)
<1>1. /\ task \in Layouts /\ batched \in task.kcs /\ NoPlan \notin task.kcs
      /\ task.path \in {"upstream", "downstream"}
  BY LayoutAssumption DEF CursorInv
<1>2. CASE task.path = "downstream"
  BY <1>2 DEF BatchQuery, DownstreamQuery, Valid
<1>3. CASE task.path = "upstream"
  <2>. DEFINE whole == PassJoins(task, pass)
              joins == [whole EXCEPT ![batched] = Valid(ids)]
              required == IF pass = NoPlan THEN batched ELSE pass
  <2>1. DOMAIN whole = task.kcs
    BY DEF PassJoins
  <2>2. /\ r \in task.rows \cap Either(task.condition)
        /\ \A k \in task.kcs : r[k] \in Nulls \/ r[k] \in whole[k]
        /\ pass # NoPlan => pass \in task.kcs /\ r[pass] \in whole[pass]
    BY <1>3, <2>1 DEF PassQuery, UpstreamQuery, Matches
  <2>3. /\ DOMAIN joins = task.kcs /\ joins[batched] = Valid(ids)
        /\ \A k \in task.kcs \ {batched} : joins[k] = whole[k]
    BY <1>1, <2>1
  <2>4. BatchQuery(ids) = UpstreamQuery(task, joins, required, {})
    BY <1>3 DEF BatchQuery
  <2>. HIDE DEF whole, joins
  <2>5. r[batched] \in joins[batched]
    BY <2>3 DEF Valid
  <2>6. \A k \in task.kcs : r[k] \in Nulls \/ r[k] \in joins[k]
    BY <2>2, <2>3, <2>5
  <2>7. required \in task.kcs /\ r[required] \in joins[required]
    BY <1>1, <2>2, <2>3, <2>5
  <2>. HIDE DEF required
  <2>. QED
    BY <2>2, <2>3, <2>4, <2>6, <2>7 DEF UpstreamQuery, Matches
<1>. QED
  BY <1>1, <1>2, <1>3

\* The neutral pass takes the rows of a pass that no batch was for.
LEMMA NeutralTakes ==
    ASSUME NEW t \in Layouts, t.path = "upstream", NEW p, NEW b \in t.kcs,
           NEW r \in PassQuery(t, p), r[b] \in Nulls
    PROVE  r \in NeutralRows(t, PassJoins(t, p), b, p)
<1>. DEFINE joins == PassJoins(t, p)
            remaining == [k \in t.kcs \ {b} |-> joins[k]]
<1>1. DOMAIN joins = t.kcs /\ \A k \in t.kcs : joins[k] \cap Nulls = {}
  BY DEF PassJoins, Valid
<1>2. /\ r \in t.rows \cap Either(t.condition)
      /\ \A k \in t.kcs : r[k] \in Nulls \/ r[k] \in joins[k]
      /\ \E k \in t.kcs : (k = p \/ p = NoPlan) /\ r[k] \in joins[k]
  BY <1>1 DEF PassQuery, UpstreamQuery, Matches
<1>3. r[b] \notin joins[b]
  BY <1>1
<1>4. DOMAIN remaining = t.kcs \ {b} /\ \A k \in t.kcs \ {b} : remaining[k] = joins[k]
  OBVIOUS
<1>5. p # b
  <2>1. NoPlan \notin t.kcs
    BY LayoutAssumption
  <2>. QED
    BY <1>2, <1>3, <2>1
<1>6. NeutralRows(t, joins, b, p) = UpstreamQuery(t, remaining, p, {b})
  BY <1>5 DEF NeutralRows
<1>. HIDE DEF joins, remaining
<1>7. r \in UpstreamQuery(t, remaining, p, {b})
  BY <1>2, <1>3, <1>4 DEF UpstreamQuery, Matches
<1>. QED
  BY <1>6, <1>7 DEF joins

\* A fetch that is not full is all there was.
LEMMA ShortFetch ==
    ASSUME NEW S, IsFiniteSet(S), NEW ids \in Fetches(S), Cardinality(ids) < BatchSize
    PROVE  ids = S
<1>1. ids \in SUBSET S /\ Cardinality(ids) = Min({BatchSize, Cardinality(S)})
  BY DEF Fetches
<1>2. Cardinality(S) \in Nat /\ BatchSize \in Nat
  BY FS_CardinalityType, StatementAssumption
<1>3. Min({BatchSize, Cardinality(S)}) \in {BatchSize, Cardinality(S)}
  BY <1>2 DEF Min
<1>4. Cardinality(ids) = Cardinality(S)
  BY <1>1, <1>2, <1>3
<1>. QED
  BY <1>1, <1>4, FS_Subset

LEMMA Grows ==
    ASSUME TypeOK, [Next]_vars
    PROVE  task' = task /\ Pool' = Pool /\ Present \subseteq Present'
<1>1. task' = task /\ Pool' = Pool
  BY StepsStore DEF Pool
<1>2. CASE copied' = copied
  BY <1>1, <1>2 DEF Present
<1>3. ASSUME NEW S, Store(S) PROVE Present \subseteq Present'
  BY <1>1, <1>3 DEF Store, Present, TypeOK
<1>. QED
  BY <1>1, <1>2, <1>3, StepsStore

\* What is used up stays so.
LEMMA SatisfiedStays ==
    ASSUME TypeOK, task \in Layouts, Satisfied, task' = task, Present \subseteq Present'
    PROVE  Satisfied'
<1>1. IsFiniteSet(task.rows) /\ task.limit \in Nat
  BY LayoutAssumption DEF Satisfied
<1>2. IsFiniteSet(Present') /\ IsFiniteSet(Present)
  <2>1. Present' \subseteq task.rows /\ Present \subseteq task.rows
    BY DEF Present
  <2>. QED
    BY <1>1, <2>1, FS_Subset
<1>3. Cardinality(Present) <= Cardinality(Present')
  BY <1>2, FS_Subset
<1>4. Cardinality(Present) \in Nat /\ Cardinality(Present') \in Nat
  BY <1>2, FS_CardinalityType
<1>5. Cardinality(Present') >= task.limit
  BY <1>1, <1>3, <1>4 DEF Satisfied
<1>. QED
  BY <1>5 DEF Satisfied

\* A statement takes all it selects, or uses up the row limit.
LEMMA ExecuteTakes ==
    ASSUME TypeOK, task \in Layouts, NEW S \in SUBSET task.rows, NEW single \in BOOLEAN,
           single => task.path \in {"upstream", "whole"},
           Execute(S, single), task' = task, ~Satisfied'
    PROVE  /\ staged \subseteq staged'
           /\ \A r \in S : r \in Present' \/ (task.phased /\ r \in staged')
<1>1. PICK T \in Limited(S, single) :
        IF task.phased THEN staged' = staged \cup T /\ UNCHANGED copied
                       ELSE Store(T) /\ UNCHANGED staged
  BY DEF Execute
<1>2. T \in SUBSET S
  BY DEF Limited, kSubset
<1>3. ~task.phased => Present' = Present \cup T
  BY <1>1, <1>2, StoreKeeps
<1>4. T = S
  <2>. SUFFICES ASSUME T # S PROVE FALSE
    OBVIOUS
  <2>1. single /\ task.limit # Unlimited /\ T \in kSubset(task.limit, S)
    BY DEF Limited
  <2>2. Cardinality(T) = task.limit
    BY <2>1 DEF kSubset
  <2>3. T \subseteq Present'
    <3>1. task.phased => task.path = "downstream"
      BY LayoutAssumption
    <3>2. ~task.phased
      BY <2>1, <3>1
    <3>. QED
      BY <1>3, <3>2
  <2>4. IsFiniteSet(Present')
    <3>1. Present' \subseteq task.rows
      BY DEF Present
    <3>. QED
      BY <3>1, LayoutFacts, FS_Subset
  <2>5. Cardinality(T) <= Cardinality(Present')
    BY <2>3, <2>4, FS_Subset
  <2>6. Cardinality(Present') \in Nat /\ task.limit \in Nat
    BY <2>1, <2>4, FS_CardinalityType, LayoutAssumption
  <2>7. Cardinality(Present') >= task.limit
    BY <2>2, <2>5, <2>6
  <2>. QED
    BY <2>1, <2>7 DEF Satisfied
<1>. QED
  BY <1>1, <1>3, <1>4

\* Paths stay in their places.
LEMMA PlacesStep == TypeOK /\ CursorInv /\ PlacesInv /\ [Next]_vars => PlacesInv'
<1>. SUFFICES ASSUME TypeOK, CursorInv, PlacesInv, [Next]_vars PROVE PlacesInv'
  OBVIOUS
<1>a. task' = task /\ task \in Layouts /\ task.path \in {"upstream", "downstream", "direct", "whole"}
  BY StepsStore, LayoutAssumption DEF CursorInv
<1>1. CASE CopyTarget \/ CopyWhole \/ FirstFetch
  <2>1. /\ UNCHANGED <<task, passes, failed>> /\ pc \in {"start", "first"}
        /\ pc' \in {"split", "done"} \/ (pc = "first" /\ pc' = "connect")
        /\ pc = "start" => task.path \in {"direct", "whole"}
    BY <1>1 DEF CopyTarget, CopyWhole, FirstFetch, Split, poolVars
  <2>. QED
    BY <2>1 DEF PlacesInv, CursorInv, Fanning
<1>2. CASE StartUpstream
  <2>1. /\ UNCHANGED <<task, failed>> /\ pc = "start" /\ task.path = "upstream"
        /\ pc' \in {"done", "temps", "first", "batches", "passes"}
        /\ pc' = "first" => passes' = passes
    BY <1>2 DEF StartUpstream, poolVars
  <2>. QED
    BY <2>1 DEF PlacesInv, Fanning
<1>3. CASE TempPass \/ ResidentPass \/ BatchedPass \/ StreamedPass \/ CopyBatch \/ EndBatches
           \/ EndPasses \/ StartDownstream \/ EndDownstream \/ Apply
  <2>1. /\ UNCHANGED <<task, failed>>
        /\ pc \in {"temps", "passes", "batches"} \/ task.path = "downstream"
        /\ pc \in {"temps", "passes", "batches", "start", "apply"}
        /\ pc' \in {"temps", "passes", "batches", "done"}
             \/ (pc' = "apply" /\ passes' = {} /\ task.path = "downstream")
    BY <1>3 DEF TempPass, ResidentPass, BatchedPass, StreamedPass, CopyBatch, EndBatches,
                EndPasses, StartDownstream, EndDownstream, Apply, poolVars, PlacesInv
  <2>. QED
    BY <2>1 DEF PlacesInv, Fanning
<1>4. CASE ReadMissing
  <2>1. /\ UNCHANGED <<task, failed>> /\ pc = "passes" /\ task.path = "downstream"
        /\ pc' \in {"passes", "batches", "connect"}
    BY <1>4 DEF ReadMissing, poolVars
  <2>. QED
    BY <2>1 DEF PlacesInv, Fanning
<1>5. CASE Connect \/ Submit \/ Exhausted \/ NextRound \/ EndFan \/ FetchFails
  <2>1. /\ UNCHANGED <<task, passes>> /\ pc \in {"connect"} \cup Fanning
        /\ \/ pc' \in Fanning
           \/ pc' \in {"passes", "done"} /\ ~failed'
           \/ pc' = "failed"
    BY <1>5 DEF Connect, Submit, Exhausted, NextRound, EndFan, FetchFails, Fanning
  <2>. QED
    BY <1>a, <2>1 DEF PlacesInv, CursorInv, Reading, Fanning
<1>6. CASE EndSplit \/ StatementFails
  <2>1. /\ UNCHANGED <<task, passes, failed>>
        /\ pc' = "failed" \/ (pc = "split" /\ pc' = "done" /\ ~failed)
    BY <1>6 DEF EndSplit, StatementFails, poolVars
  <2>. QED
    BY <2>1 DEF PlacesInv, Fanning
<1>7. ASSUME NEW i \in Pool, WorkerConnects(i) \/ RunJob(i) \/ JobFails(i) PROVE PlacesInv'
  <2>1. /\ UNCHANGED <<task, passes, pc>> /\ (failed' => failed \/ pc \in Fanning \cup {"split"})
    BY <1>7 DEF WorkerConnects, RunJob, JobFails, Fanning
  <2>. QED
    BY <2>1 DEF PlacesInv
<1>8. CASE UNCHANGED vars
  BY <1>8 DEF PlacesInv, vars, poolVars
<1>. QED
  BY <1>1, <1>2, <1>3, <1>4, <1>5, <1>6, <1>7, <1>8 DEF Next, MainStep, Over

\* A split hands every row it selects to some connection.
LEMMA SplitTakes ==
    ASSUME NEW query, Split(query), NEW i \in Pool, NEW r \in query[i]
    PROVE  InJob(r)'
<1>1. jobs'[i] = <<query[i]>> /\ Pool' = Pool
  BY DEF Split, Pool
<1>2. Head(<<query[i]>>) = query[i] /\ <<query[i]>> # <<>>
  OBVIOUS
<1>. QED
  BY <1>1, <1>2 DEF InJob

\* A pass drives its batches: the rows it selects have one of the IDs that are
\* read or a NULL.
LEMMA PassOpens ==
    ASSUME NEW t \in Layouts, t.path = "upstream", NEW p \in Passes(t), NEW k \in t.kcs,
           NEW ids, ids = PassJoins(t, p)[k] \/ (k # p /\ ids = FullIds(t)[k]),
           NEW r \in PassQuery(t, p)
    PROVE  r[k] \in ids \ Nulls \/ r[k] \in Nulls
<1>1. DOMAIN PassJoins(t, p) = t.kcs
  BY DEF PassJoins
<1>2. r[k] \in Nulls \/ r[k] \in PassJoins(t, p)[k]
  BY <1>1 DEF PassQuery, UpstreamQuery, Matches
<1>. QED
  BY <1>2 DEF PassJoins, FullIds, Valid

\* The rows that a table with a single constraint is for.
LEMMA OneConstraintWants ==
    ASSUME NEW t \in Layouts, t.path = "upstream", NEW k, t.kcs = {k}, NEW r \in Wanted(t)
    PROVE  /\ r \in PassQuery(t, NoPlan) /\ r[k] \notin Nulls
           /\ r[k] \in IF t.fresh = NoPlan THEN t.ids[t.group[k]] ELSE t.fresh[t.group[k]]
<1>1. /\ r \in t.rows \cap Either(t.condition) /\ r[k] \notin Nulls
      /\ r[k] \in t.ids[t.group[k]] /\ NoPlan \notin t.kcs
      /\ r[k] \in IF t.fresh = NoPlan THEN t.ids[t.group[k]] ELSE t.fresh[t.group[k]]
  BY LayoutAssumption DEF Wanted, WantedUpstream
<1>. DEFINE joins == PassJoins(t, NoPlan)
<1>2. DOMAIN joins = {k} /\ joins[k] = Valid(t.ids[t.group[k]])
  BY <1>1 DEF PassJoins
<1>3. PassQuery(t, NoPlan) = UpstreamQuery(t, joins, NoPlan, {})
  BY DEF PassQuery
<1>. HIDE DEF joins
<1>4. r \in PassQuery(t, NoPlan)
  BY <1>1, <1>2, <1>3 DEF UpstreamQuery, Matches, Valid
<1>. QED
  BY <1>1, <1>4

\* Steps that leave every row where it is.
LEMMA QuietDue ==
    ASSUME UNCHANGED <<task, jobs, staged, copied, passes, pass, batched, unread>>,
           pc \in Reading => pc' \in Reading, pc = "batches" => pc' = "batches",
           NEW r, Due(r)
    PROVE  Due(r)'
<1>1. Present' = Present /\ InJob(r)' = InJob(r) /\ Ahead(r)' = Ahead(r)
  BY DEF Present, InJob, Ahead, Pool
<1>2. Unread(r) => Unread(r)'
  BY DEF Unread
<1>. QED
  BY <1>1, <1>2 DEF Due

\* The first statements lose no row.
LEMMA StartKeeps ==
    ASSUME TypeOK, task \in Layouts, Plain(task), task' = task, ~Satisfied',
           CopyTarget \/ CopyWhole \/ StartUpstream \/ StartDownstream,
           NEW r \in Wanted(task)
    PROVE  Kept(r)'
<1>1. CASE CopyTarget
  <2>1. r \in DirectQuery(task) /\ r \in DirectSplitQuery(task) /\ ~task.phased
    BY <1>1, TargetsTake, LayoutAssumption DEF CopyTarget
  <2>2. DirectQuery(task) \in SUBSET task.rows /\ DirectSplitQuery(task) \subseteq task.rows
    BY QueriesSelectRows
  <2>3. CASE Splittable(task)
    <3>. DEFINE query == [i \in Pool |-> InRanges(task, i) \cap DirectSplitQuery(task)]
    <3>1. Split(query) /\ pc' = "split"
      BY <1>1, <2>3 DEF CopyTarget, Split
    <3>2. PICK i \in Pool : r \in query[i]
      BY <2>1, <2>2, <2>3, RangesCover
    <3>. HIDE DEF query
    <3>. QED
      BY <3>1, <3>2, SplitTakes DEF Kept, Due
  <2>4. CASE ~Splittable(task)
    <3>1. Execute(DirectQuery(task), FALSE) /\ pc' = "done"
      BY <1>1, <2>4 DEF CopyTarget
    <3>. QED
      BY <2>1, <2>2, <3>1, ExecuteTakes DEF Kept
  <2>. QED
    BY <2>3, <2>4
<1>2. CASE CopyWhole
  <2>1. r \in task.rows /\ ~task.phased /\ task.path = "whole"
    BY <1>2, LayoutAssumption DEF CopyWhole, Wanted
  <2>2. CASE Splittable(task) /\ task.limit = Unlimited
    <3>. DEFINE query == [i \in Pool |-> InRanges(task, i)]
    <3>1. Split(query) /\ pc' = "split"
      BY <1>2, <2>2 DEF CopyWhole, Split
    <3>2. PICK i \in Pool : r \in query[i]
      BY <2>1, <2>2, RangesCover
    <3>. HIDE DEF query
    <3>. QED
      BY <3>1, <3>2, SplitTakes DEF Kept, Due
  <2>3. CASE ~(Splittable(task) /\ task.limit = Unlimited)
    <3>1. Execute(task.rows, TRUE) /\ pc' = "done"
      BY <1>2, <2>3 DEF CopyWhole
    <3>. QED
      BY <2>1, <3>1, ExecuteTakes DEF Kept
  <2>. QED
    BY <2>2, <2>3
<1>3. CASE StartUpstream
  <2>1. task.path = "upstream"
    BY <1>3 DEF StartUpstream
  <2>2. CASE NothingNew(task)
    BY <2>1, <2>2 DEF NothingNew, Wanted, WantedUpstream
  <2>3. CASE ~NothingNew(task) /\ pc' \in {"temps", "passes"}
    <3>1. PICK p \in Passes(task) : /\ r \in PassQuery(task, p)
                                    /\ p # NoPlan => Valid(task.fresh[task.group[p]]) # {}
      BY <2>1, PassesCover
    <3>2. p \in passes'
      BY <1>3, <2>3, <3>1 DEF StartUpstream
    <3>3. Ahead(r)'
      BY <2>1, <3>1, <3>2 DEF Ahead
    <3>. QED
      BY <2>3, <3>3 DEF Kept, Due
  <2>4. CASE ~NothingNew(task) /\ pc' \notin {"temps", "passes"}
    <3>1. /\ Cardinality(task.kcs) = 1 /\ pass' = NoPlan /\ batched' = Constraint
          /\ pc' \in {"first", "batches"}
          /\ unread' = IF task.fresh = NoPlan THEN task.ids[task.group[Constraint]]
                       ELSE task.fresh[task.group[Constraint]]
      BY <1>3, <2>4 DEF StartUpstream
    <3>2. task.kcs = {Constraint}
      BY <3>1, OneConstraint
    <3>3. /\ r \in PassQuery(task, NoPlan) /\ r[Constraint] \notin Nulls
          /\ r[Constraint] \in unread'
      BY <2>1, <3>1, <3>2, OneConstraintWants
    <3>4. Unread(r)'
      BY <3>1, <3>3 DEF Unread, Reading
    <3>. QED
      BY <3>1, <3>4 DEF Kept, Due
  <2>. QED
    BY <1>3, <2>2, <2>3, <2>4
<1>4. CASE StartDownstream
  <2>1. task.path = "downstream" /\ passes' = task.kcs /\ pc' = "passes"
    BY <1>4 DEF StartDownstream
  <2>2. Ahead(r)'
    BY <2>1 DEF Ahead, Wanted
  <2>. QED
    BY <2>1, <2>2 DEF Kept, Due
<1>. QED
  BY <1>1, <1>2, <1>3, <1>4

\* The passes, and the column sets, lose no row.
LEMMA PassesKeep ==
    ASSUME TypeOK, FanInv, CursorInv, PlacesInv, KeyedByIds(task),
           task' = task, Present \subseteq Present', ~Satisfied',
           \/ TempPass \/ ResidentPass \/ BatchedPass \/ StreamedPass
           \/ EndPasses \/ ReadMissing \/ EndDownstream \/ Apply,
           NEW r \in task.rows, Due(r)
    PROVE  Kept(r)'
<1>a. task \in Layouts /\ NoPlan \notin task.kcs /\ (task.path = "upstream" => ~task.phased)
  BY LayoutAssumption DEF CursorInv
<1>b. /\ pc \in {"temps", "passes", "apply"}
      /\ r \in Present \/ (task.phased /\ r \in staged) \/ Ahead(r)
  <2>1. pc \in {"temps", "passes", "apply"}
    BY DEF TempPass, ResidentPass, BatchedPass, StreamedPass, EndPasses, ReadMissing,
           EndDownstream, Apply
  <2>. QED
    BY <2>1 DEF Due, Unread, InJob, Reading, Fanning, FanInv
<1>1. CASE TempPass \/ ResidentPass
  <2>1. PICK p \in passes : Execute(PassQuery(task, p), TRUE) /\ passes' = passes \ {p}
    BY <1>1 DEF TempPass, ResidentPass, PassQuery
  <2>2. task.path = "upstream" /\ pc' # "done"
    BY <1>1, <1>b DEF TempPass, ResidentPass, CursorInv
  <2>3. PassQuery(task, p) \in SUBSET task.rows
    BY <1>a, QueriesSelectRows DEF PassQuery
  <2>4. \A s \in PassQuery(task, p) : s \in Present'
    BY <1>a, <2>1, <2>2, <2>3, ExecuteTakes
  <2>5. Ahead(r) => Ahead(r)' \/ r \in PassQuery(task, p)
    BY <2>1, <2>2 DEF Ahead
  <2>. QED
    BY <1>a, <1>b, <2>2, <2>4, <2>5 DEF Kept, Due
<1>2. CASE BatchedPass \/ StreamedPass
  <2>1. PICK p \in passes : \E k \in task.kcs :
          /\ batched' = k /\ pass' = p /\ passes' = passes \ {p}
          /\ unread' = PassJoins(task, p)[k] \/ (k # p /\ unread' = FullIds(task)[k])
    BY <1>2 DEF BatchedPass, StreamedPass, Largest, Streamable
  <2>2. PICK k \in task.kcs :
          /\ batched' = k /\ pass' = p /\ passes' = passes \ {p}
          /\ unread' = PassJoins(task, p)[k] \/ (k # p /\ unread' = FullIds(task)[k])
    BY <2>1
  <2>3. task.path = "upstream" /\ pc' = "batches" /\ p \in Passes(task)
    BY <1>2 DEF BatchedPass, StreamedPass, CursorInv
  <2>4. ASSUME r \in PassQuery(task, p) PROVE Unread(r)'
    <3>1. r[k] \in unread' \ Nulls \/ r[k] \in Nulls
      BY <1>a, <2>2, <2>3, <2>4, PassOpens
    <3>. QED
      BY <2>2, <2>3, <2>4, <3>1 DEF Unread, Reading
  <2>5. Ahead(r) => Ahead(r)' \/ r \in PassQuery(task, p)
    BY <2>2, <2>3 DEF Ahead
  <2>. QED
    BY <1>a, <1>b, <2>3, <2>4, <2>5 DEF Kept, Due
<1>3. CASE EndPasses
  BY <1>3, <1>a, <1>b DEF EndPasses, Ahead, Kept
<1>4. CASE ReadMissing
  <2>. DEFINE missing(k) == MissingIds(task, k, Present)
  <2>1. PICK k \in passes :
          /\ passes' = passes \ {k} /\ batched' = k
          /\ IF task.temps
             THEN Execute(DownstreamQuery(task, k, missing(k)), FALSE)
             ELSE unread' = missing(k) /\ UNCHANGED staged /\ pc' \in {"connect", "batches"}
    BY <1>4 DEF ReadMissing
  <2>2. task.path = "downstream" /\ pc' # "done" /\ k \in task.kcs
    BY <1>4, <2>1 DEF ReadMissing, CursorInv, TypeOK
  <2>3. DownstreamQuery(task, k, missing(k)) \in SUBSET task.rows
    BY <1>a, QueriesSelectRows
  <2>4. CASE r \in Present
    BY <2>2, <2>4 DEF Kept, Due
  <2>5. CASE task.phased /\ r \in staged
    <3>1. r \in staged'
      BY <1>a, <2>1, <2>2, <2>3, <2>5, ExecuteTakes
    <3>. QED
      BY <2>2, <2>5, <3>1 DEF Kept, Due
  <2>6. CASE \E p \in passes \ {k} : r[p] \in task.ids[task.group[p]] \ Nulls
    <3>1. Ahead(r)'
      BY <2>1, <2>2, <2>6 DEF Ahead
    <3>. QED
      BY <2>2, <3>1 DEF Kept, Due
  <2>7. CASE r[k] \in task.ids[task.group[k]] \ Nulls /\ r \notin Present
    <3>1. r[k] \in missing(k) \ Nulls
      <4>1. \A s \in Present : s \in task.rows /\ s # r
        BY <2>7 DEF Present
      <4>2. \A s \in Present : r[k] # s[k]
        BY <2>2, <2>7, <4>1 DEF KeyedByIds
      <4>. QED
        BY <2>7, <4>2 DEF MissingIds
    <3>2. CASE task.temps
      <4>1. r \in DownstreamQuery(task, k, missing(k))
        BY <3>1 DEF DownstreamQuery, Valid
      <4>. HIDE DEF missing
      <4>2. r \in Present' \/ (task.phased /\ r \in staged')
        BY <1>a, <2>1, <2>2, <2>3, <3>2, <4>1, ExecuteTakes
      <4>. QED
        BY <2>2, <4>2 DEF Kept, Due
    <3>3. CASE ~task.temps
      <4>1. Unread(r)'
        BY <2>1, <2>2, <3>1, <3>3 DEF Unread, Reading
      <4>. QED
        BY <2>2, <4>1 DEF Kept, Due
    <3>. QED
      BY <3>2, <3>3
  <2>. QED
    BY <1>b, <2>2, <2>4, <2>5, <2>6, <2>7 DEF Ahead
<1>5. CASE EndDownstream
  BY <1>5, <1>b DEF EndDownstream, Ahead, Kept, Due
<1>6. CASE Apply
  <2>1. pc = "apply" /\ passes = {} /\ Store(staged) /\ pc' = "done"
    BY <1>6 DEF Apply, PlacesInv
  <2>2. Present' = Present \cup staged
    BY <2>1, StoreKeeps DEF TypeOK
  <2>. QED
    BY <1>b, <2>1, <2>2 DEF Ahead, Kept
<1>. QED
  BY <1>1, <1>2, <1>3, <1>4, <1>5, <1>6

\* Batches lose no row, nor does their last statement.
LEMMA BatchesKeep ==
    ASSUME TypeOK, FanInv, CursorInv, task' = task, Present \subseteq Present', ~Satisfied',
           CopyBatch \/ EndBatches, NEW r \in task.rows, Due(r)
    PROVE  Kept(r)'
<1>1. /\ task \in Layouts /\ pc = "batches" /\ batched \in task.kcs
      /\ task.path \in {"upstream", "downstream"} /\ task.path = "upstream" => ~task.phased
  BY LayoutAssumption DEF CopyBatch, EndBatches, CursorInv, Reading
<1>2. r \in Present \/ (task.phased /\ r \in staged) \/ Unread(r) \/ Ahead(r)
  BY <1>1 DEF Due, InJob, Fanning, FanInv
<1>3. CASE CopyBatch
  <2>1. PICK ids \in Fetches(unread) :
          /\ unread' = unread \ ids
          /\ IF Valid(ids) = {} THEN UNCHANGED <<staged, copied>>
             ELSE Execute(BatchQuery(ids), task.path = "upstream" /\ first
                                             /\ Cardinality(ids) < BatchSize)
    BY <1>3 DEF CopyBatch
  <2>2. UNCHANGED <<pc, passes, pass, batched>>
    BY <1>3 DEF CopyBatch
  <2>3. Ahead(r) => Ahead(r)'
    BY <2>2 DEF Ahead
  <2>. DEFINE single == task.path = "upstream" /\ first /\ Cardinality(ids) < BatchSize
  <2>4. single \in BOOLEAN /\ (single => task.path \in {"upstream", "whole"})
    OBVIOUS
  <2>5. IF Valid(ids) = {} THEN UNCHANGED <<staged, copied>> ELSE Execute(BatchQuery(ids), single)
    BY <2>1
  <2>. HIDE DEF single
  <2>6. staged \subseteq staged'
    BY <1>1, <2>4, <2>5, ExecuteTakes, BatchesSelectRows
  <2>7. ASSUME Unread(r)
        PROVE  r \in Present' \/ (task.phased /\ r \in staged') \/ Unread(r)'
    <3>1. CASE r[batched] \in ids \ Nulls
      <4>1. r \in BatchQuery(ids) /\ Valid(ids) # {}
        BY <1>1, <2>7, <3>1, BatchTakes DEF Unread, Valid, Reading
      <4>. QED
        BY <1>1, <2>4, <2>5, <4>1, ExecuteTakes, BatchesSelectRows
    <3>2. CASE r[batched] \notin ids \ Nulls
      BY <2>1, <2>2, <2>7, <3>2 DEF Unread
    <3>. QED
      BY <3>1, <3>2
  <2>. QED
    BY <1>1, <1>2, <2>2, <2>3, <2>6, <2>7 DEF Kept, Due
<1>4. CASE EndBatches
  <2>. DEFINE S == NeutralRows(task, PassJoins(task, pass), batched, pass)
  <2>1. /\ unread = {} /\ pc' = "passes" /\ passes' = passes
        /\ IF task.path = "downstream" THEN UNCHANGED <<staged, copied>> ELSE Execute(S, FALSE)
    BY <1>4 DEF EndBatches
  <2>2. S \in SUBSET task.rows
    BY <1>1, QueriesSelectRows
  <2>3. Unread(r) => task.path = "upstream" /\ r \in S
    BY <1>1, <2>1, NeutralTakes DEF Unread
  <2>. HIDE DEF S
  <2>4. staged \subseteq staged' /\ (Unread(r) => r \in Present')
    BY <1>1, <2>1, <2>2, <2>3, ExecuteTakes
  <2>5. Ahead(r) => Ahead(r)'
    BY <2>1 DEF Ahead
  <2>. QED
    BY <1>2, <2>1, <2>4, <2>5 DEF Kept, Due
<1>. QED
  BY <1>3, <1>4

\* The first fetch of a lone table's IDs loses no row.
LEMMA FirstFetchKeeps ==
    ASSUME TypeOK, FanInv, CursorInv, PlacesInv, Plain(task),
           task' = task, Present \subseteq Present', ~Satisfied',
           FirstFetch, NEW r \in Wanted(task), Due(r)
    PROVE  Kept(r)'
<1>1. /\ task \in Layouts /\ pc = "first" /\ task.path = "upstream" /\ ~task.phased
      /\ task.kcs = {batched} /\ pass = NoPlan /\ passes = {} /\ batched # NoPlan
  BY LayoutAssumption DEF FirstFetch, CursorInv, PlacesInv
<1>2. r \in task.rows \cap Either(task.condition)
  BY <1>1 DEF Wanted, WantedUpstream
<1>3. r \in Present \/ Unread(r)
  BY <1>1 DEF Due, InJob, Ahead, Fanning, FanInv
<1>4. IsFiniteSet(unread)
  <2>1. unread \subseteq task.ids[task.group[batched]]
    BY <1>1 DEF TypeOK
  <2>. QED
    BY <1>1, <2>1, LayoutFacts, FS_Subset
<1>. DEFINE fits(ids) == Cardinality(ids) < BatchSize /\ ~task.composite
            parts(ids) == [i \in Pool |->
                             AndUnwrapped(InRanges(task, i)
                                            \cap {s \in task.rows : s[batched] \in Valid(ids)},
                                          task.condition)]
<1>5. PICK ids \in Fetches(unread) :
        IF ids = {} \/ (fits(ids) /\ Valid(ids) = {}) THEN pc' = "done"
        ELSE IF ~fits(ids)
        THEN /\ pc' = "connect"
             /\ UNCHANGED <<task, passes, cursorVars, poolVars, staged, copied>>
        ELSE IF Splittable(task) THEN Split(parts(ids))
        ELSE Execute(BatchQuery(ids), FALSE) /\ pc' = "done"
  BY <1>1 DEF FirstFetch
<1>6. ids = {} \/ fits(ids) => ids = unread
  <2>1. 0 < BatchSize /\ Cardinality({}) = 0
    BY StatementAssumption, FS_EmptySet
  <2>. QED
    BY <1>4, <2>1, ShortFetch
<1>7. Unread(r) => r[batched] \in unread \ Nulls /\ r \in PassQuery(task, pass)
  BY <1>1 DEF Unread
<1>8. CASE r \in Present
  BY <1>8 DEF Kept, Due
<1>9. CASE r \notin Present /\ (ids = {} \/ (fits(ids) /\ Valid(ids) = {}))
  BY <1>3, <1>6, <1>7, <1>9 DEF Valid
<1>10. CASE r \notin Present /\ ids # {} /\ ~fits(ids)
  <2>1. UNCHANGED <<task, jobs, staged, copied, passes, pass, batched, unread>> /\ pc' = "connect"
    BY <1>5, <1>10 DEF cursorVars, poolVars
  <2>2. Due(r)'
    BY <1>1, <2>1, QuietDue DEF Reading
  <2>. QED
    BY <2>1, <2>2 DEF Kept
<1>11. CASE r \notin Present /\ fits(ids) /\ ids # {} /\ Valid(ids) # {}
  <2>1. r[batched] \in ids \ Nulls /\ r \in PassQuery(task, pass)
    BY <1>3, <1>6, <1>7, <1>11
  <2>2. CASE Splittable(task)
    <3>1. Split(parts(ids)) /\ pc' = "split"
      BY <1>5, <1>11, <2>2 DEF Split
    <3>2. PICK i \in Pool : r \in InRanges(task, i)
      BY <1>1, <1>2, <2>2, RangesCover
    <3>3. r \in parts(ids)[i]
      <4>1. \A S : AndUnwrapped(S, task.condition) = S \cap Either(task.condition)
        BY <1>1, PlainCondition DEF Plain
      <4>2. r[batched] \in Valid(ids)
        BY <2>1 DEF Valid
      <4>. QED
        BY <1>2, <3>2, <4>1, <4>2
    <3>. HIDE DEF parts
    <3>. QED
      BY <3>1, <3>3, SplitTakes DEF Kept, Due
  <2>3. CASE ~Splittable(task)
    <3>1. Execute(BatchQuery(ids), FALSE) /\ pc' = "done"
      BY <1>5, <1>11, <2>3
    <3>2. r \in BatchQuery(ids)
      BY <1>1, <1>2, <2>1, BatchTakes DEF Reading
    <3>. QED
      BY <1>1, <3>1, <3>2, ExecuteTakes, BatchesSelectRows DEF Kept
  <2>. QED
    BY <2>2, <2>3
<1>. QED
  BY <1>8, <1>9, <1>10, <1>11

\* The fan-out and its jobs lose no row, unless one fails.
LEMMA FanKeeps ==
    ASSUME TypeOK, FanInv, CursorInv, PlacesInv, task' = task, Pool' = Pool,
           Present \subseteq Present', pc' # "failed", ~failed',
           \/ Connect \/ Submit \/ Exhausted \/ NextRound \/ EndFan \/ EndSplit
           \/ \E i \in Pool : WorkerConnects(i) \/ RunJob(i),
           NEW r \in task.rows, Due(r)
    PROVE  Kept(r)'
<1>a. /\ task \in Layouts /\ (pc # "split" => batched \in task.kcs)
      /\ pc \in Reading \cup {"split"} /\ pc # "batches"
      /\ task.path = "upstream" /\ pc # "split" => passes = {}
  BY DEF CursorInv, PlacesInv, Reading, Fanning, Connect, Submit, Exhausted, NextRound, EndFan,
         EndSplit, WorkerConnects, RunJob
<1>1. CASE Connect \/ Exhausted \/ NextRound \/ \E i \in Pool : WorkerConnects(i)
  <2>1. /\ UNCHANGED <<task, jobs, staged, copied, passes, pass, batched, unread>>
        /\ pc' # "done" /\ (pc \in Reading => pc' \in Reading)
    BY <1>1, <1>a DEF Connect, Exhausted, NextRound, WorkerConnects, cursorVars, poolVars,
                      Reading, Fanning
  <2>2. Due(r)'
    BY <1>a, <2>1, QuietDue
  <2>. QED
    BY <2>1, <2>2 DEF Kept
<1>2. CASE Submit
  <2>1. PICK ids \in Fetches(unread) :
          /\ unread' = unread \ ids
          /\ jobs' = IF Valid(ids) = {} THEN jobs
                     ELSE [jobs EXCEPT ![turn] = Append(@, BatchQuery(ids))]
    BY <1>2 DEF Submit
  <2>2. /\ pc = "fan" /\ pc' \in {"fan", "drain"}
        /\ UNCHANGED <<passes, pass, batched, staged, copied>>
    BY <1>2 DEF Submit
  <2>3. turn \in Pool /\ jobs[turn] = <<>>
    BY <1>a, <2>2, LayoutFacts DEF FanInv, TypeOK, Pool
  <2>4. Valid(ids) # {} => jobs' = [jobs EXCEPT ![turn] = <<BatchQuery(ids)>>]
    BY <2>1, <2>3 DEF TypeOK
  <2>5. InJob(r) => InJob(r)'
    <3>1. \A i \in Pool : jobs[i] # <<>> => jobs'[i] = jobs[i]
      BY <2>1, <2>3, <2>4 DEF TypeOK
    <3>. QED
      BY <3>1 DEF InJob
  <2>6. ASSUME Unread(r) PROVE InJob(r)' \/ Unread(r)'
    <3>1. CASE r[batched] \in ids \ Nulls
      <4>. DEFINE S == BatchQuery(ids)
      <4>1. r \in S /\ Valid(ids) # {}
        BY <1>a, <2>2, <2>6, <3>1, BatchTakes DEF Unread, Valid
      <4>2. <<S>> # <<>> /\ Head(<<S>>) = S
        OBVIOUS
      <4>3. jobs'[turn] = <<S>>
        BY <2>3, <2>4, <4>1 DEF TypeOK
      <4>. HIDE DEF S
      <4>4. jobs'[turn] # <<>> /\ Head(jobs'[turn]) = S
        BY <4>2, <4>3
      <4>. QED
        BY <2>3, <4>1, <4>4 DEF InJob
    <3>2. CASE r[batched] \notin ids \ Nulls
      BY <2>1, <2>2, <2>6, <3>2 DEF Unread, Reading, Fanning
    <3>. QED
      BY <3>1, <3>2
  <2>7. Ahead(r) => Ahead(r)'
    BY <2>2 DEF Ahead
  <2>. QED
    BY <2>2, <2>5, <2>6, <2>7 DEF Kept, Due
<1>3. ASSUME NEW i \in Pool, RunJob(i) PROVE Kept(r)'
  <2>1. /\ UNCHANGED <<pc, passes, pass, batched, unread, staged>> /\ pc' # "done"
        /\ Store(Head(jobs[i]))
    BY <1>3, <1>a DEF RunJob, cursorVars, Reading, Fanning
  <2>2. /\ Head(jobs[i]) \in SUBSET task.rows
        /\ \A j \in Pool : j # i => jobs'[j] = jobs[j]
    BY <1>3, OneJobLess
  <2>3. Present' = Present \cup Head(jobs[i])
    BY <2>1, <2>2, StoreKeeps
  <2>4. InJob(r) => InJob(r)' \/ r \in Present'
    BY <2>2, <2>3 DEF InJob
  <2>5. (Ahead(r) => Ahead(r)') /\ (Unread(r) => Unread(r)')
    BY <2>1 DEF Ahead, Unread
  <2>. QED
    BY <2>1, <2>4, <2>5 DEF Kept, Due
<1>4. CASE EndFan \/ EndSplit
  <2>1. /\ Idle /\ pc \in {"drain", "split"} /\ (pc = "drain" => unread = {})
        /\ UNCHANGED <<passes, staged>> /\ pc' \in {"passes", "done"}
        /\ pc' = "done" => pc = "split" \/ task.path # "downstream"
    BY <1>4 DEF EndFan, EndSplit
  <2>2. ~InJob(r) /\ ~Unread(r)
    BY <1>a, <2>1 DEF Idle, InJob, Unread, Reading, Fanning
  <2>3. Ahead(r) => Ahead(r)'
    BY <2>1 DEF Ahead
  <2>4. task.phased => task.path = "downstream"
    BY <1>a, LayoutAssumption
  <2>5. pc' = "done" => passes = {} /\ ~task.phased
    BY <1>a, <2>1, <2>4 DEF PlacesInv, CursorInv, Reading, Fanning
  <2>. QED
    BY <2>1, <2>2, <2>3, <2>5 DEF Kept, Due, Ahead
<1>. QED
  BY <1>1, <1>2, <1>3, <1>4

\* No step loses a wanted row.
LEMMA CoverStep ==
    ASSUME TypeOK, FanInv, CursorInv, PlacesInv, Plain(task), KeyedByIds(task), CoverInv,
           [Next]_vars
    PROVE  CoverInv'
<1>a. task \in Layouts /\ Wanted(task) \subseteq task.rows
  <2>1. task \in Layouts
    BY DEF CursorInv
  <2>. QED
    BY <2>1, ConditionRows, LayoutAssumption DEF Wanted, WantedUpstream
<1>b. task' = task /\ Pool' = Pool /\ Present \subseteq Present'
  BY Grows
<1>. SUFFICES ASSUME pc' \notin {"start", "failed"}, ~failed', ~Satisfied',
                     NEW r \in Wanted(task)
              PROVE  Kept(r)'
  BY <1>b DEF CoverInv
<1>c. ~Satisfied
  BY <1>a, <1>b, SatisfiedStays
<1>d. failed => failed'
  <2>1. ASSUME NEW i \in Pool, WorkerConnects(i) \/ RunJob(i) \/ JobFails(i)
        PROVE  failed => failed'
    BY <2>1 DEF WorkerConnects, RunJob, JobFails
  <2>. QED
    BY <2>1 DEF Next, MainStep, Over, vars, poolVars, CopyTarget, CopyWhole, Split,
           StartUpstream, TempPass, ResidentPass, BatchedPass, StreamedPass, CopyBatch,
           EndBatches, EndPasses, StartDownstream, ReadMissing, EndDownstream, Apply,
           FirstFetch, Connect, Submit, Exhausted, NextRound, EndFan, EndSplit,
           StatementFails, FetchFails
<1>e. pc \notin {"start", "failed"} => Kept(r)
  BY <1>c, <1>d DEF CoverInv
<1>1. CASE CopyTarget \/ CopyWhole \/ StartUpstream \/ StartDownstream
  BY <1>1, <1>a, <1>b, StartKeeps
<1>2. CASE \/ TempPass \/ ResidentPass \/ BatchedPass \/ StreamedPass
           \/ EndPasses \/ ReadMissing \/ EndDownstream \/ Apply
  <2>1. pc \in {"temps", "passes", "apply"}
    BY <1>2 DEF TempPass, ResidentPass, BatchedPass, StreamedPass, EndPasses, ReadMissing,
                EndDownstream, Apply
  <2>2. Due(r)
    BY <1>e, <2>1 DEF Kept
  <2>. QED
    BY <1>2, <1>a, <1>b, <2>2, PassesKeep
<1>3. CASE CopyBatch \/ EndBatches
  <2>1. pc = "batches"
    BY <1>3 DEF CopyBatch, EndBatches
  <2>2. Due(r)
    BY <1>e, <2>1 DEF Kept
  <2>. QED
    BY <1>3, <1>a, <1>b, <2>2, BatchesKeep
<1>4. CASE FirstFetch
  <2>1. pc = "first"
    BY <1>4 DEF FirstFetch
  <2>2. Due(r)
    BY <1>e, <2>1 DEF Kept
  <2>. QED
    BY <1>4, <1>b, <2>2, FirstFetchKeeps
<1>5. CASE \/ Connect \/ Submit \/ Exhausted \/ NextRound \/ EndFan \/ EndSplit
           \/ \E i \in Pool : WorkerConnects(i) \/ RunJob(i)
  <2>1. pc \in {"connect", "fan", "drain", "split"}
    BY <1>5 DEF Connect, Submit, Exhausted, NextRound, EndFan, EndSplit, WorkerConnects, RunJob
  <2>2. Due(r)
    BY <1>e, <2>1 DEF Kept
  <2>. QED
    BY <1>5, <1>a, <1>b, <2>2, FanKeeps
<1>6. CASE StatementFails \/ FetchFails \/ \E i \in Pool : JobFails(i)
  BY <1>6 DEF StatementFails, FetchFails, JobFails
<1>7. CASE UNCHANGED vars
  <2>1. UNCHANGED <<task, pc, jobs, staged, copied, passes, pass, batched, unread>>
    BY <1>7 DEF vars, cursorVars, poolVars
  <2>2. Due(r) => Due(r)'
    BY <2>1, QuietDue
  <2>. QED
    BY <1>b, <1>e, <2>1, <2>2 DEF Kept
<1>. QED
  BY <1>1, <1>2, <1>3, <1>4, <1>5, <1>6, <1>7 DEF Next, MainStep, Over

----------------------------------------------------------------------------
(* Theorems.                                                               *)

\* Both invariants start out true.
LEMMA MergeInit ==
    Init => (~task.upsert => OnceInv) /\ PlacesInv /\ CoverInv
<1>. SUFFICES ASSUME Init PROVE OnceInv /\ PlacesInv /\ CoverInv
  OBVIOUS
<1>1. Present = {} /\ \A i \in Pool : jobs[i] = <<>>
  BY DEF Init, Present
<1>2. OnceInv
  BY <1>1 DEF Init, OnceInv, Reading, Fanning
<1>. QED
  BY <1>2 DEF Init, PlacesInv, CoverInv, Fanning

\* The invariants hold together, of every table with the conditions they need.
LEMMA MergeInvariants ==
    Spec => [](/\ TypeOK /\ FanInv /\ CursorInv /\ (Plain(task) => SoundInv)
               /\ PlacesInv
               /\ (OrFree(task) /\ ~task.upsert => OnceInv)
               /\ (Plain(task) /\ KeyedByIds(task) => CoverInv))
<1>. DEFINE Both == /\ PlacesInv
                    /\ (OrFree(task) /\ ~task.upsert => OnceInv)
                    /\ (Plain(task) /\ KeyedByIds(task) => CoverInv)
            Base == TypeOK /\ FanInv /\ CursorInv /\ (Plain(task) => SoundInv)
<1>1. Init => Both
  BY MergeInit
<1>2. Both /\ Base /\ [Next]_vars => Both'
  <2>. SUFFICES ASSUME Both, Base, [Next]_vars PROVE Both'
    OBVIOUS
  <2>1. task' = task
    BY StepsStore
  <2>2. PlacesInv'
    BY PlacesStep
  <2>3. (OrFree(task) /\ ~task.upsert => OnceInv)'
    BY <2>1, OnceStep
  <2>4. (Plain(task) /\ KeyedByIds(task) => CoverInv)'
    BY <2>1, CoverStep
  <2>. QED
    BY <2>2, <2>3, <2>4
<1>3. Spec => []Base
  BY Invariants
<1>4. Spec => []Both
  <2>. HIDE DEF Both, Base
  <2>. QED
    BY <1>1, <1>2, <1>3, PTL DEF Spec
<1>. QED
  BY <1>3, <1>4, PTL

\* Every variable keeps its type; in particular batches are read from IDs the
\* destination has.
THEOREM TypeCorrect == Spec => []TypeOK
BY Invariants, PTL

\* No connection of the pool ever has two statements to run, in any round.
THEOREM OneJobEach == Spec => []OneJobPerConnection
<1>1. FanInv => OneJobPerConnection
  BY DEF FanInv
<1>. QED
  BY <1>1, Invariants, PTL

\* No connection is closed before the batch that uses it is over.
THEOREM NothingClosedInUse == Spec => []OpenWhileInUse
<1>1. TypeOK /\ FanInv => OpenWhileInUse
  BY DEF FanInv, OpenWhileInUse, Fanning
<1>. QED
  BY <1>1, Invariants, PTL

\* When no condition has an OR and no pre_filter came back empty, no path ever
\* copies a row that is not wanted, whatever the batches, passes, ranges and
\* failures.
THEOREM PlainConditionsNarrow == Spec => [](Plain(task) => ConditionsNarrow)
<1>1. SoundInv => ConditionsNarrow
  BY DEF SoundInv, ConditionsNarrow
<1>. QED
  BY <1>1, Invariants, PTL

\* A recreate run loads no row twice, though no index would stop it, however the
\* table is cut into passes, batches, neutral rows, page ranges and column sets,
\* and whatever fails, as long as no upstream filter has an OR.
THEOREM NothingTwice == Spec => [](OrFree(task) => CopiedOnce)
<1>1. (OrFree(task) /\ ~task.upsert => OnceInv) => (OrFree(task) => CopiedOnce)
  BY DEF OnceInv, CopiedOnce
<1>. QED
  BY <1>1, MergeInvariants, PTL

\* The instance counts as this module does.
LEMMA SameCardinality == ASSUME NEW S PROVE Table!Cardinality(S) = Cardinality(S)
BY DEF Cardinality, Table!Cardinality

\* The instance is about the rows the task is for.
LEMMA SameRows ==
    ASSUME CursorInv
    PROVE  /\ Wanted(task) \subseteq task.rows /\ IsFiniteSet(Wanted(task))
           /\ Table!ToCopy = Wanted(task)
           /\ Table!Merged = Wanted(task) \cap Present
<1>1. task \in Layouts
  BY DEF CursorInv
<1>2. Wanted(task) \subseteq task.rows
  BY <1>1, ConditionRows, LayoutAssumption DEF Wanted, WantedUpstream
<1>3. IsFiniteSet(Wanted(task))
  BY <1>1, <1>2, LayoutFacts, FS_Subset
<1>. QED
  BY <1>2, <1>3 DEF Table!ToCopy, Table!Merged

\* What makes a complete copy.
LEMMA EnoughFacts ==
    ASSUME NEW t \in Layouts, IsFiniteSet(Wanted(t))
    PROVE  /\ Enough(t) \in Nat /\ Enough(t) <= Cardinality(Wanted(t))
           /\ (t.path \in {"upstream", "whole"} /\ t.limit # Unlimited) => Enough(t) <= t.limit
<1>1. Cardinality(Wanted(t)) \in Nat
  BY FS_CardinalityType
<1>2. CASE t.limit = Unlimited \/ t.path \in {"direct", "downstream"}
  BY <1>1, <1>2 DEF Enough
<1>3. CASE ~(t.limit = Unlimited \/ t.path \in {"direct", "downstream"})
  <2>1. t.limit \in Nat
    BY <1>3, LayoutAssumption
  <2>. DEFINE M == {t.limit, Cardinality(Wanted(t))}
  <2>2. \E x \in M : \A y \in M : x <= y
    BY <1>1, <2>1
  <2>3. Min(M) \in M /\ \A y \in M : Min(M) <= y
    <3>. HIDE DEF M
    <3>. QED
      BY <2>2 DEF Min
  <2>4. Enough(t) = Min(M)
    BY <1>3 DEF Enough
  <2>. HIDE DEF M
  <2>5. Enough(t) \in M /\ \A y \in M : Enough(t) <= y
    BY <2>3, <2>4
  <2>. QED
    BY <1>1, <2>1, <2>5 DEF M
<1>. QED
  BY <1>2, <1>3

\* A copy that is over takes no step.
LEMMA OverIsOver ==
    ASSUME pc \in {"done", "failed"}, [Next]_vars
    PROVE  UNCHANGED vars
<1>1. ~MainStep
  BY DEF MainStep, CopyTarget, CopyWhole, StartUpstream, TempPass, ResidentPass, BatchedPass,
         StreamedPass, CopyBatch, EndBatches, EndPasses, StartDownstream, ReadMissing,
         EndDownstream, Apply, FirstFetch, Connect, Submit, Exhausted, NextRound, EndFan,
         EndSplit
<1>. QED
  BY <1>1 DEF Next, Over, StatementFails, FetchFails, WorkerConnects, RunJob, JobFails

\* The run may take the copy of a table, however it is cut and spread, for a
\* choice of rows written one after the other: only rows the task is for are
\* written, none is taken back, and success means that all of them are there, or
\* as many as the row limit asks for. For tables whose conditions have no OR and,
\* downstream, whose columns that others refer to are keys.
THEOREM ImplementsTableMerge == Spec /\ Plain(task) /\ KeyedByIds(task) => MergesTable
<1>. DEFINE Inv == /\ TypeOK /\ FanInv /\ CursorInv /\ (Plain(task) => SoundInv)
                   /\ PlacesInv
                   /\ (OrFree(task) /\ ~task.upsert => OnceInv)
                   /\ (Plain(task) /\ KeyedByIds(task) => CoverInv)
            P == Plain(task) /\ KeyedByIds(task)
<1>1. Init => Table!MergeInit
  <2>. SUFFICES ASSUME Init PROVE Table!MergeInit
    OBVIOUS
  <2>1. CursorInv /\ task \in Layouts
    BY InvInit DEF CursorInv
  <2>2. Table!Cardinality(Table!ToCopy) = Cardinality(Wanted(task))
    BY <2>1, SameRows, SameCardinality
  <2>. QED
    BY <2>1, <2>2, SameRows, EnoughFacts DEF Init, Table!MergeInit
<1>2. P /\ [Next]_vars => P'
  BY StepsStore
<1>3. ASSUME Inv, Inv', P, P', [Next]_vars PROVE [Table!MergeStep]_Table!mergeVars
  <2>1. task' = task /\ Present \subseteq Present' /\ task \in Layouts
    BY <1>3, Grows DEF CursorInv
  <2>2. CASE pc \in {"done", "failed"}
    <3>1. UNCHANGED vars
      BY <1>3, <2>2, OverIsOver
    <3>2. Present' = Present /\ pc' = pc
      BY <2>1, <3>1 DEF vars, Present
    <3>. QED
      BY <2>1, <3>2 DEF Table!mergeVars
  <2>3. CASE pc \notin {"done", "failed"}
    <3>1. Present' \subseteq Wanted(task)
      BY <1>3, <2>1 DEF SoundInv
    <3>2. /\ Wanted(task) \subseteq task.rows /\ IsFiniteSet(Wanted(task))
          /\ Table!ToCopy = Wanted(task)
          /\ Table!Merged' = Wanted(task) \cap Present'
      <4>1. /\ Wanted(task) \subseteq task.rows /\ IsFiniteSet(Wanted(task))
            /\ Table!ToCopy = Wanted(task)
        BY <1>3, SameRows
      <4>2. Table!Merged' = Wanted(task) \cap Present'
        BY <2>1, <4>1 DEF Table!ToCopy, Table!Merged
      <4>. QED
        BY <4>1, <4>2
    <3>3. ASSUME pc' = "done" PROVE Table!Cardinality(Table!Merged') >= Enough(task)
      <4>1. Table!Cardinality(Table!Merged') = Cardinality(Present')
        <5>1. Table!Merged' = Present'
          BY <3>1, <3>2
        <5>2. Table!Cardinality(Present') = Cardinality(Present')
          BY SameCardinality
        <5>. QED
          BY <5>1, <5>2
      <4>2. IsFiniteSet(Present') /\ Cardinality(Present') \in Nat
        BY <3>1, <3>2, FS_Subset, FS_CardinalityType
      <4>3. Enough(task) \in Nat /\ Enough(task) <= Cardinality(Wanted(task))
        BY <2>1, <3>2, EnoughFacts
      <4>4. CASE Satisfied'
        <5>1. /\ task.path \in {"upstream", "whole"} /\ task.limit # Unlimited
              /\ Cardinality(Present') >= task.limit
          BY <2>1, <4>4 DEF Satisfied
        <5>2. Enough(task) <= task.limit /\ task.limit \in Nat
          BY <2>1, <3>2, <5>1, EnoughFacts, LayoutAssumption
        <5>. QED
          BY <4>1, <4>2, <4>3, <5>1, <5>2
      <4>5. CASE ~Satisfied'
        <5>1. ~failed'
          BY <1>3, <3>3 DEF PlacesInv, Fanning
        <5>2. Wanted(task) \subseteq Present'
          BY <1>3, <2>1, <3>3, <4>5, <5>1 DEF CoverInv, Kept
        <5>3. Present' = Wanted(task)
          BY <3>1, <5>2
        <5>. QED
          BY <4>1, <4>2, <4>3, <5>3
      <4>. QED
        BY <4>4, <4>5
    <3>. DEFINE wanted == [r \in task.rows |-> IF r \in Wanted(task) THEN "there" ELSE "absent"]
                dest == [r \in task.rows |-> IF r \in Present THEN "there" ELSE "absent"]
                now == {r \in Table!ToCopy : dest'[r] = wanted[r]}
    <3>4. now = Present'
      BY <2>1, <3>1, <3>2
    <3>5. dest' = [r \in DOMAIN wanted |-> IF r \in now THEN wanted[r] ELSE dest[r]]
      <4>1. ASSUME NEW r \in task.rows
            PROVE  dest'[r] = IF r \in now THEN wanted[r] ELSE dest[r]
        BY <2>1, <3>1, <3>4
      <4>. QED
        BY <2>1, <4>1
    <3>6. wanted' = wanted /\ Enough(task)' = Enough(task)
      BY <2>1
    <3>. QED
      BY <2>3, <3>3, <3>5, <3>6 DEF Table!MergeStep
  <2>. QED
    BY <2>2, <2>3
<1>4. Spec => []Inv
  BY MergeInvariants
<1>. HIDE DEF Inv, P
<1>5. Spec /\ P => MergesTable
  BY <1>1, <1>2, <1>3, <1>4, PTL DEF Spec, MergesTable, Table!MergeSpec
<1>. QED
  BY <1>5 DEF P

----------------------------------------------------------------------------
(* The copy comes to its end: the parts of CopyTableEnds that are not about *)
(* fairness. Some thread can go on, and only so often.                     *)

\* Guards of the statements a pass may be read with: in one, in batches of the
\* largest set, or through a cursor.
PassCanGoOn(p) ==
    LET joins == PassJoins(task, p) IN
    \/ /\ Streamable(task, p) = {} /\ \A k \in task.kcs : Cardinality(joins[k]) <= BatchSize
       /\ Limited(UpstreamQuery(task, joins, p, {}), TRUE) # {}
    \/ /\ Streamable(task, p) = {}
       /\ \E k \in Largest(task.kcs, joins) : Cardinality(joins[k]) > BatchSize
    \/ Largest(Streamable(task, p), FullIds(task)) # {}

\* Guards of the steps of MainStep, and of those of a thread of the pool.
MainCanGoOn ==
    \/ pc = "start" /\ task.path \in {"upstream", "downstream", "direct"}
    \/ pc = "start" /\ task.path = "whole" /\ Limited(task.rows, TRUE) # {}
    \/ pc = "temps" /\ \E p \in passes :
                          Limited(UpstreamQuery(task, PassJoins(task, p), p, {}), TRUE) # {}
    \/ pc = "temps" /\ passes = {} /\ task.path = "upstream"
    \/ pc = "passes" /\ task.path = "upstream" /\ \E p \in passes : PassCanGoOn(p)
    \/ pc = "passes" /\ task.path = "downstream" /\ passes # {}
    \/ pc = "passes" /\ passes = {} /\ task.path \in {"upstream", "downstream"}
    \/ pc = "batches" /\ unread = {}
    \/ pc = "batches" /\ \E ids \in Fetches(unread) : Limited(BatchQuery(ids), TRUE) # {}
    \/ pc = "first" /\ Fetches(unread) # {}
    \/ pc \in {"connect", "apply"}
    \/ pc = "fan" /\ (unread = {} \/ (turn \in Pool /\ Fetches(unread) # {}))
    \/ pc \in {"drain", "split"} /\ Idle

WorkerCanGoOn(i) ==
    pc \in {"fan", "drain", "split"} /\ jobs[i] # <<>> /\ (i \in open \/ pc = "split")

\* A nonempty finite set has subsets of every smaller size.
LEMMA SubsetOfSize ==
    ASSUME NEW S, IsFiniteSet(S), NEW n \in Nat, n <= Cardinality(S)
    PROVE  \E T \in SUBSET S : Cardinality(T) = n
<1>. DEFINE Sizes == {m \in Nat : n <= m /\ \E T \in SUBSET S : Cardinality(T) = m}
<1>1. Cardinality(S) \in Sizes
  BY FS_CardinalityType
<1>2. PICK m \in Sizes : \A x \in Sizes : ~(x < m)
  <2>1. IsWellFoundedOn(OpToRel(<, Nat), Nat)
    BY NatLessThanWellFounded
  <2>2. Sizes \subseteq Nat /\ Sizes # {}
    BY <1>1
  <2>. HIDE DEF Sizes
  <2>3. PICK m \in Sizes : \A x \in Sizes : <<x, m>> \notin OpToRel(<, Nat)
    BY <2>1, <2>2, WFMin
  <2>. QED
    BY <2>2, <2>3 DEF OpToRel
<1>3. PICK T \in SUBSET S : Cardinality(T) = m
  OBVIOUS
<1>4. m = n
  <2>. SUFFICES ASSUME m # n PROVE FALSE
    OBVIOUS
  <2>1. m \in Nat /\ n < m /\ IsFiniteSet(T)
    BY <1>3, FS_Subset
  <2>2. PICK x \in T : TRUE
    BY <1>3, <2>1, FS_EmptySet
  <2>3. Cardinality(T \ {x}) = m - 1
    BY <1>3, <2>1, <2>2, FS_RemoveElement
  <2>4. m - 1 \in Sizes
    BY <2>1, <2>3
  <2>. QED
    BY <1>2, <2>1, <2>4
<1>. QED
  BY <1>3, <1>4

\* Among finitely many finite sets one is the largest.
LEMMA LargestExists ==
    ASSUME NEW K, IsFiniteSet(K), K # {}, NEW ids, \A k \in K : IsFiniteSet(ids[k])
    PROVE  Largest(K, ids) # {}
<1>. DEFINE Above(k) == {j \in K : Cardinality(ids[j]) > Cardinality(ids[k])}
            Sizes == {Cardinality(Above(k)) : k \in K}
<1>1. \A k \in K : Cardinality(ids[k]) \in Nat
  BY FS_CardinalityType
<1>2. \A k \in K : IsFiniteSet(Above(k)) /\ Cardinality(Above(k)) \in Nat
  <2>. SUFFICES ASSUME NEW k \in K
                PROVE  IsFiniteSet(Above(k)) /\ Cardinality(Above(k)) \in Nat
    OBVIOUS
  <2>1. Above(k) \subseteq K
    OBVIOUS
  <2>. HIDE DEF Above
  <2>. QED
    BY <2>1, FS_Subset, FS_CardinalityType
<1>3. PICK k \in K : \A j \in K : ~(Cardinality(Above(j)) < Cardinality(Above(k)))
  <2>1. IsWellFoundedOn(OpToRel(<, Nat), Nat)
    BY NatLessThanWellFounded
  <2>2. Sizes \subseteq Nat /\ Sizes # {}
    BY <1>2
  <2>3. PICK m \in Sizes : \A x \in Sizes : <<x, m>> \notin OpToRel(<, Nat)
    <3>. HIDE DEF Sizes
    <3>. QED
      BY <2>1, <2>2, WFMin
  <2>4. \A x \in Sizes : ~(x < m)
    BY <2>2, <2>3 DEF OpToRel
  <2>. HIDE DEF Above
  <2>. QED
    BY <2>4
<1>4. ASSUME NEW j \in K PROVE Cardinality(ids[j]) <= Cardinality(ids[k])
  <2>. SUFFICES ASSUME Cardinality(ids[j]) > Cardinality(ids[k]) PROVE FALSE
    BY <1>1
  <2>1. Above(j) \subseteq Above(k) /\ j \in Above(k) /\ j \notin Above(j)
    BY <1>1
  <2>. HIDE DEF Above
  <2>2. Cardinality(Above(j)) <= Cardinality(Above(k)) /\ Above(j) # Above(k)
    BY <1>2, <2>1, FS_Subset
  <2>3. Cardinality(Above(j)) # Cardinality(Above(k))
    BY <1>2, <2>1, <2>2, FS_Subset
  <2>. QED
    BY <1>2, <1>3, <2>2, <2>3
<1>. QED
  BY <1>4 DEF Largest

\* A cursor has something to return as long as there is something.
LEMMA FetchesExist ==
    ASSUME NEW S, IsFiniteSet(S)
    PROVE  /\ Fetches(S) # {}
           /\ S # {} => \A ids \in Fetches(S) : ids # {} /\ ids \subseteq S
<1>. DEFINE M == {BatchSize, Cardinality(S)}
<1>1. Cardinality(S) \in Nat /\ BatchSize \in Nat \ {0}
  BY FS_CardinalityType, StatementAssumption
<1>2. Min(M) \in M /\ \A y \in M : Min(M) <= y
  <2>1. \E x \in M : \A y \in M : x <= y
    BY <1>1
  <2>. HIDE DEF M
  <2>. QED
    BY <2>1 DEF Min
<1>3. Min(M) \in Nat /\ Min(M) <= Cardinality(S)
  BY <1>1, <1>2
<1>4. PICK T \in SUBSET S : Cardinality(T) = Min(M)
  <2>. HIDE DEF M
  <2>. QED
    BY <1>3, SubsetOfSize
<1>5. S # {} => Min(M) # 0
  BY <1>1, <1>2, FS_EmptySet
<1>6. Fetches(S) # {}
  BY <1>4 DEF Fetches
<1>7. ASSUME S # {}, NEW ids \in Fetches(S) PROVE ids # {} /\ ids \subseteq S
  BY <1>5, <1>7, FS_EmptySet DEF Fetches
<1>. QED
  BY <1>6, <1>7

\* A row limit always leaves some rows to take.
LEMMA LimitedExists ==
    ASSUME NEW single, task \in Layouts, NEW S \in SUBSET task.rows
    PROVE  Limited(S, single) # {}
<1>1. IsFiniteSet(S) /\ Cardinality(S) \in Nat
  BY LayoutAssumption, FS_Subset, FS_CardinalityType
<1>2. CASE ~single \/ task.limit = Unlimited \/ Cardinality(S) <= task.limit
  BY <1>2 DEF Limited
<1>3. CASE ~(~single \/ task.limit = Unlimited \/ Cardinality(S) <= task.limit)
  <2>1. task.limit \in Nat /\ task.limit <= Cardinality(S)
    <3>1. task.limit \in Nat
      BY <1>3, LayoutAssumption
    <3>. QED
      BY <1>1, <1>3, <3>1
  <2>2. PICK T \in SUBSET S : Cardinality(T) = task.limit
    BY <1>1, <2>1, SubsetOfSize
  <2>. QED
    BY <1>3, <2>2 DEF Limited, kSubset
<1>. QED
  BY <1>2, <1>3

\* What the cursor has left is finite.
LEMMA UnreadIsFinite ==
    ASSUME TypeOK, CursorInv, pc \in Reading
    PROVE  IsFiniteSet(unread)
<1>1. batched \in task.kcs /\ task \in Layouts /\ batched # NoPlan
  <2>1. batched \in task.kcs /\ task \in Layouts
    BY DEF CursorInv
  <2>2. NoPlan \notin task.kcs
    BY <2>1, LayoutAssumption
  <2>. QED
    BY <2>1, <2>2
<1>2. unread \subseteq task.ids[task.group[batched]]
  BY <1>1 DEF TypeOK
<1>. QED
  BY <1>1, <1>2, LayoutFacts, FS_Subset

\* Every pass falls under one of the three ways to read it.
LEMMA PassesCanGoOn ==
    ASSUME TypeOK, CursorInv, task.path = "upstream", NEW p \in passes
    PROVE  PassCanGoOn(p)
<1>. DEFINE joins == PassJoins(task, p)
<1>1. task \in Layouts /\ p \in Passes(task)
  BY DEF CursorInv
<1>2. CASE Streamable(task, p) # {}
  <2>. DEFINE K == Streamable(task, p)
  <2>1. K \subseteq task.kcs /\ IsFiniteSet(K)
    BY <1>1, LayoutFacts, FS_Subset DEF Streamable
  <2>2. \A k \in K : IsFiniteSet(FullIds(task)[k])
    BY <1>1, <2>1, LayoutFacts DEF FullIds
  <2>3. Largest(K, FullIds(task)) # {}
    <3>. HIDE DEF K
    <3>. QED
      BY <1>2, <2>1, <2>2, LargestExists DEF K
  <2>. QED
    BY <2>3 DEF PassCanGoOn
<1>3. CASE Streamable(task, p) = {}
  <2>1. \A k \in task.kcs : IsFiniteSet(joins[k]) /\ Cardinality(joins[k]) \in Nat
    <3>. SUFFICES ASSUME NEW k \in task.kcs
                  PROVE  IsFiniteSet(joins[k]) /\ Cardinality(joins[k]) \in Nat
      OBVIOUS
    <3>1. joins[k] \subseteq task.ids[task.group[k]]
      BY <1>1, PassesJoinIds DEF Valid
    <3>2. IsFiniteSet(task.ids[task.group[k]])
      BY <1>1, LayoutFacts
    <3>. HIDE DEF joins
    <3>. QED
      BY <3>1, <3>2, FS_Subset, FS_CardinalityType
  <2>2. CASE \A k \in task.kcs : Cardinality(joins[k]) <= BatchSize
    <3>1. UpstreamQuery(task, joins, p, {}) \subseteq task.rows
      BY <1>1, QueriesSelectRows
    <3>2. Limited(UpstreamQuery(task, joins, p, {}), TRUE) # {}
      BY <1>1, <3>1, LimitedExists
    <3>. QED
      BY <1>3, <2>2, <3>2 DEF PassCanGoOn
  <2>3. CASE \E k \in task.kcs : ~(Cardinality(joins[k]) <= BatchSize)
    <3>1. PICK k \in task.kcs : ~(Cardinality(joins[k]) <= BatchSize)
      BY <2>3
    <3>2. IsFiniteSet(task.kcs) /\ task.kcs # {}
      BY <1>1, LayoutFacts
    <3>. HIDE DEF joins
    <3>3. PICK m \in Largest(task.kcs, joins) : TRUE
      BY <2>1, <3>2, LargestExists
    <3>4. m \in task.kcs /\ Cardinality(joins[k]) <= Cardinality(joins[m])
      BY <3>3 DEF Largest
    <3>5. Cardinality(joins[m]) > BatchSize
      BY <2>1, <3>1, <3>4, StatementAssumption
    <3>. QED
      BY <1>3, <3>3, <3>5 DEF PassCanGoOn, joins
  <2>. QED
    BY <2>2, <2>3
<1>. QED
  BY <1>2, <1>3

\* Wherever the copy of a table is, some thread can go on: a pass has a way to be
\* read, a cursor something to return, a row limit rows to take; whoever is waited
\* for has a connection to finish on, or one to open. Whatever has failed.
THEOREM CopyNeverSticks ==
    Spec => [](pc \notin {"done", "failed"} => MainCanGoOn \/ \E i \in Pool : WorkerCanGoOn(i))
<1>. DEFINE Goal == pc \notin {"done", "failed"} => MainCanGoOn \/ \E i \in Pool : WorkerCanGoOn(i)
<1>1. ASSUME TypeOK, FanInv, CursorInv, PlacesInv PROVE Goal
  <2>. SUFFICES ASSUME pc \notin {"done", "failed"}
                PROVE  MainCanGoOn \/ \E i \in Pool : WorkerCanGoOn(i)
    OBVIOUS
  <2>0. task \in Layouts /\ task.path \in {"upstream", "downstream", "direct", "whole"}
    BY <1>1, LayoutAssumption DEF CursorInv
  <2>1. CASE pc = "start"
    <3>1. Limited(task.rows, TRUE) # {}
      BY <2>0, LimitedExists
    <3>. QED
      BY <2>0, <2>1, <3>1 DEF MainCanGoOn
  <2>2. CASE pc = "temps"
    <3>1. task.path = "upstream"
      BY <1>1, <2>2 DEF CursorInv
    <3>2. ASSUME NEW p \in passes
          PROVE  Limited(UpstreamQuery(task, PassJoins(task, p), p, {}), TRUE) # {}
      BY <2>0, QueriesSelectRows, LimitedExists
    <3>. QED
      BY <2>2, <3>1, <3>2 DEF MainCanGoOn
  <2>3. CASE pc = "passes"
    <3>1. task.path \in {"upstream", "downstream"}
      BY <1>1, <2>0, <2>3 DEF PlacesInv
    <3>2. task.path = "upstream" => \A p \in passes : PassCanGoOn(p)
      BY <1>1, PassesCanGoOn
    <3>. QED
      BY <2>3, <3>1, <3>2 DEF MainCanGoOn
  <2>4. CASE pc \in {"batches", "first"}
    <3>1. IsFiniteSet(unread)
      BY <1>1, <2>4, UnreadIsFinite DEF Reading
    <3>2. PICK ids \in Fetches(unread) : TRUE
      BY <3>1, FetchesExist
    <3>3. Limited(BatchQuery(ids), TRUE) # {}
      BY <2>0, BatchesSelectRows, LimitedExists
    <3>. QED
      BY <2>4, <3>2, <3>3 DEF MainCanGoOn
  <2>5. CASE pc \in {"connect", "apply"}
    BY <2>5 DEF MainCanGoOn
  <2>6. CASE pc = "fan"
    <3>1. Fetches(unread) # {}
      BY <1>1, <2>6, UnreadIsFinite, FetchesExist DEF Reading, Fanning
    <3>2. turn \in Pool
      BY <1>1, <2>0, <2>6, LayoutFacts DEF FanInv, TypeOK, Pool
    <3>. QED
      BY <2>6, <3>1, <3>2 DEF MainCanGoOn
  <2>7. CASE pc \in {"drain", "split"}
    <3>1. CASE Idle
      BY <2>7, <3>1 DEF MainCanGoOn
    <3>2. CASE ~Idle
      <4>1. PICK i \in Pool : jobs[i] # <<>>
        BY <3>2 DEF Idle
      <4>2. pc = "drain" => i \in open
        BY <1>1, <4>1 DEF FanInv, Fanning
      <4>. QED
        BY <2>7, <4>1, <4>2 DEF WorkerCanGoOn
    <3>. QED
      BY <3>1, <3>2
  <2>. QED
    BY <1>1, <2>1, <2>2, <2>3, <2>4, <2>5, <2>6, <2>7 DEF TypeOK, Places
<1>. HIDE DEF Goal
<1>2. Spec => []Goal
  BY <1>1, MergeInvariants, PTL
<1>. QED
  BY <1>2 DEF Goal

\* The order of the places between two passes.
PlaceRank(place) ==
    CASE place \in {"first", "batches"}      -> 1
      [] place = "connect"                   -> 2
      [] place \in {"fan", "drain", "split"} -> 3
      [] place \in {"passes", "temps"}       -> 4
      [] place = "apply"                     -> 5
      [] OTHER                               -> 6

\* The copy comes further: it begins; a pass less is to come; a later place is
\* reached; the cursor has less to return; something fails that had not; a round
\* ends because it is the last, or begins because it is not; a job is over or has
\* its connection.
Further ==
    /\ pc' # "start"
    /\ \/ pc = "start"
       \/ passes' \subseteq passes /\ passes' # passes
       \/ /\ passes' = passes
          /\ \/ PlaceRank(pc') > PlaceRank(pc)
             \/ /\ PlaceRank(pc') = PlaceRank(pc)
                /\ \/ pc \in Reading /\ unread' \subseteq unread /\ unread' # unread
                   \/ unread' = unread /\ ~failed /\ failed'
                   \/ /\ UNCHANGED <<unread, failed>>
                      /\ IF failed \/ unread = {} THEN pc = "fan" /\ pc' = "drain"
                                                  ELSE pc = "drain" /\ pc' = "fan"
                   \/ /\ UNCHANGED <<pc, unread, failed>>
                      /\ \E i \in Pool :
                            \/ /\ Len(jobs'[i]) < Len(jobs[i])
                               /\ \A j \in Pool \ {i} : jobs'[j] = jobs[j]
                            \/ jobs' = jobs /\ i \notin open /\ open' = open \cup {i}

\* Every step of a copy brings it further, failures included, through finitely
\* many passes and IDs: no sequence of rounds, batches or passes goes on for ever.
THEOREM CopyAdvances ==
    Spec => /\ [](IsFiniteSet(passes) /\ (pc \in Reading => IsFiniteSet(unread)))
            /\ [][Further]_vars
<1>1. ASSUME TypeOK, CursorInv PROVE IsFiniteSet(passes) /\ (pc \in Reading => IsFiniteSet(unread))
  <2>1. task \in Layouts /\ IsFiniteSet(task.kcs \cup {NoPlan})
    BY <1>1, LayoutFacts, FS_AddElement DEF CursorInv
  <2>2. IsFiniteSet(passes)
    BY <1>1, <2>1, FS_Subset DEF TypeOK
  <2>. QED
    BY <1>1, <2>2, UnreadIsFinite
<1>2. ASSUME TypeOK, CursorInv, [Next]_vars PROVE [Further]_vars
  <2>1. CASE CopyTarget \/ CopyWhole \/ StartUpstream \/ StartDownstream
    <3>1. pc = "start" /\ pc' # "start"
      BY <2>1 DEF CopyTarget, CopyWhole, StartUpstream, StartDownstream, Split
    <3>. QED
      BY <3>1 DEF Further
  <2>2. CASE TempPass \/ ResidentPass \/ BatchedPass \/ StreamedPass \/ ReadMissing
    <3>1. pc' # "start" /\ \E p \in passes : passes' = passes \ {p}
      BY <2>2 DEF TempPass, ResidentPass, BatchedPass, StreamedPass, ReadMissing
    <3>. QED
      BY <3>1 DEF Further
  <2>3. ASSUME passes' = passes, pc # "start" => PlaceRank(pc') > PlaceRank(pc), pc' # "start"
        PROVE  Further
    BY <2>3 DEF Further
  <2>4. CASE EndBatches \/ EndPasses \/ EndDownstream \/ Apply \/ Connect \/ EndFan \/ EndSplit
    <3>1. /\ passes' = passes
          /\ \/ pc = "batches" /\ pc' = "passes"
             \/ pc \in {"passes", "temps"} /\ pc' \in {"apply", "done"}
             \/ pc = "apply" /\ pc' = "done"
             \/ pc = "connect" /\ pc' = "fan"
             \/ pc = "drain" /\ pc' \in {"passes", "done", "failed"}
             \/ pc = "split" /\ pc' \in {"done", "failed"}
      BY <2>4 DEF EndBatches, EndPasses, EndDownstream, Apply, Connect, EndFan, EndSplit
    <3>2. pc' # "start" /\ PlaceRank(pc') > PlaceRank(pc)
      BY <3>1 DEF PlaceRank
    <3>. QED
      BY <2>3, <3>1, <3>2
  <2>5. CASE FirstFetch
    <3>1. passes' = passes /\ pc = "first" /\ pc' \in {"done", "connect", "split"}
      BY <2>5 DEF FirstFetch, Split
    <3>2. pc' # "start" /\ PlaceRank(pc') > PlaceRank(pc)
      BY <3>1 DEF PlaceRank
    <3>. QED
      BY <2>3, <3>1, <3>2
  <2>6. CASE StatementFails
    <3>1. /\ passes' = passes /\ pc' = "failed"
          /\ pc \in Places \ {"fan", "drain", "split", "done", "failed"}
      BY <1>2, <2>6 DEF StatementFails, TypeOK
    <3>2. pc' # "start" /\ (pc # "start" => PlaceRank(pc') > PlaceRank(pc))
      BY <3>1 DEF PlaceRank, Places
    <3>. QED
      BY <2>3, <3>1, <3>2
  <2>7. CASE CopyBatch \/ Submit
    <3>1. /\ passes' = passes /\ unread # {} /\ \E ids \in Fetches(unread) : unread' = unread \ ids
          /\ \/ pc = "batches" /\ pc' = "batches"
             \/ pc = "fan" /\ pc' \in {"fan", "drain"}
      BY <2>7 DEF CopyBatch, Submit
    <3>2. pc \in Reading /\ PlaceRank(pc') = PlaceRank(pc) /\ pc' # "start"
      BY <3>1 DEF PlaceRank, Reading, Fanning
    <3>3. unread' \subseteq unread /\ unread' # unread
      BY <1>2, <3>1, <3>2, UnreadIsFinite, FetchesExist
    <3>. QED
      BY <3>1, <3>2, <3>3 DEF Further
  <2>8. CASE Exhausted \/ FetchFails \/ NextRound
    <3>1. /\ passes' = passes /\ unread' = unread /\ pc' # "start"
          /\ pc \in {"fan", "drain"} /\ pc' \in {"fan", "drain"}
          /\ \/ ~failed /\ failed'
             \/ /\ failed' = failed
                /\ IF failed \/ unread = {} THEN pc = "fan" /\ pc' = "drain"
                                            ELSE pc = "drain" /\ pc' = "fan"
      BY <1>2, <2>8 DEF Exhausted, FetchFails, NextRound, cursorVars, poolVars, TypeOK
    <3>2. PlaceRank(pc') = PlaceRank(pc)
      BY <3>1 DEF PlaceRank
    <3>. QED
      BY <3>1, <3>2 DEF Further
  <2>9. ASSUME NEW i \in Pool, WorkerConnects(i) \/ RunJob(i) \/ JobFails(i) PROVE Further
    <3>1. /\ UNCHANGED <<pc, passes, unread>> /\ pc \in {"fan", "drain", "split"} /\ jobs[i] # <<>>
      BY <2>9 DEF WorkerConnects, RunJob, JobFails, cursorVars
    <3>2. PlaceRank(pc') = PlaceRank(pc) /\ pc' # "start"
      BY <3>1
    <3>3. CASE WorkerConnects(i)
      BY <3>1, <3>2, <3>3 DEF WorkerConnects, Further
    <3>4. CASE RunJob(i) \/ JobFails(i)
      <4>1. jobs' = [jobs EXCEPT ![i] = Tail(@)] /\ (failed' = failed \/ (~failed /\ failed'))
        BY <1>2, <3>4 DEF RunJob, JobFails, TypeOK
      <4>2. Len(jobs'[i]) < Len(jobs[i]) /\ \A j \in Pool \ {i} : jobs'[j] = jobs[j]
        <5>1. jobs[i] \in Seq(SUBSET task.rows) /\ jobs \in [Pool -> Seq(SUBSET task.rows)]
          BY <1>2 DEF TypeOK
        <5>2. Len(Tail(jobs[i])) = Len(jobs[i]) - 1 /\ Len(jobs[i]) \in Nat
          BY <3>1, <5>1
        <5>3. jobs'[i] = Tail(jobs[i]) /\ \A j \in Pool \ {i} : jobs'[j] = jobs[j]
          BY <4>1, <5>1
        <5>. QED
          BY <5>2, <5>3
      <4>. QED
        BY <3>1, <3>2, <4>1, <4>2 DEF Further
    <3>. QED
      BY <2>9, <3>3, <3>4
  <2>. QED
    BY <1>2, <2>1, <2>2, <2>4, <2>5, <2>6, <2>7, <2>8, <2>9 DEF Next, MainStep, Over
<1>. QED
  BY <1>1, <1>2, MergeInvariants, PTL DEF Spec
=============================================================================
