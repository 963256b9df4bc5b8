--------------------------- MODULE MiddleOut_proofs ---------------------------
(***************************************************************************)
(* The delta journal of the traversal, for any graph, any source, any      *)
(* number of runs and any interleaving of tasks: what a resumed run reads  *)
(* is what its predecessors inserted.                                      *)
(*                                                                         *)
(* The argument: the delta entry is written in the statement that writes   *)
(* the row, and the first entry a row gets tells whether it was there when *)
(* the journal was opened; later writes never change the entry. Recreate   *)
(* runs write rows without entries, so it matters that no recreate run     *)
(* writes under an open journal.                                           *)
(***************************************************************************)
EXTENDS MiddleOut, FkGraph_proofs

----------------------------------------------------------------------------
(* Least and greatest levels.                                              *)

\* The next level up is the least of the levels.
LEMMA MinIsLeast ==
    ASSUME NEW S \in SUBSET Nat, S # {}
    PROVE  Min(S) \in S /\ \A s \in S : Min(S) <= s
BY LeastNumber DEF Min

\* The next level down is the greatest of the levels.
LEMMA MaxIsGreatest ==
    ASSUME NEW N \in Nat, NEW S \in SUBSET (0 .. N), S # {}
    PROVE  Max(S) \in S /\ \A s \in S : Max(S) >= s
<1>. DEFINE T == {N - s : s \in S}
<1>1. T \in SUBSET Nat /\ T # {}
  <2>1. \A s \in S : N - s \in Nat
    OBVIOUS
  <2>. QED
    BY <2>1
<1>2. PICK x \in T : \A y \in T : x =< y
  BY <1>1, LeastNumber
<1>3. PICK s \in S : x = N - s
  BY <1>2
<1>4. ASSUME NEW r \in S PROVE s >= r
  <2>1. N - s <= N - r /\ s \in 0 .. N /\ r \in 0 .. N
    BY <1>2, <1>3
  <2>. QED
    BY <2>1
<1>. QED
  BY <1>4 DEF Max

----------------------------------------------------------------------------
(* Type correctness.                                                       *)

\* A task only ever writes rows its snapshot has.
TodoIsLive == \A t \in Tables : todo[t] \subseteq Live(snap)

\* run_middle_out always goes on to a stage it has, at a stratum there is.
LEMMA NextStopType == NextStop[1] \in Stages /\ NextStop[2] \in 0 .. Depth
<1>. DEFINE U(n) == {m \in UpstreamLevels : m > n}
            D(n) == {m \in DownstreamLevels : m < n}
<1>1. \A n : U(n) # {} => Min(U(n)) \in 0 .. Depth
  <2>. SUFFICES ASSUME NEW n, U(n) # {} PROVE Min(U(n)) \in 0 .. Depth
    OBVIOUS
  <2>1. U(n) \in SUBSET UpstreamLevels
    OBVIOUS
  <2>2. U(n) \in SUBSET Nat /\ U(n) \in SUBSET (0 .. Depth)
    BY <2>1, LevelsType
  <2>. QED
    BY <2>2, MinIsLeast
<1>2. \A n : D(n) # {} => Max(D(n)) \in 0 .. Depth
  <2>. SUFFICES ASSUME NEW n, D(n) # {} PROVE Max(D(n)) \in 0 .. Depth
    OBVIOUS
  <2>1. D(n) \in SUBSET DownstreamLevels
    OBVIOUS
  <2>2. D(n) \in SUBSET (0 .. Depth) /\ Depth \in Nat
    BY <2>1, LevelsType
  <2>. QED
    BY <2>2, MaxIsGreatest
<1>3. 0 \in 0 .. Depth
  BY LevelsType
<1>. HIDE DEF U, D
<1>4. CASE stage = "direct"
  <2>1. NextStop \in {<<"passthrough", 0>>, <<"upstream", Min(U(0))>>}
        /\ (U(0) = {} => NextStop = <<"passthrough", 0>>)
    BY <1>4 DEF NextStop, U
  <2>. QED
    BY <1>1, <1>3, <2>1 DEF Stages
<1>5. CASE stage = "upstream"
  <2>1. NextStop \in {<<"passthrough", 0>>, <<"upstream", Min(U(level))>>}
        /\ (U(level) = {} => NextStop = <<"passthrough", 0>>)
    BY <1>5 DEF NextStop, U
  <2>. QED
    BY <1>1, <1>3, <2>1 DEF Stages
<1>6. CASE stage = "passthrough"
  <2>1. NextStop \in {<<"disconnected", 0>>, <<"constraints", 0>>, <<"downstream", Max(D(Depth + 1))>>}
        /\ (D(Depth + 1) = {} => NextStop # <<"downstream", Max(D(Depth + 1))>>)
    BY <1>6 DEF NextStop, D
  <2>. QED
    BY <1>2, <1>3, <2>1 DEF Stages
<1>7. CASE stage = "downstream"
  <2>1. NextStop \in {<<"disconnected", 0>>, <<"constraints", 0>>, <<"downstream", Max(D(level))>>}
        /\ (D(level) = {} => NextStop # <<"downstream", Max(D(level))>>)
    BY <1>7 DEF NextStop, D
  <2>. QED
    BY <1>2, <1>3, <2>1 DEF Stages
<1>8. CASE stage \notin {"direct", "upstream", "passthrough", "downstream"}
  BY <1>3, <1>8 DEF NextStop, Stages
<1>. QED
  BY <1>4, <1>5, <1>6, <1>7, <1>8

\* What a task fetches is an image its row may have.
LEMMA FetchedType ==
    ASSUME TypeOK, NEW r \in Live(snap) PROVE Fetched(r) \in AllImages /\ r \in Rows
<1>1. r \in Rows /\ snap[r] \in Images(r)
  BY DEF TypeOK, IsDatabase, Live
<1>2. Redact(snap[r]) \in Images(r)
  BY <1>1 DEF Images, Redact
<1>. QED
  BY <1>1, <1>2 DEF Fetched, AllImages

\* What a task selects are rows of the snapshot.
LEMMA ChoicesAreLive ==
    ASSUME NEW t \in With("pending"), NEW S \in RowChoices(t) PROVE S \subseteq Live(snap)
<1>1. CASE stage = "direct"
  BY <1>1 DEF RowChoices, DirectRows
<1>2. CASE stage = "upstream"
  BY <1>2 DEF RowChoices, UpstreamRows, PartlyLimited
<1>3. CASE stage = "passthrough"
  BY <1>3 DEF RowChoices, Limited
<1>4. CASE stage = "downstream"
  BY <1>4 DEF RowChoices, DownstreamRows
<1>5. CASE stage = "disconnected"
  BY <1>5 DEF RowChoices
<1>. QED
  BY <1>1, <1>2, <1>3, <1>4, <1>5 DEF With, StageTables

\* The initial states are of the type.
LEMMA TypeInit == Init => TypeOK /\ TodoIsLive
<1>. SUFFICES ASSUME Init PROVE TypeOK /\ TodoIsLive
  OBVIOUS
<1>1. <<>> \in Seq(AllImages)
  OBVIOUS
<1>2. IsDatabase(src) /\ snap = src
  BY RowAssumption DEF Init
<1>3. /\ dest \in [Rows -> Seq(AllImages)] /\ base = dest
      /\ delta \in [Rows -> {"none", "refreshed", "inserted"}]
      /\ origin \in [Rows -> Stages]
  BY <1>1 DEF Init, Stages
<1>4. /\ level \in 0 .. Depth /\ runs \in 0 .. MaxRuns /\ changes \in 0 .. MaxChanges
  BY LevelsType, RowAssumption DEF Init
<1>5. /\ status \in [Tables -> {"pending", "running", "done", "failed"}]
      /\ todo \in [Tables -> SUBSET Rows] /\ TodoIsLive
  BY DEF Init, TodoIsLive
<1>. QED
  BY <1>2, <1>3, <1>4, <1>5 DEF Init, TypeOK, Stages

\* Every step keeps the type and copies rows of the snapshot only.
LEMMA TypeStep == TypeOK /\ TodoIsLive /\ [Next]_vars => TypeOK' /\ TodoIsLive'
<1>. SUFFICES ASSUME TypeOK, TodoIsLive, [Next]_vars PROVE TypeOK' /\ TodoIsLive'
  OBVIOUS
<1>. USE DEF TypeOK, TodoIsLive, Live
<1>0. 0 \in 0 .. Depth /\ <<>> \in Seq(AllImages)
  BY LevelsType
<1>1. CASE UNCHANGED vars
  BY <1>1 DEF vars, IsDatabase, Consistent
<1>2. ASSUME NEW m, StartRun(m), m \in {"recreate"} \cup Incremental
      PROVE  /\ IsDatabase(src') /\ IsDatabase(snap') /\ mode' \in {"recreate"} \cup Incremental
             /\ stage' \in Stages /\ level' \in 0 .. Depth /\ processed' \subseteq Tables
             /\ status' \in [Tables -> {"pending", "running", "done", "failed"}]
             /\ todo' \in [Tables -> SUBSET Rows] /\ runs' \in 0 .. MaxRuns
             /\ changes' \in 0 .. MaxChanges /\ TodoIsLive'
  BY <1>0, <1>2, RowAssumption DEF StartRun, ResetTasks, Stages
<1>3. CASE StartRecreate
  BY <1>0, <1>2, <1>3 DEF StartRecreate, Stages
<1>4. ASSUME NEW m \in Incremental, StartIncremental(m) PROVE TypeOK' /\ TodoIsLive'
  BY <1>2, <1>4 DEF StartIncremental
<1>5. ASSUME NEW t \in Tables, Begin(t) PROVE TypeOK' /\ TodoIsLive'
  <2>1. PICK S \in RowChoices(t) :
            /\ todo' = [todo EXCEPT ![t] = S]
            /\ status' = [status EXCEPT ![t] = IF S = {} THEN "done" ELSE "running"]
    BY <1>5 DEF Begin
  <2>2. S \subseteq Live(snap) /\ Live(snap) \subseteq Rows
    BY <1>5, ChoicesAreLive DEF Begin, MayBegin
  <2>. QED
    BY <1>5, <2>1, <2>2 DEF Begin
<1>6. ASSUME NEW t \in Tables, Copy(t) PROVE TypeOK' /\ TodoIsLive'
  <2>1. PICK r \in todo[t] :
            /\ Write(r)
            /\ origin' = IF Resident(r) THEN origin ELSE [origin EXCEPT ![r] = stage]
            /\ todo' = [todo EXCEPT ![t] = @ \ {r}]
            /\ status' = IF todo[t] = {r} THEN [status EXCEPT ![t] = "done"] ELSE status
    BY <1>6 DEF Copy
  <2>2. r \in Rows /\ Fetched(r) \in AllImages
    BY FetchedType
  <2>3. /\ dest' \in [Rows -> Seq(AllImages)]
        /\ delta' \in [Rows -> {"none", "refreshed", "inserted"}]
    <3>1. CASE mode = "recreate"
      <4>1. Append(dest[r], Fetched(r)) \in Seq(AllImages)
        BY <2>2
      <4>2. dest' = [dest EXCEPT ![r] = Append(@, Fetched(r))] /\ UNCHANGED delta
        BY <2>1, <3>1 DEF Write
      <4>. QED
        BY <4>1, <4>2
    <3>2. CASE mode # "recreate"
      <4>1. <<Fetched(r)>> \in Seq(AllImages)
        BY <2>2
      <4>2. /\ dest' = [dest EXCEPT ![r] = <<Fetched(r)>>]
            /\ \E d \in {"inserted", "refreshed", delta[r]} : delta' = [delta EXCEPT ![r] = d]
        BY <2>1, <3>2 DEF Write
      <4>. QED
        BY <2>2, <4>1, <4>2
    <3>. QED
      BY <3>1, <3>2
  <2>4. /\ origin' \in [Rows -> Stages] /\ todo' \in [Tables -> SUBSET Rows]
        /\ status' \in [Tables -> {"pending", "running", "done", "failed"}]
    BY <2>1
  <2>5. TodoIsLive'
    BY <1>6, <2>1 DEF Copy
  <2>. QED
    BY <1>6, <2>3, <2>4, <2>5 DEF Copy
<1>7. ASSUME NEW t \in Tables, TaskFails(t) PROVE TypeOK' /\ TodoIsLive'
  BY <1>7 DEF TaskFails
<1>8. CASE AdvanceStage
  <2>1. Added \subseteq Tables
    BY GraphAssumption DEF Added, Relevant, Redacted
  <2>2. stage' \in Stages /\ level' \in 0 .. Depth
    BY <1>8, NextStopType DEF AdvanceStage
  <2>. QED
    BY <1>8, <2>1, <2>2 DEF AdvanceStage, ResetTasks
<1>9. CASE RunFails \/ Crash
  BY <1>0, <1>9 DEF RunFails, Crash, Abandon, ResetTasks, Stages
<1>10. CASE AddConstraints
  BY <1>0, <1>10 DEF AddConstraints, SingleCopies, ResetTasks, Stages
<1>11. CASE FinishIncremental
  BY <1>0, <1>11 DEF FinishIncremental, ResetTasks, Stages
<1>12. CASE SourceChange
  <2>1. IsDatabase(src')
    BY <1>12 DEF SourceChange, IsDatabase
  <2>2. changes' \in 0 .. MaxChanges
    BY <1>12, RowAssumption DEF SourceChange
  <2>. QED
    BY <1>12, <2>1, <2>2 DEF SourceChange
<1>. QED
  BY <1>1, <1>3, <1>4, <1>5, <1>6, <1>7, <1>8, <1>9, <1>10, <1>11, <1>12 DEF Next, TaskStep

\* Every variable keeps its type; what a task copies is a row of the snapshot,
\* and what it writes is an image such a row may have.
THEOREM TypeCorrect == Spec => []TypeOK
<1>. QED
  BY TypeInit, TypeStep, PTL DEF Spec

----------------------------------------------------------------------------
(* The journal.                                                            *)

\* What the journal may say of a row.
Deltas == {"none", "refreshed", "inserted"}

\* The shape of what the journal is about.
JournalType ==
    /\ DOMAIN dest = Rows /\ DOMAIN base = Rows
    /\ delta \in [Rows -> Deltas]
    /\ mode \in {"recreate"} \cup Incremental
    /\ journal \in {"none"} \cup Incremental

\* A run at work has the journal of its mode: a recreate run none.
JournalOfRun ==
    stage # "idle" => journal = IF mode = "recreate" THEN "none" ELSE mode

\* Without a journal there are no entries.
NoStrayDeltas == journal = "none" => \A r \in Rows : delta[r] = "none"

\* What a row's entry says, with the case DeltaTracksInserts leaves out: a
\* refreshed row was there before.
EntryTells(r) ==
    /\ delta[r] = "inserted" <=> Resident(r) /\ base[r] = <<>>
    /\ delta[r] = "none" => dest[r] = base[r]
    /\ delta[r] = "refreshed" => Resident(r) /\ base[r] # <<>>

\* All of it, inductive together with TypeOK.
DInv == /\ JournalType /\ JournalOfRun /\ NoStrayDeltas
        /\ journal # "none" => \A r \in Rows : EntryTells(r)

\* Without a journal there are no entries to be wrong.
LEMMA DInvInit == Init => DInv
BY DEF Init, DInv, JournalType, JournalOfRun, NoStrayDeltas, Deltas

\* The upsert and its entry.
LEMMA WriteKeepsEntries ==
    ASSUME DInv, stage # "idle", NEW r \in Rows, Write(r), UNCHANGED <<base, journal, mode, stage>>
    PROVE  DInv'
<1>. DEFINE c == Fetched(r)
<1>1. CASE mode = "recreate"
  <2>1. /\ journal = "none" /\ UNCHANGED delta
        /\ DOMAIN dest' = Rows
    BY <1>1 DEF Write, DInv, JournalOfRun, JournalType, Incremental
  <2>. QED
    BY <2>1 DEF DInv, JournalType, JournalOfRun, NoStrayDeltas
<1>2. CASE mode # "recreate"
  <2>1. /\ journal # "none" /\ \A q \in Rows : EntryTells(q)
    BY <1>2 DEF DInv, JournalOfRun, JournalType, Incremental
  <2>2. /\ dest' = [dest EXCEPT ![r] = <<c>>]
        /\ delta' = [delta EXCEPT ![r] = IF ~Resident(r) THEN "inserted"
                                         ELSE IF dest[r] = <<c>> \/ @ # "none" THEN @
                                         ELSE "refreshed"]
    BY <1>2 DEF Write
  <2>3. /\ DOMAIN dest' = Rows /\ dest'[r] = <<c>> /\ delta' \in [Rows -> Deltas]
        /\ \A q \in Rows \ {r} : dest'[q] = dest[q] /\ delta'[q] = delta[q]
    BY <2>2 DEF DInv, JournalType, Deltas
  <2>4. ASSUME NEW q \in Rows, q # r PROVE EntryTells(q)'
    BY <2>1, <2>3, <2>4 DEF EntryTells, Resident
  <2>5. EntryTells(r)'
    <3>1. <<c>> # <<>>
      OBVIOUS
    <3>2. CASE ~Resident(r)
      \* The row has no entry but perhaps a base; it is not there, so neither.
      <4>1. base[r] = <<>> /\ delta'[r] = "inserted"
        BY <2>1, <2>2, <3>2 DEF EntryTells, Resident, DInv, JournalType, Deltas
      <4>. QED
        BY <2>3, <3>1, <4>1 DEF EntryTells, Resident
    <3>3. CASE Resident(r) /\ (dest[r] = <<c>> \/ delta[r] # "none")
      <4>1. delta'[r] = delta[r]
        BY <2>2, <3>3 DEF DInv, JournalType
      <4>. QED
        BY <2>1, <2>3, <3>1, <3>3, <4>1 DEF EntryTells, Resident
    <3>4. CASE Resident(r) /\ dest[r] # <<c>> /\ delta[r] = "none"
      <4>1. delta'[r] = "refreshed"
        BY <2>2, <3>4 DEF DInv, JournalType
      <4>. QED
        BY <2>1, <2>3, <3>1, <3>4, <4>1 DEF EntryTells, Resident
    <3>. QED
      BY <3>2, <3>3, <3>4
  <2>. QED
    BY <2>1, <2>3, <2>4, <2>5 DEF DInv, JournalType, JournalOfRun, NoStrayDeltas
<1>. QED
  BY <1>1, <1>2

\* Every step keeps each entry telling what happened to its row.
LEMMA DInvStep == TypeOK /\ DInv /\ [Next]_vars => DInv'
<1>. SUFFICES ASSUME TypeOK, DInv, [Next]_vars PROVE DInv'
  OBVIOUS
<1>. USE DEF DInv, JournalType, JournalOfRun, NoStrayDeltas, EntryTells, Resident
<1>0. ASSUME UNCHANGED <<dest, delta, journal, base, mode>>,
             stage' = "idle" \/ stage' = stage \/ stage # "idle"
      PROVE  DInv'
  BY <1>0
<1>1. CASE UNCHANGED vars
  BY <1>0, <1>1 DEF vars
<1>2. CASE StartRecreate
  BY <1>2 DEF StartRecreate, StartRun, Deltas
<1>3. ASSUME NEW m \in Incremental, StartIncremental(m) PROVE DInv'
  <2>1. /\ mode' = m /\ journal' = m /\ m # "none" /\ m # "recreate"
        /\ base' = IF journal = "none" THEN dest ELSE base
        /\ UNCHANGED <<dest, delta>>
    BY <1>3 DEF StartIncremental, StartRun, Incremental
  <2>2. CASE journal = "none"
    BY <2>1, <2>2
  <2>3. CASE journal # "none"
    BY <2>1, <2>3
  <2>. QED
    BY <2>2, <2>3
<1>4. ASSUME NEW t \in Tables, Begin(t) \/ TaskFails(t) PROVE DInv'
  BY <1>0, <1>4 DEF Begin, TaskFails
<1>5. ASSUME NEW t \in Tables, Copy(t) PROVE DInv'
  <2>1. stage # "idle"
    BY <1>5 DEF Copy, With, StageTables
  <2>2. PICK r \in todo[t] : Write(r)
    BY <1>5 DEF Copy
  <2>3. r \in Rows
    BY DEF TypeOK
  <2>. QED
    BY <1>5, <2>1, <2>2, <2>3, WriteKeepsEntries DEF Copy
<1>6. CASE AdvanceStage
  BY <1>0, <1>6 DEF AdvanceStage
<1>7. CASE RunFails \/ Crash
  BY <1>0, <1>7 DEF RunFails, Crash, Abandon
<1>8. CASE AddConstraints
  BY <1>0, <1>8 DEF AddConstraints
<1>9. CASE FinishIncremental
  <2>1. CASE ForeignKeysHold
    BY <1>9, <2>1 DEF FinishIncremental, Deltas
  <2>2. CASE ~ForeignKeysHold
    BY <1>0, <1>9, <2>2 DEF FinishIncremental
  <2>. QED
    BY <2>1, <2>2
<1>10. CASE SourceChange
  BY <1>0, <1>10 DEF SourceChange
<1>. QED
  BY <1>1, <1>2, <1>3, <1>4, <1>5, <1>6, <1>7, <1>8, <1>9, <1>10 DEF Next, TaskStep

\* The strengthening of DeltaTracksInserts: without a journal there are no
\* entries, and with one every entry tells what happened to its row since it was opened.
THEOREM JournalInvariant == Spec => []DInv
<1>. QED
  BY TypeCorrect, DInvInit, DInvStep, PTL DEF Spec

\* Through any failures, kills and resumes, an entry is marked inserted exactly
\* when the row is there and was not when the journal was opened.
THEOREM DeltasAreExact == Spec => []DeltaTracksInserts
<1>1. DInv => DeltaTracksInserts
  BY DEF DInv, EntryTells, DeltaTracksInserts
<1>. QED
  BY <1>1, JournalInvariant, PTL
=============================================================================
