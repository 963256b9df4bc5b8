----------------------------- MODULE Closure_proofs -----------------------------
(***************************************************************************)
(* When the traversal is done, the foreign keys can be restored: for any   *)
(* graph, any source that changes between the runs, and any sequence of    *)
(* recreate, topup and grow runs, failed, killed or resumed.               *)
(*                                                                         *)
(* The argument follows a copied row r and a relationship k of it:         *)
(*  - a row the journal has no entry for is as it was when the journal was *)
(*    opened, and the destination was closed then (BaseInv): incremental   *)
(*    runs are only admitted to a destination with its keys, and a journal *)
(*    only goes when the keys are back;                                    *)
(*  - a parent in a table copied whole is there (WholeInv);                *)
(*  - a relationship that is not followed has been copied as NULL          *)
(*    (NulledInv), except in tables copied whole;                          *)
(*  - any other parent is settled by the downstream phase, which comes     *)
(*    down the strata: when the parents' table has its turn, all rows that *)
(*    can point at it have been written (SettledInv).                      *)
(*                                                                         *)
(* Tables copied whole escape the strata, so what points out of them or    *)
(* into them must be covered by the configuration (PassthroughCovered).    *)
(*                                                                         *)
(* After that: the subset is no larger than it has to be, and a run is     *)
(* never stuck and never goes on for ever.                                 *)
(***************************************************************************)
EXTENDS Selection_proofs

\* What the configuration has to see to, since a passthrough table is copied
\* with all its columns and never subsetted downstream: no row limit on a
\* passthrough table that others point at, and no relationship that is given
\* up from a passthrough table to one that is not.
PassthroughCovered ==
    \A k \in Fks :
        /\ (target_table[k] \in PassthroughTables
              /\ (k \in Redacted \/ fk_table[k] \in PassthroughTables)) => MaxRows = Unlimited
        /\ (k \in Nulled /\ fk_table[k] \in PassthroughTables) => target_table[k] \in PassthroughTables

\* Every pointer that was not given up for good points at a row that is there.
Closed(db) ==
    \A r \in Rows : \A i \in 1 .. Len(db[r]) : \A k \in FksOf(table_of[r]) :
        db[r][i][k] = Null \/ db[db[r][i][k]] # <<>> \/ Pair(k) \in Opportunists

\* The destination an incremental run is admitted to is closed; while a journal
\* is open it is the one that was there when it was opened.
BaseInv == /\ journal # "none" => Closed(base)
           /\ (built /\ journal = "none") => stage = "idle" /\ Closed(dest)

\* A table copied whole has all the rows of the snapshot, once it has been read
\* and its rows written.
WholeInv ==
    stage # "idle" => \A r \in Live(snap) :
        LET t == table_of[r] IN
        /\ (t \in PassthroughTables /\ MaxRows = Unlimited) =>
              \/ stage \in {"direct", "upstream"}
              \/ stage = "passthrough" /\ (NotRead(t) \/ r \in todo[t])
              \/ Resident(r)
        /\ (t \in Disconnected /\ KeepDisconnected) =>
              \/ stage \notin {"disconnected", "constraints"}
              \/ stage = "disconnected" /\ (NotRead(t) \/ r \in todo[t])
              \/ Resident(r)

\* Disconnected tables are copied on request only.
EmptyInv ==
    /\ stage = "disconnected" => KeepDisconnected
    /\ ~KeepDisconnected => \A r \in Rows : table_of[r] \in Disconnected => ~Resident(r)

\* Columns that are given up are NULL, but in tables copied whole.
NulledInv ==
    \A r \in Rows : table_of[r] \notin PassthroughTables \cup Disconnected =>
        \A i \in 1 .. Len(dest[r]) : \A k \in Nulled \cap FksOf(table_of[r]) : dest[r][i][k] = Null

\* A recreate run copies rows of one snapshot.
OneSnapshotInv ==
    (stage # "idle" /\ mode = "recreate") =>
        \A r \in Rows : \A i \in 1 .. Len(dest[r]) : \A k \in FksOf(table_of[r]) :
            dest[r][i][k] = Null \/ dest[r][i][k] \in Live(snap)

\* The downstream phase has read which rows of t are missing.
Settled(t) ==
    \/ stage = "downstream" /\ \E n \in DownstreamLevels :
           t \in DownstreamStratum(n) /\ (n > level \/ (n = level /\ ~NotRead(t)))
    \/ stage \in {"disconnected", "constraints"}

\* The downstream phase follows these relationships.
FollowedDown == {k \in Redacted : target_table[k] \notin PassthroughTables \cup Disconnected}

\* The rows that rows scanned by the downstream phase point at.
Pointed(k) ==
    {p \in Rows : \E r \in RowsOf(fk_table[k]) :
                      Scanned(r) /\ \E i \in 1 .. Len(dest[r]) : dest[r][i][k] = p}

\* In a settled table, they are there or about to be, if the snapshot has them.
SettledInv ==
    \A k \in FollowedDown : Settled(target_table[k]) =>
        \A p \in Pointed(k) \cap Live(snap) : Resident(p) \/ p \in todo[target_table[k]]

\* All of it, inductive together with RunInv.
ClosureInv ==
    /\ BaseInv /\ WholeInv /\ EmptyInv /\ NulledInv /\ OneSnapshotInv /\ SettledInv

----------------------------------------------------------------------------
(* Where the tables at the ends of a relationship are copied.              *)

\* A relationship is followed, copied as NULL, or kept opportunistically.
LEMMA KindsOfFks ==
    \A k \in Fks : /\ fk_table[k] \in Tables /\ target_table[k] \in Tables
                   /\ k \in Redacted \/ k \in Nulled \/ Pair(k) \in Opportunists
                   /\ fk_table[k] \in Disconnected <=> target_table[k] \in Disconnected
BY GraphAssumption, ConnectedClosed DEF Redacted, Nulled, Disconnected

\* The tables of targets and passthrough tables are connected.
LEMMA ListedAreConnected ==
    \A t \in InitialTargetTables \cup PassthroughTables \cup Followed : t \notin Disconnected
BY ConnectedClosed, FollowedIsConnected DEF Disconnected

\* Only the last stage writes disconnected tables.
LEMMA WritesConnected ==
    ASSUME RunInv, NEW t, NEW r, Wrote(t, r)
    PROVE  /\ stage # "disconnected" => t \notin Disconnected
           /\ stage = "disconnected" => t \in Disconnected
           /\ stage = "passthrough" <=> t \in PassthroughTables /\ stage \notin {"direct", "upstream"}
<1>1. t \in StageTables /\ todo[t] # {}
  BY DEF Wrote
<1>2. stage = "upstream" => t \in Followed
  BY <1>1, UpstreamCopiesFollowed DEF RunInv, TaskInv, Wrote
<1>. QED
  BY <1>1, <1>2, ListedAreConnected DEF StageTables, DownstreamStratum

\* A parent that the downstream phase is to bring in has a stratum of its own,
\* below those of the tables that point at it.
LEMMA ParentsSettleLater ==
    ASSUME NEW k \in FollowedDown
    PROVE  /\ \E n \in DownstreamLevels : target_table[k] \in DownstreamStratum(n)
           /\ \A n \in DownstreamLevels, m \in DownstreamLevels :
                 (target_table[k] \in DownstreamStratum(n) /\ fk_table[k] \in DownstreamStratum(m))
                     => n < m
<1>1. /\ k \in Redacted /\ k \in Fks /\ target_table[k] \in Tables
      /\ target_table[k] \notin PassthroughTables \cup Disconnected
  BY KindsOfFks DEF FollowedDown, Redacted
<1>2. k \in OrderingFks
  BY <1>1, ConnectedIsOrdered DEF Disconnected
<1>3. target_table[k] \in Ordered /\ target_table[k] \in Parents(fk_table[k])
  BY <1>2 DEF Ordered, Parents
<1>4. PICK n \in 1 .. Depth : target_table[k] \in Strata[n]
  BY <1>3, OrderedIsInStratum
<1>5. target_table[k] \in DownstreamStratum(n) /\ n \in DownstreamLevels
  BY <1>1, <1>4 DEF DownstreamStratum, DownstreamLevels
<1>6. ASSUME NEW l \in DownstreamLevels, NEW m \in DownstreamLevels,
             target_table[k] \in DownstreamStratum(l), fk_table[k] \in DownstreamStratum(m)
      PROVE  l < m
  <2>1. l \in DOMAIN Strata /\ m \in DOMAIN Strata /\ l \in Nat /\ m \in Nat /\ m - 1 \in Nat
    BY LevelsType, StrataType
  <2>2. target_table[k] \in Placed[m - 1]
    BY <1>3, <1>6, <2>1, ParentsAreLower DEF DownstreamStratum
  <2>3. ~(m - 1 < l)
    BY <1>6, <2>1, <2>2, StrataAreDisjoint DEF DownstreamStratum
  <2>. QED
    BY <2>1, <2>3
<1>. QED
  BY <1>5, <1>6

\* Copied rows point at rows of the tables their relationships name.
LEMMA PointersType ==
    ASSUME RunInv, NEW r \in Rows, NEW i \in 1 .. Len(dest[r]), NEW k \in FksOf(table_of[r])
    PROVE  /\ dest[r][i][k] = Null \/ dest[r][i][k] \in RowsOf(target_table[k])
           /\ DOMAIN dest[r][i] = FksOf(table_of[r])
BY DEF RunInv, ImagesInv, Images, RowsOf

----------------------------------------------------------------------------
(* When the traversal is done.                                             *)

\* In the last stage, every pointer to a row of the snapshot holds.
LEMMA ClosedAtEnd ==
    ASSUME PassthroughCovered, RunInv, ClosureInv, stage = "constraints",
           NEW r \in Rows, NEW i \in 1 .. Len(dest[r]), NEW k \in FksOf(table_of[r]),
           Pair(k) \notin Opportunists, dest[r][i][k] # Null, dest[r][i][k] \in Live(snap)
    PROVE  Resident(dest[r][i][k])
<1>. DEFINE p == dest[r][i][k]
            t == target_table[k]
<1>1. /\ p \in Rows /\ table_of[p] = t /\ t \in Tables /\ k \in Fks /\ fk_table[k] = table_of[r]
      /\ k \in Redacted \/ k \in Nulled
      /\ table_of[r] \in Disconnected <=> t \in Disconnected
  BY PointersType, KindsOfFks DEF RowsOf, FksOf
<1>2. CASE ~Scanned(r)
  <2>1. mode \in Incremental /\ delta[r] = "none"
    BY <1>2 DEF Scanned
  <2>2. journal # "none" /\ \A q \in Rows : EntryTells(q)
    BY <2>1 DEF RunInv, DInv, JournalOfRun, Incremental
  <2>3. dest[r] = base[r] /\ Closed(base)
    BY <2>1, <2>2 DEF EntryTells, ClosureInv, BaseInv
  <2>4. base[p] # <<>>
    BY <2>3 DEF Closed
  <2>. QED
    BY <1>1, <2>2, <2>4 DEF EntryTells, Resident, RunInv, DInv, JournalType, Deltas
<1>3. CASE t \in PassthroughTables
  <2>1. k \in Nulled => table_of[r] \in PassthroughTables
    BY <1>1, <1>3, ListedAreConnected DEF ClosureInv, NulledInv
  <2>2. MaxRows = Unlimited
    BY <1>1, <1>3, <2>1 DEF PassthroughCovered
  <2>. QED
    BY <1>1, <1>3, <2>2 DEF ClosureInv, WholeInv
<1>4. CASE t \in Disconnected
  <2>1. Resident(r)
    BY DEF Resident
  <2>2. KeepDisconnected
    BY <1>1, <1>4, <2>1 DEF ClosureInv, EmptyInv
  <2>. QED
    BY <1>1, <1>4, <2>2 DEF ClosureInv, WholeInv
<1>5. CASE Scanned(r) /\ t \notin PassthroughTables /\ t \notin Disconnected
  <2>1. k \notin Nulled
    BY <1>1, <1>5 DEF ClosureInv, NulledInv, PassthroughCovered
  <2>2. k \in FollowedDown /\ p \in Pointed(k)
    BY <1>1, <1>5, <2>1 DEF FollowedDown, Pointed, RowsOf
  <2>3. Resident(p) \/ p \in todo[t]
    BY <2>2 DEF ClosureInv, SettledInv, Settled
  <2>4. todo[t] = {}
    BY <1>1 DEF RunInv, TaskInv, StageTables
  <2>. QED
    BY <2>3, <2>4
<1>. QED
  BY <1>2, <1>3, <1>4, <1>5

----------------------------------------------------------------------------
(* The steps.                                                              *)

\* Whatever a run is admitted to is closed.
LEMMA BaseStep ==
    ASSUME PassthroughCovered, RunInv, ClosureInv, [Next]_vars PROVE BaseInv'
<1>1. ASSUME UNCHANGED <<dest, base, journal, built>>,
             stage' = stage \/ stage' = "idle" \/ stage # "idle"
      PROVE  BaseInv'
  BY <1>1 DEF ClosureInv, BaseInv, Closed
<1>2. CASE StartRecreate
  BY <1>2 DEF StartRecreate, BaseInv
<1>3. ASSUME NEW m \in Incremental, StartIncremental(m) PROVE BaseInv'
  <2>1. /\ built /\ journal' = m /\ m # "none"
        /\ base' = IF journal = "none" THEN dest ELSE base
    BY <1>3 DEF StartIncremental, Incremental
  <2>2. Closed(base)'
    BY <2>1 DEF ClosureInv, BaseInv, Closed
  <2>. QED
    BY <2>1, <2>2 DEF BaseInv
<1>4. ASSUME NEW t \in Tables, Begin(t) \/ TaskFails(t) PROVE BaseInv'
  BY <1>1, <1>4 DEF Begin, TaskFails
<1>5. ASSUME NEW t \in Tables, Copy(t) PROVE BaseInv'
  <2>1. stage # "idle" /\ UNCHANGED <<base, journal, built>>
    BY <1>5 DEF Copy, With, StageTables
  <2>. QED
    BY <2>1 DEF ClosureInv, BaseInv, Closed
<1>6. CASE AdvanceStage \/ RunFails \/ Crash \/ SourceChange \/ UNCHANGED vars
  BY <1>1, <1>6 DEF AdvanceStage, RunFails, Crash, Abandon, SourceChange, vars
<1>7. CASE AddConstraints
  <2>1. /\ stage = "constraints" /\ mode = "recreate" /\ UNCHANGED <<dest, base, journal>>
        /\ stage' = "idle"
    BY <1>7 DEF AddConstraints
  <2>2. ASSUME NEW r \in Rows, NEW i \in 1 .. Len(dest[r]), NEW k \in FksOf(table_of[r]),
               dest[r][i][k] # Null, Pair(k) \notin Opportunists
        PROVE  dest[dest[r][i][k]] # <<>>
    <3>1. dest[r][i][k] \in Live(snap)
      BY <2>1, <2>2 DEF ClosureInv, OneSnapshotInv
    <3>. QED
      BY <2>1, <2>2, <3>1, ClosedAtEnd DEF Resident
  <2>3. Closed(dest)
    BY <2>2 DEF Closed
  <2>. QED
    BY <2>1, <2>3 DEF ClosureInv, BaseInv, Closed
<1>8. CASE FinishIncremental
  <2>1. stage = "constraints" /\ UNCHANGED <<dest, base, built>> /\ stage' = "idle"
    BY <1>8 DEF FinishIncremental
  <2>2. CASE ForeignKeysHold
    <3>1. Closed(dest)
      BY <2>2, PointersType DEF ForeignKeysHold, Closed, Resident
    <3>2. journal' = "none"
      BY <1>8, <2>2 DEF FinishIncremental
    <3>. QED
      BY <2>1, <3>1, <3>2 DEF BaseInv, Closed
  <2>3. CASE ~ForeignKeysHold
    BY <1>1, <1>8, <2>1, <2>3 DEF FinishIncremental
  <2>. QED
    BY <2>2, <2>3
<1>. QED
  BY <1>2, <1>3, <1>4, <1>5, <1>6, <1>7, <1>8 DEF Next, TaskStep

\* Disconnected tables have their turn if they are to be kept, and only then.
LEMMA DisconnectedTurn ==
    ASSUME RunInv, AdvanceStage
    PROVE  /\ stage' = "disconnected" => KeepDisconnected
           /\ stage' = "constraints" => stage = "disconnected" \/ ~KeepDisconnected
<1>1. stage' = NextStop[1]
  BY DEF AdvanceStage
<1>2. CASE stage \in {"direct", "upstream"}
  BY <1>2, StageIsOver
<1>3. CASE stage \in {"passthrough", "downstream", "disconnected"}
  BY <1>1, <1>3, NextStopDown
<1>. QED
  BY <1>2, <1>3, StageIsOver

\* A table copied whole is read whole, and written.
LEMMA WholeStep ==
    ASSUME RunInv, ClosureInv, [Next]_vars PROVE WholeInv'
<1>. DEFINE Whole(r) ==
        LET t == table_of[r] IN
        /\ (t \in PassthroughTables /\ MaxRows = Unlimited) =>
              \/ stage \in {"direct", "upstream"}
              \/ stage = "passthrough" /\ (NotRead(t) \/ r \in todo[t])
              \/ Resident(r)
        /\ (t \in Disconnected /\ KeepDisconnected) =>
              \/ stage \notin {"disconnected", "constraints"}
              \/ stage = "disconnected" /\ (NotRead(t) \/ r \in todo[t])
              \/ Resident(r)
<1>1. (stage' # "idle" => \A r \in Live(snap)' : Whole(r)') => WholeInv'
  BY DEF WholeInv
<1>2. stage # "idle" => \A r \in Live(snap) : r \in Rows /\ table_of[r] \in Tables /\ Whole(r)
  BY RowAssumption DEF ClosureInv, WholeInv, Live
<1>3. ASSUME UNCHANGED <<snap, stage>>, stage # "idle", \A r \in Live(snap) : Whole(r)'
      PROVE  WholeInv'
  <2>1. Live(snap)' = Live(snap)
    BY <1>3 DEF Live
  <2>. QED
    BY <1>1, <1>3, <2>1
<1>4. CASE StartRecreate \/ \E m \in Incremental : StartIncremental(m)
  BY <1>1, <1>4 DEF StartRecreate, StartIncremental, StartRun
<1>5. ASSUME NEW t \in Tables, Begin(t), stage # "idle" PROVE WholeInv'
  <2>1. PICK S : Read(t, S)
    BY <1>5, BeginReads DEF RunInv
  <2>2. UNCHANGED placeVars /\ UNCHANGED <<dest, delta, origin>>
    BY <1>5, BeginReads DEF RunInv
  <2>3. ASSUME NEW r \in Live(snap) PROVE Whole(r)'
    <3>1. Whole(r) /\ r \in Rows /\ table_of[r] \in Tables /\ Resident(r)' = Resident(r)
      BY <1>2, <1>5, <2>2, <2>3 DEF Resident
    <3>2. CASE table_of[r] # t
      BY <2>1, <2>2, <3>1, <3>2 DEF Read, NotRead, placeVars
    <3>3. CASE table_of[r] = t
      <4>1. (stage = "passthrough" /\ MaxRows = Unlimited) \/ stage = "disconnected" => r \in todo'[t]
        BY <2>1, <3>1, <3>3, ReReadsAll DEF Read, RowChoices, RowsOf
      <4>. QED
        BY <2>2, <3>1, <3>3, <4>1 DEF placeVars
    <3>. QED
      BY <3>2, <3>3
  <2>. QED
    BY <1>3, <1>5, <2>2, <2>3 DEF placeVars
<1>6. ASSUME NEW t \in Tables, Copy(t), stage # "idle" PROVE WholeInv'
  <2>1. PICK q \in Rows : Wrote(t, q)
    BY <1>6, CopyWrites DEF RunInv
  <2>2. UNCHANGED placeVars
    BY <1>6, CopyWrites DEF RunInv
  <2>3. ASSUME NEW r \in Live(snap) PROVE Whole(r)'
    <3>1. Whole(r) /\ r \in Rows /\ table_of[r] \in Tables
      BY <1>2, <1>6, <2>3
    <3>2. (Resident(r) \/ r = q) => Resident(r)'
      BY <2>1, <3>1, CopiesOfWritten DEF RunInv
    <3>3. \A u \in Tables : (NotRead(u) => NotRead(u)') /\ (r \in todo[u] => r = q \/ r \in todo'[u])
      BY <2>1 DEF Wrote, NotRead
    <3>. QED
      BY <2>2, <3>1, <3>2, <3>3 DEF placeVars
  <2>. QED
    BY <1>3, <1>6, <2>2, <2>3 DEF placeVars
<1>7. ASSUME NEW t \in Tables, TaskFails(t), stage # "idle" PROVE WholeInv'
  <2>1. UNCHANGED placeVars /\ UNCHANGED dest
    BY <1>7 DEF TaskFails, placeVars
  <2>2. \A u \in Tables : /\ NotRead(u) => NotRead(u)'
                          /\ todo'[u] = todo[u] \/ NotRead(u)'
    BY <1>7 DEF TaskFails, RunInv, TypeOK, NotRead
  <2>3. ASSUME NEW r \in Live(snap) PROVE Whole(r)'
    <3>1. Whole(r) /\ table_of[r] \in Tables /\ Resident(r)' = Resident(r)
      BY <1>2, <1>7, <2>1, <2>3 DEF Resident
    <3>. QED
      BY <2>1, <2>2, <3>1 DEF placeVars
  <2>. QED
    BY <1>3, <1>7, <2>1, <2>3 DEF placeVars
<1>8. CASE AdvanceStage
  <2>1. stage # "idle" /\ Live(snap)' = Live(snap)
    BY <1>8 DEF AdvanceStage, Live
  <2>2. ASSUME NEW r \in Live(snap) PROVE Whole(r)'
    <3>1. Whole(r) /\ table_of[r] \in Tables /\ Resident(r)' = Resident(r)
      BY <1>2, <1>8, <2>1, <2>2, StageIsOver DEF Resident
    <3>2. NotRead(table_of[r])' /\ todo[table_of[r]] = {}
      BY <1>8, <3>1, StageIsOver DEF Dry, NotRead
    <3>3. table_of[r] \in StageTables => ~NotRead(table_of[r])
      BY <1>8, StageIsOver DEF NotRead
    <3>4. /\ (table_of[r] \in PassthroughTables /\ MaxRows = Unlimited) =>
                stage \in {"direct", "upstream"} \/ Resident(r)
          /\ (table_of[r] \in Disconnected /\ KeepDisconnected) =>
                stage \notin {"disconnected", "constraints"} \/ Resident(r)
      BY <3>1, <3>2, <3>3 DEF StageTables
    <3>5. /\ stage \in {"direct", "upstream"} => stage' \in {"upstream", "passthrough"}
          /\ KeepDisconnected => stage' # "constraints" \/ stage = "disconnected"
      BY <1>8, StageIsOver, DisconnectedTurn
    <3>. QED
      BY <3>1, <3>2, <3>4, <3>5
  <2>. QED
    BY <1>1, <2>1, <2>2
<1>9. CASE stage' = "idle"
  BY <1>9 DEF WholeInv
<1>10. CASE Untouched
  <2>1. \A r \in Rows : Resident(r)' = Resident(r)
    BY <1>10 DEF Untouched, Resident
  <2>2. Live(snap)' = Live(snap) /\ \A t : NotRead(t)' = NotRead(t)
    BY <1>10 DEF Untouched, placeVars, Live, NotRead
  <2>. QED
    BY <1>1, <1>2, <1>10, <2>1, <2>2 DEF Untouched, placeVars
<1>11. \A t \in Tables : Begin(t) \/ Copy(t) \/ TaskFails(t) => stage' = stage
  BY DEF Begin, Copy, TaskFails
<1>. QED
  BY <1>4, <1>5, <1>6, <1>7, <1>8, <1>9, <1>10, <1>11, QuietSteps DEF Ended

\* Tables that are not to be kept stay empty, columns that are given up stay NULL,
\* and a recreate run copies rows of its snapshot.
LEMMA CopiedStep ==
    ASSUME RunInv, ClosureInv, [Next]_vars PROVE EmptyInv' /\ NulledInv' /\ OneSnapshotInv'
<1>. USE DEF ClosureInv
<1>1. ASSUME UNCHANGED dest, stage' = "disconnected" => KeepDisconnected,
             stage' = "idle" \/ mode' # "recreate" \/ (UNCHANGED <<snap, mode>> /\ stage # "idle")
      PROVE  EmptyInv' /\ NulledInv' /\ OneSnapshotInv'
  BY <1>1 DEF EmptyInv, NulledInv, OneSnapshotInv, Resident, Live
<1>2. CASE StartRecreate
  <2>1. \A r \in Rows : dest'[r] = <<>>
    BY <1>2 DEF StartRecreate
  <2>2. stage' = "direct"
    BY <1>2 DEF StartRecreate, StartRun
  <2>. QED
    BY <2>1, <2>2 DEF EmptyInv, NulledInv, OneSnapshotInv, Resident
<1>3. ASSUME NEW m \in Incremental, StartIncremental(m)
      PROVE  EmptyInv' /\ NulledInv' /\ OneSnapshotInv'
  BY <1>1, <1>3 DEF StartIncremental, StartRun, Incremental
<1>4. ASSUME NEW t \in Tables, Begin(t) \/ TaskFails(t)
      PROVE  EmptyInv' /\ NulledInv' /\ OneSnapshotInv'
  BY <1>1, <1>4 DEF Begin, TaskFails, EmptyInv, MayBegin, With, StageTables
<1>5. ASSUME NEW t \in Tables, Copy(t) PROVE EmptyInv' /\ NulledInv' /\ OneSnapshotInv'
  <2>1. PICK q \in Rows : Wrote(t, q)
    BY <1>5, CopyWrites DEF RunInv
  <2>2. UNCHANGED placeVars /\ stage # "idle"
    BY <1>5, <2>1, CopyWrites DEF RunInv, Wrote, StageTables
  <2>3. /\ Fetched(q) = IF stage \in {"passthrough", "disconnected"} THEN snap[q]
                                                                     ELSE Redact(snap[q])
        /\ q \in Live(snap) /\ table_of[q] = t /\ DOMAIN snap[q] = FksOf(t)
    BY <2>1 DEF Wrote, Fetched, RunInv, TypeOK, IsDatabase, Images
  <2>4. EmptyInv'
    <3>1. ~KeepDisconnected => t \notin Disconnected
      BY <2>1, WritesConnected DEF EmptyInv
    <3>2. \A r \in Rows : r # q => (Resident(r)' => Resident(r))
      BY <2>1, CopiesOfWritten DEF RunInv
    <3>. QED
      BY <2>2, <2>3, <3>1, <3>2 DEF EmptyInv, placeVars
  <2>5. NulledInv'
    <3>1. \A k \in Nulled \cap FksOf(t) :
             t \notin PassthroughTables \cup Disconnected => Fetched(q)[k] = Null
      BY <2>1, <2>3, WritesConnected DEF Redact
    <3>2. \A r \in Rows : \A i \in 1 .. Len(dest'[r]) :
             \/ r = q /\ dest'[r][i] = Fetched(q)
             \/ i \in 1 .. Len(dest[r]) /\ dest'[r][i] = dest[r][i]
      BY <2>1, CopiesOfWritten DEF RunInv
    <3>. QED
      BY <2>3, <3>1, <3>2 DEF NulledInv
  <2>6. OneSnapshotInv'
    <3>1. \A k \in FksOf(t) : Fetched(q)[k] = Null \/ Fetched(q)[k] \in Live(snap)
      <4>1. \A k \in FksOf(t) : snap[q][k] = Null \/ snap[q][k] \in Live(snap)
        BY <2>3 DEF RunInv, TypeOK, IsDatabase, Consistent
      <4>. QED
        BY <2>3, <4>1 DEF Redact
    <3>2. \A r \in Rows : \A i \in 1 .. Len(dest'[r]) :
             \/ r = q /\ dest'[r][i] = Fetched(q)
             \/ i \in 1 .. Len(dest[r]) /\ dest'[r][i] = dest[r][i]
      BY <2>1, CopiesOfWritten DEF RunInv
    <3>3. Live(snap)' = Live(snap) /\ UNCHANGED <<stage, mode>>
      BY <2>2 DEF placeVars, Live
    <3>. SUFFICES ASSUME stage # "idle", mode = "recreate", NEW r \in Rows,
                         NEW i \in 1 .. Len(dest'[r]), NEW k \in FksOf(table_of[r])
                  PROVE  dest'[r][i][k] = Null \/ dest'[r][i][k] \in Live(snap)
      BY <3>3 DEF OneSnapshotInv
    <3>4. CASE r = q /\ dest'[r][i] = Fetched(q)
      BY <2>3, <3>1, <3>4
    <3>5. CASE i \in 1 .. Len(dest[r]) /\ dest'[r][i] = dest[r][i]
      BY <3>5 DEF OneSnapshotInv
    <3>. QED
      BY <3>2, <3>4, <3>5
  <2>. QED
    BY <2>4, <2>5, <2>6
<1>6. CASE AdvanceStage
  BY <1>1, <1>6, StageIsOver, DisconnectedTurn DEF AdvanceStage
<1>7. CASE Ended
  BY <1>1, <1>7 DEF Ended
<1>8. CASE Untouched
  BY <1>1, <1>8 DEF Untouched, placeVars, EmptyInv
<1>. QED
  BY <1>2, <1>3, <1>4, <1>5, <1>6, <1>7, <1>8, QuietSteps

\* No stage settles a table without reading which of its rows are missing.
LEMMA SettledAdvances ==
    ASSUME RunInv, AdvanceStage, NEW k \in FollowedDown, Settled(target_table[k])'
    PROVE  Settled(target_table[k])
<1>. DEFINE t == target_table[k]
<1>1. stage' = NextStop[1] /\ level' = NextStop[2]
  BY DEF AdvanceStage
<1>2. stage' \in {"downstream", "disconnected", "constraints"}
  BY DEF Settled
<1>3. /\ stage \in {"passthrough", "downstream", "disconnected"}
      /\ stage = "downstream" => level \in DownstreamLevels
  BY <1>2, StageIsOver DEF RunInv, PositionInv
<1>4. /\ Depth \in Nat /\ DownstreamLevels \subseteq 1 .. Depth
      /\ \A m \in DownstreamLevels : m \in Nat
  BY LevelsType
<1>5. PICK n \in DownstreamLevels :
         t \in DownstreamStratum(n) /\ (stage' = "downstream" => n > level')
  <2>1. CASE stage' = "downstream"
    <3>1. t \in Tables
      BY KindsOfFks DEF FollowedDown, Redacted
    <3>2. NotRead(t)'
      BY <3>1, StageIsOver DEF Dry, NotRead
    <3>. QED
      BY <2>1, <3>2 DEF Settled
  <2>2. CASE stage' # "downstream"
    BY <2>2, ParentsSettleLater
  <2>. QED
    BY <2>1, <2>2
<1>6. stage = "disconnected" \/ ~(n < DownFrom)
  BY <1>1, <1>2, <1>3, <1>5, NextStopDown
<1>7. CASE stage = "passthrough"
  BY <1>4, <1>6, <1>7 DEF DownFrom
<1>8. CASE stage = "downstream"
  <2>1. n \in Nat /\ level \in Nat /\ ~(n < level)
    <3>1. n \in Nat /\ level \in Nat
      BY <1>3, <1>4, <1>8
    <3>. QED
      BY <1>6, <1>8, <3>1 DEF DownFrom
  <2>2. n = level => ~NotRead(t)
    BY <1>5, <1>8, StageIsOver DEF StageTables, NotRead
  <2>. QED
    BY <1>5, <1>8, <2>1, <2>2 DEF Settled
<1>9. CASE stage = "disconnected"
  BY <1>9 DEF Settled
<1>. QED
  BY <1>3, <1>7, <1>8, <1>9

\* A table that is being written points at tables not yet settled.
LEMMA WritesBeforeSettled ==
    ASSUME RunInv, NEW t, NEW q, Wrote(t, q), NEW k \in FollowedDown, Settled(target_table[k])
    PROVE  fk_table[k] # t
<1>. SUFFICES ASSUME fk_table[k] = t PROVE FALSE
  OBVIOUS
<1>1. t \in StageTables /\ stage # "constraints"
  BY DEF Wrote, StageTables
<1>2. stage # "disconnected"
  BY <1>1, KindsOfFks DEF FollowedDown, Redacted, StageTables
<1>3. stage = "downstream"
  BY <1>1, <1>2 DEF Settled
<1>4. PICK n \in DownstreamLevels :
         target_table[k] \in DownstreamStratum(n) /\ (n > level \/ n = level)
  BY <1>3 DEF Settled
<1>5. t \in DownstreamStratum(level) /\ level \in DownstreamLevels
  BY <1>1, <1>3 DEF StageTables, RunInv, PositionInv
<1>6. n < level
  BY <1>4, <1>5, ParentsSettleLater
<1>7. n \in Nat /\ level \in Nat
  BY <1>5, LevelsType
<1>. QED
  BY <1>4, <1>6, <1>7

\* Each step keeps settled tables settled.
LEMMA SettledStep ==
    ASSUME RunInv, ClosureInv, [Next]_vars PROVE SettledInv'
<1>1. SettledInv
  BY DEF ClosureInv
<1>2. ASSUME NEW k \in FollowedDown
      PROVE  /\ k \in Redacted /\ k \in Fks /\ target_table[k] \in Tables
             /\ target_table[k] \notin PassthroughTables \cup Disconnected
             /\ Pointed(k) \subseteq RowsOf(target_table[k]) /\ Pointed(k) \subseteq Rows
  <2>1. k \in Redacted /\ k \in Fks /\ target_table[k] \in Tables
    BY KindsOfFks DEF FollowedDown, Redacted
  <2>2. ASSUME NEW p \in Pointed(k) PROVE p \in RowsOf(target_table[k])
    <3>1. PICK r \in RowsOf(fk_table[k]) :
             p \in Rows /\ \E i \in 1 .. Len(dest[r]) : dest[r][i][k] = p
      BY DEF Pointed
    <3>2. r \in Rows /\ k \in FksOf(table_of[r])
      BY <2>1 DEF RowsOf, FksOf
    <3>. QED
      BY <3>1, <3>2, PointersType, RowAssumption
  <2>. QED
    BY <2>1, <2>2 DEF FollowedDown, Pointed
<1>3. ASSUME UNCHANGED <<dest, delta, mode, snap>>
      PROVE  /\ \A k : Pointed(k)' = Pointed(k) /\ Live(snap)' = Live(snap)
             /\ \A r \in Rows : Resident(r)' = Resident(r)
  BY <1>3 DEF Pointed, Scanned, Live, Resident
<1>4. CASE stage' \notin {"downstream", "disconnected", "constraints"}
  BY <1>4 DEF SettledInv, Settled
<1>5. ASSUME NEW t \in Tables, Begin(t) PROVE SettledInv'
  <2>1. PICK S : Read(t, S)
    BY <1>5, BeginReads DEF RunInv
  <2>2. UNCHANGED placeVars /\ UNCHANGED <<dest, delta, origin>>
    BY <1>5, BeginReads DEF RunInv
  <2>3. ASSUME NEW k \in FollowedDown, Settled(target_table[k])', NEW p \in Pointed(k) \cap Live(snap)
        PROVE  Resident(p) \/ p \in todo'[target_table[k]]
    <3>1. CASE target_table[k] # t
      <4>1. Settled(target_table[k])
        BY <1>2, <2>1, <2>2, <2>3, <3>1 DEF Read, Settled, NotRead, placeVars
      <4>. QED
        BY <1>1, <1>2, <2>1, <2>3, <3>1, <4>1 DEF Read, SettledInv
    <3>2. CASE target_table[k] = t
      <4>1. stage \in {"downstream", "disconnected", "constraints"}
        BY <2>2, <2>3 DEF Settled, placeVars
      <4>2. stage = "downstream"
        BY <1>2, <2>1, <3>2, <4>1 DEF Read, StageTables
      <4>3. S = MissingParents(t) \cap Live(snap)
        BY <2>1, <4>2 DEF Read, RowChoices, DownstreamRows
      <4>4. p \in RowsOf(t)
        BY <1>2, <2>3, <3>2
      <4>5. Resident(p) \/ p \in MissingParents(t)
        BY <1>2, <2>3, <3>2, <4>4 DEF MissingParents, Pointed, RowsOf
      <4>. QED
        BY <2>1, <2>3, <3>2, <4>3, <4>5 DEF Read
    <3>. QED
      BY <3>1, <3>2
  <2>. QED
    BY <1>2, <1>3, <2>2, <2>3 DEF SettledInv, placeVars
<1>6. ASSUME NEW t \in Tables, Copy(t) PROVE SettledInv'
  <2>1. PICK q \in Rows : Wrote(t, q)
    BY <1>6, CopyWrites DEF RunInv
  <2>2. UNCHANGED placeVars
    BY <1>6, CopyWrites DEF RunInv
  <2>3. ASSUME NEW k \in FollowedDown, Settled(target_table[k])', NEW p \in Pointed(k)',
               p \in Live(snap)
        PROVE  Resident(p)' \/ p \in todo'[target_table[k]]
    <3>1. Settled(target_table[k])
      BY <1>2, <2>1, <2>2, <2>3 DEF Wrote, Settled, NotRead, placeVars
    <3>2. fk_table[k] # t
      BY <2>1, <3>1, WritesBeforeSettled
    <3>3. p \in Pointed(k)
      BY <2>1, <2>2, <2>3, <3>2 DEF Wrote, Pointed, Scanned, RowsOf, placeVars
    <3>4. (Resident(p) \/ p \in todo[target_table[k]]) /\ p \in Rows
      BY <1>1, <1>2, <2>3, <3>1, <3>3 DEF SettledInv
    <3>5. Resident(p) \/ p = q => Resident(p)'
      BY <2>1, <3>4, CopiesOfWritten DEF RunInv
    <3>. QED
      BY <1>2, <2>1, <3>4, <3>5 DEF Wrote
  <2>4. Live(snap)' = Live(snap)
    BY <2>2 DEF placeVars, Live
  <2>. QED
    BY <2>3, <2>4 DEF SettledInv
<1>7. ASSUME NEW t \in Tables, TaskFails(t) PROVE SettledInv'
  <2>1. UNCHANGED placeVars /\ UNCHANGED <<dest, delta>>
    BY <1>7 DEF TaskFails, placeVars
  <2>2. /\ NotRead(t)' /\ t \in StageTables
        /\ \A u \in Tables \ {t} : todo'[u] = todo[u] /\ NotRead(u)' = NotRead(u)
    BY <1>7 DEF TaskFails, MayBegin, With, RunInv, TypeOK, NotRead
  <2>3. ASSUME NEW k \in FollowedDown, Settled(target_table[k])'
        PROVE  Settled(target_table[k]) /\ target_table[k] # t
    <3>1. target_table[k] # t
      <4>1. CASE stage = "downstream"
        <5>1. ASSUME target_table[k] = t PROVE FALSE
          <6>1. PICK n \in DownstreamLevels : t \in DownstreamStratum(n) /\ n > level
            BY <2>1, <2>2, <2>3, <4>1, <5>1 DEF Settled, placeVars
          <6>2. t \in DownstreamStratum(level) /\ level \in DownstreamLevels
            BY <2>2, <4>1 DEF StageTables, RunInv, PositionInv
          <6>3. n \in Nat /\ level \in Nat /\ n \in DOMAIN Strata /\ level \in DOMAIN Strata
            BY <6>2, LevelsType, StrataType
          <6>4. t \in Strata[n] /\ t \in Strata[level]
            BY <6>1, <6>2 DEF DownstreamStratum
          <6>5. n = level
            BY <6>3, <6>4, StratumIsUnique
          <6>. QED
            BY <6>1, <6>3, <6>5
        <5>. QED
          BY <5>1
      <4>2. CASE stage # "downstream"
        BY <1>2, <2>1, <2>2, <2>3, <4>2 DEF Settled, StageTables, placeVars
      <4>. QED
        BY <4>1, <4>2
    <3>2. target_table[k] \in Tables
      BY <1>2
    <3>3. NotRead(target_table[k])' = NotRead(target_table[k])
      BY <2>2, <3>1, <3>2
    <3>. QED
      BY <2>1, <2>3, <3>1, <3>3 DEF Settled, placeVars
  <2>4. \A k \in FollowedDown : target_table[k] # t => todo'[target_table[k]] = todo[target_table[k]]
    BY <1>2, <2>2
  <2>. QED
    BY <1>1, <1>2, <1>3, <2>1, <2>3, <2>4 DEF SettledInv, placeVars
<1>8. CASE AdvanceStage
  <2>1. UNCHANGED <<dest, delta, mode, snap>> /\ \A t \in Tables : todo[t] = {}
    BY <1>8, StageIsOver
  <2>2. ASSUME NEW k \in FollowedDown, Settled(target_table[k])', NEW p \in Pointed(k) \cap Live(snap)
        PROVE  Resident(p)
    <3>1. Settled(target_table[k])
      BY <1>8, <2>2, SettledAdvances
    <3>. QED
      BY <1>1, <1>2, <2>1, <2>2, <3>1 DEF SettledInv
  <2>. QED
    BY <1>2, <1>3, <2>1, <2>2 DEF SettledInv
<1>9. CASE Untouched
  <2>1. \A t : Settled(t)' = Settled(t)
    BY <1>9 DEF Untouched, Settled, NotRead, placeVars
  <2>. QED
    BY <1>1, <1>2, <1>3, <1>9, <2>1 DEF SettledInv, Untouched, placeVars
<1>. QED
  BY <1>4, <1>5, <1>6, <1>7, <1>8, <1>9, QuietSteps DEF Ended, StartRecreate, StartIncremental, StartRun

\* What the closure rests on, in every reachable state.
THEOREM ClosureInvariant == ASSUME PassthroughCovered PROVE Spec => []ClosureInv
<1>1. Init => ClosureInv
  <2>. SUFFICES ASSUME Init PROVE ClosureInv
    OBVIOUS
  <2>1. \A r \in Rows : dest[r] = <<>> /\ ~Resident(r)
    BY DEF Init, Resident
  <2>. QED
    BY <2>1 DEF Init, ClosureInv, BaseInv, WholeInv, EmptyInv, NulledInv, OneSnapshotInv,
                SettledInv, Settled
<1>2. RunInv /\ ClosureInv /\ [Next]_vars => ClosureInv'
  BY BaseStep, WholeStep, CopiedStep, SettledStep DEF ClosureInv
<1>. QED
  BY <1>1, <1>2, RunCorrect, PTL DEF Spec

\* When the traversal is done, a copied row points, through every relationship
\* not given up, at a row that was copied too, unless the run's snapshot no
\* longer has it: the foreign keys can be restored.
THEOREM TraversalCloses == ASSUME PassthroughCovered PROVE Spec => []ReferentiallyClosed
<1>1. RunInv /\ ClosureInv => ReferentiallyClosed
  <2>. SUFFICES ASSUME RunInv, ClosureInv, stage = "constraints",
                       NEW r \in Rows, NEW i \in 1 .. Len(dest[r]), NEW k \in DOMAIN dest[r][i],
                       dest[r][i][k] # Null, dest[r][i][k] \in Live(snap), Pair(k) \notin Opportunists
                PROVE  Resident(dest[r][i][k])
    BY DEF ReferentiallyClosed
  <2>1. k \in FksOf(table_of[r])
    BY DEF RunInv, ImagesInv, Images
  <2>. QED
    BY <2>1, ClosedAtEnd
<1>. QED
  BY <1>1, RunCorrect, ClosureInvariant, PTL

\* Between runs, a destination with its keys and no open journal has all its
\* foreign keys, whatever runs made it.
THEOREM AdmittedIsClosed ==
    ASSUME PassthroughCovered
    PROVE  Spec => [](built /\ journal = "none" => stage = "idle" /\ Closed(dest))
<1>1. ClosureInv => (built /\ journal = "none" => stage = "idle" /\ Closed(dest))
  BY DEF ClosureInv, BaseInv
<1>. QED
  BY <1>1, ClosureInvariant, PTL
----------------------------------------------------------------------------
(* The subset is no larger than it has to be.                              *)

\* Every parent the downstream phase is to write is pointed at, and so is every
\* parent it brought into the destination of a recreate run.
NeededInv ==
    /\ stage = "downstream" => \A t \in Tables : \A p \in todo[t] : PointedAt(p)
    /\ mode = "recreate" =>
          \A p \in Rows : (origin[p] = "downstream" /\ Resident(p)) => PointedAt(p)

\* A write that adds a copy, or a row, takes no pointer away.
LEMMA PointedStays ==
    ASSUME RunInv, NEW t, NEW q, Wrote(t, q), UNCHANGED placeVars,
           mode = "recreate" \/ ~Resident(q), NEW p \in Rows, PointedAt(p)
    PROVE  PointedAt(p)'
<1>1. PICK k \in Redacted, r \in Rows :
          /\ fk_table[k] = table_of[r] /\ target_table[k] = table_of[p]
          /\ mode \in Incremental => delta[r] # "none"
          /\ \E i \in 1 .. Len(dest[r]) : dest[r][i][k] = p
  BY DEF PointedAt
<1>2. PICK i \in 1 .. Len(dest[r]) : dest[r][i][k] = p
  BY <1>1
<1>3. dest[r] \in Seq(AllImages) /\ mode' = mode
  BY DEF RunInv, TypeOK, placeVars
<1>4. Resident(r)
  BY <1>2, <1>3 DEF Resident
<1>5. i \in 1 .. Len(dest'[r]) /\ dest'[r][i] = dest[r][i]
  <2>1. CASE r # q
    BY <1>2, <2>1 DEF Wrote
  <2>2. CASE r = q
    <3>1. dest'[r] = Append(dest[r], Fetched(r))
      BY <1>4, <2>2 DEF Wrote
    <3>. QED
      BY <1>2, <1>3, <3>1
  <2>. QED
    BY <2>1, <2>2
<1>6. mode' \in Incremental => delta'[r] # "none"
  <2>1. mode \in Incremental => r # q
    BY <1>4 DEF Incremental
  <2>. QED
    BY <1>1, <1>3, <2>1 DEF Wrote
<1>. QED
  BY <1>1, <1>2, <1>5, <1>6 DEF PointedAt

\* What the downstream phase reads is needed, and stays so until it is written.
LEMMA NeededStep == ASSUME RunInv, NeededInv, [Next]_vars PROVE NeededInv'
<1>1. ASSUME UNCHANGED <<dest, delta, mode>> PROVE \A p : PointedAt(p)' = PointedAt(p)
  BY <1>1 DEF PointedAt
<1>2. CASE StartRecreate
  BY <1>2 DEF StartRecreate, StartRun, NeededInv, Resident
<1>3. ASSUME NEW m \in Incremental, StartIncremental(m) PROVE NeededInv'
  BY <1>3 DEF StartIncremental, StartRun, NeededInv, Incremental
<1>4. ASSUME NEW t \in Tables, Begin(t) PROVE NeededInv'
  <2>1. PICK S : Read(t, S)
    BY <1>4, BeginReads DEF RunInv
  <2>2. UNCHANGED placeVars /\ UNCHANGED <<dest, delta, origin>>
    BY <1>4, BeginReads DEF RunInv
  <2>3. ASSUME stage = "downstream", NEW p \in S PROVE PointedAt(p)
    <3>1. p \in MissingParents(t)
      BY <2>1, <2>3 DEF Read, RowChoices, DownstreamRows
    <3>2. p \in RowsOf(t) /\ table_of[p] = t
      BY <3>1 DEF MissingParents, RowsOf
    <3>. QED
      BY <3>1, <3>2 DEF MissingParents, Scanned, PointedAt
  <2>. QED
    BY <1>1, <2>1, <2>2, <2>3 DEF NeededInv, Read, Resident, placeVars
<1>5. ASSUME NEW t \in Tables, Copy(t) PROVE NeededInv'
  <2>1. PICK q \in Rows : Wrote(t, q)
    BY <1>5, CopyWrites DEF RunInv
  <2>2. UNCHANGED placeVars
    BY <1>5, CopyWrites DEF RunInv
  <2>3. ASSUME stage = "downstream", NEW u \in Tables, NEW p \in todo'[u] PROVE PointedAt(p)'
    <3>1. p \in todo[u] /\ p \in Rows
      BY <2>1, <2>3 DEF Wrote, RunInv, TaskInv, RowsOf
    <3>2. ~Resident(q)
      BY <2>1, <2>3 DEF Wrote, RunInv, TaskInv
    <3>. QED
      BY <2>1, <2>2, <2>3, <3>1, <3>2, PointedStays DEF NeededInv
  <2>4. ASSUME mode = "recreate", NEW p \in Rows, origin'[p] = "downstream", Resident(p)'
        PROVE  PointedAt(p)'
    <3>1. CASE Resident(p)
      <4>1. origin[p] = "downstream"
        BY <2>1, <2>4, <3>1 DEF Wrote
      <4>. QED
        BY <2>1, <2>2, <2>4, <3>1, <4>1, PointedStays DEF NeededInv
    <3>2. CASE ~Resident(p)
      <4>1. p = q
        BY <2>1, <2>4, <3>2, CopiesOfWritten DEF RunInv
      <4>2. stage = "downstream" /\ p \in todo[t]
        BY <2>1, <2>4, <3>2, <4>1 DEF Wrote
      <4>. QED
        BY <2>1, <2>2, <2>4, <3>2, <4>1, <4>2, PointedStays DEF NeededInv, Wrote
    <3>. QED
      BY <3>1, <3>2
  <2>. QED
    BY <2>2, <2>3, <2>4 DEF NeededInv, placeVars
<1>6. ASSUME NEW t \in Tables, TaskFails(t) PROVE NeededInv'
  <2>1. \A u \in Tables : todo'[u] \subseteq todo[u]
    BY <1>6 DEF TaskFails, RunInv, TypeOK
  <2>. QED
    BY <1>1, <1>6, <2>1 DEF TaskFails, NeededInv, Resident
<1>7. CASE AdvanceStage
  BY <1>1, <1>7, StageIsOver DEF NeededInv, Resident, Dry
<1>8. CASE Ended
  BY <1>8 DEF Ended, NeededInv, Resident, PointedAt, Incremental
<1>9. CASE Untouched
  BY <1>1, <1>9 DEF Untouched, NeededInv, Resident, placeVars
<1>. QED
  BY <1>2, <1>3, <1>4, <1>5, <1>6, <1>7, <1>8, <1>9, QuietSteps

\* What the two results below rest on, in every reachable state.
THEOREM NeededInvariant == Spec => []NeededInv
<1>1. Init => NeededInv
  BY DEF Init, NeededInv, Resident
<1>. QED
  BY <1>1, NeededStep, RunCorrect, PTL DEF Spec

\* The downstream phase only brings in rows that copied rows point at, however
\* the tasks of a stratum interleave between reading and writing.
THEOREM ParentsAreNeeded == Spec => OnlyNeededParents
<1>1. ASSUME RunInv, NeededInv, [Next]_vars, stage = "downstream",
             NEW p \in Rows, ~Resident(p), Resident(p)'
      PROVE  PointedAt(p)'
  <2>1. PICK t \in Tables : Copy(t)
    <3>1. dest' # dest
      BY <1>1 DEF Resident
    <3>. QED
      BY <1>1, <3>1, QuietSteps DEF StartRecreate, StartIncremental, StartRun, Begin, TaskFails,
         AdvanceStage, Ended, Untouched
  <2>2. PICK q \in Rows : Wrote(t, q)
    BY <1>1, <2>1, CopyWrites DEF RunInv
  <2>3. UNCHANGED placeVars
    BY <1>1, <2>1, CopyWrites DEF RunInv
  <2>4. p = q
    <3>1. \A r \in Rows \ {q} : dest'[r] = dest[r]
      BY <2>2 DEF Wrote
    <3>. QED
      BY <1>1, <3>1 DEF Resident
  <2>5. p \in todo[t]
    BY <2>2, <2>4 DEF Wrote
  <2>6. PointedAt(p)
    BY <1>1, <2>5 DEF NeededInv
  <2>. QED
    BY <1>1, <2>2, <2>3, <2>4, <2>6, PointedStays
<1>2. RunInv /\ NeededInv /\ [Next]_vars =>
        [stage = "downstream" => \A p \in Rows : (~Resident(p) /\ Resident(p)') => PointedAt(p)']_vars
  BY <1>1
<1>. QED
  BY <1>2, NeededInvariant, RunCorrect, PTL DEF Spec, OnlyNeededParents

\* And in the destination of a recreate run, whatever stage it is in, failed in
\* or has passed, every such row is needed for good.
THEOREM RecreateIsMinimal ==
    Spec => [](mode = "recreate" =>
                  \A p \in Rows : (origin[p] = "downstream" /\ Resident(p)) => PointedAt(p))
<1>1. NeededInv => (mode = "recreate" =>
                  \A p \in Rows : (origin[p] = "downstream" /\ Resident(p)) => PointedAt(p))
  BY DEF NeededInv
<1>. QED
  BY <1>1, NeededInvariant, PTL
----------------------------------------------------------------------------
(* Every run comes to its end: the two halves of RunsEnd that are not about *)
(* fairness. A run that is not over can go on, and it goes on only so often.*)

\* How far run_middle_out has come.
Place ==
    CASE stage = "direct"       -> 0
      [] stage = "upstream"     -> level
      [] stage = "passthrough"  -> Depth + 1
      [] stage = "downstream"   -> 2 * Depth + 2 - level
      [] stage = "disconnected" -> 2 * Depth + 2
      [] stage = "constraints"  -> 2 * Depth + 3
      [] OTHER                  -> 2 * Depth + 4

\* The rows the tasks of this stage have still to write.
Unwritten == UNION {todo[t] : t \in Tables}

\* A running task has rows to write.
BusyInv == \A t \in Tables : status[t] = "running" => todo[t] # {}

\* Guards of the steps that fairness is about: a task can begin or write, the
\* stage is done, it has failed and run dry, or the keys are to be added.
CanGoOn ==
    \/ \E t \in Tables : MayBegin(t) /\ RowChoices(t) # {}
    \/ \E t \in With("running") : todo[t] # {}
    \/ stage \notin {"idle", "constraints"} /\ With("done") = StageTables
    \/ /\ With("failed") # {} /\ With("running") = {}
       /\ \A t \in With("pending") : ~MayBegin(t)
    \/ stage = "constraints"

\* A step nearer to the end: on to a later place, or in the same place fewer
\* tasks that have not begun, or with the same tasks fewer rows to write.
Nearer ==
    \/ Place' > Place
    \/ /\ Place' = Place
       /\ \/ With("pending")' \subseteq With("pending") /\ With("pending")' # With("pending")
          \/ /\ With("pending")' = With("pending")
             /\ Unwritten' \subseteq Unwritten /\ Unwritten' # Unwritten

\* A finite set has subsets of every size up to its own.
LEMMA SubsetOfSize ==
    ASSUME NEW S, IsFiniteSet(S), NEW n \in Nat, n <= Cardinality(S)
    PROVE  \E T \in SUBSET S : Cardinality(T) = n
<1>. DEFINE P == {m \in Nat : m <= Cardinality(S) => \E T \in SUBSET S : Cardinality(T) = m}
<1>1. 0 \in P
  BY FS_EmptySet
<1>2. ASSUME NEW m \in P PROVE m + 1 \in P
  <2>. SUFFICES ASSUME m + 1 <= Cardinality(S) PROVE \E T \in SUBSET S : Cardinality(T) = m + 1
    OBVIOUS
  <2>0. Cardinality(S) \in Nat /\ m \in Nat
    BY FS_CardinalityType
  <2>1. PICK T \in SUBSET S : Cardinality(T) = m
    BY <2>0
  <2>2. T # S
    BY <2>0, <2>1
  <2>3. PICK x \in S : x \notin T
    BY <2>2
  <2>4. IsFiniteSet(T)
    BY FS_Subset
  <2>5. Cardinality(T \cup {x}) = m + 1
    BY <2>1, <2>3, <2>4, FS_AddElement
  <2>. QED
    BY <2>3, <2>5
<1>3. P \in SUBSET Nat
  OBVIOUS
<1>. HIDE DEF P
<1>4. n \in P
  BY <1>1, <1>2, <1>3, AllNaturals
<1>. QED
  BY <1>4 DEF P

\* The tables of a stage.
LEMMA StageTablesType == ASSUME RunInv PROVE StageTables \subseteq Tables
<1>1. \A n \in 1 .. Depth : Strata[n] \subseteq Tables
  BY LevelsType, StrataType, OrderedIsConnected
<1>2. /\ stage = "upstream" => level \in 1 .. Depth
      /\ stage = "downstream" => level \in 1 .. Depth
  BY LevelsType DEF RunInv, PositionInv
<1>. QED
  BY <1>1, <1>2, GraphAssumption DEF StageTables, DownstreamStratum, Disconnected

\* A task that may begin always finds rows to choose from, or none to choose.
LEMMA ThereIsAChoice ==
    ASSUME RunInv, NEW t \in StageTables, stage # "idle"
    PROVE  RowChoices(t) # {}
<1>. DEFINE S == RowsOf(t) \cap Live(snap)
<1>1. IsFiniteSet(S) /\ Cardinality(S) \in Nat
  <2>1. IsFiniteSet(S)
    <3>1. S \in SUBSET Rows
      BY DEF RowsOf
    <3>. QED
      BY <3>1, RowAssumption, FS_Subset
  <2>. QED
    BY <2>1, FS_CardinalityType
<1>2. CASE stage = "direct"
  <2>1. t \in InitialTargetTables
    BY <1>2 DEF StageTables
  <2>2. PICK T \in Selections[t] : TRUE
    BY <2>1, RowAssumption
  <2>3. RowChoices(t) = DirectRows(t)
    BY <1>2 DEF RowChoices
  <2>4. T \cap Live(snap) \in DirectRows(t)
    BY <2>2 DEF DirectRows
  <2>. QED
    BY <2>3, <2>4
<1>3. CASE stage = "upstream"
  <2>. DEFINE U == {r \in S : /\ r \notin Filtered
                              /\ \A k \in Relevant(t) : snap[r][k] = Null \/ Matched(snap[r], k)
                              /\ \E k \in Relevant(t) : Drives(snap[r], k)}
  <2>1. RowChoices(t) = IF Relevant(t) = {} \/ t \in processed THEN {{}} ELSE PartlyLimited(U)
    BY <1>3 DEF RowChoices, UpstreamRows
  <2>2. IsFiniteSet(U) /\ Cardinality(U) \in Nat
    <3>1. IsFiniteSet(U)
      <4>1. U \in SUBSET S
        OBVIOUS
      <4>. HIDE DEF S, U
      <4>. QED
        BY <1>1, <4>1, FS_Subset
    <3>. HIDE DEF S, U
    <3>. QED
      BY <3>1, FS_CardinalityType
  <2>. HIDE DEF U
  <2>3. PartlyLimited(U) # {}
    <3>1. CASE MaxRows = Unlimited \/ Cardinality(U) <= MaxRows
      BY <3>1 DEF PartlyLimited
    <3>2. CASE ~(MaxRows = Unlimited \/ Cardinality(U) <= MaxRows)
      <4>1. MaxRows \in Nat /\ Cardinality(U) >= MaxRows
        BY <2>2, <3>2, RowAssumption
      <4>2. U \in {T \in SUBSET U : Cardinality(T) >= MaxRows}
        BY <4>1
      <4>. QED
        BY <3>2, <4>2 DEF PartlyLimited
    <3>. QED
      BY <3>1, <3>2
  <2>. QED
    BY <2>1, <2>3
<1>4. CASE stage = "passthrough"
  <2>1. RowChoices(t) = Limited(S)
    BY <1>4 DEF RowChoices
  <2>. HIDE DEF S
  <2>2. CASE MaxRows = Unlimited \/ Cardinality(S) <= MaxRows
    BY <2>1, <2>2 DEF Limited
  <2>3. CASE ~(MaxRows = Unlimited \/ Cardinality(S) <= MaxRows)
    <3>1. MaxRows \in Nat /\ MaxRows <= Cardinality(S)
      BY <1>1, <2>3, RowAssumption
    <3>2. PICK T \in SUBSET S : Cardinality(T) = MaxRows
      BY <1>1, <3>1, SubsetOfSize
    <3>. QED
      BY <2>1, <2>3, <3>2 DEF Limited
  <2>. QED
    BY <2>2, <2>3
<1>5. CASE stage = "downstream"
  BY <1>5 DEF RowChoices, DownstreamRows
<1>6. CASE stage = "disconnected"
  BY <1>6 DEF RowChoices
<1>. QED
  BY <1>2, <1>3, <1>4, <1>5, <1>6 DEF StageTables
\* A task is done with its last row.
LEMMA BusyStep == ASSUME RunInv, BusyInv, [Next]_vars PROVE BusyInv'
<1>1. ASSUME Dry' PROVE BusyInv'
  BY <1>1 DEF Dry, BusyInv
<1>2. ASSUME NEW t \in Tables, Begin(t) PROVE BusyInv'
  <2>1. PICK S : Read(t, S)
    BY <1>2, BeginReads DEF RunInv
  <2>. QED
    BY <2>1 DEF Read, BusyInv
<1>3. ASSUME NEW t \in Tables, Copy(t) PROVE BusyInv'
  <2>1. PICK r \in Rows : Wrote(t, r)
    BY <1>3, CopyWrites DEF RunInv
  <2>. QED
    BY <2>1 DEF Wrote, BusyInv
<1>4. ASSUME NEW t \in Tables, TaskFails(t) PROVE BusyInv'
  BY <1>4 DEF TaskFails, BusyInv, RunInv, TypeOK
<1>5. CASE Untouched
  BY <1>5 DEF Untouched, BusyInv
<1>6. CASE StartRecreate \/ \E m \in Incremental : StartIncremental(m)
  BY <1>1, <1>6 DEF StartRecreate, StartIncremental, StartRun, ResetTasks, Dry
<1>. QED
  BY <1>1, <1>2, <1>3, <1>4, <1>5, <1>6, QuietSteps, StageIsOver DEF Ended

\* In every reachable state.
THEOREM TasksAreBusy == Spec => []BusyInv
<1>1. Init => BusyInv
  BY DEF Init, BusyInv
<1>. QED
  BY <1>1, BusyStep, RunCorrect, PTL DEF Spec

\* A run that is not over is never stuck: no pool waits for a task that nobody
\* starts, no stage for a task that nobody ends, whatever has failed.
THEOREM RunsNeverStick == Spec => [](stage # "idle" => CanGoOn)
<1>1. ASSUME RunInv, BusyInv, stage # "idle", ~CanGoOn PROVE FALSE
  <2>1. stage # "constraints" /\ With("done") # StageTables
    BY <1>1 DEF CanGoOn
  <2>2. StageTables \subseteq Tables
    BY <1>1, StageTablesType
  <2>3. With("running") = {}
    BY <1>1, <2>2 DEF CanGoOn, BusyInv, With
  <2>4. \A t \in With("pending") : ~MayBegin(t)
    <3>1. ASSUME NEW t \in With("pending") PROVE t \in Tables /\ t \in StageTables
      BY <2>2 DEF With
    <3>. QED
      BY <1>1, <3>1, ThereIsAChoice DEF CanGoOn
  <2>5. With("failed") = {}
    BY <1>1, <2>3, <2>4 DEF CanGoOn
  <2>6. With("pending") = {}
    <3>1. Cardinality(With("running")) < TableWorkers
      <4>1. Cardinality(With("running")) = 0
        BY <2>3, FS_EmptySet
      <4>. QED
        BY <4>1, RowAssumption
    <3>2. ASSUME NEW t \in With("pending"), ~InTurn(t) PROVE FALSE
      BY <2>4, <3>1, <3>2 DEF MayBegin
    <3>3. ASSUME NEW t \in With("pending") PROVE FALSE
      <4>1. MayBegin(t)
        BY <2>3, <2>5, <3>2, <3>3 DEF MayBegin
      <4>. QED
        BY <2>4, <4>1
    <3>. QED
      BY <3>3
  <2>7. ASSUME NEW t \in StageTables PROVE t \in With("done")
    <3>1. status[t] \in {"pending", "running", "done", "failed"}
      BY <1>1, <2>2 DEF RunInv, TypeOK
    <3>2. t \notin With("pending") /\ t \notin With("running") /\ t \notin With("failed")
      BY <2>3, <2>5, <2>6
    <3>. QED
      BY <3>1, <3>2 DEF With
  <2>. QED
    BY <2>1, <2>7 DEF With
<1>. QED
  BY <1>1, TasksAreBusy, RunCorrect, PTL

\* Places are counted up to the end of the run.
LEMMA PlaceType ==
    ASSUME RunInv
    PROVE  /\ Depth \in Nat /\ Place \in 0 .. 2 * Depth + 4
           /\ stage # "idle" => Place \in 0 .. 2 * Depth + 3
           /\ stage = "upstream" => Place = level /\ level \in 1 .. Depth
           /\ stage = "downstream" => Place = 2 * Depth + 2 - level /\ level \in 1 .. Depth
<1>1. Depth \in Nat /\ UpstreamLevels \subseteq 1 .. Depth /\ DownstreamLevels \subseteq 1 .. Depth
  BY LevelsType
<1>2. CASE stage = "upstream"
  <2>1. level \in 1 .. Depth
    BY <1>1, <1>2 DEF RunInv, PositionInv
  <2>2. Place = level
    BY <1>2 DEF Place
  <2>. QED
    BY <1>1, <1>2, <2>1, <2>2
<1>3. CASE stage = "downstream"
  <2>1. level \in 1 .. Depth
    BY <1>1, <1>3 DEF RunInv, PositionInv
  <2>2. Place = 2 * Depth + 2 - level
    BY <1>3 DEF Place
  <2>. QED
    BY <1>1, <1>3, <2>1, <2>2
<1>4. CASE stage \in {"direct", "passthrough", "disconnected", "constraints", "idle"}
  <2>1. Place \in {0, Depth + 1, 2 * Depth + 2, 2 * Depth + 3, 2 * Depth + 4}
        /\ (stage # "idle" => Place \in {0, Depth + 1, 2 * Depth + 2, 2 * Depth + 3})
    BY <1>4 DEF Place
  <2>. QED
    BY <1>1, <1>4, <2>1
<1>. QED
  BY <1>2, <1>3, <1>4 DEF RunInv, TypeOK, Stages

\* The next stage is a later place.
LEMMA AdvanceIsLater == ASSUME RunInv, AdvanceStage PROVE Place' > Place
<1>1. stage' = NextStop[1] /\ level' = NextStop[2]
  BY DEF AdvanceStage
<1>2. Depth \in Nat /\ UpstreamLevels \subseteq Nat /\ DownstreamLevels \subseteq Nat
  BY LevelsType
<1>3. CASE stage \in {"direct", "upstream"}
  <2>1. Place = UpFrom /\ UpFrom \in 0 .. Depth
    <3>1. CASE stage = "direct"
      BY <1>2, <3>1 DEF Place, UpFrom
    <3>2. CASE stage = "upstream"
      BY <1>2, <3>2, PlaceType DEF UpFrom
    <3>. QED
      BY <1>3, <3>1, <3>2
  <2>2. CASE /\ NextStop[1] = "upstream" /\ NextStop[2] \in UpstreamLevels
             /\ NextStop[2] > UpFrom
    <3>1. Place' = level'
      BY <1>1, <2>2 DEF Place
    <3>. QED
      BY <1>1, <2>1, <2>2, <3>1
  <2>3. CASE NextStop = <<"passthrough", 0>>
    <3>1. Place' = Depth + 1
      BY <1>1, <2>3 DEF Place
    <3>. QED
      BY <1>2, <2>1, <3>1
  <2>. QED
    BY <1>3, <2>2, <2>3, NextStopUp DEF RunInv, TypeOK
<1>4. CASE stage \in {"passthrough", "downstream"}
  <2>1. Place = 2 * Depth + 2 - DownFrom /\ DownFrom \in 1 .. Depth + 1
    <3>1. CASE stage = "passthrough"
      <4>1. Place = Depth + 1 /\ DownFrom = Depth + 1
        BY <3>1 DEF Place, DownFrom
      <4>. QED
        BY <1>2, <4>1
    <3>2. CASE stage = "downstream"
      BY <1>2, <3>2, PlaceType DEF DownFrom
    <3>. QED
      BY <1>4, <3>1, <3>2
  <2>2. CASE /\ NextStop[1] = "downstream" /\ NextStop[2] \in DownstreamLevels
             /\ NextStop[2] < DownFrom
    <3>1. Place' = 2 * Depth + 2 - level' /\ level' \in Nat /\ level' < DownFrom
      BY <1>1, <1>2, <2>2 DEF Place
    <3>2. PICK c \in Int, m \in Nat, n \in Nat :
            c = 2 * Depth + 2 /\ m = level' /\ n = DownFrom
      BY <1>2, <2>1, <3>1
    <3>3. Place' = c - m
      BY <1>2, <3>1, <3>2
    <3>4. Place = c - n
      BY <1>2, <2>1, <3>2
    <3>5. m < n
      BY <3>1, <3>2
    <3>6. c - m > c - n
      BY <3>5
    <3>. QED
      BY <3>3, <3>4, <3>6
  <2>3. CASE NextStop \in {<<"disconnected", 0>>, <<"constraints", 0>>}
    <3>1. Place' \in {2 * Depth + 2, 2 * Depth + 3}
      BY <1>1, <2>3 DEF Place
    <3>2. Place \in Int /\ Place < 2 * Depth + 2 /\ 2 * Depth + 2 \in Int
      BY <1>2, <2>1
    <3>. QED
      BY <1>2, <3>1, <3>2
  <2>. QED
    BY <1>4, <2>2, <2>3, NextStopDown
<1>5. CASE stage = "disconnected"
  <2>1. stage' = "constraints"
    BY <1>1, <1>5, NextStopDown
  <2>2. Place = 2 * Depth + 2 /\ Place' = 2 * Depth + 3
    BY <1>5, <2>1 DEF Place
  <2>. QED
    BY <1>2, <2>2
<1>. QED
  BY <1>3, <1>4, <1>5 DEF AdvanceStage, RunInv, TypeOK, Stages

\* A step of a task brings the end nearer.
LEMMA TaskIsNearer ==
    ASSUME RunInv, BusyInv, NEW t \in Tables, Begin(t) \/ Copy(t) \/ TaskFails(t)
    PROVE  Nearer
<1>1. UNCHANGED <<stage, level>>
  BY DEF Begin, Copy, TaskFails
<1>2. Place' = Place /\ StageTables' = StageTables
  BY <1>1 DEF Place, StageTables
<1>3. CASE status[t] = "pending"
  <2>1. /\ t \in StageTables /\ status'[t] # "pending"
        /\ \A u \in Tables \ {t} : status'[u] = status[u]
    <3>1. CASE Begin(t)
      <4>1. PICK S : Read(t, S)
        BY <3>1, BeginReads DEF RunInv
      <4>. QED
        BY <4>1 DEF Read
    <3>2. CASE TaskFails(t)
      BY <1>3, <3>2 DEF TaskFails, MayBegin, With, RunInv, TypeOK
    <3>3. CASE Copy(t)
      BY <1>3, <3>3 DEF Copy, With
    <3>. QED
      BY <3>1, <3>2, <3>3
  <2>2. With("pending")' = With("pending") \ {t} /\ t \in With("pending")
    <3>1. StageTables \subseteq Tables
      BY StageTablesType
    <3>. QED
      BY <1>2, <1>3, <2>1, <3>1 DEF With
  <2>. QED
    BY <1>2, <2>2 DEF Nearer
<1>4. CASE status[t] # "pending"
  <2>1. /\ t \in StageTables /\ status[t] = "running" /\ status'[t] # "pending"
        /\ \A u \in Tables \ {t} : status'[u] = status[u] /\ todo'[u] = todo[u]
        /\ todo'[t] \subseteq todo[t] /\ todo'[t] # todo[t]
    <3>1. CASE Begin(t)
      BY <1>4, <3>1 DEF Begin, MayBegin, With
    <3>2. CASE TaskFails(t)
      <4>1. status[t] = "running" /\ t \in StageTables /\ todo[t] # {}
        BY <1>4, <3>2 DEF TaskFails, MayBegin, With, BusyInv
      <4>. QED
        BY <3>2, <4>1 DEF TaskFails, RunInv, TypeOK
    <3>3. CASE Copy(t)
      <4>1. PICK r \in Rows : Wrote(t, r)
        BY <3>3, CopyWrites DEF RunInv
      <4>. QED
        BY <4>1 DEF Wrote
    <3>. QED
      BY <3>1, <3>2, <3>3
  <2>2. With("pending")' = With("pending")
    <3>1. StageTables \subseteq Tables
      BY StageTablesType
    <3>. QED
      BY <1>2, <2>1, <3>1 DEF With
  <2>3. Unwritten' \subseteq Unwritten
    BY <2>1 DEF Unwritten
  <2>4. Unwritten' # Unwritten
    <3>1. PICK r \in todo[t] : r \notin todo'[t]
      BY <2>1
    <3>2. r \in Unwritten /\ table_of[r] = t
      BY <3>1 DEF Unwritten, RunInv, TaskInv, RowsOf
    <3>3. \A u \in Tables \ {t} : r \notin todo'[u]
      BY <2>1, <3>2 DEF RunInv, TaskInv, RowsOf
    <3>4. r \notin Unwritten'
      BY <3>1, <3>3 DEF Unwritten
    <3>. QED
      BY <3>2, <3>4
  <2>. QED
    BY <1>2, <2>2, <2>3, <2>4 DEF Nearer
<1>. QED
  BY <1>3, <1>4

\* No run goes on for ever: whatever it does brings it to a later place, or
\* leaves it fewer tasks to begin or fewer rows to write. A finite number of
\* places, tables and rows bounds its steps.
THEOREM RunsAdvance ==
    Spec => /\ [](Place \in 0 .. 2 * Depth + 4 /\ IsFiniteSet(With("pending")) /\ IsFiniteSet(Unwritten))
            /\ [][stage # "idle" => Nearer \/ SourceChange]_vars
<1>1. ASSUME RunInv
      PROVE  Place \in 0 .. 2 * Depth + 4 /\ IsFiniteSet(With("pending")) /\ IsFiniteSet(Unwritten)
  <2>1. IsFiniteSet(With("pending"))
    <3>1. With("pending") \in SUBSET Tables
      BY <1>1, StageTablesType DEF With
    <3>. QED
      BY <3>1, GraphAssumption, FS_Subset
  <2>2. IsFiniteSet(Unwritten)
    <3>1. Unwritten \in SUBSET Rows
      BY <1>1 DEF Unwritten, RunInv, TypeOK
    <3>. QED
      BY <3>1, RowAssumption, FS_Subset
  <2>. QED
    BY <1>1, <2>1, <2>2, PlaceType
<1>2. ASSUME RunInv, BusyInv, [Next]_vars, stage # "idle", vars' # vars PROVE Nearer \/ SourceChange
  <2>1. CASE AdvanceStage
    BY <1>2, <2>1, AdvanceIsLater DEF Nearer
  <2>2. CASE stage' = "idle"
    <3>1. Place' = 2 * Depth + 4
      BY <2>2 DEF Place
    <3>. QED
      BY <1>2, <3>1, PlaceType DEF Nearer
  <2>. QED
    BY <1>2, <2>1, <2>2, TaskIsNearer DEF Next, TaskStep, StartRecreate, StartIncremental, StartRun,
       RunFails, Crash, Abandon, AddConstraints, FinishIncremental
<1>3. RunInv /\ BusyInv /\ [Next]_vars => [stage # "idle" => Nearer \/ SourceChange]_vars
  BY <1>2
<1>. QED
  BY <1>1, <1>3, TasksAreBusy, RunCorrect, PTL DEF Spec
=============================================================================
