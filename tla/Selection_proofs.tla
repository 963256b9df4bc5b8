--------------------------- MODULE Selection_proofs ---------------------------
(***************************************************************************)
(* Which rows the traversal selects, for any graph, any source and any     *)
(* sequence of runs: none twice, targets afresh, and in the upstream phase *)
(* exactly the rows whose parents select them.                             *)
(*                                                                         *)
(* The argument: a run's place in the strata determines what it has        *)
(* processed (PositionInv), and a task writes rows of its own table only   *)
(* (TaskInv). So while the tables of a stratum are copied, nobody writes   *)
(* the parents they are selected by: these lie in lower strata. A task may *)
(* therefore choose its rows at one moment and write them at another.      *)
(*                                                                         *)
(* A passthrough table that the upstream phase copies as well is copied    *)
(* twice; some theorems assume there is none (PassthroughApart).           *)
(***************************************************************************)
EXTENDS MiddleOut_proofs

\* "A passthrough table must not also be upstream-subsetted, or a recreate run
\* would copy it twice" (tests/psql/test_integration.py): it is no target, and
\* the upstream phase does not follow it.
PassthroughApart == PassthroughTables \cap Followed = {}

----------------------------------------------------------------------------
(* Where a run is, and what its tasks are about.                           *)

\* The place of run_middle_out tells what processed_tables holds.
PositionInv ==
    /\ stage = "direct" => processed = {}
    /\ stage = "upstream" => level \in UpstreamLevels /\ processed = FollowedUpTo[level - 1]
    /\ stage \in {"passthrough", "downstream", "disconnected", "constraints"} =>
          processed = Followed
    /\ stage = "downstream" => level \in DownstreamLevels

\* A task with rows to write is running, in its stage; they are rows of its
\* table. In the upstream phase the table is not yet processed, in the
\* downstream phase the rows are missing.
TaskInv ==
    \A t \in Tables :
        /\ todo[t] \subseteq RowsOf(t)
        /\ todo[t] # {} => status[t] = "running"
        /\ status[t] = "running" => t \in StageTables
        /\ (stage = "upstream" /\ todo[t] # {}) => t \notin processed /\ Relevant(t) # {}
        /\ stage = "downstream" => \A r \in todo[t] : ~Resident(r)

\* Tables whose rows a recreate run may have written so far.
Visited(t) ==
    CASE stage = "direct"       -> t \in InitialTargetTables /\ status[t] # "pending"
      [] stage = "upstream"     -> \/ t \in processed
                                   \/ /\ t \in StageTables /\ status[t] # "pending"
                                      /\ Relevant(t) # {}
      [] stage = "passthrough"  -> \/ t \in Followed
                                   \/ t \in PassthroughTables /\ status[t] # "pending"
      [] stage = "downstream"   -> t \notin Disconnected
      [] stage = "disconnected" -> t \in Disconnected => status[t] # "pending"
      [] OTHER                  -> TRUE

\* A recreate run copies no row of a table before it visits it, and then only
\* rows that are not there.
SingleInv ==
    /\ SingleCopies
    /\ mode = "recreate" =>
          /\ \A r \in Rows : Resident(r) => Visited(table_of[r])
          /\ \A t \in Tables : \A r \in todo[t] : ~Resident(r)

\* A row every selection of its target table includes.
AlwaysSelected(r) ==
    /\ table_of[r] \in InitialTargetTables \ PassthroughTables
    /\ \A S \in Selections[table_of[r]] : r \in S

\* The task of t has not read its rows.
NotRead(t) == status[t] \in {"pending", "failed"}

\* In an incremental run, a row that is re-read is still to be read, about to
\* be written, or as the snapshot has it.
FreshInv ==
    (stage # "idle" /\ mode \in Incremental /\ MaxRows = Unlimited) =>
        \A r \in Live(snap) :
            LET t == table_of[r] IN
            /\ AlwaysSelected(r) =>
                  \/ stage = "direct" /\ (NotRead(t) \/ r \in todo[t])
                  \/ dest[r] = <<Redact(snap[r])>>
            /\ t \in PassthroughTables =>
                  \/ stage \in {"direct", "upstream"}
                  \/ stage = "passthrough" /\ (NotRead(t) \/ r \in todo[t])
                  \/ dest[r] = <<snap[r]>>

----------------------------------------------------------------------------
(* The upstream phase.                                                     *)

\* The relationships the AND semantics of CONFIG.md are about.
Governing(t) == {k \in Redacted : fk_table[k] = t /\ target_table[k] \in Followed}

\* The images the row may have that the AND semantics select.
WithParents(r) == {c \in Images(r) : SelectedByParents(r, c)}

\* Every row a task is to write in the upstream phase has its parents.
ChosenByParents ==
    stage = "upstream" => \A t \in Tables : \A r \in todo[t] : Redact(snap[r]) \in WithParents(r)

\* UpstreamSound, and that rows said to come from the upstream phase are of
\* tables it copies.
SoundInv ==
    /\ ChosenByParents
    /\ \A r \in Rows : origin[r] = "upstream" => ByUpstreamOnly(r)
    /\ \A r \in Rows : (origin[r] = "upstream" /\ table_of[r] \notin PassthroughTables) =>
          \A i \in 1 .. Len(dest[r]) : dest[r][i] \in WithParents(r)

\* The images the row may have that hang from a row inserted under the journal.
Hanging(r) ==
    {c \in Images(r) : \E k \in FksOf(table_of[r]) : c[k] # Null /\ delta[c[k]] = "inserted"}

\* FrozenEntities, also between the runs of a journal and for rows about to
\* be written.
FrozenInv ==
    /\ journal = "topup" =>
          \A r \in Rows : (delta[r] = "inserted" /\ origin[r] = "upstream") =>
              dest[r][1] \in Hanging(r)
    /\ (stage = "upstream" /\ mode = "topup") =>
          \A t \in Tables : \A r \in todo[t] : Redact(snap[r]) \in Hanging(r)

\* The upstream phase owes the destination this row.
Due(r) ==
    /\ r \in Live(snap) \ Filtered /\ ByUpstreamOnly(r) /\ SelectedByParents(r, snap[r])
    /\ mode = "topup" => \E k \in Governing(table_of[r]) :
                             snap[r][k] # Null /\ delta[snap[r][k]] = "inserted"

\* The tables whose rows the upstream phase has chosen.
Chosen(t) ==
    \/ stage = "passthrough"
    \/ stage = "upstream" /\ (t \in processed \/ (t \in StageTables /\ ~NotRead(t)))

\* What is owed has been copied, or is about to be.
CompleteInv ==
    (stage \in {"upstream", "passthrough"} /\ MaxRows = Unlimited) =>
        \A r \in Rows : (Due(r) /\ Chosen(table_of[r])) =>
            Resident(r) \/ r \in todo[table_of[r]]

----------------------------------------------------------------------------
(* What the upstream phase follows.                                        *)

\* One upstream stratum.
FollowStep(n, S) ==
    IF n \in UpstreamLevels
    THEN S \cup (Strata[n] \cap {fk_table[k] : k \in {j \in Redacted : target_table[j] \in S}})
    ELSE S

\* The definition is what it says.
LEMMA FollowedRecursion ==
    /\ FollowedUpTo \in [Nat -> SUBSET Tables]
    /\ FollowedUpTo[0] = InitialTargetTables
    /\ \A n \in Nat : FollowedUpTo[n + 1] = FollowStep(n + 1, FollowedUpTo[n])
<1>. DEFINE G == [n \in Nat |-> [S \in SUBSET Tables |-> FollowStep(n, S)]]
            Is(f) == f = [n \in Nat |-> IF n = 0 THEN InitialTargetTables
                                        ELSE FollowStep(n, f[n - 1])]
<1>1. \A n \in Nat, S \in SUBSET Tables : FollowStep(n, S) \in SUBSET Tables
  BY GraphAssumption DEF FollowStep, Redacted
<1>2. G \in [Nat -> [SUBSET Tables -> SUBSET Tables]]
  BY <1>1
<1>3. InitialTargetTables \in SUBSET Tables
  BY GraphAssumption
<1>. HIDE DEF G
<1>4. PICK f \in [Nat -> SUBSET Tables] : Recurs(f, InitialTargetTables, G)
  BY <1>2, <1>3, PrimitiveRecursion
<1>5. \A n \in Nat : n # 0 => n - 1 \in Nat /\ G[n][f[n - 1]] = FollowStep(n, f[n - 1])
  BY DEF G
<1>6. Is(f)
  BY <1>4, <1>5 DEF Recurs
<1>7. Is(FollowedUpTo)
  <2>1. FollowedUpTo = CHOOSE g : Is(g)
    BY DEF FollowedUpTo, FollowStep
  <2>. HIDE DEF Is
  <2>. QED
    BY <1>6, <2>1
<1>8. \A n \in Nat : FollowedUpTo[n + 1] = FollowStep(n + 1, FollowedUpTo[n])
  <2>1. \A n \in Nat : (n + 1) - 1 = n /\ n + 1 \in Nat /\ n + 1 # 0
    OBVIOUS
  <2>. HIDE DEF FollowStep
  <2>. QED
    BY <1>7, <2>1
<1>9. \A n \in Nat : FollowedUpTo[n] \in SUBSET Tables
  <2>. DEFINE S == {n \in Nat : FollowedUpTo[n] \in SUBSET Tables}
  <2>1. 0 \in S
    BY <1>3, <1>7
  <2>2. ASSUME NEW n \in S PROVE n + 1 \in S
    <3>1. n + 1 \in Nat /\ FollowedUpTo[n] \in SUBSET Tables
      OBVIOUS
    <3>2. FollowedUpTo[n + 1] \in SUBSET Tables
      BY <1>1, <1>8, <3>1
    <3>. QED
      BY <3>1, <3>2
  <2>3. S \in SUBSET Nat
    OBVIOUS
  <2>. HIDE DEF S
  <2>4. \A n \in Nat : n \in S
    BY <2>1, <2>2, <2>3, AllNaturals
  <2>. QED
    BY <2>4 DEF S
<1>. QED
  BY <1>7, <1>8, <1>9

\* What is followed is a target or a table of a stratum so far, and what a
\* later stratum adds is of that stratum.
LEMMA FollowedIsPlaced ==
    /\ \A n \in Nat : FollowedUpTo[n] \subseteq InitialTargetTables \cup Placed[n]
    /\ \A m, n \in Nat : m <= n => /\ FollowedUpTo[m] \subseteq FollowedUpTo[n]
                                   /\ FollowedUpTo[n] \cap Placed[m] \subseteq FollowedUpTo[m]
<1>1. \A n \in Nat : /\ FollowedUpTo[n] \subseteq FollowedUpTo[n + 1]
                     /\ FollowedUpTo[n + 1] \ FollowedUpTo[n] \subseteq Placed[n + 1] \ Placed[n]
  <2>. TAKE n \in Nat
  <2>1. n + 1 \in UpstreamLevels => Strata[n + 1] = Placed[n + 1] \ Placed[n]
    <3>1. n + 1 \in UpstreamLevels => n + 1 \in DOMAIN Strata
      BY LevelsType
    <3>2. (n + 1) - 1 = n
      OBVIOUS
    <3>. QED
      BY <3>1, <3>2, StrataType
  <2>. QED
    BY <2>1, FollowedRecursion DEF FollowStep
<1>2. \A n \in Nat : FollowedUpTo[n] \subseteq InitialTargetTables \cup Placed[n]
  <2>. DEFINE S == {n \in Nat : FollowedUpTo[n] \subseteq InitialTargetTables \cup Placed[n]}
  <2>1. 0 \in S
    BY FollowedRecursion
  <2>2. ASSUME NEW n \in S PROVE n + 1 \in S
    <3>1. n \in Nat /\ n + 1 \in Nat /\ n <= n + 1
      OBVIOUS
    <3>2. Placed[n] \subseteq Placed[n + 1]
      BY <3>1, PlacedGrows
    <3>. QED
      BY <1>1, <3>1, <3>2
  <2>3. S \in SUBSET Nat
    OBVIOUS
  <2>. HIDE DEF S
  <2>4. \A n \in Nat : n \in S
    BY <2>1, <2>2, <2>3, AllNaturals
  <2>. QED
    BY <2>4 DEF S
<1>3. ASSUME NEW m \in Nat
      PROVE  \A d \in Nat : /\ FollowedUpTo[m] \subseteq FollowedUpTo[m + d]
                            /\ FollowedUpTo[m + d] \cap Placed[m] \subseteq FollowedUpTo[m]
  <2>. DEFINE S == {d \in Nat : /\ FollowedUpTo[m] \subseteq FollowedUpTo[m + d]
                                /\ FollowedUpTo[m + d] \cap Placed[m] \subseteq FollowedUpTo[m]}
  <2>1. 0 \in S
    <3>1. m + 0 = m
      OBVIOUS
    <3>. QED
      BY <3>1
  <2>2. ASSUME NEW d \in S PROVE d + 1 \in S
    <3>1. m + d \in Nat /\ m + (d + 1) = (m + d) + 1 /\ d + 1 \in Nat /\ m <= m + d
      OBVIOUS
    <3>2. Placed[m] \subseteq Placed[m + d]
      BY <3>1, PlacedGrows
    <3>3. /\ FollowedUpTo[m + d] \subseteq FollowedUpTo[(m + d) + 1]
          /\ FollowedUpTo[(m + d) + 1] \ FollowedUpTo[m + d] \subseteq Placed[(m + d) + 1] \ Placed[m + d]
      BY <1>1, <3>1
    <3>. QED
      BY <3>1, <3>2, <3>3
  <2>3. S \in SUBSET Nat
    OBVIOUS
  <2>. HIDE DEF S
  <2>4. \A d \in Nat : d \in S
    BY <2>1, <2>2, <2>3, AllNaturals
  <2>. QED
    BY <2>4 DEF S
<1>4. \A m, n \in Nat : m <= n => n - m \in Nat /\ m + (n - m) = n
  OBVIOUS
<1>. QED
  BY <1>2, <1>3, <1>4

\* Strata the upstream phase does not visit add nothing.
LEMMA FollowedSkips ==
    ASSUME NEW m \in Nat, NEW n \in Nat, m <= n,
           \A l \in UpstreamLevels : ~(m < l /\ l <= n)
    PROVE  FollowedUpTo[n] = FollowedUpTo[m]
<1>. DEFINE S == {d \in Nat : m + d <= n => FollowedUpTo[m + d] = FollowedUpTo[m]}
<1>1. 0 \in S
  <2>1. m + 0 = m
    OBVIOUS
  <2>. QED
    BY <2>1
<1>2. ASSUME NEW d \in S PROVE d + 1 \in S
  <2>. SUFFICES ASSUME m + (d + 1) <= n PROVE FollowedUpTo[m + (d + 1)] = FollowedUpTo[m]
    OBVIOUS
  <2>1. m + d \in Nat /\ m + (d + 1) = (m + d) + 1 /\ m + d <= n /\ m < (m + d) + 1
    OBVIOUS
  <2>2. (m + d) + 1 \notin UpstreamLevels
    BY <2>1
  <2>3. FollowedUpTo[(m + d) + 1] = FollowedUpTo[m + d]
    BY <2>1, <2>2, FollowedRecursion DEF FollowStep
  <2>. QED
    BY <2>1, <2>3
<1>3. S \in SUBSET Nat
  OBVIOUS
<1>. HIDE DEF S
<1>4. \A d \in Nat : d \in S
  BY <1>1, <1>2, <1>3, AllNaturals
<1>5. n - m \in Nat /\ m + (n - m) = n
  OBVIOUS
<1>. QED
  BY <1>4, <1>5 DEF S

\* Whatever is followed is connected.
LEMMA FollowedIsConnected ==
    /\ Followed \subseteq Connected
    /\ \A n \in 0 .. Depth : FollowedUpTo[n] \subseteq Followed
    /\ InitialTargetTables \subseteq Followed
<1>1. Depth \in Nat
  BY LevelsType
<1>2. /\ Followed \subseteq InitialTargetTables \cup Placed[Depth]
      /\ \A n \in 0 .. Depth : FollowedUpTo[n] \subseteq Followed
  BY <1>1, FollowedIsPlaced DEF Followed
<1>3. InitialTargetTables \subseteq Followed
  BY <1>1, <1>2, FollowedRecursion
<1>4. CASE Connected # {}
  BY <1>1, <1>2, <1>3, <1>4, PlacedRecursion, OrderedIsConnected, ConnectedClosed
<1>5. CASE Connected = {}
  <2>1. InitialTargetTables = {}
    BY <1>5, ConnectedClosed
  <2>2. UpstreamLevels = {}
    BY <2>1 DEF UpstreamLevels
  <2>3. Followed = {}
    BY <1>1, <2>1, <2>2, FollowedSkips, FollowedRecursion DEF Followed
  <2>. QED
    BY <1>2, <1>3, <2>3
<1>. QED
  BY <1>2, <1>3, <1>4, <1>5

\* The stratum of the upstream phase is one of the order, and not the 0th.
LEMMA UpstreamPlace ==
    ASSUME stage = "upstream", PositionInv
    PROVE  /\ level \in DOMAIN Strata /\ level \in 1 .. Depth /\ level \in Nat
           /\ level - 1 \in Nat /\ level - 1 \in 0 .. Depth /\ level - 1 < level
           /\ (level - 1) + 1 = level /\ Depth \in Nat /\ level - 1 <= Depth
           /\ StageTables = Strata[level] /\ processed = FollowedUpTo[level - 1]
<1>1. level \in UpstreamLevels /\ processed = FollowedUpTo[level - 1]
  BY DEF PositionInv
<1>2. level \in 1 .. Depth /\ Depth \in Nat /\ level \in DOMAIN Strata
  BY <1>1, LevelsType
<1>3. StageTables = Strata[level]
  BY DEF StageTables
<1>4. /\ level \in Nat /\ level - 1 \in Nat /\ level - 1 \in 0 .. Depth
      /\ level - 1 < level /\ (level - 1) + 1 = level /\ level - 1 <= Depth
  BY <1>2
<1>. QED
  BY <1>1, <1>2, <1>3, <1>4

\* In the stratum of a table, the relationships __subset_upstream finds
\* relevant are those that decide about its rows for good.
LEMMA RelevantIsGoverning ==
    ASSUME stage = "upstream", PositionInv, NEW t \in StageTables
    PROVE  Relevant(t) = Governing(t)
<1>3. processed \subseteq Followed
  BY UpstreamPlace, FollowedIsConnected
<1>4. ASSUME NEW k \in Governing(t) PROVE target_table[k] \in processed
  <2>1. k \in Redacted /\ fk_table[k] = t /\ target_table[k] \in Followed
    BY DEF Governing
  <2>2. k \in OrderingFks
    BY <2>1, ConnectedIsOrdered, FollowedIsConnected
  <2>3. target_table[k] \in Parents(t)
    BY <2>1, <2>2 DEF Parents
  <2>4. target_table[k] \in Placed[level - 1]
    BY <2>3, UpstreamPlace, ParentsAreLower
  <2>. QED
    BY <2>1, <2>4, UpstreamPlace, FollowedIsPlaced DEF Followed
<1>. QED
  BY <1>3, <1>4 DEF Relevant, Governing

\* The parents of a table that is processed, or of the current stratum, are
\* not in the current stratum.
LEMMA ParentsAreNotInStage ==
    ASSUME stage = "upstream", PositionInv, NEW t, t \in processed \/ t \in StageTables,
           t \notin InitialTargetTables, NEW k \in Governing(t)
    PROVE  target_table[k] \notin StageTables
<1>3. t \in Placed[level]
  BY UpstreamPlace, FollowedIsPlaced, PlacedGrows, StrataType
<1>4. k \in OrderingFks /\ fk_table[k] = t
  BY ConnectedIsOrdered, FollowedIsConnected DEF Governing
<1>5. target_table[k] \in Placed[level - 1]
  <2>1. target_table[k] \in Parents(t)
    BY <1>4 DEF Parents
  <2>. QED
    BY <1>3, <2>1, UpstreamPlace, PlacedRecursion
<1>. QED
  BY <1>5, UpstreamPlace, StrataAreDisjoint

----------------------------------------------------------------------------
(* The place of a run, and its tasks.                                      *)

\* The stratum after which the next upstream stratum comes.
UpFrom == IF stage = "direct" THEN 0 ELSE level

\* run_middle_out goes up to the next upstream stratum, or on when there is none.
LEMMA NextStopUp ==
    ASSUME stage \in {"direct", "upstream"}, level \in 0 .. Depth
    PROVE  \/ /\ NextStop[1] = "upstream" /\ NextStop[2] \in UpstreamLevels
              /\ NextStop[2] > UpFrom
              /\ \A l \in UpstreamLevels : ~(UpFrom < l /\ l < NextStop[2])
           \/ /\ NextStop = <<"passthrough", 0>>
              /\ \A l \in UpstreamLevels : ~(UpFrom < l)
<1>. DEFINE U == {m \in UpstreamLevels : m > UpFrom}
<1>1. NextStop = IF U = {} THEN <<"passthrough", 0>> ELSE <<"upstream", Min(U)>>
  BY DEF NextStop, UpFrom
<1>2. CASE U = {}
  BY <1>1, <1>2
<1>3. CASE U # {}
  <2>1. U \in SUBSET Nat
    BY LevelsType
  <2>2. Min(U) \in U /\ \A s \in U : Min(U) <= s
    BY <1>3, <2>1, MinIsLeast
  <2>3. UpstreamLevels \in SUBSET Nat /\ UpFrom \in Nat
    BY LevelsType DEF UpFrom
  <2>4. PICK n \in U : n = Min(U) /\ \A s \in U : n <= s
    BY <2>2
  <2>5. NextStop[1] = "upstream" /\ NextStop[2] = n
    BY <1>1, <1>3, <2>4
  <2>6. n \in UpstreamLevels /\ n > UpFrom /\ \A l \in UpstreamLevels : l > UpFrom => n <= l
    BY <2>4
  <2>. QED
    BY <2>3, <2>5, <2>6
<1>. QED
  BY <1>2, <1>3

\* The stratum before which the next downstream stratum comes.
DownFrom == IF stage = "passthrough" THEN Depth + 1 ELSE level

\* It comes down by the next downstream stratum, or goes on when there is none.
LEMMA NextStopDown ==
    ASSUME stage \in {"passthrough", "downstream", "disconnected"}
    PROVE  \/ /\ stage # "disconnected"
              /\ NextStop[1] = "downstream" /\ NextStop[2] \in DownstreamLevels
              /\ NextStop[2] < DownFrom
              /\ \A l \in DownstreamLevels : ~(l < DownFrom /\ NextStop[2] < l)
           \/ /\ stage # "disconnected"
              /\ NextStop = IF KeepDisconnected THEN <<"disconnected", 0>> ELSE <<"constraints", 0>>
              /\ \A l \in DownstreamLevels : ~(l < DownFrom)
           \/ stage = "disconnected" /\ NextStop = <<"constraints", 0>>
<1>. DEFINE D == {m \in DownstreamLevels : m < DownFrom}
<1>1. CASE stage = "disconnected"
  BY <1>1 DEF NextStop
<1>2. CASE stage # "disconnected"
  <2>1. NextStop = IF D = {} THEN (IF KeepDisconnected THEN <<"disconnected", 0>>
                                                       ELSE <<"constraints", 0>>)
                   ELSE <<"downstream", Max(D)>>
    BY <1>2 DEF NextStop, DownFrom
  <2>2. CASE D = {}
    BY <1>2, <2>1, <2>2
  <2>3. CASE D # {}
    <3>1. D \in SUBSET (0 .. Depth) /\ Depth \in Nat
      BY LevelsType
    <3>2. Max(D) \in D /\ \A s \in D : Max(D) >= s
      BY <2>3, <3>1, MaxIsGreatest
    <3>3. DownstreamLevels \in SUBSET (0 .. Depth)
      BY LevelsType
    <3>4. NextStop[1] = "downstream" /\ NextStop[2] = Max(D)
      BY <2>1, <2>3
    <3>. QED
      BY <1>2, <3>1, <3>2, <3>3, <3>4
  <2>. QED
    BY <2>2, <2>3
<1>. QED
  BY <1>1, <1>2

\* The place tells what is processed, when a run starts, goes on and ends.
LEMMA PositionStep == TypeOK /\ PositionInv /\ [Next]_vars => PositionInv'
<1>. SUFFICES ASSUME TypeOK, PositionInv, [Next]_vars PROVE PositionInv'
  OBVIOUS
<1>1. ASSUME UNCHANGED <<stage, level, processed>> PROVE PositionInv'
  BY <1>1 DEF PositionInv
<1>2. ASSUME stage' = "idle" PROVE PositionInv'
  BY <1>2 DEF PositionInv
<1>3. ASSUME NEW m, StartRun(m) PROVE PositionInv'
  BY <1>3 DEF StartRun, PositionInv
<1>4. CASE AdvanceStage
  <2>1. stage' = NextStop[1] /\ level' = NextStop[2] /\ processed' = processed \cup Added
    BY <1>4 DEF AdvanceStage
  <2>2. CASE stage \in {"direct", "upstream"}
    <3>1. processed' = FollowedUpTo[UpFrom] /\ UpFrom \in Nat /\ UpFrom <= Depth /\ Depth \in Nat
      <4>1. CASE stage = "direct"
        BY <2>1, <4>1, FollowedRecursion, LevelsType DEF Added, UpFrom, PositionInv
      <4>2. CASE stage = "upstream"
        <5>1. Added = Strata[level] \cap
                        {fk_table[k] : k \in {j \in Redacted : target_table[j] \in processed}}
          BY <4>2 DEF Added, StageTables, Relevant
        <5>2. FollowedUpTo[level] = FollowStep(level, processed)
          BY <4>2, UpstreamPlace, FollowedRecursion
        <5>3. level \in UpstreamLevels
          BY <4>2 DEF PositionInv
        <5>4. processed' = FollowedUpTo[level]
          BY <2>1, <5>1, <5>2, <5>3 DEF FollowStep
        <5>. QED
          BY <4>2, <5>4, UpstreamPlace DEF UpFrom
      <4>. QED
        BY <2>2, <4>1, <4>2
    <3>2. CASE /\ NextStop[1] = "upstream" /\ NextStop[2] \in UpstreamLevels
               /\ NextStop[2] > UpFrom
               /\ \A l \in UpstreamLevels : ~(UpFrom < l /\ l < NextStop[2])
      <4>. DEFINE n == NextStop[2]
      <4>1. n \in Nat /\ n - 1 \in Nat /\ UpFrom <= n - 1
        <5>1. n \in Nat /\ n > UpFrom
          BY <3>2, LevelsType
        <5>. HIDE DEF n
        <5>. QED
          BY <3>1, <5>1
      <4>2. \A l \in UpstreamLevels : l \in Nat /\ ~(UpFrom < l /\ l <= n - 1)
        BY <3>1, <3>2, <4>1, LevelsType
      <4>3. FollowedUpTo[n - 1] = FollowedUpTo[UpFrom]
        BY <3>1, <4>1, <4>2, FollowedSkips
      <4>. QED
        BY <2>1, <3>1, <3>2, <4>3 DEF PositionInv
    <3>3. CASE NextStop = <<"passthrough", 0>> /\ \A l \in UpstreamLevels : ~(UpFrom < l)
      <4>1. FollowedUpTo[Depth] = FollowedUpTo[UpFrom]
        BY <3>1, <3>3, FollowedSkips
      <4>. QED
        BY <2>1, <3>1, <3>3, <4>1 DEF PositionInv, Followed
    <3>. QED
      BY <2>2, <3>2, <3>3, NextStopUp DEF TypeOK
  <2>3. CASE stage \in {"passthrough", "downstream", "disconnected"}
    <3>1. Added = {}
      BY <2>3 DEF Added
    <3>2. NextStop[1] \in {"downstream", "disconnected", "constraints"}
          /\ (NextStop[1] = "downstream" => NextStop[2] \in DownstreamLevels)
      BY <2>3, NextStopDown
    <3>. QED
      BY <2>1, <2>3, <3>1, <3>2 DEF PositionInv
  <2>. QED
    BY <1>4, <2>2, <2>3 DEF AdvanceStage, TypeOK, Stages
<1>. QED
  BY <1>1, <1>2, <1>3, <1>4 DEF Next, TaskStep, vars, StartRecreate, StartIncremental, Begin, Copy,
     TaskFails, RunFails, Crash, Abandon, AddConstraints, FinishIncremental, SourceChange

\* What the task of t reads.
Read(t, S) ==
    /\ t \in Tables /\ t \in StageTables /\ status[t] = "pending" /\ S \in RowChoices(t)
    /\ todo'[t] = S /\ status'[t] = IF S = {} THEN "done" ELSE "running"
    /\ \A u \in Tables \ {t} : todo'[u] = todo[u] /\ status'[u] = status[u]

\* What the task of t writes: a row of the table, which stays inserted if it
\* was, and whose origin is this stage if it was not there.
Wrote(t, r) ==
    /\ t \in Tables /\ t \in StageTables /\ status[t] = "running"
    /\ r \in todo[t] /\ r \in Live(snap) /\ r \in Rows /\ table_of[r] = t
    /\ DOMAIN dest' = Rows /\ DOMAIN origin' = Rows /\ DOMAIN delta' = Rows
    /\ dest'[r] = IF mode = "recreate" THEN Append(dest[r], Fetched(r)) ELSE <<Fetched(r)>>
    /\ Fetched(r) \in Images(r)
    /\ origin'[r] = IF Resident(r) THEN origin[r] ELSE stage
    /\ delta[r] = "inserted" => delta'[r] = "inserted"
    /\ (Resident(r) /\ delta'[r] = "inserted") => delta[r] = "inserted"
    /\ \A q \in Rows \ {r} : dest'[q] = dest[q] /\ delta'[q] = delta[q] /\ origin'[q] = origin[q]
    /\ todo'[t] = todo[t] \ {r} /\ status'[t] = IF todo[t] = {r} THEN "done" ELSE "running"
    /\ \A u \in Tables \ {t} : todo'[u] = todo[u] /\ status'[u] = status[u]

\* All that a run's place and its source are.
placeVars == <<snap, journal, built, mode, stage, level, processed, base>>

\* The rows a stage selects are of the table; where it matters they are not
\* there yet.
LEMMA ChoicesOfTable ==
    ASSUME TypeOK, NEW t \in StageTables, NEW S \in RowChoices(t), stage # "idle"
    PROVE  /\ S \subseteq RowsOf(t)
           /\ (stage = "upstream" /\ S # {}) => t \notin processed /\ Relevant(t) # {}
           /\ stage = "downstream" => \A r \in S : ~Resident(r)
<1>1. CASE stage = "direct"
  <2>1. t \in InitialTargetTables
    BY <1>1 DEF StageTables
  <2>2. PICK T \in Selections[t] : S = T \cap Live(snap)
    BY <1>1 DEF RowChoices, DirectRows
  <2>3. T \subseteq RowsOf(t)
    BY <2>1, <2>2, RowAssumption
  <2>. QED
    BY <1>1, <2>2, <2>3
<1>2. CASE stage = "upstream"
  <2>1. CASE Relevant(t) = {} \/ t \in processed
    BY <1>2, <2>1 DEF RowChoices
  <2>2. CASE Relevant(t) # {} /\ t \notin processed
    BY <1>2, <2>2 DEF RowChoices, UpstreamRows, PartlyLimited
  <2>. QED
    BY <2>1, <2>2
<1>3. CASE stage = "passthrough"
  BY <1>3 DEF RowChoices, Limited
<1>4. CASE stage = "downstream"
  BY <1>4 DEF RowChoices, DownstreamRows, MissingParents
<1>5. CASE stage = "disconnected"
  BY <1>5 DEF RowChoices
<1>. QED
  BY <1>1, <1>2, <1>3, <1>4, <1>5 DEF StageTables

\* A step of a task that begins is a reading.
LEMMA BeginReads ==
    ASSUME TypeOK, NEW t \in Tables, Begin(t)
    PROVE  /\ \E S : Read(t, S)
           /\ UNCHANGED placeVars /\ UNCHANGED <<dest, delta, origin>>
<1>1. PICK S \in RowChoices(t) :
          /\ todo' = [todo EXCEPT ![t] = S]
          /\ status' = [status EXCEPT ![t] = IF S = {} THEN "done" ELSE "running"]
  BY DEF Begin
<1>2. t \in StageTables /\ status[t] = "pending"
  BY DEF Begin, MayBegin, With
<1>3. DOMAIN todo = Tables /\ DOMAIN status = Tables
  BY DEF TypeOK
<1>4. Read(t, S)
  BY <1>1, <1>2, <1>3 DEF Read
<1>. QED
  BY <1>4 DEF Begin, placeVars

\* A step of a running task is a writing.
LEMMA CopyWrites ==
    ASSUME TypeOK, TodoIsLive, TaskInv, NEW t \in Tables, Copy(t)
    PROVE  /\ \E r \in Rows : Wrote(t, r)
           /\ UNCHANGED placeVars
<1>1. PICK r \in todo[t] :
          /\ Write(r)
          /\ origin' = IF Resident(r) THEN origin ELSE [origin EXCEPT ![r] = stage]
          /\ todo' = [todo EXCEPT ![t] = @ \ {r}]
          /\ status' = IF todo[t] = {r} THEN [status EXCEPT ![t] = "done"] ELSE status
  BY DEF Copy
<1>2. /\ t \in StageTables /\ status[t] = "running"
      /\ r \in Rows /\ table_of[r] = t /\ r \in Live(snap)
  BY DEF Copy, With, TaskInv, RowsOf, TodoIsLive
<1>3. /\ DOMAIN todo = Tables /\ DOMAIN status = Tables /\ DOMAIN origin = Rows
      /\ DOMAIN dest = Rows /\ DOMAIN delta = Rows /\ delta[r] \in {"none", "refreshed", "inserted"}
  BY <1>2 DEF TypeOK
<1>4. Fetched(r) \in Images(r)
  <2>1. snap[r] \in Images(r)
    BY <1>2 DEF TypeOK, IsDatabase
  <2>2. Redact(snap[r]) \in Images(r)
    BY <2>1 DEF Images, Redact
  <2>. QED
    BY <2>1, <2>2 DEF Fetched
<1>5. /\ DOMAIN dest' = Rows /\ DOMAIN delta' = Rows
      /\ dest'[r] = IF mode = "recreate" THEN Append(dest[r], Fetched(r)) ELSE <<Fetched(r)>>
      /\ delta[r] = "inserted" => delta'[r] = "inserted"
      /\ (Resident(r) /\ delta'[r] = "inserted") => delta[r] = "inserted"
      /\ \A q \in Rows \ {r} : dest'[q] = dest[q] /\ delta'[q] = delta[q]
  <2>1. CASE mode = "recreate"
    <3>1. dest' = [dest EXCEPT ![r] = Append(@, Fetched(r))] /\ delta' = delta
      BY <1>1, <2>1 DEF Write
    <3>. QED
      BY <1>2, <1>3, <2>1, <3>1
  <2>2. CASE mode # "recreate"
    <3>1. /\ dest' = [dest EXCEPT ![r] = <<Fetched(r)>>]
          /\ delta' = [delta EXCEPT ![r] = IF ~Resident(r) THEN "inserted"
                                           ELSE IF dest[r] = <<Fetched(r)>> \/ @ # "none" THEN @
                                           ELSE "refreshed"]
      BY <1>1, <2>2 DEF Write
    <3>. QED
      BY <1>2, <1>3, <2>2, <3>1
  <2>. QED
    BY <2>1, <2>2
<1>6. /\ DOMAIN origin' = Rows /\ origin'[r] = IF Resident(r) THEN origin[r] ELSE stage
      /\ \A q \in Rows \ {r} : origin'[q] = origin[q]
  BY <1>1, <1>2, <1>3
<1>7. /\ todo'[t] = todo[t] \ {r} /\ status'[t] = IF todo[t] = {r} THEN "done" ELSE "running"
      /\ \A u \in Tables \ {t} : todo'[u] = todo[u] /\ status'[u] = status[u]
  BY <1>1, <1>2, <1>3
<1>8. Wrote(t, r)
  BY <1>2, <1>4, <1>5, <1>6, <1>7 DEF Wrote
<1>. QED
  BY <1>2, <1>8 DEF Copy, placeVars

\* A run that is not at work has no rows to write.
Dry == \A t \in Tables : todo[t] = {} /\ status[t] = "pending"

\* Each task keeps to its table, its stage and its turn.
LEMMA TaskStepInv == TypeOK /\ TodoIsLive /\ TaskInv /\ [Next]_vars => TaskInv'
<1>. SUFFICES ASSUME TypeOK, TodoIsLive, TaskInv, [Next]_vars PROVE TaskInv'
  OBVIOUS
<1>1. ASSUME Dry' PROVE TaskInv'
  BY <1>1 DEF Dry, TaskInv
<1>2. ASSUME ResetTasks PROVE TaskInv'
  BY <1>1, <1>2 DEF ResetTasks, Dry
<1>3. ASSUME UNCHANGED placeVars PROVE /\ StageTables' = StageTables
                                      /\ \A t : Relevant(t)' = Relevant(t)
  BY <1>3 DEF StageTables, Relevant, placeVars
<1>4. ASSUME UNCHANGED placeVars, UNCHANGED <<dest, todo, status>> PROVE TaskInv'
  BY <1>3, <1>4 DEF TaskInv, Resident, placeVars
<1>5. ASSUME NEW t \in Tables, Begin(t) PROVE TaskInv'
  <2>1. PICK S : Read(t, S)
    BY <1>5, BeginReads
  <2>2. UNCHANGED placeVars /\ UNCHANGED <<dest, delta, origin>>
    BY <1>5, BeginReads
  <2>3. /\ S \subseteq RowsOf(t)
        /\ (stage = "upstream" /\ S # {}) => t \notin processed /\ Relevant(t) # {}
        /\ stage = "downstream" => \A r \in S : ~Resident(r)
    BY <2>1, ChoicesOfTable DEF Read, StageTables
  <2>. QED
    BY <1>3, <2>1, <2>2, <2>3 DEF TaskInv, Read, Resident, placeVars
<1>6. ASSUME NEW t \in Tables, Copy(t) PROVE TaskInv'
  <2>1. PICK r \in Rows : Wrote(t, r)
    BY <1>6, CopyWrites
  <2>2. UNCHANGED placeVars
    BY <1>6, CopyWrites
  <2>3. \A u \in Tables : r \notin todo'[u]
    BY <2>1 DEF Wrote, TaskInv, RowsOf
  <2>4. \A u \in Tables : todo'[u] \subseteq todo[u] /\ todo'[u] \subseteq Rows
    BY <2>1 DEF Wrote, TaskInv, RowsOf
  <2>5. \A q \in Rows \ {r} : dest'[q] = dest[q]
    BY <2>1 DEF Wrote
  <2>6. \A u \in Tables : /\ todo'[u] # {} => status'[u] = "running"
                          /\ status'[u] = "running" => status[u] = "running"
    BY <2>1 DEF Wrote, TaskInv
  <2>. QED
    BY <1>3, <2>2, <2>3, <2>4, <2>5, <2>6 DEF TaskInv, Resident, placeVars
<1>7. ASSUME NEW t \in Tables, TaskFails(t) PROVE TaskInv'
  <2>1. UNCHANGED placeVars /\ UNCHANGED dest
    BY <1>7 DEF TaskFails, placeVars
  <2>2. /\ todo'[t] = {} /\ status'[t] = "failed"
        /\ \A u \in Tables \ {t} : todo'[u] = todo[u] /\ status'[u] = status[u]
    BY <1>7 DEF TaskFails, TypeOK
  <2>. QED
    BY <1>3, <2>1, <2>2 DEF TaskInv, Resident, placeVars
<1>8. CASE SourceChange \/ UNCHANGED vars
  BY <1>4, <1>8 DEF SourceChange, vars, placeVars
<1>. QED
  BY <1>2, <1>5, <1>6, <1>7, <1>8 DEF Next, TaskStep, StartRecreate, StartIncremental, StartRun,
     AdvanceStage, RunFails, Crash, Abandon, AddConstraints, FinishIncremental

\* A write adds the fetched row to the copies of its row, or replaces them; what
\* is resident stays so.
LEMMA CopiesOfWritten ==
    ASSUME TypeOK, NEW t, NEW r, Wrote(t, r)
    PROVE  /\ Resident(r)' /\ \A q \in Rows : Resident(q) => Resident(q)'
           /\ \A q \in Rows \ {r} : Resident(q)' => Resident(q)
           /\ \A q \in Rows : \A i \in 1 .. Len(dest'[q]) :
                 \/ q = r /\ dest'[q][i] = Fetched(r)
                 \/ i \in 1 .. Len(dest[q]) /\ dest'[q][i] = dest[q][i]
<1>1. /\ r \in Rows /\ dest[r] \in Seq(AllImages)
      /\ dest'[r] = IF mode = "recreate" THEN Append(dest[r], Fetched(r)) ELSE <<Fetched(r)>>
      /\ \A q \in Rows \ {r} : dest'[q] = dest[q]
  BY DEF Wrote, TypeOK
<1>2. Fetched(r) \in AllImages
  BY DEF Wrote, AllImages
<1>3. /\ dest'[r] # <<>>
      /\ \A i \in 1 .. Len(dest'[r]) : \/ dest'[r][i] = Fetched(r)
                                       \/ i \in 1 .. Len(dest[r]) /\ dest'[r][i] = dest[r][i]
  <2>1. CASE mode = "recreate"
    <3>1. dest'[r] = Append(dest[r], Fetched(r))
      BY <1>1, <2>1
    <3>. QED
      BY <1>1, <1>2, <3>1
  <2>2. CASE mode # "recreate"
    <3>1. dest'[r] = <<Fetched(r)>>
      BY <1>1, <2>2
    <3>. QED
      BY <3>1
  <2>. QED
    BY <2>1, <2>2
<1>. QED
  BY <1>1, <1>3 DEF Resident

\* Every copy of a row, now and when the journal was opened, is an image the row
\* may have.
ImagesInv ==
    \A r \in Rows : /\ \A i \in 1 .. Len(dest[r]) : dest[r][i] \in Images(r)
                    /\ \A i \in 1 .. Len(base[r]) : base[r][i] \in Images(r)

\* Each step copies images of the row it writes.
LEMMA ImagesStep == TypeOK /\ TodoIsLive /\ TaskInv /\ ImagesInv /\ [Next]_vars => ImagesInv'
<1>. SUFFICES ASSUME TypeOK, TodoIsLive, TaskInv, ImagesInv, [Next]_vars PROVE ImagesInv'
  OBVIOUS
<1>1. ASSUME dest' = dest, base' = base \/ base' = dest PROVE ImagesInv'
  BY <1>1 DEF ImagesInv
<1>2. CASE StartRecreate
  BY <1>2 DEF StartRecreate, ImagesInv
<1>3. ASSUME NEW t \in Tables, Copy(t) PROVE ImagesInv'
  <2>1. PICK r \in Rows : Wrote(t, r)
    BY <1>3, CopyWrites
  <2>2. base' = base /\ Fetched(r) \in Images(r)
    BY <1>3, <2>1 DEF Copy, Wrote
  <2>. QED
    BY <2>1, <2>2, CopiesOfWritten DEF ImagesInv
<1>. QED
  BY <1>1, <1>2, <1>3 DEF Next, TaskStep, vars, StartIncremental, Begin, TaskFails, AdvanceStage,
     RunFails, Crash, Abandon, AddConstraints, FinishIncremental, SourceChange

\* All that the invariants below rest on.
RunInv == TypeOK /\ TodoIsLive /\ DInv /\ PositionInv /\ TaskInv /\ ImagesInv

\* A run is always at a place of the sequence, with tasks that keep to theirs.
THEOREM RunCorrect == Spec => []RunInv
<1>1. Init => RunInv
  BY TypeInit, DInvInit DEF Init, RunInv, PositionInv, TaskInv, ImagesInv
<1>2. RunInv /\ [Next]_vars => RunInv'
  BY TypeStep, DInvStep, PositionStep, TaskStepInv, ImagesStep DEF RunInv
<1>. QED
  BY <1>1, <1>2, PTL DEF Spec

\* The run is over; its journal is as it was, or gone.
Ended == /\ UNCHANGED <<dest, origin, mode, snap, base>> /\ stage' = "idle" /\ Dry'
         /\ journal' = "none" \/ UNCHANGED <<journal, delta>>

\* Nothing happens to the run.
Untouched == UNCHANGED placeVars /\ UNCHANGED <<dest, delta, origin, todo, status>>

\* The steps that leave the rows alone: what is not a start, a task or the
\* next stage only ends the run, or happens outside of it.
LEMMA QuietSteps ==
    ASSUME RunInv, [Next]_vars
    PROVE  \/ StartRecreate \/ \E m \in Incremental : StartIncremental(m)
           \/ \E t \in Tables : Begin(t) \/ Copy(t) \/ TaskFails(t)
           \/ AdvanceStage \/ Ended \/ Untouched
BY DEF Next, TaskStep, RunFails, Crash, Abandon, AddConstraints, FinishIncremental, ResetTasks,
   SourceChange, Dry, vars, placeVars, Ended, Untouched

----------------------------------------------------------------------------
(* Nothing is copied twice.                                                *)

\* What a table has been visited by stays, as long as its stage lasts.
LEMMA VisitedStays ==
    ASSUME UNCHANGED placeVars, NEW t, Visited(t), status[t] # "pending" => status'[t] # "pending"
    PROVE  Visited(t)'
BY DEF Visited, StageTables, Relevant, placeVars

\* The next stage starts from what the stages so far have visited.
LEMMA VisitedAdvances ==
    ASSUME RunInv, AdvanceStage, NEW t \in Tables, Visited(t) PROVE Visited(t)'
<1>1. stage' = NextStop[1] /\ processed' = processed \cup Added
  BY DEF AdvanceStage
<1>2. CASE stage = "direct" \/ stage = "upstream"
  <2>1. t \in processed'
    BY <1>1, <1>2 DEF Visited, Added, StageTables
  <2>2. stage' \in {"upstream", "passthrough"}
    BY <1>1, <1>2, NextStopUp DEF RunInv, TypeOK
  <2>3. stage' = "passthrough" => processed' = Followed
    BY PositionStep DEF RunInv, PositionInv, Next
  <2>. QED
    BY <2>1, <2>2, <2>3 DEF Visited
<1>3. CASE stage \in {"passthrough", "downstream", "disconnected"}
  <2>1. stage # "disconnected" => t \notin Disconnected
    BY <1>3, FollowedIsConnected, ConnectedClosed DEF Visited, Disconnected
  <2>2. /\ stage' \in {"downstream", "disconnected", "constraints"}
        /\ stage = "disconnected" => stage' = "constraints"
    BY <1>1, <1>3, NextStopDown
  <2>. QED
    BY <1>3, <2>1, <2>2 DEF Visited
<1>. QED
  BY <1>2, <1>3 DEF AdvanceStage, RunInv, TypeOK, Stages

\* The table of a task that may still begin has not been visited, unless the
\* task will not copy what is there.
LEMMA PendingIsUnvisited ==
    ASSUME RunInv, PassthroughApart, NEW t \in StageTables, status[t] = "pending",
           NEW S \in RowChoices(t), S # {}, stage \notin {"idle", "downstream"}
    PROVE  ~Visited(t)
<1>1. CASE stage = "direct"
  BY <1>1 DEF Visited
<1>2. CASE stage = "upstream"
  BY <1>2, ChoicesOfTable DEF Visited, RunInv
<1>3. CASE stage = "passthrough"
  BY <1>3 DEF Visited, PassthroughApart, StageTables
<1>4. CASE stage = "disconnected"
  BY <1>4 DEF Visited, StageTables
<1>. QED
  BY <1>1, <1>2, <1>3, <1>4 DEF StageTables

\* Every step copies at most what is not there.
LEMMA SingleStep ==
    ASSUME PassthroughApart, RunInv, SingleInv, [Next]_vars PROVE SingleInv'
<1>. USE DEF SingleInv
<1>1. CASE StartRecreate
  BY <1>1, RowAssumption DEF StartRecreate, StartRun, ResetTasks, SingleCopies, Resident
<1>2. ASSUME NEW m \in Incremental, StartIncremental(m) PROVE SingleInv'
  BY <1>2 DEF StartIncremental, StartRun, SingleCopies, Incremental
<1>3. ASSUME NEW t \in Tables, Begin(t) PROVE SingleInv'
  <2>1. PICK S : Read(t, S)
    BY <1>3, BeginReads DEF RunInv
  <2>2. UNCHANGED placeVars /\ UNCHANGED <<dest, delta, origin>>
    BY <1>3, BeginReads DEF RunInv
  <2>3. /\ S \subseteq RowsOf(t) /\ stage # "idle"
        /\ stage = "downstream" => \A r \in S : ~Resident(r)
    BY <2>1, ChoicesOfTable DEF Read, RunInv, StageTables
  <2>4. CASE mode = "recreate"
    <3>1. \A r \in S : ~Resident(r)
      BY <2>1, <2>3, <2>4, PendingIsUnvisited DEF Read, RowsOf
    <3>2. \A u \in Tables : \A r \in todo'[u] : ~Resident(r)'
      BY <2>1, <2>2, <2>4, <3>1 DEF Read, Resident
    <3>3. \A r \in Rows : Resident(r)' => Visited(table_of[r])'
      <4>1. \A u \in Tables : status[u] # "pending" => status'[u] # "pending"
        BY <2>1 DEF Read
      <4>2. \A u \in Tables : Visited(u) => Visited(u)'
        BY <2>2, <4>1, VisitedStays
      <4>3. \A r \in Rows : Resident(r)' = Resident(r) /\ table_of[r] \in Tables
        BY <2>2, RowAssumption DEF Resident
      <4>. QED
        BY <2>4, <4>2, <4>3
    <3>. QED
      BY <2>2, <3>2, <3>3 DEF SingleCopies
  <2>5. CASE mode # "recreate"
    BY <2>2, <2>5 DEF placeVars, SingleCopies
  <2>. QED
    BY <2>4, <2>5
<1>4. ASSUME NEW t \in Tables, Copy(t) PROVE SingleInv'
  <2>1. PICK r \in Rows : Wrote(t, r)
    BY <1>4, CopyWrites DEF RunInv
  <2>2. UNCHANGED placeVars
    BY <1>4, CopyWrites DEF RunInv
  <2>3. SingleCopies'
    <3>1. ASSUME NEW q \in Rows, q # r PROVE Len(dest'[q]) <= 1
      BY <2>1, <3>1 DEF Wrote, SingleCopies
    <3>2. Len(dest'[r]) <= 1
      <4>1. CASE mode = "recreate"
        BY <2>1, <4>1 DEF Wrote, Resident
      <4>2. CASE mode # "recreate"
        BY <2>1, <4>2 DEF Wrote
      <4>. QED
        BY <4>1, <4>2
    <3>. QED
      BY <3>1, <3>2 DEF SingleCopies
  <2>4. CASE mode = "recreate"
    <3>1. \A u \in Tables : todo'[u] \subseteq todo[u] /\ r \notin todo'[u] /\ todo'[u] \subseteq Rows
      BY <2>1 DEF Wrote, RunInv, TaskInv, RowsOf
    <3>2. \A u \in Tables : \A q \in todo'[u] : ~Resident(q)'
      BY <2>1, <2>4, <3>1 DEF Wrote, Resident
    <3>3. \A u \in Tables : Visited(u) => Visited(u)'
      <4>1. \A u \in Tables : status[u] # "pending" => status'[u] # "pending"
        BY <2>1 DEF Wrote
      <4>. QED
        BY <2>2, <4>1, VisitedStays
    <3>4. Visited(t)
      <4>1. t \in StageTables /\ status[t] = "running" /\ todo[t] # {}
        BY <2>1 DEF Wrote
      <4>2. stage = "upstream" => Relevant(t) # {}
        BY <2>1, <4>1 DEF RunInv, TaskInv
      <4>. QED
        BY <4>1, <4>2 DEF Visited, StageTables, DownstreamStratum
    <3>5. \A q \in Rows : Resident(q)' => Resident(q) \/ q = r
      BY <2>1 DEF Wrote, Resident
    <3>6. \A q \in Rows : table_of[q] \in Tables
      BY RowAssumption
    <3>7. table_of[r] = t
      BY <2>1 DEF Wrote
    <3>8. \A q \in Rows : Resident(q)' => Visited(table_of[q])'
      BY <2>4, <3>3, <3>4, <3>5, <3>6, <3>7
    <3>. QED
      BY <2>3, <3>2, <3>8
  <2>5. CASE mode # "recreate"
    BY <2>2, <2>3, <2>5 DEF placeVars
  <2>. QED
    BY <2>4, <2>5
<1>5. ASSUME NEW t \in Tables, TaskFails(t) PROVE SingleInv'
  <2>1. UNCHANGED placeVars /\ UNCHANGED dest
    BY <1>5 DEF TaskFails, placeVars
  <2>2. /\ \A u \in Tables : status[u] # "pending" => status'[u] # "pending"
        /\ \A u \in Tables : todo'[u] \subseteq todo[u]
    BY <1>5 DEF TaskFails, RunInv, TypeOK
  <2>3. \A u \in Tables : Visited(u) => Visited(u)'
    BY <2>1, <2>2, VisitedStays
  <2>. QED
    BY <2>1, <2>2, <2>3, RowAssumption DEF placeVars, Resident, SingleCopies
<1>6. CASE AdvanceStage
  <2>1. UNCHANGED <<dest, mode>> /\ \A u \in Tables : todo'[u] = {}
    BY <1>6 DEF AdvanceStage, ResetTasks
  <2>2. \A u \in Tables : Visited(u) => Visited(u)'
    BY <1>6, VisitedAdvances
  <2>. QED
    BY <2>1, <2>2, RowAssumption DEF Resident, SingleCopies
<1>7. CASE Ended
  BY <1>7 DEF Ended, Dry, Visited, SingleCopies, Resident
<1>8. CASE Untouched
  BY <1>8, VisitedStays, RowAssumption DEF Untouched, placeVars, SingleCopies, Resident
<1>. QED
  BY <1>1, <1>2, <1>3, <1>4, <1>5, <1>6, <1>7, <1>8, QuietSteps

\* When no passthrough table is followed, no row is copied twice in one run, and
\* no run duplicates what an earlier one brought: the unique keys can be built.
THEOREM NothingIsCopiedTwice == ASSUME PassthroughApart PROVE Spec => []NoDuplicateCopies
<1>1. Init => SingleInv
  BY DEF Init, SingleInv, SingleCopies, Resident
<1>2. RunInv /\ SingleInv /\ [Next]_vars => SingleInv'
  BY SingleStep
<1>3. SingleInv => NoDuplicateCopies
  BY DEF SingleInv, NoDuplicateCopies
<1>. QED
  BY <1>1, <1>2, <1>3, RunCorrect, PTL DEF Spec

----------------------------------------------------------------------------
(* Rows that are read again.                                               *)

\* When a stage is over, its tasks are done and nothing is left to write.
LEMMA StageIsOver ==
    ASSUME RunInv, AdvanceStage
    PROVE  /\ \A t \in StageTables : status[t] = "done"
           /\ \A t \in Tables : todo[t] = {}
           /\ UNCHANGED <<snap, dest, delta, origin, mode, journal, base, built>> /\ Dry'
           /\ \/ stage \in {"direct", "upstream"} /\ stage' \in {"upstream", "passthrough"}
              \/ /\ stage \in {"passthrough", "downstream", "disconnected"}
                 /\ stage' \in {"downstream", "disconnected", "constraints"}
                 /\ stage = "disconnected" => stage' = "constraints"
<1>1. With("done") = StageTables
  BY DEF AdvanceStage
<1>2. \A t \in StageTables : status[t] = "done"
  BY <1>1 DEF With
<1>3. \A t \in Tables : todo[t] = {}
  BY <1>2 DEF RunInv, TaskInv
<1>4. stage \in {"direct", "upstream"} => stage' \in {"upstream", "passthrough"}
  BY NextStopUp DEF RunInv, TypeOK, AdvanceStage
<1>5. stage \in {"passthrough", "downstream", "disconnected"} =>
         /\ stage' \in {"downstream", "disconnected", "constraints"}
         /\ stage = "disconnected" => stage' = "constraints"
  BY NextStopDown DEF AdvanceStage
<1>6. stage \in {"direct", "upstream", "passthrough", "downstream", "disconnected"}
  BY DEF AdvanceStage, RunInv, TypeOK, Stages
<1>. QED
  BY <1>2, <1>3, <1>4, <1>5, <1>6 DEF AdvanceStage, ResetTasks, Dry

\* A statement that may not be limited chooses every row it is to re-read.
LEMMA ReReadsAll ==
    ASSUME NEW t \in Tables, NEW S \in RowChoices(t), NEW r \in Live(snap), table_of[r] = t
    PROVE  /\ (stage = "direct" /\ AlwaysSelected(r)) => r \in S
           /\ (stage = "passthrough" /\ MaxRows = Unlimited) => r \in S
<1>1. CASE stage = "direct"
  BY <1>1 DEF RowChoices, DirectRows, AlwaysSelected
<1>2. CASE stage = "passthrough" /\ MaxRows = Unlimited
  BY <1>2 DEF RowChoices, Limited, RowsOf, Live
<1>. QED
  BY <1>1, <1>2

\* Each step leaves a row that is re-read with a reading, a writing, or a fresh
\* copy.
LEMMA FreshStep ==
    ASSUME RunInv, FreshInv, [Next]_vars PROVE FreshInv'
<1>. DEFINE Fresh(r) ==
        LET t == table_of[r] IN
        /\ AlwaysSelected(r) =>
              \/ stage = "direct" /\ (NotRead(t) \/ r \in todo[t])
              \/ dest[r] = <<Redact(snap[r])>>
        /\ t \in PassthroughTables =>
              \/ stage \in {"direct", "upstream"}
              \/ stage = "passthrough" /\ (NotRead(t) \/ r \in todo[t])
              \/ dest[r] = <<snap[r]>>
<1>1. ASSUME stage' # "idle" /\ mode' \in Incremental /\ MaxRows = Unlimited
                => \A r \in Live(snap)' : Fresh(r)'
      PROVE FreshInv'
  BY <1>1 DEF FreshInv
<1>2. CASE StartRecreate
  BY <1>2 DEF StartRecreate, StartRun, FreshInv, Incremental
<1>3. ASSUME NEW m \in Incremental, StartIncremental(m) PROVE FreshInv'
  BY <1>3, RowAssumption DEF StartIncremental, StartRun, ResetTasks, FreshInv, NotRead, Live
<1>4. ASSUME UNCHANGED placeVars, stage # "idle", mode \in Incremental, MaxRows = Unlimited,
             \A r \in Live(snap) : Fresh(r)'
      PROVE FreshInv'
  <2>1. Live(snap)' = Live(snap)
    BY <1>4 DEF placeVars, Live
  <2>. QED
    BY <1>1, <1>4, <2>1
<1>5. ASSUME NEW t \in Tables, Begin(t), stage # "idle", mode \in Incremental, MaxRows = Unlimited
      PROVE FreshInv'
  <2>1. PICK S : Read(t, S)
    BY <1>5, BeginReads DEF RunInv
  <2>2. UNCHANGED placeVars /\ UNCHANGED <<dest, delta, origin>>
    BY <1>5, BeginReads DEF RunInv
  <2>3. ASSUME NEW r \in Live(snap) PROVE Fresh(r)'
    <3>1. Fresh(r) /\ table_of[r] \in Tables
      BY <1>5, <2>3, RowAssumption DEF FreshInv, Live
    <3>2. CASE table_of[r] # t
      BY <2>1, <2>2, <3>1, <3>2 DEF Read, NotRead, AlwaysSelected, placeVars
    <3>3. CASE table_of[r] = t
      <4>1. /\ (stage = "direct" /\ AlwaysSelected(r)) => r \in todo'[t]
            /\ stage = "passthrough" => r \in todo'[t]
        BY <1>5, <2>1, <2>3, <3>3, ReReadsAll DEF Read
      <4>. QED
        BY <2>2, <3>1, <3>3, <4>1 DEF AlwaysSelected, placeVars
    <3>. QED
      BY <3>2, <3>3
  <2>. QED
    BY <1>4, <1>5, <2>2, <2>3
<1>6. ASSUME NEW t \in Tables, Copy(t), stage # "idle", mode \in Incremental, MaxRows = Unlimited
      PROVE FreshInv'
  <2>1. PICK q \in Rows : Wrote(t, q)
    BY <1>6, CopyWrites DEF RunInv
  <2>2. UNCHANGED placeVars
    BY <1>6, CopyWrites DEF RunInv
  <2>3. ASSUME NEW r \in Live(snap), r # q PROVE Fresh(r)'
    <3>1. Fresh(r) /\ table_of[r] \in Tables /\ r \in Rows
      BY <1>6, <2>3, RowAssumption DEF FreshInv, Live
    <3>2. dest'[r] = dest[r]
      BY <2>1, <2>3, <3>1 DEF Wrote
    <3>3. \A u \in Tables : (NotRead(u) => NotRead(u)') /\ (r \in todo[u] => r \in todo'[u])
      BY <2>1, <2>3 DEF Wrote, NotRead
    <3>. QED
      BY <2>2, <3>1, <3>2, <3>3 DEF AlwaysSelected, placeVars
  <2>4. q \in Live(snap) => Fresh(q)'
    <3>1. dest'[q] = <<Fetched(q)>> /\ table_of[q] = t /\ t \in StageTables
      BY <1>6, <2>1 DEF Wrote, Incremental
    <3>2. AlwaysSelected(q) => Fetched(q) = Redact(snap[q])
      <4>1. stage = "disconnected" => t \notin InitialTargetTables
        BY <3>1, ConnectedClosed DEF StageTables, Disconnected
      <4>2. stage = "passthrough" => t \in PassthroughTables
        BY <3>1 DEF StageTables
      <4>. QED
        BY <3>1, <4>1, <4>2 DEF AlwaysSelected, Fetched
    <3>3. t \in PassthroughTables =>
             stage \in {"direct", "upstream"} \/ (stage = "passthrough" /\ Fetched(q) = snap[q])
      <4>1. stage = "disconnected" => t \notin PassthroughTables
        BY <3>1, ConnectedClosed DEF StageTables, Disconnected
      <4>2. stage = "downstream" => t \notin PassthroughTables
        BY <3>1 DEF StageTables, DownstreamStratum
      <4>. QED
        BY <3>1, <4>1, <4>2 DEF StageTables, Fetched
    <3>. QED
      BY <2>2, <3>1, <3>2, <3>3 DEF AlwaysSelected, placeVars
  <2>. QED
    BY <1>4, <1>6, <2>2, <2>3, <2>4
<1>7. ASSUME NEW t \in Tables, TaskFails(t), stage # "idle", mode \in Incremental, MaxRows = Unlimited
      PROVE FreshInv'
  <2>1. UNCHANGED placeVars /\ UNCHANGED dest
    BY <1>7 DEF TaskFails, placeVars
  <2>2. /\ status'[t] = "failed"
        /\ \A u \in Tables \ {t} : todo'[u] = todo[u] /\ status'[u] = status[u]
    BY <1>7 DEF TaskFails, RunInv, TypeOK
  <2>3. ASSUME NEW r \in Live(snap) PROVE Fresh(r)'
    <3>1. Fresh(r) /\ table_of[r] \in Tables
      BY <1>7, <2>3, RowAssumption DEF FreshInv, Live
    <3>2. \A u \in Tables : /\ NotRead(u) => NotRead(u)'
                            /\ todo'[u] = todo[u] \/ NotRead(u)'
      BY <2>2 DEF NotRead
    <3>. QED
      BY <2>1, <3>1, <3>2 DEF AlwaysSelected, placeVars
  <2>. QED
    BY <1>4, <1>7, <2>1, <2>3
<1>8. CASE AdvanceStage /\ mode \in Incremental /\ MaxRows = Unlimited
  <2>1. stage # "idle" /\ Live(snap)' = Live(snap)
    BY <1>8 DEF AdvanceStage, Live
  <2>2. ASSUME NEW r \in Live(snap) PROVE Fresh(r)'
    <3>1. Fresh(r) /\ table_of[r] \in Tables
      BY <1>8, <2>1, <2>2, RowAssumption DEF FreshInv, Live
    <3>2. /\ AlwaysSelected(r) => dest[r] = <<Redact(snap[r])>>
          /\ table_of[r] \in PassthroughTables =>
                stage \in {"direct", "upstream"} \/ dest[r] = <<snap[r]>>
      <4>1. stage = "direct" /\ AlwaysSelected(r) => table_of[r] \in StageTables
        BY DEF StageTables, AlwaysSelected
      <4>2. stage = "passthrough" /\ table_of[r] \in PassthroughTables => table_of[r] \in StageTables
        BY DEF StageTables
      <4>. QED
        BY <1>8, <3>1, <4>1, <4>2, StageIsOver DEF NotRead
    <3>3. stage \in {"direct", "upstream"} =>
             stage' = "upstream" \/ (stage' = "passthrough" /\ NotRead(table_of[r])')
      BY <1>8, <3>1, StageIsOver DEF Dry, NotRead
    <3>4. UNCHANGED <<dest, snap>>
      BY <1>8, StageIsOver
    <3>. QED
      BY <3>2, <3>3, <3>4 DEF AlwaysSelected
  <2>. QED
    BY <1>1, <2>1, <2>2
<1>9. CASE stage' = "idle"
  BY <1>9 DEF FreshInv
<1>10. CASE Untouched
  BY <1>10 DEF Untouched, placeVars, FreshInv, NotRead, Live, AlwaysSelected
<1>11. CASE mode' \notin Incremental \/ MaxRows # Unlimited
  BY <1>11 DEF FreshInv
<1>. QED
  BY <1>2, <1>3, <1>5, <1>6, <1>7, <1>8, <1>9, <1>10, <1>11, QuietSteps
     DEF Begin, Copy, TaskFails, AdvanceStage, Ended

\* After an incremental run without a row limit, passthrough rows and rows
\* always selected in a target table say what the snapshot says.
THEOREM ReReadsAreFresh == Spec => []ReReadRowsFresh
<1>1. Init => FreshInv
  BY DEF Init, FreshInv
<1>2. RunInv /\ FreshInv /\ [Next]_vars => FreshInv'
  BY FreshStep
<1>3. RunInv /\ FreshInv => ReReadRowsFresh
  BY DEF FreshInv, ReReadRowsFresh, AlwaysSelected
<1>. QED
  BY <1>1, <1>2, <1>3, RunCorrect, PTL DEF Spec

----------------------------------------------------------------------------
(* The upstream phase copies only rows that their parents select.          *)

\* columns_to_copy keeps the columns of the relationships that are followed.
LEMMA RedactKeeps ==
    ASSUME TypeOK, NEW r \in Live(snap)
    PROVE  /\ Redact(snap[r]) \in Images(r) /\ snap[r] \in Images(r)
           /\ \A k \in Redacted : fk_table[k] = table_of[r] => Redact(snap[r])[k] = snap[r][k]
<1>1. snap[r] \in Images(r) /\ DOMAIN snap[r] = FksOf(table_of[r])
  BY DEF TypeOK, IsDatabase, Images
<1>2. Redact(snap[r]) \in Images(r)
  BY <1>1 DEF Images, Redact
<1>3. \A k \in Redacted : fk_table[k] = table_of[r] => k \in DOMAIN snap[r] /\ k \notin Nulled
  BY <1>1 DEF Redacted, Nulled, FksOf
<1>. QED
  BY <1>1, <1>2, <1>3 DEF Redact

\* A row that its parents select stays selected while no row is removed.
LEMMA SelectedStays ==
    ASSUME \A q \in Rows : Resident(q) => Resident(q)', NEW r \in Rows
    PROVE  WithParents(r) \subseteq WithParents(r)'
<1>1. \A c \in Images(r), k \in Redacted :
          fk_table[k] = table_of[r] => c[k] = Null \/ c[k] \in Rows
  BY DEF Images, FksOf, Redacted
<1>. QED
  BY <1>1 DEF SelectedByParents, WithParents

\* The tables the upstream phase copies are followed, and no targets.
LEMMA UpstreamCopiesFollowed ==
    ASSUME PositionInv, stage = "upstream", NEW t \in StageTables, t \notin processed,
           Relevant(t) # {}
    PROVE  t \in Followed \ InitialTargetTables
<1>1. InitialTargetTables \subseteq processed
  BY UpstreamPlace, FollowedRecursion, FollowedIsPlaced
<1>2. t \in FollowedUpTo[level]
  <2>1. FollowedUpTo[level] = FollowStep(level, processed)
    BY UpstreamPlace, FollowedRecursion
  <2>2. level \in UpstreamLevels
    BY DEF PositionInv
  <2>. QED
    BY <2>1, <2>2, UpstreamPlace DEF FollowStep, Relevant
<1>3. level \in 0 .. Depth
  BY UpstreamPlace
<1>. QED
  BY <1>1, <1>2, <1>3, FollowedIsConnected

\* What an upstream statement selects has its parents in the destination, for
\* every relationship that ever decides about the row.
LEMMA ChoiceHasParents ==
    ASSUME RunInv, stage = "upstream", NEW t \in StageTables, NEW S \in RowChoices(t), NEW r \in S
    PROVE  Redact(snap[r]) \in WithParents(r)
<1>1. t \notin processed /\ Relevant(t) # {} /\ S \in UpstreamRows(t)
  BY DEF RowChoices
<1>2. /\ r \in Live(snap) /\ table_of[r] = t
      /\ \A k \in Relevant(t) : snap[r][k] = Null \/ Matched(snap[r], k)
      /\ \E k \in Relevant(t) : Drives(snap[r], k)
  BY <1>1 DEF UpstreamRows, PartlyLimited, RowsOf
<1>3. Relevant(t) = {k \in Redacted : fk_table[k] = table_of[r] /\ target_table[k] \in Followed}
  BY <1>2, RelevantIsGoverning DEF Governing, RunInv
<1>4. \A k \in Relevant(t) : Redact(snap[r])[k] = snap[r][k]
  BY <1>2, <1>3, RedactKeeps DEF RunInv
<1>. QED
  BY <1>2, <1>3, <1>4, RedactKeeps DEF WithParents, SelectedByParents, Matched, Drives, RunInv

\* Each step leaves the rows of the upstream phase with their parents.
LEMMA SoundStep == ASSUME RunInv, SoundInv, [Next]_vars PROVE SoundInv'
<1>1. ASSUME UNCHANGED dest, NEW r \in Rows PROVE WithParents(r)' = WithParents(r)
  BY <1>1 DEF WithParents, SelectedByParents, Resident
<1>2. ASSUME UNCHANGED <<dest, origin>>, ChosenByParents' PROVE SoundInv'
  BY <1>1, <1>2 DEF SoundInv, ByUpstreamOnly
<1>3. CASE StartRecreate
  BY <1>3 DEF StartRecreate, StartRun, SoundInv, ChosenByParents
<1>4. ASSUME NEW m \in Incremental, StartIncremental(m) PROVE SoundInv'
  BY <1>2, <1>4 DEF StartIncremental, StartRun, ChosenByParents
<1>5. ASSUME NEW t \in Tables, Begin(t) PROVE SoundInv'
  <2>1. PICK S : Read(t, S)
    BY <1>5, BeginReads DEF RunInv
  <2>2. UNCHANGED placeVars /\ UNCHANGED <<dest, delta, origin>>
    BY <1>5, BeginReads DEF RunInv
  <2>3. ASSUME stage = "upstream", NEW u \in Tables, NEW r \in todo'[u]
        PROVE  Redact(snap[r]) \in WithParents(r) /\ r \in Rows
    <3>1. CASE u = t
      BY <2>1, <2>3, <3>1, ChoiceHasParents, ChoicesOfTable DEF Read, RowsOf, RunInv
    <3>2. CASE u # t
      BY <2>1, <2>3, <3>2 DEF Read, SoundInv, ChosenByParents, RunInv, TypeOK
    <3>. QED
      BY <3>1, <3>2
  <2>4. ChosenByParents'
    BY <1>1, <2>2, <2>3 DEF ChosenByParents, placeVars
  <2>. QED
    BY <1>2, <2>2, <2>4
<1>6. ASSUME NEW t \in Tables, Copy(t) PROVE SoundInv'
  <2>1. PICK q \in Rows : Wrote(t, q)
    BY <1>6, CopyWrites DEF RunInv
  <2>2. UNCHANGED placeVars
    BY <1>6, CopyWrites DEF RunInv
  <2>3. \A r \in Rows : WithParents(r) \subseteq WithParents(r)'
    BY <2>1, CopiesOfWritten, SelectedStays DEF RunInv
  <2>4. ChosenByParents'
    <3>1. \A u \in Tables : todo'[u] \subseteq todo[u] /\ todo[u] \subseteq Rows
      BY <2>1 DEF Wrote, RunInv, TypeOK
    <3>. QED
      BY <2>2, <2>3, <3>1 DEF placeVars, SoundInv, ChosenByParents
  <2>5. ASSUME stage = "upstream" PROVE t \in Followed \ InitialTargetTables
    BY <2>1, <2>5, UpstreamCopiesFollowed DEF Wrote, RunInv, TaskInv
  <2>6. \A r \in Rows : origin'[r] = "upstream" => ByUpstreamOnly(r)
    BY <2>1, <2>5 DEF Wrote, SoundInv, ByUpstreamOnly
  <2>7. ASSUME NEW r \in Rows, origin'[r] = "upstream", table_of[r] \notin PassthroughTables,
               NEW i \in 1 .. Len(dest'[r])
        PROVE  dest'[r][i] \in WithParents(r)'
    <3>1. \/ r = q /\ dest'[r][i] = Fetched(q)
          \/ i \in 1 .. Len(dest[r]) /\ dest'[r][i] = dest[r][i]
      BY <2>1, CopiesOfWritten DEF RunInv
    <3>2. CASE origin[r] = "upstream" /\ i \in 1 .. Len(dest[r]) /\ dest'[r][i] = dest[r][i]
      BY <2>3, <2>7, <3>2 DEF SoundInv
    <3>3. CASE r = q /\ dest'[r][i] = Fetched(q)
      <4>1. stage = "upstream"
        <5>1. r \in Rows /\ table_of[r] = t /\ t \in Followed \ InitialTargetTables
          BY <2>1, <2>6, <2>7, <3>3 DEF Wrote, ByUpstreamOnly
        <5>2. stage # "downstream" \/ ~Resident(q)
          BY <2>1 DEF Wrote, RunInv, TaskInv
        <5>. QED
          BY <2>1, <2>7, <3>3, <5>1, <5>2, FollowedIsConnected
             DEF Wrote, StageTables, Disconnected
      <4>. QED
        BY <2>1, <2>3, <3>3, <4>1 DEF Wrote, Fetched, SoundInv, ChosenByParents
    <3>4. CASE origin[r] # "upstream" /\ i \in 1 .. Len(dest[r]) /\ dest'[r][i] = dest[r][i]
      <4>1. r = q /\ ~Resident(r)
        BY <2>1, <2>7, <3>4 DEF Wrote
      <4>. QED
        BY <3>4, <4>1 DEF Resident
    <3>. QED
      BY <3>1, <3>2, <3>3, <3>4
  <2>. QED
    BY <2>4, <2>6, <2>7 DEF SoundInv, ByUpstreamOnly
<1>7. ASSUME NEW t \in Tables, TaskFails(t) PROVE SoundInv'
  <2>1. UNCHANGED placeVars /\ UNCHANGED <<dest, origin>>
    BY <1>7 DEF TaskFails, placeVars
  <2>2. \A u \in Tables : todo'[u] \subseteq todo[u] /\ todo[u] \subseteq Rows
    BY <1>7 DEF TaskFails, RunInv, TypeOK
  <2>3. ChosenByParents'
    BY <1>1, <2>1, <2>2 DEF placeVars, SoundInv, ChosenByParents
  <2>. QED
    BY <1>2, <2>1, <2>3
<1>8. CASE AdvanceStage
  BY <1>2, <1>8, StageIsOver DEF Dry, ChosenByParents
<1>9. CASE Ended
  BY <1>2, <1>9 DEF Ended, ChosenByParents
<1>10. CASE Untouched
  <2>1. \A u \in Tables : todo[u] \subseteq Rows
    BY DEF RunInv, TypeOK
  <2>. QED
    BY <1>1, <1>2, <1>10, <2>1 DEF Untouched, placeVars, SoundInv, ChosenByParents
<1>. QED
  BY <1>3, <1>4, <1>5, <1>6, <1>7, <1>8, <1>9, <1>10, QuietSteps

\* A row the upstream phase brought in keeps the parents it was selected by,
\* through every later stage, refresh, resumed run and mode.
THEOREM UpstreamIsSound == Spec => []UpstreamSound
<1>1. Init => SoundInv
  BY DEF Init, SoundInv, ChosenByParents
<1>2. RunInv /\ SoundInv /\ [Next]_vars => SoundInv'
  BY SoundStep
<1>3. SoundInv => UpstreamSound
  BY DEF SoundInv, UpstreamSound, WithParents
<1>. QED
  BY <1>1, <1>2, <1>3, RunCorrect, PTL DEF Spec

----------------------------------------------------------------------------
(* Topup runs hang what they insert from what they inserted.               *)

\* What an upstream statement of a topup run selects, a delta drives.
LEMMA ChoiceIsDriven ==
    ASSUME RunInv, stage = "upstream", mode = "topup",
           NEW t \in StageTables, NEW S \in RowChoices(t), NEW r \in S
    PROVE  Redact(snap[r]) \in Hanging(r)
<1>1. S \in UpstreamRows(t)
  BY DEF RowChoices
<1>2. /\ r \in Live(snap) /\ table_of[r] = t
      /\ \E k \in Relevant(t) : Drives(snap[r], k)
  BY <1>1 DEF UpstreamRows, PartlyLimited, RowsOf
<1>3. PICK k \in Relevant(t) : Drives(snap[r], k)
  BY <1>2
<1>4. k \in Redacted /\ k \in FksOf(table_of[r]) /\ fk_table[k] = table_of[r]
  BY <1>2, <1>3 DEF Relevant, FksOf, Redacted
<1>5. Redact(snap[r])[k] = snap[r][k] /\ Redact(snap[r]) \in Images(r)
  BY <1>2, <1>4, RedactKeeps DEF RunInv
<1>6. snap[r][k] # Null /\ delta[snap[r][k]] = "inserted"
  BY <1>3 DEF Drives, Matched, DeltaReads
<1>. QED
  BY <1>4, <1>5, <1>6 DEF Hanging

\* Each step of a journal's runs leaves what they inserted upstream hanging from
\* what they inserted.
LEMMA FrozenStep ==
    ASSUME PassthroughApart, RunInv, SoundInv, FrozenInv, [Next]_vars PROVE FrozenInv'
<1>1. ASSUME UNCHANGED delta, NEW r \in Rows PROVE Hanging(r)' = Hanging(r)
  BY <1>1 DEF Hanging
<1>2. ASSUME UNCHANGED <<dest, delta, origin, journal>>, stage' # "upstream" PROVE FrozenInv'
  BY <1>1, <1>2 DEF FrozenInv
<1>3. ASSUME journal' # "topup", stage' # "upstream" PROVE FrozenInv'
  BY <1>3 DEF FrozenInv
<1>4. CASE StartRecreate
  BY <1>3, <1>4 DEF StartRecreate, StartRun
<1>5. ASSUME NEW m \in Incremental, StartIncremental(m) PROVE FrozenInv'
  <2>1. UNCHANGED <<dest, delta, origin>> /\ stage' = "direct" /\ journal' = m
    BY <1>5 DEF StartIncremental, StartRun
  <2>2. CASE journal = "none"
    BY <2>1, <2>2 DEF FrozenInv, RunInv, DInv, NoStrayDeltas
  <2>3. CASE journal # "none"
    BY <1>2, <1>5, <2>1, <2>3 DEF StartIncremental
  <2>. QED
    BY <2>2, <2>3
<1>6. ASSUME NEW t \in Tables, Begin(t) PROVE FrozenInv'
  <2>1. PICK S : Read(t, S)
    BY <1>6, BeginReads DEF RunInv
  <2>2. UNCHANGED placeVars /\ UNCHANGED <<dest, delta, origin>>
    BY <1>6, BeginReads DEF RunInv
  <2>3. ASSUME stage = "upstream", mode = "topup", NEW u \in Tables, NEW r \in todo'[u]
        PROVE  Redact(snap[r]) \in Hanging(r) /\ r \in Rows
    <3>1. CASE u = t
      BY <2>1, <2>3, <3>1, ChoiceIsDriven, ChoicesOfTable DEF Read, RowsOf, RunInv
    <3>2. CASE u # t
      BY <2>1, <2>3, <3>2 DEF Read, FrozenInv, RunInv, TypeOK
    <3>. QED
      BY <3>1, <3>2
  <2>. QED
    BY <1>1, <2>2, <2>3 DEF FrozenInv, placeVars
<1>7. ASSUME NEW t \in Tables, Copy(t) PROVE FrozenInv'
  <2>1. PICK q \in Rows : Wrote(t, q)
    BY <1>7, CopyWrites DEF RunInv
  <2>2. UNCHANGED placeVars /\ stage # "idle"
    BY <1>7, <2>1, CopyWrites DEF RunInv, Wrote, StageTables
  <2>3. \A r \in Rows : Hanging(r) \subseteq Hanging(r)'
    <3>1. \A p \in Rows : delta[p] = "inserted" => delta'[p] = "inserted"
      BY <2>1 DEF Wrote
    <3>2. \A r \in Rows : \A c \in Images(r), k \in FksOf(table_of[r]) : c[k] = Null \/ c[k] \in Rows
      BY DEF Images
    <3>. QED
      BY <3>1, <3>2 DEF Hanging
  <2>4. ASSUME stage = "upstream", mode = "topup", NEW u \in Tables, NEW r \in todo'[u]
        PROVE  Redact(snap[r]) \in Hanging(r)'
    <3>1. todo'[u] \subseteq todo[u] /\ todo[u] \subseteq Rows
      BY <2>1 DEF Wrote, RunInv, TypeOK
    <3>. QED
      BY <2>3, <2>4, <3>1 DEF FrozenInv
  <2>5. ASSUME journal = "topup", NEW r \in Rows, delta'[r] = "inserted", origin'[r] = "upstream"
        PROVE  dest'[r][1] \in Hanging(r)'
    <3>1. mode = "topup"
      BY <2>2, <2>5 DEF RunInv, DInv, JournalOfRun
    <3>2. CASE r # q
      BY <2>1, <2>3, <2>5, <3>2 DEF Wrote, FrozenInv
    <3>3. CASE r = q
      <4>1. stage = "upstream"
        <5>1. Resident(q) => table_of[q] \in Followed \ InitialTargetTables /\ stage # "downstream"
          BY <2>1, <2>5, <3>3 DEF Wrote, SoundInv, ByUpstreamOnly, RunInv, TaskInv
        <5>2. ~Resident(q) => stage = "upstream"
          BY <2>1, <2>5, <3>3 DEF Wrote
        <5>. QED
          BY <2>1, <5>1, <5>2, FollowedIsConnected
             DEF Wrote, StageTables, Disconnected, PassthroughApart
      <4>2. dest'[q] = <<Redact(snap[q])>> /\ Redact(snap[q]) \in Hanging(q)
        BY <2>1, <3>1, <4>1 DEF Wrote, Fetched, FrozenInv
      <4>. QED
        BY <2>3, <3>3, <4>2
    <3>. QED
      BY <3>2, <3>3
  <2>. QED
    BY <2>2, <2>4, <2>5 DEF FrozenInv, placeVars
<1>8. ASSUME NEW t \in Tables, TaskFails(t) PROVE FrozenInv'
  <2>1. UNCHANGED placeVars /\ UNCHANGED <<dest, delta, origin>>
    BY <1>8 DEF TaskFails, placeVars
  <2>2. \A u \in Tables : todo'[u] \subseteq todo[u] /\ todo[u] \subseteq Rows
    BY <1>8 DEF TaskFails, RunInv, TypeOK
  <2>. QED
    BY <1>1, <2>1, <2>2 DEF FrozenInv, placeVars
<1>9. CASE AdvanceStage
  BY <1>1, <1>9, StageIsOver DEF Dry, FrozenInv
<1>10. CASE Ended
  BY <1>2, <1>3, <1>10 DEF Ended
<1>11. CASE Untouched
  <2>1. \A u \in Tables : todo[u] \subseteq Rows
    BY DEF RunInv, TypeOK
  <2>. QED
    BY <1>1, <1>11, <2>1 DEF Untouched, placeVars, FrozenInv
<1>. QED
  BY <1>4, <1>5, <1>6, <1>7, <1>8, <1>9, <1>10, <1>11, QuietSteps

\* In a topup run, a row the upstream phase inserted under the journal hangs from
\* a row inserted under it: entities of earlier runs stay frozen, through any
\* failures and resumes.
THEOREM EntitiesStayFrozen == ASSUME PassthroughApart PROVE Spec => []FrozenEntities
<1>1. Init => SoundInv /\ FrozenInv
  BY DEF Init, SoundInv, ChosenByParents, FrozenInv
<1>2. RunInv /\ SoundInv /\ FrozenInv /\ [Next]_vars => SoundInv' /\ FrozenInv'
  BY SoundStep, FrozenStep
<1>3. RunInv /\ FrozenInv => FrozenEntities
  BY DEF RunInv, DInv, JournalOfRun, FrozenInv, FrozenEntities, Hanging
<1>. QED
  BY <1>1, <1>2, <1>3, RunCorrect, PTL DEF Spec

----------------------------------------------------------------------------
(* The upstream phase copies every row that its parents select.            *)

\* Writing rows of another table than those a row hangs from does not make the
\* row owed.
LEMMA DueBefore ==
    ASSUME RunInv, NEW t, NEW q, Wrote(t, q), UNCHANGED placeVars, NEW r \in Rows, Due(r)',
           \A k \in Governing(table_of[r]) : target_table[k] # t
    PROVE  Due(r)
<1>1. r \in Live(snap)
  BY DEF Due, Live, placeVars
<1>2. \A k \in Governing(table_of[r]) : k \in DOMAIN snap[r]
  BY <1>1, RedactKeeps DEF RunInv, Images, Governing, Redacted, FksOf
<1>3. \A k \in Governing(table_of[r]) :
         snap[r][k] # Null => snap[r][k] \in Rows /\ snap[r][k] # q
  BY <1>1, <1>2, RedactKeeps DEF RunInv, Images, Wrote
<1>4. \A k \in Governing(table_of[r]) :
         snap[r][k] # Null => /\ dest'[snap[r][k]] = dest[snap[r][k]]
                              /\ delta'[snap[r][k]] = delta[snap[r][k]]
  BY <1>3 DEF Wrote
<1>. QED
  BY <1>4 DEF Due, SelectedByParents, Governing, ByUpstreamOnly, Resident, Live, placeVars

\* An upstream statement without a limit chooses every row of its table that is
\* owed.
LEMMA ChoiceIsComplete ==
    ASSUME RunInv, stage = "upstream", MaxRows = Unlimited, NEW t \in StageTables, t \notin processed,
           NEW S \in RowChoices(t), NEW r \in Rows, table_of[r] = t, Due(r)
    PROVE  r \in S
<1>1. /\ r \in Live(snap) \ Filtered
      /\ \A k \in Governing(t) : snap[r][k] = Null \/ Resident(snap[r][k])
      /\ \E k \in Governing(t) : snap[r][k] # Null /\ Resident(snap[r][k])
      /\ mode = "topup" =>
            \E k \in Governing(t) : snap[r][k] # Null /\ delta[snap[r][k]] = "inserted"
  BY DEF Due, SelectedByParents, Governing
<1>2. Relevant(t) = Governing(t)
  BY RelevantIsGoverning DEF RunInv
<1>3. \A k \in Governing(t) : snap[r][k] # Null => snap[r][k] \in RowsOf(target_table[k])
  <2>1. \A k \in Governing(t) : k \in DOMAIN snap[r]
    BY <1>1, RedactKeeps DEF RunInv, Images, Governing, Redacted, FksOf
  <2>. QED
    BY <1>1, <2>1, RedactKeeps DEF RunInv, Images, RowsOf
<1>4. \E k \in Governing(t) : Drives(snap[r], k)
  <2>1. CASE mode # "topup"
    BY <1>1, <2>1 DEF Drives, Matched, DeltaReads
  <2>2. CASE mode = "topup"
    <3>1. PICK k \in Governing(t) : snap[r][k] # Null /\ delta[snap[r][k]] = "inserted"
      BY <1>1, <2>2
    <3>2. Gained(target_table[k]) /\ Matched(snap[r], k)
      BY <1>1, <1>3, <3>1 DEF Gained, Matched
    <3>. QED
      BY <3>1, <3>2 DEF Drives
  <2>. QED
    BY <2>1, <2>2
<1>5. RowChoices(t) = {{p \in RowsOf(t) \cap Live(snap) :
          /\ p \notin Filtered
          /\ \A k \in Relevant(t) : snap[p][k] = Null \/ Matched(snap[p], k)
          /\ \E k \in Relevant(t) : Drives(snap[p], k)}}
  BY <1>2, <1>4 DEF RowChoices, UpstreamRows, PartlyLimited
<1>. QED
  BY <1>1, <1>2, <1>4, <1>5 DEF Matched, RowsOf

\* The tables of the upstream phase are no passthrough tables, so nothing is
\* being written to them when it is over.
LEMMA NoUpstreamTask ==
    ASSUME PassthroughApart, RunInv, stage = "passthrough", NEW t \in Followed
    PROVE  todo[t] = {}
BY FollowedIsConnected, ConnectedClosed DEF PassthroughApart, RunInv, TaskInv, StageTables

\* Each step leaves what is owed copied, or about to be.
LEMMA CompleteStep ==
    ASSUME PassthroughApart, RunInv, CompleteInv, [Next]_vars PROVE CompleteInv'
<1>. DEFINE Paid(r) == (Due(r) /\ Chosen(table_of[r])) => Resident(r) \/ r \in todo[table_of[r]]
            On == stage \in {"upstream", "passthrough"} /\ MaxRows = Unlimited
<1>1. (On' => \A r \in Rows : Paid(r)') => CompleteInv'
  BY DEF CompleteInv
<1>2. On => \A r \in Rows : Paid(r)
  BY DEF CompleteInv
<1>3. ASSUME UNCHANGED <<snap, dest, delta, mode>>, NEW r \in Rows
      PROVE  Due(r)' = Due(r) /\ Resident(r)' = Resident(r)
  BY <1>3 DEF Due, SelectedByParents, Governing, ByUpstreamOnly, Resident, Live
<1>4. \A r \in Rows : Due(r) => table_of[r] \in Followed \ InitialTargetTables
  BY DEF Due, ByUpstreamOnly
<1>5. CASE StartRecreate \/ \E m \in Incremental : StartIncremental(m)
  BY <1>5 DEF StartRecreate, StartIncremental, StartRun, CompleteInv
<1>6. ASSUME NEW t \in Tables, Begin(t), On PROVE CompleteInv'
  <2>1. PICK S : Read(t, S)
    BY <1>6, BeginReads DEF RunInv
  <2>2. UNCHANGED placeVars /\ UNCHANGED <<dest, delta, origin>>
    BY <1>6, BeginReads DEF RunInv
  <2>3. \A u \in Tables \ {t} : Chosen(u)' = Chosen(u) /\ todo'[u] = todo[u]
    BY <2>1, <2>2 DEF Read, Chosen, NotRead, StageTables, placeVars
  <2>4. ASSUME NEW r \in Rows PROVE Paid(r)'
    <3>1. Paid(r) /\ Due(r)' = Due(r) /\ Resident(r)' = Resident(r) /\ table_of[r] \in Tables
      BY <1>2, <1>3, <1>6, <2>2, RowAssumption DEF placeVars
    <3>2. CASE table_of[r] # t
      BY <2>3, <3>1, <3>2
    <3>3. CASE table_of[r] = t /\ Due(r)
      <4>1. stage = "upstream"
        BY <1>4, <1>6, <2>1, <3>3 DEF Read, StageTables, PassthroughApart
      <4>2. CASE t \in processed
        <5>1. todo[t] = {} /\ Chosen(t)
          BY <2>1, <4>1, <4>2 DEF Read, RunInv, TaskInv, Chosen
        <5>. QED
          BY <3>1, <3>3, <5>1
      <4>3. CASE t \notin processed
        <5>1. r \in S
          BY <1>6, <2>1, <3>3, <4>1, <4>3, ChoiceIsComplete DEF Read
        <5>. QED
          BY <2>1, <3>3, <5>1 DEF Read
      <4>. QED
        BY <4>2, <4>3
    <3>. QED
      BY <3>1, <3>2, <3>3
  <2>. QED
    BY <1>1, <2>4
<1>7. ASSUME NEW t \in Tables, Copy(t), On PROVE CompleteInv'
  <2>1. PICK q \in Rows : Wrote(t, q)
    BY <1>7, CopyWrites DEF RunInv
  <2>2. UNCHANGED placeVars
    BY <1>7, CopyWrites DEF RunInv
  <2>3. \A u \in Tables : Chosen(u)' = Chosen(u)
    BY <2>1, <2>2 DEF Wrote, Chosen, NotRead, StageTables, placeVars
  <2>4. ASSUME NEW r \in Rows, Due(r)', Chosen(table_of[r])'
        PROVE  Resident(r)' \/ r \in todo'[table_of[r]]
    <3>1. /\ table_of[r] \in Tables /\ Chosen(table_of[r])
          /\ table_of[r] \in Followed \ InitialTargetTables
      BY <2>3, <2>4, RowAssumption DEF Due, ByUpstreamOnly
    <3>2. \A k \in Governing(table_of[r]) : target_table[k] # t
      <4>1. CASE stage = "upstream"
        BY <2>1, <3>1, <4>1, ParentsAreNotInStage DEF Wrote, Chosen, RunInv
      <4>2. CASE stage = "passthrough"
        BY <2>1, <4>2 DEF Wrote, StageTables, Governing, PassthroughApart
      <4>. QED
        BY <1>7, <4>1, <4>2
    <3>3. Due(r)
      BY <2>1, <2>2, <2>4, <3>2, DueBefore
    <3>4. Resident(r) \/ r \in todo[table_of[r]]
      BY <1>2, <1>7, <3>1, <3>3
    <3>5. r # q => Resident(r)' \/ r \in todo'[table_of[r]]
      BY <2>1, <3>1, <3>4 DEF Wrote, Resident
    <3>. QED
      BY <2>1, <3>5, CopiesOfWritten DEF RunInv
  <2>. QED
    BY <1>1, <2>4
<1>8. ASSUME NEW t \in Tables, TaskFails(t), On PROVE CompleteInv'
  <2>1. UNCHANGED placeVars /\ UNCHANGED <<dest, delta>>
    BY <1>8 DEF TaskFails, placeVars
  <2>2. /\ todo'[t] = {} /\ status'[t] = "failed" /\ t \in StageTables
        /\ \A u \in Tables \ {t} : todo'[u] = todo[u] /\ status'[u] = status[u]
    BY <1>8 DEF TaskFails, MayBegin, With, RunInv, TypeOK
  <2>3. \A u \in Tables \ {t} : Chosen(u)' = Chosen(u)
    BY <2>1, <2>2 DEF Chosen, NotRead, StageTables, placeVars
  <2>4. ASSUME NEW r \in Rows PROVE Paid(r)'
    <3>1. Paid(r) /\ Due(r)' = Due(r) /\ Resident(r)' = Resident(r) /\ table_of[r] \in Tables
      BY <1>2, <1>3, <1>8, <2>1, RowAssumption DEF placeVars
    <3>2. CASE table_of[r] # t
      BY <2>2, <2>3, <3>1, <3>2
    <3>3. CASE table_of[r] = t /\ Due(r) /\ Chosen(t)'
      <4>1. stage = "upstream"
        BY <1>4, <1>8, <2>2, <3>3 DEF StageTables, PassthroughApart
      <4>2. t \in processed
        BY <2>1, <2>2, <3>3, <4>1 DEF Chosen, NotRead, placeVars
      <4>3. todo[t] = {} /\ Chosen(t)
        BY <4>1, <4>2 DEF RunInv, TaskInv, Chosen
      <4>. QED
        BY <3>1, <3>3, <4>3
    <3>. QED
      BY <3>1, <3>2, <3>3
  <2>. QED
    BY <1>1, <2>4
<1>9. CASE AdvanceStage
  <2>1. UNCHANGED <<snap, dest, delta, mode>> /\ \A t \in Tables : todo[t] = {}
    BY <1>9, StageIsOver
  <2>2. RunInv'
    BY TypeStep, DInvStep, PositionStep, TaskStepInv, ImagesStep DEF RunInv
  <2>3. ASSUME On', NEW r \in Rows, Due(r)', Chosen(table_of[r])' PROVE Resident(r)'
    <3>1. Due(r) /\ table_of[r] \in Followed \ InitialTargetTables /\ table_of[r] \in Tables
      BY <1>3, <1>4, <2>1, <2>3, RowAssumption
    <3>2. table_of[r] \in processed'
      <4>1. stage' = "upstream" => table_of[r] \in processed'
        BY <1>9, <2>3, <3>1, StageIsOver DEF Chosen, Dry, NotRead
      <4>2. stage' = "passthrough" => processed' = Followed
        BY <2>2 DEF RunInv, PositionInv
      <4>. QED
        BY <2>3, <3>1, <4>1, <4>2
    <3>3. stage = "upstream"
      <4>1. stage = "direct" => processed' = InitialTargetTables
        BY <1>9 DEF AdvanceStage, Added, RunInv, PositionInv
      <4>. QED
        BY <1>9, <2>3, <3>1, <3>2, <4>1, StageIsOver
    <3>4. Chosen(table_of[r])
      BY <1>9, <3>2, <3>3, StageIsOver DEF AdvanceStage, Added, Chosen, NotRead
    <3>5. Resident(r)
      BY <1>2, <2>1, <2>3, <3>1, <3>3, <3>4
    <3>. QED
      BY <1>3, <2>1, <3>5
  <2>. QED
    BY <1>1, <2>3
<1>10. CASE stage' \notin {"upstream", "passthrough"}
  BY <1>10 DEF CompleteInv
<1>11. CASE Untouched
  <2>1. \A t \in Tables : Chosen(t)' = Chosen(t)
    BY <1>11 DEF Untouched, Chosen, NotRead, StageTables, placeVars
  <2>2. \A r \in Rows : /\ Due(r)' = Due(r) /\ Resident(r)' = Resident(r) /\ table_of[r] \in Tables
                        /\ todo' = todo
    BY <1>3, <1>11, RowAssumption DEF Untouched, placeVars
  <2>3. On' = On
    BY <1>11 DEF Untouched, placeVars
  <2>. QED
    BY <1>1, <1>2, <2>1, <2>2, <2>3
<1>12. CASE MaxRows # Unlimited
  BY <1>12 DEF CompleteInv
<1>13. \A t \in Tables : Begin(t) \/ Copy(t) \/ TaskFails(t) => stage' = stage
  BY DEF Begin, Copy, TaskFails
<1>. QED
  BY <1>5, <1>6, <1>7, <1>8, <1>9, <1>10, <1>11, <1>12, <1>13, QuietSteps DEF Ended

\* What the upstream phase leaves behind, in either way of reading parents.
THEOREM CompleteInvariant == ASSUME PassthroughApart PROVE Spec => []CompleteInv
<1>1. Init => CompleteInv
  BY DEF Init, CompleteInv
<1>2. RunInv /\ CompleteInv /\ [Next]_vars => CompleteInv'
  BY CompleteStep
<1>. QED
  BY <1>1, <1>2, RunCorrect, PTL DEF Spec

\* At the end of the upstream phase of a recreate or grow run without a row
\* limit, every source row the AND semantics select is in the destination.
THEOREM UpstreamIsComplete == ASSUME PassthroughApart PROVE Spec => []UpstreamComplete
<1>1. RunInv /\ CompleteInv => UpstreamComplete
  <2>. SUFFICES ASSUME RunInv, CompleteInv, stage = "passthrough", mode # "topup", MaxRows = Unlimited,
                       NEW r \in Live(snap) \ Filtered, ByUpstreamOnly(r),
                       SelectedByParents(r, snap[r])
                PROVE  Resident(r)
    BY DEF UpstreamComplete
  <2>1. r \in Rows /\ Due(r) /\ Chosen(table_of[r])
    BY DEF Live, Due, Chosen
  <2>2. todo[table_of[r]] = {}
    BY NoUpstreamTask DEF ByUpstreamOnly
  <2>. QED
    BY <2>1, <2>2 DEF CompleteInv
<1>. QED
  BY <1>1, RunCorrect, CompleteInvariant, PTL

\* And of a topup run, every child, of rows inserted under the journal, that
\* the AND semantics select.
THEOREM TopupIsComplete == ASSUME PassthroughApart PROVE Spec => []TopupComplete
<1>1. RunInv /\ CompleteInv => TopupComplete
  <2>. SUFFICES ASSUME RunInv, CompleteInv, stage = "passthrough", mode = "topup", MaxRows = Unlimited,
                       NEW r \in Live(snap) \ Filtered, ByUpstreamOnly(r),
                       SelectedByParents(r, snap[r]),
                       NEW k \in Governing(table_of[r]), snap[r][k] # Null,
                       delta[snap[r][k]] = "inserted"
                PROVE  Resident(r)
    BY DEF TopupComplete, Governing
  <2>1. r \in Rows /\ Due(r) /\ Chosen(table_of[r])
    BY DEF Live, Due, Chosen
  <2>2. todo[table_of[r]] = {}
    BY NoUpstreamTask DEF ByUpstreamOnly
  <2>. QED
    BY <2>1, <2>2 DEF CompleteInv
<1>. QED
  BY <1>1, RunCorrect, CompleteInvariant, PTL
=============================================================================
