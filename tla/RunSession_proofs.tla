-------------------------- MODULE RunSession_proofs --------------------------
(***************************************************************************)
(* Proofs about RunSession, for all plans, tables, pool sizes and bounds.  *)
(*                                                                         *)
(* The safety properties follow from three invariants, each inductive      *)
(* together with the type: ConnInv (which connections the session has, and *)
(* that a lock needs one), SnapInv (who sees the exported snapshot) and    *)
(* BlameInv (what has raised, and where tables may still be at work).      *)
(* The end of a run: some thread can always go on, but for psql, and each  *)
(* step leaves less to do. LockInv says when psql may find a table locked. *)
(***************************************************************************)
EXTENDS RunSession, FiniteSetTheorems, TLAPS

TaskStates == {"idle", "queued", "opened", "imported", "copying", "done", "failed"}

\* No table has a worker that is at work or still to start.
Quiet == \A t \in Tables : task[t] \in {"idle", "done", "failed"}

ConnInv ==
    /\ at # "opening" => open = owned
    /\ at \notin {"opening", "closing", "ended"} => owned = Session
    /\ at = "ended" => owned = {}
    /\ locked => "dest" \in owned

SnapInv ==
    /\ at = "opening" => reads = {} /\ \A t \in Tables : task[t] = "idle"
    /\ at = "opening" /\ exported = NoVersion => open \subseteq {"source", "dest"}
    /\ sees["source"] = exported
    /\ \A r \in owned \cap PoolReaders : sees[r] = exported
    /\ \A t \in Tables : task[t] \in {"imported", "copying"} => sees[t] = exported
    /\ OneSnapshot

BlameInv ==
    /\ at \notin {"copying", "finishing", "closing", "ended"} => Quiet
    /\ at \in {"opening", "preparing", "pre-sql", "constraints", "post-sql"} => ~broke
    /\ at = "copying" /\ broke => raised \/ \E t \in Tables : task[t] = "failed"
    /\ raised => at = "copying" /\ interrupts >= 1
    /\ result = "succeeded" => at \in {"finishing", "closing", "ended"} /\ ~broke /\ Quiet
    /\ (interrupts <= 1 /\ at \notin {"opening", "preparing", "copying"}) => Quiet

\* The code's two ways of saying that the pool has run dry.
LEMMA QuietIsDry == TypeOK => (Pending = {} <=> Quiet)
  BY DEF TypeOK, Pending, Queued, AtWork, Connecting, Quiet

----------------------------------------------------------------------------
(* Type correctness.                                                       *)

\* The next stage is typed, whatever the plan says.
LEMMA EnterType ==
    ASSUME TypeOK, NEW n \in Nat \ {0}, Enter(n)
    PROVE  /\ stage' \in Nat /\ left' \subseteq Tables /\ at' \in {"copying", "pre-sql"}
           /\ task' \in [Tables -> TaskStates]
<1>1. n <= Len(plan) => plan[n] \in Stage
  BY SessionAssumption DEF TypeOK
<1>. QED
  BY <1>1 DEF Enter, Stage, TaskStates

\* The initial states are of the type.
LEMMA TypeInit == Init => TypeOK
<1>. SUFFICES ASSUME Init PROVE TypeOK
  OBVIOUS
<1>1. sees \in [Readers \cup Tables -> Nat \cup {NoVersion}]
      /\ task \in [Tables -> TaskStates]
  BY DEF Init, TaskStates
<1>2. 0 \in 0 .. MaxInterrupts
  BY SessionAssumption
<1>. QED
  BY <1>1, <1>2 DEF Init, TypeOK, Places, TaskStates

\* Every step keeps the type.
LEMMA TypeStep == TypeOK /\ ConnInv /\ [Next]_vars => TypeOK'
<1>. SUFFICES ASSUME TypeOK, ConnInv, [Next]_vars PROVE TypeOK'
  OBVIOUS
<1>. USE DEF TypeOK, conns, copying, ending, world
<1>1. CASE UNCHANGED vars
  BY <1>1 DEF vars
<1>2. ASSUME NEW c \in {"source", "dest"}, OpenMain(c) PROVE TypeOK'
  BY <1>2 DEF OpenMain, Session
<1>3. CASE Export
  BY <1>3 DEF Export, Readers
<1>4. ASSUME NEW r \in PoolReaders, OpenReader(r) \/ ImportReader(r) PROVE TypeOK'
  <2>1. r \in Session /\ r \in Readers
    BY DEF Session, Readers
  <2>2. CASE OpenReader(r)
    BY <2>1, <2>2 DEF OpenReader
  <2>3. CASE ImportReader(r)
    <3>1. /\ sees' \in [Readers \cup Tables -> Nat \cup {NoVersion}]
          /\ owned' \subseteq open'
      BY <2>1, <2>3 DEF ImportReader
    <3>. QED
      BY <2>3, <3>1 DEF ImportReader
  <2>. QED
    BY <1>4, <2>2, <2>3
<1>5. CASE Opened
  BY <1>5 DEF Opened, Places
<1>6. CASE Prepare
  <2>1. Enter(1) /\ stage' \in Nat /\ left' \subseteq Tables /\ at' \in Places
        /\ task' \in [Tables -> TaskStates]
    BY <1>6, EnterType DEF Prepare, Places
  <2>. QED
    BY <1>6, <2>1 DEF Prepare, TaskStates
<1>7. ASSUME NEW t \in Tables, MainCopies(t) PROVE TypeOK'
  <2>1. reads' \subseteq Nat \cup {NoVersion} /\ locked' \in BOOLEAN
    BY <1>7 DEF MainCopies, LockAfter, Readers
  <2>. QED
    BY <1>7, <2>1 DEF MainCopies
<1>8. CASE EndStage
  <2>1. stage' \in Nat /\ left' \subseteq Tables /\ at' \in Places
        /\ task' \in [Tables -> TaskStates]
    <3>1. stage + 1 \in Nat \ {0} /\ Enter(stage + 1)
      BY <1>8 DEF EndStage
    <3>. QED
      BY <3>1, EnterType DEF Places
  <2>. QED
    BY <1>8, <2>1 DEF EndStage, TaskStates
<1>9. CASE StageFails \/ StepFails \/ FinishFails \/ Finish
  BY <1>9 DEF StageFails, StepFails, FinishFails, Finish, Raise, Places
<1>10. CASE PreSql \/ AddConstraints \/ PostSql \/ End
  BY <1>10 DEF PreSql, AddConstraints, PostSql, End, Places
<1>11. ASSUME NEW c \in Session, Close(c) PROVE TypeOK'
  BY <1>11 DEF Close
<1>12. ASSUME NEW t \in Tables, WorkerStep(t) \/ WorkerReads(t) \/ ConnectFails(t) \/ WorkerFails(t)
       PROVE  TypeOK'
  <2>1. CASE WorkerStep(t)
    <3>1. CASE OpenWorker(t) \/ Connect(t) \/ WorkerEnds(t)
      BY <3>1 DEF OpenWorker, Connect, WorkerEnds
    <3>2. CASE Import(t)
      BY <3>2 DEF Import
    <3>. QED
      BY <2>1, <3>1, <3>2 DEF WorkerStep
  <2>2. CASE WorkerReads(t)
    BY <2>2 DEF WorkerReads
  <2>3. CASE ConnectFails(t) \/ WorkerFails(t)
    BY <2>3 DEF ConnectFails, WorkerFails
  <2>. QED
    BY <1>12, <2>1, <2>2, <2>3
<1>13. CASE OpenFails
  BY <1>13 DEF OpenFails, Raise, Places
<1>14. CASE Interrupt
  <2>1. at' \in Places /\ raised' \in BOOLEAN /\ broke' \in BOOLEAN
        /\ result' \in {"none", "succeeded", "failed"} /\ open' \in {open, owned}
    BY <1>14 DEF Interrupt, Raise, Places
  <2>2. interrupts' \in 0 .. MaxInterrupts
    BY <1>14, SessionAssumption DEF Interrupt
  <2>. QED
    BY <1>14, <2>1, <2>2 DEF Interrupt
<1>15. CASE SourceChange
  BY <1>15 DEF SourceChange
<1>. QED
  BY <1>1, <1>2, <1>3, <1>4, <1>5, <1>6, <1>7, <1>8, <1>9, <1>10, <1>11, <1>12, <1>13, <1>14,
     <1>15 DEF Next, MainStep, Failure
----------------------------------------------------------------------------
(* Connections.                                                            *)

\* No connection is open at first.
LEMMA ConnInit == Init => ConnInv
  BY DEF Init, ConnInv

\* Every step accounts for the connections it opens and closes.
LEMMA ConnStep == TypeOK /\ ConnInv /\ [Next]_vars => ConnInv'
<1>. SUFFICES ASSUME TypeOK, ConnInv, [Next]_vars PROVE ConnInv'
  OBVIOUS
<1>. USE DEF ConnInv, conns, copying, ending, world
<1>1. CASE UNCHANGED vars
  BY <1>1 DEF vars
<1>2. ASSUME NEW c \in {"source", "dest"}, OpenMain(c) PROVE ConnInv'
  BY <1>2 DEF OpenMain
<1>3. CASE Export
  BY <1>3 DEF Export
<1>4. ASSUME NEW r \in PoolReaders, OpenReader(r) \/ ImportReader(r) PROVE ConnInv'
  BY <1>4 DEF OpenReader, ImportReader
<1>5. CASE Opened
  <2>1. open = owned
    BY <1>5 DEF Opened, TypeOK
  <2>. QED
    BY <1>5, <2>1 DEF Opened
<1>6. CASE Prepare
  BY <1>6 DEF Prepare, Enter
<1>7. ASSUME NEW t \in Tables, MainCopies(t) PROVE ConnInv'
  <2>1. "dest" \in owned
    BY <1>7 DEF MainCopies, Session
  <2>. QED
    BY <1>7, <2>1 DEF MainCopies
<1>8. CASE EndStage
  BY <1>8 DEF EndStage, Enter
<1>9. CASE StageFails \/ StepFails \/ FinishFails \/ Finish
  BY <1>9 DEF StageFails, StepFails, FinishFails, Finish, Raise
<1>10. CASE PreSql \/ AddConstraints \/ PostSql \/ End
  BY <1>10 DEF PreSql, AddConstraints, PostSql, End
<1>11. ASSUME NEW c \in Session, Close(c) PROVE ConnInv'
  BY <1>11 DEF Close
<1>12. ASSUME NEW t \in Tables, WorkerStep(t) \/ WorkerReads(t) \/ ConnectFails(t) \/ WorkerFails(t)
       PROVE  ConnInv'
  BY <1>12 DEF WorkerStep, WorkerReads, ConnectFails, WorkerFails, OpenWorker, Import,
               Connect, WorkerEnds
<1>13. CASE OpenFails
  BY <1>13 DEF OpenFails, Raise
<1>14. CASE Interrupt
  BY <1>14 DEF Interrupt, Raise, PoolWaits
<1>15. CASE SourceChange
  BY <1>15 DEF SourceChange
<1>. QED
  BY <1>1, <1>2, <1>3, <1>4, <1>5, <1>6, <1>7, <1>8, <1>9, <1>10, <1>11, <1>12, <1>13, <1>14,
     <1>15 DEF Next, MainStep, Failure

----------------------------------------------------------------------------
(* Snapshots.                                                              *)

\* Nobody has read yet.
LEMMA SnapInit == Init => SnapInv
  BY DEF Init, SnapInv, OneSnapshot, Readers

\* No step lets a reader see or copy anything but the exported snapshot.
LEMMA SnapStep == TypeOK /\ ConnInv /\ SnapInv /\ [Next]_vars => SnapInv'
<1>. SUFFICES ASSUME TypeOK, ConnInv, SnapInv, [Next]_vars PROVE SnapInv'
  OBVIOUS
<1>. USE DEF SnapInv, OneSnapshot, conns, copying, ending, world
<1>0. /\ "source" \notin PoolReaders /\ "dest" \notin PoolReaders
      /\ \A t \in Tables : t # "source" /\ t \notin PoolReaders
      /\ Readers \cup Tables = DOMAIN sees /\ "source" \in Readers
      /\ PoolReaders \subseteq Readers /\ DOMAIN task = Tables /\ owned \subseteq open
  BY SessionAssumption DEF TypeOK, Session, Readers
<1>1. CASE UNCHANGED vars
  BY <1>1 DEF vars
<1>2. ASSUME NEW c \in {"source", "dest"}, OpenMain(c) PROVE SnapInv'
  BY <1>0, <1>2 DEF OpenMain
<1>3. CASE Export
  BY <1>0, <1>3 DEF Export
<1>4. ASSUME NEW r \in PoolReaders, OpenReader(r) PROVE SnapInv'
  BY <1>0, <1>4 DEF OpenReader
<1>5. ASSUME NEW r \in PoolReaders, ImportReader(r) PROVE SnapInv'
  BY <1>0, <1>5 DEF ImportReader
<1>6. CASE Opened
  BY <1>6 DEF Opened
<1>7. CASE Prepare
  BY <1>7 DEF Prepare, Enter
<1>8. ASSUME NEW t \in Tables, MainCopies(t) PROVE SnapInv'
  <2>1. owned = Session
    BY <1>8 DEF MainCopies, ConnInv
  <2>2. {sees[c] : c \in Readers} = {exported}
    BY <2>1 DEF Session, Readers
  <2>. QED
    BY <1>8, <2>2 DEF MainCopies
<1>9. CASE EndStage
  BY <1>9 DEF EndStage, Enter
<1>10. CASE StageFails \/ StepFails \/ FinishFails \/ Finish
  BY <1>10 DEF StageFails, StepFails, FinishFails, Finish, Raise
<1>11. CASE PreSql \/ AddConstraints \/ PostSql \/ End
  BY <1>11 DEF PreSql, AddConstraints, PostSql, End
<1>12. ASSUME NEW c \in Session, Close(c) PROVE SnapInv'
  BY <1>12 DEF Close
<1>13. ASSUME NEW t \in Tables, Import(t) PROVE SnapInv'
  BY <1>0, <1>13 DEF Import
<1>14. ASSUME NEW t \in Tables,
              OpenWorker(t) \/ Connect(t) \/ WorkerEnds(t) \/ ConnectFails(t) \/ WorkerFails(t)
       PROVE  SnapInv'
  BY <1>0, <1>14 DEF OpenWorker, Connect, WorkerEnds, ConnectFails, WorkerFails
<1>15. ASSUME NEW t \in Tables, WorkerReads(t) PROVE SnapInv'
  BY <1>15 DEF WorkerReads
<1>16. CASE OpenFails
  BY <1>16 DEF OpenFails, Raise
<1>17. CASE Interrupt
  BY <1>17 DEF Interrupt, Raise, PoolWaits
<1>18. CASE SourceChange
  BY <1>18 DEF SourceChange
<1>. QED
  BY <1>1, <1>2, <1>3, <1>4, <1>5, <1>6, <1>7, <1>8, <1>9, <1>10, <1>11, <1>12, <1>13, <1>14,
     <1>15, <1>16, <1>17, <1>18 DEF Next, MainStep, WorkerStep, Failure

----------------------------------------------------------------------------
(* What has raised, and who is still at work.                              *)

\* Nothing has raised yet, and nobody is at work.
LEMMA BlameInit == Init => BlameInv
  BY DEF Init, BlameInv, Quiet

\* Every step that raises ends in failure, and the pool runs dry before the
\* traversal is left.
LEMMA BlameStep == TypeOK /\ SnapInv /\ BlameInv /\ [Next]_vars => BlameInv'
<1>. SUFFICES ASSUME TypeOK, SnapInv, BlameInv, [Next]_vars PROVE BlameInv'
  OBVIOUS
<1>. USE DEF BlameInv, conns, copying, ending, world
<1>0. /\ Pending = {} <=> Quiet
      /\ task \in [Tables -> TaskStates] /\ interrupts \in Nat
      /\ raised \in BOOLEAN /\ broke \in BOOLEAN
      /\ Failed = {} <=> \A t \in Tables : task[t] # "failed"
  BY QuietIsDry DEF TypeOK, TaskStates, Failed
<1>1. CASE UNCHANGED vars
  BY <1>1 DEF vars, Quiet
<1>2. ASSUME task' = task, UNCHANGED <<at, raised, broke, result, interrupts>> PROVE BlameInv'
  BY <1>2 DEF Quiet
<1>3. ASSUME NEW c \in {"source", "dest"}, OpenMain(c) PROVE BlameInv'
  BY <1>2, <1>3 DEF OpenMain
<1>4. CASE Export
  BY <1>2, <1>4 DEF Export
<1>5. ASSUME NEW r \in PoolReaders, OpenReader(r) \/ ImportReader(r) PROVE BlameInv'
  BY <1>2, <1>5 DEF OpenReader, ImportReader
<1>6. CASE Opened
  BY <1>6 DEF Opened, Quiet
<1>7. CASE Prepare
  <2>1. at' = "copying" \/ (at' = "pre-sql" /\ \A t \in Tables : task'[t] = "idle")
    BY <1>7 DEF Prepare, Enter
  <2>. QED
    BY <1>7, <2>1 DEF Prepare, Quiet
<1>8. ASSUME NEW t \in Tables, MainCopies(t) PROVE BlameInv'
  BY <1>2, <1>8 DEF MainCopies
<1>9. CASE EndStage
  <2>1. at' = "copying" \/ (at' = "pre-sql" /\ \A t \in Tables : task'[t] = "idle")
    BY <1>9 DEF EndStage, Enter
  <2>2. ~broke /\ ~raised /\ result # "succeeded" /\ UNCHANGED <<raised, broke, result, interrupts>>
    BY <1>0, <1>9 DEF EndStage
  <2>. QED
    BY <2>1, <2>2 DEF Quiet
<1>10. CASE StageFails
  BY <1>0, <1>10 DEF StageFails, Raise, Quiet
<1>11. CASE StepFails \/ FinishFails \/ Finish
  <2>1. CASE StepFails
    BY <2>1 DEF StepFails, Raise, Quiet
  <2>2. CASE FinishFails
    BY <2>2 DEF FinishFails, Raise, Quiet
  <2>3. CASE Finish
    BY <2>3 DEF Finish, Quiet
  <2>. QED
    BY <1>11, <2>1, <2>2, <2>3
<1>12. CASE PreSql \/ AddConstraints \/ PostSql \/ End
  BY <1>12 DEF PreSql, AddConstraints, PostSql, End, Quiet
<1>13. ASSUME NEW c \in Session, Close(c) PROVE BlameInv'
  BY <1>13 DEF Close, Quiet
<1>14. ASSUME NEW t \in Tables, WorkerStep(t) \/ ConnectFails(t) \/ WorkerFails(t)
       PROVE  BlameInv'
  <2>1. ~Quiet /\ at \in {"copying", "finishing", "closing", "ended"} /\ result # "succeeded"
        /\ UNCHANGED <<at, raised, result, interrupts>>
    BY <1>14 DEF WorkerStep, ConnectFails, WorkerFails, OpenWorker, Import, Connect,
                 WorkerEnds, Quiet
  <2>2. \/ broke' = broke /\ \A u \in Tables : task[u] = "failed" => task'[u] = "failed"
        \/ task'[t] = "failed"
    BY <1>0, <1>14 DEF WorkerStep, ConnectFails, WorkerFails, OpenWorker, Import, Connect,
                 WorkerEnds
  <2>. QED
    BY <2>1, <2>2
<1>15. ASSUME NEW t \in Tables, WorkerReads(t) PROVE BlameInv'
  BY <1>2, <1>15 DEF WorkerReads
<1>16. CASE OpenFails
  BY <1>16 DEF OpenFails, Raise, Quiet
<1>17. CASE Interrupt
  <2>1. task' = task /\ interrupts' = interrupts + 1 /\ interrupts \in Nat
    BY <1>0, <1>17 DEF Interrupt
  <2>2. CASE PoolWaits /\ raised' = TRUE /\ UNCHANGED <<at, open, result>>
    BY <2>1, <2>2 DEF PoolWaits, Quiet
  <2>3. CASE Raise("closing") /\ UNCHANGED raised /\ at \in {"opening", "finishing", "closing"}
    BY <2>1, <2>3 DEF Raise, Quiet
  <2>4. CASE /\ Raise("finishing") /\ raised' = FALSE /\ ~PoolWaits
             /\ at \in {"preparing", "copying", "pre-sql", "constraints", "post-sql"}
    <3>1. Quiet \/ interrupts >= 1
      BY <1>0, <2>4 DEF PoolWaits
    <3>. QED
      BY <2>1, <2>4, <3>1 DEF Raise, Quiet
  <2>. QED
    BY <1>17, <2>2, <2>3, <2>4 DEF Interrupt
<1>18. CASE SourceChange
  BY <1>2, <1>18 DEF SourceChange
<1>. QED
  BY <1>1, <1>3, <1>4, <1>5, <1>6, <1>7, <1>8, <1>9, <1>10, <1>11, <1>12, <1>13, <1>14,
     <1>15, <1>16, <1>17, <1>18 DEF Next, MainStep, Failure

----------------------------------------------------------------------------
(* The theorems.                                                           *)

\* All of it is an invariant of every run, whatever fails or interrupts it.
LEMMA Invariants == Spec => [](TypeOK /\ ConnInv /\ SnapInv /\ BlameInv)
<1>1. Init => TypeOK /\ ConnInv /\ SnapInv /\ BlameInv
  BY TypeInit, ConnInit, SnapInit, BlameInit
<1>2. TypeOK /\ ConnInv /\ SnapInv /\ BlameInv /\ [Next]_vars
      => TypeOK' /\ ConnInv' /\ SnapInv' /\ BlameInv'
  BY TypeStep, ConnStep, SnapStep, BlameStep
<1>. QED
  BY <1>1, <1>2, PTL DEF Spec

\* Every variable keeps its type.
THEOREM TypeCorrect == Spec => []TypeOK
  BY Invariants, PTL

\* Everything a run copies comes from the one snapshot it exported.
THEOREM ReadsOneSnapshot == Spec => []OneSnapshot
<1>1. SnapInv => OneSnapshot
  BY DEF SnapInv
<1>. QED
  BY <1>1, Invariants, PTL

\* Unless a second interrupt breaks the wait for the pool, nobody is at work
\* once the traversal has ended.
THEOREM PoolsRunDryFirst == Spec => []FinishesAlone
<1>1. TypeOK /\ BlameInv => FinishesAlone
  BY QuietIsDry DEF BlameInv, FinishesAlone
<1>. QED
  BY <1>1, Invariants, PTL

\* A run that has ended has closed all it opened.
THEOREM ConnectionsAreReleased == Spec => []AllReleased
<1>1. ConnInv => AllReleased
  BY DEF ConnInv, AllReleased
<1>. QED
  BY <1>1, Invariants, PTL

\* No part of a successful run has raised.
THEOREM SuccessMeansNoError == Spec => []SuccessIsEarned
<1>1. BlameInv => SuccessIsEarned
  BY DEF BlameInv, SuccessIsEarned
<1>. QED
  BY <1>1, Invariants, PTL

----------------------------------------------------------------------------
(* The end of a run: the parts of EndsUnlessStuck that are not about       *)
(* fairness.                                                               *)

\* Guards of the steps that fairness is about: those of the main thread, place
\* by place, and those of a table worker.
MainCanGoOn ==
    \/ at = "opening" /\ ("source" \notin owned \/ "dest" \notin owned)
    \/ at = "opening" /\ {"source", "dest"} \subseteq owned /\ exported = NoVersion
    \/ /\ at = "opening" /\ exported # NoVersion /\ open = owned
       /\ \E r \in PoolReaders : r \notin open
    \/ at = "opening" /\ \E r \in PoolReaders : r \in open \ owned
    \/ at = "opening" /\ owned = Session /\ exported # NoVersion
    \/ at = "copying" /\ Pending = {} /\ (raised \/ Failed # {} \/ left # {})
    \/ at = "copying" /\ Pending = {} /\ ~raised /\ Failed = {} /\ left = {}
    \/ at = "constraints" /\ ~locked
    \/ at \in {"preparing", "pre-sql", "post-sql", "finishing"}
    \/ at = "closing" /\ (owned = {} \/ \E c \in Session : c \in owned)

WorkerCanGoOn(t) ==
    \/ task[t] = "queued" /\ Cardinality(AtWork) < TableWorkers
    \/ task[t] = "opened" /\ "source" \in open
    \/ task[t] \in {"imported", "copying"}

\* A run is never at a standstill before its end, whatever has failed or was
\* interrupted: no reader half-way in, no pool with room that starts nobody, no
\* snapshot that can no longer be imported. The one exception is psql.
THEOREM OnlyPsqlSticks ==
    Spec => [](at # "ended" => Stuck \/ MainCanGoOn \/ \E t \in Tables : WorkerCanGoOn(t))
<1>1. ASSUME TypeOK, ConnInv, at # "ended", ~MainCanGoOn,
             \A t \in Tables : ~WorkerCanGoOn(t)
      PROVE  Stuck
  <2>1. at # "opening"
    <3>. SUFFICES ASSUME at = "opening" PROVE FALSE
      OBVIOUS
    <3>1. {"source", "dest"} \subseteq owned /\ exported # NoVersion /\ owned # Session
      BY <1>1 DEF MainCanGoOn
    <3>2. owned \subseteq open /\ open \subseteq Session
      BY <1>1 DEF TypeOK
    <3>3. PICK c \in Session : c \notin owned
      BY <3>1, <3>2
    <3>4. c \in PoolReaders
      BY <3>1, <3>3 DEF Session
    <3>5. CASE open = owned
      BY <1>1, <3>1, <3>3, <3>4, <3>5 DEF MainCanGoOn
    <3>6. CASE open # owned
      <4>1. PICK r \in Session : r \in open \ owned
        BY <3>2, <3>6
      <4>2. r \in PoolReaders
        BY <3>1, <4>1 DEF Session
      <4>. QED
        BY <1>1, <4>1, <4>2 DEF MainCanGoOn
    <3>. QED
      BY <3>5, <3>6
  <2>2. at # "copying"
    <3>. SUFFICES ASSUME at = "copying" PROVE FALSE
      OBVIOUS
    <3>1. "source" \in open
      BY <1>1 DEF ConnInv, Session
    <3>2. AtWork = {}
      BY <1>1, <3>1 DEF WorkerCanGoOn, AtWork, Connecting
    <3>3. Queued = {}
      <4>1. Cardinality(AtWork) < TableWorkers
        <5>1. Cardinality({}) = 0
          BY FS_EmptySet
        <5>. QED
          BY <3>2, <5>1, SessionAssumption
      <4>. QED
        BY <1>1, <4>1 DEF WorkerCanGoOn, Queued
    <3>4. Pending = {}
      BY <3>2, <3>3 DEF Pending
    <3>. QED
      BY <1>1, <3>4 DEF MainCanGoOn, TypeOK
  <2>3. at # "closing"
    <3>1. owned \subseteq Session
      BY <1>1 DEF TypeOK
    <3>. QED
      BY <1>1, <3>1 DEF MainCanGoOn
  <2>4. at = "constraints"
    BY <1>1, <2>1, <2>2, <2>3 DEF TypeOK, Places, MainCanGoOn
  <2>. QED
    BY <1>1, <2>4 DEF MainCanGoOn, Stuck, TypeOK
<1>2. TypeOK /\ ConnInv
      => (at # "ended" => Stuck \/ MainCanGoOn \/ \E t \in Tables : WorkerCanGoOn(t))
  BY <1>1
<1>. QED
  BY <1>2, Invariants, PTL

\* Tables of stage m that the main thread has behind it.
Behind(m) == IF at = "copying" /\ m = stage THEN plan[m].main \ left ELSE plan[m].main

\* Stage n is what the locks come from: an upstream stage, and nothing that the
\* main thread has copied in a later one has committed.
TookLocks(n) ==
    /\ plan[n].phase = "upstream" /\ plan[n].main # {}
    /\ \A m \in 1 .. Len(plan) :
          n < m /\ m <= stage => \A t \in Behind(m) : ~Commits(t, plan[m])

Traversing == at \in {"copying", "pre-sql", "constraints"}

\* Where the main thread is in the plan, and what has taken the locks.
LockInv ==
    /\ at = "copying" => stage \in 1 .. Len(plan) /\ left \subseteq plan[stage].main
    /\ at \in {"pre-sql", "constraints"} => stage = Len(plan) + 1
    /\ at \in {"opening", "preparing"} => ~locked
    /\ at = "constraints" => ~incremental
    /\ Traversing /\ locked => \E n \in 1 .. Len(plan) : n <= stage /\ TookLocks(n)

\* The locks stay with the stage they come from as long as nothing that commits
\* is added to what the main thread has behind it.
LEMMA LockKept ==
    ASSUME TypeOK, LockInv, Traversing, locked,
           UNCHANGED <<plan, incremental>>, stage' \in {stage, stage + 1},
           \A m \in 1 .. Len(plan) : \A t \in Behind(m)' :
              m <= stage' => (m <= stage /\ t \in Behind(m)) \/ ~Commits(t, plan[m])
    PROVE  \E n \in 1 .. Len(plan)' : n <= stage' /\ TookLocks(n)'
<1>1. PICK n \in 1 .. Len(plan) : n <= stage /\ TookLocks(n)
  BY DEF LockInv
<1>2. stage \in Nat /\ Len(plan) \in Nat
  BY SessionAssumption DEF TypeOK
<1>3. ASSUME NEW m \in 1 .. Len(plan), n < m, m <= stage', NEW t \in Behind(m)'
      PROVE  ~Commits(t, plan[m])
  BY <1>1, <1>3 DEF TookLocks
<1>4. ASSUME NEW m \in 1 .. Len(plan), n < m, m <= stage', NEW t \in Behind(m)'
      PROVE  ~Commits(t, plan[m])'
  BY <1>3, <1>4 DEF Commits
<1>5. TookLocks(n)'
  BY <1>1, <1>4 DEF TookLocks
<1>. QED
  BY <1>1, <1>2, <1>5

\* Only a table of an upstream stage that the main thread copies leaves it with
\* locks that it had not before, and one that commits leaves it without.
LEMMA LockStep == TypeOK /\ LockInv /\ [Next]_vars => LockInv'
<1>. SUFFICES ASSUME TypeOK, LockInv, [Next]_vars PROVE LockInv'
  OBVIOUS
<1>. USE DEF conns, copying, ending, world
<1>0. stage \in Nat /\ Len(plan) \in Nat
  BY SessionAssumption DEF TypeOK
<1>1. CASE Prepare
  <2>1. ~locked' /\ plan' = plan /\ Enter(1)
    BY <1>1 DEF Prepare, LockInv
  <2>2. CASE 1 <= Len(plan)
    BY <1>0, <2>1, <2>2 DEF Enter, LockInv
  <2>3. CASE ~(1 <= Len(plan))
    BY <1>0, <2>1, <2>3 DEF Enter, LockInv
  <2>. QED
    BY <2>2, <2>3
<1>2. CASE EndStage
  <2>1. /\ at = "copying" /\ left = {} /\ Enter(stage + 1) /\ stage \in 1 .. Len(plan)
        /\ UNCHANGED <<plan, incremental, locked>>
    BY <1>2 DEF EndStage, LockInv
  <2>2. /\ stage' = stage + 1 /\ at' \in {"copying", "pre-sql"}
        /\ at' = "copying" => stage' \in 1 .. Len(plan) /\ left' = plan[stage'].main
        /\ at' = "pre-sql" => stage' = Len(plan) + 1
    BY <1>0, <2>1 DEF Enter
  <2>3. ASSUME NEW m \in 1 .. Len(plan), NEW t \in Behind(m)', m <= stage'
        PROVE  m <= stage /\ t \in Behind(m)
    <3>1. m # stage'
      BY <2>1, <2>2, <2>3 DEF Behind
    <3>2. m <= stage
      BY <1>0, <2>2, <2>3, <3>1
    <3>. QED
      BY <2>1, <2>3, <3>1, <3>2 DEF Behind
  <2>4. locked => \E n \in 1 .. Len(plan)' : n <= stage' /\ TookLocks(n)'
    BY <2>1, <2>2, <2>3, LockKept DEF Traversing
  <2>. QED
    BY <2>1, <2>2, <2>4 DEF LockInv
<1>3. ASSUME NEW u \in Tables, MainCopies(u) PROVE LockInv'
  <2>1. /\ stage \in 1 .. Len(plan) /\ left \subseteq plan[stage].main /\ u \in left
        /\ UNCHANGED <<plan, incremental, at, stage>> /\ left' = left \ {u}
        /\ locked' \in LockAfter(u, plan[stage]) /\ at = "copying"
    BY <1>3 DEF MainCopies, LockInv
  <2>2. ASSUME locked' PROVE \E n \in 1 .. Len(plan)' : n <= stage' /\ TookLocks(n)'
    <3>1. CASE plan[stage].phase = "upstream"
      <4>1. TookLocks(stage)'
        BY <1>0, <2>1, <3>1 DEF TookLocks
      <4>. QED
        BY <1>0, <2>1, <4>1
    <3>2. CASE plan[stage].phase # "upstream"
      <4>1. locked /\ ~Commits(u, plan[stage])
        BY <2>1, <2>2, <3>2 DEF LockAfter
      <4>2. ASSUME NEW m \in 1 .. Len(plan), NEW t \in Behind(m)', m <= stage'
            PROVE  (m <= stage /\ t \in Behind(m)) \/ ~Commits(t, plan[m])
        BY <2>1, <4>1, <4>2 DEF Behind
      <4>. QED
        BY <2>1, <4>1, <4>2, LockKept DEF Traversing
    <3>. QED
      BY <3>1, <3>2
  <2>. QED
    BY <2>1, <2>2 DEF LockInv
<1>4. ASSUME UNCHANGED <<plan, incremental, at, stage, left>>, locked' => locked PROVE LockInv'
  <2>1. ASSUME locked', Traversing'
        PROVE  \E n \in 1 .. Len(plan)' : n <= stage' /\ TookLocks(n)'
    <3>1. locked /\ Traversing
      BY <1>4, <2>1 DEF Traversing
    <3>2. \A m \in 1 .. Len(plan) : Behind(m)' = Behind(m)
      BY <1>4 DEF Behind
    <3>. QED
      BY <1>4, <3>1, <3>2, LockKept
  <2>. QED
    BY <1>4, <2>1 DEF LockInv
<1>5. CASE PreSql
  <2>1. /\ at = "pre-sql" /\ at' \in {"constraints", "post-sql"}
        /\ at' = "constraints" => ~incremental
        /\ UNCHANGED <<plan, incremental, stage, left, locked>>
    BY <1>5 DEF PreSql
  <2>2. locked => \E n \in 1 .. Len(plan)' : n <= stage' /\ TookLocks(n)'
    <3>1. \A m \in 1 .. Len(plan) : Behind(m)' = Behind(m)
      BY <2>1 DEF Behind
    <3>. QED
      BY <2>1, <3>1, LockKept DEF Traversing
  <2>. QED
    BY <2>1, <2>2 DEF LockInv
<1>6. ASSUME at' \in Places \ {"opening", "preparing", "copying", "pre-sql", "constraints"}
      PROVE  LockInv'
  BY <1>6 DEF LockInv, Traversing
<1>7. CASE Opened
  BY <1>7 DEF Opened, LockInv, Traversing
<1>8. CASE AddConstraints \/ PostSql \/ End \/ StageFails \/ StepFails \/ OpenFails \/ Finish
           \/ FinishFails
  <2>1. at' \in Places \ {"opening", "preparing", "copying", "pre-sql", "constraints"}
    BY <1>8 DEF AddConstraints, PostSql, End, StageFails, StepFails, OpenFails, Finish,
       FinishFails, Raise, Places
  <2>. QED
    BY <1>6, <2>1
<1>9. CASE Export \/ SourceChange \/ UNCHANGED vars
  BY <1>4, <1>9 DEF Export, SourceChange, vars
<1>10. CASE Interrupt
  <2>1. CASE at' = at
    BY <1>4, <1>10, <2>1 DEF Interrupt
  <2>2. CASE at' # at
    <3>1. at' \in {"finishing", "closing"}
      BY <1>10, <2>2 DEF Interrupt, Raise
    <3>. QED
      BY <1>6, <3>1 DEF Places
  <2>. QED
    BY <2>1, <2>2
<1>11. ASSUME NEW c \in Session, Close(c) PROVE LockInv'
  BY <1>4, <1>11 DEF Close
<1>12. ASSUME NEW c \in {"source", "dest"}, OpenMain(c) PROVE LockInv'
  BY <1>4, <1>12 DEF OpenMain
<1>13. ASSUME NEW r \in PoolReaders, OpenReader(r) \/ ImportReader(r) PROVE LockInv'
  BY <1>4, <1>13 DEF OpenReader, ImportReader
<1>14. ASSUME NEW t \in Tables, WorkerStep(t) \/ WorkerReads(t) \/ ConnectFails(t) \/ WorkerFails(t)
       PROVE  LockInv'
  BY <1>4, <1>14 DEF WorkerStep, WorkerReads, ConnectFails, WorkerFails, OpenWorker, Import,
                     Connect, WorkerEnds
<1>. QED
  BY <1>1, <1>2, <1>3, <1>5, <1>7, <1>8, <1>9, <1>10, <1>11, <1>12, <1>13, <1>14
     DEF Next, MainStep, Failure

\* psql is only ever stuck in a recreate run that has copied an upstream table
\* on the main thread, and after that none whose copy is sure to commit: a
\* disconnected one, or a downstream one that others refer to. Incremental runs
\* end, and so does every run whose upstream tables all have workers.
THEOREM StuckAfterUpstream ==
    Spec => [](Stuck =>
        /\ ~incremental
        /\ \E n \in 1 .. Len(plan) :
              /\ plan[n].phase = "upstream" /\ plan[n].main # {}
              /\ \A m \in n + 1 .. Len(plan) : \A t \in plan[m].main : ~Commits(t, plan[m]))
<1>1. Init => LockInv
  BY DEF Init, LockInv, Traversing
<1>2. ASSUME TypeOK, LockInv, Stuck
      PROVE  /\ ~incremental
             /\ \E n \in 1 .. Len(plan) :
                   /\ plan[n].phase = "upstream" /\ plan[n].main # {}
                   /\ \A m \in n + 1 .. Len(plan) : \A t \in plan[m].main : ~Commits(t, plan[m])
  <2>1. ~incremental /\ at = "constraints" /\ stage = Len(plan) + 1 /\ Len(plan) \in Nat
    BY <1>2, SessionAssumption DEF LockInv, Stuck, TypeOK
  <2>2. PICK n \in 1 .. Len(plan) : TookLocks(n)
    BY <1>2 DEF LockInv, Stuck, Traversing
  <2>3. ASSUME NEW m \in n + 1 .. Len(plan), NEW t \in plan[m].main PROVE ~Commits(t, plan[m])
    <3>1. m \in 1 .. Len(plan) /\ n < m /\ m <= stage /\ t \in Behind(m)
      BY <2>1, <2>3 DEF Behind
    <3>. QED
      BY <2>2, <3>1 DEF TookLocks
  <2>. QED
    BY <2>1, <2>2, <2>3 DEF TookLocks
<1>. QED
  BY <1>1, <1>2, LockStep, TypeCorrect, PTL DEF Spec

\* The way of the main thread, and of a table.
PlaceRank(place) ==
    CASE place = "opening"     -> 0
      [] place = "preparing"   -> 1
      [] place = "copying"     -> 2
      [] place = "pre-sql"     -> 3
      [] place = "constraints" -> 4
      [] place = "post-sql"    -> 5
      [] place = "finishing"   -> 6
      [] place = "closing"     -> 7
      [] OTHER                 -> 8

TaskRank(state) ==
    CASE state = "idle"     -> 0
      [] state = "queued"   -> 1
      [] state = "opened"   -> 2
      [] state = "imported" -> 3
      [] state = "copying"  -> 4
      [] OTHER              -> 5

\* The main thread comes further, by a place or a stage, or within one: a
\* connection more is open, known or exported; a table less is left to it; a
\* worker is further; a connection less is to be closed.
Further ==
    \/ PlaceRank(at') > PlaceRank(at)
    \/ at' = at /\ stage' = stage + 1
    \/ /\ UNCHANGED <<at, stage>>
       /\ \/ /\ at = "opening" /\ owned \subseteq owned' /\ open \subseteq open'
             /\ exported = NoVersion \/ exported' = exported
             /\ <<owned, open, exported>>' # <<owned, open, exported>>
          \/ at = "copying" /\ task' = task /\ left' \subseteq left /\ left' # left
          \/ /\ UNCHANGED <<left, owned, open, exported>>
             /\ \E t \in Tables : /\ TaskRank(task'[t]) > TaskRank(task[t])
                                  /\ \A u \in Tables \ {t} : task'[u] = task[u]
          \/ at = "closing" /\ task' = task /\ owned' \subseteq owned /\ owned' # owned

\* Apart from what a worker reads while it copies, and from interrupts and
\* changes of the source, every step of a run brings it further, failures
\* included, and no stage is entered twice: it does not go on for ever.
THEOREM SessionAdvances ==
    Spec => /\ [](at = "copying" => stage <= Len(plan))
            /\ [][Further \/ (\E t \in Tables : WorkerReads(t)) \/ Interrupt \/ SourceChange]_vars
<1>1. ASSUME TypeOK, ConnInv, NEW t \in Tables, WorkerStep(t) \/ ConnectFails(t) \/ WorkerFails(t)
      PROVE  Further
  <2>1. UNCHANGED <<at, stage, left, owned, open, exported>>
        /\ \A u \in Tables \ {t} : task'[u] = task[u]
    BY <1>1 DEF WorkerStep, OpenWorker, Import, Connect, WorkerEnds, ConnectFails, WorkerFails,
       conns, TypeOK
  <2>2. \/ task[t] = "queued" /\ task'[t] \in {"opened", "failed"}
        \/ task[t] = "opened" /\ task'[t] \in {"imported", "failed"}
        \/ task[t] = "imported" /\ task'[t] \in {"copying", "failed"}
        \/ task[t] = "copying" /\ task'[t] \in {"done", "failed"}
    BY <1>1 DEF WorkerStep, OpenWorker, Import, Connect, WorkerEnds, ConnectFails, WorkerFails,
       TypeOK
  <2>3. TaskRank(task'[t]) > TaskRank(task[t])
    BY <2>2 DEF TaskRank
  <2>. QED
    BY <2>1, <2>3 DEF Further
<1>2. ASSUME TypeOK, at = "opening", UNCHANGED <<at, stage>>, owned \subseteq owned',
             open \subseteq open', exported = NoVersion \/ exported' = exported,
             <<owned, open, exported>>' # <<owned, open, exported>>
      PROVE  Further
  BY <1>2 DEF Further
<1>3. ASSUME TypeOK, NEW c \in {"source", "dest"}, OpenMain(c) PROVE Further
  BY <1>2, <1>3 DEF OpenMain, copying
<1>4. ASSUME TypeOK, Export PROVE Further
  <2>1. exported' # exported
    BY <1>4, SessionAssumption DEF Export, TypeOK
  <2>. QED
    BY <1>2, <1>4, <2>1 DEF Export, copying
<1>5. ASSUME TypeOK, NEW r \in PoolReaders, OpenReader(r) \/ ImportReader(r) PROVE Further
  BY <1>2, <1>5 DEF OpenReader, ImportReader, copying
<1>6. ASSUME Opened \/ Prepare \/ PreSql \/ AddConstraints \/ PostSql \/ Finish \/ End
             \/ OpenFails \/ StageFails \/ StepFails \/ FinishFails
      PROVE  Further
  <2>1. \/ at = "opening" /\ at' \in {"preparing", "closing"}
        \/ at = "preparing" /\ at' \in {"copying", "pre-sql", "finishing"}
        \/ at = "copying" /\ at' = "finishing"
        \/ at = "pre-sql" /\ at' \in {"constraints", "post-sql", "finishing"}
        \/ at = "constraints" /\ at' \in {"post-sql", "finishing"}
        \/ at = "post-sql" /\ at' = "finishing"
        \/ at = "finishing" /\ at' = "closing"
        \/ at = "closing" /\ at' = "ended"
    BY <1>6 DEF Opened, Prepare, Enter, PreSql, AddConstraints, PostSql, Finish, End, OpenFails,
       StageFails, StepFails, FinishFails, Raise
  <2>2. PlaceRank(at') > PlaceRank(at)
    BY <2>1 DEF PlaceRank
  <2>. QED
    BY <2>2 DEF Further
<1>7. ASSUME NEW t \in Tables, MainCopies(t) PROVE Further
  BY <1>7 DEF MainCopies, Further
<1>8. ASSUME EndStage PROVE Further
  <2>1. stage' = stage + 1 /\ at = "copying" /\ at' \in {"copying", "pre-sql"}
    BY <1>8 DEF EndStage, Enter
  <2>. QED
    BY <2>1 DEF Further, PlaceRank
<1>9. ASSUME NEW c \in Session, Close(c) PROVE Further
  BY <1>9 DEF Close, copying, Further
<1>10. TypeOK /\ ConnInv /\ [Next]_vars =>
          [Further \/ (\E t \in Tables : WorkerReads(t)) \/ Interrupt \/ SourceChange]_vars
  BY <1>1, <1>3, <1>4, <1>5, <1>6, <1>7, <1>8, <1>9 DEF Next, MainStep, Failure
<1>11. Init => LockInv
  BY DEF Init, LockInv, Traversing
<1>12. TypeOK /\ LockInv => (at = "copying" => stage <= Len(plan))
  <2>1. TypeOK => Len(plan) \in Nat
    BY SessionAssumption DEF TypeOK
  <2>. QED
    BY <2>1 DEF LockInv, TypeOK
<1>. QED
  BY <1>10, <1>11, <1>12, LockStep, Invariants, PTL DEF Spec
=============================================================================
