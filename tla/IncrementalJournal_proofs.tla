---------------------- MODULE IncrementalJournal_proofs ----------------------
(***************************************************************************)
(* What the journal protocol guarantees for any number of processes,       *)
(* foreign keys, definitions and configurations: its inductive invariant,  *)
(* and the safety properties of IncrementalJournal that follow from it.    *)
(*                                                                         *)
(* The argument: only the process that holds the lock and whose connection *)
(* is up (its owner), or a recreate run, changes the catalog or the        *)
(* journal. So what the owner read is still so when it uses it, and every  *)
(* other process's facts are vacuous while it works.                       *)
(***************************************************************************)
EXTENDS IncrementalJournal, TLAPS

Owner(p) == pc[p] \in Locked /\ conn[p]

\* The journal is this run's.
Prepared == {"recording", "truncating", "writing", "dropping", "returning",
             "copying", "restoring", "unprep"}

\* A recreate run has the destination to itself.
RecreatesAlone ==
    \A p, q \in Procs : (pc[p] \in Recreating /\ q # p) => pc[q] = "idle"

\* A started run has a configuration, and only a finished copy has succeeded.
Memory ==
    \A p \in Procs :
        /\ pc[p] \notin {"idle"} \cup Recreating => conf[p] \in Configs
        /\ succeeded[p] => pc[p] \in {"restoring", "unprep", "releasing", "closing"}

\* A journal that does not exist has no rows.
NoStrayRows == hash = NoConfig => backup = NoFks

\* What the owner relies on, from one of its transactions to the next.
OwnersView(p) ==
    Owner(p) =>
        /\ pc[p] \in Prepared => hash = conf[p]
        /\ pc[p] \in {"truncating", "writing", "dropping"} =>
              \A f \in fks[p] : backup[f] = catalog[f]
        /\ pc[p] \in {"truncating", "writing", "dropping", "returning"} =>
              all_fks[p] = backup
        /\ pc[p] = "copying" \/ (pc[p] = "restoring" /\ succeeded[p]) =>
              dropped[p] = backup
        /\ pc[p] = "unprep" => \A f \in Having(backup) : catalog[f] = backup[f]
        /\ pc[p] = "releasing" /\ succeeded[p] => hash = NoConfig

IInv == /\ TypeOK /\ HolderOnly /\ RecreatesAlone /\ Memory /\ NoStrayRows
        /\ NoFkLost
        /\ \A p \in Procs : OwnersView(p)

----------------------------------------------------------------------------
(* Type correctness.                                                       *)

\* The empty set of keys is a map from keys to definitions.
LEMMA NoFksType == NoFks \in [Fks -> MaybeDefs]
BY DEF NoFks, MaybeDefs

\* No step takes a variable out of its type.
LEMMA TypeStep == TypeOK /\ [Next]_vars => TypeOK'
<1>. SUFFICES ASSUME TypeOK, [Next]_vars PROVE TypeOK'
  OBVIOUS
<1>. USE NoFksType, JournalAssumption DEF TypeOK
<1>. USE DEF Goto, database, locals, ForgetLocals, ForgetAll, FreeLock, Places, Locked, Recreating
<1>1. CASE UNCHANGED vars
  BY <1>1 DEF vars
<1>2. ASSUME NEW p \in Procs, NEW c \in Configs, Start(p, c) PROVE TypeOK'
  BY <1>2 DEF Start
<1>3. ASSUME NEW p \in Procs, StartRecreate(p) PROVE TypeOK'
  BY <1>3 DEF StartRecreate
<1>4. ASSUME NEW p \in Procs, Step(p) PROVE TypeOK'
  <2>1. CASE AcquireLock(p)
    BY <2>1 DEF AcquireLock
  <2>2. CASE Prepare(p)
    BY <2>2 DEF Prepare
  <2>3. CASE Reject(p)
    BY <2>3 DEF Reject
  <2>4. CASE RecordFks(p)
    <3>1. backup' \in [Fks -> MaybeDefs]
      BY <2>4 DEF RecordFks
    <3>2. Having(catalog) \in SUBSET Fks
      BY DEF Having
    <3>. QED
      BY <2>4, <3>1, <3>2 DEF RecordFks
  <2>5. CASE TruncateFile(p)
    BY <2>5 DEF TruncateFile
  <2>6. CASE WriteFile(p)
    BY <2>6 DEF WriteFile
  <2>7. CASE DropFks(p)
    BY <2>7 DEF DropFks, MaybeDefs
  <2>8. CASE ReturnFks(p)
    BY <2>8 DEF ReturnFks
  <2>9. CASE CopySucceeds(p)
    BY <2>9 DEF CopySucceeds
  <2>10. CASE Fails(p)
    BY <2>10 DEF Fails
  <2>11. CASE Restore(p)
    BY <2>11 DEF Restore
  <2>12. CASE DropJournal(p)
    BY <2>12 DEF DropJournal
  <2>13. CASE FinishFails(p)
    BY <2>13 DEF FinishFails
  <2>14. CASE ReleaseLock(p)
    BY <2>14 DEF ReleaseLock
  <2>15. CASE Close(p)
    BY <2>15 DEF Close
  <2>16. CASE Teardown(p)
    BY <2>16 DEF Teardown
  <2>17. CASE LoadSucceeds(p)
    BY <2>17 DEF LoadSucceeds
  <2>18. CASE AddConstraints(p)
    BY <2>18 DEF AddConstraints, MaybeDefs
  <2>. QED
    BY <1>4, <2>1, <2>2, <2>3, <2>4, <2>5, <2>6, <2>7, <2>8, <2>9, <2>10, <2>11,
       <2>12, <2>13, <2>14, <2>15, <2>16, <2>17, <2>18 DEF Step
<1>5. ASSUME NEW p \in Procs, Crash(p) PROVE TypeOK'
  BY <1>5 DEF Crash
<1>6. ASSUME NEW p \in Procs, LoseConnection(p) PROVE TypeOK'
  BY <1>6 DEF LoseConnection
<1>7. ASSUME NEW f \in Fks, AlterFk(f) PROVE TypeOK'
  BY <1>7 DEF AlterFk, MaybeDefs
<1>. QED
  BY <1>1, <1>2, <1>3, <1>4, <1>5, <1>6, <1>7 DEF Next

\* Every variable keeps its type under every step: the journal, the file and
\* what a process remembers of them are always maps from keys to definitions.
THEOREM TypeCorrect == Spec => []TypeOK
<1>1. Init => TypeOK
  BY NoFksType, JournalAssumption DEF Init, TypeOK, Places
<1>. QED
  BY <1>1, TypeStep, PTL DEF Spec

----------------------------------------------------------------------------
(* The lock.                                                               *)

\* Nobody is past the lock in the beginning.
LEMMA HolderInit == Init => HolderOnly
BY DEF Init, HolderOnly, Locked

\* Whoever is past the lock with a live connection stays its holder.
LEMMA HolderStep == TypeOK /\ HolderOnly /\ [Next]_vars => HolderOnly'
<1>. SUFFICES ASSUME TypeOK, HolderOnly, [Next]_vars,
                     NEW q \in Procs, (pc[q] \in Locked /\ conn[q])'
              PROVE  lock' = q
  BY DEF HolderOnly
<1>. USE JournalAssumption DEF TypeOK, HolderOnly, Goto, FreeLock, Locked
<1>1. CASE UNCHANGED vars
  BY <1>1 DEF vars
<1>2. ASSUME NEW p \in Procs, NEW c \in Configs, Start(p, c) PROVE lock' = q
  BY <1>2 DEF Start
<1>3. ASSUME NEW p \in Procs, StartRecreate(p) PROVE lock' = q
  BY <1>3 DEF StartRecreate
<1>4. ASSUME NEW p \in Procs, Step(p) PROVE lock' = q
  \* Only three actions touch the lock, and only one of them hands it out.
  <2>1. CASE AcquireLock(p)
    BY <2>1 DEF AcquireLock
  <2>2. CASE ReleaseLock(p)
    BY <2>2 DEF ReleaseLock
  <2>3. CASE Close(p)
    BY <2>3 DEF Close
  <2>4. CASE Prepare(p) \/ Reject(p) \/ RecordFks(p) \/ TruncateFile(p) \/ WriteFile(p)
    BY <2>4 DEF Prepare, Reject, RecordFks, TruncateFile, WriteFile
  <2>5. CASE DropFks(p) \/ ReturnFks(p) \/ CopySucceeds(p) \/ Fails(p)
    BY <2>5 DEF DropFks, ReturnFks, CopySucceeds, Fails
  <2>6. CASE Restore(p) \/ DropJournal(p) \/ FinishFails(p)
    BY <2>6 DEF Restore, DropJournal, FinishFails
  <2>7. CASE Teardown(p) \/ LoadSucceeds(p) \/ AddConstraints(p)
    BY <2>7 DEF Teardown, LoadSucceeds, AddConstraints
  <2>. QED
    BY <1>4, <2>1, <2>2, <2>3, <2>4, <2>5, <2>6, <2>7 DEF Step
<1>5. ASSUME NEW p \in Procs, Crash(p) PROVE lock' = q
  BY <1>5 DEF Crash
<1>6. ASSUME NEW p \in Procs, LoseConnection(p) PROVE lock' = q
  BY <1>6 DEF LoseConnection
<1>7. ASSUME NEW f \in Fks, AlterFk(f) PROVE lock' = q
  BY <1>7 DEF AlterFk
<1>. QED
  BY <1>1, <1>2, <1>3, <1>4, <1>5, <1>6, <1>7 DEF Next

\* A process past the lock whose connection is up holds the lock, however many
\* processes are started, killed or lose their connection: there is one at most.
THEOREM HolderCorrect == Spec => []HolderOnly
<1>. QED
  BY TypeCorrect, HolderInit, HolderStep, PTL DEF Spec

\* Two processes that own the journal are one.
LEMMA OneOwner ==
    ASSUME TypeOK, HolderOnly, NEW p \in Procs, NEW q \in Procs, Owner(p), Owner(q)
    PROVE  p = q
BY DEF HolderOnly, Owner

----------------------------------------------------------------------------
(* Recreate runs, and what a process remembers.                            *)

\* A recreate run that starts alone stays alone.
LEMMA AloneStep ==
    ASSUME TypeOK, RecreatesAlone, ~OverlappingRecreates, [Next]_vars
    PROVE  RecreatesAlone'
<1>. USE DEF TypeOK, RecreatesAlone, Goto, Recreating, Locked, Places, Active
<1>1. CASE UNCHANGED vars
  BY <1>1 DEF vars
<1>2. ASSUME NEW p \in Procs, NEW c \in Configs, Start(p, c) PROVE RecreatesAlone'
  BY <1>2 DEF Start
<1>3. ASSUME NEW p \in Procs, StartRecreate(p) PROVE RecreatesAlone'
  BY <1>3 DEF StartRecreate
<1>4. ASSUME NEW p \in Procs, Step(p) PROVE RecreatesAlone'
  \* A step changes the place of p alone, and enters no recreate run.
  <2>1. CASE AcquireLock(p) \/ Prepare(p) \/ Reject(p) \/ RecordFks(p)
    BY <2>1 DEF AcquireLock, Prepare, Reject, RecordFks
  <2>2. CASE TruncateFile(p) \/ WriteFile(p) \/ DropFks(p) \/ ReturnFks(p)
    BY <2>2 DEF TruncateFile, WriteFile, DropFks, ReturnFks
  <2>3. CASE CopySucceeds(p) \/ Fails(p) \/ Restore(p) \/ DropJournal(p)
    <3>1. /\ pc[p] \notin {"idle"} \cup Recreating /\ \A q \in Procs \ {p} : pc'[q] = pc[q]
          /\ pc'[p] \in {"restoring", "unprep", "releasing"}
      BY <2>3 DEF CopySucceeds, Fails, Restore, DropJournal
    <3>. QED
      BY <3>1
  <2>4. CASE FinishFails(p) \/ ReleaseLock(p) \/ Close(p)
    BY <2>4 DEF FinishFails, ReleaseLock, Close
  <2>5. CASE Teardown(p) \/ LoadSucceeds(p)
    <3>1. pc[p] \in Recreating /\ \A q \in Procs \ {p} : pc'[q] = pc[q]
      BY <2>5 DEF Teardown, LoadSucceeds
    <3>. QED
      BY <3>1
  <2>6. CASE AddConstraints(p)
    BY <2>6 DEF AddConstraints
  <2>. QED
    BY <1>4, <2>1, <2>2, <2>3, <2>4, <2>5, <2>6 DEF Step
<1>5. ASSUME NEW p \in Procs, Crash(p) PROVE RecreatesAlone'
  BY <1>5 DEF Crash
<1>6. ASSUME NEW p \in Procs, LoseConnection(p) PROVE RecreatesAlone'
  BY <1>6 DEF LoseConnection
<1>7. ASSUME NEW f \in Fks, AlterFk(f) PROVE RecreatesAlone'
  BY <1>7 DEF AlterFk
<1>. QED
  BY <1>1, <1>2, <1>3, <1>4, <1>5, <1>6, <1>7 DEF Next

\* And so it stays, wherever its connection went.
LEMMA MemoryStep ==
    ASSUME TypeOK, Memory, [Next]_vars PROVE Memory'
<1>. USE DEF TypeOK, Memory, Goto, ForgetLocals, ForgetAll, locals, Recreating, Locked,
             Places, Active
<1>1. CASE UNCHANGED vars
  BY <1>1 DEF vars
<1>2. ASSUME NEW p \in Procs, NEW c \in Configs, Start(p, c) PROVE Memory'
  BY <1>2 DEF Start
<1>3. ASSUME NEW p \in Procs, StartRecreate(p) PROVE Memory'
  BY <1>3 DEF StartRecreate
<1>4. ASSUME NEW p \in Procs, Step(p) PROVE Memory'
  <2>1. CASE AcquireLock(p)
    BY <2>1 DEF AcquireLock
  <2>2. CASE Prepare(p)
    BY <2>2 DEF Prepare
  <2>3. CASE Reject(p)
    BY <2>3 DEF Reject
  <2>4. CASE RecordFks(p)
    BY <2>4 DEF RecordFks
  <2>5. CASE TruncateFile(p)
    BY <2>5 DEF TruncateFile
  <2>6. CASE WriteFile(p)
    BY <2>6 DEF WriteFile
  <2>7. CASE DropFks(p)
    BY <2>7 DEF DropFks
  <2>8. CASE ReturnFks(p)
    BY <2>8 DEF ReturnFks
  <2>9. CASE CopySucceeds(p)
    BY <2>9 DEF CopySucceeds
  <2>10. CASE Fails(p)
    BY <2>10 DEF Fails
  <2>11. CASE Restore(p)
    BY <2>11 DEF Restore
  <2>12. CASE DropJournal(p)
    BY <2>12 DEF DropJournal
  <2>13. CASE FinishFails(p)
    BY <2>13 DEF FinishFails
  <2>14. CASE ReleaseLock(p)
    BY <2>14 DEF ReleaseLock
  <2>15. CASE Close(p)
    BY <2>15 DEF Close
  <2>16. CASE Teardown(p)
    BY <2>16 DEF Teardown
  <2>17. CASE LoadSucceeds(p)
    BY <2>17 DEF LoadSucceeds
  <2>18. CASE AddConstraints(p)
    BY <2>18 DEF AddConstraints
  <2>. QED
    BY <1>4, <2>1, <2>2, <2>3, <2>4, <2>5, <2>6, <2>7, <2>8, <2>9, <2>10,
       <2>11, <2>12, <2>13, <2>14, <2>15, <2>16, <2>17, <2>18 DEF Step
<1>5. ASSUME NEW p \in Procs, Crash(p) PROVE Memory'
  BY <1>5 DEF Crash
<1>6. ASSUME NEW p \in Procs, LoseConnection(p) PROVE Memory'
  BY <1>6 DEF LoseConnection
<1>7. ASSUME NEW f \in Fks, AlterFk(f) PROVE Memory'
  BY <1>7 DEF AlterFk
<1>. QED
  BY <1>1, <1>2, <1>3, <1>4, <1>5, <1>6, <1>7 DEF Next

----------------------------------------------------------------------------
(* Non-interference: the facts of the other processes.                     *)

\* What a process knows is its own.
Private(q) == <<pc[q], conn[q], conf[q], fks[q], all_fks[q], dropped[q], succeeded[q]>>

journal == <<catalog, backup, hash>>

\* A step of one process leaves the memory of the others as it is.
LEMMA StepIsLocal ==
    ASSUME TypeOK, NEW p \in Procs, NEW q \in Procs, q # p, Step(p)
    PROVE  Private(q)' = Private(q)
<1>. USE DEF TypeOK, Private, Goto, ForgetLocals, ForgetAll, locals
<1>1. CASE AcquireLock(p) \/ Prepare(p) \/ Reject(p) \/ RecordFks(p)
  BY <1>1 DEF AcquireLock, Prepare, Reject, RecordFks
<1>2. CASE TruncateFile(p) \/ WriteFile(p) \/ DropFks(p) \/ ReturnFks(p)
  BY <1>2 DEF TruncateFile, WriteFile, DropFks, ReturnFks
<1>3. CASE CopySucceeds(p) \/ Fails(p) \/ Restore(p) \/ DropJournal(p)
  BY <1>3 DEF CopySucceeds, Fails, Restore, DropJournal
<1>4. CASE FinishFails(p) \/ ReleaseLock(p) \/ Close(p)
  BY <1>4 DEF FinishFails, ReleaseLock, Close
<1>5. CASE Teardown(p) \/ LoadSucceeds(p) \/ AddConstraints(p)
  BY <1>5 DEF Teardown, LoadSucceeds, AddConstraints
<1>. QED
  BY <1>1, <1>2, <1>3, <1>4, <1>5 DEF Step

\* Only the owner and a recreate run touch the catalog and the journal.
LEMMA WriterIsAlone ==
    ASSUME TypeOK, NEW p \in Procs, Step(p)
    PROVE  UNCHANGED journal \/ Owner(p) \/ pc[p] \in Recreating
<1>. USE DEF journal, database, Owner, Locked, Recreating
<1>1. CASE AcquireLock(p) \/ Prepare(p) \/ Reject(p) \/ RecordFks(p)
  BY <1>1 DEF AcquireLock, Prepare, Reject, RecordFks
<1>2. CASE TruncateFile(p) \/ WriteFile(p) \/ DropFks(p) \/ ReturnFks(p)
  BY <1>2 DEF TruncateFile, WriteFile, DropFks, ReturnFks
<1>3. CASE CopySucceeds(p) \/ Fails(p) \/ Restore(p) \/ DropJournal(p)
  BY <1>3 DEF CopySucceeds, Fails, Restore, DropJournal
<1>4. CASE FinishFails(p) \/ ReleaseLock(p) \/ Close(p)
  BY <1>4 DEF FinishFails, ReleaseLock, Close
<1>5. CASE Teardown(p) \/ LoadSucceeds(p) \/ AddConstraints(p)
  BY <1>5 DEF Teardown, LoadSucceeds, AddConstraints
<1>. QED
  BY <1>1, <1>2, <1>3, <1>4, <1>5 DEF Step

\* A view outlives whatever leaves the process and, if it owns, the journal alone.
LEMMA ViewIsStable ==
    ASSUME NEW q \in Procs, OwnersView(q),
           Private(q)' = Private(q), Owner(q) => UNCHANGED journal
    PROVE  OwnersView(q)'
BY DEF OwnersView, Owner, Private, journal, Having

\* A step of another process leaves the view a process has of the journal true.
LEMMA OthersView ==
    ASSUME IInv, NEW p \in Procs, NEW q \in Procs, q # p, Step(p)
    PROVE  OwnersView(q)'
<1>1. Private(q)' = Private(q)
  BY StepIsLocal DEF IInv
<1>2. ASSUME Owner(q) PROVE UNCHANGED journal
  <2>1. ~Owner(p)
    BY <1>2, OneOwner DEF IInv
  <2>2. pc[p] \notin Recreating
    BY <1>2 DEF IInv, RecreatesAlone, Owner, Locked
  <2>. QED
    BY <2>1, <2>2, WriterIsAlone DEF IInv
<1>. QED
  BY <1>1, <1>2, ViewIsStable DEF IInv

----------------------------------------------------------------------------
(* The process that steps: its own view, and what the journal promises.    *)

\* A step of the owner keeps its own view and what the journal promises.
LEMMA OwnStep ==
    ASSUME IInv, NEW p \in Procs, Step(p)
    PROVE  OwnersView(p)' /\ NoStrayRows' /\ NoFkLost'
<1>. USE JournalAssumption DEF OwnersView, Owner, Having, Prepared, Locked
<1>t. /\ TypeOK /\ NoStrayRows /\ NoFkLost /\ OwnersView(p) /\ Memory
      /\ pc[p] \notin {"idle"} \cup Recreating => conf[p] \in Configs
      /\ succeeded[p] => pc[p] \in {"restoring", "unprep", "releasing", "closing"}
  BY DEF IInv, Memory
<1>0. ASSUME UNCHANGED database PROVE NoStrayRows' /\ NoFkLost'
  BY <1>t, <1>0 DEF database, NoStrayRows, NoFkLost, NoFks
<1>1. CASE AcquireLock(p)
  <2>1. OwnersView(p)'
    BY <1>1, <1>t DEF AcquireLock, Goto, TypeOK, locals
  <2>. QED
    BY <1>0, <1>1, <2>1 DEF AcquireLock
<1>2. CASE Prepare(p)
  \* A journal that is made afresh was empty before.
  <2>1. backup' = backup /\ hash' = conf[p] /\ conf[p] \in Configs
    BY <1>2, <1>t DEF Prepare, NoStrayRows, Recreating
  <2>2. NoStrayRows' /\ NoFkLost'
    BY <1>2, <1>t, <2>1 DEF Prepare, NoStrayRows, NoFkLost
  <2>3. OwnersView(p)'
    BY <1>2, <1>t, <2>1 DEF Prepare, Goto, TypeOK, locals
  <2>. QED
    BY <2>2, <2>3
<1>3. CASE Reject(p)
  <2>1. OwnersView(p)'
    BY <1>3, <1>t DEF Reject, Goto, TypeOK, locals
  <2>. QED
    BY <1>0, <1>3, <2>1 DEF Reject
<1>4. CASE RecordFks(p)
  <2>1. hash = conf[p] /\ conf[p] \in Configs
    BY <1>4, <1>t DEF RecordFks, Recreating
  \* What was recorded stays recorded, and what is live is recorded.
  <2>2. /\ \A f \in Fks : backup[f] # NoDef => backup'[f] = backup[f]
        /\ \A f \in Having(catalog) : backup'[f] = catalog[f]
    BY <1>4, <1>t DEF RecordFks, Conflicts, TypeOK
  <2>3. NoStrayRows' /\ NoFkLost'
    BY <1>4, <1>t, <2>1, <2>2 DEF RecordFks, NoStrayRows, NoFkLost
  <2>4. OwnersView(p)'
    <3>1. /\ fks'[p] = Having(catalog) /\ all_fks'[p] = backup'
          /\ pc'[p] \in {"dropping", "truncating"} /\ UNCHANGED <<hash, conf, catalog, succeeded>>
      BY <1>4, <1>t DEF RecordFks, Goto, TypeOK
    <3>. QED
      BY <2>1, <2>2, <3>1
  <2>. QED
    BY <2>3, <2>4
<1>5. CASE TruncateFile(p) \/ WriteFile(p)
  <2>1. OwnersView(p)'
    BY <1>5, <1>t DEF TruncateFile, WriteFile, Goto, TypeOK, locals, database
  <2>. QED
    BY <1>0, <1>5, <2>1 DEF TruncateFile, WriteFile
<1>6. CASE DropFks(p)
  <2>1. /\ hash = conf[p] /\ conf[p] \in Configs
        /\ \A f \in fks[p] : backup[f] = catalog[f]
    BY <1>6, <1>t DEF DropFks, Recreating
  <2>2. NoStrayRows' /\ NoFkLost'
    BY <1>6, <1>t, <2>1 DEF DropFks, NoStrayRows, NoFkLost, TypeOK
  <2>3. OwnersView(p)'
    BY <1>6, <1>t, <2>1 DEF DropFks, Goto, TypeOK, locals
  <2>. QED
    BY <2>2, <2>3
<1>7. CASE ReturnFks(p)
  <2>1. OwnersView(p)'
    BY <1>7, <1>t DEF ReturnFks, ForgetLocals, Goto, TypeOK, database
  <2>. QED
    BY <1>0, <1>7, <2>1 DEF ReturnFks
<1>8. CASE CopySucceeds(p)
  <2>1. OwnersView(p)'
    BY <1>8, <1>t DEF CopySucceeds, Goto, TypeOK, database
  <2>. QED
    BY <1>0, <1>8, <2>1 DEF CopySucceeds
<1>9. CASE Fails(p)
  <2>1. OwnersView(p)'
    BY <1>9, <1>t DEF Fails, ForgetLocals, Goto, TypeOK, database
  <2>. QED
    BY <1>0, <1>9, <2>1 DEF Fails
<1>10. CASE Restore(p)
  \* A live key is restored to what it is, or the transaction fails.
  <2>1. /\ \A f \in Having(catalog) : catalog'[f] = catalog[f]
        /\ \A f \in Having(dropped[p]) : catalog'[f] = dropped[p][f]
        /\ UNCHANGED <<backup, hash, installed, conn, conf, succeeded, dropped>>
    BY <1>10, <1>t DEF Restore, TypeOK, locals
  <2>2. NoStrayRows' /\ NoFkLost'
    BY <1>t, <2>1 DEF NoStrayRows, NoFkLost, NoFks
  <2>3. OwnersView(p)'
    BY <1>10, <1>t, <2>1 DEF Restore, Goto, TypeOK
  <2>. QED
    BY <2>2, <2>3
<1>11. CASE DropJournal(p)
  \* Every key in the journal is live, so nothing is lost with it.
  <2>1. \A f \in Having(backup) : catalog[f] = backup[f]
    BY <1>11, <1>t DEF DropJournal
  <2>2. NoStrayRows' /\ NoFkLost'
    BY <1>11, <1>t, <2>1 DEF DropJournal, NoStrayRows, NoFkLost, NoFks
  <2>3. OwnersView(p)'
    BY <1>11, <1>t DEF DropJournal, Goto, TypeOK, locals
  <2>. QED
    BY <2>2, <2>3
<1>12. CASE FinishFails(p)
  <2>1. OwnersView(p)'
    BY <1>12, <1>t DEF FinishFails, Goto, TypeOK, database
  <2>. QED
    BY <1>0, <1>12, <2>1 DEF FinishFails
<1>13. CASE ReleaseLock(p)
  <2>1. OwnersView(p)'
    BY <1>13, <1>t DEF ReleaseLock, Goto, TypeOK, database, locals
  <2>. QED
    BY <1>0, <1>13, <2>1 DEF ReleaseLock
<1>14. CASE Close(p)
  <2>1. OwnersView(p)'
    BY <1>14, <1>t DEF Close, Goto, TypeOK
  <2>. QED
    BY <1>0, <1>14, <2>1 DEF Close
<1>15. CASE Teardown(p)
  <2>1. OwnersView(p)'
    BY <1>15, <1>t DEF Teardown, Goto, TypeOK
  <2>. QED
    BY <1>15, <2>1 DEF Teardown, NoStrayRows, NoFkLost, NoFks
<1>16. CASE LoadSucceeds(p)
  <2>1. OwnersView(p)'
    BY <1>16, <1>t DEF LoadSucceeds, Goto, TypeOK
  <2>. QED
    BY <1>0, <1>16, <2>1 DEF LoadSucceeds
<1>17. CASE AddConstraints(p)
  <2>1. OwnersView(p)'
    BY <1>17, <1>t DEF AddConstraints, Goto, TypeOK
  <2>2. NoStrayRows'
    BY <1>17, <1>t DEF AddConstraints, NoStrayRows, NoFks
  <2>3. NoFkLost'
    BY <1>17, <1>t DEF AddConstraints, NoFkLost, TypeOK
  <2>. QED
    BY <2>1, <2>2, <2>3
<1>. QED
  BY <1>1, <1>2, <1>3, <1>4, <1>5, <1>6, <1>7, <1>8, <1>9, <1>10, <1>11, <1>12,
     <1>13, <1>14, <1>15, <1>16, <1>17 DEF Step

----------------------------------------------------------------------------
(* The inductive invariant, and what follows from it. The assumption is    *)
(* the one the code leaves to the operator: a recreate run, which takes no *)
(* lock, is not started while another run is active.                       *)

\* The inductive invariant holds when nothing has been started.
LEMMA IInvInit == Init => IInv
<1>. SUFFICES ASSUME Init PROVE IInv
  OBVIOUS
<1>1. TypeOK /\ HolderOnly
  BY HolderInit, NoFksType, JournalAssumption DEF Init, TypeOK, Places
<1>2. RecreatesAlone /\ Memory
  BY DEF Init, RecreatesAlone, Memory, Recreating
<1>3. NoStrayRows /\ NoFkLost
  BY DEF Init, NoStrayRows, NoFkLost, Having, NoFks
<1>4. \A p \in Procs : OwnersView(p)
  BY DEF Init, OwnersView, Owner, Locked
<1>. QED
  BY <1>1, <1>2, <1>3, <1>4 DEF IInv

\* And every step keeps it, unless recreate runs overlap with others.
LEMMA IInvStep == ~OverlappingRecreates /\ IInv /\ [Next]_vars => IInv'
<1>. SUFFICES ASSUME ~OverlappingRecreates, IInv, [Next]_vars PROVE IInv'
  OBVIOUS
<1>1. TypeOK' /\ HolderOnly' /\ RecreatesAlone' /\ Memory'
  BY TypeStep, HolderStep, AloneStep, MemoryStep DEF IInv
<1>2. NoStrayRows' /\ NoFkLost' /\ \A q \in Procs : OwnersView(q)'
  <2>. USE DEF IInv
  \* Nothing but a step and a change by hand touches the database.
  <2>0. ASSUME UNCHANGED database PROVE NoStrayRows' /\ NoFkLost'
    BY <2>0 DEF database, NoStrayRows, NoFkLost, Having, NoFks
  <2>1. CASE UNCHANGED vars
    <3>. QED
      BY <2>1, <2>0, ViewIsStable DEF vars, database, journal, Private
  <2>2. ASSUME NEW p \in Procs, NEW c \in Configs, Start(p, c)
        PROVE  NoStrayRows' /\ NoFkLost' /\ \A q \in Procs : OwnersView(q)'
    <3>1. OwnersView(p)'
      BY <2>2 DEF Start, OwnersView, Owner, Locked, Goto, TypeOK
    <3>2. ASSUME NEW q \in Procs, q # p PROVE OwnersView(q)'
      <4>1. Private(q)' = Private(q) /\ UNCHANGED journal
        BY <2>2, <3>2 DEF Start, Private, Goto, TypeOK, database, journal
      <4>. QED
        BY <4>1, ViewIsStable
    <3>. QED
      BY <2>0, <2>2, <3>1, <3>2 DEF Start
  <2>3. ASSUME NEW p \in Procs, StartRecreate(p)
        PROVE  NoStrayRows' /\ NoFkLost' /\ \A q \in Procs : OwnersView(q)'
    <3>1. OwnersView(p)'
      BY <2>3 DEF StartRecreate, OwnersView, Owner, Locked, Goto, TypeOK
    <3>2. ASSUME NEW q \in Procs, q # p PROVE OwnersView(q)'
      <4>1. Private(q)' = Private(q) /\ UNCHANGED journal
        BY <2>3, <3>2 DEF StartRecreate, Private, Goto, TypeOK, database, journal, locals
      <4>. QED
        BY <4>1, ViewIsStable
    <3>. QED
      BY <2>0, <2>3, <3>1, <3>2 DEF StartRecreate
  <2>4. ASSUME NEW p \in Procs, Step(p)
        PROVE  NoStrayRows' /\ NoFkLost' /\ \A q \in Procs : OwnersView(q)'
    BY <2>4, OwnStep, OthersView
  <2>5. ASSUME NEW p \in Procs, Crash(p) \/ LoseConnection(p)
        PROVE  NoStrayRows' /\ NoFkLost' /\ \A q \in Procs : OwnersView(q)'
    <3>1. OwnersView(p)'
      BY <2>5 DEF Crash, LoseConnection, OwnersView, Owner, TypeOK
    <3>2. ASSUME NEW q \in Procs, q # p PROVE OwnersView(q)'
      <4>1. Private(q)' = Private(q) /\ UNCHANGED journal
        <5>1. CASE Crash(p)
          BY <5>1, <3>2 DEF Crash, Private, Goto, ForgetAll, ForgetLocals, TypeOK,
                            database, journal
        <5>2. CASE LoseConnection(p)
          BY <5>2, <3>2 DEF LoseConnection, Private, TypeOK, database, journal, locals
        <5>. QED
          BY <2>5, <5>1, <5>2
      <4>. QED
        BY <4>1, ViewIsStable
    <3>. QED
      BY <2>0, <2>5, <3>1, <3>2 DEF Crash, LoseConnection
  <2>6. ASSUME NEW f \in Fks, AlterFk(f)
        PROVE  NoStrayRows' /\ NoFkLost' /\ \A q \in Procs : OwnersView(q)'
    <3>1. NoStrayRows' /\ NoFkLost'
      BY <2>6 DEF AlterFk, NoStrayRows, NoFkLost, Having, TypeOK
    <3>2. ASSUME NEW q \in Procs PROVE OwnersView(q)'
      BY <2>6 DEF AlterFk, Active, OwnersView, Owner, Locked
    <3>. QED
      BY <3>1, <3>2
  <2>. QED
    BY <2>1, <2>2, <2>3, <2>4, <2>5, <2>6 DEF Next
<1>. QED
  BY <1>1, <1>2 DEF IInv

\* What the owner remembers, the journal and the catalog agree at every step of
\* drop_fk_constraints and finish: the inductive invariant behind the four results below.
THEOREM JournalInvariant == ASSUME ~OverlappingRecreates PROVE Spec => []IInv
<1>. QED
  BY IInvInit, IInvStep, PTL DEF Spec

\* Wherever runs fail, die or lose their connection, a foreign key the
\* destination is meant to have is live or in the durable journal.
THEOREM NoFkIsLost == ASSUME ~OverlappingRecreates PROVE Spec => []NoFkLost
<1>1. IInv => NoFkLost
  BY DEF IInv
<1>. QED
  BY <1>1, JournalInvariant, PTL

\* A run that reports success leaves every foreign key live and no journal.
THEOREM SuccessIsComplete == ASSUME ~OverlappingRecreates PROVE Spec => []SuccessRestoresAll
<1>1. IInv => SuccessRestoresAll
  \* Without a journal NoFkLost leaves only one place for a key to be.
  BY DEF IInv, SuccessRestoresAll, NoFkLost, OwnersView, Owner, Locked
<1>. QED
  BY <1>1, JournalInvariant, PTL

\* A run that copies has a journal of its own configuration.
THEOREM OwnJournal == ASSUME ~OverlappingRecreates PROVE Spec => []CopiesUnderOwnJournal
<1>1. IInv => CopiesUnderOwnJournal
  BY DEF IInv, CopiesUnderOwnJournal, OwnersView, Owner, Locked, Prepared
<1>. QED
  BY <1>1, JournalInvariant, PTL

----------------------------------------------------------------------------
(* While connections last: the lock and the file.                          *)

\* A process that has not closed its connection has it.
Connected == \A p \in Procs : pc[p] \in Locked \cup {"locking"} => conn[p]

\* The lock is never left behind.
HolderAtWork == \A p \in Procs : lock = p => pc[p] \in Locked

\* The file holds what is about to be dropped.
FileIsWritten ==
    \A p \in Procs : pc[p] = "dropping" => \A f \in fks[p] : file[f] = all_fks[p][f]

\* Without connection losses a process past the lock is connected.
LEMMA ConnectedStep ==
    ASSUME ~ConnectionLoss, TypeOK, Connected, HolderAtWork, [Next]_vars
    PROVE  Connected' /\ HolderAtWork'
<1>. USE JournalAssumption DEF TypeOK, Connected, HolderAtWork, Goto, FreeLock, Locked
<1>1. CASE UNCHANGED vars
  BY <1>1 DEF vars
<1>2. ASSUME NEW p \in Procs, NEW c \in Configs, Start(p, c)
      PROVE  Connected' /\ HolderAtWork'
  BY <1>2 DEF Start
<1>3. ASSUME NEW p \in Procs, StartRecreate(p) PROVE Connected' /\ HolderAtWork'
  BY <1>3 DEF StartRecreate
<1>4. ASSUME NEW p \in Procs, Step(p) PROVE Connected' /\ HolderAtWork'
  <2>1. CASE AcquireLock(p)
    BY <2>1 DEF AcquireLock
  <2>2. CASE Prepare(p) \/ Reject(p) \/ RecordFks(p)
    BY <2>2 DEF Prepare, Reject, RecordFks
  <2>3. CASE TruncateFile(p) \/ WriteFile(p) \/ DropFks(p) \/ ReturnFks(p)
    BY <2>3 DEF TruncateFile, WriteFile, DropFks, ReturnFks
  <2>4. CASE CopySucceeds(p) \/ Fails(p) \/ Restore(p) \/ DropJournal(p)
    BY <2>4 DEF CopySucceeds, Fails, Restore, DropJournal
  <2>5. CASE FinishFails(p)
    BY <2>5 DEF FinishFails
  <2>6. CASE ReleaseLock(p)
    BY <2>6 DEF ReleaseLock
  <2>7. CASE Close(p)
    BY <2>7 DEF Close
  <2>8. CASE Teardown(p) \/ LoadSucceeds(p)
    BY <2>8 DEF Teardown, LoadSucceeds
  <2>9. CASE AddConstraints(p)
    BY <2>9 DEF AddConstraints
  <2>. QED
    BY <1>4, <2>1, <2>2, <2>3, <2>4, <2>5, <2>6, <2>7, <2>8, <2>9 DEF Step
<1>5. ASSUME NEW p \in Procs, Crash(p) PROVE Connected' /\ HolderAtWork'
  BY <1>5 DEF Crash
<1>6. ASSUME NEW p \in Procs, LoseConnection(p) PROVE Connected' /\ HolderAtWork'
  BY <1>6 DEF LoseConnection
<1>7. ASSUME NEW f \in Fks, AlterFk(f) PROVE Connected' /\ HolderAtWork'
  BY <1>7 DEF AlterFk
<1>. QED
  BY <1>1, <1>2, <1>3, <1>4, <1>5, <1>6, <1>7 DEF Next

\* Only the owner writes the file, so nobody overwrites it before the drop.
LEMMA FileStep ==
    ASSUME TypeOK, HolderOnly, Connected, FileIsWritten, [Next]_vars
    PROVE  FileIsWritten'
<1>. USE DEF TypeOK, FileIsWritten, Goto, ForgetLocals, ForgetAll, locals, database
<1>1. CASE UNCHANGED vars
  BY <1>1 DEF vars
<1>2. ASSUME NEW p \in Procs, NEW c \in Configs, Start(p, c) PROVE FileIsWritten'
  BY <1>2 DEF Start
<1>3. ASSUME NEW p \in Procs, StartRecreate(p) PROVE FileIsWritten'
  BY <1>3 DEF StartRecreate
<1>4. ASSUME NEW p \in Procs, Step(p) PROVE FileIsWritten'
  <2>1. CASE AcquireLock(p) \/ Prepare(p) \/ Reject(p)
    BY <2>1 DEF AcquireLock, Prepare, Reject
  <2>2. CASE RecordFks(p)
    \* The drop comes at once only when there is nothing to drop.
    <3>1. pc'[p] = "dropping" => fks'[p] = {}
      BY <2>2 DEF RecordFks, Having
    <3>2. \A q \in Procs \ {p} : pc'[q] = pc[q] /\ fks'[q] = fks[q] /\ all_fks'[q] = all_fks[q]
      BY <2>2 DEF RecordFks
    <3>. QED
      BY <2>2, <3>1, <3>2 DEF RecordFks
  <2>3. CASE TruncateFile(p) \/ WriteFile(p)
    <3>1. \A q \in Procs : pc[q] = "dropping" => q = p
      BY <2>3, OneOwner DEF TruncateFile, WriteFile, Owner, Locked, Connected
    <3>. QED
      BY <2>3, <3>1 DEF TruncateFile, WriteFile
  <2>4. CASE DropFks(p)
    <3>1. UNCHANGED <<file, fks, all_fks>> /\ pc' = [pc EXCEPT ![p] = "returning"]
      BY <2>4 DEF DropFks
    <3>. QED
      BY <3>1
  <2>10. CASE CopySucceeds(p)
    <3>1. UNCHANGED <<file, fks, all_fks>> /\ pc' = [pc EXCEPT ![p] = "restoring"]
      BY <2>10 DEF CopySucceeds
    <3>. QED
      BY <3>1
  <2>8. CASE ReturnFks(p)
    BY <2>8 DEF ReturnFks
  <2>9. CASE Fails(p)
    <3>1. UNCHANGED file /\ pc' = [pc EXCEPT ![p] = "restoring"]
      BY <2>9 DEF Fails
    <3>2. \A q \in Procs \ {p} : fks'[q] = fks[q] /\ all_fks'[q] = all_fks[q]
      BY <2>9 DEF Fails
    <3>. QED
      BY <3>1, <3>2
  <2>5. CASE Restore(p) \/ DropJournal(p) \/ FinishFails(p)
    <3>1. UNCHANGED <<file, fks, all_fks>>
      BY <2>5 DEF Restore, DropJournal, FinishFails
    <3>2. pc'[p] # "dropping" /\ \A q \in Procs \ {p} : pc'[q] = pc[q]
      BY <2>5 DEF Restore, DropJournal, FinishFails
    <3>. QED
      BY <3>1, <3>2
  <2>6. CASE ReleaseLock(p) \/ Close(p)
    BY <2>6 DEF ReleaseLock, Close
  <2>7. CASE Teardown(p) \/ LoadSucceeds(p) \/ AddConstraints(p)
    BY <2>7 DEF Teardown, LoadSucceeds, AddConstraints
  <2>. QED
    BY <1>4, <2>1, <2>2, <2>3, <2>4, <2>5, <2>6, <2>7, <2>8, <2>9, <2>10 DEF Step
<1>5. ASSUME NEW p \in Procs, Crash(p) PROVE FileIsWritten'
  BY <1>5 DEF Crash
<1>6. ASSUME NEW p \in Procs, LoseConnection(p) PROVE FileIsWritten'
  BY <1>6 DEF LoseConnection
<1>7. ASSUME NEW f \in Fks, AlterFk(f) PROVE FileIsWritten'
  BY <1>7 DEF AlterFk
<1>. QED
  BY <1>1, <1>2, <1>3, <1>4, <1>5, <1>6, <1>7 DEF Next

LInv == IInv /\ Connected /\ HolderAtWork /\ FileIsWritten

\* The strengthening for runs whose connections last.
LEMMA LockedInvariant ==
    ASSUME ~OverlappingRecreates, ~ConnectionLoss PROVE Spec => []LInv
<1>1. Init => LInv
  <2>1. Init => Connected /\ HolderAtWork /\ FileIsWritten
    BY JournalAssumption DEF Init, Connected, HolderAtWork, FileIsWritten, Locked
  <2>. QED
    BY <2>1, IInvInit DEF LInv
<1>2. LInv /\ [Next]_vars => LInv'
  BY IInvStep, ConnectedStep, FileStep DEF LInv, IInv
<1>. QED
  BY <1>1, <1>2, PTL DEF Spec

\* A key is only ever dropped by a run that has its definition both in the
\* durable table and in the file.
THEOREM DropsAreRecorded ==
    ASSUME ~OverlappingRecreates, ~ConnectionLoss PROVE Spec => DropsOnlyWhatIsWritten
<1>1. ASSUME LInv, NEW p \in Procs, DropFks(p), NEW f \in Fks,
             catalog[f] # NoDef, catalog'[f] = NoDef
      PROVE  backup[f] = catalog[f] /\ file[f] = catalog[f]
  <2>1. f \in fks[p]
    BY <1>1 DEF DropFks
  <2>2. OwnersView(p) /\ Owner(p) /\ pc[p] = "dropping"
    BY <1>1 DEF LInv, IInv, DropFks, Owner, Locked
  <2>3. backup[f] = catalog[f] /\ all_fks[p] = backup
    BY <2>1, <2>2 DEF OwnersView
  <2>4. file[f] = all_fks[p][f]
    BY <1>1, <2>1, <2>2 DEF LInv, FileIsWritten
  <2>. QED
    BY <2>3, <2>4
<1>2. LInv /\ [Next]_vars =>
        [\A p \in Procs : DropFks(p) =>
            \A f \in Fks : (catalog[f] # NoDef /\ catalog'[f] = NoDef) =>
                backup[f] = catalog[f] /\ file[f] = catalog[f]]_vars
  BY <1>1
<1>. QED
  BY <1>2, LockedInvariant, PTL DEF Spec, DropsOnlyWhatIsWritten
=============================================================================
