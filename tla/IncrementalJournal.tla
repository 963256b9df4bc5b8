------------------------- MODULE IncrementalJournal -------------------------
(***************************************************************************)
(* How incremental runs keep the destination's foreign keys safe: the      *)
(* advisory lock, the durable journal schema _condenser (run_state and     *)
(* fk_backup), the manual copy SQL/incremental_fk_backup.sql, dropping the *)
(* keys for the run and restoring them (psql_database_helper.py and        *)
(* backends/postgres.py). Processes are started, fail, are interrupted,    *)
(* are killed, or lose the connection that holds the lock; a recreate run  *)
(* takes no lock.                                                          *)
(*                                                                         *)
(* Every action is one transaction on the destination or one step of the   *)
(* process between two of them. What a run copies is modelled in           *)
(* MiddleOut; here a copy either succeeds or fails.                        *)
(***************************************************************************)
CONSTANTS
    Procs,       \* processes running db-condenser against one destination
    Fks,         \* foreign key names: (schema, table, constraint)
    Defs,        \* constraint definitions
    Configs,     \* effective configurations, as run_state hashes them
    SourceDef,   \* [Fks -> Defs]: the definitions in the source
    NoDef, NoConfig, NoProc,
    OverlappingRecreates, \* a recreate run may start while others are active
    ConnectionLoss        \* the destination may drop a main connection

ASSUME JournalAssumption ==
    /\ SourceDef \in [Fks -> Defs]
    /\ NoDef \notin Defs /\ NoConfig \notin Configs /\ NoProc \notin Procs
    /\ OverlappingRecreates \in BOOLEAN /\ ConnectionLoss \in BOOLEAN

VARIABLES
    catalog,   \* the foreign keys the destination has: [Fks -> Defs or NoDef]
    backup,    \* the rows of _condenser.fk_backup
    hash,      \* run_state's config_hash; NoConfig when there is no schema
    file,      \* SQL/incremental_fk_backup.sql
    lock,      \* holder of the advisory lock
    pc,        \* where each process is
    conf,      \* its configuration
    conn,      \* whether its main destination connection is up
    fks,       \* drop_fk_constraints: the live keys it read
    all_fks,   \* and the whole of fk_backup
    dropped,   \* _dropped_fks: what finish is to restore
    succeeded, \* main's flag
    installed  \* history: the keys the destination is meant to have

vars == <<catalog, backup, hash, file, lock, pc, conf, conn, fks, all_fks,
          dropped, succeeded, installed>>

----------------------------------------------------------------------------
NoFks == [f \in Fks |-> NoDef]
MaybeDefs == Defs \cup {NoDef}
Having(g) == {f \in Fks : g[f] # NoDef}

\* Between acquire_incremental_lock and release_incremental_lock.
Locked == {"preparing", "recording", "truncating", "writing", "dropping",
           "returning", "copying", "restoring", "unprep", "releasing"}
Recreating == {"teardown", "loading", "adding"}
Places == {"idle", "locking", "closing"} \cup Locked \cup Recreating

Active(q) == pc[q] # "idle"

Goto(p, place) == pc' = [pc EXCEPT ![p] = place]

\* The function's locals go with its return or its exception.
ForgetLocals(p) == /\ fks' = [fks EXCEPT ![p] = {}]
                   /\ all_fks' = [all_fks EXCEPT ![p] = NoFks]

\* The process's memory goes with the process.
ForgetAll(p) == /\ ForgetLocals(p)
                /\ conf' = [conf EXCEPT ![p] = NoConfig]
                /\ dropped' = [dropped EXCEPT ![p] = NoFks]
                /\ succeeded' = [succeeded EXCEPT ![p] = FALSE]

database == <<catalog, backup, hash, installed>>
locals == <<conf, fks, all_fks, dropped, succeeded>>

----------------------------------------------------------------------------
(* An incremental run: prepare_incremental.                                *)

\* The lock is tried once; main goes on to finish, which does nothing since
\* nothing was prepared, and closes the connections.
Start(p, c) ==
    /\ pc[p] = "idle"
    /\ \A q \in Procs : pc[q] \in Recreating => OverlappingRecreates
    /\ Goto(p, "locking")
    /\ conf' = [conf EXCEPT ![p] = c]
    /\ conn' = [conn EXCEPT ![p] = TRUE]
    /\ UNCHANGED <<database, file, lock, fks, all_fks, dropped, succeeded>>

\* Mutant: the result of pg_try_advisory_lock is ignored.
AcquireAnyway(p) ==
    /\ pc[p] = "locking"
    /\ lock' = (IF conn[p] THEN p ELSE lock)
    /\ Goto(p, IF conn[p] THEN "preparing" ELSE "closing")
    /\ UNCHANGED <<database, file, conn, locals>>

AcquireLock(p) ==
    /\ pc[p] = "locking"
    /\ IF conn[p] /\ lock = NoProc
       THEN lock' = p /\ Goto(p, "preparing")
       ELSE UNCHANGED lock /\ Goto(p, "closing")
    /\ UNCHANGED <<database, file, conn, locals>>

\* Mutants: a retained journal is started afresh; its hash is not compared.
PrepareAfresh(p) ==
    /\ pc[p] = "preparing" /\ conn[p]
    /\ hash' = conf[p] /\ backup' = NoFks
    /\ Goto(p, "recording")
    /\ UNCHANGED <<catalog, installed, file, lock, conn, locals>>
PrepareUnderAnyHash(p) ==
    /\ pc[p] = "preparing" /\ conn[p]
    /\ hash' = (IF hash = NoConfig THEN conf[p] ELSE hash)
    /\ Goto(p, "recording")
    /\ UNCHANGED <<catalog, backup, installed, file, lock, conn, locals>>

\* _prepare_incremental_state in the transaction of prep_incremental: a new
\* journal, or the retained one when it is of the same configuration.
Prepare(p) ==
    /\ pc[p] = "preparing" /\ conn[p]
    /\ hash \in {NoConfig, conf[p]}
    /\ hash' = conf[p]
    /\ backup' = IF hash = NoConfig THEN NoFks ELSE backup
    /\ Goto(p, "recording")
    /\ UNCHANGED <<catalog, installed, file, lock, conn, locals>>

\* A validation or a different configuration rejects the run; the transaction
\* is rolled back and the lock released.
Reject(p) ==
    /\ pc[p] = "preparing"
    /\ Goto(p, "releasing")
    /\ UNCHANGED <<database, file, lock, conn, locals>>

\* drop_fk_constraints, first transaction: every live key is recorded unless
\* it already is; a definition that differs from the retained one is an error.
Conflicts == \E f \in Having(catalog) : backup[f] \notin {NoDef, catalog[f]}

\* Mutant: the keys are dropped before the file is written.
RecordFksNoFile(p) ==
    /\ pc[p] = "recording" /\ conn[p]
    /\ ~Conflicts
    /\ backup' = [f \in Fks |-> IF f \in Having(catalog) THEN catalog[f] ELSE backup[f]]
    /\ fks' = [fks EXCEPT ![p] = Having(catalog)]
    /\ all_fks' = [all_fks EXCEPT ![p] = backup']
    /\ Goto(p, "dropping")
    /\ UNCHANGED <<catalog, hash, installed, file, lock, conn, conf, dropped, succeeded>>

RecordFks(p) ==
    /\ pc[p] = "recording" /\ conn[p]
    /\ ~Conflicts
    /\ backup' = [f \in Fks |-> IF f \in Having(catalog) THEN catalog[f] ELSE backup[f]]
    /\ fks' = [fks EXCEPT ![p] = Having(catalog)]
    /\ all_fks' = [all_fks EXCEPT ![p] = backup']
    /\ Goto(p, IF Having(backup') = {} THEN "dropping" ELSE "truncating")
    /\ UNCHANGED <<catalog, hash, installed, file, lock, conn, conf, dropped, succeeded>>

\* open(backup_path, "w") empties the file, the writes reach it afterwards.
TruncateFile(p) ==
    /\ pc[p] = "truncating"
    /\ file' = NoFks
    /\ Goto(p, "writing")
    /\ UNCHANGED <<database, lock, conn, locals>>

WriteFile(p) ==
    /\ pc[p] = "writing"
    /\ file' = all_fks[p]
    /\ Goto(p, "dropping")
    /\ UNCHANGED <<database, lock, conn, locals>>

\* Second transaction: the keys that were live are dropped, all or none.
DropFks(p) ==
    /\ pc[p] = "dropping" /\ conn[p]
    /\ fks[p] \subseteq Having(catalog)
    /\ catalog' = [f \in Fks |-> IF f \in fks[p] THEN NoDef ELSE catalog[f]]
    /\ Goto(p, "returning")
    /\ UNCHANGED <<backup, hash, installed, file, lock, conn, locals>>

\* Mutants: the names are returned instead of the definitions; the keys that
\* were live are returned instead of the whole backup.
ReturnNames(p) ==
    /\ pc[p] = "returning"
    /\ dropped' = [dropped EXCEPT ![p] = [f \in Fks |-> IF f \in fks[p] THEN f ELSE NoDef]]
    /\ ForgetLocals(p)
    /\ Goto(p, "copying")
    /\ UNCHANGED <<database, file, lock, conn, conf, succeeded>>
ReturnLiveOnly(p) ==
    /\ pc[p] = "returning"
    /\ dropped' = [dropped EXCEPT ![p] =
                      [f \in Fks |-> IF f \in fks[p] THEN all_fks[p][f] ELSE NoDef]]
    /\ ForgetLocals(p)
    /\ Goto(p, "copying")
    /\ UNCHANGED <<database, file, lock, conn, conf, succeeded>>

\* The result reaches _dropped_fks.
ReturnFks(p) ==
    /\ pc[p] = "returning"
    /\ dropped' = [dropped EXCEPT ![p] = all_fks[p]]
    /\ ForgetLocals(p)
    /\ Goto(p, "copying")
    /\ UNCHANGED <<database, file, lock, conn, conf, succeeded>>

\* The traversal and the user's SQL; the workers have connections of their own.
CopySucceeds(p) ==
    /\ pc[p] = "copying"
    /\ succeeded' = [succeeded EXCEPT ![p] = TRUE]
    /\ Goto(p, "restoring")
    /\ UNCHANGED <<database, file, lock, conn, conf, fks, all_fks, dropped>>

\* An error or an interrupt after the journal was prepared: main's finally
\* clause calls finish with what _dropped_fks holds by then.
Fails(p) ==
    /\ pc[p] \in {"recording", "truncating", "writing", "dropping", "returning", "copying"}
    /\ ForgetLocals(p)
    /\ Goto(p, "restoring")
    /\ UNCHANGED <<database, file, lock, conn, conf, dropped, succeeded>>

----------------------------------------------------------------------------
(* finish.                                                                 *)

\* restore_fk_constraints: one transaction; a key that exists with another
\* definition is an error.
Restore(p) ==
    /\ pc[p] = "restoring" /\ conn[p]
    /\ \A f \in Having(dropped[p]) : catalog[f] \in {NoDef, dropped[p][f]}
    /\ catalog' = [f \in Fks |-> IF f \in Having(dropped[p]) THEN dropped[p][f] ELSE catalog[f]]
    /\ Goto(p, IF succeeded[p] THEN "unprep" ELSE "releasing")
    /\ UNCHANGED <<backup, hash, installed, file, lock, conn, locals>>

\* unprep_incremental: DROP SCHEMA _condenser CASCADE.
DropJournal(p) ==
    /\ pc[p] = "unprep" /\ conn[p]
    /\ hash' = NoConfig /\ backup' = NoFks
    /\ Goto(p, "releasing")
    /\ UNCHANGED <<catalog, installed, file, lock, conn, locals>>

\* Dangling rows, a conflicting key or a lost connection: rollback and retain.
FinishFails(p) ==
    /\ pc[p] \in {"restoring", "unprep"}
    /\ succeeded' = [succeeded EXCEPT ![p] = FALSE]
    /\ Goto(p, "releasing")
    /\ UNCHANGED <<database, file, lock, conn, conf, fks, all_fks, dropped>>

FreeLock(p) == lock' = IF lock = p THEN NoProc ELSE lock

\* Mutant: the run is over with its session neither unlocked nor closed.
LeaveOpen(p) ==
    /\ pc[p] = "releasing"
    /\ Goto(p, "idle")
    /\ ForgetAll(p)
    /\ UNCHANGED <<database, file, lock, conn>>

ReleaseLock(p) ==
    /\ pc[p] = "releasing"
    /\ IF conn[p] THEN FreeLock(p) ELSE UNCHANGED lock
    /\ Goto(p, "closing")
    /\ UNCHANGED <<database, file, conn, locals>>

Close(p) ==
    /\ pc[p] = "closing"
    /\ FreeLock(p)
    /\ conn' = [conn EXCEPT ![p] = FALSE]
    /\ Goto(p, "idle")
    /\ ForgetAll(p)
    /\ UNCHANGED <<database, file>>

----------------------------------------------------------------------------
(* A recreate run: main's teardown, create and add_constraints.            *)

StartRecreate(p) ==
    /\ pc[p] = "idle"
    /\ \A q \in Procs : Active(q) => OverlappingRecreates
    /\ Goto(p, "teardown")
    /\ UNCHANGED <<database, file, lock, conn, locals>>

Teardown(p) ==
    /\ pc[p] = "teardown"
    /\ catalog' = NoFks /\ backup' = NoFks /\ hash' = NoConfig
    /\ installed' = NoFks
    /\ Goto(p, "loading")
    /\ UNCHANGED <<file, lock, conn, locals>>

LoadSucceeds(p) ==
    /\ pc[p] = "loading"
    /\ Goto(p, "adding")
    /\ UNCHANGED <<database, file, lock, conn, locals>>

\* psql goes on after an error, so any part of the post-data schema may make it.
AddConstraints(p) ==
    /\ pc[p] = "adding"
    /\ \E added \in SUBSET (Fks \ Having(catalog)) :
          /\ catalog' = [f \in Fks |-> IF f \in added THEN SourceDef[f] ELSE catalog[f]]
          /\ installed' = [f \in Fks |-> IF f \in added THEN SourceDef[f] ELSE installed[f]]
    /\ Goto(p, "idle")
    /\ UNCHANGED <<backup, hash, file, lock, conn, locals>>

----------------------------------------------------------------------------
(* The environment.                                                        *)

\* The process dies; the server ends its session and with it the lock.
Crash(p) ==
    /\ Active(p)
    /\ FreeLock(p)
    /\ conn' = [conn EXCEPT ![p] = FALSE]
    /\ Goto(p, "idle")
    /\ ForgetAll(p)
    /\ UNCHANGED <<database, file>>

\* The server drops the session that holds the lock; the process finds out
\* when it next uses that connection.
LoseConnection(p) ==
    /\ ConnectionLoss /\ conn[p]
    /\ FreeLock(p)
    /\ conn' = [conn EXCEPT ![p] = FALSE]
    /\ UNCHANGED <<database, file, pc, locals>>

\* Between runs somebody adds or drops a foreign key by hand.
AlterFk(f) ==
    /\ \A q \in Procs : ~Active(q)
    /\ \E d \in IF catalog[f] = NoDef THEN Defs ELSE {NoDef} :
          /\ catalog' = [catalog EXCEPT ![f] = d]
          /\ installed' = [installed EXCEPT ![f] = d]
    /\ UNCHANGED <<backup, hash, file, lock, pc, conn, locals>>

----------------------------------------------------------------------------
Init ==
    /\ catalog = NoFks /\ installed = NoFks
    /\ backup = NoFks /\ hash = NoConfig /\ file = NoFks /\ lock = NoProc
    /\ pc = [p \in Procs |-> "idle"]
    /\ conf = [p \in Procs |-> NoConfig]
    /\ conn = [p \in Procs |-> FALSE]
    /\ fks = [p \in Procs |-> {}]
    /\ all_fks = [p \in Procs |-> NoFks]
    /\ dropped = [p \in Procs |-> NoFks]
    /\ succeeded = [p \in Procs |-> FALSE]

\* What a started process does, whatever comes of it.
Step(p) ==
    \/ AcquireLock(p) \/ Prepare(p) \/ Reject(p)
    \/ RecordFks(p) \/ TruncateFile(p) \/ WriteFile(p) \/ DropFks(p) \/ ReturnFks(p)
    \/ CopySucceeds(p) \/ Fails(p)
    \/ Restore(p) \/ DropJournal(p) \/ FinishFails(p) \/ ReleaseLock(p) \/ Close(p)
    \/ Teardown(p) \/ LoadSucceeds(p) \/ AddConstraints(p)

Next ==
    \/ \E p \in Procs : \/ \E c \in Configs : Start(p, c)
                        \/ StartRecreate(p) \/ Step(p)
                        \/ Crash(p) \/ LoseConnection(p)
    \/ \E f \in Fks : AlterFk(f)

Spec == Init /\ [][Next]_vars

\* A started process keeps executing; nobody has to start one.
FairSpec == Spec /\ \A p \in Procs : WF_vars(Step(p))

----------------------------------------------------------------------------
(* Properties.                                                             *)

\* The type of every variable.
TypeOK ==
    /\ catalog \in [Fks -> MaybeDefs] /\ backup \in [Fks -> MaybeDefs]
    /\ file \in [Fks -> MaybeDefs] /\ installed \in [Fks -> MaybeDefs]
    /\ hash \in Configs \cup {NoConfig} /\ lock \in Procs \cup {NoProc}
    /\ pc \in [Procs -> Places] /\ conf \in [Procs -> Configs \cup {NoConfig}]
    /\ conn \in [Procs -> BOOLEAN] /\ succeeded \in [Procs -> BOOLEAN]
    /\ fks \in [Procs -> SUBSET Fks]
    /\ all_fks \in [Procs -> [Fks -> MaybeDefs]]
    /\ dropped \in [Procs -> [Fks -> MaybeDefs]]

\* Whatever fails, dies or loses its connection, and wherever it does: a
\* foreign key the destination is meant to have is either live, or its exact
\* definition is in the durable journal from which the next run restores it.
NoFkLost ==
    \A f \in Having(installed) :
        \/ catalog[f] = installed[f]
        \/ hash # NoConfig /\ backup[f] = installed[f]

\* When an incremental run reports success, every foreign key is live again,
\* also those an earlier failed run had dropped, and the journal is gone.
SuccessRestoresAll ==
    \A p \in Procs : (pc[p] = "releasing" /\ succeeded[p] /\ conn[p]) =>
        /\ hash = NoConfig
        /\ \A f \in Having(installed) : catalog[f] = installed[f]

\* A run copies under a journal of its own configuration only: its deltas are
\* never mixed with those of a failed run with other targets or identities.
CopiesUnderOwnJournal ==
    \A p \in Procs : (pc[p] = "copying" /\ conn[p]) => hash = conf[p]

\* A process past the lock whose connection is up is the lock's holder, so
\* there is one at most.
HolderOnly ==
    \A p \in Procs : (pc[p] \in Locked /\ conn[p]) => lock = p

\* A key is dropped only when its definition is in both recovery copies: the
\* durable table and the file.
DropsOnlyWhatIsWritten ==
    [][\A p \in Procs : DropFks(p) =>
          \A f \in Fks : (catalog[f] # NoDef /\ catalog'[f] = NoDef) =>
              backup[f] = catalog[f] /\ file[f] = catalog[f]]_vars

\* A run that holds the lock lets go of it, however it ends.
LockIsReleased == \A p \in Procs : lock = p ~> lock # p
=============================================================================
