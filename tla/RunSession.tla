----------------------------- MODULE RunSession -----------------------------
(***************************************************************************)
(* One run of the command line, from the session that opens its            *)
(* connections (BaseRunSession, PostgresRunSession) through the stages of  *)
(* the traversal, with the worker connections of their thread pools, to    *)
(* the constraints, finish and close: which connections are open, which    *)
(* version of the changing source each of them sees, whether the main      *)
(* destination connection sits in a transaction that holds table locks,    *)
(* and where exceptions and interrupts lead.                               *)
(*                                                                         *)
(* What the stages copy is MiddleOut; what finish does to the journal and  *)
(* the keys is IncrementalJournal.                                         *)
(***************************************************************************)
EXTENDS Naturals, Sequences, FiniteSets

CONSTANTS
    Tables,
    Plans,         \* sequences of stages, each with the tables its thread pool
                   \* copies, those the main thread copies, its phase, and
                   \* which of its tables a relationship that is not broken
                   \* refers to
    PoolReaders,   \* names of the pool's connections; none without a pool
    TableWorkers,  \* width of the table-level thread pool
    NoVersion,
    MaxChanges,    \* bound: source transactions
    MaxInterrupts  \* bound: Ctrl-C

Phases == {"direct", "upstream", "passthrough", "downstream", "disconnected"}
Stage == [workers : SUBSET Tables, main : SUBSET Tables, phase : Phases,
          referenced : SUBSET Tables]
Session == {"source", "dest"} \cup PoolReaders
Readers == {"source"} \cup PoolReaders

ASSUME SessionAssumption ==
    /\ Plans \subseteq Seq(Stage)
    /\ {"source", "dest"} \cap PoolReaders = {} /\ Session \cap Tables = {}
    /\ TableWorkers \in Nat \ {0} /\ MaxChanges \in Nat /\ MaxInterrupts \in Nat
    /\ NoVersion \notin Nat

VARIABLES
    plan, incremental, \* what the run is to do: constant
    at,         \* where the main thread is
    stage,      \* index of the stage of the plan
    left,       \* tables the main thread has still to copy in this stage
    task,       \* [Tables -> state of the table's worker in this stage]
    owned,      \* the session's _connections
    open,       \* the session's connections that are open on a server
    leaked,     \* tables whose worker left its source connection open
    sees,       \* [readers and tables -> source version their transaction sees]
    exported,   \* version of the exported snapshot
    reads,      \* versions that copied rows came from
    locked,     \* the main destination transaction holds table locks
    raised,     \* an interrupt waits for the thread pool to run dry
    broke,      \* history: some part of the run has raised
    result,     \* "none", "succeeded" or "failed"
    version, interrupts

vars == <<plan, incremental, at, stage, left, task, owned, open, leaked, sees, exported,
          reads, locked, raised, broke, result, version, interrupts>>

conns == <<owned, open, sees, exported>>
copying == <<stage, left, task, leaked, reads>>
ending == <<raised, broke, result>>
world == <<plan, incremental, version, interrupts>>

Places == {"opening", "preparing", "copying", "pre-sql", "constraints", "post-sql",
           "finishing", "closing", "ended"}

Connecting == {t \in Tables : task[t] \in {"opened", "imported"}}
AtWork == Connecting \cup {t \in Tables : task[t] = "copying"}
Queued == {t \in Tables : task[t] = "queued"}
Pending == Queued \cup AtWork

\* An exception takes the main thread to the next finally.
Raise(where) == at' = where /\ broke' = TRUE /\ result' = "failed"

----------------------------------------------------------------------------
(* The session opens (BaseRunSession.__init__, _initialize).               *)

OpenMain(c) ==
    /\ at = "opening" /\ c \notin owned
    /\ c = "dest" => "source" \in owned
    /\ owned' = owned \cup {c} /\ open' = open \cup {c}
    /\ UNCHANGED <<at, sees, exported, copying, locked, ending, world>>

\* The first statement fixes what the transaction sees; it is exported.
Export ==
    /\ at = "opening" /\ {"source", "dest"} \subseteq owned /\ exported = NoVersion
    /\ exported' = version
    /\ sees' = [sees EXCEPT !["source"] = version]
    /\ UNCHANGED <<at, owned, open, copying, locked, ending, world>>

OpenReader(r) ==
    /\ at = "opening" /\ exported # NoVersion /\ open = owned /\ r \notin open
    /\ open' = open \cup {r}
    /\ UNCHANGED <<at, owned, sees, exported, copying, locked, ending, world>>

ImportReader(r) ==
    /\ at = "opening" /\ r \in open \ owned
    /\ sees' = [sees EXCEPT ![r] = exported]
    /\ owned' = owned \cup {r}
    /\ UNCHANGED <<at, open, exported, copying, locked, ending, world>>

Opened ==
    /\ at = "opening" /\ owned = Session /\ exported # NoVersion
    /\ at' = "preparing"
    /\ UNCHANGED <<conns, copying, locked, ending, world>>

\* Mutant: a reader that could not import the snapshot is not closed.
OpenFailsLeaving ==
    /\ at = "opening" /\ Raise("closing")
    /\ UNCHANGED <<owned, open, sees, exported, copying, locked, raised, world>>

\* A connection, a check or an import fails. A reader that could not import is
\* closed by open_source_connection, all others by close.
OpenFails ==
    /\ at = "opening" /\ Raise("closing")
    /\ open' = owned
    /\ UNCHANGED <<owned, sees, exported, copying, locked, raised, world>>

----------------------------------------------------------------------------
(* The stages.                                                             *)

\* The next stage's tables are queued, or the traversal is done.
Enter(n) ==
    /\ stage' = n
    /\ IF n <= Len(plan)
       THEN /\ at' = "copying"
            /\ left' = plan[n].main
            /\ task' = [t \in Tables |-> IF t \in plan[n].workers THEN "queued" ELSE "idle"]
       ELSE /\ at' = "pre-sql" /\ left' = {}
            /\ task' = [t \in Tables |-> "idle"]

\* prep_temp_dbs; prepare_incremental commits what it does.
Prepare ==
    /\ at = "preparing" /\ Enter(1)
    /\ UNCHANGED <<conns, leaked, reads, locked, ending, world>>

OpenWorker(t) ==
    /\ task[t] = "queued" /\ Cardinality(AtWork) < TableWorkers
    /\ task' = [task EXCEPT ![t] = "opened"]
    /\ UNCHANGED <<at, stage, left, leaked, reads, conns, locked, ending, world>>

\* Mutant: the connection sees whatever is there when it looks.
ImportNothing(t) ==
    /\ task[t] = "opened"
    /\ task' = [task EXCEPT ![t] = "imported"]
    /\ sees' = [sees EXCEPT ![t] = version]
    /\ UNCHANGED <<at, owned, open, exported, stage, left, leaked, reads, locked, ending, world>>

\* A snapshot can be imported as long as the exporting transaction lasts.
Import(t) ==
    /\ task[t] = "opened" /\ "source" \in open
    /\ task' = [task EXCEPT ![t] = "imported"]
    /\ sees' = [sees EXCEPT ![t] = exported]
    /\ UNCHANGED <<at, owned, open, exported, stage, left, leaked, reads, locked, ending, world>>

Connect(t) ==
    /\ task[t] = "imported"
    /\ task' = [task EXCEPT ![t] = "copying"]
    /\ UNCHANGED <<at, stage, left, leaked, reads, conns, locked, ending, world>>

\* The destination cannot be reached: the source connection, opened before the
\* try statement, stays open with the exception.
ConnectFails(t) ==
    /\ task[t] = "imported"
    /\ task' = [task EXCEPT ![t] = "failed"]
    /\ leaked' = leaked \cup {t} /\ broke' = TRUE
    /\ UNCHANGED <<at, stage, left, reads, conns, locked, raised, result, world>>

WorkerReads(t) ==
    /\ task[t] = "copying"
    /\ reads' = reads \cup {sees[t]}
    /\ UNCHANGED <<at, stage, left, task, leaked, conns, locked, ending, world>>

\* Both connections are closed on either way out.
WorkerEnds(t) ==
    /\ task[t] = "copying"
    /\ task' = [task EXCEPT ![t] = "done"]
    /\ UNCHANGED <<at, stage, left, leaked, reads, conns, locked, ending, world>>

WorkerFails(t) ==
    /\ task[t] \in {"queued", "opened", "copying"}
    /\ task[t] = "queued" => Cardinality(AtWork) < TableWorkers
    /\ task' = [task EXCEPT ![t] = "failed"]
    /\ broke' = TRUE
    /\ UNCHANGED <<at, stage, left, leaked, reads, conns, locked, raised, result, world>>

Failed == {t \in Tables : task[t] = "failed"}

\* What a table copied by the main thread does to the transaction of the main
\* destination connection. copy_rows commits it, and so does the downstream
\* step of a table that others refer to, whether or not it finds anything, but
\* for an incremental run whose deltas are empty.
Commits(t, s) ==
    \/ s.phase = "disconnected"
    \/ s.phase = "downstream" /\ t \in s.referenced /\ ~incremental

\* Passthrough tables have connections of their own; the downstream step of a
\* table that nothing refers to returns at once.
LeavesAlone(t, s) ==
    s.phase = "passthrough" \/ (s.phase = "downstream" /\ t \notin s.referenced)

\* An upstream table reads its parents' IDs over the connection, and only a copy
\* over the same connection commits: a fan-out does not, nor does a table that
\* turns out to have nothing to copy.
LockAfter(t, s) ==
    {l \in BOOLEAN : /\ l => locked \/ s.phase = "upstream"
                     /\ Commits(t, s) => ~l
                     /\ LeavesAlone(t, s) => l = locked}

\* The main thread and the pool it splits a table over read through the
\* session's connections. It comes to its own tables when the pool has run dry.
MainCopies(t) ==
    /\ at = "copying" /\ ~raised /\ Pending = {} /\ Failed = {}
    /\ t \in left /\ left' = left \ {t}
    /\ reads' = reads \cup {sees[c] : c \in Readers}
    /\ locked' \in LockAfter(t, plan[stage])
    /\ UNCHANGED <<at, stage, task, leaked, conns, ending, world>>

EndStage ==
    /\ at = "copying" /\ ~raised /\ Pending = {} /\ Failed = {} /\ left = {}
    /\ Enter(stage + 1)
    /\ UNCHANGED <<conns, leaked, reads, locked, ending, world>>

\* Mutants: the exception does not wait for the other tables; interrupts are
\* forgotten; failures of workers are not looked at.
StageFailsAtOnce ==
    /\ at = "copying" /\ (raised \/ Failed # {})
    /\ Raise("finishing") /\ raised' = FALSE
    /\ UNCHANGED <<conns, copying, locked, world>>
StageFailsByTables ==
    /\ at = "copying" /\ Pending = {} /\ (Failed # {} \/ left # {})
    /\ Raise("finishing") /\ raised' = FALSE
    /\ UNCHANGED <<conns, copying, locked, world>>
StageFailsUnseen ==
    /\ at = "copying" /\ Pending = {} /\ Failed # {}
    /\ task' = [t \in Tables |-> IF t \in Failed THEN "done" ELSE task[t]]
    /\ UNCHANGED <<at, stage, left, leaked, reads, conns, locked, ending, world>>

\* A failed future or an interrupt leaves the stage when every table that was
\* submitted has been tried; so does a failure of the main thread's own copy.
StageFails ==
    /\ at = "copying" /\ Pending = {} /\ (raised \/ Failed # {} \/ left # {})
    /\ Raise("finishing") /\ raised' = FALSE
    /\ UNCHANGED <<conns, copying, locked, world>>

----------------------------------------------------------------------------
(* After the copy.                                                         *)

\* Statements of the user, on connections of their own, each committed. An
\* incremental run, or --no-constraints, leaves the constraints out.
PreSql ==
    /\ at = "pre-sql"
    /\ at' \in IF incremental THEN {"post-sql"} ELSE {"constraints", "post-sql"}
    /\ UNCHANGED <<conns, copying, locked, ending, world>>

\* psql creates keys and indexes: it waits for every lock on the tables, and
\* the main thread waits for psql.
AddConstraints ==
    /\ at = "constraints" /\ ~locked
    /\ at' = "post-sql"
    /\ UNCHANGED <<conns, copying, locked, ending, world>>

\* Post-subset SQL, sequences and the tabulation.
PostSql ==
    /\ at = "post-sql"
    /\ at' = "finishing" /\ result' = "succeeded"
    /\ UNCHANGED <<conns, copying, locked, raised, broke, world>>

StepFails ==
    /\ at \in {"preparing", "pre-sql", "constraints", "post-sql"}
    /\ Raise("finishing")
    /\ UNCHANGED <<conns, copying, locked, raised, world>>

\* An incremental run rolls its main transaction back before it restores the
\* keys; what it does in case of an error is IncrementalJournal.
Finish ==
    /\ at = "finishing" /\ at' = "closing"
    /\ locked' = IF incremental THEN FALSE ELSE locked
    /\ UNCHANGED <<conns, copying, ending, world>>

FinishFails ==
    /\ at = "finishing" /\ incremental /\ Raise("closing")
    /\ locked' = FALSE
    /\ UNCHANGED <<conns, copying, raised, world>>

\* Mutant: closed connections stay in the list.
CloseKeeping(c) ==
    /\ at = "closing" /\ c \in owned
    /\ open' = open \ {c}
    /\ locked' = IF c = "dest" THEN FALSE ELSE locked
    /\ UNCHANGED <<at, owned, sees, exported, copying, ending, world>>

\* close: every connection, whatever the others raise. An open transaction
\* ends with its connection.
Close(c) ==
    /\ at = "closing" /\ c \in owned
    /\ owned' = owned \ {c} /\ open' = open \ {c}
    /\ locked' = IF c = "dest" THEN FALSE ELSE locked
    /\ \/ UNCHANGED <<broke, result>>
       \/ broke' = TRUE /\ result' = "failed"
    /\ UNCHANGED <<at, sees, exported, copying, raised, world>>

End ==
    /\ at = "closing" /\ owned = {}
    /\ at' = "ended"
    /\ UNCHANGED <<conns, copying, locked, ending, world>>

----------------------------------------------------------------------------
(* Ctrl-C, and the world.                                                  *)

\* The pool's context manager waits on, once.
PoolWaits == at = "copying" /\ Pending # {} /\ ~raised

Interrupt ==
    /\ interrupts < MaxInterrupts
    /\ interrupts' = interrupts + 1
    /\ \/ at = "opening" /\ Raise("closing") /\ open' = owned /\ UNCHANGED raised
       \/ PoolWaits /\ raised' = TRUE /\ broke' = TRUE /\ UNCHANGED <<at, open, result>>
       \/ /\ at \in {"preparing", "copying", "pre-sql", "constraints", "post-sql"} /\ ~PoolWaits
          /\ Raise("finishing") /\ raised' = FALSE /\ UNCHANGED open
       \/ at \in {"finishing", "closing"} /\ Raise("closing") /\ UNCHANGED <<open, raised>>
    /\ UNCHANGED <<plan, incremental, version, owned, sees, exported, copying, locked>>

SourceChange ==
    /\ version < MaxChanges
    /\ version' = version + 1
    /\ UNCHANGED <<plan, incremental, interrupts, at, conns, copying, locked, ending>>

Init ==
    /\ plan \in Plans /\ incremental \in BOOLEAN
    /\ at = "opening" /\ stage = 0 /\ left = {} /\ task = [t \in Tables |-> "idle"]
    /\ owned = {} /\ open = {} /\ leaked = {}
    /\ sees = [c \in Readers \cup Tables |-> NoVersion] /\ exported = NoVersion
    /\ reads = {} /\ locked = FALSE
    /\ raised = FALSE /\ broke = FALSE /\ result = "none"
    /\ version = 0 /\ interrupts = 0

MainStep ==
    \/ \E c \in {"source", "dest"} : OpenMain(c)
    \/ Export \/ \E r \in PoolReaders : OpenReader(r) \/ ImportReader(r)
    \/ Opened \/ Prepare
    \/ \E t \in Tables : MainCopies(t)
    \/ EndStage \/ StageFails
    \/ PreSql \/ AddConstraints \/ PostSql \/ Finish
    \/ \E c \in Session : Close(c)
    \/ End

WorkerStep(t) == OpenWorker(t) \/ Import(t) \/ Connect(t) \/ WorkerEnds(t)

Failure ==
    \/ OpenFails \/ StepFails \/ FinishFails
    \/ \E t \in Tables : ConnectFails(t) \/ WorkerFails(t)

Next ==
    \/ MainStep \/ \E t \in Tables : WorkerStep(t) \/ WorkerReads(t)
    \/ Failure \/ Interrupt \/ SourceChange

Spec == Init /\ [][Next]_vars

\* The main thread and every thread of a pool keep running, and the server
\* grants a lock that nobody holds.
FairSpec == Spec /\ WF_vars(MainStep) /\ \A t \in Tables : WF_vars(WorkerStep(t))

----------------------------------------------------------------------------
(* Properties.                                                             *)

\* The type of every variable.
TypeOK ==
    /\ plan \in Plans /\ incremental \in BOOLEAN /\ at \in Places
    /\ stage \in Nat /\ left \subseteq Tables
    /\ task \in [Tables -> {"idle", "queued", "opened", "imported", "copying", "done", "failed"}]
    /\ owned \subseteq open /\ open \subseteq Session /\ leaked \subseteq Tables
    /\ sees \in [Readers \cup Tables -> Nat \cup {NoVersion}]
    /\ exported \in Nat \cup {NoVersion}
    /\ reads \subseteq Nat \cup {NoVersion}
    /\ locked \in BOOLEAN /\ raised \in BOOLEAN /\ broke \in BOOLEAN
    /\ result \in {"none", "succeeded", "failed"}
    /\ version \in Nat /\ interrupts \in 0 .. MaxInterrupts

\* All that is copied comes from one version of the source, whichever
\* connections read it and however late they were opened: rows of different
\* tables fit together although the source goes on changing.
OneSnapshot == reads \subseteq {exported}

\* From the end of the traversal on, on every path, no worker is connected or
\* still to start: constraints, the restoration of foreign keys and the close
\* of the exporting connection do not meet a copy in progress. (A second
\* interrupt does not wait for the thread pool.)
FinishesAlone ==
    interrupts <= 1 /\ at \notin {"opening", "preparing", "copying"} => Pending = {}

\* However the run ends, it leaves no connection of the session open, not even
\* one that was opened half-way, and no lock behind.
AllReleased == at = "ended" => open = {} /\ ~locked

\* A run says it has succeeded only when nothing in it has raised.
SuccessIsEarned == result = "succeeded" => ~broke

\* The run ends, whatever fails, unless psql waits for a lock of the main
\* connection.
Stuck == at = "constraints" /\ locked
EndsUnlessStuck == <>(at = "ended") \/ <>[]Stuck

----------------------------------------------------------------------------
(* What the code says and does not do.                                     *)

\* RunSession (contracts.py): "finish restores run state; close always releases
\* connections".
RunEnds == <>(at = "ended")
=============================================================================
