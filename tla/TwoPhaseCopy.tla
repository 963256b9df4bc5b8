--------------------------- MODULE TwoPhaseCopy ---------------------------
(***************************************************************************)
(* The two-phase parallel copy of one table in an incremental run          *)
(* (__copy_table_ctid_parallel with stage_rows and apply_staged): the      *)
(* table has a unique index beyond its identity, the workers split the     *)
(* source by page ranges, and refreshes of existing rows must land before  *)
(* new rows are inserted.                                                  *)
(*                                                                         *)
(* A row is its identity and the value the secondary index sees; Free      *)
(* values (a partial index that does not cover the row) never clash. One   *)
(* apply_staged is one statement and one transaction: it writes its rows   *)
(* in an order of the server's choosing, checking the index at every row.  *)
(***************************************************************************)
EXTENDS Naturals, FiniteSets, Sequences

CONSTANTS
    Workers,     \* one per connection of the source pool
    Ids,         \* row identities
    Keys,        \* values the secondary unique index covers
    Free,        \* a value it does not cover
    Absent,      \* no such row
    Layouts,     \* source, destination and page ranges a copy may start from
    MayFail,     \* statements and connections may fail
    MayFailToConnect \* so may opening a worker's destination connection

Values == Keys \cup {Free}

Unique(t) == \A i, j \in Ids : (t[i] \in Keys /\ t[i] = t[j]) => i = j
Live(t) == {i \in Ids : t[i] # Absent}

\* The source respects the index, and so does the earlier subset.
ASSUME CopyAssumption ==
    /\ Workers # {} /\ IsFiniteSet(Workers) /\ IsFiniteSet(Ids)
    /\ Free \notin Keys /\ Absent \notin Keys \cup {Free}
    /\ \A l \in Layouts : /\ l.source \in [Ids -> Values \cup {Absent}] /\ Unique(l.source)
                          /\ l.dest \in [Ids -> Values \cup {Absent}] /\ Unique(l.dest)
                          /\ l.range \in [Ids -> Workers]
    /\ MayFail \in BOOLEAN /\ MayFailToConnect \in BOOLEAN

VARIABLES
    source,    \* the snapshot: [Ids -> value or Absent]
    range,     \* [Ids -> Workers]: whose page range a source row is in
    dest,      \* committed destination rows
    pc,        \* where each worker is
    staged,    \* rows of its staging table
    queue,     \* rows its statement has still to write, in order
    written,   \* rows its open transaction has written
    arrived,   \* workers at the barrier, or past it
    broken,    \* the barrier is broken
    refreshed, \* history: workers whose refresh committed
    clashes    \* history: unique violations, as <<phase, row, holder>>

vars == <<source, range, dest, pc, staged, queue, written, arrived, broken,
          refreshed, clashes>>

Places == {"connecting", "staging", "refreshing", "waiting", "inserting",
           "done", "failed"}
Phases == {"refreshing", "inserting"}

\* The rows of a statement in every order.
Orders(S) == {q \in [1 .. Cardinality(S) -> S] : \A i \in S : \E n \in DOMAIN q : q[n] = i}

Goto(w, place) == pc' = [pc EXCEPT ![w] = place]

----------------------------------------------------------------------------
(* Locks and the unique index.                                             *)

\* The row a statement is about to write.
Current(w) == Head(queue[w])
Writing(w) == pc[w] \in Phases /\ queue[w] # <<>>

\* Another transaction has this key at stake: it writes it, or writes over it.
BlockedBy(w, u) ==
    /\ u # w /\ Writing(w) /\ source[Current(w)] \in Keys
    /\ \E j \in written[u] \ {Current(w)} :
          source[Current(w)] \in {source[j], dest[j]}

Blocked(w) == \E u \in Workers : BlockedBy(w, u)

\* The rows, as this transaction sees them, that hold the key already.
Holders(w) ==
    {j \in Ids \ {Current(w)} :
        /\ source[Current(w)] \in Keys
        /\ source[Current(w)] = (IF j \in written[w] THEN source[j] ELSE dest[j])}

\* Transactions waiting for each other in a circle.
Deadlocked(w) ==
    \E C \in SUBSET Workers : /\ w \in C
                              /\ \A u \in C : \E x \in C : BlockedBy(u, x)

----------------------------------------------------------------------------
(* A worker.                                                               *)

Connect(w) ==
    /\ pc[w] = "connecting"
    /\ Goto(w, "staging")
    /\ UNCHANGED <<source, range, dest, staged, queue, written, arrived, broken,
                   refreshed, clashes>>

\* get_db_connection is called before the try statement: nothing breaks the
\* barrier when it raises.
ConnectFails(w) ==
    /\ MayFailToConnect /\ pc[w] = "connecting"
    /\ Goto(w, "failed")
    /\ UNCHANGED <<source, range, dest, staged, queue, written, arrived, broken,
                   refreshed, clashes>>

\* Mutant: rows the destination has are left alone.
ToRefreshNothing(S) == {}

\* The rows apply_staged selects: those whose identity the destination has,
\* or has not; unchanged ones are skipped by the upsert's guard.
ToRefresh(S) == {i \in S \cap Live(dest) : dest[i] # source[i]}
ToInsert(S) == S \ Live(dest)

\* stage_rows, and the start of the refresh statement.
Stage(w) ==
    /\ pc[w] = "staging"
    /\ LET S == {i \in Live(source) : range[i] = w} IN
          /\ staged' = [staged EXCEPT ![w] = S]
          /\ \E q \in Orders(ToRefresh(S)) : queue' = [queue EXCEPT ![w] = q]
    /\ Goto(w, "refreshing")
    /\ UNCHANGED <<source, range, dest, written, arrived, broken, refreshed, clashes>>

\* Mutant: the row's key is remembered instead of its identity.
WriteRowByKey(w) ==
    /\ Writing(w) /\ ~Blocked(w) /\ Holders(w) = {}
    /\ written' = [written EXCEPT ![w] = @ \cup {source[Current(w)]}]
    /\ queue' = [queue EXCEPT ![w] = Tail(@)]
    /\ UNCHANGED <<source, range, dest, pc, staged, arrived, broken, refreshed, clashes>>

WriteRow(w) ==
    /\ Writing(w) /\ ~Blocked(w) /\ Holders(w) = {}
    /\ written' = [written EXCEPT ![w] = @ \cup {Current(w)}]
    /\ queue' = [queue EXCEPT ![w] = Tail(@)]
    /\ UNCHANGED <<source, range, dest, pc, staged, arrived, broken, refreshed, clashes>>

Committed(w) == [i \in Ids |-> IF i \in written[w] THEN source[i] ELSE dest[i]]

\* The refresh is committed and the worker is at the barrier; the last one to
\* arrive opens it, unless it is broken.
CommitRefresh(w) ==
    /\ pc[w] = "refreshing" /\ queue[w] = <<>>
    /\ dest' = Committed(w)
    /\ written' = [written EXCEPT ![w] = {}]
    /\ refreshed' = refreshed \cup {w}
    /\ arrived' = IF broken THEN arrived ELSE arrived \cup {w}
    /\ Goto(w, "waiting")
    /\ UNCHANGED <<source, range, staged, queue, broken, clashes>>

\* Mutant: workers go on without waiting for each other.
PassAlone(w) ==
    /\ pc[w] = "waiting" /\ ~broken
    /\ \E q \in Orders(ToInsert(staged[w])) : queue' = [queue EXCEPT ![w] = q]
    /\ Goto(w, "inserting")
    /\ UNCHANGED <<source, range, dest, staged, written, arrived, broken,
                   refreshed, clashes>>

PassBarrier(w) ==
    /\ pc[w] = "waiting" /\ arrived = Workers /\ ~broken
    /\ \E q \in Orders(ToInsert(staged[w])) : queue' = [queue EXCEPT ![w] = q]
    /\ Goto(w, "inserting")
    /\ UNCHANGED <<source, range, dest, staged, written, arrived, broken,
                   refreshed, clashes>>

CommitInsert(w) ==
    /\ pc[w] = "inserting" /\ queue[w] = <<>>
    /\ dest' = Committed(w)
    /\ written' = [written EXCEPT ![w] = {}]
    /\ staged' = [staged EXCEPT ![w] = {}]
    /\ Goto(w, "done")
    /\ UNCHANGED <<source, range, queue, arrived, broken, refreshed, clashes>>

\* Mutant: the barrier is not aborted.
AbortQuietly(w) ==
    /\ written' = [written EXCEPT ![w] = {}]
    /\ queue' = [queue EXCEPT ![w] = <<>>]
    /\ Goto(w, "failed")
    /\ UNCHANGED <<source, range, dest, staged, arrived, broken, refreshed>>

\* The exception handler: rollback, barrier.abort(), and out. A worker that
\* waits at the barrier when it is broken leaves the same way.
Abort(w) ==
    /\ written' = [written EXCEPT ![w] = {}]
    /\ queue' = [queue EXCEPT ![w] = <<>>]
    /\ broken' = TRUE
    /\ Goto(w, "failed")
    /\ UNCHANGED <<source, range, dest, staged, arrived, refreshed>>

Violation(w) ==
    /\ Writing(w) /\ ~Blocked(w) /\ Holders(w) # {}
    /\ clashes' = clashes \cup {<<pc[w], Current(w), j>> : j \in Holders(w)}
    /\ Abort(w)

DeadlockVictim(w) == Deadlocked(w) /\ Abort(w) /\ UNCHANGED clashes

BarrierBroken(w) ==
    /\ pc[w] = "waiting" /\ broken
    /\ Abort(w) /\ UNCHANGED clashes

Fails(w) ==
    /\ MayFail /\ pc[w] \in {"staging"} \cup Phases
    /\ Abort(w) /\ UNCHANGED clashes

----------------------------------------------------------------------------
Init ==
    /\ \E l \in Layouts : source = l.source /\ dest = l.dest /\ range = l.range
    /\ pc = [w \in Workers |-> "connecting"]
    /\ staged = [w \in Workers |-> {}] /\ queue = [w \in Workers |-> <<>>]
    /\ written = [w \in Workers |-> {}]
    /\ arrived = {} /\ broken = FALSE /\ refreshed = {} /\ clashes = {}

Proceed(w) ==
    \/ Connect(w) \/ Stage(w) \/ WriteRow(w) \/ CommitRefresh(w)
    \/ PassBarrier(w) \/ CommitInsert(w)
    \/ Violation(w) \/ DeadlockVictim(w) \/ BarrierBroken(w)

\* copy_table returns or raises when the pool has been joined.
Finished == \A w \in Workers : pc[w] \in {"done", "failed"}
Joined == Finished /\ UNCHANGED vars

Next ==
    \/ \E w \in Workers : Proceed(w) \/ ConnectFails(w) \/ Fails(w)
    \/ Joined

Spec == Init /\ [][Next]_vars

\* Every worker has a thread of its own and the server ends deadlocks.
FairSpec == Spec /\ \A w \in Workers : WF_vars(Proceed(w))

----------------------------------------------------------------------------
(* Properties.                                                             *)

\* The type of every variable.
TypeOK ==
    /\ source \in [Ids -> Values \cup {Absent}]
    /\ dest \in [Ids -> Values \cup {Absent}]
    /\ range \in [Ids -> Workers]
    /\ pc \in [Workers -> Places]
    /\ staged \in [Workers -> SUBSET Ids] /\ written \in [Workers -> SUBSET Ids]
    /\ queue \in [Workers -> Seq(Ids)]
    /\ arrived \subseteq Workers /\ refreshed \subseteq Workers
    /\ broken \in BOOLEAN
    /\ clashes \subseteq Phases \X Ids \X Ids

\* No worker inserts a new row while another's refreshes are still to come,
\* whichever of them fails, waits or is late.
InsertsAfterRefreshes ==
    \A w \in Workers : pc[w] \in {"inserting", "done"} => refreshed = Workers

\* CONFIG.md: deactivate-and-replace patterns load correctly with the index
\* live. An inserted row only ever clashes with a row the source has deleted
\* and the destination kept, the case CONFIG.md leaves to a recreate run.
InsertsClashWithDeletedOnly ==
    \A c \in clashes : c[1] = "inserting" => source[c[3]] = Absent

\* When every worker is done the table is what the snapshot says, except for
\* the rows the source no longer has.
CompleteWhenDone ==
    (\A w \in Workers : pc[w] = "done") => \A i \in Live(source) : dest[i] = source[i]

\* The copy of the table comes to an end once all workers are connected, and
\* as soon as the barrier is broken: nobody waits there for ever.
CopyEndsOnceConnected ==
    (broken \/ \A w \in Workers : pc[w] \notin {"connecting", "failed"}) ~> Finished

\* The copy as its caller sees it.
Outcome == IF ~Finished THEN "running"
           ELSE IF \A w \in Workers : pc[w] = "done" THEN "merged" ELSE "failed"

Table == INSTANCE TableMerge WITH
            wanted <- source, enough <- Cardinality(Live(source)), outcome <- Outcome

\* Staging, phases, barrier and locks implement the merge of one table: every
\* commit brings rows to what the snapshot says, rows the source has deleted
\* stay as they were, and copy_table returns only when all rows are there.
WorkersMergeTable == Table!MergeSpec

----------------------------------------------------------------------------
(* What comments say and the code does not do.                             *)

\* The exception handler: "a worker failing before the barrier would strand the
\* rest at wait(); break the barrier so they fail fast too". The copy ends
\* wherever a worker fails.
CopyEnds == <>Finished

\* apply_staged: refreshes may be applied in any order, "any order is safe:
\* each refresh moves its own row toward the source's valid state". A refresh
\* never clashes with a row the source still has.
RefreshInAnyOrder ==
    \A c \in clashes : c[1] = "refreshing" => source[c[3]] = Absent
===========================================================================
