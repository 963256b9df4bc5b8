------------------------- MODULE TwoPhaseCopy_proofs -------------------------
(***************************************************************************)
(* The two-phase copy for any number of workers, rows and keys.            *)
(*                                                                         *)
(* The argument: rows are partitioned among the workers, and a row of the  *)
(* destination changes only to what the snapshot says. So once a worker's  *)
(* refresh is committed its rows are as in the snapshot or not there yet,  *)
(* and stay so; past the barrier this holds of every worker. A key that is *)
(* in the way of an insert is then held by a row the snapshot does not     *)
(* have, since the snapshot itself respects the index.                     *)
(*                                                                         *)
(* The last section is about the end of the copy: who may be left waiting, *)
(* and that nobody goes on for ever.                                       *)
(***************************************************************************)
EXTENDS TwoPhaseCopy, FiniteSetTheorems, TLAPS

\* The rows of a worker's page range.
Span(w) == {i \in Live(source) : range[i] = w}

\* The rows a statement has still to write.
Pending(w) == {queue[w][n] : n \in DOMAIN queue[w]}

\* A row that cannot be in the way of an insert; a row that is copied.
Harmless(i) == dest[i] \in {source[i], Absent}
Copied(i) == dest[i] = source[i]

\* What a worker has in hand is of its range, and between statements nothing.
InHand(w) ==
    /\ written[w] \subseteq Span(w) /\ staged[w] \subseteq Span(w)
    /\ Pending(w) \subseteq Span(w)
    /\ pc[w] \notin Phases => queue[w] = <<>> /\ written[w] = {}
    /\ pc[w] \in {"refreshing", "waiting", "inserting"} => staged[w] = Span(w)

\* Where the rows of a range are, phase by phase.
Progress(w) ==
    /\ pc[w] = "refreshing" =>
          \A i \in Span(w) : i \in written[w] \cup Pending(w) \/ Harmless(i)
    /\ w \in refreshed => \A i \in Span(w) : Harmless(i)
    /\ pc[w] = "inserting" =>
          \A i \in Span(w) : i \in written[w] \cup Pending(w) \/ Copied(i)
    /\ pc[w] = "done" => \A i \in Span(w) : Copied(i)

Barrier ==
    /\ arrived \subseteq refreshed
    /\ \A w \in Workers : /\ pc[w] = "waiting" => w \in refreshed
                          /\ pc[w] \in {"inserting", "done"} => arrived = Workers

IInv == /\ TypeOK /\ Unique(source) /\ Barrier
        /\ \A w \in Workers : InHand(w) /\ Progress(w)
        /\ InsertsClashWithDeletedOnly

----------------------------------------------------------------------------
(* Type correctness.                                                       *)

\* A statement writes its rows in a sequence of identities.
LEMMA OrdersType ==
    ASSUME NEW S \in SUBSET Ids, NEW q \in Orders(S)
    PROVE  /\ q \in Seq(Ids)
           /\ {q[n] : n \in DOMAIN q} = S
<1>1. IsFiniteSet(S) /\ Cardinality(S) \in Nat
  BY CopyAssumption, FS_Subset, FS_CardinalityType
<1>2. q \in [1 .. Cardinality(S) -> S] /\ \A i \in S : \E n \in DOMAIN q : q[n] = i
  BY DEF Orders
<1>3. q \in Seq(Ids)
  BY <1>1, <1>2
<1>. QED
  BY <1>2, <1>3

\* No step takes a variable out of its type.
LEMMA TypeStep == TypeOK /\ [Next]_vars => TypeOK'
<1>. SUFFICES ASSUME TypeOK, [Next]_vars PROVE TypeOK'
  OBVIOUS
<1>. USE CopyAssumption DEF TypeOK, Goto, Places, Phases, Values
<1>1. CASE UNCHANGED vars
  BY <1>1 DEF vars
<1>2. ASSUME NEW w \in Workers, Connect(w) \/ ConnectFails(w) PROVE TypeOK'
  BY <1>2 DEF Connect, ConnectFails
<1>3. ASSUME NEW w \in Workers, Stage(w) PROVE TypeOK'
  <2>. DEFINE S == {i \in Live(source) : range[i] = w}
  <2>1. S \in SUBSET Ids /\ ToRefresh(S) \in SUBSET Ids
    BY DEF Live, ToRefresh
  <2>2. PICK q \in Orders(ToRefresh(S)) : queue' = [queue EXCEPT ![w] = q]
    BY <1>3 DEF Stage
  <2>. QED
    BY <1>3, <2>1, <2>2, OrdersType DEF Stage
<1>4. ASSUME NEW w \in Workers, WriteRow(w) PROVE TypeOK'
  <2>1. Current(w) \in Ids /\ Tail(queue[w]) \in Seq(Ids)
    BY <1>4 DEF WriteRow, Writing, Current
  <2>. QED
    BY <1>4, <2>1 DEF WriteRow
<1>5. ASSUME NEW w \in Workers, CommitRefresh(w) \/ CommitInsert(w) PROVE TypeOK'
  <2>1. Committed(w) \in [Ids -> Values \cup {Absent}]
    BY DEF Committed
  <2>2. CASE CommitRefresh(w)
    BY <2>1, <2>2 DEF CommitRefresh
  <2>3. CASE CommitInsert(w)
    BY <2>1, <2>3 DEF CommitInsert
  <2>. QED
    BY <1>5, <2>2, <2>3
<1>6. ASSUME NEW w \in Workers, PassBarrier(w) PROVE TypeOK'
  <2>1. ToInsert(staged[w]) \in SUBSET Ids
    BY DEF ToInsert
  <2>2. PICK q \in Orders(ToInsert(staged[w])) : queue' = [queue EXCEPT ![w] = q]
    BY <1>6 DEF PassBarrier
  <2>. QED
    BY <1>6, <2>1, <2>2, OrdersType DEF PassBarrier
<1>7. ASSUME NEW w \in Workers, Violation(w) PROVE TypeOK'
  <2>1. Current(w) \in Ids /\ pc[w] \in Phases /\ Holders(w) \subseteq Ids
    BY <1>7 DEF Violation, Writing, Current, Holders
  <2>. QED
    BY <1>7, <2>1 DEF Violation, Abort
<1>8. ASSUME NEW w \in Workers, DeadlockVictim(w) \/ BarrierBroken(w) \/ Fails(w)
      PROVE  TypeOK'
  <2>1. Abort(w) /\ UNCHANGED clashes
    BY <1>8 DEF DeadlockVictim, BarrierBroken, Fails
  <2>2. <<>> \in Seq(Ids)
    OBVIOUS
  <2>3. queue' \in [Workers -> Seq(Ids)] /\ written' \in [Workers -> SUBSET Ids]
    BY <2>1, <2>2 DEF Abort
  <2>4. pc' \in [Workers -> Places] /\ broken' \in BOOLEAN
    BY <2>1 DEF Abort
  <2>. QED
    BY <2>1, <2>3, <2>4 DEF Abort
<1>9. CASE Joined
  BY <1>9 DEF Joined, vars
<1>. QED
  BY <1>1, <1>2, <1>3, <1>4, <1>5, <1>6, <1>7, <1>8, <1>9 DEF Next, Proceed

\* Initially nothing is staged, written or recorded.
LEMMA InitType == Init => TypeOK
<1>. SUFFICES ASSUME Init PROVE TypeOK
  OBVIOUS
<1>1. <<>> \in Seq(Ids)
  OBVIOUS
<1>2. /\ source \in [Ids -> Values \cup {Absent}] /\ dest \in [Ids -> Values \cup {Absent}]
      /\ range \in [Ids -> Workers]
  BY CopyAssumption DEF Init
<1>3. /\ pc \in [Workers -> Places] /\ queue \in [Workers -> Seq(Ids)]
      /\ staged \in [Workers -> SUBSET Ids] /\ written \in [Workers -> SUBSET Ids]
  BY <1>1 DEF Init, Places
<1>4. /\ arrived \subseteq Workers /\ refreshed \subseteq Workers /\ broken \in BOOLEAN
      /\ clashes \subseteq Phases \X Ids \X Ids
  BY DEF Init
<1>. QED
  BY <1>2, <1>3, <1>4 DEF TypeOK

\* Every variable keeps its type: staging tables, open transactions and
\* recorded clashes never hold anything but row identities.
THEOREM TypeCorrect == Spec => []TypeOK
BY InitType, TypeStep, PTL DEF Spec

----------------------------------------------------------------------------
(* The invariant, one worker's step at a time.                             *)

Private(u) == <<pc[u], staged[u], queue[u], written[u]>>

\* Rows of the destination only ever become what the snapshot says.
LEMMA OthersKeep ==
    ASSUME TypeOK, NEW u \in Workers, InHand(u), Progress(u),
           UNCHANGED <<source, range>>, Private(u)' = Private(u),
           u \in refreshed' => u \in refreshed,
           \A i \in Ids : dest'[i] \in {dest[i], source[i]}
    PROVE  InHand(u)' /\ Progress(u)'
<1>1. /\ pc'[u] = pc[u] /\ staged'[u] = staged[u] /\ queue'[u] = queue[u]
      /\ written'[u] = written[u]
  BY DEF Private
<1>2. Span(u)' = Span(u) /\ Pending(u)' = Pending(u) /\ Span(u) \subseteq Ids
  BY <1>1 DEF Span, Pending, Live
<1>3. \A i \in Ids : (Harmless(i) => Harmless(i)') /\ (Copied(i) => Copied(i)')
  BY DEF Harmless, Copied
<1>. QED
  BY <1>1, <1>2, <1>3 DEF InHand, Progress

\* A statement's next row, and the rows after it.
LEMMA HeadAndTail ==
    ASSUME NEW q \in Seq(Ids), q # <<>>
    PROVE  /\ Tail(q) \in Seq(Ids)
           /\ {q[n] : n \in DOMAIN q} = {Head(q)} \cup {Tail(q)[n] : n \in DOMAIN Tail(q)}
<1>1. Len(q) \in Nat \ {0} /\ DOMAIN q = 1 .. Len(q) /\ Head(q) = q[1]
  OBVIOUS
<1>2. /\ Tail(q) \in Seq(Ids) /\ DOMAIN Tail(q) = 1 .. (Len(q) - 1)
      /\ \A n \in 1 .. (Len(q) - 1) : Tail(q)[n] = q[n + 1]
  OBVIOUS
<1>3. ASSUME NEW n \in 1 .. Len(q)
      PROVE  q[n] \in {Head(q)} \cup {Tail(q)[m] : m \in DOMAIN Tail(q)}
  <2>1. CASE n = 1
    BY <1>1, <2>1
  <2>2. CASE n # 1
    <3>1. n - 1 \in 1 .. (Len(q) - 1) /\ Tail(q)[n - 1] = q[n]
      BY <1>1, <1>2, <2>2
    <3>. QED
      BY <1>2, <3>1
  <2>. QED
    BY <2>1, <2>2
<1>4. ASSUME NEW n \in 1 .. (Len(q) - 1)
      PROVE  Tail(q)[n] \in {q[m] : m \in DOMAIN q}
  BY <1>1, <1>2
<1>5. Head(q) \in {q[m] : m \in DOMAIN q}
  BY <1>1
<1>. QED
  BY <1>1, <1>2, <1>3, <1>4, <1>5

\* What the acting worker and the barrier owe.
Kept(w) == InHand(w)' /\ Progress(w)' /\ Barrier' /\ InsertsClashWithDeletedOnly'

\* Staging keeps the invariant.
LEMMA StageStep == ASSUME IInv, NEW w \in Workers, Stage(w) PROVE Kept(w)
<1>. DEFINE S == {i \in Live(source) : range[i] = w}
<1>1. S = Span(w) /\ S \in SUBSET Ids /\ ToRefresh(S) \in SUBSET Ids
  BY DEF Span, Live, ToRefresh
<1>2. PICK q \in Orders(ToRefresh(S)) : queue' = [queue EXCEPT ![w] = q]
  BY DEF Stage
<1>3. /\ pc[w] = "staging" /\ pc' = [pc EXCEPT ![w] = "refreshing"]
      /\ staged' = [staged EXCEPT ![w] = S]
      /\ UNCHANGED <<source, range, dest, written, arrived, refreshed, clashes>>
  BY DEF Stage, Goto
<1>4. /\ pc'[w] = "refreshing" /\ staged'[w] = S /\ queue'[w] = q
      /\ written'[w] = {}
      /\ \A u \in Workers \ {w} : pc'[u] = pc[u]
  BY <1>2, <1>3 DEF IInv, TypeOK, InHand, Phases, Barrier
<1>5. Pending(w)' = ToRefresh(S) /\ Span(w)' = Span(w)
  BY <1>1, <1>3, <1>4, OrdersType DEF Pending, Span, Live
<1>6. InHand(w)'
  BY <1>1, <1>4, <1>5 DEF InHand, ToRefresh, Phases
<1>7. Progress(w)'
  BY <1>1, <1>3, <1>4, <1>5 DEF Progress, ToRefresh, Harmless, Live, IInv
<1>8. Barrier' /\ InsertsClashWithDeletedOnly'
  BY <1>3, <1>4 DEF IInv, Barrier, InsertsClashWithDeletedOnly
<1>. QED
  BY <1>6, <1>7, <1>8 DEF Kept

\* A row written in an open transaction keeps the invariant.
LEMMA WriteStep == ASSUME IInv, NEW w \in Workers, WriteRow(w) PROVE Kept(w)
<1>1. /\ pc[w] \in Phases /\ queue[w] # <<>> /\ queue[w] \in Seq(Ids)
      /\ written'[w] = written[w] \cup {Head(queue[w])} /\ queue'[w] = Tail(queue[w])
      /\ UNCHANGED <<source, range, dest, pc, staged, arrived, refreshed, clashes>>
  BY DEF WriteRow, Writing, Current, IInv, TypeOK
<1>2. /\ Pending(w) = {Head(queue[w])} \cup Pending(w)'
      /\ Span(w)' = Span(w)
  BY <1>1, HeadAndTail DEF Pending, Span, Live
<1>3. InHand(w)'
  BY <1>1, <1>2 DEF IInv, InHand
<1>4. Progress(w)'
  BY <1>1, <1>2 DEF IInv, Progress, Harmless, Copied
<1>5. Barrier' /\ InsertsClashWithDeletedOnly'
  BY <1>1 DEF IInv, Barrier, InsertsClashWithDeletedOnly
<1>. QED
  BY <1>3, <1>4, <1>5 DEF Kept

\* What a commit makes of the destination.
LEMMA CommitWrites ==
    ASSUME IInv, NEW w \in Workers, dest' = Committed(w)
    PROVE  /\ \A i \in Ids : dest'[i] \in {dest[i], source[i]}
           /\ \A i \in written[w] : dest'[i] = source[i]
           /\ \A i \in Ids \ written[w] : dest'[i] = dest[i]
BY DEF IInv, TypeOK, Committed

\* The commit of a refresh brings its worker to the barrier.
LEMMA CommitRefreshStep == ASSUME IInv, NEW w \in Workers, CommitRefresh(w) PROVE Kept(w)
<1>1. /\ pc[w] = "refreshing" /\ queue[w] = <<>> /\ dest' = Committed(w)
      /\ pc'[w] = "waiting" /\ written'[w] = {} /\ queue' = queue /\ staged' = staged
      /\ refreshed' = refreshed \cup {w} /\ arrived' \subseteq arrived \cup {w}
      /\ arrived \subseteq arrived'
      /\ \A u \in Workers \ {w} : pc'[u] = pc[u]
      /\ UNCHANGED <<source, range, clashes>>
  BY DEF CommitRefresh, Goto, IInv, TypeOK
<1>2. Span(w)' = Span(w) /\ Pending(w)' = {} /\ Pending(w) = {} /\ Span(w) \subseteq Ids
  BY <1>1 DEF Pending, Span, Live
<1>3. InHand(w)'
  BY <1>1, <1>2 DEF IInv, InHand, Phases
<1>4. \A i \in Span(w) : Harmless(i)'
  BY <1>1, <1>2, CommitWrites DEF IInv, Progress, Harmless
<1>5. Progress(w)'
  BY <1>1, <1>2, <1>4 DEF Progress
<1>6. Barrier'
  <2>1. arrived = Workers => arrived' = Workers
    BY <1>1
  <2>. QED
    BY <1>1, <2>1 DEF IInv, Barrier
<1>7. InsertsClashWithDeletedOnly'
  BY <1>1 DEF IInv, InsertsClashWithDeletedOnly
<1>. QED
  BY <1>3, <1>5, <1>6, <1>7 DEF Kept

\* Past the barrier every row of the snapshot is copied or not there yet; the
\* statement has those that are not.
LEMMA PassStep == ASSUME IInv, NEW w \in Workers, PassBarrier(w) PROVE Kept(w)
<1>0. ToInsert(staged[w]) \in SUBSET Ids
  BY DEF IInv, TypeOK, ToInsert
<1>1. PICK q \in Orders(ToInsert(staged[w])) : queue' = [queue EXCEPT ![w] = q]
  BY DEF PassBarrier
<1>2. /\ pc[w] = "waiting" /\ arrived = Workers /\ pc'[w] = "inserting" /\ queue'[w] = q
      /\ \A u \in Workers \ {w} : pc'[u] = pc[u]
      /\ UNCHANGED <<source, range, dest, staged, written, arrived, refreshed, clashes>>
  BY <1>1 DEF PassBarrier, Goto, IInv, TypeOK
<1>3. Pending(w)' = ToInsert(staged[w]) /\ Span(w)' = Span(w)
  BY <1>0, <1>2, OrdersType DEF Pending, Span, Live
<1>4. staged[w] = Span(w) /\ written[w] = {} /\ w \in refreshed
  BY <1>2 DEF IInv, InHand, Barrier, Phases
<1>5. InHand(w)'
  BY <1>2, <1>3, <1>4 DEF InHand, ToInsert, Phases
<1>6. Progress(w)'
  BY <1>2, <1>3, <1>4 DEF IInv, Progress, ToInsert, Harmless, Copied, Live, Span
<1>7. Barrier' /\ InsertsClashWithDeletedOnly'
  BY <1>2 DEF IInv, Barrier, InsertsClashWithDeletedOnly
<1>. QED
  BY <1>5, <1>6, <1>7 DEF Kept

\* The commit of an insert completes its worker's range.
LEMMA CommitInsertStep == ASSUME IInv, NEW w \in Workers, CommitInsert(w) PROVE Kept(w)
<1>1. /\ pc[w] = "inserting" /\ queue[w] = <<>> /\ dest' = Committed(w)
      /\ pc'[w] = "done" /\ written'[w] = {} /\ queue' = queue /\ staged'[w] = {}
      /\ \A u \in Workers \ {w} : pc'[u] = pc[u]
      /\ UNCHANGED <<source, range, arrived, refreshed, clashes>>
  BY DEF CommitInsert, Goto, IInv, TypeOK
<1>2. Span(w)' = Span(w) /\ Pending(w)' = {} /\ Pending(w) = {} /\ Span(w) \subseteq Ids
  BY <1>1 DEF Pending, Span, Live
<1>3. InHand(w)'
  BY <1>1, <1>2 DEF InHand, Phases
<1>4. \A i \in Span(w) : Copied(i)' /\ Harmless(i)'
  BY <1>1, <1>2, CommitWrites DEF IInv, Progress, Copied, Harmless
<1>5. Progress(w)'
  BY <1>1, <1>2, <1>4 DEF Progress
<1>6. Barrier' /\ InsertsClashWithDeletedOnly'
  BY <1>1 DEF IInv, Barrier, InsertsClashWithDeletedOnly
<1>. QED
  BY <1>3, <1>5, <1>6 DEF Kept

\* Whoever leaves by the exception handler leaves nothing behind.
LEMMA AbortKeeps ==
    ASSUME IInv, NEW w \in Workers, Abort(w)
    PROVE  InHand(w)' /\ Progress(w)' /\ Barrier'
<1>1. /\ pc'[w] = "failed" /\ written'[w] = {} /\ queue'[w] = <<>>
      /\ \A u \in Workers \ {w} : pc'[u] = pc[u]
      /\ UNCHANGED <<source, range, dest, staged, arrived, refreshed>>
  BY DEF Abort, Goto, IInv, TypeOK
<1>2. Span(w)' = Span(w) /\ Pending(w)' = {}
  BY <1>1 DEF Pending, Span, Live
<1>. QED
  BY <1>1, <1>2 DEF IInv, InHand, Progress, Barrier, Harmless, Phases

\* The key an inserted row wants is held by a row the source has deleted.
LEMMA ClashIsWithDeleted ==
    ASSUME IInv, NEW w \in Workers, pc[w] = "inserting", Writing(w),
           NEW j \in Holders(w)
    PROVE  source[j] = Absent
<1>. SUFFICES ASSUME source[j] # Absent PROVE FALSE
  OBVIOUS
<1>. DEFINE i == Current(w)
<1>1. i \in Pending(w) /\ i \in Ids
  <2>1. queue[w] \in Seq(Ids) /\ queue[w] # <<>>
    BY DEF IInv, TypeOK, Writing
  <2>. QED
    BY <2>1, HeadAndTail DEF Pending, Current
<1>2. /\ j \in Ids /\ j # i /\ source[i] \in Keys
      /\ source[i] = (IF j \in written[w] THEN source[j] ELSE dest[j])
  BY DEF Holders
<1>3. range[j] \in Workers /\ range[j] \in refreshed /\ j \in Span(range[j])
  BY <1>2 DEF IInv, Barrier, TypeOK, Span, Live
<1>4. dest[j] \in {source[j], Absent}
  BY <1>3 DEF IInv, Progress, Harmless
<1>5. source[i] = source[j]
  BY <1>2, <1>4, CopyAssumption
<1>. QED
  BY <1>1, <1>2, <1>5 DEF IInv, Unique

\* A unique violation is recorded and its worker leaves.
LEMMA ViolationStep == ASSUME IInv, NEW w \in Workers, Violation(w) PROVE Kept(w)
<1>1. /\ Writing(w) /\ pc[w] \in Phases /\ UNCHANGED source
      /\ clashes' = clashes \cup {<<pc[w], Current(w), j>> : j \in Holders(w)}
  BY DEF Violation, Writing, Abort
<1>2. InsertsClashWithDeletedOnly'
  <2>. SUFFICES ASSUME NEW c \in clashes', c[1] = "inserting" PROVE source[c[3]] = Absent
    BY <1>1 DEF InsertsClashWithDeletedOnly
  <2>1. CASE c \in clashes
    BY <2>1 DEF IInv, InsertsClashWithDeletedOnly
  <2>2. ASSUME NEW j \in Holders(w), c = <<pc[w], Current(w), j>> PROVE source[c[3]] = Absent
    BY <1>1, <2>2, ClashIsWithDeleted
  <2>. QED
    BY <1>1, <2>1, <2>2
<1>. QED
  BY <1>2, AbortKeeps DEF Kept, Violation

\* The invariant holds while every worker is connecting.
LEMMA InvInit == Init => IInv
<1>. SUFFICES ASSUME Init PROVE IInv
  OBVIOUS
<1>1. TypeOK /\ Unique(source)
  BY InitType, CopyAssumption DEF Init
<1>2. Barrier /\ InsertsClashWithDeletedOnly
  BY DEF Init, Barrier, InsertsClashWithDeletedOnly
<1>3. ASSUME NEW w \in Workers PROVE InHand(w) /\ Progress(w)
  BY DEF Init, InHand, Progress, Pending, Phases
<1>. QED
  BY <1>1, <1>2, <1>3 DEF IInv

\* And every step keeps it.
LEMMA InvStep == IInv /\ [Next]_vars => IInv'
<1>. SUFFICES ASSUME IInv, [Next]_vars PROVE IInv'
  OBVIOUS
<1>1. TypeOK'
  BY TypeStep DEF IInv
<1>2. CASE UNCHANGED vars
  BY <1>1, <1>2, OthersKeep DEF IInv, vars, Private, Unique, Barrier, InsertsClashWithDeletedOnly
<1>3. ASSUME NEW w \in Workers, Proceed(w) \/ ConnectFails(w) \/ Fails(w) PROVE IInv'
  <2>1. Kept(w)
    <3>1. CASE Connect(w) \/ ConnectFails(w)
      <4>1. /\ pc[w] = "connecting" /\ pc'[w] \in {"staging", "failed"}
            /\ \A u \in Workers \ {w} : pc'[u] = pc[u]
            /\ UNCHANGED <<source, range, dest, staged, queue, written, arrived,
                           refreshed, clashes>>
        BY <3>1 DEF Connect, ConnectFails, Goto, IInv, TypeOK
      <4>2. Span(w)' = Span(w) /\ Pending(w)' = Pending(w)
        BY <4>1 DEF Span, Live, Pending
      <4>. QED
        BY <4>1, <4>2 DEF Kept, IInv, InHand, Progress, Barrier, Harmless, Phases,
                          InsertsClashWithDeletedOnly
    <3>2. CASE DeadlockVictim(w) \/ BarrierBroken(w) \/ Fails(w)
      <4>1. Abort(w) /\ UNCHANGED clashes
        BY <3>2 DEF DeadlockVictim, BarrierBroken, Fails
      <4>. QED
        BY <4>1, AbortKeeps DEF Kept, IInv, Abort, InsertsClashWithDeletedOnly
    <3>. QED
      BY <1>3, <3>1, <3>2, StageStep, WriteStep, CommitRefreshStep, PassStep,
         CommitInsertStep, ViolationStep DEF Proceed
  <2>2. /\ UNCHANGED <<source, range>>
        /\ \A i \in Ids : dest'[i] \in {dest[i], source[i]}
        /\ \A u \in Workers \ {w} : u \in refreshed' => u \in refreshed
    <3>1. CASE CommitRefresh(w) \/ CommitInsert(w)
      BY <3>1, CommitWrites DEF CommitRefresh, CommitInsert
    <3>2. CASE ~(CommitRefresh(w) \/ CommitInsert(w))
      <4>1. UNCHANGED <<source, range, dest, refreshed>>
        BY <1>3, <3>2 DEF Proceed, Connect, ConnectFails, Stage, WriteRow, PassBarrier,
           Violation, DeadlockVictim, BarrierBroken, Fails, Abort
      <4>. QED
        BY <4>1
    <3>. QED
      BY <3>1, <3>2
  <2>3. ASSUME NEW u \in Workers, u # w PROVE Private(u)' = Private(u)
    <3>1. \A v \in Workers \ {w} : /\ pc'[v] = pc[v] /\ staged'[v] = staged[v]
                                   /\ queue'[v] = queue[v] /\ written'[v] = written[v]
      <4>1. CASE Connect(w) \/ ConnectFails(w) \/ Stage(w) \/ WriteRow(w)
        BY <1>3, <4>1 DEF IInv, TypeOK, Goto, Connect, ConnectFails, Stage, WriteRow
      <4>2. CASE CommitRefresh(w) \/ PassBarrier(w) \/ CommitInsert(w)
        BY <1>3, <4>2 DEF IInv, TypeOK, Goto, CommitRefresh, PassBarrier, CommitInsert
      <4>3. CASE Violation(w) \/ DeadlockVictim(w) \/ BarrierBroken(w) \/ Fails(w)
        BY <1>3, <4>3 DEF IInv, TypeOK, Goto, Violation, DeadlockVictim, BarrierBroken, Fails,
                          Abort
      <4>. QED
        BY <1>3, <4>1, <4>2, <4>3 DEF Proceed
    <3>. QED
      BY <2>3, <3>1 DEF Private
  <2>4. ASSUME NEW u \in Workers, u # w PROVE InHand(u)' /\ Progress(u)'
    BY <2>2, <2>3, <2>4, OthersKeep DEF IInv
  <2>. QED
    BY <1>1, <2>1, <2>2, <2>4 DEF Kept, IInv, Unique
<1>4. CASE Joined
  BY <1>2, <1>4 DEF Joined
<1>. QED
  BY <1>2, <1>3, <1>4 DEF Next

\* Per worker, what its statement has written and still has to write; over all
\* of them, that the barrier is passed when every refresh is committed.
THEOREM CopyInvariant == Spec => []IInv
<1>. QED
  BY InvInit, InvStep, PTL DEF Spec

\* Nobody inserts before every worker's refresh is committed, whoever fails,
\* waits or is late.
THEOREM RefreshesComeFirst == Spec => []InsertsAfterRefreshes
<1>1. IInv => InsertsAfterRefreshes
  BY DEF IInv, TypeOK, Barrier, InsertsAfterRefreshes
<1>. QED
  BY <1>1, CopyInvariant, PTL

\* An insert under the live index fails on nothing but a row the source has
\* deleted: deactivated and replaced rows never stand in its way.
THEOREM OnlyDeletedRowsClash == Spec => []InsertsClashWithDeletedOnly
<1>1. IInv => InsertsClashWithDeletedOnly
  BY DEF IInv
<1>. QED
  BY <1>1, CopyInvariant, PTL

\* When every worker is done, the table holds the snapshot.
THEOREM CopyIsComplete == Spec => []CompleteWhenDone
<1>1. IInv => CompleteWhenDone
  <2>. SUFFICES ASSUME IInv, \A w \in Workers : pc[w] = "done", NEW i \in Live(source)
                PROVE  dest[i] = source[i]
    BY DEF CompleteWhenDone
  <2>1. range[i] \in Workers /\ i \in Span(range[i])
    BY DEF IInv, TypeOK, Span, Live
  <2>. QED
    BY <2>1 DEF IInv, Progress, Copied
<1>. QED
  BY <1>1, CopyInvariant, PTL

----------------------------------------------------------------------------
(* The copy implements the merge of one table.                             *)

\* A worker that has left takes no step.
LEMMA OnlyWorkersAtWorkStep ==
    ASSUME TypeOK, NEW w \in Workers, Proceed(w) \/ ConnectFails(w) \/ Fails(w)
    PROVE  pc[w] \notin {"done", "failed"}
<1>1. CASE DeadlockVictim(w)
  <2>1. PICK u \in Workers : BlockedBy(w, u)
    BY <1>1 DEF DeadlockVictim, Deadlocked
  <2>. QED
    BY <2>1 DEF BlockedBy, Writing, Phases
<1>2. CASE ~DeadlockVictim(w)
  BY <1>2 DEF Proceed, Connect, ConnectFails, Stage, WriteRow, CommitRefresh, PassBarrier,
     CommitInsert, Violation, BarrierBroken, Fails, Writing, Phases
<1>. QED
  BY <1>1, <1>2

\* A step leaves every row as it was or, if the source has it, as the source
\* has it.
LEMMA RowsOnlyMerge ==
    ASSUME IInv, [Next]_vars
    PROVE  /\ source' = source
           /\ \A i \in Ids : dest'[i] = dest[i] \/ (i \in Live(source) /\ dest'[i] = source[i])
<1>1. CASE UNCHANGED vars \/ Joined
  BY <1>1 DEF vars, Joined
<1>2. ASSUME NEW w \in Workers, CommitRefresh(w) \/ CommitInsert(w)
      PROVE  /\ source' = source
             /\ \A i \in Ids : dest'[i] = dest[i] \/ (i \in Live(source) /\ dest'[i] = source[i])
  <2>1. UNCHANGED source /\ dest' = Committed(w)
    BY <1>2 DEF CommitRefresh, CommitInsert
  <2>2. written[w] \subseteq Live(source)
    BY DEF IInv, InHand, Span
  <2>. QED
    BY <2>1, <2>2, CommitWrites
<1>3. ASSUME NEW w \in Workers, Proceed(w) \/ ConnectFails(w) \/ Fails(w),
             ~(CommitRefresh(w) \/ CommitInsert(w))
      PROVE  UNCHANGED <<source, dest>>
  BY <1>3 DEF Proceed, Connect, ConnectFails, Stage, WriteRow, PassBarrier,
     Violation, DeadlockVictim, BarrierBroken, Fails, Abort
<1>. QED
  BY <1>1, <1>2, <1>3 DEF Next

\* The instance counts as this module does.
LEMMA SameCardinality == ASSUME NEW S PROVE Table!Cardinality(S) = Cardinality(S)
BY DEF Cardinality, Table!Cardinality

\* Whoever waits for the copy sees the merge of one table: rows turn into what
\* the snapshot says, nothing else changes, nothing changes after the end, and
\* success means that the table is complete.
THEOREM ImplementsTableMerge == Spec => WorkersMergeTable
<1>. DEFINE total == Cardinality(Live(source))
<1>1. ASSUME TypeOK PROVE total \in Nat /\ Table!ToCopy = Live(source)
  <2>1. DOMAIN source = Ids
    BY <1>1 DEF TypeOK
  <2>. QED
    BY <2>1, CopyAssumption, FS_Subset, FS_CardinalityType DEF Live, Table!ToCopy
<1>2. Init => Table!MergeInit
  <2>. SUFFICES ASSUME Init PROVE Table!MergeInit
    OBVIOUS
  <2>1. TypeOK
    BY InvInit DEF IInv
  <2>2. ~Finished
    BY CopyAssumption DEF Init, Finished
  <2>. QED
    BY <1>1, <2>1, <2>2, SameCardinality DEF Table!MergeInit, Outcome
<1>3. ASSUME IInv, IInv', CompleteWhenDone', [Next]_vars
      PROVE  [Table!MergeStep]_Table!mergeVars
  <2>1. CASE UNCHANGED vars \/ Joined
    <3>1. UNCHANGED <<source, dest, pc>>
      BY <2>1 DEF vars, Joined
    <3>2. Outcome' = Outcome /\ total' = total
      BY <3>1 DEF Outcome, Finished, Live
    <3>. QED
      BY <3>1, <3>2 DEF Table!mergeVars
  <2>2. ASSUME NEW w \in Workers, Proceed(w) \/ ConnectFails(w) \/ Fails(w)
        PROVE  Table!MergeStep
    <3>1. Outcome = "running"
      BY <1>3, <2>2, OnlyWorkersAtWorkStep DEF IInv, Outcome, Finished
    <3>2. /\ source' = source
          /\ \A i \in Ids :
                dest'[i] = dest[i] \/ (i \in Live(source) /\ dest'[i] = source[i])
      BY <1>3, RowsOnlyMerge
    <3>3. total' = total
      BY <3>2 DEF Live
    <3>4. dest' = [i \in DOMAIN source |-> IF i \in {j \in Table!ToCopy : dest'[j] = source[j]}
                                     THEN source[i] ELSE dest[i]]
      <4>1. DOMAIN source = Ids /\ dest' \in [Ids -> Values \cup {Absent}]
        BY <1>3 DEF IInv, TypeOK
      <4>. QED
        BY <3>2, <4>1 DEF Table!ToCopy, Live
    <3>5. ASSUME Outcome' = "merged" PROVE Table!Cardinality(Table!Merged') >= total'
      <4>1. \A u \in Workers : pc'[u] = "done"
        BY <3>5 DEF Outcome
      <4>2. \A i \in Live(source) : dest'[i] = source[i]
        BY <1>3, <3>2, <4>1 DEF CompleteWhenDone, Live
      <4>3. Table!Merged' = Live(source)
        <5>1. DOMAIN source' = Ids
          BY <1>3 DEF IInv, TypeOK
        <5>. QED
          BY <3>2, <4>2, <5>1 DEF Table!Merged, Table!ToCopy, Live
      <4>. QED
        BY <1>1, <1>3, <3>3, <4>3, SameCardinality DEF IInv
    <3>6. Outcome' \in {"running", "merged", "failed"}
      BY DEF Outcome
    <3>. QED
      BY <3>1, <3>2, <3>3, <3>4, <3>5, <3>6 DEF Table!MergeStep
  <2>. QED
    BY <1>3, <2>1, <2>2 DEF Next
<1>. QED
  BY <1>2, <1>3, CopyInvariant, CopyIsComplete, PTL DEF Spec, WorkersMergeTable, Table!MergeSpec
----------------------------------------------------------------------------
(* The copy comes to its end: the parts of CopyEndsOnceConnected that are  *)
(* not about fairness. Some worker can go on, and only so often.           *)

\* The barrier counts the workers that wait at it.
WaitersInv == broken \/ \A w \in Workers : pc[w] = "waiting" => w \in arrived

\* Guards of the steps that fairness is about: a worker connects, reads, writes
\* a row or fails on one, commits, is rolled back by the server, or leaves the
\* barrier, together with the others or because it is broken.
CanGoOn(w) ==
    \/ pc[w] = "connecting"
    \/ pc[w] = "staging" /\ Orders(ToRefresh({i \in Live(source) : range[i] = w})) # {}
    \/ Writing(w) /\ ~Blocked(w)
    \/ Deadlocked(w)
    \/ pc[w] \in Phases /\ queue[w] = <<>>
    \/ /\ pc[w] = "waiting"
       /\ broken \/ (arrived = Workers /\ Orders(ToInsert(staged[w])) # {})

\* Workers wait for one that never came, and nothing tells them.
Stranded ==
    /\ ~broken /\ \A w \in Workers : pc[w] \in {"waiting", "failed"}
    /\ \E w \in Workers : pc[w] = "failed"

\* A statement has an order to write its rows in.
LEMMA OrdersExist == ASSUME NEW S \in SUBSET Ids PROVE Orders(S) # {}
<1>1. IsFiniteSet(S)
  BY CopyAssumption, FS_Subset
<1>2. PICK q \in Bijection(1 .. Cardinality(S), S) : TRUE
  BY <1>1, FS_CardinalityType DEF ExistsBijection
<1>3. q \in Orders(S)
  BY <1>2 DEF Bijection, Injection, Surjection, IsInjective, Orders
<1>. QED
  BY <1>3

\* Who waits at an unbroken barrier has been counted.
LEMMA WaitersStep == TypeOK /\ WaitersInv /\ [Next]_vars => WaitersInv'
<1>. SUFFICES ASSUME TypeOK, WaitersInv, [Next]_vars, ~broken'
              PROVE  \A w \in Workers : pc'[w] = "waiting" => w \in arrived'
  BY DEF WaitersInv
<1>1. CASE UNCHANGED vars \/ Joined
  BY <1>1 DEF WaitersInv, vars, Joined
<1>2. ASSUME NEW w \in Workers, Proceed(w) \/ ConnectFails(w) \/ Fails(w),
             NEW u \in Workers, pc'[u] = "waiting"
      PROVE  u \in arrived'
  <2>1. CASE CommitRefresh(w)
    BY <1>2, <2>1 DEF WaitersInv, CommitRefresh, Goto, TypeOK
  <2>2. CASE Connect(w) \/ ConnectFails(w) \/ Stage(w) \/ WriteRow(w) \/ PassBarrier(w)
             \/ CommitInsert(w)
    BY <1>2, <2>2 DEF WaitersInv, Connect, ConnectFails, Stage, WriteRow, PassBarrier,
       CommitInsert, Goto, TypeOK
  <2>3. CASE Violation(w) \/ DeadlockVictim(w) \/ BarrierBroken(w) \/ Fails(w)
    BY <2>3 DEF Violation, DeadlockVictim, BarrierBroken, Fails, Abort
  <2>. QED
    BY <1>2, <2>1, <2>2, <2>3 DEF Proceed
<1>. QED
  BY <1>1, <1>2 DEF Next

\* Writers who all wait for each other's rows wait in a circle.
LEMMA BlockedInACircle ==
    ASSUME IInv, NEW w \in Workers, Writing(w),
           \A u \in Workers : (Writing(u) => Blocked(u)) /\ (pc[u] \in Phases => queue[u] # <<>>)
    PROVE  Deadlocked(w)
<1>. DEFINE C == {u \in Workers : Writing(u)}
<1>1. ASSUME NEW u \in C PROVE \E x \in C : BlockedBy(u, x)
  <2>1. PICK x \in Workers : BlockedBy(u, x)
    BY <1>1 DEF Blocked
  <2>2. written[x] # {}
    BY <2>1 DEF BlockedBy
  <2>3. Writing(x)
    BY <2>2 DEF IInv, InHand, Writing
  <2>. QED
    BY <2>1, <2>3
<1>2. C \in SUBSET Workers /\ w \in C
  OBVIOUS
<1>. QED
  BY <1>1, <1>2 DEF Deadlocked

\* While the copy is not over some worker can go on, whoever has failed and
\* however the open transactions block each other, with one exception: workers
\* wait at the barrier for one that failed without breaking it.
THEOREM OnlyTheBarrierStrands ==
    Spec => [](~Finished => Stranded \/ \E w \in Workers : CanGoOn(w))
<1>1. ASSUME IInv, WaitersInv, ~Finished, \A w \in Workers : ~CanGoOn(w)
      PROVE  Stranded
  <2>1. \A w \in Workers : pc[w] \in Places /\ staged[w] \in SUBSET Ids
    BY <1>1 DEF IInv, TypeOK
  <2>2. ASSUME NEW w \in Workers PROVE pc[w] \notin Phases
    <3>1. \A u \in Workers : /\ Writing(u) => Blocked(u)
                             /\ pc[u] \in Phases => queue[u] # <<>>
      BY <1>1 DEF CanGoOn
    <3>2. CASE Writing(w)
      BY <1>1, <3>1, <3>2, BlockedInACircle DEF CanGoOn
    <3>. QED
      BY <3>1, <3>2 DEF Writing
  <2>3. ASSUME NEW w \in Workers PROVE pc[w] \in {"waiting", "done", "failed"}
    <3>1. pc[w] # "staging"
      <4>1. ToRefresh({i \in Live(source) : range[i] = w}) \in SUBSET Ids
        BY DEF ToRefresh, Live
      <4>. QED
        BY <1>1, <4>1, OrdersExist DEF CanGoOn
    <3>2. pc[w] # "connecting"
      BY <1>1 DEF CanGoOn
    <3>. QED
      BY <2>1, <2>2, <3>1, <3>2 DEF Places, Phases
  <2>4. PICK v \in Workers : pc[v] = "waiting"
    BY <1>1, <2>3 DEF Finished
  <2>5. ~broken /\ arrived # Workers
    <3>1. ToInsert(staged[v]) \in SUBSET Ids
      BY <2>1 DEF ToInsert
    <3>. QED
      BY <1>1, <2>4, <3>1, OrdersExist DEF CanGoOn
  <2>6. \A w \in Workers : pc[w] \in {"waiting", "failed"}
    BY <1>1, <2>3, <2>5 DEF IInv, Barrier
  <2>7. \E w \in Workers : pc[w] = "failed"
    <3>1. PICK w \in Workers : w \notin arrived
      BY <1>1, <2>5 DEF IInv, TypeOK
    <3>. QED
      BY <1>1, <2>5, <2>6, <3>1 DEF WaitersInv
  <2>. QED
    BY <2>5, <2>6, <2>7 DEF Stranded
<1>2. Init => WaitersInv
  BY DEF Init, WaitersInv
<1>3. IInv => TypeOK
  BY DEF IInv
<1>4. IInv /\ WaitersInv => (~Finished => Stranded \/ \E w \in Workers : CanGoOn(w))
  BY <1>1
<1>. QED
  BY <1>2, <1>3, <1>4, WaitersStep, CopyInvariant, PTL DEF Spec

\* The way of a worker.
Rank(place) ==
    CASE place = "connecting" -> 0
      [] place = "staging"    -> 1
      [] place = "refreshing" -> 2
      [] place = "waiting"    -> 3
      [] place = "inserting"  -> 4
      [] OTHER                -> 5

\* A worker comes further on its way, or has fewer rows to write.
Further(w) ==
    /\ \A u \in Workers \ {w} : pc'[u] = pc[u] /\ queue'[u] = queue[u]
    /\ \/ Rank(pc'[w]) > Rank(pc[w])
       \/ pc'[w] = pc[w] /\ Len(queue'[w]) < Len(queue[w])

\* Nobody goes on for ever, not even in turns of blocking and rolling back:
\* every step takes one worker further and none back.
THEOREM WorkersAdvance == Spec => [][\E w \in Workers : Further(w)]_vars
<1>1. ASSUME IInv, NEW w \in Workers, Proceed(w) \/ ConnectFails(w) \/ Fails(w)
      PROVE  Further(w)
  <2>1. \A u \in Workers \ {w} : pc'[u] = pc[u] /\ queue'[u] = queue[u]
    BY <1>1 DEF IInv, TypeOK, Goto, Proceed, Connect, ConnectFails, Stage, WriteRow,
       CommitRefresh, PassBarrier, CommitInsert, Violation, DeadlockVictim,
       BarrierBroken, Fails, Abort
  <2>2. CASE WriteRow(w)
    <3>1. pc'[w] = pc[w] /\ queue[w] # <<>> /\ queue'[w] = Tail(queue[w])
      BY <1>1, <2>2 DEF WriteRow, Writing, IInv, TypeOK
    <3>2. queue[w] \in Seq(Ids)
      BY <1>1 DEF IInv, TypeOK
    <3>3. Len(Tail(queue[w])) < Len(queue[w])
      BY <3>1, <3>2
    <3>. QED
      BY <2>1, <3>1, <3>3 DEF Further
  <2>3. CASE ~WriteRow(w)
    <3>1. pc[w] \in Places /\ pc[w] \notin {"done", "failed"}
      BY <1>1, OnlyWorkersAtWorkStep DEF IInv, TypeOK
    <3>2. \/ pc[w] = "connecting" /\ pc'[w] = "staging"
          \/ pc[w] = "staging" /\ pc'[w] = "refreshing"
          \/ pc[w] = "refreshing" /\ pc'[w] = "waiting"
          \/ pc[w] = "waiting" /\ pc'[w] = "inserting"
          \/ pc[w] = "inserting" /\ pc'[w] = "done"
          \/ pc'[w] = "failed"
      BY <1>1, <2>3 DEF IInv, TypeOK, Goto, Proceed, Connect, ConnectFails, Stage,
         CommitRefresh, PassBarrier, CommitInsert, Violation, DeadlockVictim,
         BarrierBroken, Fails, Abort
    <3>3. Rank(pc'[w]) > Rank(pc[w])
      BY <3>1, <3>2 DEF Places, Rank
    <3>. QED
      BY <2>1, <3>3 DEF Further
  <2>. QED
    BY <2>2, <2>3
<1>2. IInv /\ [Next]_vars => [\E w \in Workers : Further(w)]_vars
  BY <1>1 DEF Next, Joined
<1>. QED
  BY <1>2, CopyInvariant, PTL DEF Spec
=============================================================================
