--------------------------- MODULE FkGraph_proofs ---------------------------
(***************************************************************************)
(* What the strata and the reach of the foreign-key graph are worth, for   *)
(* every graph: parents lie in lower strata, strata do not overlap, no     *)
(* stratum below the last is empty, every ordered table is in one; what is *)
(* connected is what relationships lead to, and the sort succeeds unless   *)
(* they lead in a circle.                                                  *)
(*                                                                         *)
(* The definitions recurse over the naturals. Induction is by the least    *)
(* number for which the claim, taken as a set of numbers, does not hold;   *)
(* that a recursive function exists is shown for one given by its value at *)
(* 0 and a function for each step.                                         *)
(***************************************************************************)
EXTENDS FkGraph, FiniteSetTheorems, WellFoundedInduction, TLAPS

----------------------------------------------------------------------------
(* Numbers and recursion.                                                  *)

\* A nonempty set of naturals has a least element.
LEMMA LeastNumber ==
    ASSUME NEW S \in SUBSET Nat, S # {}
    PROVE  \E x \in S : \A y \in S : x =< y
<1>. DEFINE R == OpToRel(<, Nat)
<1>1. IsWellFoundedOn(R, Nat)
  BY NatLessThanWellFounded
<1>2. PICK x \in S : \A y \in S : <<y, x>> \notin R
  BY <1>1, WFMin
<1>3. \A y \in S : ~(y < x)
  BY <1>2 DEF OpToRel
<1>. QED
  BY <1>3

\* A set of naturals closed under successor from 0 on is all of them.
LEMMA AllNaturals ==
    ASSUME NEW S \in SUBSET Nat, 0 \in S, \A n \in S : n + 1 \in S
    PROVE  \A n \in Nat : n \in S
<1>. SUFFICES ASSUME Nat \ S # {} PROVE FALSE
  OBVIOUS
<1>1. PICK x \in Nat \ S : \A y \in Nat \ S : x =< y
  BY LeastNumber
<1>2. x # 0 /\ x - 1 \in Nat
  OBVIOUS
<1>3. x - 1 \in S
  BY <1>1, <1>2
<1>. QED
  BY <1>3

\* f is d0 at 0 and goes on from there by G[1], G[2], ...
Recurs(f, d0, G) == f = [n \in Nat |-> IF n = 0 THEN d0 ELSE G[n][f[n - 1]]]

\* A function over the naturals given by its first value and one function per
\* step exists.
LEMMA PrimitiveRecursion ==
    ASSUME NEW D, NEW d0 \in D, NEW G \in [Nat -> [D -> D]]
    PROVE  \E f \in [Nat -> D] : Recurs(f, d0, G)
<1>. DEFINE Upto(g, n) == g[0] = d0 /\ \A i \in 1 .. n : g[i] = G[i][g[i - 1]]
            A == {n \in Nat : \E g \in [0 .. n -> D] : Upto(g, n)}
            val(n) == CHOOSE g \in [0 .. n -> D] : Upto(g, n)
            f == [n \in Nat |-> val(n)[n]]
\* Approximations exist ...
<1>1. \A n \in Nat : n \in A
  <2>1. 0 \in A
    <3>1. [i \in 0 .. 0 |-> d0] \in [0 .. 0 -> D] /\ Upto([i \in 0 .. 0 |-> d0], 0)
      OBVIOUS
    <3>. QED
      BY <3>1
  <2>2. ASSUME NEW n \in A PROVE n + 1 \in A
    <3>1. PICK g \in [0 .. n -> D] : Upto(g, n)
      OBVIOUS
    <3>. DEFINE h == [i \in 0 .. n + 1 |-> IF i = n + 1 THEN G[n + 1][g[n]] ELSE g[i]]
    <3>2. h \in [0 .. n + 1 -> D]
      <4>1. G[n + 1][g[n]] \in D
        OBVIOUS
      <4>. QED
        BY <4>1
    <3>3. Upto(h, n + 1)
      <4>1. ASSUME NEW i \in 1 .. n + 1 PROVE h[i] = G[i][h[i - 1]]
        <5>1. CASE i = n + 1
          BY <5>1
        <5>2. CASE i \in 1 .. n
          BY <3>1, <5>2
        <5>. QED
          BY <5>1, <5>2
      <4>. QED
        BY <3>1, <4>1
    <3>4. n + 1 \in Nat
      OBVIOUS
    <3>. HIDE DEF h
    <3>. QED
      BY <3>2, <3>3, <3>4
  <2>. HIDE DEF A
  <2>3. A \in SUBSET Nat
    BY DEF A
  <2>. QED
    BY <2>1, <2>2, <2>3, AllNaturals
<1>2. \A n \in Nat : val(n) \in [0 .. n -> D] /\ Upto(val(n), n)
  BY <1>1
<1>. HIDE DEF A, val
\* ... and agree.
<1>3. ASSUME NEW n \in Nat PROVE \A m \in Nat : m \in 0 .. n => val(n)[m] = val(n + 1)[m]
  <2>. DEFINE S == {m \in Nat : m \in 0 .. n => val(n)[m] = val(n + 1)[m]}
  <2>0. S \in SUBSET Nat
    OBVIOUS
  <2>1. 0 \in S
    BY <1>2
  <2>2. ASSUME NEW m \in S PROVE m + 1 \in S
    <3>. SUFFICES ASSUME m + 1 \in 0 .. n PROVE val(n)[m + 1] = val(n + 1)[m + 1]
      OBVIOUS
    <3>1. val(n)[m] = val(n + 1)[m] /\ m + 1 \in 1 .. n /\ m + 1 \in 1 .. n + 1 /\ (m + 1) - 1 = m
      OBVIOUS
    <3>2. val(n)[m + 1] = G[m + 1][val(n)[m]]
      BY <1>2, <3>1
    <3>3. val(n + 1)[m + 1] = G[m + 1][val(n + 1)[m]]
      BY <1>2, <3>1
    <3>. QED
      BY <3>1, <3>2, <3>3
  <2>. HIDE DEF S
  <2>3. \A m \in Nat : m \in S
    BY <2>0, <2>1, <2>2, AllNaturals
  <2>. QED
    BY <2>3 DEF S
<1>4. f \in [Nat -> D]
  BY <1>2
<1>5. ASSUME NEW n \in Nat PROVE f[n] = IF n = 0 THEN d0 ELSE G[n][f[n - 1]]
  <2>1. CASE n = 0
    BY <1>2, <2>1
  <2>2. CASE n # 0
    <3>1. n - 1 \in Nat /\ n - 1 \in 0 .. n - 1 /\ (n - 1) + 1 = n /\ n \in 1 .. n
      BY <2>2
    <3>2. val(n - 1)[n - 1] = val(n)[n - 1]
      BY <1>3, <3>1
    <3>3. val(n)[n] = G[n][val(n)[n - 1]]
      BY <1>2, <3>1
    <3>. QED
      BY <2>2, <3>1, <3>2, <3>3
  <2>. QED
    BY <2>1, <2>2
<1>. HIDE DEF f
<1>6. Recurs(f, d0, G)
  BY <1>4, <1>5 DEF Recurs
<1>. QED
  BY <1>4, <1>6

\* A growing sequence of subsets of a finite set, that stays as it is once a
\* step leaves it as it is, does so after as many steps as the set has elements.
LEMMA ChainSettles ==
    ASSUME NEW T, IsFiniteSet(T), NEW f \in [Nat -> SUBSET T],
           \A n \in Nat : f[n] \subseteq f[n + 1],
           \A n \in Nat : f[n + 1] = f[n] => f[(n + 1) + 1] = f[n + 1]
    PROVE  f[Cardinality(T) + 1] = f[Cardinality(T)]
<1>. DEFINE N == Cardinality(T)
            S == {n \in Nat : f[n + 1] = f[n] \/ Cardinality(f[n]) >= n}
<1>0. N \in Nat /\ N + 1 \in Nat
  BY FS_CardinalityType
<1>1. ASSUME NEW n \in Nat
      PROVE  /\ n + 1 \in Nat /\ f[n] \subseteq f[n + 1]
             /\ IsFiniteSet(f[n]) /\ Cardinality(f[n]) \in Nat
  <2>1. f[n] \in SUBSET T
    OBVIOUS
  <2>2. IsFiniteSet(f[n])
    BY <2>1, FS_Subset
  <2>. QED
    BY <2>2, FS_CardinalityType
<1>2. 0 \in S
  BY <1>1
<1>3. ASSUME NEW n \in S PROVE n + 1 \in S
  <2>1. n \in Nat /\ n + 1 \in Nat
    OBVIOUS
  <2>2. CASE f[n + 1] = f[n]
    BY <2>1, <2>2
  <2>3. CASE f[n + 1] # f[n]
    <3>1. /\ IsFiniteSet(f[n + 1]) /\ f[n] \subseteq f[n + 1]
          /\ Cardinality(f[n]) \in Nat /\ Cardinality(f[n + 1]) \in Nat
      BY <1>1, <2>1
    <3>2. /\ Cardinality(f[n]) <= Cardinality(f[n + 1])
          /\ Cardinality(f[n]) = Cardinality(f[n + 1]) => f[n] = f[n + 1]
      BY <3>1, FS_Subset
    <3>3. Cardinality(f[n]) >= n
      BY <2>3
    <3>4. Cardinality(f[n + 1]) >= n + 1
      BY <2>1, <2>3, <3>1, <3>2, <3>3
    <3>. QED
      BY <2>1, <3>4
  <2>. QED
    BY <2>2, <2>3
<1>4. S \in SUBSET Nat
  OBVIOUS
<1>5. N \in S
  <2>. HIDE DEF S
  <2>. QED
    BY <1>0, <1>2, <1>3, <1>4, AllNaturals
<1>6. CASE f[N + 1] = f[N]
  BY <1>6
<1>7. CASE Cardinality(f[N]) >= N
  <2>1. f[N] \in SUBSET T /\ f[N + 1] \in SUBSET T
    BY <1>0
  <2>2. /\ Cardinality(f[N]) <= N /\ Cardinality(f[N]) \in Nat
        /\ Cardinality(f[N]) = N => f[N] = T
    <3>1. Cardinality(f[N]) \in Nat
      BY <1>0, <1>1
    <3>. QED
      BY <2>1, <3>1, FS_Subset
  <2>3. Cardinality(f[N]) = N
    BY <1>0, <1>7, <2>2
  <2>4. f[N] \subseteq f[N + 1]
    BY <1>0, <1>1
  <2>. QED
    BY <2>1, <2>2, <2>3, <2>4
<1>. QED
  BY <1>5, <1>6, <1>7

\* The recursion compute_disconnected_tables makes, step by step.
LEMMA ReachedRecursion ==
    /\ Reached \in [Nat -> SUBSET Tables]
    /\ Reached[0] = InitialTargetTables \cup PassthroughTables
    /\ \A n \in Nat : Reached[n + 1] = Linked(Reached[n])
<1>. DEFINE G == [n \in Nat |-> [S \in SUBSET Tables |-> Linked(S)]]
            Is(f) == f = [n \in Nat |-> IF n = 0 THEN InitialTargetTables \cup PassthroughTables
                                        ELSE Linked(f[n - 1])]
<1>1. \A S \in SUBSET Tables : Linked(S) \in SUBSET Tables
  BY GraphAssumption DEF Linked, Touching
<1>2. G \in [Nat -> [SUBSET Tables -> SUBSET Tables]]
  BY <1>1
<1>. HIDE DEF G
<1>3. InitialTargetTables \cup PassthroughTables \in SUBSET Tables
  BY GraphAssumption
<1>4. PICK f \in [Nat -> SUBSET Tables] :
          Recurs(f, InitialTargetTables \cup PassthroughTables, G)
  BY <1>2, <1>3, PrimitiveRecursion
<1>5. \A n \in Nat : n # 0 => n - 1 \in Nat /\ G[n][f[n - 1]] = Linked(f[n - 1])
  BY DEF G
<1>6. Is(f)
  BY <1>4, <1>5 DEF Recurs
<1>7. Is(Reached)
  <2>1. Reached = CHOOSE g : Is(g)
    BY DEF Reached
  <2>. HIDE DEF Is
  <2>. QED
    BY <1>6, <2>1
<1>9. \A n \in Nat : Reached[n + 1] = Linked(Reached[n])
  <2>1. \A n \in Nat : (n + 1) - 1 = n /\ n + 1 \in Nat /\ n + 1 # 0
    OBVIOUS
  <2>. QED
    BY <1>7, <2>1
<1>8. \A n \in Nat : Reached[n] \in SUBSET Tables
  <2>. DEFINE S == {n \in Nat : Reached[n] \in SUBSET Tables}
  <2>1. 0 \in S
    BY <1>3, <1>7
  <2>2. ASSUME NEW n \in S PROVE n + 1 \in S
    <3>1. Reached[n + 1] = Linked(Reached[n])
      BY <1>9
    <3>. QED
      BY <1>1, <3>1
  <2>3. S \in SUBSET Nat
    OBVIOUS
  <2>. HIDE DEF S
  <2>4. \A n \in Nat : n \in S
    BY <2>1, <2>2, <2>3, AllNaturals
  <2>. QED
    BY <2>4 DEF S
<1>. QED
  BY <1>7, <1>8, <1>9

\* The recursion toposort makes, layer by layer.
LEMMA PlacedRecursion ==
    /\ Placed \in [Nat -> SUBSET Ordered]
    /\ Placed[0] = {}
    /\ \A n \in Nat : Placed[n + 1] = {t \in Ordered : Parents(t) \subseteq Placed[n]}
<1>. DEFINE Next(S) == {t \in Ordered : Parents(t) \subseteq S}
            G == [n \in Nat |-> [S \in SUBSET Ordered |-> Next(S)]]
            Is(f) == f = [n \in Nat |-> IF n = 0 THEN {} ELSE Next(f[n - 1])]
<1>2. G \in [Nat -> [SUBSET Ordered -> SUBSET Ordered]]
  OBVIOUS
<1>4. PICK f \in [Nat -> SUBSET Ordered] : Recurs(f, {}, G)
  <2>1. {} \in SUBSET Ordered
    OBVIOUS
  <2>. HIDE DEF G
  <2>. QED
    BY <1>2, <2>1, PrimitiveRecursion
<1>5. \A n \in Nat : n # 0 => n - 1 \in Nat /\ G[n][f[n - 1]] = Next(f[n - 1])
  OBVIOUS
<1>6. Is(f)
  BY <1>4, <1>5 DEF Recurs
<1>7. Is(Placed)
  <2>1. Placed = CHOOSE g : Is(g)
    BY DEF Placed
  <2>. HIDE DEF Is
  <2>. QED
    BY <1>6, <2>1
<1>8. \A n \in Nat : Placed[n] \in SUBSET Ordered
  BY <1>7
<1>9. \A n \in Nat : (n + 1) - 1 = n /\ n + 1 \in Nat /\ n + 1 # 0
  OBVIOUS
<1>. QED
  BY <1>7, <1>8, <1>9

----------------------------------------------------------------------------
(* The reach of the roots.                                                 *)

\* What is linked to a set includes it.
LEMMA LinkedIncludes == \A S : S \subseteq Linked(S)
BY DEF Linked

\* compute_disconnected_tables ends with a set nothing more is linked to: the
\* ends of a relationship, broken or not, are both connected or neither is.
LEMMA ConnectedClosed ==
    /\ InitialTargetTables \cup PassthroughTables \subseteq Connected
    /\ Connected \subseteq Tables
    /\ \A k \in Fks : fk_table[k] \in Connected <=> target_table[k] \in Connected
<1>0. Cardinality(Tables) \in Nat
  BY GraphAssumption, FS_CardinalityType
<1>1. \A n \in Nat : /\ n + 1 \in Nat /\ Reached[n] \subseteq Tables
                     /\ Reached[n] \subseteq Reached[n + 1]
  BY ReachedRecursion, LinkedIncludes
<1>2. \A n \in Nat : Reached[n + 1] = Reached[n] => Reached[(n + 1) + 1] = Reached[n + 1]
  BY <1>1, ReachedRecursion
<1>3. Linked(Connected) = Connected
  <2>1. Reached[Cardinality(Tables) + 1] = Reached[Cardinality(Tables)]
    BY <1>1, <1>2, GraphAssumption, ReachedRecursion, ChainSettles
  <2>. QED
    BY <1>0, <2>1, ReachedRecursion DEF Connected
<1>4. \A n \in Nat : InitialTargetTables \cup PassthroughTables \subseteq Reached[n]
  <2>. DEFINE S == {n \in Nat : InitialTargetTables \cup PassthroughTables \subseteq Reached[n]}
  <2>1. 0 \in S
    BY ReachedRecursion
  <2>2. ASSUME NEW n \in S PROVE n + 1 \in S
    BY <1>1
  <2>3. S \in SUBSET Nat
    OBVIOUS
  <2>. HIDE DEF S
  <2>4. \A n \in Nat : n \in S
    BY <2>1, <2>2, <2>3, AllNaturals
  <2>. QED
    BY <2>4 DEF S
<1>5. ASSUME NEW k \in Fks PROVE fk_table[k] \in Connected <=> target_table[k] \in Connected
  BY <1>3 DEF Linked, Touching
<1>. QED
  BY <1>0, <1>1, <1>4, <1>5 DEF Connected

\* And with no more than that: a set that holds the roots and leaves no
\* relationship half in and half out holds every connected table.
LEMMA ConnectedIsLeast ==
    ASSUME NEW S, InitialTargetTables \cup PassthroughTables \subseteq S,
           \A k \in Fks : fk_table[k] \in S <=> target_table[k] \in S
    PROVE  Connected \subseteq S
<1>. DEFINE Within == {n \in Nat : Reached[n] \subseteq S}
<1>1. 0 \in Within
  BY ReachedRecursion
<1>2. ASSUME NEW n \in Within PROVE n + 1 \in Within
  <2>1. Linked(Reached[n]) \subseteq S
    BY DEF Linked, Touching
  <2>. QED
    BY <2>1, ReachedRecursion
<1>3. Within \in SUBSET Nat
  OBVIOUS
<1>4. \A n \in Nat : n \in Within
  <2>. HIDE DEF Within
  <2>. QED
    BY <1>1, <1>2, <1>3, AllNaturals
<1>5. Cardinality(Tables) \in Nat
  BY GraphAssumption, FS_CardinalityType
<1>. QED
  BY <1>4, <1>5 DEF Connected

\* The tables a set of relationships cannot separate from the roots.
Components == {S \in SUBSET Tables :
                  /\ InitialTargetTables \cup PassthroughTables \subseteq S
                  /\ \A k \in Fks : fk_table[k] \in S <=> target_table[k] \in S}

\* compute_disconnected_tables finds the components of the targets and the
\* passthrough tables: a table is disconnected exactly when relationships,
\* broken ones included and in whichever direction, lead from none of them to it.
THEOREM DisconnectedIsUnreachable ==
    \A t \in Tables : t \in Disconnected <=> \E S \in Components : t \notin S
<1>1. Connected \in Components
  BY ConnectedClosed DEF Components
<1>2. \A S \in Components : Connected \subseteq S
  BY ConnectedIsLeast DEF Components
<1>. QED
  BY <1>1, <1>2 DEF Disconnected

\* A followed relationship of a connected table takes part in the order.
LEMMA ConnectedIsOrdered ==
    ASSUME NEW k \in Redacted, fk_table[k] \in Connected \/ target_table[k] \in Connected
    PROVE  k \in OrderingFks
BY ConnectedClosed DEF OrderingFks, Redacted

\* A table in the order is connected, unless nothing is.
LEMMA OrderedIsConnected ==
    /\ Ordered \subseteq Tables
    /\ Connected # {} => Ordered \subseteq Connected
BY GraphAssumption DEF Ordered, OrderingFks, Redacted

----------------------------------------------------------------------------
(* The strata.                                                             *)

\* Layers only grow.
LEMMA PlacedGrows ==
    ASSUME NEW m \in Nat, NEW n \in Nat, m <= n PROVE Placed[m] \subseteq Placed[n]
<1>1. \A i \in Nat : Placed[i] \subseteq Placed[i + 1]
  <2>. DEFINE S == {i \in Nat : Placed[i] \subseteq Placed[i + 1]}
  <2>1. 0 \in S
    BY PlacedRecursion
  <2>2. ASSUME NEW i \in S PROVE i + 1 \in S
    <3>1. i \in Nat /\ i + 1 \in Nat /\ Placed[i] \subseteq Placed[i + 1]
      OBVIOUS
    <3>2. /\ Placed[i + 1] = {t \in Ordered : Parents(t) \subseteq Placed[i]}
          /\ Placed[(i + 1) + 1] = {t \in Ordered : Parents(t) \subseteq Placed[i + 1]}
      BY <3>1, PlacedRecursion
    <3>. QED
      BY <3>1, <3>2
  <2>3. S \in SUBSET Nat
    OBVIOUS
  <2>. HIDE DEF S
  <2>4. \A i \in Nat : i \in S
    BY <2>1, <2>2, <2>3, AllNaturals
  <2>. QED
    BY <2>4 DEF S
<1>2. \A d \in Nat : Placed[m] \subseteq Placed[m + d]
  <2>. DEFINE S == {d \in Nat : Placed[m] \subseteq Placed[m + d]}
  <2>1. 0 \in S
    OBVIOUS
  <2>2. ASSUME NEW d \in S PROVE d + 1 \in S
    <3>1. m + d \in Nat /\ m + (d + 1) = (m + d) + 1 /\ Placed[m] \subseteq Placed[m + d]
      OBVIOUS
    <3>2. Placed[m + d] \subseteq Placed[(m + d) + 1]
      BY <1>1, <3>1
    <3>. QED
      BY <3>1, <3>2
  <2>3. S \in SUBSET Nat
    OBVIOUS
  <2>. HIDE DEF S
  <2>4. \A d \in Nat : d \in S
    BY <2>1, <2>2, <2>3, AllNaturals
  <2>. QED
    BY <2>4 DEF S
<1>3. n - m \in Nat /\ m + (n - m) = n
  OBVIOUS
<1>. QED
  BY <1>2, <1>3

\* Tables each of which has a parent among them: some of them refer to each
\* other in a circle.
Circular(C) == C # {} /\ \A t \in C : Parents(t) \cap C # {}

\* toposort succeeds exactly on the graphs without a circle of relationships
\* that are followed: AcyclicAssumption asks for that and no more.
THEOREM SortsUnlessCircular ==
    Placed[Cardinality(Tables)] = Ordered <=> ~ \E C \in SUBSET Ordered : Circular(C)
<1>. DEFINE N == Cardinality(Tables)
<1>0. N \in Nat /\ \A n \in Nat : n + 1 \in Nat
  BY GraphAssumption, FS_CardinalityType
<1>1. ASSUME NEW C \in SUBSET Ordered, Circular(C) PROVE Placed[N] # Ordered
  <2>. DEFINE Apart == {n \in Nat : Placed[n] \cap C = {}}
  <2>1. 0 \in Apart
    BY PlacedRecursion
  <2>2. ASSUME NEW n \in Apart PROVE n + 1 \in Apart
    <3>1. n \in Nat /\ n + 1 \in Nat /\ Placed[n] \cap C = {}
      OBVIOUS
    <3>2. Placed[n + 1] = {t \in Ordered : Parents(t) \subseteq Placed[n]}
      BY <3>1, PlacedRecursion
    <3>3. Placed[n + 1] \cap C = {}
      BY <1>1, <3>1, <3>2 DEF Circular
    <3>. QED
      BY <3>1, <3>3
  <2>3. Apart \in SUBSET Nat
    OBVIOUS
  <2>4. \A n \in Nat : n \in Apart
    <3>. HIDE DEF Apart
    <3>. QED
      BY <2>1, <2>2, <2>3, AllNaturals
  <2>5. Placed[N] \cap C = {}
    BY <1>0, <2>4
  <2>. QED
    BY <1>1, <2>5 DEF Circular
<1>2. ASSUME Placed[N] # Ordered PROVE Circular(Ordered \ Placed[N])
  <2>1. Placed[N + 1] = Placed[N]
    <3>1. Ordered \subseteq Tables
      BY GraphAssumption DEF Ordered, OrderingFks, Redacted
    <3>2. Placed \in [Nat -> SUBSET Tables]
      BY <3>1, PlacedRecursion
    <3>3. \A n \in Nat : Placed[n] \subseteq Placed[n + 1]
      BY <1>0, PlacedGrows
    <3>4. ASSUME NEW n \in Nat, Placed[n + 1] = Placed[n]
          PROVE  Placed[(n + 1) + 1] = Placed[n + 1]
      <4>1. /\ Placed[n + 1] = {t \in Ordered : Parents(t) \subseteq Placed[n]}
            /\ Placed[(n + 1) + 1] = {t \in Ordered : Parents(t) \subseteq Placed[n + 1]}
        BY <1>0, PlacedRecursion
      <4>. QED
        BY <3>4, <4>1
    <3>5. IsFiniteSet(Tables)
      BY GraphAssumption
    <3>. QED
      BY <3>2, <3>3, <3>4, <3>5, ChainSettles
  <2>2. Placed[N] \subseteq Ordered
    BY <1>0, PlacedRecursion
  <2>3. Placed[N] = {t \in Ordered : Parents(t) \subseteq Placed[N]}
    BY <1>0, <2>1, PlacedRecursion
  <2>4. \A t \in Ordered : Parents(t) \subseteq Ordered
    BY DEF Parents, Ordered
  <2>. QED
    BY <1>2, <2>2, <2>3, <2>4 DEF Circular
<1>. QED
  BY <1>1, <1>2

\* Every stratum starts where the one before it ends.
LEMMA StrataType ==
    /\ Cardinality(Tables) \in Nat
    /\ DOMAIN Strata = 1 .. Cardinality(Tables)
    /\ \A n \in DOMAIN Strata : /\ n \in Nat /\ n - 1 \in Nat
                                /\ Strata[n] = Placed[n] \ Placed[n - 1]
                                /\ Strata[n] \subseteq Ordered
<1>1. Cardinality(Tables) \in Nat
  BY GraphAssumption, FS_CardinalityType
<1>2. \A n \in 1 .. Cardinality(Tables) : n \in Nat /\ n - 1 \in Nat
  BY <1>1
<1>. QED
  BY <1>1, <1>2, PlacedRecursion DEF Strata

\* A table's parents are in lower strata.
LEMMA ParentsAreLower ==
    ASSUME NEW n \in DOMAIN Strata, NEW t \in Strata[n] PROVE Parents(t) \subseteq Placed[n - 1]
<1>1. n \in Nat /\ n - 1 \in Nat /\ (n - 1) + 1 = n /\ t \in Placed[n]
  BY StrataType
<1>. QED
  BY <1>1, PlacedRecursion

\* A placed table is in one of the strata so far, ...
LEMMA PlacedIsInStratum ==
    ASSUME NEW n \in 0 .. Cardinality(Tables), NEW t \in Placed[n]
    PROVE  \E m \in 1 .. n : m \in DOMAIN Strata /\ t \in Strata[m]
<1>. DEFINE S == {m \in Nat : t \in Placed[m]}
<1>1. n \in Nat /\ n \in S /\ S \in SUBSET Nat
  BY StrataType
<1>2. PICK m \in S : \A i \in S : m <= i
  <2>. HIDE DEF S
  <2>. QED
    BY <1>1, LeastNumber
<1>3. m \in Nat /\ m <= n /\ t \in Placed[m]
  BY <1>1, <1>2
<1>4. m # 0
  BY <1>3, PlacedRecursion
<1>5. m - 1 \in Nat /\ m - 1 \notin S
  BY <1>2, <1>3, <1>4
<1>6. m \in 1 .. n /\ m \in DOMAIN Strata
  BY <1>3, <1>4, StrataType
<1>. QED
  BY <1>3, <1>5, <1>6, StrataType

\* ... and in no higher one.
LEMMA StrataAreDisjoint ==
    ASSUME NEW n \in DOMAIN Strata, NEW m \in Nat, m < n PROVE Strata[n] \cap Placed[m] = {}
<1>1. n \in Nat /\ n - 1 \in Nat /\ m <= n - 1
  BY StrataType
<1>. QED
  BY <1>1, PlacedGrows, StrataType

\* A table is in one stratum only.
LEMMA StratumIsUnique ==
    ASSUME NEW n \in DOMAIN Strata, NEW m \in DOMAIN Strata, NEW t \in Strata[n], t \in Strata[m]
    PROVE  n = m
<1>1. n \in Nat /\ m \in Nat /\ t \in Placed[n] /\ t \in Placed[m]
  BY StrataType
<1>2. ~ m < n /\ ~ n < m
  BY <1>1, StrataAreDisjoint
<1>. QED
  BY <1>1, <1>2

\* The strata that are not empty are the first Depth ones, so every table of
\* the order is in one that is visited.
LEMMA OrderedIsInStratum ==
    ASSUME NEW t \in Ordered PROVE \E n \in 1 .. Depth : n \in DOMAIN Strata /\ t \in Strata[n]
<1>. DEFINE N == Cardinality(Tables)
            E == {n \in 1 .. N : Strata[n] # {}}
            Out == {n \in Nat : n # 0 /\ n \notin E}
<1>0. N \in Nat /\ E \in SUBSET Nat /\ Out \in SUBSET Nat
  BY StrataType
<1>1. ASSUME NEW n \in E, n # 1 PROVE n - 1 \in E
  <2>1. n \in DOMAIN Strata /\ n - 1 \in DOMAIN Strata /\ n - 2 \in Nat /\ n \in Nat
        /\ (n - 1) - 1 = n - 2 /\ (n - 2) + 1 = n - 1 /\ (n - 1) + 1 = n /\ n - 1 \in Nat
    BY <1>0, <1>1, StrataType
  <2>. SUFFICES ASSUME Strata[n - 1] = {} PROVE FALSE
    BY <2>1, StrataType
  <2>2. Placed[n - 1] = Placed[n - 2]
    <3>1. Placed[n - 2] \subseteq Placed[n - 1]
      BY <2>1, PlacedGrows
    <3>. QED
      BY <2>1, <3>1, StrataType
  <2>3. Placed[n] = Placed[n - 1]
    <3>1. /\ Placed[n] = {u \in Ordered : Parents(u) \subseteq Placed[n - 1]}
          /\ Placed[n - 1] = {u \in Ordered : Parents(u) \subseteq Placed[n - 2]}
      BY <2>1, PlacedRecursion
    <3>. QED
      BY <2>2, <3>1
  <2>. QED
    BY <2>1, <2>3, StrataType
<1>2. N + 1 \in Out
  BY <1>0
<1>. HIDE DEF Out
<1>3. PICK x \in Out : \A y \in Out : x <= y
  BY <1>0, <1>2, LeastNumber
<1>4. x \in Nat /\ x # 0 /\ x \notin E
  BY <1>3 DEF Out
<1>. HIDE DEF E
<1>5. 1 .. x - 1 \subseteq E
  <2>. SUFFICES ASSUME NEW i \in 1 .. x - 1, i \notin E PROVE FALSE
    OBVIOUS
  <2>1. i \in Nat /\ i # 0 /\ i < x
    BY <1>4
  <2>2. i \in Out
    BY <2>1 DEF Out
  <2>. QED
    BY <1>3, <1>4, <2>1, <2>2
<1>6. E \subseteq 1 .. x - 1
  <2>. DEFINE High == {n \in E : n > x}
  <2>0. \A n \in E : n \in Nat /\ n # 0
    BY <1>0 DEF E
  <2>1. High = {}
    <3>. SUFFICES ASSUME High # {} PROVE FALSE
      OBVIOUS
    <3>1. High \in SUBSET Nat
      BY <2>0
    <3>2. PICK y \in High : \A z \in High : y <= z
      <4>. HIDE DEF High
      <4>. QED
        BY <3>1, LeastNumber
    <3>3. y \in E /\ y \in Nat /\ y > x /\ y # 1
      BY <1>4, <2>0, <3>2
    <3>4. y - 1 \in E
      BY <1>1, <3>3
    <3>5. y - 1 # x
      BY <1>4, <3>4
    <3>6. y - 1 \in High
      BY <1>4, <3>3, <3>4, <3>5
    <3>. QED
      BY <3>2, <3>3, <3>6
  <2>. QED
    BY <1>4, <2>0, <2>1
<1>7. Depth = x - 1 /\ 1 .. Depth = E
  <2>1. E = 1 .. x - 1
    BY <1>5, <1>6
  <2>2. Cardinality(1 .. x - 1) = x - 1
    BY <1>4, FS_Interval
  <2>3. Depth = Cardinality(E)
    BY DEF Depth, E
  <2>. QED
    BY <2>1, <2>2, <2>3
<1>8. t \in Placed[N] /\ N \in 0 .. N
  BY <1>0, AcyclicAssumption
<1>9. PICK m \in 1 .. N : m \in DOMAIN Strata /\ t \in Strata[m]
  BY <1>8, PlacedIsInStratum
<1>10. m \in E
  BY <1>9 DEF E
<1>. QED
  BY <1>7, <1>9, <1>10

\* Depth counts strata, so it is a natural number, level 0 exists, and every
\* level the phases go through is one of the order.
LEMMA LevelsType ==
    /\ Depth \in Nat /\ 1 .. Depth \subseteq DOMAIN Strata
    /\ UpstreamLevels \subseteq 1 .. Depth /\ DownstreamLevels \subseteq 1 .. Depth
    /\ UpstreamLevels \in SUBSET Nat /\ UpstreamLevels \in SUBSET (0 .. Depth)
    /\ DownstreamLevels \in SUBSET (0 .. Depth)
<1>. DEFINE N == Cardinality(Tables)
            E == {n \in 1 .. N : Strata[n] # {}}
<1>1. N \in Nat /\ IsFiniteSet(1 .. N) /\ Cardinality(1 .. N) = N
  BY StrataType, FS_Interval
<1>2. IsFiniteSet(E) /\ Cardinality(E) <= N
  BY <1>1, FS_Subset
<1>3. Depth \in Nat /\ Depth <= N
  <2>1. Cardinality(E) \in Nat
    BY <1>2, FS_CardinalityType
  <2>. QED
    BY <1>2, <2>1 DEF Depth
<1>4. 1 .. Depth \in SUBSET Nat /\ 1 .. Depth \in SUBSET (0 .. Depth)
  BY <1>3
<1>5. UpstreamLevels \in SUBSET (1 .. Depth) /\ DownstreamLevels \in SUBSET (1 .. Depth)
  BY DEF UpstreamLevels, DownstreamLevels
<1>. QED
  BY <1>1, <1>3, <1>4, <1>5, StrataType

\* Following a relationship downstream always leads to a lower stratum; both
\* strata are visited.
THEOREM ParentsComeLater ==
    ASSUME NEW k \in OrderingFks
    PROVE  \E m, n \in 1 .. Depth :
              /\ m < n /\ target_table[k] \in Strata[m] /\ fk_table[k] \in Strata[n]
<1>1. fk_table[k] \in Ordered /\ target_table[k] \in Parents(fk_table[k])
  BY DEF Ordered, Parents
<1>2. PICK n \in 1 .. Depth : n \in DOMAIN Strata /\ fk_table[k] \in Strata[n]
  BY <1>1, OrderedIsInStratum
<1>3. target_table[k] \in Placed[n - 1] /\ n - 1 \in Nat /\ n - 1 \in 0 .. Cardinality(Tables)
  BY <1>1, <1>2, ParentsAreLower, StrataType
<1>4. PICK m \in 1 .. n - 1 : m \in DOMAIN Strata /\ target_table[k] \in Strata[m]
  BY <1>3, PlacedIsInStratum
<1>5. m \in 1 .. Depth /\ m < n
  BY <1>2, <1>3, <1>4, LevelsType
<1>. QED
  BY <1>2, <1>4, <1>5
=============================================================================
