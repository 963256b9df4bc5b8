------------------------------ MODULE FkGraph ------------------------------
(***************************************************************************)
(* The foreign-key graph of one run: which relationships are followed,     *)
(* which tables are connected to the run's roots, and in which strata the  *)
(* middle-out traversal visits them (subset_utils.py, topo_orderer.py).    *)
(*                                                                         *)
(* A relationship k points from fk_table[k] (the table holding the         *)
(* foreign-key columns, "upstream") to target_table[k] ("downstream").     *)
(* Recursion is over naturals with recursive functions, so that proofs may *)
(* EXTEND this module.                                                     *)
(***************************************************************************)
EXTENDS Naturals, FiniteSets

CONSTANTS
    Tables,              \* all_tables: every source table not excluded
    Fks,                 \* identifiers of the unredacted relationships
    fk_table,            \* [Fks -> Tables]
    target_table,        \* [Fks -> Tables]
    DependencyBreaks,    \* pairs <<fk_table, target_table>> not to be followed
    Opportunists,        \* breaks whose columns are kept all the same
    InitialTargetTables, \* tables of initial_targets, one entry each
    PassthroughTables    \* passthrough_tables

Pair(k) == <<fk_table[k], target_table[k]>>

\* What the configuration guarantees, and what the traversal raises on when it
\* does not hold: an unbroken self reference.
ASSUME GraphAssumption ==
    /\ IsFiniteSet(Tables) /\ IsFiniteSet(Fks)
    /\ fk_table \in [Fks -> Tables] /\ target_table \in [Fks -> Tables]
    /\ DependencyBreaks \subseteq Tables \X Tables
    /\ Opportunists \subseteq DependencyBreaks
    /\ InitialTargetTables \subseteq Tables
    /\ PassthroughTables \subseteq Tables
    /\ \A k \in Fks : fk_table[k] = target_table[k] => Pair(k) \in DependencyBreaks

\* redact_relationships
Redacted == {k \in Fks : Pair(k) \notin DependencyBreaks}

\* The relationships whose columns columns_to_copy replaces by NULL.
Nulled == {k \in Fks : Pair(k) \in DependencyBreaks \ Opportunists}

FksOf(t) == {k \in Fks : fk_table[k] = t}

----------------------------------------------------------------------------
(* compute_disconnected_tables: broken relationships connect tables too.   *)

Touching(S) == {k \in Fks : fk_table[k] \in S \/ target_table[k] \in S}

Linked(S) == S \cup {fk_table[k] : k \in Touching(S)}
               \cup {target_table[k] : k \in Touching(S)}

Reached[n \in Nat] == IF n = 0 THEN InitialTargetTables \cup PassthroughTables
                               ELSE Linked(Reached[n - 1])

Connected == Reached[Cardinality(Tables)]
Disconnected == Tables \ Connected

----------------------------------------------------------------------------
(* get_topological_order_by_tables: layers of the unbroken relationships   *)
(* between connected tables, the tables without parents first. A table no  *)
(* such relationship touches is in no layer.                               *)

OrderingFks == {k \in Redacted :
                    \/ Connected = {}
                    \/ fk_table[k] \in Connected /\ target_table[k] \in Connected}

Parents(t) == {target_table[k] : k \in {j \in OrderingFks : fk_table[j] = t}}

Ordered == {fk_table[k] : k \in OrderingFks} \cup {target_table[k] : k \in OrderingFks}

\* toposort: the union of the first n layers.
Placed[n \in Nat] ==
    IF n = 0 THEN {}
    ELSE LET before == Placed[n - 1] IN {t \in Ordered : Parents(t) \subseteq before}

\* toposort raises CircularDependencyError otherwise.
ASSUME AcyclicAssumption == Placed[Cardinality(Tables)] = Ordered

Strata == [n \in 1 .. Cardinality(Tables) |-> Placed[n] \ Placed[n - 1]]

\* How many strata the order has.
Depth == Cardinality({n \in 1 .. Cardinality(Tables) : Strata[n] # {}})

\* compute_upstream_strata: every stratum after the first that holds a target.
UpstreamLevels ==
    {n \in 1 .. Depth : \E m \in 1 .. n - 1 : Strata[m] \cap InitialTargetTables # {}}

\* compute_downstream_strata: what is passed through or disconnected is left
\* out, and a stratum with nothing left is dropped.
DownstreamStratum(n) == Strata[n] \ (PassthroughTables \cup Disconnected)

DownstreamLevels == {n \in 1 .. Depth : DownstreamStratum(n) # {}}
============================================================================
