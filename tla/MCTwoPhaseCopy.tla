-------------------------- MODULE MCTwoPhaseCopy --------------------------
(***************************************************************************)
(* Two workers, two values under the index. Every source over every        *)
(* destination of three rows, however the workers share them: a swap, a    *)
(* chain, a replaced row, a deleted one. And every update of four rows,    *)
(* two per worker: enough for the workers to wait for each other.          *)
(***************************************************************************)
EXTENDS TwoPhaseCopy

CONSTANTS w1, w2, a, b, i1, i2, i3, i4
MCWorkers == {w1, w2}
MCIds == {i1, i2, i3, i4}

\* Which worker and which row is which does not matter.
Shared(S) == [i \in MCIds |-> IF i \in S THEN w1 ELSE w2]
Contents(S, V) == {t \in [MCIds -> V \cup {Absent}] : Unique(t) /\ Live(t) \subseteq S}
Three == Contents({i1, i2, i3}, {a, b, Free})
Four == {t \in [MCIds -> {a, b, Free}] : Unique(t)}

AllLayouts ==
    [source : Three, dest : Three, range : {Shared({i1, i2, i3}), Shared({i1, i2})}]
        \cup [source : Four, dest : Four, range : {Shared({i1, i2})}]
==========================================================================
