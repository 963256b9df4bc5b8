----------------------------- MODULE TableMerge -----------------------------
(***************************************************************************)
(* What the copy of one table promises, however it is cut into statements  *)
(* and spread over connections: rows of the source appear in the           *)
(* destination as the source has them, a transaction at a time; nothing    *)
(* else changes; and a copy that reports success has copied enough, all    *)
(* that was wanted unless a row limit allowed for less. A copy that fails  *)
(* keeps what it committed.                                                *)
(***************************************************************************)
EXTENDS Naturals, FiniteSets

CONSTANT Absent  \* no such row

VARIABLES
    wanted,  \* [identities -> contents or Absent]: the rows to copy
    enough,  \* how many of them make a complete copy
    dest,    \* [identities -> contents or Absent]: what is committed
    outcome  \* "running", "merged" (the copy returned) or "failed" (it raised)

mergeVars == <<wanted, enough, dest, outcome>>

ToCopy == {i \in DOMAIN wanted : wanted[i] # Absent}
Merged == {i \in ToCopy : dest[i] = wanted[i]}

MergeInit ==
    /\ enough \in Nat /\ enough <= Cardinality(ToCopy)
    /\ outcome = "running"

\* A transaction, the last one's possibly together with the end of the copy.
MergeStep ==
    /\ outcome = "running"
    /\ LET now == {i \in ToCopy : dest'[i] = wanted[i]} IN
          dest' = [i \in DOMAIN wanted |-> IF i \in now THEN wanted[i] ELSE dest[i]]
    /\ outcome' \in {"running", "merged", "failed"}
    /\ outcome' = "merged" => Cardinality(Merged') >= enough
    /\ UNCHANGED <<wanted, enough>>

MergeSpec == MergeInit /\ [][MergeStep]_mergeVars
=============================================================================
