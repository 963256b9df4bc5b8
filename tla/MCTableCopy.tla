---------------------------- MODULE MCTableCopy ----------------------------
(***************************************************************************)
(* Tables in every part they can play in a run. The rows of an instance    *)
(* are all combinations of IDs its constraints can hold, so that each kind *)
(* of row meets every statement; two IDs make a batch and one page per     *)
(* worker a split.                                                         *)
(***************************************************************************)
EXTENDS TableCopy

CONSTANTS Null, PartNull \* all columns NULL; one of several

Vectors(ks, ids) == [ks -> ids \cup {Null}]

Basic(ks, rows) ==
    [path |-> "upstream", rows |-> rows, kcs |-> ks, group |-> [k \in ks |-> k],
     ids |-> [k \in ks |-> {}], fresh |-> NoPlan, condition |-> <<rows>>,
     cached |-> NoPlan, pages |-> [r \in rows |-> 0], relpages |-> 0, pool |-> 0,
     alone |-> FALSE, temps |-> FALSE, composite |-> FALSE, upsert |-> FALSE,
     phased |-> FALSE, limit |-> Unlimited]

\* Which IDs a parent has, up to renaming: none, less than a batch, a batch
\* and more, with NULLs next to them and enough of these to fill a batch.
Parents == {{}, {1}, {1, 2}, {1, 2, Null}, {1, 2, 3}, {1, Null, PartNull}}

\* Parents that gained rows, and what they gained.
Gains(ids) ==
    {f \in UNION {[G -> {{1}, {Null}, {1, 2, 3}}] : G \in SUBSET DOMAIN ids} :
        \A g \in DOMAIN f : f[g] \subseteq ids[g]}

\* Recreate, grow and topup runs over the same parents.
Modes(t) ==
    {t, [t EXCEPT !.upsert = TRUE]}
        \cup {[t EXCEPT !.upsert = TRUE, !.fresh = f] : f \in Gains(t.ids)}

TwoParents ==
    {[Basic({"a", "b"}, Vectors({"a", "b"}, {1, 2, 3}))
        EXCEPT !.ids = [k \in {"a", "b"} |-> IF k = "a" THEN A ELSE B], !.temps = temps] :
            A \in Parents, B \in Parents, temps \in BOOLEAN}

\* Two constraints to one parent, and a third to another.
SharedRows == {r \in Vectors({"a", "b", "c"}, {1, 2, 3}) : r["c"] \in {1, Null}}
SharedParent ==
    {[Basic({"a", "b", "c"}, SharedRows)
        EXCEPT !.group = [k \in {"a", "b", "c"} |-> IF k = "c" THEN "q" ELSE "p"],
               !.ids = [g \in {"p", "q"} |-> IF g = "p" THEN P ELSE Q]] :
            P \in Parents, Q \in {{}, {1, 2, Null}}}
        \cup {[Basic({"a", "b"}, Vectors({"a", "b"}, {1, 2, 3}))
                EXCEPT !.group = [k \in {"a", "b"} |-> "p"], !.ids = [g \in {"p"} |-> P],
                       !.limit = limit] : P \in Parents, limit \in {Unlimited, 2}}

FewRows == Vectors({"a", "b"}, {1})
RowLimits ==
    {[Basic({"a", "b"}, FewRows)
        EXCEPT !.ids = [k \in {"a", "b"} |-> IF k = "a" THEN A ELSE B], !.temps = temps,
               !.limit = 2] : A \in Parents, B \in Parents, temps \in BOOLEAN}

\* A table alone in its stratum: five parents make two rounds on two
\* connections; few parents a split of the table itself.
Paged(ids, pages) == {r \in [{"a", "page"} -> ids \cup pages \cup {Null}] :
                        r["a"] \in ids \cup {Null} /\ r["page"] \in pages}
Alone ==
    {LET rows == Paged({1, 2, 3, 4, 5}, {0}) IN
     [Basic({"a"}, rows) EXCEPT !.ids = [k \in {"a"} |-> P], !.alone = TRUE, !.pool = n,
                                !.composite = composite, !.relpages = 3] :
            P \in Parents \cup {1 .. 5, 1 .. 4, (1 .. 3) \cup {Null, PartNull}}, n \in 1 .. 3,
            composite \in BOOLEAN}
        \cup {LET rows == Paged({1}, 0 .. 3) IN
              [Basic({"a"}, rows) EXCEPT !.ids = [k \in {"a"} |-> P], !.alone = TRUE,
                  !.pool = 2, !.relpages = relpages, !.pages = [r \in rows |-> r["page"]]] :
                    P \in {{1}, {}, {Null}}, relpages \in 0 .. 3}

\* Rows found by their primary key or by another key; some IDs have no row.
Keyed == {[a |-> 1, b |-> 1], [a |-> 2, b |-> 2], [a |-> 3, b |-> Null], [a |-> 4, b |-> 3]}
Referred ==
    {[Basic({"a", "b"}, Keyed)
        EXCEPT !.path = "downstream", !.alone = (n > 0), !.pool = n, !.temps = temps,
               !.upsert = upsert, !.phased = upsert,
               !.ids = [k \in {"a", "b"} |-> IF k = "a" THEN A ELSE B]] :
            A \in SUBSET {1, 2, 4, Null}, B \in {{}, {1, 2}, {1, 3, Null}, {1, 2, 9}},
            n \in {0, 2}, temps \in BOOLEAN, upsert \in BOOLEAN}

PageRows == [{"page"} -> 0 .. 3]
Low == {r \in PageRows : r["page"] < 2}
Even == {r \in PageRows : r["page"] \in {0, 2}}
Plain(path) ==
    {[Basic({"page"}, PageRows)
        EXCEPT !.path = path, !.pool = n, !.relpages = relpages,
               !.pages = [r \in PageRows |-> r["page"]]] :
            n \in {0, 2}, relpages \in {1, 2, 3, 5}}
Targets ==
    {[t EXCEPT !.condition = condition, !.cached = cached] :
        t \in Plain("direct"), condition \in {<<{}>>, <<Low>>, <<PageRows>>},
        cached \in {NoPlan, [v \in {1} |-> Even], [v \in {1, 2} |-> IF v = 1 THEN Even ELSE {}]}}
Whole == {[t EXCEPT !.limit = limit] : t \in Plain("whole"), limit \in {Unlimited, 2}}

Filters1 == {[t EXCEPT !.condition = <<{r \in t.rows : r["page"] # 1}>>] : t \in Alone}

AllLayouts ==
    UNION {Modes(t) : t \in TwoParents \cup SharedParent \cup RowLimits \cup Alone}
        \cup Filters1 \cup Referred \cup Targets \cup Whole

\* Conditions with an OR: on a target with a pre_filter, on one whose
\* pre_filter found nothing, and on a filtered table that is split.
OrLayouts ==
    {[t EXCEPT !.condition = <<Low, Even>>, !.cached = [v \in {1} |-> Even]] :
        t \in {u \in Plain("direct") : u.pool = 0}}
        \cup {[t EXCEPT !.condition = <<{r \in t.rows : r["page"] = 0},
                                        {r \in t.rows : r["page"] = 3}>>] :
                t \in {u \in Alone : u.pages \in [u.rows -> 0 .. 3] /\ u.pool = 2}}
=============================================================================
