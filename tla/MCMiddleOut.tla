--------------------------- MODULE MCMiddleOut ---------------------------
(***************************************************************************)
(* The diamond: orders (the target) are referenced by shipments, and lines *)
(* reference orders, shipments and products. Lines have two followed       *)
(* parents (the AND semantics) and one that only the downstream phase      *)
(* brings in.                                                              *)
(***************************************************************************)
EXTENDS MiddleOut

MCTables == {"order", "shipment", "line", "product"}
MCFks == {"shipment_order", "line_order", "line_shipment", "line_product"}
MCFkTable == [k \in MCFks |-> IF k = "shipment_order" THEN "shipment" ELSE "line"]
MCTargetTable == [k \in MCFks |->
    CASE k = "line_shipment" -> "shipment"
      [] k = "line_product"  -> "product"
      [] OTHER               -> "order"]

MCRows == {"o1", "o2", "s1", "l1", "p1"}
MCTableOf == [r \in MCRows |->
    CASE r \in {"o1", "o2"} -> "order"
      [] r = "s1" -> "shipment"
      [] r = "l1" -> "line"
      [] r = "p1" -> "product"]

\* The where clause or the percent may select any orders.
SelectAny == [t \in {"order"} |-> SUBSET {"o1", "o2"}]

Image(r) == Images(r) \cup {Absent}
AllDatabases == {db \in {[r \in MCRows |->
                            CASE r = "o1" -> o1 [] r = "o2" -> o2 [] r = "s1" -> s1
                              [] r = "l1" -> l1 [] r = "p1" -> p1] :
                         o1 \in Image("o1"), o2 \in Image("o2"), s1 \in Image("s1"),
                         l1 \in Image("l1"), p1 \in Image("p1")} : Consistent(db)}
\* Sources that hold every row, wherever the keys point.
FullDatabases == {db \in AllDatabases : Live(db) = MCRows}
==========================================================================
