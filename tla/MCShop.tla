------------------------------ MODULE MCShop ------------------------------
(***************************************************************************)
(* A schema with everything the traversal distinguishes: two direct        *)
(* targets in different strata (orders and claims), upstream tables        *)
(* (shipments, lines, clerks), a passthrough parent (countries), a broken  *)
(* cycle between claims and clerks, and a disconnected table with a broken *)
(* self reference (audits). A claim can bring in, through the downstream   *)
(* phase, a shipment and an order that no target selects.                  *)
(***************************************************************************)
EXTENDS MiddleOut

MCTables == {"order", "shipment", "line", "claim", "clerk", "country", "audit"}
MCPairs == [ shipment_order |-> <<"shipment", "order">>,
             line_shipment  |-> <<"line", "shipment">>,
             claim_shipment |-> <<"claim", "shipment">>,
             claim_clerk    |-> <<"claim", "clerk">>,
             clerk_claim    |-> <<"clerk", "claim">>,
             order_country  |-> <<"order", "country">>,
             audit_audit    |-> <<"audit", "audit">> ]
MCFks == DOMAIN MCPairs
MCFkTable == [k \in MCFks |-> MCPairs[k][1]]
MCTargetTable == [k \in MCFks |-> MCPairs[k][2]]
MCBreaks == {<<"claim", "clerk">>, <<"audit", "audit">>}
MCTargets == {"order", "claim"}

MCTableOf == [ o1 |-> "order", o2 |-> "order", s1 |-> "shipment", s2 |-> "shipment",
               l1 |-> "line", l2 |-> "line", c1 |-> "claim", k1 |-> "clerk",
               n1 |-> "country", a1 |-> "audit", a2 |-> "audit" ]
MCRows == DOMAIN MCTableOf
MCSelections == [t \in MCTargets |-> IF t = "order" THEN {{"o1"}} ELSE {{"c1"}}]

\* Sources in which everything refers to the first order, except that the
\* claim is about either shipment or none and the second shipment, with its
\* line, belongs to the second order.
Shop(claimed, clerk) ==
    [ o1 |-> [order_country |-> "n1"], o2 |-> [order_country |-> "n1"],
      s1 |-> [shipment_order |-> "o1"], s2 |-> [shipment_order |-> "o2"],
      l1 |-> [line_shipment |-> "s1"], l2 |-> [line_shipment |-> "s2"],
      c1 |-> [claim_shipment |-> claimed, claim_clerk |-> clerk],
      k1 |-> [clerk_claim |-> "c1"],
      n1 |-> [k \in {} |-> Null],
      a1 |-> [audit_audit |-> Null], a2 |-> [audit_audit |-> "a1"] ]
MCSources == {Shop(p, k) : p \in {"s1", "s2", Null}, k \in {"k1", Null}}
FewSources == {Shop(Null, "k1")}
===========================================================================
