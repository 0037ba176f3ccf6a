-------------------------- MODULE MCOrderRequests --------------------------
(* OrderRequests for TLC: two orders, one key for orders and policies.     *)
EXTENDS OrderRequests, TLC

CONSTANTS o1, o2, r1, k1, u1, p1, p2

MCOrders == {o1, o2}
MCRefs == {r1}
MCAsset == {"USD", "FYOXX", "FIDD"}
MCGuardContexts == {HappyPath}
MCAccountOf == [k \in {k1} |-> u1]

Pay(cash, product) == [cash |-> cash, product |-> product]
MCTerms ==
    {Pay("USD", "FYOXX"), Pay("FIDD", "FYOXX"), Pay("USD", "FIDD"), Pay("FYOXX", "FYOXX")}

Order(t) == [kind |-> "order", key |-> k1, terms |-> t]
Policy(p) == [kind |-> "policy", key |-> k1, policy |-> p]
On(o, command) == [kind |-> "command", key |-> k1, order |-> o, command |-> command]

(* Two admissible bodies under one key, one of a product that bears no     *)
(* yield, one of cash that is no rail, two policies, and both keyed        *)
(* commands on one order.                                                  *)
MCRequests ==
    {Order(t) : t \in MCTerms} \union {Policy(p1), Policy(p2)}
    \union {On(o1, "Cancel"), On(o1, "RequestRedemption")}

MCPolicyRequests == {Policy(p1), Policy(p2)}
=============================================================================
