---------------------------- MODULE KeyedOrders ----------------------------
(***************************************************************************)
(* What a keyed POST /sweep-orders promises the clients, however their     *)
(* requests race, fail and are repeated: at most one order is made under a *)
(* key, and an answer is what one look at the orders made so far tells.    *)
(***************************************************************************)
CONSTANTS
    Clients,
    Orders,
    Requests,    \* what clients ask: records with a key and terms
    Admissible,  \* the terms an order may have
    Rejected,    \* the terms that are answered invalid; others are not answered
    NoOrder, NoRequest

VARIABLES
    made,    \* the orders there are: records of a key, terms and an order
    asked,   \* per client: its request
    answer,  \* per client: none, ok, invalid or conflict
    replied  \* per client: the order an ok answer shows

MadeUnder(key) == {row \in made : row.key = key}

Init ==
    /\ made = {}
    /\ asked = [c \in Clients |-> NoRequest]
    /\ answer = [c \in Clients |-> "none"]
    /\ replied = [c \in Clients |-> NoOrder]

Ask(c) ==
    /\ asked[c] = NoRequest
    /\ \E r \in Requests : asked' = [asked EXCEPT ![c] = r]
    /\ UNCHANGED <<made, answer, replied>>

Waiting(c) == asked[c] # NoRequest /\ answer[c] = "none"

Answer(c, what, o) ==
    /\ answer' = [answer EXCEPT ![c] = what]
    /\ replied' = [replied EXCEPT ![c] = o]

(* A new order, which its client is told of at once or not.                *)
Make(c) ==
    /\ Waiting(c)
    /\ asked[c].terms \in Admissible
    /\ MadeUnder(asked[c].key) = {}
    /\ \E o \in Orders \ {row.order : row \in made} :
          /\ made' = made \union {[key |-> asked[c].key, terms |-> asked[c].terms, order |-> o]}
          /\ Answer(c, "ok", o) \/ UNCHANGED <<answer, replied>>
    /\ UNCHANGED asked

(* An answer that makes nothing.                                           *)
Reply(c) ==
    /\ Waiting(c)
    /\ \/ /\ asked[c].terms \in Rejected
          /\ Answer(c, "invalid", NoOrder)
       \/ /\ asked[c].terms \in Admissible
          /\ \E row \in MadeUnder(asked[c].key) :
                \/ row.terms = asked[c].terms /\ Answer(c, "ok", row.order)
                \/ row.terms # asked[c].terms /\ Answer(c, "conflict", NoOrder)
    /\ UNCHANGED <<made, asked>>

Next == \E c \in Clients : Ask(c) \/ Make(c) \/ Reply(c)

Spec == Init /\ [][Next]_<<made, asked, answer, replied>>
=============================================================================
