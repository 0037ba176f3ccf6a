--------------------------- MODULE OrderRequests ---------------------------
(***************************************************************************)
(* The idempotency protocol of the API's writes over the order store:      *)
(* create_sweep_policy, create_sweep_order and the keyed apply_command.    *)
(* Each looks its key up in idempotency_records, writes, and records the   *)
(* key.  The lookup takes no lock, so the lookup and the writes are two    *)
(* actions; the writes wait for the locks and unique indexes they share    *)
(* until the earlier transaction ended, so they are one action.  Clients   *)
(* retry what was not answered or was answered 500.                        *)
(***************************************************************************)
EXTENDS SweepOrders

CONSTANTS
    Clients,
    Requests,     \* what clients ask
    Accounts,
    AccountOf,    \* the account of each element of Keys
    Policies,     \* bodies of PUT policy requests
    MaxFailures,  \* bound on the lost answers and failed transactions per client
    NoOrder, NoPolicy, NoRequest

RequestShape ==
    [kind : {"order"}, key : Keys, terms : Terms]
    \union [kind : {"policy"}, key : Keys, policy : Policies]
    \union [kind : {"command"}, key : Keys, order : Orders, command : Command]

ASSUME RequestAssumption ==
    /\ Requests \subseteq RequestShape
    /\ AccountOf \in [Keys -> Accounts]
    /\ NoOrder \notin Orders
    /\ NoPolicy \notin Policies
    /\ NoRequest \notin Requests
    /\ MaxFailures \in Nat
    /\ HappyPath \in GuardContexts

VARIABLES
    records,   \* idempotency_records: rows [request, resource]
    policies,  \* sweep_policies, per account
    asked,     \* per client: its request
    step,      \* per client: idle, lookup, write, retry or answered
    answer,    \* per client: none, ok, invalid, conflict or refused
    replied,   \* per client: the order an ok answer shows
    failures   \* per client

clientVars == <<asked, step, answer, replied, failures>>
vars == <<storeVars, records, policies, clientVars>>

(* Mutant: the scope does not say what was asked.                          *)
SlotUnscoped(r) == <<r.key>>

(* The primary key (scope, key_hash) of a request's record.  Of the rest   *)
(* of the request the record keeps a hash, here the request itself.        *)
Slot(r) ==
    IF r.kind = "command" THEN <<"order-command", r.order, r.command, r.key>>
    ELSE <<r.kind, r.key>>

RowsOf(slot) == {row \in records : Slot(row.request) = slot}

RInit ==
    /\ Init
    /\ records = {}
    /\ policies = [a \in Accounts |-> NoPolicy]
    /\ asked = [c \in Clients |-> NoRequest]
    /\ step = [c \in Clients |-> "idle"]
    /\ answer = [c \in Clients |-> "none"]
    /\ replied = [c \in Clients |-> NoOrder]
    /\ failures = [c \in Clients |-> 0]

-----------------------------------------------------------------------------
(* Mutant: the handler goes on after it has the answer.                    *)
RespondAndGoOn(c, what, o) ==
    /\ step' = [step EXCEPT ![c] = "write"]
    /\ answer' = [answer EXCEPT ![c] = what]
    /\ replied' = [replied EXCEPT ![c] = o]
    /\ UNCHANGED <<asked, failures>>

Respond(c, what, o) ==
    /\ step' = [step EXCEPT ![c] = "answered"]
    /\ answer' = [answer EXCEPT ![c] = what]
    /\ replied' = [replied EXCEPT ![c] = o]
    /\ UNCHANGED <<asked, failures>>

(* The answer does not arrive, or is a 500.                                *)
Fail(c) ==
    /\ failures[c] < MaxFailures
    /\ failures' = [failures EXCEPT ![c] = @ + 1]
    /\ step' = [step EXCEPT ![c] = "retry"]
    /\ UNCHANGED <<asked, answer, replied>>

(* A command names an order that some earlier answer showed.               *)
Submit(c, r) ==
    /\ step[c] = "idle"
    /\ r.kind = "command" => status[r.order] # Absent
    /\ asked' = [asked EXCEPT ![c] = r]
    /\ step' = [step EXCEPT ![c] = "lookup"]
    /\ UNCHANGED <<storeVars, records, policies, answer, replied, failures>>

Retry(c) ==
    /\ step[c] = "retry"
    /\ step' = [step EXCEPT ![c] = "lookup"]
    /\ UNCHANGED <<storeVars, records, policies, asked, answer, replied, failures>>

(* The checks of create_sweep_order before its transaction begins: of the  *)
(* product, a domain error, answered 422 ...                               *)
Invalid(r) == r.kind = "order" /\ ~ YieldSourceAllowed(r.terms.product)

(* ... and then of the cash asset, a Parse error of the persistence crate, *)
(* answered 500.                                                           *)
NoRail(r) ==
    /\ r.kind = "order"
    /\ YieldSourceAllowed(r.terms.product)
    /\ r.terms.cash \notin CashRail

(* Mutant: the request hash is not compared.                               *)
ExistingIdempotentResourceAny(c) ==
    LET r == asked[c] IN
    /\ step[c] = "lookup"
    /\ ~ Invalid(r) /\ ~ NoRail(r)
    /\ \/ /\ RowsOf(Slot(r)) = {}
          /\ step' = [step EXCEPT ![c] = "write"]
          /\ UNCHANGED <<asked, answer, replied, failures>>
       \/ \E row \in RowsOf(Slot(r)) : Respond(c, "ok", row.resource)
    /\ UNCHANGED <<storeVars, records, policies>>

(* existing_idempotent_resource: write, replay or conflict.                *)
ExistingIdempotentResource(c) ==
    LET r == asked[c] IN
    /\ step[c] = "lookup"
    /\ ~ Invalid(r) /\ ~ NoRail(r)
    /\ \/ /\ RowsOf(Slot(r)) = {}
          /\ step' = [step EXCEPT ![c] = "write"]
          /\ UNCHANGED <<asked, answer, replied, failures>>
       \/ \E row \in RowsOf(Slot(r)) :
             \/ row.request = r /\ Respond(c, "ok", row.resource)
             \/ row.request # r /\ Respond(c, "conflict", NoOrder)
             \/ row.request = r /\ Fail(c)
    /\ UNCHANGED <<storeVars, records, policies>>

RejectInvalid(c) ==
    /\ step[c] = "lookup"
    /\ Invalid(asked[c])
    /\ Respond(c, "invalid", NoOrder)
    /\ UNCHANGED <<storeVars, records, policies>>

(* The 500 that every attempt gets: clients cannot tell it from a failure. *)
RejectCash(c) ==
    /\ step[c] = "lookup"
    /\ NoRail(asked[c])
    /\ step' = [step EXCEPT ![c] = "retry"]
    /\ UNCHANGED <<storeVars, records, policies, asked, answer, replied, failures>>

(* Mutant: nothing is recorded.                                            *)
RecordIdempotencyNot(r, o) == UNCHANGED records

(* record_idempotency: on conflict do nothing.                             *)
RecordIdempotency(r, o) ==
    records' = IF RowsOf(Slot(r)) = {}
               THEN records \union {[request |-> r, resource |-> o]}
               ELSE records

(* A transaction that committed was answered, or its answer was lost.      *)
Committed(c, o) == Respond(c, "ok", o) \/ Fail(c)

WriteOrder(c) ==
    LET r == asked[c] IN
    /\ step[c] = "write"
    /\ r.kind = "order"
    /\ \E o \in Orders :
          /\ CreateOrder(o, r.key, r.terms)
          /\ RecordIdempotency(r, o)
          /\ Committed(c, o)
    /\ UNCHANGED policies

(* unique (account_id, idempotency_key_hash): a 500, which clients retry.  *)
WriteOrderTwice(c) ==
    /\ step[c] = "write"
    /\ asked[c].kind = "order"
    /\ \E o \in Orders : keyOf[o] = asked[c].key
    /\ step' = [step EXCEPT ![c] = "retry"]
    /\ UNCHANGED <<storeVars, records, policies, asked, answer, replied, failures>>

(* insert ... on conflict (account_id) do update                           *)
WritePolicy(c) ==
    LET r == asked[c] IN
    /\ step[c] = "write"
    /\ r.kind = "policy"
    /\ policies' = [policies EXCEPT ![AccountOf[r.key]] = r.policy]
    /\ RecordIdempotency(r, NoOrder)
    /\ Committed(c, NoOrder)
    /\ UNCHANGED storeVars

WriteCommand(c) ==
    LET r == asked[c] IN
    /\ step[c] = "write"
    /\ r.kind = "command"
    /\ ApplyCommand(r.order, r.command, NoRef, HappyPath)
    /\ RecordIdempotency(r, r.order)
    /\ Committed(c, r.order)
    /\ UNCHANGED policies

(* InvalidTransition: 409.                                                 *)
RefuseCommand(c) ==
    LET r == asked[c] IN
    /\ step[c] = "write"
    /\ r.kind = "command"
    /\ \A to \in Status : ~ Transition(status[r.order], r.command, to, HappyPath)
    /\ Respond(c, "refused", NoOrder)
    /\ UNCHANGED <<storeVars, records, policies>>

(* The transaction rolls back.                                             *)
TransactionFails(c) ==
    /\ step[c] \in {"lookup", "write"}
    /\ Fail(c)
    /\ UNCHANGED <<storeVars, records, policies>>

(* The workers' commands carry no key.                                     *)
WorkerCommand ==
    /\ \E o \in Orders, command \in Command \ {"Cancel", "RequestRedemption"} :
          \E ref \in InputRefs(command) : ApplyCommand(o, command, ref, HappyPath)
    /\ UNCHANGED <<records, policies, clientVars>>

-----------------------------------------------------------------------------
Serve(c) ==
    \/ RejectInvalid(c) \/ RejectCash(c) \/ ExistingIdempotentResource(c)
    \/ WriteOrder(c) \/ WriteOrderTwice(c) \/ WritePolicy(c)
    \/ WriteCommand(c) \/ RefuseCommand(c)
    \/ TransactionFails(c)

RNext ==
    \/ \E c \in Clients : (\E r \in Requests : Submit(c, r)) \/ Retry(c) \/ Serve(c)
    \/ WorkerCommand

RSpec == RInit /\ [][RNext]_vars

(* The API serves what it accepted; clients retry.                         *)
Fairness == \A c \in Clients : WF_vars(Serve(c)) /\ WF_vars(Retry(c))

FairSpec == RSpec /\ Fairness

-----------------------------------------------------------------------------
RTypeOK ==
    /\ records \subseteq [request : Requests, resource : Orders \union {NoOrder}]
    /\ policies \in [Accounts -> Policies \union {NoPolicy}]
    /\ asked \in [Clients -> Requests \union {NoRequest}]
    /\ step \in [Clients -> {"idle", "lookup", "write", "retry", "answered"}]
    /\ answer \in [Clients -> {"none", "ok", "invalid", "conflict", "refused"}]
    /\ replied \in [Clients -> Orders \union {NoOrder}]
    /\ failures \in [Clients -> 0 .. MaxFailures]
    /\ \A c \in Clients : answer[c] = "none" <=> step[c] # "answered"

AnsweredOk(c, kind) == answer[c] = "ok" /\ asked[c].kind = kind

(***************************************************************************)
(* The record of a key and the order made under it are written together or *)
(* not at all: each order key has at most one record, and has one exactly  *)
(* when an order carries the key, naming that order and the terms it was   *)
(* made with.  A command's record implies the command is in the timeline.  *)
(***************************************************************************)
RecordsMatchOrders ==
    /\ \A k \in Keys :
          RowsOf(<<"order", k>>) =
              {[request |-> [kind |-> "order", key |-> k, terms |-> terms[o]], resource |-> o] :
                  o \in {p \in Orders : keyOf[p] = k}}
    /\ \A row \in records :
          row.request.kind = "command" => Did(row.resource, row.request.command)

(***************************************************************************)
(* Whatever requests race, are lost and are retried: an ok answer to a     *)
(* create shows an order with the terms that were asked, two ok answers to *)
(* one key show one order, and an ok answer to a command means the command *)
(* was applied to the order it named.                                      *)
(***************************************************************************)
OkMeansDone ==
    /\ \A c \in Clients :
          /\ AnsweredOk(c, "order") => terms[replied[c]] = asked[c].terms
          /\ AnsweredOk(c, "command") => Did(asked[c].order, asked[c].command)
    /\ \A c, d \in Clients :
          AnsweredOk(c, "order") /\ AnsweredOk(d, "order") /\ asked[c].key = asked[d].key
            => replied[c] = replied[d]

(***************************************************************************)
(* A client that retries gets its answer, unless it asks to pay with what  *)
(* is no cash rail, which is refused as if the service had failed; and one *)
(* whose order exists gets ok, even when the answer to the attempt that    *)
(* made it was lost or the unique index refused the attempt.               *)
(***************************************************************************)
EveryRequestAnswered ==
    \A c \in Clients : step[c] = "lookup" /\ ~ NoRail(asked[c]) ~> step[c] = "answered"

Owed(c) ==
    /\ step[c] \notin {"idle", "answered"}
    /\ asked[c].kind = "order"
    /\ \E o \in Orders : keyOf[o] = asked[c].key /\ terms[o] = asked[c].terms

MadeIsAcknowledged == \A c \in Clients : Owed(c) ~> answer[c] = "ok"

(***************************************************************************)
(* docs/security.md: "Duplicate idempotency keys with different bodies are *)
(* rejected."                                                              *)
(***************************************************************************)
DifferentBodiesRejected ==
    \A c, d \in Clients :
        /\ answer[c] = "ok" /\ answer[d] = "ok"
        /\ Slot(asked[c]) = Slot(asked[d])
        => asked[c] = asked[d]

(***************************************************************************)
(* To the clients that ask for orders, the lookup without a lock, the      *)
(* unique index, the record, lost answers and retries, and the policies    *)
(* and commands beside them, are one atomic look at the orders made: the   *)
(* keyed requests implement KeyedOrders.                                   *)
(***************************************************************************)
AsksOrder(c) == step[c] # "idle" /\ asked[c].kind = "order"

OrdersMade ==
    {[key |-> keyOf[o], terms |-> terms[o], order |-> o] : o \in {p \in Orders : keyOf[p] # NoKey}}

OrderAsked == [c \in Clients |-> IF AsksOrder(c) THEN asked[c] ELSE NoRequest]

OrderAnswer == [c \in Clients |-> IF AsksOrder(c) THEN answer[c] ELSE "none"]

OrderReplied ==
    [c \in Clients |-> IF AsksOrder(c) /\ answer[c] = "ok" THEN replied[c] ELSE NoOrder]

Keyed == INSTANCE KeyedOrders WITH
    Requests <- {r \in Requests : r.kind = "order"},
    Admissible <- {t \in Terms : YieldSourceAllowed(t.product) /\ t.cash \in CashRail},
    Rejected <- {t \in Terms : ~ YieldSourceAllowed(t.product)},
    made <- OrdersMade, asked <- OrderAsked, answer <- OrderAnswer, replied <- OrderReplied

RefinesKeyedOrders == Keyed!Spec
=============================================================================
