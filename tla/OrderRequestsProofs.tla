------------------------ MODULE OrderRequestsProofs ------------------------
(***************************************************************************)
(* Proofs about OrderRequests: for any number of clients, keys, orders and *)
(* failures, records and orders are written together, and an ok answer     *)
(* means that what was asked is done.                                      *)
(***************************************************************************)
EXTENDS OrderRequests, SweepOrdersProofs

-----------------------------------------------------------------------------
(* What the store promises its clients: a row that exists keeps its terms  *)
(* and its key, no two rows have one key, and the past is not forgotten.   *)
KeysGiven ==
    /\ \A o \in Orders : status[o] = Absent => keyOf[o] = NoKey
    /\ \A o, p \in Orders : o # p /\ keyOf[o] # NoKey => keyOf[o] # keyOf[p]

RowsKept ==
    \A o \in Orders :
        /\ status[o] # Absent => terms'[o] = terms[o] /\ keyOf'[o] = keyOf[o]
        /\ \A command : Did(o, command) => Did(o, command)'

(* Rows of the store stay: terms and key of an order, and what was done.   *)
LEMMA StoreKeeps ==
    ASSUME IInv, KeysGiven, [Next]_storeVars
    PROVE  KeysGiven' /\ RowsKept
<1>0. TypeOK
  BY DEF IInv, TimelineInv
<1>1. ASSUME NEW o \in Orders, NEW key \in Keys, NEW asked_ \in Terms,
             CreateOrder(o, key, asked_)
      PROVE  KeysGiven' /\ RowsKept
  <2>1. /\ status[o] = Absent /\ \A p \in Orders : keyOf[p] # key
        /\ status' = [status EXCEPT ![o] = "Created"]
        /\ keyOf' = [keyOf EXCEPT ![o] = key]
        /\ terms' = [terms EXCEPT ![o] = asked_]
        /\ InsertTransition(o, Absent, "CreateSweepOrder", "Created")
    BY <1>1 DEF CreateOrder
  <2>2. "Created" # Absent
    BY DEF Absent
  <2>3. /\ status'[o] = "Created" /\ keyOf'[o] = key
        /\ \A p \in Orders \ {o} :
              status'[p] = status[p] /\ keyOf'[p] = keyOf[p] /\ terms'[p] = terms[p]
    BY <1>0, <2>1 DEF TypeOK
  <2>4. \A p \in Orders : \A c : Did(p, c) => Did(p, c)'
    BY <1>0, <2>1, DidInsert
  <2> QED
    BY <2>1, <2>2, <2>3, <2>4 DEF KeysGiven, RowsKept
<1>2. ASSUME NEW o \in Orders, NEW command \in Command, NEW ctx \in GuardContexts,
             NEW ref \in InputRefs(command), ApplyCommand(o, command, ref, ctx)
      PROVE  KeysGiven' /\ RowsKept
  <2>1. PICK to \in Status :
          /\ <<status[o], command, to>> \in Table
          /\ status' = [status EXCEPT ![o] = to]
          /\ InsertTransition(o, status[o], command, to)
          /\ UNCHANGED <<terms, keyOf>>
    BY <1>2 DEF ApplyCommand, Transition, Defined
  <2>2. status[o] # Absent /\ to # Absent
    BY <2>1, TableTyped DEF Status, Absent
  <2>3. \A p \in Orders : status'[p] = Absent => status[p] = Absent
    BY <1>0, <2>1, <2>2 DEF TypeOK
  <2>4. \A p \in Orders : \A c : Did(p, c) => Did(p, c)'
    BY <1>0, <2>1, DidInsert
  <2> QED
    BY <2>1, <2>3, <2>4 DEF KeysGiven, RowsKept
<1>3. CASE UNCHANGED <<status, terms, keyOf, timeline>>
  BY <1>3 DEF KeysGiven, RowsKept, Did
<1> QED
  BY <1>1, <1>2, <1>3 DEF Next, ResolveBreak, storeVars

-----------------------------------------------------------------------------
(* A client past its first step has asked something.                       *)
Busy == \A c \in Clients : step[c] # "idle" => asked[c] \in Requests

(* Requests by their kind.                                                 *)
LEMMA RequestKinds ==
    ASSUME NEW r \in Requests
    PROVE  /\ r.kind \in {"order", "policy", "command"}
           /\ r.key \in Keys
           /\ r.kind = "order" =>
                 /\ r.terms \in Terms
                 /\ r = [kind |-> "order", key |-> r.key, terms |-> r.terms]
           /\ r.kind = "policy" => r.policy \in Policies
           /\ r.kind = "command" => r.order \in Orders /\ r.command \in Command
<1>1. r \in RequestShape
  BY RequestAssumption
<1>2. CASE r \in [kind : {"order"}, key : Keys, terms : Terms]
  BY <1>2
<1>3. CASE r \in [kind : {"policy"}, key : Keys, policy : Policies]
  BY <1>3
<1>4. CASE r \in [kind : {"command"}, key : Keys, order : Orders, command : Command]
  BY <1>4
<1> QED
  BY <1>1, <1>2, <1>3, <1>4 DEF RequestShape

(* Every step of the API is a step of the store, or leaves it alone.       *)
LEMMA RequestsStep == Busy /\ [RNext]_vars => [Next]_storeVars
<1> SUFFICES ASSUME Busy, RNext PROVE [Next]_storeVars
  BY DEF vars
<1>1. ASSUME NEW c \in Clients, Serve(c) PROVE [Next]_storeVars
  <2>1. CASE WriteOrder(c)
    <3>1. asked[c] \in Requests /\ asked[c].kind = "order"
      BY <2>1 DEF WriteOrder, Busy
    <3>2. asked[c].key \in Keys /\ asked[c].terms \in Terms
      BY <3>1, RequestKinds
    <3> QED
      BY <2>1, <3>2 DEF WriteOrder, Next
  <2>2. CASE WriteCommand(c)
    <3>1. asked[c] \in Requests /\ asked[c].kind = "command"
      BY <2>2 DEF WriteCommand, Busy
    <3>2. asked[c].order \in Orders /\ asked[c].command \in Command
      BY <3>1, RequestKinds
    <3>3. NoRef \in InputRefs(asked[c].command)
      BY DEF InputRefs
    <3> QED
      BY <2>2, <3>2, <3>3, RequestAssumption DEF WriteCommand, Next
  <2>3. CASE UNCHANGED storeVars
    BY <2>3
  <2> QED
    BY <1>1, <2>1, <2>2, <2>3
       DEF Serve, RejectInvalid, RejectCash, ExistingIdempotentResource, WriteOrderTwice,
           WritePolicy, RefuseCommand, TransactionFails
<1>2. CASE WorkerCommand
  BY <1>2, RequestAssumption DEF WorkerCommand, Next
<1>3. ASSUME NEW c \in Clients, (\E r \in Requests : Submit(c, r)) \/ Retry(c)
      PROVE  [Next]_storeVars
  BY <1>3 DEF Submit, Retry
<1> QED
  BY <1>1, <1>2, <1>3 DEF RNext

-----------------------------------------------------------------------------
(* Types.                                                                  *)

TablesTyped ==
    /\ records \subseteq [request : Requests, resource : Orders \union {NoOrder}]
    /\ policies \in [Accounts -> Policies \union {NoPolicy}]

ClientsTyped ==
    /\ asked \in [Clients -> Requests \union {NoRequest}]
    /\ step \in [Clients -> {"idle", "lookup", "write", "retry", "answered"}]
    /\ answer \in [Clients -> {"none", "ok", "invalid", "conflict", "refused"}]
    /\ replied \in [Clients -> Orders \union {NoOrder}]
    /\ failures \in [Clients -> 0 .. MaxFailures]
    /\ \A c \in Clients : answer[c] = "none" <=> step[c] # "answered"
    /\ Busy

(* No client has asked for anything yet.                                   *)
LEMMA InitTyped == RInit => TablesTyped /\ ClientsTyped
BY RequestAssumption DEF RInit, TablesTyped, ClientsTyped, Busy

(* How an answer, or its loss, moves a client that was being served.       *)
LEMMA RespondTyped ==
    ASSUME ClientsTyped, NEW c \in Clients, step[c] # "idle",
           NEW what \in {"ok", "invalid", "conflict", "refused"},
           NEW o \in Orders \union {NoOrder}, Respond(c, what, o)
    PROVE  ClientsTyped'
BY DEF ClientsTyped, Busy, Respond

(* A lost connection or a rolled back transaction leaves the client able   *)
(* to retry.                                                               *)
LEMMA FailTyped ==
    ASSUME ClientsTyped, NEW c \in Clients, step[c] \in {"lookup", "write"}, Fail(c)
    PROVE  ClientsTyped'
<1>1. failures[c] + 1 \in 0 .. MaxFailures
  BY RequestAssumption DEF ClientsTyped, Fail
<1> QED
  BY <1>1 DEF ClientsTyped, Busy, Fail

(* A step of a client that is not an answer.                               *)
LEMMA MoveTyped ==
    ASSUME ClientsTyped, NEW c \in Clients, step[c] \in {"lookup", "write", "retry"},
           NEW to \in {"lookup", "write", "retry"}, step' = [step EXCEPT ![c] = to],
           UNCHANGED <<asked, answer, replied, failures>>
    PROVE  ClientsTyped'
BY DEF ClientsTyped, Busy

(* Every step keeps the clients' state well typed.                         *)
LEMMA ClientsStayTyped ==
    ASSUME TablesTyped, ClientsTyped, [RNext]_vars
    PROVE  ClientsTyped'
<1>1. ASSUME NEW c \in Clients, NEW r \in Requests, Submit(c, r) PROVE ClientsTyped'
  BY <1>1 DEF Submit, ClientsTyped, Busy
<1>2. ASSUME NEW c \in Clients, Retry(c) PROVE ClientsTyped'
  BY <1>2, MoveTyped DEF Retry
<1>3. ASSUME NEW c \in Clients, Serve(c) PROVE ClientsTyped'
  <2>1. CASE RejectInvalid(c)
    BY <2>1, RespondTyped DEF RejectInvalid
  <2>7. CASE RejectCash(c)
    BY <2>7, MoveTyped DEF RejectCash
  <2>2. CASE ExistingIdempotentResource(c)
    <3>1. step[c] = "lookup"
      BY <2>2 DEF ExistingIdempotentResource
    <3>2. ASSUME NEW row \in RowsOf(Slot(asked[c])), Respond(c, "ok", row.resource)
          PROVE  ClientsTyped'
      <4>1. row.resource \in Orders \union {NoOrder}
        BY <3>2 DEF RowsOf, TablesTyped
      <4> QED
        BY <3>1, <3>2, <4>1, RespondTyped
    <3>3. ASSUME Respond(c, "conflict", NoOrder) PROVE ClientsTyped'
      BY <3>1, <3>3, RespondTyped
    <3>4. ASSUME Fail(c) PROVE ClientsTyped'
      BY <3>1, <3>4, FailTyped
    <3>5. ASSUME step' = [step EXCEPT ![c] = "write"], UNCHANGED <<asked, answer, replied, failures>>
          PROVE  ClientsTyped'
      BY <3>1, <3>5, MoveTyped
    <3> QED
      BY <2>2, <3>2, <3>3, <3>4, <3>5 DEF ExistingIdempotentResource
  <2>3. CASE WriteOrder(c) \/ WritePolicy(c) \/ WriteCommand(c)
    <3>1. step[c] = "write" /\ asked[c] \in Requests
      BY <2>3 DEF WriteOrder, WritePolicy, WriteCommand, ClientsTyped, Busy
    <3>2. PICK o \in Orders \union {NoOrder} : Committed(c, o)
      BY <2>3, <3>1, RequestKinds DEF WriteOrder, WritePolicy, WriteCommand
    <3> QED
      BY <3>1, <3>2, RespondTyped, FailTyped DEF Committed
  <2>4. CASE WriteOrderTwice(c)
    BY <2>4, MoveTyped DEF WriteOrderTwice
  <2>5. CASE RefuseCommand(c)
    BY <2>5, RespondTyped DEF RefuseCommand
  <2>6. CASE TransactionFails(c)
    BY <2>6, FailTyped DEF TransactionFails
  <2> QED
    BY <1>3, <2>1, <2>2, <2>3, <2>4, <2>5, <2>6, <2>7 DEF Serve
<1>4. CASE UNCHANGED clientVars
  BY <1>4 DEF clientVars, ClientsTyped, Busy
<1> QED
  BY <1>1, <1>2, <1>3, <1>4 DEF RNext, WorkerCommand, vars

(* What is recorded is what was asked, under an order or under none.       *)
LEMMA RecordTyped ==
    ASSUME TablesTyped, NEW r \in Requests, NEW o \in Orders \union {NoOrder},
           RecordIdempotency(r, o)
    PROVE  records' \subseteq [request : Requests, resource : Orders \union {NoOrder}]
BY DEF TablesTyped, RecordIdempotency

(* Every step keeps the idempotency table well typed.                      *)
LEMMA TablesStayTyped ==
    ASSUME TablesTyped, ClientsTyped, [RNext]_vars
    PROVE  TablesTyped'
<1>1. ASSUME NEW c \in Clients, WriteOrder(c) \/ WriteCommand(c) PROVE TablesTyped'
  <2>1. asked[c] \in Requests
    BY <1>1 DEF WriteOrder, WriteCommand, ClientsTyped, Busy
  <2>2. PICK o \in Orders \union {NoOrder} : RecordIdempotency(asked[c], o)
    BY <1>1, <2>1, RequestKinds DEF WriteOrder, WriteCommand
  <2>3. UNCHANGED policies
    BY <1>1 DEF WriteOrder, WriteCommand
  <2> QED
    BY <2>1, <2>2, <2>3, RecordTyped DEF TablesTyped
<1>2. ASSUME NEW c \in Clients, WritePolicy(c) PROVE TablesTyped'
  <2>1. asked[c] \in Requests /\ asked[c].kind = "policy"
    BY <1>2 DEF WritePolicy, ClientsTyped, Busy
  <2>2. asked[c].policy \in Policies
    BY <2>1, RequestKinds
  <2>3. RecordIdempotency(asked[c], NoOrder)
    BY <1>2 DEF WritePolicy
  <2>4. records' \subseteq [request : Requests, resource : Orders \union {NoOrder}]
    BY <2>1, <2>3, RecordTyped
  <2>5. policies' = [policies EXCEPT ![AccountOf[asked[c].key]] = asked[c].policy]
    BY <1>2 DEF WritePolicy
  <2> QED
    BY <2>2, <2>4, <2>5 DEF TablesTyped
<1>3. CASE UNCHANGED <<records, policies>>
  BY <1>3 DEF TablesTyped
<1> QED
  BY <1>1, <1>2, <1>3
     DEF RNext, Serve, Submit, Retry, WorkerCommand, vars, RejectInvalid, RejectCash,
         ExistingIdempotentResource, WriteOrderTwice, RefuseCommand, TransactionFails

-----------------------------------------------------------------------------
(* The records.                                                            *)

OrderRow(o, k) ==
    [request |-> [kind |-> "order", key |-> k, terms |-> terms[o]], resource |-> o]

OrdersRecorded ==
    \A k \in Keys :
        RowsOf(<<"order", k>>) = {OrderRow(o, k) : o \in {p \in Orders : keyOf[p] = k}}

CommandsRecorded ==
    \A row \in records :
        row.request.kind = "command" =>
            row.resource = row.request.order /\ Did(row.resource, row.request.command)

RecordsInv == OrdersRecorded /\ CommandsRecorded

(* The scopes of the idempotency table keep the kinds of request apart.    *)
LEMMA SlotKinds ==
    ASSUME NEW r \in Requests
    PROVE  /\ r.kind = "order" => Slot(r) = <<"order", r.key>>
           /\ r.kind # "order" => \A k : Slot(r) # <<"order", k>>
<1>1. r.kind \in {"order", "policy", "command"}
  BY RequestKinds
<1>2. CASE r.kind = "command"
  <2>1. Slot(r)[1] = "order-command" /\ \A k : <<"order", k>>[1] = "order"
    BY <1>2 DEF Slot
  <2> QED
    BY <1>2, <2>1
<1>3. CASE r.kind # "command"
  BY <1>1, <1>3 DEF Slot
<1> QED
  BY <1>2, <1>3

(* A record of another kind leaves the records of orders alone.            *)
LEMMA OtherRecordKeepsOrders ==
    ASSUME OrdersRecorded, RowsKept, KeysGiven, NEW r \in Requests, r.kind # "order",
           NEW o, RecordIdempotency(r, o), UNCHANGED keyOf
    PROVE  OrdersRecorded'
<1> SUFFICES ASSUME NEW k \in Keys
             PROVE  RowsOf(<<"order", k>>)' =
                       {OrderRow(p, k)' : p \in {q \in Orders : keyOf'[q] = k}}
  BY DEF OrdersRecorded
<1>1. RowsOf(<<"order", k>>)' = RowsOf(<<"order", k>>)
  <2>1. Slot(r) # <<"order", k>>
    BY SlotKinds
  <2> QED
    BY <2>1 DEF RecordIdempotency, RowsOf
<1>2. \A p \in Orders : keyOf[p] = k => terms'[p] = terms[p]
  BY NullAssumption DEF RowsKept, KeysGiven
<1>3. {OrderRow(p, k)' : p \in {q \in Orders : keyOf'[q] = k}} =
      {OrderRow(p, k) : p \in {q \in Orders : keyOf[q] = k}}
  BY <1>2 DEF OrderRow
<1> QED
  BY <1>1, <1>3 DEF OrdersRecorded

(* So does a step that records nothing and creates nothing.                *)
LEMMA NoRecordKeepsOrders ==
    ASSUME OrdersRecorded, RowsKept, KeysGiven, UNCHANGED <<records, keyOf>>
    PROVE  OrdersRecorded'
<1> SUFFICES ASSUME NEW k \in Keys
             PROVE  RowsOf(<<"order", k>>)' =
                       {OrderRow(p, k)' : p \in {q \in Orders : keyOf'[q] = k}}
  BY DEF OrdersRecorded
<1>1. RowsOf(<<"order", k>>)' = RowsOf(<<"order", k>>)
  BY DEF RowsOf
<1>2. \A p \in Orders : keyOf[p] = k => terms'[p] = terms[p]
  BY NullAssumption DEF RowsKept, KeysGiven
<1>3. {OrderRow(p, k)' : p \in {q \in Orders : keyOf'[q] = k}} =
      {OrderRow(p, k) : p \in {q \in Orders : keyOf[q] = k}}
  BY <1>2 DEF OrderRow
<1> QED
  BY <1>1, <1>3 DEF OrdersRecorded

(* The transaction that creates an order records it.                       *)
LEMMA CreateRecordsOrder ==
    ASSUME TypeOK, OrdersRecorded, RowsKept, KeysGiven, NEW r \in Requests, r.kind = "order",
           NEW o \in Orders, CreateOrder(o, r.key, r.terms), RecordIdempotency(r, o)
    PROVE  OrdersRecorded'
<1>1. /\ r.key \in Keys /\ r = [kind |-> "order", key |-> r.key, terms |-> r.terms]
      /\ Slot(r) = <<"order", r.key>>
  BY RequestKinds, SlotKinds
<1>2. /\ status[o] = Absent /\ \A p \in Orders : keyOf[p] # r.key
      /\ keyOf' = [keyOf EXCEPT ![o] = r.key]
      /\ terms' = [terms EXCEPT ![o] = r.terms]
  BY DEF CreateOrder
<1>3. /\ keyOf'[o] = r.key /\ terms'[o] = r.terms
      /\ \A p \in Orders \ {o} : keyOf'[p] = keyOf[p] /\ terms'[p] = terms[p]
  BY <1>2 DEF TypeOK
<1>4. keyOf[o] = NoKey
  BY <1>2 DEF KeysGiven
<1> DEFINE new == [request |-> r, resource |-> o]
<1>5. records' = records \union {new}
  <2>1. RowsOf(<<"order", r.key>>) = {}
    BY <1>1, <1>2 DEF OrdersRecorded
  <2> QED
    BY <1>1, <2>1 DEF RecordIdempotency
<1> SUFFICES ASSUME NEW k \in Keys
             PROVE  RowsOf(<<"order", k>>)' =
                       {OrderRow(p, k)' : p \in {q \in Orders : keyOf'[q] = k}}
  BY DEF OrdersRecorded
<1>6. RowsOf(<<"order", k>>) = {OrderRow(p, k) : p \in {q \in Orders : keyOf[q] = k}}
  BY DEF OrdersRecorded
<1>7. CASE k = r.key
  <2>1. RowsOf(<<"order", k>>) = {}
    BY <1>2, <1>6, <1>7
  <2>2. RowsOf(<<"order", k>>)' = {new}
    <3>1. new.request = r
      OBVIOUS
    <3> QED
      BY <2>1, <3>1, <1>1, <1>5, <1>7 DEF RowsOf
  <2>3. {q \in Orders : keyOf'[q] = k} = {o}
    BY <1>2, <1>3, <1>7
  <2>4. OrderRow(o, k)' = new
    BY <1>1, <1>3, <1>7 DEF OrderRow
  <2>5. {OrderRow(p, k)' : p \in {q \in Orders : keyOf'[q] = k}} = {OrderRow(o, k)'}
    BY <2>3
  <2> QED
    BY <2>2, <2>4, <2>5
<1>8. CASE k # r.key
  <2>1. Slot(r) # <<"order", k>>
    BY <1>1, <1>8
  <2>2. RowsOf(<<"order", k>>)' = RowsOf(<<"order", k>>)
    <3>1. new.request = r
      OBVIOUS
    <3> QED
      BY <2>1, <3>1, <1>5 DEF RowsOf
  <2>3. {q \in Orders : keyOf'[q] = k} = {q \in Orders : keyOf[q] = k}
    BY <1>3, <1>4, <1>8, NullAssumption
  <2>4. \A p \in Orders : keyOf[p] = k => OrderRow(p, k)' = OrderRow(p, k)
    BY <1>3, <1>4, NullAssumption DEF OrderRow
  <2>5. {OrderRow(p, k)' : p \in {q \in Orders : keyOf[q] = k}} =
        {OrderRow(p, k) : p \in {q \in Orders : keyOf[q] = k}}
    BY <2>4
  <2> QED
    BY <1>6, <2>2, <2>3, <2>5
<1> QED
  BY <1>7, <1>8

(* What is recorded of commands stays true, and a new record is of a       *)
(* command just applied.                                                   *)
LEMMA CommandsStayRecorded ==
    ASSUME CommandsRecorded, RowsKept, TablesTyped, NEW r \in Requests,
           NEW o \in Orders \union {NoOrder},
           RecordIdempotency(r, o) \/ UNCHANGED records,
           r.kind = "command" => o = r.order /\ o \in Orders /\ Did(o, r.command)'
    PROVE  CommandsRecorded'
<1> SUFFICES ASSUME NEW row \in records', row.request.kind = "command"
             PROVE  row.resource = row.request.order /\ Did(row.resource, row.request.command)'
  BY DEF CommandsRecorded
<1>1. CASE row \in records
  <2>1. row.request \in Requests
    BY <1>1 DEF TablesTyped
  <2>2. row.request.order \in Orders
    BY <2>1, RequestKinds
  <2> QED
    BY <1>1, <2>2 DEF CommandsRecorded, RowsKept
<1>2. CASE row = [request |-> r, resource |-> o]
  BY <1>2
<1> QED
  BY <1>1, <1>2 DEF RecordIdempotency

(* Every step keeps the records right.                                     *)
LEMMA RecordsStay ==
    ASSUME TypeOK, TablesTyped, Busy, KeysGiven, RowsKept, RecordsInv, [RNext]_vars
    PROVE  RecordsInv'
<1>1. ASSUME NEW c \in Clients, WriteOrder(c) PROVE RecordsInv'
  <2>1. asked[c] \in Requests /\ asked[c].kind = "order"
    BY <1>1 DEF WriteOrder, Busy
  <2>2. PICK o \in Orders : /\ CreateOrder(o, asked[c].key, asked[c].terms)
                            /\ RecordIdempotency(asked[c], o)
    BY <1>1 DEF WriteOrder
  <2>3. OrdersRecorded'
    BY <2>1, <2>2, CreateRecordsOrder DEF RecordsInv
  <2>4. CommandsRecorded'
    BY <2>1, <2>2, CommandsStayRecorded DEF RecordsInv
  <2> QED
    BY <2>3, <2>4 DEF RecordsInv
<1>2. ASSUME NEW c \in Clients, WritePolicy(c) PROVE RecordsInv'
  <2>1. asked[c] \in Requests /\ asked[c].kind = "policy"
    BY <1>2 DEF WritePolicy, Busy
  <2>2. RecordIdempotency(asked[c], NoOrder) /\ UNCHANGED keyOf
    BY <1>2 DEF WritePolicy, storeVars
  <2>3. OrdersRecorded'
    BY <2>1, <2>2, OtherRecordKeepsOrders DEF RecordsInv
  <2>4. CommandsRecorded'
    BY <2>1, <2>2, CommandsStayRecorded DEF RecordsInv
  <2> QED
    BY <2>3, <2>4 DEF RecordsInv
<1>3. ASSUME NEW c \in Clients, WriteCommand(c) PROVE RecordsInv'
  <2>1. asked[c] \in Requests /\ asked[c].kind = "command"
    BY <1>3 DEF WriteCommand, Busy
  <2>2. asked[c].order \in Orders /\ asked[c].command \in Command
    BY <2>1, RequestKinds
  <2>3. /\ RecordIdempotency(asked[c], asked[c].order)
        /\ ApplyCommand(asked[c].order, asked[c].command, NoRef, HappyPath)
    BY <1>3 DEF WriteCommand
  <2>4. UNCHANGED keyOf /\ Did(asked[c].order, asked[c].command)'
    <3> DEFINE o == asked[c].order
               command == asked[c].command
    <3>1. o \in Orders /\ ApplyCommand(o, command, NoRef, HappyPath)
      BY <2>2, <2>3
    <3> HIDE DEF o, command
    <3>2. \E i \in DOMAIN timeline'[o] : timeline'[o][i].command = command
      BY <3>1, ApplyDid DEF Did
    <3>3. \E i \in DOMAIN timeline'[asked[c].order] :
             timeline'[asked[c].order][i].command = asked[c].command
      BY <3>2 DEF o, command
    <3>4. UNCHANGED <<asked, keyOf>>
      BY <1>3, <2>3 DEF WriteCommand, Committed, Respond, Fail, ApplyCommand
    <3> QED
      BY <3>3, <3>4 DEF Did
  <2>5. OrdersRecorded'
    BY <2>1, <2>3, <2>4, OtherRecordKeepsOrders DEF RecordsInv
  <2>6. UNCHANGED asked
    BY <1>3 DEF WriteCommand, Committed, Respond, Fail
  <2>7. CommandsRecorded'
    BY <2>1, <2>2, <2>3, <2>4, <2>6, CommandsStayRecorded DEF RecordsInv
  <2> QED
    BY <2>5, <2>7 DEF RecordsInv
<1>4. CASE UNCHANGED <<records, keyOf>>
  <2>1. OrdersRecorded'
    BY <1>4, NoRecordKeepsOrders DEF RecordsInv
  <2>2. CommandsRecorded'
    <3> SUFFICES ASSUME NEW row \in records, row.request.kind = "command"
                 PROVE  /\ row.resource = row.request.order
                        /\ Did(row.resource, row.request.command)'
      BY <1>4 DEF CommandsRecorded
    <3>1. row.request.order \in Orders
      BY RequestKinds DEF TablesTyped
    <3> QED
      BY <3>1 DEF RecordsInv, CommandsRecorded, RowsKept
  <2> QED
    BY <2>1, <2>2 DEF RecordsInv
<1>5. CASE WorkerCommand
  <2>1. UNCHANGED <<records, keyOf>>
    BY <1>5 DEF WorkerCommand, ApplyCommand
  <2> QED
    BY <1>4, <2>1
<1>6. ASSUME NEW c \in Clients,
             \/ \E r \in Requests : Submit(c, r)
             \/ Retry(c) \/ RejectInvalid(c) \/ RejectCash(c)
             \/ ExistingIdempotentResource(c)
             \/ WriteOrderTwice(c) \/ RefuseCommand(c) \/ TransactionFails(c)
      PROVE  RecordsInv'
  <2>1. UNCHANGED <<records, keyOf>>
    BY <1>6 DEF Submit, Retry, RejectInvalid, RejectCash, ExistingIdempotentResource,
                WriteOrderTwice, RefuseCommand, TransactionFails, storeVars
  <2> QED
    BY <1>4, <2>1
<1>7. CASE UNCHANGED vars
  BY <1>4, <1>7 DEF vars, storeVars
<1> QED
  BY <1>1, <1>2, <1>3, <1>5, <1>6, <1>7 DEF RNext, Serve

-----------------------------------------------------------------------------
(* The answers.                                                            *)

(* An ok answer is true of the order it shows, by its key.                 *)
OkTrue(c) ==
    /\ AnsweredOk(c, "order") =>
          /\ replied[c] \in Orders
          /\ keyOf[replied[c]] = asked[c].key
          /\ terms[replied[c]] = asked[c].terms
    /\ AnsweredOk(c, "command") => Did(asked[c].order, asked[c].command)

OkInv == \A c \in Clients : OkTrue(c)

(* An answer given stays true.                                             *)
LEMMA OkStaysTrue ==
    ASSUME ClientsTyped, KeysGiven, RowsKept, NEW c \in Clients, OkTrue(c),
           UNCHANGED <<asked[c], answer[c], replied[c]>>
    PROVE  OkTrue(c)'
<1>1. CASE AnsweredOk(c, "order")
  <2>1. asked[c] \in Requests /\ asked[c].key \in Keys
    BY <1>1, RequestKinds DEF AnsweredOk, ClientsTyped, Busy
  <2>2. status[replied[c]] # Absent
    BY <1>1, <2>1, NullAssumption DEF OkTrue, KeysGiven
  <2>3. ~ AnsweredOk(c, "command")
    BY <1>1 DEF AnsweredOk
  <2> QED
    BY <1>1, <2>2, <2>3 DEF OkTrue, RowsKept, AnsweredOk
<1>2. CASE AnsweredOk(c, "command")
  <2>1. asked[c] \in Requests /\ asked[c].kind = "command"
    BY <1>2 DEF AnsweredOk, ClientsTyped, Busy
  <2>2. asked[c].order \in Orders
    BY <2>1, RequestKinds
  <2>3. ~ AnsweredOk(c, "order")
    BY <1>2 DEF AnsweredOk
  <2> QED
    BY <1>2, <2>2, <2>3 DEF OkTrue, RowsKept, AnsweredOk
<1>3. CASE ~ AnsweredOk(c, "order") /\ ~ AnsweredOk(c, "command")
  BY <1>3 DEF OkTrue, AnsweredOk
<1> QED
  BY <1>1, <1>2, <1>3

(* A new answer: true of the order it shows, or not ok.                    *)
LEMMA OkAnswered ==
    ASSUME ClientsTyped, NEW c \in Clients, NEW what, NEW o, Respond(c, what, o),
           what = "ok" /\ asked[c].kind = "order" =>
              o \in Orders /\ keyOf'[o] = asked[c].key /\ terms'[o] = asked[c].terms,
           what = "ok" /\ asked[c].kind = "command" =>
              Did(asked[c].order, asked[c].command)'
    PROVE  OkTrue(c)'
<1>1. answer'[c] = what /\ replied'[c] = o /\ asked' = asked
  BY DEF Respond, ClientsTyped
<1> QED
  BY <1>1 DEF OkTrue, AnsweredOk

(* An ok stays true over the steps that serve its own client.              *)
LEMMA ServedStaysTrue ==
    ASSUME IInv, TablesTyped, ClientsTyped, KeysGiven, RowsKept, RecordsInv,
           NEW c \in Clients, OkTrue(c), Serve(c)
    PROVE  OkTrue(c)'
<1>0. TypeOK
  BY DEF IInv, TimelineInv
<1>1. ASSUME UNCHANGED <<asked, answer, replied>> PROVE OkTrue(c)'
  BY <1>1, OkStaysTrue
<1>2. ASSUME Fail(c) PROVE OkTrue(c)'
  BY <1>1, <1>2 DEF Fail
<1>3. CASE RejectInvalid(c)
  BY <1>3, OkAnswered DEF RejectInvalid
<1>11. CASE RejectCash(c)
  BY <1>1, <1>11 DEF RejectCash
<1>4. CASE ExistingIdempotentResource(c)
  <2>1. asked[c] \in Requests
    BY <1>4 DEF ExistingIdempotentResource, ClientsTyped, Busy
  <2>2. UNCHANGED <<storeVars, records>>
    BY <1>4 DEF ExistingIdempotentResource
  <2>3. ASSUME NEW row \in RowsOf(Slot(asked[c])), row.request = asked[c],
               Respond(c, "ok", row.resource)
        PROVE  OkTrue(c)'
    <3>1. ASSUME asked[c].kind = "order"
          PROVE  /\ row.resource \in Orders
                 /\ keyOf'[row.resource] = asked[c].key
                 /\ terms'[row.resource] = asked[c].terms
      <4>1. /\ asked[c].key \in Keys
            /\ Slot(asked[c]) = <<"order", asked[c].key>>
        BY <2>1, <3>1, RequestKinds, SlotKinds
      <4>2. PICK o \in Orders : keyOf[o] = asked[c].key /\ row = OrderRow(o, asked[c].key)
        BY <2>3, <4>1 DEF RecordsInv, OrdersRecorded
      <4>3. row.resource = o /\ row.request.terms = terms[o]
        BY <4>2 DEF OrderRow
      <4> QED
        BY <2>2, <2>3, <4>2, <4>3 DEF storeVars
    <3>2. ASSUME asked[c].kind = "command"
          PROVE  Did(asked[c].order, asked[c].command)'
      <4>1. row \in records
        BY <2>3 DEF RowsOf
      <4>2. Did(asked[c].order, asked[c].command)
        BY <4>1, <2>3, <3>2 DEF RecordsInv, CommandsRecorded
      <4>3. UNCHANGED <<timeline, asked>>
        BY <2>2, <2>3 DEF storeVars, Respond
      <4> QED
        BY <4>2, <4>3 DEF Did
    <3> QED
      BY <2>3, <3>1, <3>2, OkAnswered
  <2>4. ASSUME Respond(c, "conflict", NoOrder) PROVE OkTrue(c)'
    BY <2>4, OkAnswered
  <2> QED
    BY <1>1, <1>2, <1>4, <2>3, <2>4 DEF ExistingIdempotentResource
<1>5. CASE WriteOrder(c)
  <2>1. asked[c].kind = "order"
    BY <1>5 DEF WriteOrder
  <2>2. PICK o \in Orders : /\ CreateOrder(o, asked[c].key, asked[c].terms)
                            /\ Committed(c, o)
    BY <1>5 DEF WriteOrder
  <2>3. keyOf'[o] = asked[c].key /\ terms'[o] = asked[c].terms
    BY <2>2, <1>0 DEF CreateOrder, TypeOK
  <2> QED
    BY <1>2, <2>1, <2>2, <2>3, OkAnswered DEF Committed
<1>6. CASE WriteOrderTwice(c)
  BY <1>1, <1>6 DEF WriteOrderTwice
<1>7. CASE WritePolicy(c)
  <2>1. asked[c].kind = "policy" /\ Committed(c, NoOrder)
    BY <1>7 DEF WritePolicy
  <2> QED
    BY <1>2, <2>1, OkAnswered DEF Committed
<1>8. CASE WriteCommand(c)
  <2>1. asked[c] \in Requests /\ asked[c].kind = "command"
    BY <1>8 DEF WriteCommand, ClientsTyped, Busy
  <2>2. asked[c].order \in Orders
    BY <2>1, RequestKinds
  <2>3. /\ ApplyCommand(asked[c].order, asked[c].command, NoRef, HappyPath)
        /\ Committed(c, asked[c].order)
        /\ UNCHANGED asked
    BY <1>8 DEF WriteCommand, Committed, Respond, Fail
  <2>4. Did(asked[c].order, asked[c].command)'
    <3> DEFINE o == asked[c].order
               command == asked[c].command
    <3>1. o \in Orders /\ ApplyCommand(o, command, NoRef, HappyPath)
      BY <2>2, <2>3
    <3> HIDE DEF o, command
    <3>2. \E i \in DOMAIN timeline'[o] : timeline'[o][i].command = command
      BY <3>1, <1>0, ApplyDid DEF Did
    <3>3. \E i \in DOMAIN timeline'[asked[c].order] :
             timeline'[asked[c].order][i].command = asked[c].command
      BY <3>2 DEF o, command
    <3> QED
      BY <2>3, <3>3 DEF Did
  <2> QED
    BY <1>2, <2>1, <2>3, <2>4, OkAnswered DEF Committed
<1>9. CASE RefuseCommand(c)
  BY <1>9, OkAnswered DEF RefuseCommand
<1>10. CASE TransactionFails(c)
  BY <1>2, <1>10 DEF TransactionFails
<1> QED
  BY <1>3, <1>4, <1>5, <1>6, <1>7, <1>8, <1>9, <1>10, <1>11 DEF Serve

(* An ok stays true whoever takes the step.                                *)
LEMMA OkStays ==
    ASSUME IInv, TablesTyped, ClientsTyped, KeysGiven, RowsKept, RecordsInv, OkInv, [RNext]_vars
    PROVE  OkInv'
<1> SUFFICES ASSUME NEW d \in Clients PROVE OkTrue(d)'
  BY DEF OkInv
<1>0. OkTrue(d)
  BY DEF OkInv
<1>1. CASE UNCHANGED <<asked[d], answer[d], replied[d]>>
  BY <1>0, <1>1, OkStaysTrue
<1>2. ASSUME NEW c \in Clients, Serve(c) PROVE OkTrue(d)'
  <2>1. CASE c = d
    BY <1>0, <1>2, <2>1, ServedStaysTrue
  <2>2. CASE c # d
    BY <1>1, <1>2, <2>2
       DEF Serve, RejectInvalid, RejectCash, ExistingIdempotentResource, WriteOrder, WriteOrderTwice,
           WritePolicy, WriteCommand, RefuseCommand, TransactionFails, Committed, Respond, Fail,
           ClientsTyped
  <2> QED
    BY <2>1, <2>2
<1>3. ASSUME NEW c \in Clients, NEW r \in Requests, Submit(c, r) PROVE OkTrue(d)'
  <2>1. CASE c = d
    <3>1. answer'[c] # "ok"
      BY <1>3 DEF Submit, ClientsTyped
    <3> QED
      BY <2>1, <3>1 DEF OkTrue, AnsweredOk
  <2>2. CASE c # d
    BY <1>1, <1>3, <2>2 DEF Submit, ClientsTyped
  <2> QED
    BY <2>1, <2>2
<1>4. ASSUME NEW c \in Clients, Retry(c) PROVE OkTrue(d)'
  BY <1>1, <1>4 DEF Retry
<1>5. CASE WorkerCommand
  BY <1>1, <1>5 DEF WorkerCommand, clientVars
<1>6. CASE UNCHANGED vars
  BY <1>1, <1>6 DEF vars, clientVars
<1> QED
  BY <1>2, <1>3, <1>4, <1>5, <1>6 DEF RNext

-----------------------------------------------------------------------------
(* The inductive invariant of the protocol: the store's, and the rest.     *)
QInv ==
    /\ IInv /\ KeysGiven
    /\ TablesTyped /\ ClientsTyped
    /\ RecordsInv
    /\ OkInv

(* The inductive invariant holds at the start.                             *)
LEMMA InitQInv == RInit => QInv
<1> SUFFICES ASSUME RInit PROVE QInv
  OBVIOUS
<1>1. IInv
  BY InitIInv DEF RInit
<1>2. TablesTyped /\ ClientsTyped
  BY InitTyped
<1>3. KeysGiven /\ \A o \in Orders : keyOf[o] = NoKey
  BY DEF RInit, Init, KeysGiven
<1>4. RecordsInv
  BY <1>3, NullAssumption
     DEF RInit, RecordsInv, OrdersRecorded, CommandsRecorded, RowsOf
<1>5. OkInv
  BY DEF RInit, OkInv, OkTrue, AnsweredOk
<1> QED
  BY <1>1, <1>2, <1>3, <1>4, <1>5 DEF QInv

(* Every step preserves the inductive invariant.                           *)
LEMMA NextQInv == QInv /\ [RNext]_vars => QInv'
<1> SUFFICES ASSUME QInv, [RNext]_vars PROVE QInv'
  OBVIOUS
<1>1. Busy /\ TypeOK
  BY DEF QInv, ClientsTyped, IInv, TimelineInv
<1>2. [Next]_storeVars
  BY <1>1, RequestsStep
<1>3. IInv'
  BY <1>2, NextIInv DEF QInv
<1>4. KeysGiven' /\ RowsKept
  BY <1>2, StoreKeeps DEF QInv
<1>5. TablesTyped' /\ ClientsTyped'
  BY TablesStayTyped, ClientsStayTyped DEF QInv
<1>6. RecordsInv'
  BY <1>1, <1>4, RecordsStay DEF QInv
<1>7. OkInv'
  BY <1>4, OkStays DEF QInv
<1> QED
  BY <1>3, <1>4, <1>5, <1>6, <1>7 DEF QInv

(* The inductive invariant of the request protocol holds under every       *)
(* interleaving, lost answer and retry.                                    *)
THEOREM RequestsInvariance == RSpec => []QInv
BY InitQInv, NextQInv, PTL DEF RSpec

(* The types of the protocol's state.                                      *)
THEOREM RequestsTypeCorrect == RSpec => []RTypeOK
<1>1. QInv => RTypeOK
  BY DEF QInv, TablesTyped, ClientsTyped, RTypeOK
<1> QED
  BY <1>1, RequestsInvariance, PTL

(* Records and orders are written together or not at all.                  *)
THEOREM RecordsAndOrdersAgree == RSpec => []RecordsMatchOrders
<1>1. QInv => RecordsMatchOrders
  BY DEF QInv, RecordsInv, OrdersRecorded, OrderRow, CommandsRecorded, RecordsMatchOrders
<1> QED
  BY <1>1, RequestsInvariance, PTL

(* An ok answer means done, and one key never shows two orders.            *)
THEOREM OkAnswersAreTrue == RSpec => []OkMeansDone
<1>1. QInv => OkMeansDone
  <2> SUFFICES ASSUME QInv PROVE OkMeansDone
    OBVIOUS
  <2>1. ASSUME NEW c \in Clients, NEW d \in Clients,
               AnsweredOk(c, "order"), AnsweredOk(d, "order"), asked[c].key = asked[d].key
        PROVE  replied[c] = replied[d]
    <3>1. asked[c] \in Requests
      BY <2>1 DEF QInv, ClientsTyped, Busy, AnsweredOk
    <3>2. asked[c].key # NoKey
      BY <3>1, RequestKinds, NullAssumption
    <3>3. /\ replied[c] \in Orders /\ keyOf[replied[c]] = asked[c].key
          /\ replied[d] \in Orders /\ keyOf[replied[d]] = asked[c].key
      BY <2>1 DEF QInv, OkInv, OkTrue
    <3> QED
      BY <3>2, <3>3 DEF QInv, KeysGiven
  <2> QED
    BY <2>1 DEF QInv, OkInv, OkTrue, OkMeansDone
<1> QED
  BY <1>1, RequestsInvariance, PTL

(***************************************************************************)
(* What is recorded under a key is never changed or forgotten, so a late   *)
(* retry is answered as an early one.                                      *)
(***************************************************************************)
RecordsKept == [][records \subseteq records']_vars

(* Nothing recorded under a key is ever changed or forgotten.              *)
THEOREM NothingForgotten == RSpec => RecordsKept
<1>1. [RNext]_vars => [records \subseteq records']_vars
  BY DEF RNext, Serve, Submit, Retry, WorkerCommand, vars, RejectInvalid, RejectCash,
         ExistingIdempotentResource, WriteOrder, WriteOrderTwice, WritePolicy, WriteCommand,
         RefuseCommand, TransactionFails, RecordIdempotency
<1> QED
  BY <1>1, PTL DEF RSpec, RecordsKept

(* Requests, retries, lost answers and the worker beside them do to the    *)
(* orders what the operations of the store do one after the other.         *)
THEOREM RequestsImplementStore == RSpec => Spec
<1>1. RInit => Init
  BY DEF RInit
<1>2. QInv /\ [RNext]_vars => [Next]_storeVars
  BY RequestsStep DEF QInv, ClientsTyped, vars
<1> QED
  BY <1>1, <1>2, RequestsInvariance, PTL DEF RSpec, Spec

-----------------------------------------------------------------------------
(* What the clients that ask for orders see: KeyedOrders.                  *)

OrderVars == <<OrdersMade, OrderAsked, OrderAnswer, OrderReplied>>

(* A step by which no order is made, and no client that asks for one moves *)
(* but between being served and retrying, shows nothing.                   *)
LEMMA NothingShown ==
    ASSUME UNCHANGED <<terms, keyOf>>,
           \A c \in Clients :
              /\ AsksOrder(c)' <=> AsksOrder(c)
              /\ AsksOrder(c) => UNCHANGED <<asked[c], answer[c], replied[c]>>
    PROVE  UNCHANGED OrderVars
<1>1. OrdersMade' = OrdersMade
  BY DEF OrdersMade
<1>2. OrderAsked' = OrderAsked
  BY DEF OrderAsked
<1>3. OrderAnswer' = OrderAnswer
  BY DEF OrderAnswer
<1>4. OrderReplied' = OrderReplied
  BY DEF OrderReplied
<1> QED
  BY <1>1, <1>2, <1>3, <1>4 DEF OrderVars

(* A client that waits for the answer to its order.                        *)
LEMMA OrderAwaited ==
    ASSUME ClientsTyped, NEW c \in Clients, step[c] \in {"lookup", "write"},
           asked[c].kind = "order"
    PROVE  /\ Keyed!Waiting(c)
           /\ OrderAsked[c] = asked[c] /\ asked[c] \in Requests
           /\ asked[c].key \in Keys /\ asked[c].terms \in Terms
           /\ asked[c] = [kind |-> "order", key |-> asked[c].key, terms |-> asked[c].terms]
<1>1. AsksOrder(c)
  BY DEF AsksOrder
<1>2. asked[c] \in Requests /\ answer[c] = "none"
  BY DEF ClientsTyped, Busy
<1>3. OrderAsked[c] = asked[c] /\ OrderAnswer[c] = "none"
  BY <1>1, <1>2 DEF OrderAsked, OrderAnswer
<1>4. asked[c] # NoRequest
  BY <1>2, RequestAssumption
<1> QED
  BY <1>2, <1>3, <1>4, RequestKinds DEF Keyed!Waiting

(* An answer to an order shows itself and nothing else.                    *)
LEMMA AnswerShown ==
    ASSUME ClientsTyped, NEW c \in Clients, step[c] \in {"lookup", "write"},
           asked[c].kind = "order", NEW what \in {"ok", "invalid", "conflict"},
           NEW o, what # "ok" => o = NoOrder, Respond(c, what, o)
    PROVE  Keyed!Answer(c, what, o) /\ UNCHANGED OrderAsked
<1>1. /\ step' = [step EXCEPT ![c] = "answered"] /\ asked' = asked
      /\ answer' = [answer EXCEPT ![c] = what] /\ replied' = [replied EXCEPT ![c] = o]
  BY DEF Respond
<1>2. /\ AsksOrder(c) /\ AsksOrder(c)'
      /\ answer'[c] = what /\ replied'[c] = o
  BY <1>1 DEF AsksOrder, ClientsTyped
<1>3. \A d \in Clients \ {c} :
        /\ AsksOrder(d)' <=> AsksOrder(d)
        /\ answer'[d] = answer[d] /\ replied'[d] = replied[d]
  BY <1>1 DEF AsksOrder, ClientsTyped
<1>4. OrderAsked' = OrderAsked
  BY <1>1, <1>2, <1>3 DEF OrderAsked
<1>5. OrderAnswer' = [OrderAnswer EXCEPT ![c] = what]
  BY <1>2, <1>3 DEF OrderAnswer
<1>6. OrderReplied' = [OrderReplied EXCEPT ![c] = o]
  BY <1>2, <1>3 DEF OrderReplied
<1> QED
  BY <1>4, <1>5, <1>6 DEF Keyed!Answer

(* The rows made under a key, as the abstract order sees them.             *)
LEMMA MadeUnderKey ==
    ASSUME NEW k \in Keys
    PROVE  Keyed!MadeUnder(k) =
              {[key |-> k, terms |-> terms[o], order |-> o] : o \in {p \in Orders : keyOf[p] = k}}
<1>1. k # NoKey
  BY NullAssumption
<1> QED
  BY <1>1 DEF Keyed!MadeUnder, OrdersMade

(* A request submitted is an order asked, or is not seen.                  *)
LEMMA SubmitShown ==
    ASSUME ClientsTyped, NEW c \in Clients, NEW r \in Requests, Submit(c, r)
    PROVE  Keyed!Ask(c) \/ UNCHANGED OrderVars
<1>1. /\ step[c] = "idle" /\ asked' = [asked EXCEPT ![c] = r]
      /\ step' = [step EXCEPT ![c] = "lookup"]
      /\ UNCHANGED <<answer, replied, terms, keyOf>>
  BY DEF Submit, storeVars
<1>2. /\ ~ AsksOrder(c) /\ (AsksOrder(c)' <=> r.kind = "order") /\ asked'[c] = r
      /\ answer[c] = "none"
      /\ \A d \in Clients \ {c} : (AsksOrder(d)' <=> AsksOrder(d)) /\ asked'[d] = asked[d]
  BY <1>1 DEF AsksOrder, ClientsTyped
<1>3. CASE r.kind # "order"
  BY <1>1, <1>2, <1>3, NothingShown
<1>4. CASE r.kind = "order"
  <2>1. OrdersMade' = OrdersMade
    BY <1>1 DEF OrdersMade
  <2>2. OrderAsked[c] = NoRequest /\ OrderAsked' = [OrderAsked EXCEPT ![c] = r]
    BY <1>2, <1>4 DEF OrderAsked
  <2>3. OrderAnswer' = OrderAnswer
    BY <1>1, <1>2, <1>4 DEF OrderAnswer
  <2>4. OrderReplied' = OrderReplied
    BY <1>1, <1>2, <1>4 DEF OrderReplied
  <2> QED
    BY <2>1, <2>2, <2>3, <2>4, <1>4 DEF Keyed!Ask
<1> QED
  BY <1>3, <1>4

(* The lookup that answers is a look at the orders made; one that finds    *)
(* nothing, or whose answer is lost, is not seen.                          *)
LEMMA LookupShown ==
    ASSUME ClientsTyped, OrdersRecorded, NEW c \in Clients, ExistingIdempotentResource(c),
           asked[c].kind = "order"
    PROVE  Keyed!Reply(c) \/ UNCHANGED OrderVars
<1>1. /\ step[c] = "lookup" /\ ~ Invalid(asked[c]) /\ ~ NoRail(asked[c])
      /\ UNCHANGED <<terms, keyOf>>
  BY DEF ExistingIdempotentResource, storeVars
<1>2. /\ Keyed!Waiting(c) /\ OrderAsked[c] = asked[c] /\ asked[c] \in Requests
      /\ asked[c].key \in Keys /\ asked[c].terms \in Terms
      /\ asked[c] = [kind |-> "order", key |-> asked[c].key, terms |-> asked[c].terms]
  BY <1>1, OrderAwaited
<1>3. OrdersMade' = OrdersMade
  BY <1>1 DEF OrdersMade
<1>4. ASSUME NEW to \in {"write", "retry"}, step' = [step EXCEPT ![c] = to],
             UNCHANGED <<asked, answer, replied>>
      PROVE  UNCHANGED OrderVars
  <2>1. \A d \in Clients : AsksOrder(d)' <=> AsksOrder(d)
    BY <1>1, <1>4 DEF AsksOrder, ClientsTyped
  <2> QED
    BY <1>1, <1>4, <2>1, NothingShown
<1>5. ASSUME NEW row \in RowsOf(Slot(asked[c])),
             \/ row.request = asked[c] /\ Respond(c, "ok", row.resource)
             \/ row.request # asked[c] /\ Respond(c, "conflict", NoOrder)
      PROVE  Keyed!Reply(c)
  <2>1. PICK o \in Orders : keyOf[o] = asked[c].key /\ row = OrderRow(o, asked[c].key)
    BY <1>2, <1>5, SlotKinds DEF OrdersRecorded
  <2>2. row.resource = o /\ (row.request = asked[c] <=> terms[o] = asked[c].terms)
    BY <1>2, <2>1 DEF OrderRow
  <2>3. [key |-> asked[c].key, terms |-> terms[o], order |-> o] \in Keyed!MadeUnder(asked[c].key)
    BY <1>2, <2>1, MadeUnderKey
  <2>4. asked[c].terms \in {t \in Terms : YieldSourceAllowed(t.product) /\ t.cash \in CashRail}
    BY <1>1, <1>2 DEF Invalid, NoRail
  <2>5. CASE row.request = asked[c] /\ Respond(c, "ok", row.resource)
    <3>1. Keyed!Answer(c, "ok", o) /\ UNCHANGED OrderAsked
      BY <1>1, <2>2, <2>5, AnswerShown
    <3> QED
      BY <1>2, <1>3, <2>2, <2>3, <2>4, <2>5, <3>1 DEF Keyed!Reply
  <2>6. CASE row.request # asked[c] /\ Respond(c, "conflict", NoOrder)
    <3>1. Keyed!Answer(c, "conflict", NoOrder) /\ UNCHANGED OrderAsked
      BY <1>1, <2>6, AnswerShown
    <3> QED
      BY <1>2, <1>3, <2>2, <2>3, <2>4, <2>6, <3>1 DEF Keyed!Reply
  <2> QED
    BY <1>5, <2>5, <2>6
<1> QED
  BY <1>4, <1>5 DEF ExistingIdempotentResource, Fail

(* The transaction that creates an order makes it.                         *)
LEMMA CreateShown ==
    ASSUME TypeOK, KeysGiven, ClientsTyped, NEW c \in Clients, WriteOrder(c)
    PROVE  Keyed!Make(c)
<1>1. /\ step[c] = "write" /\ asked[c].kind = "order"
  BY DEF WriteOrder
<1>2. PICK o \in Orders : CreateOrder(o, asked[c].key, asked[c].terms) /\ Committed(c, o)
  BY DEF WriteOrder
<1>3. /\ Keyed!Waiting(c) /\ OrderAsked[c] = asked[c]
      /\ asked[c].key \in Keys /\ asked[c].terms \in Terms
  BY <1>1, OrderAwaited
<1>4. /\ keyOf[o] = NoKey /\ asked[c].key # NoKey
      /\ \A p \in Orders : keyOf[p] # asked[c].key
      /\ keyOf' = [keyOf EXCEPT ![o] = asked[c].key]
      /\ terms' = [terms EXCEPT ![o] = asked[c].terms]
      /\ asked[c].terms \in {t \in Terms : YieldSourceAllowed(t.product) /\ t.cash \in CashRail}
  BY <1>2, <1>3, NullAssumption DEF CreateOrder, KeysGiven
<1>5. Keyed!MadeUnder(asked[c].key) = {}
  BY <1>3, <1>4, MadeUnderKey
<1>6. o \in Orders \ {row.order : row \in OrdersMade}
  BY <1>4 DEF OrdersMade
<1>7. OrdersMade' =
        OrdersMade \union {[key |-> asked[c].key, terms |-> asked[c].terms, order |-> o]}
  <2>1. /\ keyOf'[o] = asked[c].key /\ terms'[o] = asked[c].terms
        /\ \A p \in Orders \ {o} : keyOf'[p] = keyOf[p] /\ terms'[p] = terms[p]
    BY <1>4 DEF TypeOK
  <2>2. {p \in Orders : keyOf'[p] # NoKey} = {p \in Orders : keyOf[p] # NoKey} \union {o}
    BY <1>4, <2>1
  <2> QED
    BY <1>4, <2>1, <2>2 DEF OrdersMade
<1>8. CASE Respond(c, "ok", o)
  <2>1. Keyed!Answer(c, "ok", o) /\ UNCHANGED OrderAsked
    BY <1>1, <1>8, AnswerShown
  <2> QED
    BY <1>3, <1>4, <1>5, <1>6, <1>7, <2>1 DEF Keyed!Make
<1>9. CASE Fail(c)
  <2>1. \A d \in Clients : (AsksOrder(d)' <=> AsksOrder(d)) /\ UNCHANGED <<asked, answer, replied>>
    BY <1>1, <1>9 DEF Fail, AsksOrder, ClientsTyped
  <2>2. OrderAsked' = OrderAsked /\ OrderAnswer' = OrderAnswer /\ OrderReplied' = OrderReplied
    BY <1>9, <2>1 DEF Fail, OrderAsked, OrderAnswer, OrderReplied
  <2> QED
    BY <1>3, <1>4, <1>5, <1>6, <1>7, <2>2 DEF Keyed!Make
<1> QED
  BY <1>2, <1>8, <1>9 DEF Committed

(* Policies, commands, retries and failures make no order and answer none. *)
LEMMA ServiceUnseen ==
    ASSUME ClientsTyped, NEW c \in Clients, step[c] # "idle", UNCHANGED <<terms, keyOf>>,
           UNCHANGED asked,
           \A d \in Clients \ {c} : UNCHANGED <<step[d], answer[d], replied[d]>>,
           step'[c] # "idle",
           asked[c].kind = "order" => UNCHANGED <<answer[c], replied[c]>>
    PROVE  UNCHANGED OrderVars
<1>1. \A d \in Clients :
        /\ AsksOrder(d)' <=> AsksOrder(d)
        /\ AsksOrder(d) => UNCHANGED <<asked[d], answer[d], replied[d]>>
  BY DEF AsksOrder
<1> QED
  BY <1>1, NothingShown

(* Every step is one of KeyedOrders, or changes nothing that it shows.     *)
LEMMA StepOfKeyedOrders ==
    ASSUME QInv, [RNext]_vars
    PROVE  Keyed!Next \/ UNCHANGED OrderVars
<1>1. TypeOK /\ KeysGiven /\ ClientsTyped /\ OrdersRecorded
  BY DEF QInv, IInv, TimelineInv, RecordsInv
<1>2. ASSUME NEW c \in Clients, NEW r \in Requests, Submit(c, r)
      PROVE  Keyed!Next \/ UNCHANGED OrderVars
  BY <1>1, <1>2, SubmitShown DEF Keyed!Next
<1>3. ASSUME NEW c \in Clients, Serve(c)
      PROVE  Keyed!Next \/ UNCHANGED OrderVars
  <2>1. step[c] \in {"lookup", "write"}
    BY <1>3
       DEF Serve, RejectInvalid, RejectCash, ExistingIdempotentResource, WriteOrder, WriteOrderTwice,
           WritePolicy, WriteCommand, RefuseCommand, TransactionFails
  <2>2. ASSUME Fail(c), UNCHANGED <<terms, keyOf>> PROVE UNCHANGED OrderVars
    <3>1. /\ UNCHANGED <<asked, answer, replied>> /\ step'[c] = "retry"
          /\ \A d \in Clients \ {c} : step'[d] = step[d]
      BY <1>1, <2>2 DEF Fail, ClientsTyped
    <3> QED
      BY <1>1, <2>1, <2>2, <3>1, ServiceUnseen
  <2>3. ASSUME NEW what, NEW o, Respond(c, what, o), asked[c].kind # "order",
               UNCHANGED <<terms, keyOf>>
        PROVE  UNCHANGED OrderVars
    <3>1. /\ UNCHANGED asked /\ step'[c] = "answered"
          /\ \A d \in Clients \ {c} : UNCHANGED <<step[d], answer[d], replied[d]>>
      BY <1>1, <2>3 DEF Respond, ClientsTyped
    <3> QED
      BY <1>1, <2>1, <2>3, <3>1, ServiceUnseen
  <2>4. CASE RejectInvalid(c)
    <3>1. /\ step[c] = "lookup" /\ Invalid(asked[c]) /\ asked[c].kind = "order"
          /\ Respond(c, "invalid", NoOrder) /\ UNCHANGED <<terms, keyOf>>
      BY <2>4 DEF RejectInvalid, Invalid, storeVars
    <3>2. Keyed!Waiting(c) /\ OrderAsked[c] = asked[c] /\ asked[c].terms \in Terms
      BY <1>1, <3>1, OrderAwaited
    <3>3. asked[c].terms \in {t \in Terms : ~ YieldSourceAllowed(t.product)}
      BY <3>1, <3>2 DEF Invalid
    <3>4. Keyed!Answer(c, "invalid", NoOrder) /\ UNCHANGED OrderAsked
      BY <1>1, <3>1, AnswerShown
    <3>5. OrdersMade' = OrdersMade
      BY <3>1 DEF OrdersMade
    <3> QED
      BY <3>2, <3>3, <3>4, <3>5 DEF Keyed!Reply, Keyed!Next
  <2>5. CASE ExistingIdempotentResource(c)
    <3>1. CASE asked[c].kind = "order"
      BY <1>1, <2>5, <3>1, LookupShown DEF Keyed!Next
    <3>2. CASE asked[c].kind # "order"
      <4>1. UNCHANGED <<terms, keyOf>>
        BY <2>5 DEF ExistingIdempotentResource, storeVars
      <4>2. CASE step' = [step EXCEPT ![c] = "write"] /\ UNCHANGED <<asked, answer, replied, failures>>
        <5>1. step'[c] = "write" /\ \A d \in Clients \ {c} : step'[d] = step[d]
          BY <1>1, <4>2 DEF ClientsTyped
        <5> QED
          BY <1>1, <2>1, <4>1, <4>2, <5>1, ServiceUnseen
      <4> QED
        BY <2>2, <2>3, <2>5, <3>2, <4>1, <4>2 DEF ExistingIdempotentResource
    <3> QED
      BY <3>1, <3>2
  <2>12. CASE RejectCash(c)
    <3>1. /\ UNCHANGED <<terms, keyOf, asked, answer, replied>> /\ step'[c] = "retry"
          /\ \A d \in Clients \ {c} : step'[d] = step[d]
      BY <1>1, <2>12 DEF RejectCash, storeVars, ClientsTyped
    <3> QED
      BY <1>1, <2>1, <3>1, ServiceUnseen
  <2>6. CASE WriteOrder(c)
    BY <1>1, <2>6, CreateShown DEF Keyed!Next
  <2>7. CASE WriteOrderTwice(c)
    <3>1. /\ UNCHANGED <<terms, keyOf, asked, answer, replied>> /\ step'[c] = "retry"
          /\ \A d \in Clients \ {c} : step'[d] = step[d]
      BY <1>1, <2>7 DEF WriteOrderTwice, storeVars, ClientsTyped
    <3> QED
      BY <1>1, <2>1, <3>1, ServiceUnseen
  <2>8. CASE WritePolicy(c)
    BY <2>2, <2>3, <2>8 DEF WritePolicy, Committed, storeVars
  <2>9. CASE WriteCommand(c)
    BY <2>2, <2>3, <2>9 DEF WriteCommand, Committed, ApplyCommand
  <2>10. CASE RefuseCommand(c)
    BY <2>3, <2>10 DEF RefuseCommand, storeVars
  <2>11. CASE TransactionFails(c)
    BY <2>2, <2>11 DEF TransactionFails, storeVars
  <2> QED
    BY <1>3, <2>4, <2>5, <2>6, <2>7, <2>8, <2>9, <2>10, <2>11, <2>12 DEF Serve
<1>4. ASSUME NEW c \in Clients, Retry(c)
      PROVE  UNCHANGED OrderVars
  <2>1. /\ step[c] = "retry" /\ step'[c] = "lookup"
        /\ UNCHANGED <<terms, keyOf, asked, answer, replied>>
        /\ \A d \in Clients \ {c} : step'[d] = step[d]
    BY <1>1, <1>4 DEF Retry, storeVars, ClientsTyped
  <2> QED
    BY <1>1, <2>1, ServiceUnseen
<1>5. CASE WorkerCommand
  <2>1. UNCHANGED <<terms, keyOf, asked, step, answer, replied>>
    BY <1>5 DEF WorkerCommand, ApplyCommand, clientVars
  <2> QED
    BY <2>1, NothingShown DEF AsksOrder
<1>6. CASE UNCHANGED vars
  <2>1. UNCHANGED <<terms, keyOf, asked, step, answer, replied>>
    BY <1>6 DEF vars, storeVars, clientVars
  <2> QED
    BY <2>1, NothingShown DEF AsksOrder
<1> QED
  BY <1>2, <1>3, <1>4, <1>5, <1>6 DEF RNext

(***************************************************************************)
(* The keyed creation of orders is atomic to its clients: one order under  *)
(* a key, and answers that are a look at the orders made, whatever races,  *)
(* is lost and is repeated.                                                *)
(***************************************************************************)
THEOREM RequestsImplementKeyedOrders == RSpec => RefinesKeyedOrders
<1>1. RInit => Keyed!Init
  <2> SUFFICES ASSUME RInit PROVE Keyed!Init
    OBVIOUS
  <2>1. \A o \in Orders : keyOf[o] = NoKey
    BY DEF RInit, Init
  <2>2. \A c \in Clients : ~ AsksOrder(c)
    BY DEF RInit, AsksOrder
  <2> QED
    BY <2>1, <2>2 DEF Keyed!Init, OrdersMade, OrderAsked, OrderAnswer, OrderReplied
<1>2. QInv /\ [RNext]_vars => [Keyed!Next]_OrderVars
  BY StepOfKeyedOrders
<1> QED
  BY <1>1, <1>2, RequestsInvariance, PTL DEF RSpec, RefinesKeyedOrders, Keyed!Spec, OrderVars
=============================================================================
