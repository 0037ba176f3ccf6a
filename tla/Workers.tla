------------------------------ MODULE Workers ------------------------------
(***************************************************************************)
(* The SQS consumers of services/worker over the order store, together     *)
(* with the API requests that race with them.  A worker receives a         *)
(* message, records it in the inbox, runs the handler of its kind -- one   *)
(* database transaction or HTTP call per action -- and deletes the         *)
(* message.  SNS and SQS are external: at-least-once delivery with a       *)
(* visibility timeout and a dead-letter queue.                             *)
(***************************************************************************)
EXTENDS SweepOrders

CONSTANTS
    TransferAgentWorkers, ReconciliationWorkers,  \* replicas of each kind
    Approvers,    \* concurrent POST .../approve requests
    Deliveries,   \* the messages the queues may hold
    MaxReceives,  \* maxReceiveCount of the redrive policy
    RefOf,        \* the reference the transfer agent gives each order
    Faults,       \* of "crash", "database", "sdk", "agent", "publisher"
    NoDelivery, NoOrder

Consumer == {"transfer-agent", "reconciliation"}
Worker == TransferAgentWorkers \union ReconciliationWorkers

(* One message of one queue.  A second publish of the same event has its   *)
(* own message_id, hence another copy number.                              *)
DeliveryShape == [consumer : Consumer, event : Event, order : Orders, copy : Nat \ {0}]

ASSUME DeliveryAssumption ==
    /\ Deliveries \subseteq DeliveryShape
    /\ NoDelivery \notin Deliveries
    /\ NoOrder \notin Orders
    /\ MaxReceives \in Nat \ {0}
    /\ Worker \intersect {"absent", "unsent", "visible", "deleted", "dead"} = {}

ASSUME AgentAssumption ==
    /\ RefOf \in [Orders -> Refs]
    /\ HappyPath \in GuardContexts
    /\ Faults \subseteq {"crash", "database", "sdk", "agent", "publisher"}

VARIABLES
    queue,     \* per message: absent, unsent for good, visible, deleted, dead,
               \* or the worker it is in flight at
    receives,  \* ApproximateReceiveCount
    inbox,     \* inbox_messages
    pc, held, todo,  \* per worker: its step, its message, the commands to come
    request,   \* per approver: [step, order, todo]
    mismatch,  \* failure_injections."reconciliation-mismatch"
    handled,   \* history: how often the handler was started for the message
    succeeded  \* history: messages whose handler returned Ok

messageVars == <<queue, receives, inbox, handled, succeeded>>
workerVars == <<pc, held, todo>>
vars == <<storeVars, messageVars, workerVars, request, mismatch>>

ConsumerOf(w) == IF w \in TransferAgentWorkers THEN "transfer-agent" ELSE "reconciliation"

OrderOf(w) == held[w].order

NoRequest == [step |-> "none", order |-> NoOrder, todo |-> <<>>]

WInit ==
    /\ Init
    /\ queue = [m \in Deliveries |-> "absent"]
    /\ receives = [m \in Deliveries |-> 0]
    /\ inbox = {}
    /\ pc = [w \in Worker |-> "idle"]
    /\ held = [w \in Worker |-> NoDelivery]
    /\ todo = [w \in Worker |-> <<>>]
    /\ request = [a \in Approvers |-> NoRequest]
    /\ mismatch = FALSE
    /\ handled = [m \in Deliveries |-> 0]
    /\ succeeded = {}

-----------------------------------------------------------------------------
(* SNS and SQS.                                                            *)

(* The published event reaches the queue; again, as another message, when  *)
(* the publisher sent it again.                                            *)
Deliver(m) ==
    /\ events[m.order][m.event] > 0
    /\ queue[m] = "absent"
    /\ m.copy > 1 => queue[[m EXCEPT !.copy = @ - 1]] # "absent"
    /\ queue' = [queue EXCEPT ![m] = "visible"]
    /\ UNCHANGED <<storeVars, receives, inbox, handled, succeeded, workerVars, request, mismatch>>

(* The publisher of the event dies, or cannot mark it, after it sent the   *)
(* copies before m: the row stays leased and nobody sends it again.        *)
LeftLeased(m) ==
    LET never == {n \in Deliveries :
                    n.order = m.order /\ n.event = m.event /\ n.copy >= m.copy}
    IN  /\ "publisher" \in Faults
        /\ events[m.order][m.event] > 0
        /\ \A n \in never : queue[n] = "absent"
        /\ queue' = [n \in Deliveries |-> IF n \in never THEN "unsent" ELSE queue[n]]
        /\ UNCHANGED <<storeVars, receives, inbox, handled, succeeded, workerVars, request,
                       mismatch>>

VisibilityTimeout(m) ==
    /\ queue[m] \in Worker
    /\ queue' = [queue EXCEPT ![m] = "visible"]
    /\ UNCHANGED <<storeVars, receives, inbox, handled, succeeded, workerVars, request, mismatch>>

DeadLetter(m) ==
    /\ queue[m] = "visible"
    /\ receives[m] = MaxReceives
    /\ queue' = [queue EXCEPT ![m] = "dead"]
    /\ UNCHANGED <<storeVars, receives, inbox, handled, succeeded, workerVars, request, mismatch>>

-----------------------------------------------------------------------------
(* consume_queue.                                                          *)

(* Mutant: receives are not counted, as without a redrive policy.          *)
ReceiveUncounted(w, m) ==
    /\ pc[w] = "idle"
    /\ m.consumer = ConsumerOf(w)
    /\ queue[m] = "visible"
    /\ queue' = [queue EXCEPT ![m] = w]
    /\ held' = [held EXCEPT ![w] = m]
    /\ pc' = [pc EXCEPT ![w] = "record"]
    /\ UNCHANGED <<storeVars, receives, inbox, handled, succeeded, todo, request, mismatch>>

(* One message of receive(10, 5), which waits ten seconds for up to five;  *)
(* a worker holding several is one that receives the later ones late.      *)
Receive(w, m) ==
    /\ pc[w] = "idle"
    /\ m.consumer = ConsumerOf(w)
    /\ queue[m] = "visible"
    /\ receives[m] < MaxReceives
    /\ queue' = [queue EXCEPT ![m] = w]
    /\ receives' = [receives EXCEPT ![m] = @ + 1]
    /\ held' = [held EXCEPT ![w] = m]
    /\ pc' = [pc EXCEPT ![w] = "record"]
    /\ UNCHANGED <<storeVars, inbox, handled, succeeded, todo, request, mismatch>>

(* Mutant: the message is kept.                                            *)
DropKeepsHeld(w) ==
    /\ pc' = [pc EXCEPT ![w] = "idle"]
    /\ todo' = [todo EXCEPT ![w] = <<>>]
    /\ UNCHANGED held

(* Go to the next message: an error leaves this one to its timeout.        *)
Drop(w) ==
    /\ pc' = [pc EXCEPT ![w] = "idle"]
    /\ held' = [held EXCEPT ![w] = NoDelivery]
    /\ todo' = [todo EXCEPT ![w] = <<>>]

(* Mutant: the subscription is not submitted.                              *)
ChainToLock == <<"CheckEligibility", "CheckDisclosures", "Approve", "LockCash">>

Chain == <<"CheckEligibility", "CheckDisclosures", "Approve", "LockCash", "SubmitSubscription">>

Expected == [CheckEligibility |-> "Created", CheckDisclosures |-> "EligibilityChecked",
             Approve |-> "DisclosureChecked", LockCash |-> "Approved",
             SubmitSubscription |-> "CashLocked"]

(* The first lines of the two handlers: other events are not for them.     *)
StartHandler(w) ==
    \/ /\ held[w].consumer = "transfer-agent"
       /\ held[w].event = "SweepOrderCreated"
       /\ pc' = [pc EXCEPT ![w] = "check"]
       /\ todo' = [todo EXCEPT ![w] = Chain]
       /\ UNCHANGED succeeded
    \/ /\ held[w].consumer = "reconciliation"
       /\ held[w].event = "SweepPositionBooked"
       /\ pc' = [pc EXCEPT ![w] = "review"]
       /\ UNCHANGED <<todo, succeeded>>
    \/ /\ <<held[w].consumer, held[w].event>> \notin
              {<<"transfer-agent", "SweepOrderCreated">>,
               <<"reconciliation", "SweepPositionBooked">>}
       /\ pc' = [pc EXCEPT ![w] = "delete"]
       /\ succeeded' = succeeded \union {held[w]}
       /\ UNCHANGED todo

(* Mutant: the inbox is written but its answer is not looked at.           *)
RecordInboxMessageAlways(w) ==
    /\ pc[w] = "record"
    /\ inbox' = inbox \union {held[w]}
    /\ handled' = [handled EXCEPT ![held[w]] = @ + 1]
    /\ StartHandler(w)
    /\ UNCHANGED <<storeVars, queue, receives, held, request, mismatch>>

(* record_inbox_message and the branch on its answer.                      *)
RecordInboxMessage(w) ==
    /\ pc[w] = "record"
    /\ inbox' = inbox \union {held[w]}
    /\ \/ /\ held[w] \notin inbox
          /\ handled' = [handled EXCEPT ![held[w]] = @ + 1]
          /\ StartHandler(w)
       \/ /\ held[w] \in inbox
          /\ pc' = [pc EXCEPT ![w] = "delete"]
          /\ UNCHANGED <<handled, todo, succeeded>>
    /\ UNCHANGED <<storeVars, queue, receives, held, request, mismatch>>

(* disposition_for_processing_failure(InboxRecord) = Retry                 *)
RecordFails(w) ==
    /\ "database" \in Faults
    /\ pc[w] = "record"
    /\ Drop(w)
    /\ UNCHANGED <<storeVars, messageVars, request, mismatch>>

(* consumer.delete.  A receipt that a later receive replaced may or may    *)
(* not delete the message; an SDK error is logged.                         *)
DeleteMessage(w) ==
    /\ pc[w] = "delete"
    /\ \/ queue' = [queue EXCEPT ![held[w]] = "deleted"]
       \/ /\ queue[held[w]] # w \/ "sdk" \in Faults
          /\ UNCHANGED queue
    /\ Drop(w)
    /\ UNCHANGED <<storeVars, receives, inbox, handled, succeeded, request, mismatch>>

-----------------------------------------------------------------------------
(* handle_transfer_agent_event and handle_reconciliation_event.            *)

HandlerOk(w) ==
    /\ pc' = [pc EXCEPT ![w] = "delete"]
    /\ todo' = [todo EXCEPT ![w] = <<>>]
    /\ succeeded' = succeeded \union {held[w]}

(* apply_if_status reads the order ...                                     *)
CheckStatus(w) ==
    /\ pc[w] = "check"
    /\ todo[w] # <<>>
    /\ IF status[OrderOf(w)] = Expected[Head(todo[w])]
       THEN pc' = [pc EXCEPT ![w] = "applyChecked"] /\ UNCHANGED todo
       ELSE todo' = [todo EXCEPT ![w] = Tail(@)] /\ UNCHANGED pc
    /\ UNCHANGED <<storeVars, messageVars, held, request, mismatch>>

(* ... and applies the command in a transaction of its own.                *)
ApplyChecked(w) ==
    /\ pc[w] = "applyChecked"
    /\ ApplyCommand(OrderOf(w), Head(todo[w]), NoRef, HappyPath)
    /\ pc' = [pc EXCEPT ![w] = "check"]
    /\ todo' = [todo EXCEPT ![w] = Tail(@)]
    /\ UNCHANGED <<messageVars, held, request, mismatch>>

(* After the five: is there a subscription to confirm?                     *)
CheckSubmitted(w) ==
    /\ pc[w] = "check"
    /\ todo[w] = <<>>
    /\ IF status[OrderOf(w)] = "SubscriptionSubmitted"
       THEN pc' = [pc EXCEPT ![w] = "request"] /\ UNCHANGED <<todo, succeeded>>
       ELSE HandlerOk(w)
    /\ UNCHANGED <<storeVars, queue, receives, inbox, handled, held, request, mismatch>>

(* create_subscription of the transfer agent: the reference is a hash of   *)
(* the request's idempotency key, which the worker derives from the order. *)
(* The map of answers given, lost when the agent restarts, never says      *)
(* anything else.                                                          *)
CreateSubscription(o) == RefOf[o]

(* The agent is down, or set to fail: 503.                                 *)
SubscriptionFails(w) == "agent" \in Faults /\ pc[w] = "request"

(* The answer is carried from here to the two commands.                    *)
RequestConfirmation(w) ==
    /\ pc[w] = "request"
    /\ pc' = [pc EXCEPT ![w] = "apply"]
    /\ todo' = [todo EXCEPT ![w] = <<"ConfirmTransferAgent", "BookPosition">>]
    /\ UNCHANGED <<storeVars, messageVars, held, request, mismatch>>

(* apply_worker_command without a look at the status first.                *)
WorkerRef(w) ==
    IF Head(todo[w]) \in {"ConfirmTransferAgent", "BookPosition"}
    THEN CreateSubscription(OrderOf(w)) ELSE NoRef

(* Mutant: a refused confirmation is taken for one already applied.        *)
ApplyNextTolerant(w) ==
    /\ pc[w] = "apply"
    /\ \/ ApplyCommand(OrderOf(w), Head(todo[w]), WorkerRef(w), HappyPath)
       \/ /\ Head(todo[w]) = "ConfirmTransferAgent"
          /\ status[OrderOf(w)] # "SubscriptionSubmitted"
          /\ UNCHANGED storeVars
    /\ \/ /\ Tail(todo[w]) = <<>>
          /\ HandlerOk(w)
       \/ /\ Tail(todo[w]) # <<>>
          /\ todo' = [todo EXCEPT ![w] = Tail(@)]
          /\ UNCHANGED <<pc, succeeded>>
    /\ UNCHANGED <<queue, receives, inbox, handled, held, request, mismatch>>

ApplyNext(w) ==
    /\ pc[w] = "apply"
    /\ ApplyCommand(OrderOf(w), Head(todo[w]), WorkerRef(w), HappyPath)
    /\ \/ /\ Tail(todo[w]) = <<>>
          /\ HandlerOk(w)
       \/ /\ Tail(todo[w]) # <<>>
          /\ todo' = [todo EXCEPT ![w] = Tail(@)]
          /\ UNCHANGED <<pc, succeeded>>
    /\ UNCHANGED <<queue, receives, inbox, handled, held, request, mismatch>>

Review(w) ==
    /\ pc[w] = "review"
    /\ \/ /\ status[OrderOf(w)] \in {"Active", "ExceptionOpen", "ExceptionClosed"}
          /\ HandlerOk(w)
       \/ /\ status[OrderOf(w)] = "Reconciled"
          /\ pc' = [pc EXCEPT ![w] = "apply"]
          /\ todo' = [todo EXCEPT ![w] = <<"Activate">>]
          /\ UNCHANGED succeeded
       \/ /\ status[OrderOf(w)] \notin {"Active", "ExceptionOpen", "ExceptionClosed", "Reconciled"}
          /\ pc' = [pc EXCEPT ![w] = "readMismatch"]
          /\ UNCHANGED <<todo, succeeded>>
    /\ UNCHANGED <<storeVars, queue, receives, inbox, handled, held, request, mismatch>>

(* Mutant: the reconciled order is not activated.                          *)
ReadMismatchOnly(w) ==
    /\ pc[w] = "readMismatch"
    /\ pc' = [pc EXCEPT ![w] = "apply"]
    /\ todo' = [todo EXCEPT ![w] = IF mismatch THEN <<"OpenException">> ELSE <<"Reconcile">>]
    /\ UNCHANGED <<storeVars, messageVars, held, request, mismatch>>

(* Mutant: the switch is not looked at.                                    *)
ReadMismatchNever(w) ==
    /\ pc[w] = "readMismatch"
    /\ pc' = [pc EXCEPT ![w] = "apply"]
    /\ todo' = [todo EXCEPT ![w] = <<"Reconcile", "Activate">>]
    /\ UNCHANGED <<storeVars, messageVars, held, request, mismatch>>

ReadMismatch(w) ==
    /\ pc[w] = "readMismatch"
    /\ pc' = [pc EXCEPT ![w] = "apply"]
    /\ todo' = [todo EXCEPT ![w] =
                  IF mismatch THEN <<"OpenException">> ELSE <<"Reconcile", "Activate">>]
    /\ UNCHANGED <<storeVars, messageVars, held, request, mismatch>>

Applying(w) == pc[w] \in {"applyChecked", "apply"}
InHandler(w) == pc[w] \in {"check", "applyChecked", "request", "review", "readMismatch", "apply"}

(* `?' returns the error of a step to the consumer loop: the command is    *)
(* refused, or the database or the transfer agent fails.                   *)
HandlerFails(w) ==
    /\ InHandler(w)
    /\ \/ /\ Applying(w)
          /\ \A to \in Status :
                ~ Transition(status[OrderOf(w)], Head(todo[w]), to, HappyPath)
       \/ SubscriptionFails(w)
       \/ "database" \in Faults
    /\ Drop(w)
    /\ UNCHANGED <<storeVars, messageVars, request, mismatch>>

Crash(w) ==
    /\ "crash" \in Faults
    /\ pc[w] # "idle"
    /\ Drop(w)
    /\ UNCHANGED <<storeVars, messageVars, request, mismatch>>

-----------------------------------------------------------------------------
(* The API's writes.                                                       *)

ApprovedOrLater == {"Approved", "CashLocked", "SubscriptionSubmitted", "TransferAgentConfirmed",
                    "ChainMirrorObserved", "PositionBooked", "Reconciled", "Active"}

ApproveStart(a, o) ==
    /\ request[a].step = "none"
    /\ status[o] # Absent
    /\ request' = [request EXCEPT ![a] =
          [step |-> "read", order |-> o,
           todo |-> <<"CheckEligibility", "CheckDisclosures", "Approve">>]]
    /\ UNCHANGED <<storeVars, messageVars, workerVars, mismatch>>

(* get_sweep_order, first and after each command.                          *)
ApproveRead(a) ==
    /\ request[a].step = "read"
    /\ request' = [request EXCEPT ![a] =
          IF @.todo = <<>> \/ status[@.order] \in ApprovedOrLater
          THEN [NoRequest EXCEPT !.step = "done"]
          ELSE [@ EXCEPT !.step = "apply"]]
    /\ UNCHANGED <<storeVars, messageVars, workerVars, mismatch>>

ApproveApply(a) ==
    /\ request[a].step = "apply"
    /\ ApplyCommand(request[a].order, Head(request[a].todo), NoRef, HappyPath)
    /\ request' = [request EXCEPT ![a] =
          [step |-> "read", order |-> @.order, todo |-> Tail(@.todo)]]
    /\ UNCHANGED <<messageVars, workerVars, mismatch>>

(* 409: the command is not allowed in the status the order now has.        *)
ApproveRefused(a) ==
    /\ request[a].step = "apply"
    /\ \A to \in Status :
          ~ Transition(status[request[a].order], Head(request[a].todo), to, HappyPath)
    /\ request' = [request EXCEPT ![a] = [NoRequest EXCEPT !.step = "done"]]
    /\ UNCHANGED <<storeVars, messageVars, workerVars, mismatch>>

ApiWrite ==
    /\ \/ \E o \in Orders, key \in Keys, asked \in Terms : CreateOrder(o, key, asked)
       \/ \E o \in Orders : ApplyCommand(o, "Cancel", NoRef, HappyPath)
       \/ \E o \in Orders : ApplyCommand(o, "RequestRedemption", NoRef, HappyPath)
       \/ \E o \in Orders : \E i \in DOMAIN breaks[o] : ResolveBreak(o, i)
    /\ UNCHANGED <<messageVars, workerVars, request, mismatch>>

SetMismatch ==
    /\ mismatch' \in BOOLEAN
    /\ UNCHANGED <<storeVars, messageVars, workerVars, request>>

-----------------------------------------------------------------------------
Queues ==
    \E m \in Deliveries :
        Deliver(m) \/ LeftLeased(m) \/ VisibilityTimeout(m) \/ DeadLetter(m)

WorkerStep(w) ==
    \/ \E m \in Deliveries : Receive(w, m)
    \/ RecordInboxMessage(w) \/ RecordFails(w) \/ DeleteMessage(w)
    \/ CheckStatus(w) \/ ApplyChecked(w) \/ CheckSubmitted(w)
    \/ RequestConfirmation(w) \/ ApplyNext(w)
    \/ Review(w) \/ ReadMismatch(w)
    \/ HandlerFails(w)

Approval(a) ==
    \/ \E o \in Orders : ApproveStart(a, o)
    \/ ApproveRead(a) \/ ApproveApply(a) \/ ApproveRefused(a)

WNext ==
    \/ Queues
    \/ \E w \in Worker : WorkerStep(w) \/ Crash(w)
    \/ \E a \in Approvers : Approval(a)
    \/ ApiWrite
    \/ SetMismatch

WSpec == WInit /\ [][WNext]_vars

(* An event whose row is not left leased is published (the publisher's own *)
(* liveness, EventuallyPublished in Outbox) and arrives, receipts time     *)
(* out, messages received too often are dead-lettered; a worker keeps      *)
(* polling and never stops in the middle of a message unless it crashes.   *)
Fairness ==
    /\ \A m \in Deliveries :
          /\ WF_vars(m.copy = 1 /\ Deliver(m))
          /\ WF_vars(VisibilityTimeout(m))
          /\ WF_vars(DeadLetter(m))
    /\ \A w \in Worker : WF_vars(WorkerStep(w))

FairSpec == WSpec /\ Fairness

-----------------------------------------------------------------------------
Pc == {"idle", "record", "check", "applyChecked", "request", "review", "readMismatch",
       "apply", "delete"}

Places == {"absent", "unsent", "visible", "deleted", "dead"} \union Worker

WTypeOK ==
    /\ queue \in [Deliveries -> Places]
    /\ receives \in [Deliveries -> 0 .. MaxReceives]
    /\ inbox \subseteq Deliveries
    /\ pc \in [Worker -> Pc]
    /\ held \in [Worker -> Deliveries \union {NoDelivery}]
    /\ \A w \in Worker : pc[w] = "idle" <=> held[w] = NoDelivery
    /\ todo \in [Worker -> Seq(Command)]
    /\ mismatch \in BOOLEAN
    /\ handled \in [Deliveries -> Nat]
    /\ succeeded \subseteq Deliveries

(***************************************************************************)
(* Whatever the redeliveries and crashes, a message's handler is started   *)
(* at most once, exactly when the inbox takes the message; two workers     *)
(* never handle one message; and a message whose handler was never started *)
(* leaves the queue only for the dead-letter queue.                        *)
(***************************************************************************)
HandledAtMostOnce ==
    \A m \in Deliveries :
        /\ handled[m] = IF m \in inbox THEN 1 ELSE 0
        /\ queue[m] = "deleted" => m \in inbox
        /\ \A w, x \in Worker :
              w # x /\ InHandler(w) /\ InHandler(x) /\ held[w] = m => held[x] # m

(***************************************************************************)
(* When the created event was published twice, two handlers may ask the    *)
(* transfer agent for the same order, but at most one of them goes on to   *)
(* book the position, under the reference the order carries.               *)
(***************************************************************************)
Booking(w) == pc[w] = "apply" /\ todo[w] = <<"BookPosition">>

OneBooker ==
    \A w \in Worker : Booking(w) =>
        /\ confirmation[OrderOf(w)] = RefOf[OrderOf(w)]
        /\ \A x \in Worker \ {w} : Booking(x) => OrderOf(x) # OrderOf(w)

(***************************************************************************)
(* The reconciliation worker never looks at an order before its position   *)
(* is booked, however messages are delayed, repeated or overtaken.         *)
(***************************************************************************)
ReviewedAfterBooking ==
    \A w \in Worker :
        pc[w] \in {"review", "readMismatch"} =>
            /\ positions[OrderOf(w)] = RefOf[OrderOf(w)]
            /\ Rank[status[OrderOf(w)]] >= Rank["PositionBooked"]

(***************************************************************************)
(* The reconciliation worker, which opens an exception on whatever order   *)
(* it reviews while the mismatch switch is set, never reviews one whose    *)
(* redemption was requested, nor is still to open the exception then:      *)
(* unless the publisher sent its booked event twice, the inbox keeps the   *)
(* repeated message from the handler.                                      *)
(***************************************************************************)
NotSent == {"absent", "unsent"}

SentTwice(o) ==
    \E m \in Deliveries : m.order = o /\ m.copy > 1 /\ queue[m] \notin NotSent

Reviewing(w) ==
    \/ pc[w] \in {"review", "readMismatch"}
    \/ pc[w] = "apply" /\ todo[w] = <<"OpenException">>

RedemptionNotReviewed ==
    \A w \in Worker :
        Reviewing(w) /\ Did(OrderOf(w), "RequestRedemption") => SentTwice(OrderOf(w))

(***************************************************************************)
(* An order in exception, or in redemption, is carried on by no service    *)
(* that runs: resolving its break does not close the exception, no worker  *)
(* issues the commands of a redemption, and redelivered messages do not    *)
(* move it either.  Only a booked event sent twice takes an order out of   *)
(* redemption, into an exception.                                          *)
(***************************************************************************)
LeftForGood ==
    [][\A o \in Orders :
          status[o] \in {"RedemptionRequested", "ExceptionOpen"} =>
              \/ status'[o] = status[o]
              \/ /\ status[o] = "RedemptionRequested" /\ status'[o] = "ExceptionOpen"
                 /\ SentTwice(o)]_vars

(***************************************************************************)
(* No message is received for ever: each ends deleted or dead-lettered.    *)
(***************************************************************************)
QueueDrains ==
    \A m \in Deliveries : queue[m] = "visible" ~> queue[m] \in {"deleted", "dead"}

(***************************************************************************)
(* Every created order is carried to Active, to an exception or to a       *)
(* cancellation: always when nothing fails and no approve request races    *)
(* with the workers, however often its events are delivered; otherwise     *)
(* unless an event of the order was left leased by its publisher, a        *)
(* message of it dead-lettered, or the one handler run of one failed.      *)
(***************************************************************************)
Carried(o) == status[o] \in {"Active", "RedemptionRequested", "ExceptionOpen", "Cancelled"}

Dropped(m) ==
    \/ queue[m] \in {"unsent", "dead"}
    \/ m \in inbox \ succeeded /\ \A w \in Worker : InHandler(w) => held[w] # m

OrdersComplete == \A o \in Orders : status[o] = "Created" ~> Carried(o)

OrdersCompleteOrDropped ==
    \A o \in Orders :
        status[o] = "Created" ~> Carried(o) \/ \E m \in Deliveries : m.order = o /\ Dropped(m)

(***************************************************************************)
(* docs/liveness-verification.md: "Persistent mismatch opens an            *)
(* exception".  An order booked and not yet read about by the worker, with *)
(* the switch set for good, ends in an exception, unless its one message   *)
(* was dropped or never sent.                                              *)
(***************************************************************************)
NotDecided(o) ==
    \A w \in ReconciliationWorkers :
        pc[w] = "apply" => held[w].order # o

MismatchOpensException ==
    \A o \in Orders :
        [](/\ status[o] = "PositionBooked" /\ NotDecided(o)
           /\ []mismatch
           => <>(status[o] = "ExceptionOpen" \/ \E m \in Deliveries : m.order = o /\ Dropped(m)))

(***************************************************************************)
(* docs/liveness-verification.md: "Resolved exceptions close", by the      *)
(* "reconciliation resolve route".                                         *)
(***************************************************************************)
ResolvedExceptionsClose ==
    \A o \in Orders :
        status[o] = "ExceptionOpen" /\ breaks[o] = <<"Resolved">>
            ~> status[o] = "ExceptionClosed"

(***************************************************************************)
(* docs/traceability.md: workers "only delete messages after successful    *)
(* processing".                                                            *)
(***************************************************************************)
DeletedOnlyAfterSuccess == \A m \in Deliveries : queue[m] = "deleted" => m \in succeeded
=============================================================================
