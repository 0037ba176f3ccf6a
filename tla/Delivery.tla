------------------------------ MODULE Delivery ------------------------------
(***************************************************************************)
(* The way of an event from the outbox to the handlers: Outbox composed    *)
(* with the subscriptions, the queues and consume_queue of                 *)
(* services/worker, batch by batch.  What a handler does is Workers'       *)
(* subject; here it succeeds or fails.  SNS and SQS are external.          *)
(***************************************************************************)
EXTENDS Outbox, SequencesExt

CONSTANTS
    Consumers,     \* names under which services consume, a queue each
    Services,      \* worker processes
    ConsumerOf,    \* the consumer each of them runs
    MaxReceives,   \* maxReceiveCount of the redrive policy
    BatchSize,     \* max_number_of_messages of a receive
    ServiceFaults  \* of "crash", "database", "sdk", "handler"

ASSUME DeliveryAssumption ==
    /\ Services \intersect {"absent", "visible", "deleted", "dead"} = {}
    /\ ConsumerOf \in [Services -> Consumers]
    /\ MaxReceives \in Nat \ {0}
    /\ BatchSize \in Nat \ {0}
    /\ ServiceFaults \subseteq {"crash", "database", "sdk", "handler"}

(* The copies that SNS makes of one publish, each with an id of its own.   *)
MaxCopies == MaxErrors + 1

Message == [consumer : Consumers, row : Rows, copy : 1 .. MaxCopies]

VARIABLES
    queue,      \* per message: absent, visible, deleted, dead, or the service it is in flight at
    receives,   \* ApproximateReceiveCount
    inbox,      \* inbox_messages
    work,       \* per service: the messages of the batch it has still to process
    at,         \* per service: its place in the loop over them
    succeeded,  \* history: handler runs of the message that returned Ok
    aged        \* rows whose created_at is more than five minutes ago

queueVars == <<queue, receives>>
serviceVars == <<inbox, work, at, succeeded>>
dvars == <<vars, queueVars, serviceVars, aged>>

DInit ==
    /\ Init
    /\ queue = [m \in Message |-> "absent"]
    /\ receives = [m \in Message |-> 0]
    /\ inbox = {}
    /\ work = [s \in Services |-> <<>>]
    /\ at = [s \in Services |-> "receive"]
    /\ succeeded = [m \in Message |-> 0]
    /\ aged = {}

-----------------------------------------------------------------------------
(* SNS and SQS.                                                            *)
Deliver(m) ==
    /\ queue[m] = "absent"
    /\ m.copy <= sent[m.row]
    /\ queue' = [queue EXCEPT ![m] = "visible"]
    /\ UNCHANGED <<vars, receives, serviceVars, aged>>

VisibilityTimeout(m) ==
    /\ queue[m] \in Services
    /\ queue' = [queue EXCEPT ![m] = "visible"]
    /\ UNCHANGED <<vars, receives, serviceVars, aged>>

DeadLetter(m) ==
    /\ queue[m] = "visible"
    /\ receives[m] = MaxReceives
    /\ queue' = [queue EXCEPT ![m] = "dead"]
    /\ UNCHANGED <<vars, receives, serviceVars, aged>>

-----------------------------------------------------------------------------
(* consume_queue.                                                          *)

Receivable(s) ==
    {m \in Message : /\ m.consumer = ConsumerOf[s]
                     /\ queue[m] = "visible"
                     /\ receives[m] < MaxReceives}

Receive(s) ==
    /\ at[s] = "receive"
    /\ \E ms \in (SUBSET Receivable(s)) \ {{}} :
          /\ Cardinality(ms) <= BatchSize
          /\ queue' = [m \in Message |-> IF m \in ms THEN s ELSE queue[m]]
          /\ receives' = [m \in Message |-> IF m \in ms THEN receives[m] + 1 ELSE receives[m]]
          /\ work' \in {[work EXCEPT ![s] = batched] : batched \in SetToSeqs(ms)}
    /\ at' = [at EXCEPT ![s] = "record"]
    /\ UNCHANGED <<vars, inbox, succeeded, aged>>

Current(s) == Head(work[s])

(* Mutant: the loop goes on after the last message of the batch.           *)
NextMessageAlways(s) ==
    /\ work' = [work EXCEPT ![s] = Tail(@)]
    /\ at' = [at EXCEPT ![s] = "record"]

(* `continue': on to the next message of the batch.                        *)
NextMessage(s) ==
    /\ work' = [work EXCEPT ![s] = Tail(@)]
    /\ at' = [at EXCEPT ![s] = IF Tail(work[s]) = <<>> THEN "receive" ELSE "record"]

(* Mutant: the inbox is written but its answer is not looked at.           *)
RecordInboxMessageAlways(s) ==
    /\ at[s] = "record"
    /\ inbox' = inbox \union {Current(s)}
    /\ at' = [at EXCEPT ![s] = "handle"]
    /\ UNCHANGED <<vars, queueVars, work, succeeded, aged>>

RecordInboxMessage(s) ==
    /\ at[s] = "record"
    /\ inbox' = inbox \union {Current(s)}
    /\ at' = [at EXCEPT ![s] = IF Current(s) \in inbox THEN "delete" ELSE "handle"]
    /\ UNCHANGED <<vars, queueVars, work, succeeded, aged>>

HandlerOk(s) ==
    /\ at[s] = "handle"
    /\ succeeded' = [succeeded EXCEPT ![Current(s)] = @ + 1]
    /\ at' = [at EXCEPT ![s] = "delete"]
    /\ UNCHANGED <<vars, queueVars, inbox, work, aged>>

(* Mutant: a message that could not be recorded is deleted all the same.   *)
RejectedDeletes(s) ==
    /\ \/ at[s] = "record" /\ "database" \in ServiceFaults
       \/ at[s] = "handle" /\ "handler" \in ServiceFaults
    /\ queue' = [queue EXCEPT ![Current(s)] = "deleted"]
    /\ NextMessage(s)
    /\ UNCHANGED <<vars, receives, inbox, succeeded, aged>>

(* disposition_for_processing_failure: Retry, for the inbox and for the    *)
(* handler.  The message stays in flight until its timeout.                *)
Rejected(s) ==
    /\ \/ at[s] = "record" /\ "database" \in ServiceFaults
       \/ at[s] = "handle" /\ "handler" \in ServiceFaults
    /\ NextMessage(s)
    /\ UNCHANGED <<vars, queueVars, inbox, succeeded, aged>>

(* The receipt of an earlier receive may or may not delete the message; an *)
(* SDK error is logged.                                                    *)
Delete(s) ==
    /\ at[s] = "delete"
    /\ \/ queue' = [queue EXCEPT ![Current(s)] = "deleted"]
       \/ /\ queue[Current(s)] # s \/ "sdk" \in ServiceFaults
          /\ UNCHANGED queue
    /\ NextMessage(s)
    /\ UNCHANGED <<vars, receives, inbox, succeeded, aged>>

(* The rest of the batch is lost with the process.                         *)
Stop(s) ==
    /\ "crash" \in ServiceFaults
    /\ at[s] # "receive"
    /\ work' = [work EXCEPT ![s] = <<>>]
    /\ at' = [at EXCEPT ![s] = "receive"]
    /\ UNCHANGED <<vars, queueVars, inbox, succeeded, aged>>

Age(e) ==
    /\ outbox[e] # "absent"
    /\ e \notin aged
    /\ aged' = aged \union {e}
    /\ UNCHANGED <<vars, queueVars, serviceVars>>

Consume(s) ==
    Receive(s) \/ RecordInboxMessage(s) \/ HandlerOk(s) \/ Rejected(s) \/ Delete(s)

DNext ==
    \/ Next /\ UNCHANGED <<queueVars, serviceVars, aged>>
    \/ \E m \in Message : Deliver(m) \/ VisibilityTimeout(m) \/ DeadLetter(m)
    \/ \E s \in Services : Consume(s) \/ Stop(s)
    \/ \E e \in Rows : Age(e)

(* Subscriptions deliver, receipts time out, the redrive policy is carried *)
(* out; services keep polling and, unless killed, finish their batch.      *)
DFairness ==
    /\ Fairness
    /\ \A m \in Message :
          WF_dvars(Deliver(m)) /\ WF_dvars(VisibilityTimeout(m)) /\ WF_dvars(DeadLetter(m))
    /\ \A s \in Services : WF_dvars(Consume(s))

DSpec == DInit /\ [][DNext]_dvars /\ DFairness

-----------------------------------------------------------------------------
DTypeOK ==
    /\ queue \in [Message -> {"absent", "visible", "deleted", "dead"} \union Services]
    /\ receives \in [Message -> 0 .. MaxReceives]
    /\ inbox \subseteq Message
    /\ work \in [Services -> Seq(Message)]
    /\ at \in [Services -> {"receive", "record", "handle", "delete"}]
    /\ \A s \in Services : at[s] = "receive" <=> work[s] = <<>>
    /\ succeeded \in [Message -> Nat]
    /\ aged \subseteq Rows

Of(c, e) == {m \in Message : m.consumer = c /\ m.row = e}

(***************************************************************************)
(* The whole way keeps the promise of EventBus: no consumer hears of an    *)
(* event that did not commit, no message is handled to the end twice, and  *)
(* an event is sent at most once more than SNS may answer with an error -- *)
(* through redelivery, stale receipts, lost batches and crashes.           *)
(***************************************************************************)
Bus == INSTANCE EventBus WITH
    Events <- Rows,
    committed <- {e \in Rows : outbox[e] # "absent"},
    copies <- sent,
    started <- inbox,
    finished <- succeeded

RefinesEventBus == Bus!Spec

(***************************************************************************)
(* Every committed event reaches the inbox of every consumer, unless its   *)
(* publisher was lost with the row or the queue gave the message up.       *)
(***************************************************************************)
Recorded(c, e) == inbox \intersect Of(c, e) # {}

EventuallyRecorded ==
    \A e \in Rows, c \in Consumers :
        outbox[e] = "pending" ~>
            \/ Recorded(c, e)
            \/ e \in orphaned
            \/ \E m \in Of(c, e) : queue[m] = "dead"

=============================================================================
