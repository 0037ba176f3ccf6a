--------------------------- MODULE DeliveryProofs ---------------------------
(***************************************************************************)
(* Proofs about Delivery for any consumers, services, rows and limits: it  *)
(* implements EventBus.                                                    *)
(***************************************************************************)
EXTENDS Delivery, OutboxProofs, FiniteSetTheorems

(***************************************************************************)
(* The inductive invariant.  A message that is anywhere -- in the queue,   *)
(* in a batch, in the inbox -- is a copy that was sent; it is handled by   *)
(* the service whose insert into the inbox was the first, and by no other, *)
(* and leaves the queue for good only when it is in the inbox.             *)
(***************************************************************************)
Sent ==
    \A m \in Message :
        /\ queue[m] # "absent" => m.copy <= sent[m.row]
        /\ m \in inbox => queue[m] # "absent"
        /\ queue[m] = "deleted" => m \in inbox

Received ==
    \A s \in Services : \A i \in DOMAIN work[s] : queue[work[s][i]] # "absent"

Taken == \A s \in Services : at[s] \in {"handle", "delete"} => Current(s) \in inbox

Handling(s, m) == at[s] = "handle" /\ Current(s) = m

HandledOnce ==
    \A m \in Message :
        /\ succeeded[m] \in {0, 1}
        /\ succeeded[m] = 1 => m \in inbox
        /\ \A s \in Services : Handling(s, m) =>
              /\ succeeded[m] = 0
              /\ \A t \in Services : Handling(t, m) => t = s

AgedRows == \A e \in aged : outbox[e] # "absent"

DInv ==
    IInv /\ DTypeOK /\ Sent /\ Received /\ Taken /\ HandledOnce /\ AgedRows

-----------------------------------------------------------------------------
(* A receive takes finitely many messages, so its batch is a sequence of   *)
(* them, and not empty.                                                    *)
LEMMA BatchTyped ==
    ASSUME NEW s \in Services, NEW ms \in (SUBSET Receivable(s)) \ {{}},
           NEW batched \in SetToSeqs(ms)
    PROVE  batched \in Seq(ms) /\ batched # <<>>
<1> DEFINE key == [m \in ms |-> <<m.row, m.copy>>]
<1>1. IsFiniteSet(Rows \X (1 .. MaxCopies))
  <2>1. MaxCopies \in Int /\ 1 \in Int
    BY OutboxAssumption DEF MaxCopies
  <2>2. IsFiniteSet(1 .. MaxCopies)
    BY <2>1, FS_Interval
  <2> QED
    BY <2>2, OutboxAssumption, FS_Product
<1>2. ms \subseteq Message /\ \A m \in ms : m.consumer = ConsumerOf[s]
  BY DEF Receivable
<1>3. key \in Injection(ms, Rows \X (1 .. MaxCopies))
  BY <1>2 DEF Injection, IsInjective, Message
<1>4. IsFiniteSet(ms)
  BY <1>1, <1>3, FS_Injection
<1>5. Cardinality(ms) \in Nat
  BY <1>4, FS_CardinalityType
<1>6. Cardinality(ms) # 0
  BY <1>4, FS_EmptySet
<1>7. batched \in [1 .. Cardinality(ms) -> ms]
  BY DEF SetToSeqs
<1> QED
  BY <1>5, <1>6, <1>7

(* The empty tables and queues satisfy the invariant.                      *)
LEMMA InitDInv == DInit => DInv
<1> SUFFICES ASSUME DInit PROVE DInv
  OBVIOUS
<1>1. IInv
  BY InitIInv DEF DInit
<1>2. DTypeOK
  BY DeliveryAssumption DEF DInit, DTypeOK
<1>3. Sent /\ Received /\ Taken /\ HandledOnce /\ AgedRows
  BY DEF DInit, Sent, Received, Taken, HandledOnce, Handling, AgedRows
<1> QED
  BY <1>1, <1>2, <1>3 DEF DInv

-----------------------------------------------------------------------------
(* What a step of the publishers does to the rest: rows stay inserted, and *)
(* what was sent stays sent.                                               *)
LEMMA PublisherStep ==
    ASSUME IInv, Next
    PROVE  \A e \in Rows :
              /\ outbox[e] # "absent" => outbox'[e] # "absent"
              /\ sent'[e] \in Nat /\ sent'[e] >= sent[e]
<1>1. TypeOK
  BY DEF IInv
<1>2. ASSUME NEW r \in Rows, InsertOutboxEvent(r) \/ LeaseExpires(r)
      PROVE  \A e \in Rows :
                /\ outbox[e] # "absent" => outbox'[e] # "absent"
                /\ sent' = sent
  BY <1>1, <1>2 DEF InsertOutboxEvent, LeaseExpires, TypeOK
<1>3. ASSUME NEW p \in Publishers, LeasePendingOutbox(p)
      PROVE  \A e \in Rows : (outbox[e] # "absent" => outbox'[e] # "absent") /\ sent' = sent
  BY <1>1, <1>3 DEF LeasePendingOutbox, TypeOK
<1>4. ASSUME NEW p \in Publishers, Publish(p)
      PROVE  \A e \in Rows : outbox' = outbox /\ sent'[e] \in Nat /\ sent'[e] >= sent[e]
  BY <1>1, <1>4 DEF Publish, PublishAccepted, PublishError, TypeOK
<1>5. ASSUME NEW p \in Publishers, Mark(p) \/ Crash(p)
      PROVE  \A e \in Rows : (outbox[e] # "absent" => outbox'[e] # "absent") /\ sent' = sent
  BY <1>1, <1>5 DEF Mark, MarkPublished, MarkFailed, MarkLost, Crash, TypeOK
<1>6. sent \in [Rows -> Nat]
  BY <1>1 DEF TypeOK
<1> QED
  BY <1>2, <1>3, <1>4, <1>5, <1>6 DEF Next

(* As long as the outbox does not change, its own invariant stays.         *)
LEMMA OutboxFrame == IInv /\ UNCHANGED vars => IInv'
BY NextIInv

(* What a service at work holds: a message, the first of its batch.        *)
LEMMA CurrentTyped ==
    ASSUME DTypeOK, NEW s \in Services, at[s] # "receive"
    PROVE  /\ work[s] \in Seq(Message) /\ work[s] # <<>>
           /\ Current(s) \in Message
           /\ 1 \in DOMAIN work[s] /\ Current(s) = work[s][1]
<1>1. work[s] \in Seq(Message) /\ work[s] # <<>>
  BY DEF DTypeOK
<1> QED
  BY <1>1 DEF Current

(* Going on leaves the service at the start of the rest of its batch.      *)
LEMMA NextMessageTyped ==
    ASSUME DTypeOK, NEW s \in Services, at[s] # "receive", NextMessage(s)
    PROVE  /\ work' \in [Services -> Seq(Message)]
           /\ at' \in [Services -> {"receive", "record", "handle", "delete"}]
           /\ \A t \in Services : at'[t] = "receive" <=> work'[t] = <<>>
           /\ at'[s] \in {"receive", "record"}
           /\ \A i \in DOMAIN work'[s] : \E j \in DOMAIN work[s] : work'[s][i] = work[s][j]
           /\ \A t \in Services \ {s} : at'[t] = at[t] /\ work'[t] = work[t]
<1>1. work[s] \in Seq(Message) /\ work[s] # <<>>
  BY CurrentTyped
<1>2. /\ Tail(work[s]) \in Seq(Message)
      /\ \A i \in DOMAIN Tail(work[s]) : i + 1 \in DOMAIN work[s] /\ Tail(work[s])[i] = work[s][i + 1]
  BY <1>1
<1>3. /\ work \in [Services -> Seq(Message)]
      /\ at \in [Services -> {"receive", "record", "handle", "delete"}]
      /\ \A t \in Services : at[t] = "receive" <=> work[t] = <<>>
  BY DEF DTypeOK
<1>4. /\ work' = [work EXCEPT ![s] = Tail(work[s])]
      /\ at' = [at EXCEPT ![s] = IF Tail(work[s]) = <<>> THEN "receive" ELSE "record"]
  BY DEF NextMessage
<1>5. work'[s] = Tail(work[s]) /\ \A t \in Services \ {s} : at'[t] = at[t] /\ work'[t] = work[t]
  BY <1>3, <1>4
<1>6. at'[s] = IF Tail(work[s]) = <<>> THEN "receive" ELSE "record"
  BY <1>3, <1>4
<1>7. work' \in [Services -> Seq(Message)]
  BY <1>2, <1>3, <1>4
<1>8. at' \in [Services -> {"receive", "record", "handle", "delete"}]
  BY <1>3, <1>4
<1>9. \A t \in Services : at'[t] = "receive" <=> work'[t] = <<>>
  BY <1>3, <1>5, <1>6
<1> QED
  BY <1>2, <1>5, <1>6, <1>7, <1>8, <1>9

-----------------------------------------------------------------------------
(* One lemma per action.                                                   *)

(* The publishers' steps preserve the invariant.                           *)
LEMMA PublisherPreserves ==
    ASSUME DInv, Next, UNCHANGED <<queueVars, serviceVars, aged>>
    PROVE  DInv'
<1> USE DEF DInv
<1>1. IInv'
  BY NextIInv
<1>2. UNCHANGED <<queue, receives, inbox, work, at, succeeded, aged>>
  BY DEF queueVars, serviceVars
<1>3. DTypeOK' /\ Received' /\ Taken' /\ HandledOnce'
  BY <1>2 DEF DTypeOK, Received, Taken, HandledOnce, Handling, Current
<1>4. Sent'
  <2>1. \A m \in Message : m.row \in Rows /\ m.copy \in Nat
    BY OutboxAssumption DEF Message, MaxCopies
  <2>2. \A e \in Rows : sent[e] \in Nat /\ sent'[e] \in Nat /\ sent'[e] >= sent[e]
    BY PublisherStep DEF IInv, TypeOK
  <2> QED
    BY <1>2, <2>1, <2>2 DEF Sent
<1>5. AgedRows'
  BY <1>2, PublisherStep DEF AgedRows, DTypeOK
<1> QED
  BY <1>1, <1>3, <1>4, <1>5

(* Delivery, the timeout and the redrive policy preserve the invariant:    *)
(* a message never goes back to be absent, nor on to be deleted.           *)
LEMMA QueuePreserves ==
    ASSUME DInv, NEW m \in Message, Deliver(m) \/ VisibilityTimeout(m) \/ DeadLetter(m)
    PROVE  DInv'
<1> USE DEF DInv
<1>1. UNCHANGED <<vars, receives, serviceVars, aged>>
  BY DEF Deliver, VisibilityTimeout, DeadLetter
<1>2. /\ queue \in [Message -> {"absent", "visible", "deleted", "dead"} \union Services]
      /\ queue' \in [Message -> {"absent", "visible", "deleted", "dead"} \union Services]
      /\ \A x \in Message : queue[x] # "absent" => queue'[x] # "absent"
      /\ \A x \in Message : queue'[x] # "absent" => queue[x] # "absent" \/ x.copy <= sent[x.row]
      /\ \A x \in Message : queue'[x] = "deleted" => queue[x] = "deleted"
  BY DeliveryAssumption DEF Deliver, VisibilityTimeout, DeadLetter, DTypeOK
<1>3. IInv'
  BY <1>1, OutboxFrame
<1>4. UNCHANGED <<inbox, work, at, succeeded, outbox, sent>>
  BY <1>1 DEF serviceVars, vars
<1>5. DTypeOK' /\ Taken' /\ HandledOnce' /\ AgedRows'
  BY <1>1, <1>2, <1>4 DEF DTypeOK, Taken, HandledOnce, Handling, Current, AgedRows
<1>6. Sent'
  BY <1>2, <1>4 DEF Sent
<1>7. Received'
  <2>1. \A s \in Services : \A i \in DOMAIN work[s] : work[s][i] \in Message
    BY DEF DTypeOK
  <2> QED
    BY <1>2, <1>4, <2>1 DEF Received
<1> QED
  BY <1>3, <1>5, <1>6, <1>7

(* A receive puts sent messages, and no others, into an empty batch.       *)
LEMMA ReceivePreserves ==
    ASSUME DInv, NEW s \in Services, Receive(s)
    PROVE  DInv'
<1> USE DEF DInv
<1>1. PICK ms \in (SUBSET Receivable(s)) \ {{}} :
         /\ queue' = [m \in Message |-> IF m \in ms THEN s ELSE queue[m]]
         /\ receives' = [m \in Message |-> IF m \in ms THEN receives[m] + 1 ELSE receives[m]]
         /\ work' \in {[work EXCEPT ![s] = batched] : batched \in SetToSeqs(ms)}
  BY DEF Receive
<1>2. PICK batched \in SetToSeqs(ms) : work' = [work EXCEPT ![s] = batched]
  BY <1>1
<1>3. batched \in Seq(ms) /\ batched # <<>>
  BY BatchTyped
<1>4. /\ at[s] = "receive"
      /\ at' = [at EXCEPT ![s] = "record"]
      /\ UNCHANGED <<vars, inbox, succeeded, aged>>
  BY DEF Receive
<1>5. \A m \in ms : m \in Message /\ queue[m] = "visible" /\ receives[m] < MaxReceives
  BY DEF Receivable
<1>6. /\ \A m \in ms : queue'[m] = s
      /\ \A m \in Message \ ms : queue'[m] = queue[m]
      /\ s \notin {"absent", "visible", "deleted", "dead"}
  BY <1>1, <1>5, DeliveryAssumption
<1>7. /\ work' \in [Services -> Seq(Message)]
      /\ work'[s] = batched
      /\ \A t \in Services \ {s} : work'[t] = work[t]
  <2>1. batched \in Seq(Message)
    BY <1>3, <1>5
  <2> QED
    BY <1>2, <2>1 DEF DTypeOK
<1>8. at'[s] = "record" /\ \A t \in Services \ {s} : at'[t] = at[t]
  BY <1>4 DEF DTypeOK
<1>9. IInv'
  BY <1>4, OutboxFrame
<1>10. DTypeOK'
  <2>1. queue' \in [Message -> {"absent", "visible", "deleted", "dead"} \union Services]
    BY <1>1 DEF DTypeOK
  <2>2. receives' \in [Message -> 0 .. MaxReceives]
    BY <1>1, <1>5, DeliveryAssumption DEF DTypeOK
  <2>3. \A t \in Services : at'[t] = "receive" <=> work'[t] = <<>>
    BY <1>3, <1>7, <1>8 DEF DTypeOK
  <2>4. at' \in [Services -> {"receive", "record", "handle", "delete"}]
    BY <1>4 DEF DTypeOK
  <2> QED
    BY <1>4, <1>7, <2>1, <2>2, <2>3, <2>4 DEF DTypeOK
<1>11. Sent'
  <2>1. UNCHANGED <<sent, inbox>>
    BY <1>4 DEF vars
  <2> QED
    BY <1>5, <1>6, <2>1 DEF Sent
<1>12. Received'
  <2>1. \A i \in DOMAIN batched : batched[i] \in ms
    BY <1>3
  <2>2. \A t \in Services : \A i \in DOMAIN work[t] : work[t][i] \in Message
    BY DEF DTypeOK
  <2> QED
    BY <1>6, <1>7, <2>1, <2>2 DEF Received
<1>13. Taken' /\ HandledOnce'
  <2>1. \A t \in Services : \A m : Handling(t, m)' <=> t # s /\ Handling(t, m)
    BY <1>4, <1>7, <1>8 DEF Handling, Current
  <2>2. \A t \in Services \ {s} : Current(t)' = Current(t)
    BY <1>7 DEF Current
  <2> QED
    BY <1>4, <1>8, <2>1, <2>2 DEF Taken, HandledOnce
<1>14. AgedRows'
  BY <1>4 DEF AgedRows, vars
<1> QED
  BY <1>9, <1>10, <1>11, <1>12, <1>13, <1>14

(* The insert into the inbox tells its first caller from the others.       *)
LEMMA RecordPreserves ==
    ASSUME DInv, NEW s \in Services, RecordInboxMessage(s)
    PROVE  DInv'
<1> USE DEF DInv
<1>1. /\ at[s] = "record"
      /\ inbox' = inbox \union {Current(s)}
      /\ at' = [at EXCEPT ![s] = IF Current(s) \in inbox THEN "delete" ELSE "handle"]
      /\ UNCHANGED <<vars, queue, receives, work, succeeded, aged>>
  BY DEF RecordInboxMessage, queueVars
<1>2. /\ Current(s) \in Message
      /\ 1 \in DOMAIN work[s] /\ Current(s) = work[s][1]
  BY <1>1, CurrentTyped
<1>3. queue[Current(s)] # "absent"
  BY <1>2 DEF Received
<1>4. \A t \in Services : Current(t)' = Current(t)
  BY <1>1 DEF Current
<1>5. /\ at'[s] = IF Current(s) \in inbox THEN "delete" ELSE "handle"
      /\ \A t \in Services \ {s} : at'[t] = at[t]
  BY <1>1 DEF DTypeOK
<1>6. IInv'
  BY <1>1, OutboxFrame
<1>7. DTypeOK'
  <2>1. at' \in [Services -> {"receive", "record", "handle", "delete"}]
    BY <1>1 DEF DTypeOK
  <2>2. \A t \in Services : at'[t] = "receive" <=> work'[t] = <<>>
    BY <1>1, <1>5 DEF DTypeOK
  <2> QED
    BY <1>1, <1>2, <2>1, <2>2 DEF DTypeOK
<1>8. Sent'
  BY <1>1, <1>3 DEF Sent, vars
<1>9. Received'
  BY <1>1 DEF Received
<1>10. Taken'
  BY <1>1, <1>4, <1>5 DEF Taken
<1>11. HandledOnce'
  <2>1. ASSUME NEW m \in Message, NEW t \in Services, Handling(t, m)'
        PROVE  /\ succeeded[m] = 0
               /\ \A u \in Services : Handling(u, m)' => u = t
    <3>1. \A u \in Services \ {s} : Handling(u, m)' <=> Handling(u, m)
      BY <1>4, <1>5 DEF Handling
    <3>2. \A u \in Services : Handling(u, m) => m \in inbox
      BY DEF Handling, Taken
    <3>3. Handling(s, m)' => m \notin inbox
      BY <1>4, <1>5 DEF Handling
    <3>4. succeeded[m] = 0
      BY <2>1, <3>1, <3>3 DEF HandledOnce
    <3>5. \A u, v \in Services \ {s} : Handling(u, m) /\ Handling(v, m) => u = v
      BY DEF HandledOnce
    <3> QED
      BY <2>1, <3>1, <3>2, <3>3, <3>4, <3>5
  <2> QED
    BY <1>1, <2>1 DEF HandledOnce
<1>12. AgedRows'
  BY <1>1 DEF AgedRows, vars
<1> QED
  BY <1>6, <1>7, <1>8, <1>9, <1>10, <1>11, <1>12

(* A handler that ends counts for its own message only.                    *)
LEMMA HandlerOkPreserves ==
    ASSUME DInv, NEW s \in Services, HandlerOk(s)
    PROVE  DInv'
<1> USE DEF DInv
<1>1. /\ at[s] = "handle"
      /\ succeeded' = [succeeded EXCEPT ![Current(s)] = @ + 1]
      /\ at' = [at EXCEPT ![s] = "delete"]
      /\ UNCHANGED <<vars, queue, receives, inbox, work, aged>>
  BY DEF HandlerOk, queueVars
<1>2. Current(s) \in Message
  BY <1>1, CurrentTyped
<1>3. \A t \in Services : Current(t)' = Current(t)
  BY <1>1 DEF Current
<1>4. at'[s] = "delete" /\ \A t \in Services \ {s} : at'[t] = at[t]
  BY <1>1 DEF DTypeOK
<1>5. IInv'
  BY <1>1, OutboxFrame
<1>6. DTypeOK'
  <2>1. at' \in [Services -> {"receive", "record", "handle", "delete"}]
    BY <1>1 DEF DTypeOK
  <2>2. \A t \in Services : at'[t] = "receive" <=> work'[t] = <<>>
    BY <1>1, <1>4 DEF DTypeOK
  <2>3. succeeded' \in [Message -> Nat]
    BY <1>1, <1>2 DEF DTypeOK
  <2> QED
    BY <1>1, <2>1, <2>2, <2>3 DEF DTypeOK
<1>7. Sent' /\ Received' /\ AgedRows'
  BY <1>1 DEF Sent, Received, AgedRows, vars
<1>8. Taken'
  BY <1>1, <1>3, <1>4 DEF Taken
<1>9. HandledOnce'
  <2>1. Handling(s, Current(s)) /\ Current(s) \in inbox
    BY <1>1 DEF Handling, Taken
  <2>2. \A t \in Services, m \in Message : Handling(t, m)' => t # s /\ Handling(t, m)
    BY <1>3, <1>4 DEF Handling
  <2>3. /\ succeeded'[Current(s)] = 1
        /\ \A m \in Message \ {Current(s)} : succeeded'[m] = succeeded[m]
    BY <1>1, <1>2, <2>1 DEF HandledOnce, DTypeOK
  <2>4. ASSUME NEW m \in Message
        PROVE  /\ succeeded'[m] \in {0, 1}
               /\ succeeded'[m] = 1 => m \in inbox'
               /\ \A t \in Services : Handling(t, m)' =>
                     succeeded'[m] = 0 /\ \A u \in Services : Handling(u, m)' => u = t
    <3>1. CASE m = Current(s)
      <4>1. \A t \in Services : ~ Handling(t, m)'
        BY <2>2, <2>1, <3>1 DEF HandledOnce
      <4> QED
        BY <1>1, <2>1, <2>3, <3>1, <4>1
    <3>2. CASE m # Current(s)
      BY <1>1, <2>2, <2>3, <3>2 DEF HandledOnce
    <3> QED
      BY <3>1, <3>2
  <2> QED
    BY <2>4 DEF HandledOnce
<1> QED
  BY <1>5, <1>6, <1>7, <1>8, <1>9

(* Whatever ends the work on a message leaves the others alone: the        *)
(* service's place changes, and the message's place in the queue at most.  *)
LEMMA NextMessageKeeps ==
    ASSUME DInv, NEW s \in Services, at[s] # "receive", NextMessage(s),
           UNCHANGED <<vars, receives, inbox, succeeded, aged>>,
           \/ UNCHANGED queue
           \/ /\ Current(s) \in inbox
              /\ queue' = [queue EXCEPT ![Current(s)] = "deleted"]
    PROVE  DInv'
<1> USE DEF DInv
<1>1. /\ work' \in [Services -> Seq(Message)]
      /\ at' \in [Services -> {"receive", "record", "handle", "delete"}]
      /\ \A t \in Services : at'[t] = "receive" <=> work'[t] = <<>>
      /\ at'[s] \in {"receive", "record"}
      /\ \A i \in DOMAIN work'[s] : \E j \in DOMAIN work[s] : work'[s][i] = work[s][j]
      /\ \A t \in Services \ {s} : at'[t] = at[t] /\ work'[t] = work[t]
  BY NextMessageTyped
<1>2. Current(s) \in Message
  BY CurrentTyped
<1>3. /\ queue' \in [Message -> {"absent", "visible", "deleted", "dead"} \union Services]
      /\ \A m \in Message : queue'[m] = "absent" => queue[m] = "absent"
      /\ \A m \in Message : queue[m] # "absent" \/ queue'[m] = queue[m] \/ m \in inbox
      /\ \A m \in Message : queue'[m] = "deleted" => m \in inbox
  BY <1>2 DEF DTypeOK, Sent
<1>4. IInv'
  BY OutboxFrame
<1>5. DTypeOK'
  BY <1>1, <1>3 DEF DTypeOK
<1>6. Sent'
  <2>1. \A m \in Message : queue'[m] # "absent" => m.copy <= sent[m.row]
    BY <1>3 DEF Sent
  <2> QED
    BY <1>3, <2>1 DEF Sent, vars
<1>7. Received'
  <2>1. \A t \in Services : \A i \in DOMAIN work[t] : work[t][i] \in Message
    BY DEF DTypeOK
  <2>2. ASSUME NEW t \in Services, NEW i \in DOMAIN work'[t]
        PROVE  work'[t][i] \in Message /\ queue[work'[t][i]] # "absent"
    <3>1. \E j \in DOMAIN work[t] : work'[t][i] = work[t][j]
      <4>1. CASE t = s
        BY <1>1, <4>1
      <4>2. CASE t # s
        BY <1>1, <4>2
      <4> QED
        BY <4>1, <4>2
    <3> QED
      BY <2>1, <3>1 DEF Received
  <2> QED
    BY <1>3, <2>2 DEF Received
<1>8. \A t \in Services \ {s} : Current(t)' = Current(t)
  BY <1>1 DEF Current
<1>9. Taken' /\ HandledOnce'
  <2>1. \A t \in Services, m \in Message : Handling(t, m)' => Handling(t, m)
    BY <1>1, <1>8 DEF Handling
  <2> QED
    BY <1>1, <1>8, <2>1 DEF Taken, HandledOnce
<1>10. AgedRows'
  BY DEF AgedRows, vars
<1> QED
  BY <1>4, <1>5, <1>6, <1>7, <1>9, <1>10

(* A message given up for now, or deleted, preserves the invariant.        *)
LEMMA EndPreserves ==
    ASSUME DInv, NEW s \in Services, Rejected(s) \/ Delete(s)
    PROVE  DInv'
<1>1. CASE Rejected(s)
  BY <1>1, NextMessageKeeps DEF Rejected, queueVars
<1>2. CASE Delete(s)
  <2>1. Current(s) \in inbox
    BY <1>2 DEF Delete, DInv, Taken
  <2> QED
    BY <1>2, <2>1, NextMessageKeeps DEF Delete
<1> QED
  BY <1>1, <1>2

(* The process stops: its batch is forgotten, not what the queue knows.    *)
LEMMA StopPreserves ==
    ASSUME DInv, NEW s \in Services, Stop(s)
    PROVE  DInv'
<1> USE DEF DInv
<1>1. /\ work' = [work EXCEPT ![s] = <<>>]
      /\ at' = [at EXCEPT ![s] = "receive"]
      /\ UNCHANGED <<vars, queue, receives, inbox, succeeded, aged>>
  BY DEF Stop, queueVars
<1>2. /\ work'[s] = <<>> /\ at'[s] = "receive"
      /\ \A t \in Services \ {s} : at'[t] = at[t] /\ work'[t] = work[t]
  BY <1>1 DEF DTypeOK
<1>3. IInv'
  BY <1>1, OutboxFrame
<1>4. DTypeOK'
  <2>1. /\ work' \in [Services -> Seq(Message)]
        /\ at' \in [Services -> {"receive", "record", "handle", "delete"}]
    BY <1>1 DEF DTypeOK
  <2>2. \A t \in Services : at'[t] = "receive" <=> work'[t] = <<>>
    BY <1>2 DEF DTypeOK
  <2> QED
    BY <1>1, <2>1, <2>2 DEF DTypeOK
<1>5. Sent' /\ AgedRows'
  BY <1>1 DEF Sent, AgedRows, vars
<1>6. Received'
  <2>1. DOMAIN work'[s] = {}
    BY <1>2
  <2> QED
    BY <1>1, <1>2, <2>1 DEF Received
<1>7. \A t \in Services \ {s} : Current(t)' = Current(t)
  BY <1>2 DEF Current
<1>8. Taken' /\ HandledOnce'
  <2>1. \A t \in Services, m \in Message : Handling(t, m)' => Handling(t, m)
    BY <1>2, <1>7 DEF Handling
  <2> QED
    BY <1>1, <1>2, <1>7, <2>1 DEF Taken, HandledOnce
<1> QED
  BY <1>3, <1>4, <1>5, <1>6, <1>8

(* Time passes for inserted rows only.                                     *)
LEMMA AgePreserves ==
    ASSUME DInv, NEW e \in Rows, Age(e)
    PROVE  DInv'
<1> USE DEF DInv
<1>1. /\ outbox[e] # "absent"
      /\ aged' = aged \union {e}
      /\ UNCHANGED <<vars, queue, receives, inbox, work, at, succeeded>>
  BY DEF Age, queueVars, serviceVars
<1>2. IInv'
  BY <1>1, OutboxFrame
<1>3. DTypeOK' /\ Sent' /\ Received' /\ Taken' /\ HandledOnce'
  BY <1>1 DEF DTypeOK, Sent, Received, Taken, HandledOnce, Handling, Current, vars
<1>4. AgedRows'
  BY <1>1 DEF AgedRows, vars
<1> QED
  BY <1>2, <1>3, <1>4

(* The invariant is inductive.                                             *)
LEMMA NextDInv == DInv /\ [DNext]_dvars => DInv'
<1> SUFFICES ASSUME DInv, [DNext]_dvars PROVE DInv'
  OBVIOUS
<1>1. CASE Next /\ UNCHANGED <<queueVars, serviceVars, aged>>
  BY <1>1, PublisherPreserves
<1>2. CASE \E m \in Message : Deliver(m) \/ VisibilityTimeout(m) \/ DeadLetter(m)
  BY <1>2, QueuePreserves
<1>3. CASE \E s \in Services : Consume(s) \/ Stop(s)
  BY <1>3, ReceivePreserves, RecordPreserves, HandlerOkPreserves, EndPreserves, StopPreserves
     DEF Consume
<1>4. CASE \E e \in Rows : Age(e)
  BY <1>4, AgePreserves
<1>5. CASE UNCHANGED dvars
  <2>1. UNCHANGED <<vars, queue, receives, inbox, work, at, succeeded, aged>>
    BY <1>5 DEF dvars, queueVars, serviceVars
  <2>2. IInv'
    BY <2>1, OutboxFrame DEF DInv
  <2>3. DTypeOK' /\ Sent' /\ Received' /\ Taken' /\ HandledOnce' /\ AgedRows'
    BY <2>1 DEF DInv, DTypeOK, Sent, Received, Taken, HandledOnce, Handling, Current, AgedRows, vars
  <2> QED
    BY <2>2, <2>3 DEF DInv
<1> QED
  BY <1>1, <1>2, <1>3, <1>4, <1>5 DEF DNext

(***************************************************************************)
(* The invariant of the whole way from the outbox to the handlers.         *)
(***************************************************************************)
THEOREM DeliveryInvariance == DSpec => []DInv
BY InitDInv, NextDInv, PTL DEF DSpec

(***************************************************************************)
(* Queues, inbox and batches stay well typed: consume_queue is at work     *)
(* exactly while it has messages of its batch left.                        *)
(***************************************************************************)
THEOREM DeliveryTypeCorrect == DSpec => []DTypeOK
<1>1. DInv => DTypeOK
  BY DEF DInv
<1> QED
  BY <1>1, DeliveryInvariance, PTL

-----------------------------------------------------------------------------
(* A step of the publishers commits one event, sends one, or does nothing  *)
(* that the bus knows of.                                                  *)
LEMMA PublisherStepOfBus ==
    ASSUME DInv, Next, UNCHANGED <<queueVars, serviceVars, aged>>
    PROVE  Bus!Next \/ UNCHANGED Bus!busVars
<1>1. TypeOK /\ OneHolder /\ Holding /\ Counted
  BY DEF DInv, IInv
<1>2. UNCHANGED <<inbox, succeeded>>
  BY DEF serviceVars
<1>3. ASSUME NEW e \in Rows, InsertOutboxEvent(e)
      PROVE  Bus!Commit(e)
  <2>1. e \notin {r \in Rows : outbox[r] # "absent"}
    BY <1>3 DEF InsertOutboxEvent
  <2>2. {r \in Rows : outbox'[r] # "absent"} = {r \in Rows : outbox[r] # "absent"} \union {e}
    BY <1>1, <1>3 DEF InsertOutboxEvent, TypeOK
  <2>3. sent' = sent
    BY <1>3 DEF InsertOutboxEvent
  <2> QED
    BY <1>2, <2>1, <2>2, <2>3 DEF Bus!Commit
<1>4. ASSUME NEW p \in Publishers, NEW e \in Rows,
             e \in batch[p], step[p] = "publish",
             sent' = [sent EXCEPT ![e] = @ + 1], outbox' = outbox
      PROVE  Bus!Send(e)
  <2>1. outbox[e] # "absent"
    BY <1>1, <1>4, Leased
  <2>2. Unsent(e) /\ errors[e] \in 0 .. MaxErrors /\ sent[e] \in Nat /\ attempts[e] \in Nat
    BY <1>1, <1>4 DEF Counted, TypeOK
  <2>3. sent[e] < MaxCopies
    BY <2>2, OutboxAssumption DEF Unsent, MaxCopies
  <2> QED
    BY <1>2, <1>4, <2>1, <2>3 DEF Bus!Send
<1>5. ASSUME sent' = sent,
             \A e \in Rows : outbox'[e] = "absent" <=> outbox[e] = "absent"
      PROVE  UNCHANGED Bus!busVars
  BY <1>2, <1>5 DEF Bus!busVars
<1>6. ASSUME NEW e \in Rows, LeaseExpires(e)
      PROVE  UNCHANGED Bus!busVars
  BY <1>5, <1>6 DEF LeaseExpires
<1>7. ASSUME NEW p \in Publishers, LeasePendingOutbox(p)
      PROVE  UNCHANGED Bus!busVars
  <2>1. \A e \in Picked : outbox[e] # "absent"
    BY DEF Picked, Leasable
  <2>2. \A e \in Rows : outbox'[e] = IF e \in Picked THEN "leased" ELSE outbox[e]
    BY <1>7 DEF LeasePendingOutbox
  <2>3. sent' = sent
    BY <1>7 DEF LeasePendingOutbox
  <2> QED
    BY <1>5, <2>1, <2>2, <2>3
<1>8. ASSUME NEW p \in Publishers, Publish(p)
      PROVE  Bus!Next \/ UNCHANGED Bus!busVars
  <2>1. PICK e \in Rows : PublishAccepted(p, e) \/ PublishError(p, e)
    BY <1>8 DEF Publish
  <2>2. step[p] = "publish" /\ e \in batch[p] /\ outbox' = outbox
    BY <2>1 DEF PublishAccepted, PublishError
  <2>3. sent' = sent \/ sent' = [sent EXCEPT ![e] = @ + 1]
    BY <2>1 DEF PublishAccepted, PublishError
  <2> QED
    BY <1>4, <1>5, <2>2, <2>3 DEF Bus!Next
<1>9. ASSUME NEW p \in Publishers, Mark(p)
      PROVE  UNCHANGED Bus!busVars
  <2>1. CASE MarkLost(p)
    BY <1>5, <2>1 DEF MarkLost
  <2>2. CASE MarkPublished(p) \/ MarkFailed(p)
    <3>1. step[p] \in Marking /\ current[p] \in batch[p]
      BY <1>1, <2>2 DEF MarkPublished, MarkFailed, Holding, Marking
    <3>2. current[p] \in Rows /\ outbox[current[p]] = "leased"
      BY <1>1, <3>1, Leased DEF TypeOK
    <3>3. \A e \in Rows : outbox'[e] = "absent" <=> outbox[e] = "absent"
      BY <1>1, <2>2, <3>2 DEF MarkPublished, MarkFailed, TypeOK
    <3>4. sent' = sent
      BY <2>2 DEF MarkPublished, MarkFailed
    <3> QED
      BY <1>5, <3>3, <3>4
  <2> QED
    BY <1>9, <2>1, <2>2 DEF Mark
<1>10. ASSUME NEW p \in Publishers, Crash(p)
       PROVE  UNCHANGED Bus!busVars
  BY <1>5, <1>10 DEF Crash
<1> QED
  BY <1>3, <1>6, <1>7, <1>8, <1>9, <1>10 DEF Next, Bus!Next

(* Every step of the delivery is a step of the bus, or none.               *)
LEMMA StepOfBus == DInv /\ [DNext]_dvars => [Bus!Next]_Bus!busVars
<1> SUFFICES ASSUME DInv, [DNext]_dvars PROVE Bus!Next \/ UNCHANGED Bus!busVars
  OBVIOUS
<1>1. CASE Next /\ UNCHANGED <<queueVars, serviceVars, aged>>
  BY <1>1, PublisherStepOfBus
<1>2. ASSUME UNCHANGED <<vars, inbox, succeeded>>
      PROVE  UNCHANGED Bus!busVars
  BY <1>2 DEF Bus!busVars, vars
<1>3. CASE \E m \in Message : Deliver(m) \/ VisibilityTimeout(m) \/ DeadLetter(m)
  BY <1>2, <1>3 DEF Deliver, VisibilityTimeout, DeadLetter, serviceVars
<1>4. ASSUME NEW s \in Services, Receive(s) \/ Rejected(s) \/ Delete(s) \/ Stop(s)
      PROVE  UNCHANGED Bus!busVars
  BY <1>2, <1>4 DEF Receive, Rejected, Delete, Stop
<1>5. ASSUME NEW s \in Services, RecordInboxMessage(s)
      PROVE  Bus!Next \/ UNCHANGED Bus!busVars
  <2>1. /\ at[s] = "record"
        /\ inbox' = inbox \union {Current(s)}
        /\ UNCHANGED <<vars, succeeded>>
    BY <1>5 DEF RecordInboxMessage
  <2>2. /\ Current(s) \in Message
        /\ 1 \in DOMAIN work[s] /\ Current(s) = work[s][1]
    BY <2>1, CurrentTyped DEF DInv
  <2>3. Current(s).copy <= sent[Current(s).row]
    BY <2>2 DEF DInv, Received, Sent
  <2>4. CASE Current(s) \in inbox
    BY <1>2, <2>1, <2>4
  <2>5. CASE Current(s) \notin inbox
    <3>1. Bus!Start(Current(s))
      BY <2>1, <2>3, <2>5 DEF Bus!Start, vars
    <3>2. Current(s) \in Bus!Message
      BY <2>2 DEF Message, Bus!Message
    <3> QED
      BY <3>1, <3>2 DEF Bus!Next
  <2> QED
    BY <2>4, <2>5
<1>6. ASSUME NEW s \in Services, HandlerOk(s)
      PROVE  Bus!Next
  <2>1. /\ at[s] = "handle"
        /\ succeeded' = [succeeded EXCEPT ![Current(s)] = @ + 1]
        /\ UNCHANGED <<vars, inbox>>
    BY <1>6 DEF HandlerOk
  <2>2. Current(s) \in Message
    BY <2>1, CurrentTyped DEF DInv
  <2>3. Current(s) \in inbox /\ succeeded[Current(s)] = 0
    BY <2>1, <2>2 DEF DInv, Taken, HandledOnce, Handling
  <2>4. Bus!Finish(Current(s))
    BY <2>1, <2>3 DEF Bus!Finish, vars
  <2>5. Current(s) \in Bus!Message
    BY <2>2 DEF Message, Bus!Message
  <2> QED
    BY <2>4, <2>5 DEF Bus!Next
<1>7. CASE \E e \in Rows : Age(e)
  BY <1>2, <1>7 DEF Age, serviceVars
<1>8. CASE UNCHANGED dvars
  BY <1>2, <1>8 DEF dvars, serviceVars
<1> QED
  BY <1>1, <1>3, <1>4, <1>5, <1>6, <1>7, <1>8 DEF DNext, Consume

(***************************************************************************)
(* From the outbox to the handlers, Delivery implements EventBus: nothing  *)
(* uncommitted is sent, nothing is sent more often than SNS may fail, and  *)
(* each message is handled to the end at most once.                        *)
(***************************************************************************)
THEOREM DeliveryImplementsBus == DSpec => RefinesEventBus
<1>1. DInit => Bus!Init
  BY DEF DInit, Init, Bus!Init, Message, Bus!Message
<1> QED
  BY <1>1, StepOfBus, DeliveryInvariance, PTL DEF DSpec, RefinesEventBus, Bus!Spec
=============================================================================
