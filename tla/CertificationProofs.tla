------------------------ MODULE CertificationProofs ------------------------
(***************************************************************************)
(* Proofs about Certification: the admission kernel is exact for every     *)
(* width of the integers and every campaign asked for, and what the gates, *)
(* each passed at its own time, conclude about the delivery is true.       *)
(***************************************************************************)
EXTENDS Certification, DeliveryProofs

-----------------------------------------------------------------------------
(* Division with remainder.                                                *)
LEMMA DivModIdentity ==
    ASSUME NEW x \in Int, NEW y \in Int, y > 0
    PROVE  x = (x \div y) * y + (x % y)
BY Z3

(* The quotient and the remainder are natural numbers.                     *)
LEMMA DivMod ==
    ASSUME NEW t \in Nat, NEW d \in Nat \ {0}
    PROVE  /\ t \div d \in Nat
           /\ t % d \in 0 .. d - 1
           /\ t = (t \div d) * d + (t % d)
<1>1. t \in Int /\ d \in Int /\ d > 0
  OBVIOUS
<1>2. t = (t \div d) * d + (t % d)
  BY ONLY <1>1, DivModIdentity
<1>3. t \div d \in Nat /\ t % d \in 0 .. d - 1
  OBVIOUS
<1> QED
  BY <1>2, <1>3

(* Products with a natural number keep the order.                          *)
LEMMA TimesMonotone ==
    ASSUME NEW a \in Nat, NEW b \in Nat, NEW d \in Nat, a <= b
    PROVE  a * d <= b * d
<1>1. PICK n \in Nat : b = a + n
  <2>1. b - a \in Nat /\ b = a + (b - a)
    OBVIOUS
  <2> QED
    BY <2>1
<1>2. b * d = a * d + n * d
  BY <1>1
<1>3. n * d \in Nat /\ a * d \in Nat
  OBVIOUS
<1> QED
  BY <1>2, <1>3

RoundedUp(t, d) == (t \div d) + (IF t % d = 0 THEN 0 ELSE 1)

(* The rounded quotient is the least that reaches the dividend, and no     *)
(* more than it.                                                           *)
LEMMA RoundedUpLeast ==
    ASSUME NEW t \in Nat, NEW d \in Nat \ {0}
    PROVE  /\ RoundedUp(t, d) \in Nat
           /\ RoundedUp(t, d) * d >= t
           /\ \A k \in Nat : k * d >= t => RoundedUp(t, d) <= k
           /\ RoundedUp(t, d) <= t
<1> DEFINE q == t \div d
           r == t % d
<1>1. q \in Nat /\ r \in 0 .. d - 1 /\ t = q * d + r
  BY DivMod
<1> HIDE DEF q, r
<1>2. RoundedUp(t, d) = IF r = 0 THEN q ELSE q + 1
  BY <1>1 DEF RoundedUp, q, r
<1>3. q * d \in Nat /\ (q + 1) * d = q * d + d
  BY <1>1
<1>4. RoundedUp(t, d) \in Nat /\ RoundedUp(t, d) * d >= t
  BY <1>1, <1>2, <1>3
<1>5. ASSUME NEW k \in Nat, k * d >= t
      PROVE  RoundedUp(t, d) <= k
  <2>1. CASE r # 0
    <3>1. SUFFICES ASSUME k <= q PROVE FALSE
      BY <1>1, <1>2, <2>1
    <3>2. k * d <= q * d
      BY <1>1, <3>1, TimesMonotone
    <3>3. k * d \in Nat
      OBVIOUS
    <3> QED
      BY <1>1, <1>3, <1>5, <2>1, <3>2, <3>3
  <2>2. CASE r = 0
    <3>1. SUFFICES ASSUME k + 1 <= q PROVE FALSE
      BY <1>1, <1>2, <2>2
    <3>2. (k + 1) * d <= q * d
      BY <1>1, <3>1, TimesMonotone
    <3>3. k * d \in Nat /\ (k + 1) * d = k * d + d
      OBVIOUS
    <3> QED
      BY <1>1, <1>3, <1>5, <2>2, <3>2, <3>3
  <2> QED
    BY <2>1, <2>2
<1>6. t * d >= t
  <2>1. PICK n \in Nat : d = n + 1
    <3>1. d - 1 \in Nat /\ d = (d - 1) + 1
      OBVIOUS
    <3> QED
      BY <3>1
  <2>2. t * d = t * n + t /\ t * n \in Nat
    BY <2>1
  <2> QED
    BY <2>2
<1> QED
  BY <1>4, <1>5, <1>6

(* The rate of the kernel is the least positive rate that makes the target *)
(* in time, and the sum does not wrap.                                     *)
LEMMA ArrivalRateLeast ==
    ASSUME NEW t \in U64, NEW d \in U64 \ {0}
    PROVE  /\ ArrivalRate(t, d) \in U64 \ {0}
           /\ ArrivalRate(t, d) * d >= t
           /\ \A k \in U64 \ {0} : k * d >= t => ArrivalRate(t, d) <= k
<1>1. Width \in Nat /\ Width > 1 /\ t \in Nat /\ t < Width /\ d \in Nat \ {0}
  BY AdmissionAssumption DEF U64
<1> DEFINE c == RoundedUp(t, d)
<1>2. /\ c \in Nat /\ c * d >= t /\ c <= t
      /\ \A k \in Nat : k * d >= t => c <= k
  BY <1>1, RoundedUpLeast
<1>3. ArrivalRate(t, d) = AtLeastOne(c % Width)
  BY DEF ArrivalRate, RoundedUp
<1> HIDE DEF c
<1>4. c % Width = c
  BY <1>1, <1>2
<1>5. ArrivalRate(t, d) = IF c < 1 THEN 1 ELSE c
  BY <1>3, <1>4 DEF AtLeastOne
<1>6. ArrivalRate(t, d) \in U64 \ {0}
  BY <1>1, <1>2, <1>5 DEF U64
<1>7. ArrivalRate(t, d) * d >= t
  <2>1. CASE c < 1
    <3>1. c = 0 /\ c * d = 0
      BY <1>1, <1>2, <2>1
    <3> QED
      BY <1>1, <1>2, <1>5, <2>1, <3>1
  <2>2. CASE ~ (c < 1)
    BY <1>2, <1>5, <2>2
  <2> QED
    BY <2>1, <2>2
<1>8. \A k \in U64 \ {0} : k * d >= t => ArrivalRate(t, d) <= k
  BY <1>1, <1>2, <1>5 DEF U64
<1> QED
  BY <1>6, <1>7, <1>8

(***************************************************************************)
(* The admission kernel is exact: it admits the campaigns that a rate      *)
(* within the capacities can carry out, gives them the least such rate,    *)
(* and never wraps -- on 64 bits as on any other number of them.           *)
(***************************************************************************)
THEOREM AdmissionIsExact == AdmissionExact
<1> SUFFICES ASSUME NEW input \in Inputs
             PROVE  LET rate == ArrivalRate(input.target_attempts, input.duration_seconds) IN
                    /\ Admitted(input) <=> Permitted(input) /\ Feasible(input) # {}
                    /\ Admitted(input) =>
                          /\ rate \in Feasible(input)
                          /\ \A r \in Feasible(input) : rate <= r
                          /\ DrainAfterOneTick(rate, input.queue_drain_capacity_per_second) = 0
  BY DEF AdmissionExact
<1> DEFINE t == input.target_attempts
           d == input.duration_seconds
           queueCapacity == input.queue_drain_capacity_per_second
           dbCapacity == input.db_capacity_per_second
           rate == ArrivalRate(t, d)
<1>1. /\ t \in U64 /\ d \in U64 /\ queueCapacity \in U64 /\ dbCapacity \in U64
      /\ input.actual_spend_cents \in U64 /\ input.budget_limit_cents \in U64
  BY AdmissionAssumption DEF CertificationAdmissionInput
<1>2. U64 \subseteq Nat
  BY AdmissionAssumption DEF U64
<1>3. Admitted(input) <=>
         /\ input.actual_spend_cents <= input.budget_limit_cents
         /\ input.pre_existing_queue_messages = 0
         /\ d # 0
         /\ ~ (rate > queueCapacity)
         /\ ~ (rate > dbCapacity)
  BY DEF Admitted, Rejection, BudgetAllows
<1>4. Permitted(input) <=>
         /\ input.actual_spend_cents <= input.budget_limit_cents
         /\ input.pre_existing_queue_messages = 0
         /\ d # 0
  <2>1. d \in Nat
    BY <1>1, <1>2
  <2>2. d > 0 <=> d # 0
    BY <2>1
  <2> QED
    BY <2>2 DEF Permitted
<1>5. CASE d = 0
  BY <1>3, <1>4, <1>5
<1>6. CASE d # 0
  <2>1. /\ rate \in U64 \ {0}
        /\ rate * d >= t
        /\ \A k \in U64 \ {0} : k * d >= t => rate <= k
    BY <1>1, <1>6, ArrivalRateLeast
  <2>2. Feasible(input) = {r \in U64 \ {0} : r * d >= t /\ r <= queueCapacity /\ r <= dbCapacity}
    BY DEF Feasible
  <2> HIDE DEF rate, t, d, queueCapacity, dbCapacity
  <2>3. \A r \in Feasible(input) : rate <= r /\ r <= queueCapacity /\ r <= dbCapacity
    BY <2>1, <2>2
  <2>4. Feasible(input) # {} => ~ (rate > queueCapacity) /\ ~ (rate > dbCapacity)
    <3>1. SUFFICES ASSUME NEW r \in Feasible(input)
                   PROVE  ~ (rate > queueCapacity) /\ ~ (rate > dbCapacity)
      OBVIOUS
    <3>2. r \in U64
      BY <2>2
    <3> QED
      BY <1>1, <1>2, <2>1, <2>3, <3>2
  <2>5. ~ (rate > queueCapacity) /\ ~ (rate > dbCapacity) => rate \in Feasible(input)
    BY <1>1, <1>2, <2>1, <2>2
  <2>6. Admitted(input) <=> Permitted(input) /\ Feasible(input) # {}
    BY <1>3, <1>4, <2>4, <2>5
  <2>7. Admitted(input) => rate \in Feasible(input) /\ DrainAfterOneTick(rate, queueCapacity) = 0
    <3>1. SUFFICES ASSUME ~ (rate > queueCapacity)
                   PROVE  DrainAfterOneTick(rate, queueCapacity) = 0
      BY <1>3, <2>5
    <3> QED
      BY <1>1, <1>2, <2>1, <3>1 DEF DrainAfterOneTick
  <2> QED
    BY <2>3, <2>6, <2>7 DEF rate, t, d, queueCapacity
<1> QED
  BY <1>5, <1>6

-----------------------------------------------------------------------------
(* The gates only look: what is true of the delivery is true beside them.  *)
LEMMA GatesOnlyLook == CSpec => DSpec
<1>1. CInit => DInit
  BY DEF CInit
<1>2. [CNext]_cvars => [DNext]_dvars
  BY DEF CNext, System, Look, FoundEmpty, FoundWaiting, cvars
<1> QED
  BY <1>1, <1>2, PTL DEF CSpec, DSpec

(* A message once sent to a queue comes to rest there: deleted for good,   *)
(* or dead until somebody who took it deletes it.                          *)
AtRest ==
    /\ \A m \in Message : queue[m] = "deleted" => queue'[m] = "deleted"
    /\ \A m \in Message : queue[m] = "dead" => queue'[m] \in {"dead", "deleted"}

LEMMA MessagesRest ==
    ASSUME DTypeOK, [DNext]_dvars
    PROVE  AtRest
<1>0. /\ queue \in [Message -> {"absent", "visible", "deleted", "dead"} \union Services]
      /\ Services \intersect {"absent", "visible", "deleted", "dead"} = {}
  BY DeliveryAssumption DEF DTypeOK
<1>1. CASE UNCHANGED queue
  BY <1>1 DEF AtRest
<1>2. ASSUME NEW m \in Message, Deliver(m) \/ VisibilityTimeout(m) \/ DeadLetter(m)
      PROVE  AtRest
  <2>1. /\ queue[m] \notin {"deleted", "dead"}
        /\ \A n \in Message \ {m} : queue'[n] = queue[n]
    BY <1>0, <1>2 DEF Deliver, VisibilityTimeout, DeadLetter
  <2> QED
    BY <2>1 DEF AtRest
<1>3. ASSUME NEW s \in Services, Receive(s)
      PROVE  AtRest
  <2>1. PICK ms \in SUBSET Receivable(s) :
          queue' = [m \in Message |-> IF m \in ms THEN s ELSE queue[m]]
    BY <1>3 DEF Receive
  <2>2. \A m \in ms : queue[m] = "visible"
    BY DEF Receivable
  <2> QED
    BY <2>1, <2>2 DEF AtRest
<1>4. ASSUME NEW s \in Services, Delete(s)
      PROVE  AtRest
  <2>1. queue' = queue \/ queue' = [queue EXCEPT ![Current(s)] = "deleted"]
    BY <1>4 DEF Delete
  <2> QED
    BY <1>0, <2>1 DEF AtRest
<1>5. ASSUME NEW s \in Services,
             RecordInboxMessage(s) \/ HandlerOk(s) \/ Rejected(s) \/ Stop(s)
      PROVE  UNCHANGED queue
  BY <1>5 DEF RecordInboxMessage, HandlerOk, Rejected, Stop, queueVars
<1>6. ASSUME NEW e \in Rows, Age(e) PROVE UNCHANGED queue
  BY <1>6 DEF Age, queueVars
<1> QED
  BY <1>1, <1>2, <1>3, <1>4, <1>5, <1>6 DEF DNext, Consume, dvars, queueVars

(***************************************************************************)
(* What the script knows of a queue it found empty, however long ago: the  *)
(* messages there now came after it had looked.  Of the messages that had  *)
(* come before, the look at the source queue leaves open those that are    *)
(* dead, and the later look at the dead-letter queue rules them out.       *)
(***************************************************************************)
Found(m, places) == queue[m] \in places \/ m \in late

GateInv ==
    \A c \in Consumers :
        /\ <<c, "source">> \in looked =>
              \A m \in Message : m.consumer = c => Found(m, {"absent", "deleted", "dead"})
        /\ <<c, "dlq">> \in looked =>
              /\ <<c, "source">> \in looked
              /\ \A m \in Message : m.consumer = c => Found(m, {"absent", "deleted"})

(* While the system goes on, only late messages come to a queue looked at. *)
LEMMA SystemKeepsGate ==
    ASSUME DTypeOK, GateInv, System
    PROVE  GateInv'
<1>1. AtRest
  BY MessagesRest DEF System
<1>2. looked' = looked /\ late' = late \union Arriving
  BY DEF System
<1>3. ASSUME NEW m \in Message, <<m.consumer, "source">> \in looked,
             Found(m, {"absent", "deleted", "dead"})
      PROVE  Found(m, {"absent", "deleted", "dead"})'
  BY <1>1, <1>2, <1>3 DEF Found, AtRest, Arriving
<1>4. ASSUME NEW m \in Message, <<m.consumer, "source">> \in looked,
             Found(m, {"absent", "deleted"})
      PROVE  Found(m, {"absent", "deleted"})'
  BY <1>1, <1>2, <1>4 DEF Found, AtRest, Arriving
<1> QED
  BY <1>2, <1>3, <1>4 DEF GateInv

(* A look that finds nothing tells what the invariant says.                *)
LEMMA LookKeepsGate ==
    ASSUME DTypeOK, GateInv, NEW c \in Consumers, NEW kind \in {"source", "dlq"},
           FoundEmpty(c, kind)
    PROVE  GateInv'
<1>1. /\ looked' = looked \union {<<c, kind>>} /\ late' = late /\ queue' = queue
      /\ QueueTotal(c, kind) = {}
      /\ kind = "dlq" => <<c, "source">> \in looked
  BY DEF FoundEmpty, NextQueue, dvars, queueVars
<1>2. \A m \in Message : queue[m] \in {"absent", "visible", "deleted", "dead"} \union Services
  BY DEF DTypeOK
<1>3. CASE kind = "source"
  <2>1. \A m \in Message : m.consumer = c => queue[m] \in {"absent", "deleted", "dead"}
    BY <1>1, <1>2, <1>3 DEF QueueTotal
  <2> QED
    BY <1>1, <1>3, <2>1 DEF GateInv, Found
<1>4. CASE kind = "dlq"
  <2>1. \A m \in Message : m.consumer = c => queue[m] # "dead"
    BY <1>1, <1>4 DEF QueueTotal
  <2>2. \A m \in Message : m.consumer = c => Found(m, {"absent", "deleted"})
    BY <1>1, <1>4, <2>1 DEF GateInv, Found
  <2> QED
    BY <1>1, <1>4, <2>2 DEF GateInv, Found
<1> QED
  BY <1>3, <1>4

(* Every step keeps what the gates know.                                   *)
LEMMA GateInvariance == CSpec => []GateInv
<1>1. CInit => GateInv
  BY DEF CInit, GateInv
<1>2. DInv /\ GateInv /\ [CNext]_cvars => GateInv'
  <2> SUFFICES ASSUME DInv, GateInv, [CNext]_cvars PROVE GateInv'
    OBVIOUS
  <2>1. DTypeOK
    BY DEF DInv
  <2>2. CASE System
    BY <2>1, <2>2, SystemKeepsGate
  <2>3. ASSUME NEW c \in Consumers, NEW kind \in {"source", "dlq"}, FoundEmpty(c, kind)
        PROVE  GateInv'
    BY <2>1, <2>3, LookKeepsGate
  <2>4. ASSUME NEW c \in Consumers, NEW kind \in {"source", "dlq"}, FoundWaiting(c, kind)
        PROVE  GateInv'
    BY <2>4 DEF FoundWaiting, GateInv
  <2>5. CASE UNCHANGED cvars
    BY <2>5 DEF cvars, dvars, queueVars, GateInv, Found
  <2> QED
    BY <2>2, <2>3, <2>4, <2>5 DEF CNext, Look
<1> QED
  BY <1>1, <1>2, GatesOnlyLook, DeliveryInvariance, PTL DEF CSpec

(***************************************************************************)
(* When the script has found every queue empty, one after the other, and   *)
(* the certifier later finds no stale row, every aged event was published  *)
(* and is in the inbox of every consumer, or a copy of it came to the      *)
(* queue after the look or is still to come: what was published was sent,  *)
(* and what left a queue was recorded or is dead.                          *)
(***************************************************************************)
THEOREM CertificationIsSound == CSpec => []CertifiedMeansTaken
<1>1. ASSUME DInv, GateInv
      PROVE  CertifiedMeansTaken
  <2> SUFFICES ASSUME Drained, NoStaleUnpublished, NEW e \in aged
               PROVE  /\ outbox[e] = "published"
                      /\ \A c \in Consumers : Recorded(c, e) \/ Overlooked(c, e)
    BY DEF CertifiedMeansTaken
  <2>1. e \in Rows /\ outbox[e] # "absent"
    BY <1>1 DEF DInv, DTypeOK, AgedRows
  <2>2. outbox[e] = "published"
    BY <1>1, <2>1 DEF DInv, IInv, TypeOK, RowStatus, NoStaleUnpublished
  <2>3. sent[e] \in Nat /\ sent[e] >= 1
    BY <1>1, <2>1, <2>2 DEF DInv, IInv, TypeOK, Counted, Accepted
  <2>4. ASSUME NEW c \in Consumers
        PROVE  Recorded(c, e) \/ Overlooked(c, e)
    <3> DEFINE first == [consumer |-> c, row |-> e, copy |-> 1]
    <3>1. first \in Of(c, e) /\ first \in Message
      BY <2>1, OutboxAssumption DEF Of, Message, MaxCopies
    <3>2. Found(first, {"absent", "deleted"})
      BY <1>1, <3>1 DEF GateInv, Drained, Of
    <3>3. CASE queue[first] = "absent" \/ first \in late
      BY <2>3, <3>1, <3>3 DEF Overlooked
    <3>4. CASE queue[first] = "deleted"
      <4>1. first \in inbox
        BY <1>1, <3>1, <3>4 DEF DInv, Sent
      <4> QED
        BY <3>1, <4>1 DEF Recorded
    <3> QED
      BY <3>2, <3>3, <3>4 DEF Found
  <2> QED
    BY <2>2, <2>4
<1> QED
  BY <1>1, GateInvariance, GatesOnlyLook, DeliveryInvariance, PTL

(* Nothing ever takes a leased orphan up again: nobody holds it, and only  *)
(* its holder could mark it.                                               *)
LEMMA OrphanKept ==
    ASSUME DInv, [DNext]_dvars, NEW e \in Rows,
           e \in orphaned, e \in aged, outbox[e] = "leased"
    PROVE  e \in orphaned' /\ e \in aged' /\ outbox'[e] = "leased"
<1>1. TypeOK /\ OneHolder /\ Holding
  BY DEF DInv, IInv
<1>2. \A p \in Publishers : e \notin batch[p]
  BY <1>1 DEF OneHolder
<1>3. CASE Next /\ UNCHANGED <<queueVars, serviceVars, aged>>
  <2>1. ASSUME NEW r \in Rows, InsertOutboxEvent(r) \/ LeaseExpires(r)
        PROVE  outbox'[e] = "leased" /\ orphaned' = orphaned
    BY <1>1, <2>1 DEF InsertOutboxEvent, LeaseExpires, TypeOK
  <2>2. ASSUME NEW p \in Publishers, LeasePendingOutbox(p)
        PROVE  outbox'[e] = "leased" /\ orphaned' = orphaned
    BY <2>2 DEF LeasePendingOutbox
  <2>3. ASSUME NEW p \in Publishers, Publish(p)
        PROVE  outbox' = outbox /\ orphaned' = orphaned
    BY <2>3 DEF Publish, PublishAccepted, PublishError
  <2>4. ASSUME NEW p \in Publishers, MarkPublished(p) \/ MarkFailed(p)
        PROVE  outbox'[e] = "leased" /\ orphaned' = orphaned
    <3>1. current[p] \in batch[p]
      BY <1>1, <2>4 DEF MarkPublished, MarkFailed, Holding, Marking
    <3> QED
      BY <1>1, <1>2, <2>4, <3>1 DEF MarkPublished, MarkFailed, TypeOK
  <2>5. ASSUME NEW p \in Publishers, MarkLost(p) \/ Crash(p)
        PROVE  outbox' = outbox /\ orphaned \subseteq orphaned'
    BY <2>5 DEF MarkLost, Crash
  <2> QED
    BY <1>3, <2>1, <2>2, <2>3, <2>4, <2>5 DEF Next, Mark
<1>4. ASSUME UNCHANGED vars, aged \subseteq aged'
      PROVE  e \in orphaned' /\ e \in aged' /\ outbox'[e] = "leased"
  BY <1>4 DEF vars
<1>5. CASE \E m \in Message : Deliver(m) \/ VisibilityTimeout(m) \/ DeadLetter(m)
  BY <1>4, <1>5 DEF Deliver, VisibilityTimeout, DeadLetter
<1>6. CASE \E s \in Services : Consume(s) \/ Stop(s)
  BY <1>4, <1>6 DEF Consume, Receive, RecordInboxMessage, HandlerOk, Rejected, Delete, Stop
<1>7. CASE \E r \in Rows : Age(r)
  BY <1>4, <1>7 DEF Age
<1>8. CASE UNCHANGED dvars
  BY <1>4, <1>8 DEF dvars
<1> QED
  BY <1>3, <1>5, <1>6, <1>7, <1>8 DEF DNext

(***************************************************************************)
(* A row that lost its publisher is stale in every later run of the        *)
(* certifier, from the moment it is five minutes old.                      *)
(***************************************************************************)
THEOREM OrphansFailForEver == CSpec => OrphanFailsEveryRun
<1> DEFINE Fails == \A e \in Rows : Stuck(e) => Stuck(e)' /\ ~ NoStaleUnpublished'
<1>1. DInv /\ [CNext]_cvars => [Fails]_cvars
  <2> SUFFICES ASSUME DInv, [CNext]_cvars, NEW e \in Rows, Stuck(e)
               PROVE  Stuck(e)' /\ ~ NoStaleUnpublished'
    OBVIOUS
  <2>1. [DNext]_dvars
    BY DEF CNext, System, Look, FoundEmpty, FoundWaiting, cvars
  <2>2. Stuck(e)'
    BY <2>1, OrphanKept DEF Stuck
  <2>3. ~ NoStaleUnpublished'
    BY <2>2 DEF NoStaleUnpublished, Stuck
  <2> QED
    BY <2>2, <2>3
<1> QED
  BY <1>1, GatesOnlyLook, DeliveryInvariance, PTL DEF CSpec, OrphanFailsEveryRun
=============================================================================
