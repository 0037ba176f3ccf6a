-------------------------- MODULE SweepOrdersProofs --------------------------
(***************************************************************************)
(* Proofs about the state machine and about the store: any set of orders,  *)
(* keys, assets and references.                                            *)
(***************************************************************************)
EXTENDS SweepOrders, TLAPS

-----------------------------------------------------------------------------
(* The transition table of sweep.rs: facts proved once and cited wherever  *)
(* commands are applied.                                                   *)

(* Every row of the table leads from a status by a command to a status.    *)
LEMMA TableTyped ==
    ASSUME NEW s, NEW c, NEW t, <<s, c, t>> \in Table
    PROVE  s \in Status /\ c \in Command /\ t \in Status
BY DEF Table, Status, Command, Cancellable, Interruptible

(* Rank numbers the statuses.                                              *)
LEMMA RankTyped == \A s \in Status : Rank[s] \in 1 .. 20
BY DEF Rank, Status

(* No row of the transition table leads back or stays: the machine has no  *)
(* cycle.                                                                  *)
LEMMA RankIncreases ==
    ASSUME NEW s, NEW c, NEW t, <<s, c, t>> \in Table
    PROVE  Rank[s] < Rank[t]
BY DEF Table, Status, Cancellable, Interruptible, Rank

(* Once a command was accepted, no status it leaves the order in, nor any  *)
(* later one, has a row for the same command.                              *)
LEMMA CommandOnce ==
    ASSUME NEW c, NEW s1, NEW t1, <<s1, c, t1>> \in Table,
           NEW s2, NEW t2, <<s2, c, t2>> \in Table
    PROVE  Rank[s2] < Rank[t1]
BY DEF Table, Status, Cancellable, Interruptible, Rank

(* What a command emits are events, and never the event of the creation.   *)
LEMMA EmitsTyped ==
    ASSUME NEW c \in Command
    PROVE  Emits(c) \subseteq Event /\ "SweepOrderCreated" \notin Emits(c)
BY DEF Emits, EventTable, Command

(* Two commands never emit the same event, so an event names its command.  *)
LEMMA EmitsDisjoint ==
    ASSUME NEW c \in Command, NEW d \in Command, NEW e \in Emits(c), e \in Emits(d)
    PROVE  c = d
BY DEF Emits, EventTable

-----------------------------------------------------------------------------
(* Regions of the table: statuses reached only through LockCash, only      *)
(* through ConfirmTransferAgent, and those in which nothing has moved yet. *)
Locked == Status \ (Cancellable \union {"ExceptionOpen", "ExceptionClosed", "Cancelled"})
Confirmed == Locked \ {"CashLocked", "SubscriptionSubmitted"}
Untouched == Cancellable \union {"Cancelled"}
Excepted == {"ExceptionOpen", "ExceptionClosed"}

(* How the regions are entered and left: what the status of an order says  *)
(* about the commands in its past.                                         *)
LEMMA TableRegions ==
    ASSUME NEW s, NEW c, NEW t, <<s, c, t>> \in Table
    PROVE  /\ t \in Locked => s \in Locked \/ c = "LockCash"
           /\ t \in Confirmed => s \in Confirmed \/ c = "ConfirmTransferAgent"
           /\ t \in Untouched =>
                 /\ s \in Untouched
                 /\ c \notin {"LockCash", "ConfirmTransferAgent", "BookPosition", "OpenException"}
           /\ t \in Excepted <=> s \in Excepted \/ c = "OpenException"
           /\ c = "OpenException" => s \notin Excepted
           /\ c = "ConfirmTransferAgent" => s = "SubscriptionSubmitted"
           /\ c = "BookPosition" => s \in Confirmed /\ t = "PositionBooked"
BY DEF Table, Status, Cancellable, Interruptible, Locked, Confirmed, Untouched, Excepted

-----------------------------------------------------------------------------
(* Helpers.                                                                *)

(* Inserting rows into a table adds one to the count of each of their      *)
(* shapes.                                                                 *)
LEMMA InsertedTyped ==
    ASSUME NEW S, NEW table \in [S -> Nat], NEW rows
    PROVE  /\ Inserted(table, rows) \in [S -> Nat]
           /\ \A x \in S : Inserted(table, rows)[x] =
                              IF x \in rows THEN table[x] + 1 ELSE table[x]
BY DEF Inserted

(* One appended row adds its command to the order's timeline and nothing   *)
(* else.                                                                   *)
LEMMA DidInsert ==
    ASSUME TypeOK, NEW o \in Orders, NEW from, NEW command, NEW to,
           InsertTransition(o, from, command, to),
           NEW p \in Orders, NEW c
    PROVE  Did(p, c)' <=> Did(p, c) \/ (p = o /\ c = command)
<1> DEFINE row == [from |-> from, command |-> command, to |-> to]
<1>1. timeline[o] \in Seq(TimelineEntry) /\ timeline[p] \in Seq(TimelineEntry)
  BY DEF TypeOK
<1>2. timeline'[p] = IF p = o THEN Append(timeline[o], row) ELSE timeline[p]
  BY DEF InsertTransition, TypeOK
<1>3. CASE p # o
  BY <1>2, <1>3 DEF Did
<1>4. CASE p = o
  <2>1. /\ DOMAIN timeline'[o] = 1 .. Len(timeline[o]) + 1
        /\ DOMAIN timeline[o] = 1 .. Len(timeline[o])
        /\ Len(timeline[o]) \in Nat
    BY <1>1, <1>2, <1>4
  <2>2. \A i \in 1 .. Len(timeline[o]) : timeline'[o][i] = timeline[o][i]
    BY <1>1, <1>2, <1>4
  <2>3. timeline'[o][Len(timeline[o]) + 1] = row
    BY <1>1, <1>2, <1>4
  <2>4. row.command = command
    OBVIOUS
  <2>5. \A i \in DOMAIN timeline'[o] :
           timeline'[o][i].command = c => c = command \/ \E j \in DOMAIN timeline[o] : timeline[o][j].command = c
    BY <2>1, <2>2, <2>3, <2>4
  <2>6. \A i \in DOMAIN timeline[o] : i \in DOMAIN timeline'[o] /\ timeline'[o][i] = timeline[o][i]
    BY <2>1, <2>2
  <2>7. Len(timeline[o]) + 1 \in DOMAIN timeline'[o]
    BY <2>1
  <2>8. Did(o, c) \/ c = command => Did(o, c)'
    BY <2>3, <2>4, <2>6, <2>7 DEF Did
  <2>9. Did(o, c)' => Did(o, c) \/ c = command
    BY <2>5 DEF Did
  <2> QED
    BY <2>8, <2>9, <1>4
<1> QED
  BY <1>3, <1>4

(* What apply_command did is in the timeline.                              *)
LEMMA ApplyDid ==
    ASSUME TypeOK, NEW o \in Orders, NEW command, NEW ref, NEW ctx,
           ApplyCommand(o, command, ref, ctx)
    PROVE  Did(o, command)'
<1>1. PICK to \in Status : InsertTransition(o, status[o], command, to)
  BY DEF ApplyCommand
<1>2. timeline'[o] = Append(timeline[o], [from |-> status[o], command |-> command, to |-> to])
  BY <1>1 DEF InsertTransition, TypeOK
<1>3. timeline[o] \in Seq(TimelineEntry)
  BY DEF TypeOK
<1>4. /\ Len(timeline[o]) + 1 \in DOMAIN timeline'[o]
      /\ timeline'[o][Len(timeline[o]) + 1].command = command
  BY <1>2, <1>3
<1> QED
  BY <1>4 DEF Did

(* What one insert does to each count.                                     *)
LEMMA EventsInserted ==
    ASSUME TypeOK, NEW o \in Orders, NEW emitted, InsertEvents(o, emitted),
           NEW p \in Orders, NEW e \in Event
    PROVE  events'[p][e] = IF p = o /\ e \in emitted THEN events[p][e] + 1 ELSE events[p][e]
<1>1. events[o] \in [Event -> Nat] /\ events'[o] = Inserted(events[o], emitted)
  BY DEF InsertEvents, TypeOK
<1>2. p # o => events'[p] = events[p]
  BY DEF InsertEvents, TypeOK
<1>3. Inserted(events[o], emitted)[e] = IF e \in emitted THEN events[o][e] + 1 ELSE events[o][e]
  BY <1>1, InsertedTyped
<1> QED
  BY <1>1, <1>2, <1>3

(* The same for the ledger: a pair adds one to its two rows.               *)
LEMMA LedgerInserted ==
    ASSUME TypeOK, NEW o \in Orders, NEW kind, NEW asset, InsertLedgerPair(o, kind, asset),
           NEW p \in Orders, NEW e \in LedgerEntry
    PROVE  ledger'[p][e] =
               IF p = o /\ e \in BalancedPair(kind, asset) THEN ledger[p][e] + 1 ELSE ledger[p][e]
<1>1. /\ ledger[o] \in [LedgerEntry -> Nat]
      /\ ledger'[o] = Inserted(ledger[o], BalancedPair(kind, asset))
  BY DEF InsertLedgerPair, TypeOK
<1>2. p # o => ledger'[p] = ledger[p]
  BY DEF InsertLedgerPair, TypeOK
<1>3. Inserted(ledger[o], BalancedPair(kind, asset))[e] =
         IF e \in BalancedPair(kind, asset) THEN ledger[o][e] + 1 ELSE ledger[o][e]
  BY <1>1, InsertedTyped
<1> QED
  BY <1>1, <1>2, <1>3

-----------------------------------------------------------------------------
(* Type correctness.                                                       *)

(* The empty database is well typed.                                       *)
LEMMA InitTypeOK == Init => TypeOK
<1> SUFFICES ASSUME Init PROVE TypeOK
  OBVIOUS
<1>1. <<>> \in Seq(TimelineEntry) /\ <<>> \in Seq({"Open", "Resolved"})
  OBVIOUS
<1>2. [e \in LedgerEntry |-> 0] \in [LedgerEntry -> Nat]
  OBVIOUS
<1>3. [e \in Event |-> 0] \in [Event -> Nat]
  OBVIOUS
<1> QED
  BY <1>1, <1>2, <1>3 DEF Init, TypeOK

(* Appending a well-typed row keeps every timeline well typed.             *)
LEMMA InsertTransitionTyped ==
    ASSUME TypeOK, NEW o \in Orders, NEW from \in Status \union {Absent},
           NEW command \in Command \union {"CreateSweepOrder"}, NEW to \in Status,
           InsertTransition(o, from, command, to)
    PROVE  timeline' \in [Orders -> Seq(TimelineEntry)]
<1> DEFINE row == [from |-> from, command |-> command, to |-> to]
<1>1. row \in TimelineEntry
  BY DEF TimelineEntry
<1>2. Append(timeline[o], row) \in Seq(TimelineEntry)
  BY <1>1 DEF TypeOK
<1> QED
  BY <1>2 DEF InsertTransition, TypeOK

(* Inserting events keeps the audit trail well typed.                      *)
LEMMA InsertEventsTyped ==
    ASSUME TypeOK, NEW o \in Orders, NEW emitted, InsertEvents(o, emitted)
    PROVE  events' \in [Orders -> [Event -> Nat]]
<1>1. Inserted(events[o], emitted) \in [Event -> Nat]
  BY InsertedTyped DEF TypeOK
<1> QED
  BY <1>1 DEF InsertEvents, TypeOK

(* Inserting a pair keeps the ledger well typed.                           *)
LEMMA InsertLedgerTyped ==
    ASSUME TypeOK, NEW o \in Orders, NEW kind, NEW asset, InsertLedgerPair(o, kind, asset)
    PROVE  ledger' \in [Orders -> [LedgerEntry -> Nat]]
<1>1. Inserted(ledger[o], BalancedPair(kind, asset)) \in [LedgerEntry -> Nat]
  BY InsertedTyped DEF TypeOK
<1> QED
  BY <1>1 DEF InsertLedgerPair, TypeOK

(* No operation of the store leaves the types.                             *)
LEMMA NextTypeOK == TypeOK /\ [Next]_storeVars => TypeOK'
<1> SUFFICES ASSUME TypeOK, [Next]_storeVars PROVE TypeOK'
  OBVIOUS
<1>1. ASSUME NEW o \in Orders, NEW key \in Keys, NEW asked \in Terms,
             CreateOrder(o, key, asked)
      PROVE  TypeOK'
  <2>1. "Created" \in Status
    BY DEF Status
  <2>2. timeline' \in [Orders -> Seq(TimelineEntry)]
    BY <1>1, <2>1, InsertTransitionTyped DEF CreateOrder
  <2>3. events' \in [Orders -> [Event -> Nat]]
    BY <1>1, InsertEventsTyped DEF CreateOrder
  <2> QED
    BY <1>1, <2>1, <2>2, <2>3 DEF CreateOrder, TypeOK
<1>2. ASSUME NEW o \in Orders, NEW command \in Command, NEW ctx \in GuardContexts,
             NEW ref \in InputRefs(command), ApplyCommand(o, command, ref, ctx)
      PROVE  TypeOK'
  <2>1. PICK to \in Status :
          /\ Transition(status[o], command, to, ctx)
          /\ ApplySideEffects(o, command, ref)
          /\ status' = [status EXCEPT ![o] = to]
          /\ RecordConfirmation(o, ref)
          /\ InsertTransition(o, status[o], command, to)
          /\ InsertEvents(o, Emits(command))
          /\ UNCHANGED <<terms, keyOf>>
    BY <1>2 DEF ApplyCommand
  <2>2. timeline' \in [Orders -> Seq(TimelineEntry)]
    BY <2>1, InsertTransitionTyped DEF TypeOK
  <2>3. events' \in [Orders -> [Event -> Nat]]
    BY <2>1, InsertEventsTyped
  <2>4. ref \in Refs \union {NoRef}
    BY <2>1, NullAssumption
       DEF ApplySideEffects, BookPositionEffect, ConfirmationValid, BookingRef, InputRefs
  <2>5. confirmation' \in [Orders -> Refs \union {NoRef}]
    BY <2>1, <2>4 DEF RecordConfirmation, TypeOK
  <2>6. /\ ledger' \in [Orders -> [LedgerEntry -> Nat]]
        /\ positions' \in [Orders -> Refs \union {NoRef}]
        /\ breaks' \in [Orders -> Seq({"Open", "Resolved"})]
    <3>1. CASE command = "LockCash" /\ LockCashEffect(o)
      BY <3>1, InsertLedgerTyped DEF LockCashEffect, TypeOK
    <3>2. CASE command = "BookPosition" /\ BookPositionEffect(o, ref)
      <4>1. ledger' \in [Orders -> [LedgerEntry -> Nat]]
        BY <3>2, InsertLedgerTyped DEF BookPositionEffect
      <4> QED
        BY <3>2, <4>1 DEF BookPositionEffect, ConfirmationValid, TypeOK
    <3>3. CASE command = "OpenException" /\ OpenExceptionEffect(o)
      <4>1. Append(breaks[o], "Open") \in Seq({"Open", "Resolved"})
        BY DEF TypeOK
      <4> QED
        BY <3>3, <4>1 DEF OpenExceptionEffect, TypeOK
    <3>4. CASE UNCHANGED <<ledger, positions, breaks>>
      BY <3>4 DEF TypeOK
    <3> QED
      BY <2>1, <3>1, <3>2, <3>3, <3>4 DEF ApplySideEffects
  <2> QED
    BY <2>1, <2>2, <2>3, <2>5, <2>6 DEF TypeOK
<1>3. ASSUME NEW o \in Orders, NEW i \in DOMAIN breaks[o], ResolveBreak(o, i)
      PROVE  TypeOK'
  <2>1. [breaks[o] EXCEPT ![i] = "Resolved"] \in Seq({"Open", "Resolved"})
    BY <1>3 DEF TypeOK
  <2> QED
    BY <1>3, <2>1 DEF ResolveBreak, TypeOK
<1>4. CASE UNCHANGED storeVars
  BY <1>4 DEF storeVars, TypeOK
<1> QED
  BY <1>1, <1>2, <1>3, <1>4 DEF Next

(* Every reachable state of the order store is well typed, whatever the    *)
(* sets of orders, keys, assets, references and guard contexts.            *)
THEOREM TypeCorrect == Spec => []TypeOK
BY InitTypeOK, NextTypeOK, PTL DEF Spec

-----------------------------------------------------------------------------
(* The inductive invariant: what a run checks, and what links the timeline *)
(* to the table and to the rank of the current status.                     *)

TimelineRanked ==
    \A o \in Orders : \A i \in DOMAIN timeline[o] :
        i > 1 =>
            /\ <<timeline[o][i].from, timeline[o][i].command, timeline[o][i].to>> \in Table
            /\ Rank[timeline[o][i].to] <= Rank[status[o]]

TimelineInv == TypeOK /\ TimelineFaithful /\ TimelineRanked

(* No transition repeats a command the timeline already holds.             *)
LEMMA NotDoneYet ==
    ASSUME TimelineInv, NEW o \in Orders, NEW c, NEW to, <<status[o], c, to>> \in Table
    PROVE  ~ Did(o, c)
<1> SUFFICES ASSUME NEW i \in DOMAIN timeline[o], timeline[o][i].command = c
             PROVE  FALSE
  BY DEF Did
<1> DEFINE row == timeline[o][i]
<1>1. timeline[o] \in Seq(TimelineEntry) /\ i \in 1 .. Len(timeline[o])
  BY DEF TimelineInv, TypeOK
<1>2. c \in Command /\ status[o] \in Status
  BY TableTyped
<1>3. c # "CreateSweepOrder"
  BY <1>2 DEF Command
<1>4. i > 1
  BY <1>1, <1>3 DEF TimelineInv, TimelineFaithful
<1>5. <<row.from, c, row.to>> \in Table /\ Rank[row.to] <= Rank[status[o]]
  BY <1>4 DEF TimelineInv, TimelineRanked
<1>6. Rank[status[o]] < Rank[row.to]
  BY <1>5, CommandOnce
<1>7. row.to \in Status
  BY <1>5, TableTyped
<1> QED
  BY <1>2, <1>5, <1>6, <1>7, RankTyped

(* The timeline after one more row that the table allows.                  *)
LEMMA TimelineExtends ==
    ASSUME TimelineInv, TypeOK', NEW o \in Orders, NEW c, NEW to,
           <<status[o], c, to>> \in Table,
           status' = [status EXCEPT ![o] = to],
           InsertTransition(o, status[o], c, to)
    PROVE  TimelineFaithful' /\ TimelineRanked'
<1> USE DEF TimelineInv
<1> DEFINE row == [from |-> status[o], command |-> c, to |-> to]
           n == Len(timeline[o])
<1>1. timeline[o] \in Seq(TimelineEntry) /\ n \in Nat
  BY DEF TypeOK
<1>2. timeline'[o] = Append(timeline[o], row)
  BY DEF InsertTransition, TypeOK
<1>3. /\ Len(timeline'[o]) = n + 1
      /\ DOMAIN timeline'[o] = 1 .. n + 1
      /\ DOMAIN timeline[o] = 1 .. n
      /\ timeline'[o][n + 1] = row
      /\ \A i \in 1 .. n : timeline'[o][i] = timeline[o][i]
  BY <1>1, <1>2
<1>4. \A p \in Orders \ {o} : timeline'[p] = timeline[p] /\ status'[p] = status[p]
  BY DEF InsertTransition, TypeOK
<1>5. status'[o] = to
  BY DEF TypeOK
<1>6. /\ status[o] \in Status
      /\ c \in Command
      /\ to \in Status
      /\ Rank[status[o]] < Rank[to]
      /\ status[o] # Absent
      /\ to # Absent
      /\ c # "CreateSweepOrder"
  <2>1. status[o] \in Status /\ c \in Command /\ to \in Status
    BY TableTyped
  <2> QED
    BY <2>1, RankIncreases DEF Absent, Status, Command
<1>7. n > 0 /\ timeline[o][n].to = status[o]
  BY <1>1, <1>6 DEF TimelineFaithful
<1>8. \A i \in 1 .. n : timeline[o][i].command # c
  BY <1>1, <1>3, NotDoneYet DEF Did
<1>9. TimelineFaithful'
  <2> SUFFICES ASSUME NEW p \in Orders
      PROVE  LET m == Len(timeline'[p]) IN
             /\ m = 0 <=> status'[p] = Absent
             /\ m > 0 => timeline'[p][m].to = status'[p]
             /\ \A i \in 1 .. m :
                   /\ i = 1 <=> timeline'[p][i].command = "CreateSweepOrder"
                   /\ i > 1 => timeline'[p][i].from = timeline'[p][i-1].to
             /\ \A i, j \in 1 .. m :
                   timeline'[p][i].command = timeline'[p][j].command => i = j
    BY DEF TimelineFaithful
  <2>1. CASE p # o
    BY <2>1, <1>4 DEF TimelineFaithful
  <2>2. CASE p = o
    <3>1. /\ timeline'[o][n + 1].from = status[o]
          /\ timeline'[o][n + 1].command = c
          /\ timeline'[o][n + 1].to = to
      BY <1>3
    <3>2. n + 1 # 0 /\ status'[o] # Absent
      BY <1>1, <1>5, <1>6
    <3>3. timeline'[o][n + 1].to = status'[o]
      BY <1>5, <3>1
    <3>4. \A i \in 1 .. n :
             /\ i = 1 <=> timeline[o][i].command = "CreateSweepOrder"
             /\ i > 1 => timeline[o][i].from = timeline[o][i-1].to
      BY DEF TimelineFaithful
    <3>5. \A i, j \in 1 .. n :
             timeline[o][i].command = timeline[o][j].command => i = j
      BY DEF TimelineFaithful
    <3>6. \A i \in 1 .. n + 1 :
             /\ i = 1 <=> timeline'[o][i].command = "CreateSweepOrder"
             /\ i > 1 => timeline'[o][i].from = timeline'[o][i-1].to
      <4> TAKE i \in 1 .. n + 1
      <4>1. CASE i \in 1 .. n
        <5>1. timeline'[o][i] = timeline[o][i]
          BY <4>1, <1>3
        <5>2. ASSUME i > 1 PROVE timeline'[o][i-1] = timeline[o][i-1]
          <6>1. i - 1 \in 1 .. n
            BY <4>1, <5>2, <1>1
          <6> QED
            BY <6>1, <1>3
        <5> QED
          BY <4>1, <5>1, <5>2, <3>4
      <4>2. CASE i = n + 1
        <5>0. i # 1
          BY <4>2, <1>1, <1>7
        <5>1. timeline'[o][i].command # "CreateSweepOrder"
          BY <4>2, <1>6, <3>1
        <5>2. i - 1 = n /\ n \in 1 .. n
          BY <4>2, <1>1, <1>7
        <5>3. timeline'[o][i].from = timeline'[o][i-1].to
          BY <4>2, <5>2, <1>3, <1>7, <3>1
        <5> QED
          BY <5>0, <5>1, <5>3
      <4> QED
        BY <4>1, <4>2, <1>1
    <3>7. \A i, j \in 1 .. n + 1 :
             timeline'[o][i].command = timeline'[o][j].command => i = j
      <4> TAKE i, j \in 1 .. n + 1
      <4>1. CASE i \in 1 .. n /\ j \in 1 .. n
        BY <4>1, <1>3, <3>5
      <4>2. CASE i = n + 1 /\ j = n + 1
        BY <4>2
      <4>3. CASE i \in 1 .. n /\ j = n + 1
        <5>1. timeline'[o][i].command # c
          BY <4>3, <1>3, <1>8
        <5> QED
          BY <4>3, <5>1, <3>1
      <4>4. CASE i = n + 1 /\ j \in 1 .. n
        <5>1. timeline'[o][j].command # c
          BY <4>4, <1>3, <1>8
        <5> QED
          BY <4>4, <5>1, <3>1
      <4> QED
        BY <4>1, <4>2, <4>3, <4>4, <1>1
    <3> QED
      BY <2>2, <1>1, <1>3, <3>2, <3>3, <3>6, <3>7
  <2> QED
    BY <2>1, <2>2
<1>10. TimelineRanked'
  <2> SUFFICES ASSUME NEW p \in Orders, NEW i \in DOMAIN timeline'[p], i > 1
      PROVE  /\ <<timeline'[p][i].from, timeline'[p][i].command, timeline'[p][i].to>> \in Table
             /\ Rank[timeline'[p][i].to] <= Rank[status'[p]]
    BY DEF TimelineRanked
  <2>1. CASE p # o
    BY <2>1, <1>4 DEF TimelineRanked
  <2>2. CASE p = o /\ i = n + 1
    <3>1. timeline'[p][i] = row
      BY <2>2, <1>3
    <3> QED
      BY <2>2, <3>1, <1>5, <1>6, RankTyped
  <2>3. CASE p = o /\ i # n + 1
    <3>1. i \in 1 .. n /\ timeline'[o][i] = timeline[o][i]
      BY <2>3, <1>1, <1>3
    <3>2. /\ <<timeline[o][i].from, timeline[o][i].command, timeline[o][i].to>> \in Table
          /\ Rank[timeline[o][i].to] <= Rank[status[o]]
      BY <3>1, <1>3 DEF TimelineRanked
    <3>3. timeline[o][i].to \in Status
      BY <3>2, TableTyped
    <3>4. Rank[timeline[o][i].to] <= Rank[to]
      BY <3>2, <3>3, <1>6, RankTyped
    <3> QED
      BY <2>3, <3>1, <3>2, <3>4, <1>5
  <2> QED
    BY <2>1, <2>2, <2>3
<1> QED
  BY <1>9, <1>10

-----------------------------------------------------------------------------
(* The rest of the inductive invariant.  PathTaken says what a status      *)
(* proves about the past; Quiet says that an order which has not locked    *)
(* cash (CancelledMovedNothing is its instance for Cancelled, which alone  *)
(* is not inductive) has touched none of the other tables.                 *)

PathTaken ==
    \A o \in Orders :
        /\ status[o] \in Locked => Did(o, "LockCash")
        /\ status[o] \in Confirmed => Did(o, "ConfirmTransferAgent")

Quiet ==
    \A o \in Orders :
        status[o] \in Untouched \union {Absent} =>
            /\ \A e \in LedgerEntry : ledger[o][e] = 0
            /\ positions[o] = NoRef
            /\ confirmation[o] = NoRef
            /\ breaks[o] = <<>>

IInv ==
    /\ TimelineInv
    /\ PathTaken
    /\ Quiet
    /\ LedgerExact
    /\ EventsExact
    /\ PositionBacked
    /\ BreakTracksException

(* A booked order is past every status in which a confirmation is taken.   *)
LEMMA BookedLate ==
    ASSUME TimelineInv, NEW o \in Orders, Did(o, "BookPosition")
    PROVE  status[o] # "SubscriptionSubmitted"
<1>1. PICK i \in DOMAIN timeline[o] : timeline[o][i].command = "BookPosition"
  BY DEF Did
<1>2. timeline[o] \in Seq(TimelineEntry) /\ i \in 1 .. Len(timeline[o])
  BY DEF TimelineInv, TypeOK
<1>3. i > 1
  BY <1>1, <1>2 DEF TimelineInv, TimelineFaithful
<1>4. /\ <<timeline[o][i].from, "BookPosition", timeline[o][i].to>> \in Table
      /\ Rank[timeline[o][i].to] <= Rank[status[o]]
  BY <1>1, <1>3 DEF TimelineInv, TimelineRanked
<1>5. timeline[o][i].to = "PositionBooked"
  BY <1>4, TableRegions
<1> QED
  BY <1>4, <1>5 DEF Rank

(* Nothing has happened to an order that was not created.                  *)
LEMMA AbsentDidNothing ==
    ASSUME TimelineInv, NEW o \in Orders, status[o] = Absent, NEW c
    PROVE  ~ Did(o, c)
<1>1. timeline[o] \in Seq(TimelineEntry) /\ Len(timeline[o]) = 0
  BY DEF TimelineInv, TypeOK, TimelineFaithful
<1>2. DOMAIN timeline[o] = {}
  BY <1>1
<1> QED
  BY <1>2 DEF Did

(* The empty database satisfies the inductive invariant.                   *)
LEMMA InitIInv == Init => IInv
<1> SUFFICES ASSUME Init PROVE IInv
  OBVIOUS
<1>1. TypeOK
  BY InitTypeOK
<1>2. \A o \in Orders : timeline[o] = <<>> /\ Len(timeline[o]) = 0 /\ DOMAIN timeline[o] = {}
  BY DEF Init
<1>3. \A o \in Orders : \A c : ~ Did(o, c)
  BY <1>2 DEF Did
<1>4. \A o \in Orders : status[o] = Absent
  BY DEF Init
<1>5. \A s \in Status : s # Absent
  BY DEF Status, Absent
<1>6. TimelineFaithful /\ TimelineRanked
  BY <1>2, <1>4 DEF TimelineFaithful, TimelineRanked
<1>7. PathTaken
  BY <1>4, <1>5 DEF PathTaken, Locked, Confirmed
<1>8. Quiet /\ BreakTracksException
  BY <1>4 DEF Init, Quiet, BreakTracksException, Absent
<1>9. LedgerExact
  <2>1. \A o \in Orders : LedgerOwed(o) = {}
    BY <1>3 DEF LedgerOwed
  <2> QED
    BY <2>1 DEF LedgerExact, Init
<1>10. EventsExact
  <2>1. \A o \in Orders : EventsOwed(o) = {}
    BY <1>3, <1>4 DEF EventsOwed
  <2> QED
    BY <2>1 DEF EventsExact, Init
<1>11. PositionBacked
  BY <1>3 DEF PositionBacked, Init
<1> QED
  BY <1>1, <1>6, <1>7, <1>8, <1>9, <1>10, <1>11 DEF IInv, TimelineInv

(* create_sweep_order preserves the inductive invariant.                   *)
LEMMA CreatePreserves ==
    ASSUME IInv, TypeOK', NEW o \in Orders, NEW key \in Keys, NEW asked \in Terms,
           CreateOrder(o, key, asked)
    PROVE  IInv'
<1> USE DEF IInv, TimelineInv
<1> DEFINE row == [from |-> Absent, command |-> "CreateSweepOrder", to |-> "Created"]
<1>1. /\ status[o] = Absent
      /\ status' = [status EXCEPT ![o] = "Created"]
      /\ status'[o] = "Created"
      /\ terms' = [terms EXCEPT ![o] = asked]
      /\ InsertTransition(o, Absent, "CreateSweepOrder", "Created")
      /\ InsertEvents(o, {"SweepOrderCreated"})
      /\ UNCHANGED <<confirmation, ledger, positions, breaks>>
  BY DEF CreateOrder, TypeOK
<1>2. \A p \in Orders \ {o} :
         /\ status'[p] = status[p]
         /\ terms'[p] = terms[p]
         /\ timeline'[p] = timeline[p]
         /\ events'[p] = events[p]
  BY <1>1 DEF InsertTransition, InsertEvents, TypeOK
<1>3. timeline[o] = <<>>
  <2>1. timeline[o] \in Seq(TimelineEntry) /\ Len(timeline[o]) = 0
    BY <1>1 DEF TypeOK, TimelineFaithful
  <2> QED
    BY <2>1
<1>4. timeline'[o] = <<row>>
  <2>1. timeline'[o] = Append(timeline[o], row)
    BY <1>1 DEF InsertTransition, TypeOK
  <2> QED
    BY <2>1, <1>3
<1>5. Len(timeline'[o]) = 1 /\ DOMAIN timeline'[o] = 1 .. 1 /\ timeline'[o][1] = row
  BY <1>4
<1>6. \A p \in Orders, c \in Command : Did(p, c)' <=> Did(p, c)
  <2> SUFFICES ASSUME NEW p \in Orders, NEW c \in Command PROVE Did(p, c)' <=> Did(p, c)
    OBVIOUS
  <2>1. c # "CreateSweepOrder"
    BY DEF Command
  <2> QED
    BY <2>1, <1>1, DidInsert
<1>7. {"LockCash", "ConfirmTransferAgent", "BookPosition"} \subseteq Command
  BY DEF Command
<1>8. \A c : ~ Did(o, c)
  BY <1>1, AbsentDidNothing
<1>9. Absent \notin Status /\ "Created" # Absent
  BY DEF Status, Absent
<1>10. TimelineFaithful'
  <2> SUFFICES ASSUME NEW p \in Orders
      PROVE  LET m == Len(timeline'[p]) IN
             /\ m = 0 <=> status'[p] = Absent
             /\ m > 0 => timeline'[p][m].to = status'[p]
             /\ \A i \in 1 .. m :
                   /\ i = 1 <=> timeline'[p][i].command = "CreateSweepOrder"
                   /\ i > 1 => timeline'[p][i].from = timeline'[p][i-1].to
             /\ \A i, j \in 1 .. m :
                   timeline'[p][i].command = timeline'[p][j].command => i = j
    BY DEF TimelineFaithful
  <2>1. CASE p # o
    BY <2>1, <1>2 DEF TimelineFaithful
  <2>2. CASE p = o
    <3>1. row.command = "CreateSweepOrder" /\ row.to = "Created"
      OBVIOUS
    <3> QED
      BY <2>2, <3>1, <1>1, <1>5, <1>9
  <2> QED
    BY <2>1, <2>2
<1>11. TimelineRanked'
  <2> SUFFICES ASSUME NEW p \in Orders, NEW i \in DOMAIN timeline'[p], i > 1
      PROVE  /\ <<timeline'[p][i].from, timeline'[p][i].command, timeline'[p][i].to>> \in Table
             /\ Rank[timeline'[p][i].to] <= Rank[status'[p]]
    BY DEF TimelineRanked
  <2>1. p # o
    BY <1>5
  <2> QED
    BY <2>1, <1>2 DEF TimelineRanked
<1>12. PathTaken'
  <2>1. "Created" \notin Locked /\ "Created" \notin Confirmed
    BY DEF Locked, Confirmed, Cancellable
  <2> QED
    BY <2>1, <1>1, <1>2, <1>6, <1>7 DEF PathTaken
<1>13. Quiet'
  BY <1>1, <1>2 DEF Quiet
<1>14. LedgerExact'
  <2>1. LedgerOwed(o) = {} /\ LedgerOwed(o)' = {}
    BY <1>6, <1>7, <1>8 DEF LedgerOwed
  <2>2. ASSUME NEW p \in Orders \ {o} PROVE LedgerOwed(p)' = LedgerOwed(p)
    <3>1. Did(p, "LockCash")' <=> Did(p, "LockCash")
      BY <1>6, <1>7
    <3>2. Did(p, "BookPosition")' <=> Did(p, "BookPosition")
      BY <1>6, <1>7
    <3> QED
      BY <3>1, <3>2, <1>2 DEF LedgerOwed, BalancedPair
  <2> QED
    BY <2>1, <2>2, <1>1 DEF LedgerExact
<1>15. EventsExact'
  <2>1. EventsOwed(o) = {}
    BY <1>1, <1>8 DEF EventsOwed
  <2>2. EventsOwed(o)' = {"SweepOrderCreated"}
    <3>1. \A c \in Command : ~ Did(o, c)'
      BY <1>6, <1>8
    <3>2. "SweepOrderCreated" \in Event
      BY DEF Event
    <3> QED
      BY <3>1, <3>2, <1>1, <1>9 DEF EventsOwed
  <2>3. \A p \in Orders \ {o} : EventsOwed(p)' = EventsOwed(p)
    BY <1>2, <1>6 DEF EventsOwed
  <2>4. \A e \in Event : events'[o][e] = IF e = "SweepOrderCreated" THEN 1 ELSE 0
    <3>1. \A e \in Event : events[o][e] = 0
      BY <2>1 DEF EventsExact
    <3> QED
      BY <3>1, <1>1, EventsInserted
  <2> QED
    BY <2>2, <2>3, <2>4, <1>2 DEF EventsExact
<1>16. PositionBacked'
  BY <1>1, <1>6, <1>7 DEF PositionBacked
<1>17. BreakTracksException'
  BY <1>1, <1>2 DEF BreakTracksException, Absent
<1> QED
  BY <1>10, <1>11, <1>12, <1>13, <1>14, <1>15, <1>16, <1>17

(* apply_command preserves the inductive invariant, whichever row of the   *)
(* table it takes.                                                         *)
LEMMA ApplyPreserves ==
    ASSUME IInv, TypeOK', NEW o \in Orders, NEW command \in Command,
           NEW ctx \in GuardContexts, NEW ref \in InputRefs(command),
           ApplyCommand(o, command, ref, ctx)
    PROVE  IInv'
<1>0. TypeOK /\ TimelineInv
  BY DEF IInv, TimelineInv
<1>1. PICK to \in Status :
        /\ <<status[o], command, to>> \in Table
        /\ ApplySideEffects(o, command, ref)
        /\ status' = [status EXCEPT ![o] = to]
        /\ RecordConfirmation(o, ref)
        /\ InsertTransition(o, status[o], command, to)
        /\ InsertEvents(o, Emits(command))
        /\ UNCHANGED <<terms, keyOf>>
  BY DEF ApplyCommand, Transition, Defined
<1>2. /\ status'[o] = to
      /\ \A p \in Orders \ {o} : status'[p] = status[p]
  BY <1>0, <1>1 DEF TypeOK
<1>3. status[o] \in Status /\ status[o] # Absent /\ to # Absent
  <2>1. status[o] \in Status
    BY <1>1, TableTyped
  <2> QED
    BY <2>1 DEF Status, Absent
<1>4. \A p \in Orders : \A c : Did(p, c)' <=> Did(p, c) \/ (p = o /\ c = command)
  BY <1>0, <1>1, DidInsert
<1>5. ~ Did(o, command)
  BY <1>0, <1>1, NotDoneYet
<1>6. TimelineFaithful' /\ TimelineRanked'
  BY <1>0, <1>1, TimelineExtends
<1>7. PathTaken'
  <2>1. /\ to \in Locked => status[o] \in Locked \/ command = "LockCash"
        /\ to \in Confirmed => status[o] \in Confirmed \/ command = "ConfirmTransferAgent"
    BY <1>1, TableRegions
  <2> QED
    BY <2>1, <1>2, <1>4 DEF PathTaken, IInv
<1>8. Quiet'
  <2> SUFFICES ASSUME NEW p \in Orders, status'[p] \in Untouched \union {Absent}
      PROVE  /\ \A e \in LedgerEntry : ledger'[p][e] = 0
             /\ positions'[p] = NoRef
             /\ confirmation'[p] = NoRef
             /\ breaks'[p] = <<>>
    BY DEF Quiet
  <2>1. status[p] \in Untouched \union {Absent}
    BY <1>1, <1>2, <1>3, TableRegions
  <2>2. /\ \A e \in LedgerEntry : ledger[p][e] = 0
        /\ positions[p] = NoRef
        /\ confirmation[p] = NoRef
        /\ breaks[p] = <<>>
    BY <2>1 DEF Quiet, IInv
  <2>3. CASE p = o
    <3>1. command \notin {"LockCash", "ConfirmTransferAgent", "BookPosition", "OpenException"}
      BY <2>3, <1>1, <1>2, <1>3, TableRegions
    <3>2. ref = NoRef /\ UNCHANGED <<ledger, positions, breaks>>
      BY <3>1, <1>1 DEF ApplySideEffects, InputRefs
    <3> QED
      BY <3>2, <2>2, <2>3, <1>0, <1>1 DEF RecordConfirmation, TypeOK
  <2>4. CASE p # o
    <3>1. confirmation'[p] = confirmation[p]
      BY <2>4, <1>0, <1>1 DEF RecordConfirmation, TypeOK
    <3>2. ledger'[p] = ledger[p] /\ positions'[p] = positions[p] /\ breaks'[p] = breaks[p]
      BY <2>4, <1>0, <1>1
         DEF ApplySideEffects, LockCashEffect, BookPositionEffect, OpenExceptionEffect,
             InsertLedgerPair, TypeOK
    <3> QED
      BY <3>1, <3>2, <2>2
  <2> QED
    BY <2>3, <2>4
<1>9. LedgerExact'
  <2>1. \A p \in Orders : terms'[p] = terms[p]
    BY <1>1
  <2> SUFFICES ASSUME NEW p \in Orders, NEW e \in LedgerEntry
      PROVE  ledger'[p][e] = IF e \in LedgerOwed(p)' THEN 1 ELSE 0
    BY DEF LedgerExact
  <2>2. ledger[p][e] = IF e \in LedgerOwed(p) THEN 1 ELSE 0
    BY DEF LedgerExact, IInv
  <2>3. CASE command = "LockCash" /\ LockCashEffect(o)
    <3>1. ledger'[p][e] = IF p = o /\ e \in BalancedPair("CashLock", terms[o].cash)
                          THEN ledger[p][e] + 1 ELSE ledger[p][e]
      BY <2>3, <1>0, LedgerInserted DEF LockCashEffect
    <3>2. e \in LedgerOwed(p)' <=>
              e \in LedgerOwed(p) \/ (p = o /\ e \in BalancedPair("CashLock", terms[o].cash))
      BY <2>1, <2>3, <1>4 DEF LedgerOwed, BalancedPair
    <3>3. e \in BalancedPair("CashLock", terms[o].cash) => e \notin LedgerOwed(o)
      BY <2>3, <1>5 DEF LedgerOwed, BalancedPair
    <3> QED
      BY <3>1, <3>2, <3>3, <2>2
  <2>4. CASE command = "BookPosition" /\ BookPositionEffect(o, ref)
    <3>1. ledger'[p][e] = IF p = o /\ e \in BalancedPair("PositionBooking", terms[o].product)
                          THEN ledger[p][e] + 1 ELSE ledger[p][e]
      BY <2>4, <1>0, LedgerInserted DEF BookPositionEffect
    <3>2. e \in LedgerOwed(p)' <=>
              e \in LedgerOwed(p) \/ (p = o /\ e \in BalancedPair("PositionBooking", terms[o].product))
      BY <2>1, <2>4, <1>4 DEF LedgerOwed, BalancedPair
    <3>3. e \in BalancedPair("PositionBooking", terms[o].product) => e \notin LedgerOwed(o)
      BY <2>4, <1>5 DEF LedgerOwed, BalancedPair
    <3> QED
      BY <3>1, <3>2, <3>3, <2>2
  <2>5. CASE command \notin {"LockCash", "BookPosition"} /\ UNCHANGED ledger
    <3>1. (Did(p, "LockCash")' <=> Did(p, "LockCash"))
          /\ (Did(p, "BookPosition")' <=> Did(p, "BookPosition"))
      BY <2>5, <1>4
    <3>2. LedgerOwed(p)' = LedgerOwed(p)
      BY <3>1, <2>1 DEF LedgerOwed, BalancedPair
    <3> QED
      BY <3>2, <2>2, <2>5
  <2> QED
    BY <2>3, <2>4, <2>5, <1>1 DEF ApplySideEffects, OpenExceptionEffect
<1>10. EventsExact'
  <2> SUFFICES ASSUME NEW p \in Orders, NEW e \in Event
      PROVE  events'[p][e] = IF e \in EventsOwed(p)' THEN 1 ELSE 0
    BY DEF EventsExact
  <2>1. events[p][e] = IF e \in EventsOwed(p) THEN 1 ELSE 0
    BY DEF EventsExact, IInv
  <2>2. events'[p][e] = IF p = o /\ e \in Emits(command) THEN events[p][e] + 1 ELSE events[p][e]
    BY <1>0, <1>1, EventsInserted
  <2>3. (status'[p] = Absent) <=> (status[p] = Absent)
    BY <1>2, <1>3
  <2>4. e \in EventsOwed(p)' <=> e \in EventsOwed(p) \/ (p = o /\ e \in Emits(command))
    BY <2>3, <1>4 DEF EventsOwed
  <2>5. e \in Emits(command) => e \notin EventsOwed(o)
    <3> SUFFICES ASSUME e \in Emits(command), e \in EventsOwed(o) PROVE FALSE
      OBVIOUS
    <3>1. e # "SweepOrderCreated"
      BY EmitsTyped
    <3>2. PICK c \in Command : Did(o, c) /\ e \in Emits(c)
      BY <3>1 DEF EventsOwed
    <3>3. c = command
      BY <3>2, EmitsDisjoint
    <3> QED
      BY <3>2, <3>3, <1>5
  <2> QED
    BY <2>1, <2>2, <2>4, <2>5
<1>11. PositionBacked'
  <2>1. /\ confirmation'[o] = IF ref = NoRef THEN confirmation[o] ELSE ref
        /\ \A p \in Orders \ {o} : confirmation'[p] = confirmation[p]
    BY <1>0, <1>1 DEF RecordConfirmation, TypeOK
  <2>2. \A p \in Orders \ {o} : positions'[p] = positions[p]
    BY <1>0, <1>1
       DEF ApplySideEffects, LockCashEffect, BookPositionEffect, OpenExceptionEffect, TypeOK
  <2>3. ASSUME NEW p \in Orders
        PROVE  /\ positions'[p] # NoRef <=> Did(p, "BookPosition")'
               /\ positions'[p] # NoRef =>
                     /\ positions'[p] = confirmation'[p]
                     /\ Did(p, "LockCash")'
                     /\ Did(p, "ConfirmTransferAgent")'
    <3>1. /\ positions[p] # NoRef <=> Did(p, "BookPosition")
          /\ positions[p] # NoRef =>
                /\ positions[p] = confirmation[p]
                /\ Did(p, "LockCash")
                /\ Did(p, "ConfirmTransferAgent")
      BY DEF PositionBacked, IInv
    <3>2. CASE p # o
      BY <3>1, <3>2, <2>1, <2>2, <1>4
    <3>3. CASE p = o /\ command = "BookPosition"
      <4>1. positions[o] = NoRef
        BY <3>1, <3>3, <1>5
      <4>2. /\ ConfirmationValid(BookingRef(o, ref))
            /\ positions'[o] = BookingRef(o, ref)
        BY <4>1, <3>3, <1>0, <1>1 DEF ApplySideEffects, BookPositionEffect, TypeOK
      <4>3. BookingRef(o, ref) # NoRef /\ BookingRef(o, ref) = confirmation'[o]
        BY <4>2, <2>1, NullAssumption DEF ConfirmationValid, BookingRef
      <4>4. status[o] \in Confirmed /\ status[o] \in Locked
        BY <3>3, <1>1, TableRegions DEF Confirmed
      <4>5. Did(o, "LockCash") /\ Did(o, "ConfirmTransferAgent")
        BY <4>4 DEF PathTaken, IInv
      <4> QED
        BY <4>2, <4>3, <4>5, <3>3, <1>4
    <3>4. CASE p = o /\ command # "BookPosition"
      <4>1. positions'[o] = positions[o]
        BY <3>4, <1>1 DEF ApplySideEffects, LockCashEffect, OpenExceptionEffect
      <4>2. positions[o] # NoRef => ref = NoRef
        <5> SUFFICES ASSUME positions[o] # NoRef, ref # NoRef PROVE FALSE
          OBVIOUS
        <5>1. command = "ConfirmTransferAgent"
          BY <3>4 DEF InputRefs
        <5>2. status[o] = "SubscriptionSubmitted"
          BY <5>1, <1>1, TableRegions
        <5> QED
          BY <5>2, <3>1, <3>4, <1>0, BookedLate
      <4> QED
        BY <4>1, <4>2, <3>1, <3>4, <2>1, <1>4
    <3> QED
      BY <3>2, <3>3, <3>4
  <2>4. ASSUME NEW p \in Orders, NEW q \in Orders, p # q, confirmation'[p] # NoRef
        PROVE  confirmation'[p] # confirmation'[q]
    <3>1. confirmation[p] # NoRef => confirmation[p] # confirmation[q]
      BY <2>4 DEF PositionBacked, IInv
    <3>2. confirmation[q] # NoRef => confirmation[q] # confirmation[p]
      BY <2>4 DEF PositionBacked, IInv
    <3>3. ref # NoRef => \A r \in Orders \ {o} : confirmation[r] # ref
      BY <1>1 DEF RecordConfirmation
    <3> QED
      BY <3>1, <3>2, <3>3, <2>1, <2>4
  <2> QED
    BY <2>3, <2>4 DEF PositionBacked
<1>12. BreakTracksException'
  <2>1. /\ to \in Excepted <=> status[o] \in Excepted \/ command = "OpenException"
        /\ command = "OpenException" => status[o] \notin Excepted
    BY <1>1, TableRegions
  <2> SUFFICES ASSUME NEW p \in Orders
      PROVE  Len(breaks'[p]) = IF status'[p] \in Excepted THEN 1 ELSE 0
    BY DEF BreakTracksException, Excepted
  <2>2. Len(breaks[p]) = IF status[p] \in Excepted THEN 1 ELSE 0
    BY DEF BreakTracksException, Excepted, IInv
  <2>3. CASE command = "OpenException" /\ OpenExceptionEffect(o)
    <3>1. /\ breaks'[o] = Append(breaks[o], "Open")
          /\ \A q \in Orders \ {o} : breaks'[q] = breaks[q]
      BY <2>3, <1>0 DEF OpenExceptionEffect, TypeOK
    <3>2. breaks[o] \in Seq({"Open", "Resolved"})
      BY <1>0 DEF TypeOK
    <3>3. Len(breaks'[o]) = Len(breaks[o]) + 1
      BY <3>1, <3>2
    <3> QED
      BY <3>1, <3>3, <2>1, <2>2, <2>3, <1>2
  <2>4. CASE command # "OpenException" /\ UNCHANGED breaks
    BY <2>1, <2>2, <2>4, <1>2
  <2> QED
    BY <2>3, <2>4, <1>1 DEF ApplySideEffects, LockCashEffect, BookPositionEffect
<1> QED
  BY <1>6, <1>7, <1>8, <1>9, <1>10, <1>11, <1>12 DEF IInv, TimelineInv

(* resolve_reconciliation_break preserves the inductive invariant.         *)
LEMMA ResolvePreserves ==
    ASSUME IInv, TypeOK', NEW o \in Orders, NEW i \in DOMAIN breaks[o], ResolveBreak(o, i)
    PROVE  IInv'
<1> USE DEF IInv, TimelineInv
<1>1. UNCHANGED <<status, terms, confirmation, timeline, ledger, positions, events>>
  BY DEF ResolveBreak
<1>2. \A p \in Orders : Len(breaks'[p]) = Len(breaks[p])
  <2>1. \A p \in Orders \ {o} : breaks'[p] = breaks[p]
    BY DEF ResolveBreak, TypeOK
  <2>2. breaks'[o] = [breaks[o] EXCEPT ![i] = "Resolved"]
    BY DEF ResolveBreak, TypeOK
  <2>3. breaks[o] \in Seq({"Open", "Resolved"})
    BY DEF TypeOK
  <2>4. Len(breaks'[o]) = Len(breaks[o])
    BY <2>2, <2>3
  <2> QED
    BY <2>1, <2>4
<1>3. \A p \in Orders : breaks[p] = <<>> => breaks'[p] = <<>>
  <2> SUFFICES ASSUME NEW p \in Orders, breaks[p] = <<>> PROVE breaks'[p] = <<>>
    OBVIOUS
  <2>1. breaks'[p] \in Seq({"Open", "Resolved"}) /\ Len(breaks'[p]) = 0
    BY <1>2 DEF TypeOK
  <2> QED
    BY <2>1
<1>4. \A p \in Orders : \A c : Did(p, c)' <=> Did(p, c)
  BY <1>1 DEF Did
<1>5. TimelineFaithful' /\ TimelineRanked'
  BY <1>1 DEF TimelineFaithful, TimelineRanked
<1>6. PathTaken'
  BY <1>1, <1>4 DEF PathTaken
<1>7. Quiet'
  BY <1>1, <1>3 DEF Quiet
<1>8. LedgerExact'
  <2>1. \A p \in Orders : LedgerOwed(p)' = LedgerOwed(p)
    BY <1>1, <1>4 DEF LedgerOwed, BalancedPair
  <2> QED
    BY <2>1, <1>1 DEF LedgerExact
<1>9. EventsExact'
  <2>1. \A p \in Orders : EventsOwed(p)' = EventsOwed(p)
    BY <1>1, <1>4 DEF EventsOwed
  <2> QED
    BY <2>1, <1>1 DEF EventsExact
<1>10. PositionBacked'
  BY <1>1, <1>4 DEF PositionBacked
<1>11. BreakTracksException'
  BY <1>1, <1>2 DEF BreakTracksException
<1> QED
  BY <1>5, <1>6, <1>7, <1>8, <1>9, <1>10, <1>11

(* A step of another part of the system preserves the inductive            *)
(* invariant.                                                              *)
LEMMA StutterPreserves == IInv /\ UNCHANGED storeVars => IInv'
BY DEF storeVars, IInv, TimelineInv, TypeOK, TimelineFaithful, TimelineRanked, PathTaken,
       Quiet, LedgerExact, LedgerOwed, BalancedPair, EventsExact, EventsOwed, PositionBacked,
       BreakTracksException, Did

(* The inductive invariant is inductive.                                   *)
LEMMA NextIInv == IInv /\ [Next]_storeVars => IInv'
<1> SUFFICES ASSUME IInv, [Next]_storeVars PROVE IInv'
  OBVIOUS
<1>1. TypeOK'
  BY NextTypeOK DEF IInv, TimelineInv
<1>2. ASSUME NEW o \in Orders, NEW key \in Keys, NEW asked \in Terms,
             CreateOrder(o, key, asked)
      PROVE  IInv'
  BY <1>1, <1>2, CreatePreserves
<1>3. ASSUME NEW o \in Orders, NEW command \in Command, NEW ctx \in GuardContexts,
             NEW ref \in InputRefs(command), ApplyCommand(o, command, ref, ctx)
      PROVE  IInv'
  BY <1>1, <1>3, ApplyPreserves
<1>4. ASSUME NEW o \in Orders, NEW i \in DOMAIN breaks[o], ResolveBreak(o, i)
      PROVE  IInv'
  BY <1>1, <1>4, ResolvePreserves
<1>5. CASE UNCHANGED storeVars
  BY <1>5, StutterPreserves
<1> QED
  BY <1>2, <1>3, <1>4, <1>5 DEF Next

(* The inductive invariant holds in every reachable state of the order     *)
(* store.                                                                  *)
THEOREM Invariance == Spec => []IInv
BY InitIInv, NextIInv, PTL DEF Spec

-----------------------------------------------------------------------------
(* The safety properties, each a consequence of the inductive invariant.   *)

(* The stored timeline of every order is a run of the state machine ending *)
(* in its current status, with no command applied twice.                   *)
THEOREM TimelineIsARun == Spec => []TimelineFaithful
<1>1. IInv => TimelineFaithful
  BY DEF IInv, TimelineInv
<1> QED
  BY <1>1, Invariance, PTL

(* Every ledger row is owed by a command that was applied, posted once and *)
(* balanced by its opposite side.                                          *)
THEOREM LedgerBalances == Spec => []LedgerExact
<1>1. IInv => LedgerExact
  BY DEF IInv
<1> QED
  BY <1>1, Invariance, PTL

(* The audit trail holds exactly one row per business fact.                *)
THEOREM OneEventPerFact == Spec => []EventsExact
<1>1. IInv => EventsExact
  BY DEF IInv
<1> QED
  BY <1>1, Invariance, PTL

(* No position without locked cash and a transfer-agent confirmation of    *)
(* its own.                                                                *)
THEOREM PositionsAreBacked == Spec => []PositionBacked
<1>1. IInv => PositionBacked
  BY DEF IInv
<1> QED
  BY <1>1, Invariance, PTL

(* Cancellation happens only to orders for which nothing was moved.        *)
THEOREM CancelIsClean == Spec => []CancelledMovedNothing
<1>1. IInv => CancelledMovedNothing
  BY DEF IInv, Quiet, Untouched, CancelledMovedNothing
<1> QED
  BY <1>1, Invariance, PTL

(* Exceptions and breaks correspond one to one.                            *)
THEOREM BreaksTrackExceptions == Spec => []BreakTracksException
<1>1. IInv => BreakTracksException
  BY DEF IInv
<1> QED
  BY <1>1, Invariance, PTL

-----------------------------------------------------------------------------
(* The action property.                                                    *)

(* create_sweep_order takes no order back.                                 *)
LEMMA CreateStep ==
    ASSUME IInv, NEW o \in Orders, NEW key \in Keys, NEW asked \in Terms,
           CreateOrder(o, key, asked), NEW p \in Orders
    PROVE  OrderStep(p)
<1> USE DEF IInv, TimelineInv
<1>1. CASE p # o
  BY <1>1 DEF CreateOrder, InsertTransition, InsertEvents, OrderStep, TypeOK
<1>2. CASE p = o
  <2>1. /\ status[o] = Absent
        /\ status'[o] = "Created"
        /\ UNCHANGED <<ledger, positions>>
        /\ InsertEvents(o, {"SweepOrderCreated"})
    BY DEF CreateOrder, TypeOK
  <2>2. timeline[o] \in Seq(TimelineEntry) /\ Len(timeline[o]) = 0 /\ DOMAIN timeline[o] = {}
    <3>1. timeline[o] \in Seq(TimelineEntry) /\ Len(timeline[o]) = 0
      BY <2>1 DEF TypeOK, TimelineFaithful
    <3> QED
      BY <3>1
  <2>3. timeline'[o] = Append(timeline[o], [from |-> Absent, command |-> "CreateSweepOrder",
                                            to |-> "Created"])
    BY DEF CreateOrder, InsertTransition, TypeOK
  <2>4. Len(timeline'[o]) = Len(timeline[o]) + 1
    BY <2>2, <2>3
  <2>5. \A e \in Event : events'[o][e] >= events[o][e]
    <3> SUFFICES ASSUME NEW e \in Event PROVE events'[o][e] >= events[o][e]
      OBVIOUS
    <3>1. events[o][e] \in Nat
      BY DEF TypeOK
    <3> QED
      BY <3>1, <2>1, EventsInserted
  <2>6. \A e \in LedgerEntry : ledger'[o][e] >= ledger[o][e]
    BY <2>1 DEF TypeOK
  <2>7. status'[o] # Absent
    BY <2>1 DEF Absent
  <2> QED
    BY <1>2, <2>1, <2>2, <2>4, <2>5, <2>6, <2>7 DEF OrderStep
<1> QED
  BY <1>1, <1>2

(* apply_command takes its order strictly forward, extends its records,    *)
(* and leaves the other orders alone.                                      *)
LEMMA ApplyStep ==
    ASSUME IInv, NEW o \in Orders, NEW command \in Command,
           NEW ctx \in GuardContexts, NEW ref \in InputRefs(command),
           ApplyCommand(o, command, ref, ctx), NEW p \in Orders
    PROVE  OrderStep(p)
<1>0. TypeOK /\ TimelineInv
  BY DEF IInv, TimelineInv
<1>1. PICK to \in Status :
        /\ <<status[o], command, to>> \in Table
        /\ ApplySideEffects(o, command, ref)
        /\ status' = [status EXCEPT ![o] = to]
        /\ InsertTransition(o, status[o], command, to)
        /\ InsertEvents(o, Emits(command))
  BY DEF ApplyCommand, Transition, Defined
<1>2. CASE p # o
  <2>1. /\ status'[p] = status[p]
        /\ timeline'[p] = timeline[p]
        /\ events'[p] = events[p]
    BY <1>0, <1>1, <1>2 DEF InsertTransition, InsertEvents, TypeOK
  <2>2. ledger'[p] = ledger[p] /\ positions'[p] = positions[p]
    BY <1>0, <1>1, <1>2
       DEF ApplySideEffects, LockCashEffect, BookPositionEffect, OpenExceptionEffect,
           InsertLedgerPair, TypeOK
  <2> QED
    BY <2>1, <2>2 DEF OrderStep
<1>3. CASE p = o
  <2>1. status'[o] = to /\ to # Absent /\ Rank[status[o]] < Rank[to]
    BY <1>0, <1>1, RankIncreases DEF TypeOK, Absent, Status
  <2>2. timeline[o] \in Seq(TimelineEntry)
    BY <1>0 DEF TypeOK
  <2>3. timeline'[o] = Append(timeline[o], [from |-> status[o], command |-> command, to |-> to])
    BY <1>0, <1>1 DEF InsertTransition, TypeOK
  <2>4. /\ Len(timeline'[o]) = Len(timeline[o]) + 1
        /\ \A i \in DOMAIN timeline[o] : timeline'[o][i] = timeline[o][i]
    BY <2>2, <2>3
  <2>5. \A e \in LedgerEntry : ledger'[o][e] >= ledger[o][e]
    <3> SUFFICES ASSUME NEW e \in LedgerEntry PROVE ledger'[o][e] >= ledger[o][e]
      OBVIOUS
    <3>1. ledger[o][e] \in Nat
      BY <1>0 DEF TypeOK
    <3>2. CASE LockCashEffect(o)
      BY <3>1, <3>2, <1>0, LedgerInserted DEF LockCashEffect
    <3>3. CASE BookPositionEffect(o, ref)
      BY <3>1, <3>3, <1>0, LedgerInserted DEF BookPositionEffect
    <3>4. CASE UNCHANGED ledger
      BY <3>1, <3>4
    <3> QED
      BY <3>2, <3>3, <3>4, <1>1 DEF ApplySideEffects, OpenExceptionEffect
  <2>6. positions[o] # NoRef => positions'[o] = positions[o]
    BY <1>0, <1>1
       DEF ApplySideEffects, LockCashEffect, BookPositionEffect, OpenExceptionEffect, TypeOK
  <2>7. \A e \in Event : events'[o][e] >= events[o][e]
    <3> SUFFICES ASSUME NEW e \in Event PROVE events'[o][e] >= events[o][e]
      OBVIOUS
    <3>1. events[o][e] \in Nat
      BY <1>0 DEF TypeOK
    <3> QED
      BY <3>1, <1>0, <1>1, EventsInserted
  <2> QED
    BY <1>3, <2>1, <2>4, <2>5, <2>6, <2>7 DEF OrderStep
<1> QED
  BY <1>2, <1>3

(* No step takes an order back, rewrites its history or takes back a       *)
(* ledger row, a position or an event.                                     *)
THEOREM NeverBack == Spec => Irreversible
<1>1. IInv /\ [Next]_storeVars => [OrdersStep]_storeVars
  <2> SUFFICES ASSUME IInv, Next PROVE OrdersStep
    OBVIOUS
  <2>1. ASSUME NEW o \in Orders, NEW key \in Keys, NEW asked \in Terms,
               CreateOrder(o, key, asked)
        PROVE  OrdersStep
    BY <2>1, CreateStep DEF OrdersStep
  <2>2. ASSUME NEW o \in Orders, NEW command \in Command, NEW ctx \in GuardContexts,
               NEW ref \in InputRefs(command), ApplyCommand(o, command, ref, ctx)
        PROVE  OrdersStep
    BY <2>2, ApplyStep DEF OrdersStep
  <2>3. ASSUME NEW o \in Orders, NEW i \in DOMAIN breaks[o], ResolveBreak(o, i)
        PROVE  OrdersStep
    BY <2>3 DEF ResolveBreak, OrderStep, OrdersStep
  <2> QED
    BY <2>1, <2>2, <2>3 DEF Next
<1> QED
  BY <1>1, Invariance, PTL DEF Spec, Irreversible
=============================================================================
