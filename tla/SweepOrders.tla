----------------------------- MODULE SweepOrders -----------------------------
(***************************************************************************)
(* The order store of crates/persistence/src/repositories.rs: sweep orders *)
(* with their timeline, ledger, positions, reconciliation breaks and       *)
(* domain events.  Each operation of the store is one database transaction *)
(* that holds the order's row lock, so each is one action; an operation    *)
(* that fails rolls back, so its failure changes nothing and has no action.*)
(*                                                                         *)
(* The idempotency tables belong to the callers' read-then-write protocol, *)
(* see OrderRequests.                                                      *)
(***************************************************************************)
EXTENDS SweepMachine

CONSTANTS
    Orders,        \* identities that create_sweep_order may allocate
    Keys,          \* (account, idempotency key hash) pairs
    Asset,         \* asset symbols
    Terms,         \* [cash, product] pairs that requests ask for
    Refs,          \* transfer-agent confirmation references that are not blank
    Blank,         \* a reference of white space only
    NoRef, NoKey, NoTerms,  \* SQL null
    GuardContexts  \* the contexts callers pass

ASSUME TermsAssumption == Terms \subseteq [cash : Asset, product : Asset]

ASSUME NullAssumption ==
    /\ NoRef \notin Refs
    /\ Blank \notin Refs
    /\ Blank # NoRef
    /\ NoKey \notin Keys
    /\ NoTerms \notin Terms

ASSUME ContextAssumption == \A ctx \in GuardContexts : ctx \subseteq ContextField

VARIABLES
    status,        \* sweep_orders.status, Absent before the insert
    terms,         \* sweep_orders.cash_asset and product_asset
    keyOf,         \* sweep_orders.(account_id, idempotency_key_hash)
    confirmation,  \* sweep_orders.transfer_agent_confirmation_ref
    timeline,      \* state_transitions of the order, in commit order
    ledger,        \* ledger_entries: how many rows of each shape
    positions,     \* positions.transfer_agent_confirmation_ref of the order
    breaks,        \* reconciliation_breaks.status of the order's breaks
    events         \* audit_events (and outbox inserts): rows per event type

storeVars == <<status, terms, keyOf, confirmation, timeline, ledger,
               positions, breaks, events>>

Absent == "Absent"

CashRail == {"USD", "FIDD"}

YieldSourceAllowed(asset) == asset # "FIDD"

(***************************************************************************)
(* Rows of the ledger.  Both rows of a pair carry the order's amount, so a *)
(* row is its kind, asset and side.                                        *)
(***************************************************************************)
Side == {"Debit", "Credit"}
LedgerKind == {"CashLock", "PositionBooking", "CashCredit"}
LedgerEntry == [kind : LedgerKind, asset : Asset, side : Side]

(* Mutant: the credit row is never inserted.                               *)
DebitOnly(kind, asset) == {[kind |-> kind, asset |-> asset, side |-> "Debit"]}

BalancedPair(kind, asset) ==
    {[kind |-> kind, asset |-> asset, side |-> s] : s \in Side}

TimelineEntry ==
    [from : Status \union {Absent},
     command : Command \union {"CreateSweepOrder"},
     to : Status]

-----------------------------------------------------------------------------
Init ==
    /\ status = [o \in Orders |-> Absent]
    /\ terms = [o \in Orders |-> NoTerms]
    /\ keyOf = [o \in Orders |-> NoKey]
    /\ confirmation = [o \in Orders |-> NoRef]
    /\ timeline = [o \in Orders |-> <<>>]
    /\ ledger = [o \in Orders |-> [e \in LedgerEntry |-> 0]]
    /\ positions = [o \in Orders |-> NoRef]
    /\ breaks = [o \in Orders |-> <<>>]
    /\ events = [o \in Orders |-> [e \in Event |-> 0]]

(* Insert one row of every shape in `rows'.                                *)
Inserted(table, rows) ==
    [row \in DOMAIN table |-> IF row \in rows THEN table[row] + 1 ELSE table[row]]

(* Mutant: from_status and to_status bound in the wrong order.             *)
InsertTransitionSwapped(o, from, command, to) ==
    timeline' = [timeline EXCEPT ![o] =
        Append(@, [from |-> to, command |-> command, to |-> from])]

InsertTransition(o, from, command, to) ==
    timeline' = [timeline EXCEPT ![o] =
        Append(@, [from |-> from, command |-> command, to |-> to])]

(* Mutant: the conflict target is the aggregate, not the event.            *)
InsertEventsOncePerOrder(o, emitted) ==
    events' = IF \E e \in Event : events[o][e] > 0 THEN events
              ELSE [events EXCEPT ![o] = Inserted(@, emitted)]

InsertEvents(o, emitted) ==
    events' = [events EXCEPT ![o] = Inserted(@, emitted)]

InsertLedgerPair(o, kind, asset) ==
    ledger' = [ledger EXCEPT ![o] = Inserted(@, BalancedPair(kind, asset))]

(***************************************************************************)
(* create_sweep_order after the idempotency lookup found nothing.  The     *)
(* unique constraint on (account_id, idempotency_key_hash) refuses a       *)
(* second row with the same key.                                           *)
(***************************************************************************)
CreateOrder(o, key, asked) ==
    /\ YieldSourceAllowed(asked.product)
    /\ asked.cash \in CashRail
    /\ status[o] = Absent
    /\ \A p \in Orders : keyOf[p] # key
    /\ status' = [status EXCEPT ![o] = "Created"]
    /\ terms' = [terms EXCEPT ![o] = asked]
    /\ keyOf' = [keyOf EXCEPT ![o] = key]
    /\ InsertTransition(o, Absent, "CreateSweepOrder", "Created")
    /\ InsertEvents(o, {"SweepOrderCreated"})
    /\ UNCHANGED <<confirmation, ledger, positions, breaks>>

(* Mutant: white space accepted as a reference.                            *)
ConfirmationPresent(ref) == ref # NoRef

ConfirmationValid(ref) == ref \in Refs

LockCashEffect(o) ==
    /\ InsertLedgerPair(o, "CashLock", terms[o].cash)
    /\ UNCHANGED <<positions, breaks>>

(* The reference a position is booked under: the caller's, else the row's. *)
BookingRef(o, ref) == IF ref = NoRef THEN confirmation[o] ELSE ref

(* Mutant: the booking is posted in the cash asset.                        *)
BookPositionEffectInCash(o, ref) ==
    /\ ConfirmationValid(BookingRef(o, ref))
    /\ \A p \in Orders \ {o} : positions[p] # BookingRef(o, ref)
    /\ positions' = [positions EXCEPT ![o] = IF @ = NoRef THEN BookingRef(o, ref) ELSE @]
    /\ InsertLedgerPair(o, "PositionBooking", terms[o].cash)
    /\ UNCHANGED breaks

BookPositionEffect(o, ref) ==
    /\ ConfirmationValid(BookingRef(o, ref))
    /\ \A p \in Orders \ {o} : positions[p] # BookingRef(o, ref)
    /\ positions' = [positions EXCEPT ![o] = IF @ = NoRef THEN BookingRef(o, ref) ELSE @]
    /\ InsertLedgerPair(o, "PositionBooking", terms[o].product)
    /\ UNCHANGED breaks

OpenExceptionEffect(o) ==
    /\ breaks' = [breaks EXCEPT ![o] = Append(@, "Open")]
    /\ UNCHANGED <<ledger, positions>>

ApplySideEffects(o, command, ref) ==
    \/ command = "LockCash" /\ LockCashEffect(o)
    \/ /\ command = "ConfirmTransferAgent"
       /\ ConfirmationValid(ref)
       /\ UNCHANGED <<ledger, positions, breaks>>
    \/ command = "BookPosition" /\ BookPositionEffect(o, ref)
    \/ command = "OpenException" /\ OpenExceptionEffect(o)
    \/ /\ command \notin {"LockCash", "ConfirmTransferAgent", "BookPosition", "OpenException"}
       /\ UNCHANGED <<ledger, positions, breaks>>

(* Mutant: no unique constraint on the reference.                          *)
RecordConfirmationShared(o, ref) ==
    confirmation' = [confirmation EXCEPT ![o] = IF ref = NoRef THEN @ ELSE ref]

(* coalesce(input, column), under unique (transfer_agent_confirmation_ref) *)
RecordConfirmation(o, ref) ==
    /\ ref # NoRef => \A p \in Orders \ {o} : confirmation[p] # ref
    /\ confirmation' = [confirmation EXCEPT ![o] = IF ref = NoRef THEN @ ELSE ref]

(***************************************************************************)
(* apply_command from the row lock to the commit.                          *)
(***************************************************************************)
ApplyCommand(o, command, ref, ctx) ==
    \E to \in Status :
        /\ Transition(status[o], command, to, ctx)
        /\ ApplySideEffects(o, command, ref)
        /\ status' = [status EXCEPT ![o] = to]
        /\ RecordConfirmation(o, ref)
        /\ InsertTransition(o, status[o], command, to)
        /\ InsertEvents(o, Emits(command))
        /\ UNCHANGED <<terms, keyOf>>

(* Mutant: resolving the break sends the order back to reconciliation.     *)
ResolveBreakRequeues(o, i) ==
    /\ i \in DOMAIN breaks[o]
    /\ breaks' = [breaks EXCEPT ![o] = [@ EXCEPT ![i] = "Resolved"]]
    /\ status' = [status EXCEPT ![o] = "PositionBooked"]
    /\ UNCHANGED <<terms, keyOf, confirmation, timeline, ledger, positions, events>>

(***************************************************************************)
(* resolve_reconciliation_break: unconditional, and only the break row.    *)
(***************************************************************************)
ResolveBreak(o, i) ==
    /\ i \in DOMAIN breaks[o]
    /\ breaks' = [breaks EXCEPT ![o] = [@ EXCEPT ![i] = "Resolved"]]
    /\ UNCHANGED <<status, terms, keyOf, confirmation, timeline, ledger,
                   positions, events>>

(***************************************************************************)
(* Callers send a reference with ConfirmTransferAgent and BookPosition     *)
(* only.                                                                   *)
(***************************************************************************)
InputRefs(command) ==
    IF command \in {"ConfirmTransferAgent", "BookPosition"}
    THEN Refs \union {NoRef, Blank}
    ELSE {NoRef}

Next ==
    \/ \E o \in Orders, key \in Keys, asked \in Terms : CreateOrder(o, key, asked)
    \/ \E o \in Orders, command \in Command, ctx \in GuardContexts :
          \E ref \in InputRefs(command) : ApplyCommand(o, command, ref, ctx)
    \/ \E o \in Orders : \E i \in DOMAIN breaks[o] : ResolveBreak(o, i)

Spec == Init /\ [][Next]_storeVars

-----------------------------------------------------------------------------
TypeOK ==
    /\ status \in [Orders -> Status \union {Absent}]
    /\ terms \in [Orders -> Terms \union {NoTerms}]
    /\ keyOf \in [Orders -> Keys \union {NoKey}]
    /\ confirmation \in [Orders -> Refs \union {NoRef}]
    /\ timeline \in [Orders -> Seq(TimelineEntry)]
    /\ ledger \in [Orders -> [LedgerEntry -> Nat]]
    /\ positions \in [Orders -> Refs \union {NoRef}]
    /\ breaks \in [Orders -> Seq({"Open", "Resolved"})]
    /\ events \in [Orders -> [Event -> Nat]]

(* The order's timeline holds a row of `command'.                          *)
Did(o, command) ==
    \E i \in DOMAIN timeline[o] : timeline[o][i].command = command

(***************************************************************************)
(* The timeline is a run of the machine that ends in the current status:   *)
(* whatever retries, races and refusals happened, no row is missing, no    *)
(* row was written by a transaction that rolled back, and no command was   *)
(* applied twice.                                                          *)
(***************************************************************************)
TimelineFaithful ==
    \A o \in Orders :
        LET n == Len(timeline[o]) IN
        /\ n = 0 <=> status[o] = Absent
        /\ n > 0 => timeline[o][n].to = status[o]
        /\ \A i \in 1 .. n :
              /\ i = 1 <=> timeline[o][i].command = "CreateSweepOrder"
              /\ i > 1 => timeline[o][i].from = timeline[o][i-1].to
        /\ \A i, j \in 1 .. n :
              timeline[o][i].command = timeline[o][j].command => i = j

(***************************************************************************)
(* The ledger holds one debit and one credit of the cash asset for an      *)
(* order whose cash was ever locked, one debit and one credit of the       *)
(* product for an order ever booked, and nothing else: balanced per order, *)
(* asset and kind, and never posted twice.                                 *)
(***************************************************************************)
LedgerOwed(o) ==
    (IF Did(o, "LockCash") THEN BalancedPair("CashLock", terms[o].cash) ELSE {})
    \union
    (IF Did(o, "BookPosition") THEN BalancedPair("PositionBooking", terms[o].product) ELSE {})

LedgerExact ==
    \A o \in Orders :
        LET owed == LedgerOwed(o) IN
        \A e \in LedgerEntry : ledger[o][e] = IF e \in owed THEN 1 ELSE 0

(***************************************************************************)
(* An order has a position iff it was booked; the position was booked      *)
(* under the reference the order still carries, after cash was locked and  *)
(* the transfer agent confirmed; and no two orders share a reference.      *)
(***************************************************************************)
PositionBacked ==
    /\ \A o \in Orders :
          /\ positions[o] # NoRef <=> Did(o, "BookPosition")
          /\ positions[o] # NoRef =>
                /\ positions[o] = confirmation[o]
                /\ Did(o, "LockCash")
                /\ Did(o, "ConfirmTransferAgent")
    /\ \A o, p \in Orders :
          o # p /\ confirmation[o] # NoRef => confirmation[o] # confirmation[p]

(***************************************************************************)
(* One event per business fact: the audit trail (and the outbox, written   *)
(* by the same transactions) holds exactly one row for each event the      *)
(* applied commands emit.                                                  *)
(***************************************************************************)
EventsOwed(o) ==
    {e \in Event :
        \/ e = "SweepOrderCreated" /\ status[o] # Absent
        \/ \E c \in Command : Did(o, c) /\ e \in Emits(c)}

EventsExact ==
    \A o \in Orders :
        LET owed == EventsOwed(o) IN
        \A e \in Event : events[o][e] = IF e \in owed THEN 1 ELSE 0

(***************************************************************************)
(* A cancelled order moved nothing: no cash was locked, nothing was booked *)
(* and no break was opened for it.                                         *)
(***************************************************************************)
CancelledMovedNothing ==
    \A o \in Orders :
        status[o] = "Cancelled" =>
            /\ \A e \in LedgerEntry : ledger[o][e] = 0
            /\ positions[o] = NoRef
            /\ confirmation[o] = NoRef
            /\ breaks[o] = <<>>

(***************************************************************************)
(* An order has a break iff it left the normal path through OpenException, *)
(* and then exactly one: exceptions are never reopened.                    *)
(***************************************************************************)
BreakTracksException ==
    \A o \in Orders :
        Len(breaks[o]) = IF status[o] \in {"ExceptionOpen", "ExceptionClosed"} THEN 1 ELSE 0

(***************************************************************************)
(* An order never goes back or starts over, and the records of what        *)
(* happened to it -- timeline, ledger, position, audit events -- only grow,*)
(* and grow only together with its status.                                 *)
(***************************************************************************)
OrderStep(o) ==
    \/ status'[o] = status[o] /\ UNCHANGED <<timeline[o], ledger[o], positions[o], events[o]>>
    \/ /\ status[o] # Absent => Rank[status[o]] < Rank[status'[o]]
       /\ status'[o] # Absent
       /\ Len(timeline'[o]) = Len(timeline[o]) + 1
       /\ \A i \in DOMAIN timeline[o] : timeline'[o][i] = timeline[o][i]
       /\ \A e \in LedgerEntry : ledger'[o][e] >= ledger[o][e]
       /\ positions[o] # NoRef => positions'[o] = positions[o]
       /\ \A e \in Event : events'[o][e] >= events[o][e]

OrdersStep == \A o \in Orders : OrderStep(o)

Irreversible == [][OrdersStep]_storeVars
=============================================================================
