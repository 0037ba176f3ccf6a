----------------------------- MODULE OrderViews -----------------------------
(***************************************************************************)
(* What the read routes show of an order while services write to it.  The  *)
(* rows of the timeline, and the audit events, carry the now() of their    *)
(* transaction, which is its start: a transaction that waits for the row   *)
(* lock is committed after, and listed before, the one it waited for.  A   *)
(* reader takes several statements, each with a snapshot of its own.       *)
(***************************************************************************)
EXTENDS SweepOrders, SequencesExt

CONSTANTS
    Writers,   \* connections on which apply_command runs
    Readers,   \* clients of the read routes
    Issued,    \* the commands the writers issue
    RefOf,     \* the reference the transfer agent gives each order
    NoCommand, NoWriter

ASSUME ViewsAssumption ==
    /\ Issued \subseteq Command
    /\ NoCommand \notin Command
    /\ NoWriter \notin Writers
    /\ RefOf \in [Orders -> Refs]
    /\ HappyPath \in GuardContexts

VARIABLES
    started,  \* per order: the pairs <<t, u>> of its transactions of which t has
              \* the earlier created_at; a transaction is Open(w) before its
              \* commit and then Row(i), i the row of `timeline' it wrote
    writing,  \* per writer: the order and command of its open transaction
    todo,     \* per reader: the statements it has still to run
    view      \* per reader: the order it looks at and what it was shown

vars == <<storeVars, started, writing, todo, view>>

Idle == [order |-> CHOOSE o \in Orders : TRUE, command |-> NoCommand]

(* Mutant: get_sweep_order lists the timeline before it reads the row.     *)
ReviewTimelineFirst == <<"events", "timeline", "row", "positions", "breaks">>

(* Mutant: positions are fetched before the order.                         *)
ReviewPositionsFirst == <<"events", "positions", "row", "timeline", "breaks">>

(* docs/operations.md: an operator compares /audit-events,                 *)
(* /sweep-orders/{id}, /positions and /reconciliation-breaks.  The second  *)
(* is get_sweep_order: the row, then list_timeline.                        *)
Review == <<"events", "row", "timeline", "positions", "breaks">>

Open(w) == [by |-> w, row |-> 0]

Row(i) == [by |-> NoWriter, row |-> i]

Transactions(o) ==
    {Row(i) : i \in DOMAIN timeline[o]}
    \union {Open(w) : w \in {x \in Writers : writing[x] # Idle /\ writing[x].order = o}}

Nothing(o) == [order |-> o, events |-> {}, row |-> Absent, timeline |-> {},
               positions |-> NoRef, breaks |-> <<>>]

VInit ==
    /\ Init
    /\ started = [o \in Orders |-> {}]
    /\ writing = [w \in Writers |-> Idle]
    /\ todo = [r \in Readers |-> <<>>]
    /\ view = [r \in Readers |-> Nothing(Idle.order)]

-----------------------------------------------------------------------------
Create(o) ==
    /\ \E key \in Keys, asked \in Terms : CreateOrder(o, key, asked)
    /\ UNCHANGED <<started, writing, todo, view>>

(***************************************************************************)
(* The callers of apply_command have seen the order, or been answered, in  *)
(* a status in which the command was allowed; not so the redemption route, *)
(* which asks first and sees later.                                        *)
(***************************************************************************)
Allowed(from, command) == \E to \in Status : Transition(from, command, to, HappyPath)

(* A command done already can only be refused, and its transaction leaves  *)
(* no trace: it is not begun here.                                         *)
Seen(o, command) ==
    /\ ~ Did(o, command)
    /\ \/ command = "RequestRedemption"
       \/ \E i \in DOMAIN timeline[o] : Allowed(timeline[o][i].to, command)

(* The transaction is later than all there are.                            *)
Start(w, o) == started' = [started EXCEPT ![o] = @ \union Transactions(o) \X {Open(w)}]

(* Mutant: a caller that does not look at the order first.                 *)
BeginUnseen(w, o, command) ==
    /\ writing[w] = Idle
    /\ status[o] # Absent
    /\ writing' = [writing EXCEPT ![w] = [order |-> o, command |-> command]]
    /\ Start(w, o)
    /\ UNCHANGED <<storeVars, todo, view>>

(* pool.begin(): now() is fixed, the row lock not yet taken.               *)
Begin(w, o, command) ==
    /\ writing[w] = Idle
    /\ status[o] # Absent
    /\ Seen(o, command)
    /\ writing' = [writing EXCEPT ![w] = [order |-> o, command |-> command]]
    /\ Start(w, o)
    /\ UNCHANGED <<storeVars, todo, view>>

InputRef(o, command) ==
    IF command \in {"ConfirmTransferAgent", "BookPosition"} THEN RefOf[o] ELSE NoRef

(* From the row lock to the commit: the row keeps the place that its       *)
(* transaction took when it began.                                         *)
Commit(w) ==
    \E o \in Orders :
        LET Former(t) == IF t = Row(Len(timeline'[o])) THEN Open(w) ELSE t IN
        /\ writing[w] # Idle
        /\ writing[w].order = o
        /\ ApplyCommand(o, writing[w].command, InputRef(o, writing[w].command), HappyPath)
        /\ writing' = [writing EXCEPT ![w] = Idle]
        /\ started' = [started EXCEPT ![o] =
              {p \in Transactions(o)' \X Transactions(o)' : <<Former(p[1]), Former(p[2])>> \in @}]
        /\ UNCHANGED <<todo, view>>

(* The command is refused, or the database fails.                          *)
Rollback(w) ==
    LET o == writing[w].order IN
    /\ writing[w] # Idle
    /\ started' = [started EXCEPT ![o] = {p \in @ : Open(w) \notin {p[1], p[2]}}]
    /\ writing' = [writing EXCEPT ![w] = Idle]
    /\ UNCHANGED <<storeVars, todo, view>>

-----------------------------------------------------------------------------
(* list_timeline: the committed rows ...                                   *)
ListTimeline(o) == {timeline[o][i] : i \in DOMAIN timeline[o]}

(* ... order by created_at asc.                                            *)
ListedBefore(o, i, j) == <<Row(i), Row(j)>> \in started[o]

ListAuditEvents(o) == {e \in Event : events[o][e] > 0}

Fetched(o, what) ==
    CASE what = "events" -> ListAuditEvents(o)
      [] what = "row" -> status[o]
      [] what = "timeline" -> ListTimeline(o)
      [] what = "positions" -> positions[o]
      [] what = "breaks" -> breaks[o]

StartReview(r, o) ==
    /\ todo[r] = <<>>
    /\ status[o] # Absent
    /\ todo' = [todo EXCEPT ![r] = Review]
    /\ view' = [view EXCEPT ![r] = Nothing(o)]
    /\ UNCHANGED <<storeVars, started, writing>>

(* One statement, in a snapshot of its own.                                *)
Fetch(r) ==
    /\ todo[r] # <<>>
    /\ view' = [view EXCEPT ![r][Head(todo[r])] = Fetched(view[r].order, Head(todo[r]))]
    /\ todo' = [todo EXCEPT ![r] = Tail(@)]
    /\ UNCHANGED <<storeVars, started, writing>>

VNext ==
    \/ \E o \in Orders : Create(o)
    \/ \E w \in Writers, o \in Orders, command \in Issued : Begin(w, o, command)
    \/ \E w \in Writers : Commit(w) \/ Rollback(w)
    \/ \E r \in Readers, o \in Orders : StartReview(r, o)
    \/ \E r \in Readers : Fetch(r)

VSpec == VInit /\ [][VNext]_vars

-----------------------------------------------------------------------------
(***************************************************************************)
(* The listed timeline begins with the creation.  It departs from the      *)
(* order of the commits only for commands that may be issued in several    *)
(* statuses -- Cancel and OpenException -- or before their status is       *)
(* reached -- RequestRedemption: these may be listed before the rows they  *)
(* waited for, the others are listed as they were committed.               *)
(***************************************************************************)
OutOfTurn == {"Cancel", "OpenException", "RequestRedemption"}

ListedInCommitOrder ==
    \A o \in Orders : \A i, j \in DOMAIN timeline[o] :
        i < j => \/ ListedBefore(o, i, j)
                 \/ /\ ListedBefore(o, j, i)
                    /\ i # 1
                    /\ timeline[o][j].command \in OutOfTurn

(***************************************************************************)
(* get_sweep_order, whose two statements a writer may come between, shows  *)
(* a timeline that is never behind the row: it holds the row's status and  *)
(* every row committed before it.  (It may be ahead of the row.)           *)
(***************************************************************************)
Statement == DOMAIN Nothing(Idle.order) \ {"order"}

Shown(r, what) == view[r].row # Absent /\ what \in Statement \ ToSet(todo[r])

TimelineNotBehind ==
    \A r \in Readers : Shown(r, "timeline") /\ Shown(r, "row") =>
        \E i \in DOMAIN timeline[view[r].order] :
            /\ timeline[view[r].order][i].to = view[r].row
            /\ \A k \in 1 .. i : timeline[view[r].order][k] \in view[r].timeline

(***************************************************************************)
(* The operator who compares the four lists in the order of                *)
(* docs/operations.md is never shown a contradiction, whatever commits     *)
(* between them: an audit event has its command in the timeline, a listed  *)
(* booking its position, a listed exception its break.                     *)
(***************************************************************************)
Listed(r) == {entry.command : entry \in view[r].timeline}

ReviewConsistent ==
    \A r \in Readers :
        /\ Shown(r, "timeline") =>
              \A e \in view[r].events \ {"SweepOrderCreated"} :
                  \E command \in Listed(r) \ {"CreateSweepOrder"} : e \in Emits(command)
        /\ Shown(r, "positions") /\ "BookPosition" \in Listed(r) =>
              view[r].positions = RefOf[view[r].order]
        /\ Shown(r, "breaks") /\ "OpenException" \in Listed(r) =>
              view[r].breaks # <<>>
=============================================================================
