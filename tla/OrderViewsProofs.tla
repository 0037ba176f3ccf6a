-------------------------- MODULE OrderViewsProofs --------------------------
(***************************************************************************)
(* Proofs about OrderViews: any number of writers and readers, any orders, *)
(* and any commands issued.                                                *)
(***************************************************************************)
EXTENDS OrderViews, SweepOrdersProofs

-----------------------------------------------------------------------------
(* Orders of transactions.                                                 *)

(* R orders the elements of S one after the other.                         *)
TotalOrder(S, R) ==
    /\ R \subseteq S \X S
    /\ \A t, u \in S : t # u => <<t, u>> \in R \/ <<u, t>> \in R
    /\ \A t \in S : <<t, t>> \notin R
    /\ \A t, u, v \in S : <<t, u>> \in R /\ <<u, v>> \in R => <<t, v>> \in R

(* Of two elements only one is before the other.                           *)
LEMMA OneIsBefore ==
    ASSUME NEW S, NEW R, TotalOrder(S, R), NEW t \in S, NEW u \in S, <<t, u>> \in R
    PROVE  <<u, t>> \notin R
BY DEF TotalOrder

(* pool.begin() puts its transaction after all there are.                  *)
LEMMA OrderExtended ==
    ASSUME NEW S, NEW R, TotalOrder(S, R), NEW x, x \notin S
    PROVE  TotalOrder(S \union {x}, R \union S \X {x})
<1> DEFINE T == S \union {x}
           Q == R \union S \X {x}
<1>1. \A t, u \in T : <<t, u>> \in Q <=> <<t, u>> \in R \/ (t \in S /\ u = x)
  OBVIOUS
<1>2. \A t, u : <<t, u>> \in R => t \in S /\ u \in S
  BY DEF TotalOrder
<1>3. Q \subseteq T \X T
  BY DEF TotalOrder
<1>4. \A t, u \in T : t # u => <<t, u>> \in Q \/ <<u, t>> \in Q
  BY <1>1 DEF TotalOrder
<1>5. \A t \in T : <<t, t>> \notin Q
  BY <1>1, <1>2 DEF TotalOrder
<1>6. \A t, u, v \in T : <<t, u>> \in Q /\ <<u, v>> \in Q => <<t, v>> \in Q
  BY <1>1, <1>2 DEF TotalOrder
<1> QED
  BY <1>3, <1>4, <1>5, <1>6 DEF TotalOrder

(* A rollback takes its transaction out of the order.                      *)
LEMMA OrderRestricted ==
    ASSUME NEW S, NEW R, TotalOrder(S, R), NEW x,
           NEW Q, Q = {p \in R : x \notin {p[1], p[2]}}
    PROVE  TotalOrder(S \ {x}, Q)
<1> DEFINE T == S \ {x}
<1>1. \A t, u \in T : <<t, u>> \in Q <=> <<t, u>> \in R
  OBVIOUS
<1>2. Q \subseteq T \X T
  BY DEF TotalOrder
<1> QED
  BY <1>1, <1>2 DEF TotalOrder

(* A commit gives its transaction another name, in the place it had.       *)
LEMMA OrderRenamed ==
    ASSUME NEW S, NEW R, TotalOrder(S, R), NEW T, NEW f \in [T -> S],
           \A t, u \in T : f[t] = f[u] => t = u
    PROVE  TotalOrder(T, {p \in T \X T : <<f[p[1]], f[p[2]]>> \in R})
<1> DEFINE Q == {p \in T \X T : <<f[p[1]], f[p[2]]>> \in R}
<1>1. \A t, u \in T : <<t, u>> \in Q <=> <<f[t], f[u]>> \in R
  OBVIOUS
<1>2. Q \subseteq T \X T
  OBVIOUS
<1> HIDE DEF Q
<1>3. \A t \in T : f[t] \in S
  OBVIOUS
<1>4. \A t, u \in T : t # u => <<t, u>> \in Q \/ <<u, t>> \in Q
  BY <1>1, <1>3 DEF TotalOrder
<1>5. \A t \in T : <<t, t>> \notin Q
  BY <1>1, <1>3 DEF TotalOrder
<1>6. \A t, u, v \in T : <<t, u>> \in Q /\ <<u, v>> \in Q => <<t, v>> \in Q
  BY <1>1, <1>3 DEF TotalOrder
<1>7. TotalOrder(T, Q)
  BY <1>2, <1>4, <1>5, <1>6 DEF TotalOrder
<1> QED
  BY <1>7 DEF Q

(* Transactions are told apart by their writer or by their row.            *)
LEMMA TransactionNames ==
    ASSUME NEW w \in Writers, NEW x \in Writers, NEW i, NEW j
    PROVE  /\ Open(w) = Open(x) <=> w = x
           /\ Row(i) = Row(j) <=> i = j
           /\ Open(w) # Row(i)
BY ViewsAssumption DEF Open, Row

-----------------------------------------------------------------------------
(* The inductive invariant: the store's, and six parts.                    *)

Opened == [order : Orders, command : Issued]

VTyped ==
    /\ DOMAIN started = Orders
    /\ writing \in [Writers -> Opened \union {Idle}]

StartsOrdered == \A o \in Orders : TotalOrder(Transactions(o), started[o])

(* The order leaves a status for ever.                                     *)
EnteredOnce ==
    \A o \in Orders : \A i \in DOMAIN timeline[o] :
        i < Len(timeline[o]) => Rank[timeline[o][i].to] < Rank[status[o]]

(* A transaction began after the creation was committed; and, when it has  *)
(* been seen that its command is allowed, in the status of row k, after k  *)
(* and every row before k: what is later than it was committed after k.    *)
Began(w) ==
    LET o == writing[w].order IN
    /\ 1 \in DOMAIN timeline[o]
    /\ <<Row(1), Open(w)>> \in started[o]
    /\ writing[w].command # "RequestRedemption" =>
          \E k \in DOMAIN timeline[o] :
              /\ Allowed(timeline[o][k].to, writing[w].command)
              /\ \A i \in DOMAIN timeline[o] : <<Open(w), Row(i)>> \in started[o] => i > k

AllBegan == \A w \in Writers : writing[w] # Idle => Began(w)

(* The references of the transfer agent are the only ones.                 *)
BookedByAgent == \A o \in Orders : positions[o] # NoRef => positions[o] = RefOf[o]

BreakOpened == \A o \in Orders : Did(o, "OpenException") => breaks[o] # <<>>

WriterInv ==
    /\ IInv
    /\ VTyped
    /\ StartsOrdered
    /\ EnteredOnce
    /\ AllBegan
    /\ BookedByAgent
    /\ BreakOpened
    /\ ListedInCommitOrder

(* A command that is not out of turn is allowed in one status only.        *)
LEMMA OneSource ==
    ASSUME NEW c, c \notin {"Cancel", "OpenException"}, NEW s1, Allowed(s1, c),
           NEW s2, NEW t2, Transition(s2, c, t2, HappyPath)
    PROVE  s1 = s2
BY DEF Allowed, Transition, Defined, Table, Cancellable, Interruptible, Guards, GuardOf,
       GuardPassed, HappyPath, ContextField

(* The types of what a writer is doing.                                    *)
LEMMA WritingTyped ==
    ASSUME VTyped, NEW w \in Writers, writing[w] # Idle
    PROVE  /\ writing[w].order \in Orders
           /\ writing[w].command \in Issued
           /\ writing[w].command \in Command
BY ViewsAssumption DEF VTyped, Opened

(* A writer with a transaction is not idle.                                *)
LEMMA OpenedIsNotIdle ==
    ASSUME NEW o, NEW c \in Issued
    PROVE  [order |-> o, command |-> c] # Idle
<1>1. c \in Command /\ c # NoCommand
  BY ViewsAssumption
<1>2. [order |-> o, command |-> c].command = c /\ Idle.command = NoCommand
  BY DEF Idle
<1> QED
  BY <1>1, <1>2

(* Ranks are numbers.                                                      *)
LEMMA RankIsNumber == \A s \in Status : Rank[s] \in Nat
BY DEF Rank, Status

(* The rows of a timeline.                                                 *)
LEMMA RowsTyped ==
    ASSUME TypeOK, NEW o \in Orders
    PROVE  /\ timeline[o] \in Seq(TimelineEntry)
           /\ Len(timeline[o]) \in Nat
           /\ DOMAIN timeline[o] = 1 .. Len(timeline[o])
BY DEF TypeOK
(* What apply_command does to the timeline of its order.                   *)
LEMMA ApplyAppends ==
    ASSUME TypeOK, NEW o \in Orders, NEW c, NEW ref, ApplyCommand(o, c, ref, HappyPath)
    PROVE  /\ \E to \in Status :
                 /\ Transition(status[o], c, to, HappyPath)
                 /\ <<status[o], c, to>> \in Table
                 /\ status' = [status EXCEPT ![o] = to]
                 /\ timeline'[o][Len(timeline[o]) + 1].to = to
           /\ Len(timeline'[o]) = Len(timeline[o]) + 1
           /\ DOMAIN timeline'[o] = 1 .. Len(timeline[o]) + 1
           /\ timeline'[o][Len(timeline[o]) + 1].command = c
           /\ \A i \in DOMAIN timeline[o] : timeline'[o][i] = timeline[o][i]
           /\ \A p \in Orders \ {o} : timeline'[p] = timeline[p]
<1>1. PICK to \in Status :
         /\ Transition(status[o], c, to, HappyPath)
         /\ status' = [status EXCEPT ![o] = to]
         /\ InsertTransition(o, status[o], c, to)
  BY DEF ApplyCommand
<1> DEFINE row == [from |-> status[o], command |-> c, to |-> to]
<1>2. timeline' = [timeline EXCEPT ![o] = Append(@, row)]
  BY <1>1 DEF InsertTransition
<1>3. timeline'[o] = Append(timeline[o], row) /\ \A p \in Orders \ {o} : timeline'[p] = timeline[p]
  BY <1>2 DEF TypeOK
<1>4. /\ Len(timeline'[o]) = Len(timeline[o]) + 1
      /\ DOMAIN timeline'[o] = 1 .. Len(timeline[o]) + 1
      /\ timeline'[o][Len(timeline[o]) + 1] = row
      /\ \A i \in DOMAIN timeline[o] : timeline'[o][i] = timeline[o][i]
  BY <1>3, RowsTyped
<1>5. <<status[o], c, to>> \in Table
  BY <1>1 DEF Transition, Defined
<1>6. row.to = to /\ row.command = c
  OBVIOUS
<1> HIDE DEF row
<1>7. timeline'[o][Len(timeline[o]) + 1].to = to /\ timeline'[o][Len(timeline[o]) + 1].command = c
  BY <1>4, <1>6
<1> QED
  BY <1>1, <1>3, <1>4, <1>5, <1>7

(* create_sweep_order writes the first row of a timeline.                  *)
LEMMA CreateAppends ==
    ASSUME TimelineInv, NEW o \in Orders, NEW key, NEW asked, CreateOrder(o, key, asked)
    PROVE  /\ status[o] = Absent
           /\ DOMAIN timeline[o] = {}
           /\ DOMAIN timeline'[o] = {1}
           /\ Len(timeline'[o]) = 1
           /\ timeline'[o][1].command = "CreateSweepOrder"
           /\ \A p \in Orders \ {o} : timeline'[p] = timeline[p] /\ status'[p] = status[p]
<1> DEFINE row == [from |-> Absent, command |-> "CreateSweepOrder", to |-> "Created"]
<1>1. status[o] = Absent /\ status' = [status EXCEPT ![o] = "Created"]
  BY DEF CreateOrder
<1>2. timeline' = [timeline EXCEPT ![o] = Append(@, row)]
  BY DEF CreateOrder, InsertTransition
<1>3. timeline[o] \in Seq(TimelineEntry) /\ Len(timeline[o]) = 0
  BY <1>1 DEF TimelineInv, TypeOK, TimelineFaithful
<1>4. timeline'[o] = Append(timeline[o], row) /\ \A p \in Orders \ {o} : timeline'[p] = timeline[p]
  BY <1>2 DEF TimelineInv, TypeOK
<1>5. /\ DOMAIN timeline[o] = {}
      /\ DOMAIN timeline'[o] = {1}
      /\ Len(timeline'[o]) = 1
      /\ timeline'[o][1] = row
  BY <1>3, <1>4
<1>6. \A p \in Orders \ {o} : status'[p] = status[p]
  BY <1>1 DEF TimelineInv, TypeOK
<1> QED
  BY <1>1, <1>4, <1>5, <1>6

(* Every step of a writer or reader is one of the store's, or none of it.  *)
LEMMA ViewsStep ==
    ASSUME VTyped, [VNext]_vars
    PROVE  [Next]_storeVars
<1>1. CASE \E o \in Orders : Create(o)
  BY <1>1 DEF Create, Next
<1>2. CASE \E w \in Writers : Commit(w)
  <2>1. PICK w \in Writers : Commit(w)
    BY <1>2
  <2>0. PICK o \in Orders : writing[w].order = o /\ ApplyCommand(o, writing[w].command, InputRef(o, writing[w].command), HappyPath)
    BY <2>1 DEF Commit
  <2> DEFINE c == writing[w].command
  <2>2. o \in Orders /\ c \in Command
    BY <2>1, WritingTyped DEF Commit
  <2>3. HappyPath \in GuardContexts /\ RefOf[o] \in Refs
    BY <2>2, ViewsAssumption
  <2>4. InputRef(o, c) \in InputRefs(c)
    BY <2>3 DEF InputRef, InputRefs
  <2> QED
    BY <2>0, <2>2, <2>3, <2>4 DEF Next
<1>3. CASE \/ \E w \in Writers, o \in Orders, command \in Issued : Begin(w, o, command)
           \/ \E w \in Writers : Rollback(w)
           \/ \E r \in Readers, o \in Orders : StartReview(r, o)
           \/ \E r \in Readers : Fetch(r)
           \/ UNCHANGED vars
  BY <1>3 DEF Begin, Rollback, StartReview, Fetch, vars
<1> QED
  BY <1>1, <1>2, <1>3 DEF VNext

(* The members of Transactions(o).                                         *)
LEMMA TransactionsAre ==
    ASSUME NEW o
    PROVE  \A t : t \in Transactions(o) <=>
               \/ \E i \in DOMAIN timeline[o] : t = Row(i)
               \/ \E w \in Writers : writing[w] # Idle /\ writing[w].order = o /\ t = Open(w)
BY DEF Transactions
(* The states of the writers' part: nothing but a reader moves.            *)
LEMMA WriterStutter ==
    ASSUME WriterInv, UNCHANGED <<storeVars, started, writing>>
    PROVE  WriterInv'
<1>1. IInv'
  BY StutterPreserves DEF WriterInv
<1>2. UNCHANGED <<status, timeline, positions, breaks, started, writing>>
  BY DEF storeVars
<1>3. VTyped' /\ EnteredOnce' /\ BookedByAgent'
  BY <1>2 DEF WriterInv, VTyped, EnteredOnce, BookedByAgent
<1>4. \A o : Transactions(o)' = Transactions(o)
  BY <1>2 DEF Transactions
<1>5. StartsOrdered'
  BY <1>2, <1>4 DEF WriterInv, StartsOrdered
<1>6. AllBegan'
  BY <1>2 DEF WriterInv, AllBegan, Began
<1>7. BreakOpened'
  BY <1>2 DEF WriterInv, BreakOpened, Did
<1>8. ListedInCommitOrder'
  BY <1>2 DEF WriterInv, ListedInCommitOrder, ListedBefore
<1> QED
  BY <1>1, <1>3, <1>5, <1>6, <1>7, <1>8 DEF WriterInv

(* Nothing is begun on an order that is not there.                         *)
LEMMA AbsentHasNoTransaction ==
    ASSUME WriterInv, NEW o \in Orders, status[o] = Absent
    PROVE  /\ \A w \in Writers : writing[w] # Idle => writing[w].order # o
           /\ Transactions(o) = {}
           /\ started[o] = {}
<1>1. Len(timeline[o]) = 0 /\ timeline[o] \in Seq(TimelineEntry)
  BY DEF WriterInv, IInv, TimelineInv, TypeOK, TimelineFaithful
<1>2. DOMAIN timeline[o] = {}
  BY <1>1
<1>3. \A w \in Writers : writing[w] # Idle => writing[w].order # o
  BY <1>2 DEF WriterInv, AllBegan, Began
<1>4. Transactions(o) = {}
  BY <1>2, <1>3 DEF Transactions
<1>5. started[o] = {}
  BY <1>4 DEF WriterInv, StartsOrdered, TotalOrder
<1> QED
  BY <1>3, <1>4, <1>5

(* create_sweep_order writes its one row at once.                          *)
LEMMA CreateKeeps ==
    ASSUME WriterInv, IInv', NEW o \in Orders, Create(o)
    PROVE  WriterInv'
<1>1. PICK key \in Keys, asked \in Terms : CreateOrder(o, key, asked)
  BY DEF Create
<1>2. UNCHANGED <<started, writing, positions, breaks>>
  BY <1>1 DEF Create, CreateOrder
<1>3. TypeOK /\ TimelineInv
  BY DEF WriterInv, IInv, TimelineInv
<1>4. /\ status[o] = Absent
      /\ DOMAIN timeline[o] = {}
      /\ DOMAIN timeline'[o] = {1}
      /\ Len(timeline'[o]) = 1
      /\ timeline'[o][1].command = "CreateSweepOrder"
      /\ \A p \in Orders \ {o} : timeline'[p] = timeline[p] /\ status'[p] = status[p]
  BY <1>1, <1>3, CreateAppends
<1>5. /\ \A w \in Writers : writing[w] # Idle => writing[w].order # o
      /\ started[o] = {}
  BY <1>4, AbsentHasNoTransaction
<1>6. VTyped' /\ BookedByAgent'
  BY <1>2 DEF WriterInv, VTyped, BookedByAgent
<1>7. StartsOrdered'
  <2> SUFFICES ASSUME NEW p \in Orders PROVE TotalOrder(Transactions(p)', started'[p])
    BY DEF StartsOrdered
  <2>1. CASE p # o
    <3>1. Transactions(p)' = Transactions(p)
      BY <2>1, <1>2, <1>4 DEF Transactions
    <3> QED
      BY <3>1, <1>2 DEF WriterInv, StartsOrdered
  <2>2. CASE p = o
    <3>1. Transactions(o)' = {Row(1)}
      BY <1>2, <1>4, <1>5 DEF Transactions
    <3>2. TotalOrder({Row(1)}, {})
      BY DEF TotalOrder
    <3> QED
      BY <2>2, <3>1, <3>2, <1>2, <1>5
  <2> QED
    BY <2>1, <2>2
<1>8. EnteredOnce'
  <2> SUFFICES ASSUME NEW p \in Orders, NEW i \in DOMAIN timeline'[p], i < Len(timeline'[p])
               PROVE  Rank[timeline'[p][i].to] < Rank[status'[p]]
    BY DEF EnteredOnce
  <2>1. p # o
    <3> SUFFICES ASSUME p = o PROVE FALSE
      OBVIOUS
    <3>1. i = 1 /\ Len(timeline'[o]) = 1 /\ i < Len(timeline'[o])
      BY <1>4
    <3> QED
      BY <3>1
  <2> QED
    BY <2>1, <1>4 DEF WriterInv, EnteredOnce
<1>9. AllBegan'
  <2> SUFFICES ASSUME NEW w \in Writers, writing'[w] # Idle PROVE Began(w)'
    BY DEF AllBegan
  <2>1. writing[w].order \in Orders /\ writing[w].order # o
    BY <1>2, <1>5, WritingTyped DEF WriterInv
  <2>2. timeline'[writing[w].order] = timeline[writing[w].order]
    BY <2>1, <1>4
  <2>3. Began(w)
    BY <1>2 DEF WriterInv, AllBegan
  <2> QED
    BY <2>2, <2>3, <1>2 DEF Began
<1>10. BreakOpened'
  <2> SUFFICES ASSUME NEW p \in Orders, Did(p, "OpenException")' PROVE breaks'[p] # <<>>
    BY DEF BreakOpened
  <2>1. p # o
    BY <1>4 DEF Did
  <2>2. Did(p, "OpenException")
    BY <2>1, <1>4 DEF Did
  <2> QED
    BY <2>2, <1>2 DEF WriterInv, BreakOpened
<1>11. ListedInCommitOrder'
  <2> SUFFICES ASSUME NEW p \in Orders, NEW i \in DOMAIN timeline'[p], NEW j \in DOMAIN timeline'[p], i < j
               PROVE  \/ ListedBefore(p, i, j)'
                      \/ /\ ListedBefore(p, j, i)'
                         /\ i # 1
                         /\ timeline'[p][j].command \in OutOfTurn
    BY DEF ListedInCommitOrder
  <2>1. p # o
    BY <1>4
  <2> QED
    BY <2>1, <1>2, <1>4 DEF WriterInv, ListedInCommitOrder, ListedBefore
<1> QED
  BY <1>6, <1>7, <1>8, <1>9, <1>10, <1>11 DEF WriterInv

(* pool.begin() comes last in the order of the starts.                     *)
LEMMA BeginKeeps ==
    ASSUME WriterInv, IInv', NEW w \in Writers, NEW o \in Orders, NEW c \in Issued, Begin(w, o, c)
    PROVE  WriterInv'
<1>1. /\ writing[w] = Idle
      /\ status[o] # Absent
      /\ Seen(o, c)
      /\ writing' = [writing EXCEPT ![w] = [order |-> o, command |-> c]]
      /\ started' = [started EXCEPT ![o] = @ \union Transactions(o) \X {Open(w)}]
      /\ UNCHANGED <<status, timeline, positions, breaks>>
  BY DEF Begin, Start, storeVars
<1>2. VTyped /\ TypeOK /\ StartsOrdered
  BY DEF WriterInv, IInv, TimelineInv
<1>3. /\ writing'[w] = [order |-> o, command |-> c]
      /\ writing'[w] # Idle
      /\ writing'[w].order = o
      /\ writing'[w].command = c
      /\ \A x \in Writers \ {w} : writing'[x] = writing[x]
  BY <1>1, <1>2, OpenedIsNotIdle DEF VTyped
<1>4. /\ started'[o] = started[o] \union Transactions(o) \X {Open(w)}
      /\ \A p \in Orders \ {o} : started'[p] = started[p]
  BY <1>1, <1>2 DEF VTyped
<1>5. VTyped'
  BY <1>1, <1>2 DEF VTyped, Opened
<1>6. Open(w) \notin Transactions(o)
  <2>1. \A i : Open(w) # Row(i)
    BY TransactionNames
  <2>2. \A x \in Writers : writing[x] # Idle => Open(w) # Open(x)
    BY <1>1, TransactionNames
  <2> QED
    BY <2>1, <2>2, TransactionsAre
<1>7. Transactions(o)' = Transactions(o) \union {Open(w)}
  BY <1>1, <1>3 DEF Transactions
<1>8. \A p \in Orders \ {o} : Transactions(p)' = Transactions(p)
  BY <1>1, <1>3 DEF Transactions
<1>9. StartsOrdered'
  <2>1. TotalOrder(Transactions(o)', started'[o])
    BY <1>2, <1>4, <1>6, <1>7, OrderExtended DEF StartsOrdered
  <2> QED
    BY <2>1, <1>2, <1>4, <1>8 DEF StartsOrdered
<1>10. \A p \in Orders : \A t, u : u # Open(w) => (<<t, u>> \in started'[p] <=> <<t, u>> \in started[p])
  BY <1>4
<1>11. EnteredOnce' /\ BookedByAgent' /\ BreakOpened'
  BY <1>1 DEF WriterInv, EnteredOnce, BookedByAgent, BreakOpened, Did
<1>12. AllBegan'
  <2> SUFFICES ASSUME NEW x \in Writers, writing'[x] # Idle PROVE Began(x)'
    BY DEF AllBegan
  <2>1. CASE x # w
    <3>1. writing'[x] = writing[x] /\ Began(x) /\ writing[x].order \in Orders
      BY <2>1, <1>2, <1>3, WritingTyped DEF WriterInv, AllBegan
    <3>2. \A i : Row(i) # Open(w)
      BY TransactionNames
    <3>3. Open(x) # Open(w)
      BY <2>1, TransactionNames
    <3> QED
      BY <3>1, <3>2, <3>3, <1>1, <1>10 DEF Began
  <2>2. CASE x = w
    <3>1. 1 \in DOMAIN timeline[o]
      <4>1. Len(timeline[o]) # 0
        BY <1>1 DEF WriterInv, IInv, TimelineInv, TimelineFaithful
      <4> QED
        BY <4>1, <1>2, RowsTyped
    <3>2. <<Row(1), Open(w)>> \in started'[o]
      BY <3>1, <1>4, TransactionsAre
    <3>3. \A i \in DOMAIN timeline[o] : <<Open(w), Row(i)>> \notin started'[o]
      <4> SUFFICES ASSUME NEW i \in DOMAIN timeline[o], <<Open(w), Row(i)>> \in started'[o]
                   PROVE  FALSE
        OBVIOUS
      <4>1. Row(i) # Open(w)
        BY TransactionNames
      <4>2. <<Open(w), Row(i)>> \in started[o]
        BY <4>1, <1>10
      <4> QED
        BY <4>2, <1>2, <1>6 DEF StartsOrdered, TotalOrder
    <3>4. c # "RequestRedemption" => \E k \in DOMAIN timeline[o] : Allowed(timeline[o][k].to, c)
      BY <1>1 DEF Seen
    <3> QED
      BY <2>2, <3>1, <3>2, <3>3, <3>4, <1>1, <1>3 DEF Began
  <2> QED
    BY <2>1, <2>2
<1>13. ListedInCommitOrder'
  <2>1. \A p \in Orders : \A i, j : ListedBefore(p, i, j)' <=> ListedBefore(p, i, j)
    BY <1>10, TransactionNames DEF ListedBefore
  <2> QED
    BY <2>1, <1>1 DEF WriterInv, ListedInCommitOrder
<1> QED
  BY <1>5, <1>9, <1>11, <1>12, <1>13 DEF WriterInv
(* A rollback takes its transaction away and leaves the others in order.   *)
LEMMA RollbackKeeps ==
    ASSUME WriterInv, IInv', NEW w \in Writers, Rollback(w), NEW o, o = writing[w].order
    PROVE  WriterInv'
<1>1. /\ writing[w] # Idle
      /\ writing' = [writing EXCEPT ![w] = Idle]
      /\ started' = [started EXCEPT ![o] = {p \in @ : Open(w) \notin {p[1], p[2]}}]
      /\ UNCHANGED <<status, timeline, positions, breaks>>
  BY DEF Rollback, storeVars
<1>2. VTyped /\ TypeOK /\ StartsOrdered /\ o \in Orders
  BY <1>1, WritingTyped DEF WriterInv, IInv, TimelineInv
<1>3. writing'[w] = Idle /\ \A x \in Writers \ {w} : writing'[x] = writing[x]
  BY <1>1, <1>2 DEF VTyped
<1>4. /\ started'[o] = {p \in started[o] : Open(w) \notin {p[1], p[2]}}
      /\ \A p \in Orders \ {o} : started'[p] = started[p]
  BY <1>1, <1>2 DEF VTyped
<1>5. VTyped'
  BY <1>1, <1>2 DEF VTyped
<1>6. Transactions(o)' = Transactions(o) \ {Open(w)}
  <2>1. \A i : Open(w) # Row(i)
    BY TransactionNames
  <2>2. \A x \in Writers \ {w} : Open(x) # Open(w)
    BY TransactionNames
  <2>3. \A t : t \in Transactions(o)' <=>
               \/ \E i \in DOMAIN timeline[o] : t = Row(i)
               \/ \E x \in Writers \ {w} : writing[x] # Idle /\ writing[x].order = o /\ t = Open(x)
    BY <1>1, <1>3 DEF Transactions
  <2> QED
    BY <2>1, <2>2, <2>3, TransactionsAre
<1>7. \A p \in Orders \ {o} : Transactions(p)' = Transactions(p)
  BY <1>1, <1>3 DEF Transactions
<1>8. StartsOrdered'
  <2>1. TotalOrder(Transactions(o), started[o])
    BY <1>2 DEF StartsOrdered
  <2>2. TotalOrder(Transactions(o) \ {Open(w)}, started'[o])
    BY <2>1, <1>4, OrderRestricted
  <2>3. TotalOrder(Transactions(o)', started'[o])
    BY <2>2, <1>6
  <2>4. ASSUME NEW p \in Orders PROVE TotalOrder(Transactions(p)', started'[p])
    <3>1. CASE p = o
      BY <3>1, <2>3
    <3>2. CASE p # o
      BY <3>2, <1>2, <1>4, <1>7 DEF StartsOrdered
    <3> QED
      BY <3>1, <3>2
  <2> QED
    BY <2>4 DEF StartsOrdered
<1>9. \A p \in Orders : \A t, u : t # Open(w) /\ u # Open(w) => (<<t, u>> \in started'[p] <=> <<t, u>> \in started[p])
  BY <1>4
<1>10. \A i : Row(i) # Open(w)
  BY TransactionNames
<1>11. EnteredOnce' /\ BookedByAgent' /\ BreakOpened'
  BY <1>1 DEF WriterInv, EnteredOnce, BookedByAgent, BreakOpened, Did
<1>12. AllBegan'
  <2> SUFFICES ASSUME NEW x \in Writers, writing'[x] # Idle PROVE Began(x)'
    BY DEF AllBegan
  <2>1. x # w
    BY <1>3
  <2>2. writing'[x] = writing[x] /\ Began(x) /\ writing[x].order \in Orders
    BY <2>1, <1>2, <1>3, WritingTyped DEF WriterInv, AllBegan
  <2>3. Open(x) # Open(w)
    BY <2>1, TransactionNames
  <2> QED
    BY <2>2, <2>3, <1>1, <1>9, <1>10 DEF Began
<1>13. ListedInCommitOrder'
  <2>1. \A p \in Orders : \A i, j : ListedBefore(p, i, j)' <=> ListedBefore(p, i, j)
    BY <1>9, <1>10 DEF ListedBefore
  <2> QED
    BY <2>1, <1>1 DEF WriterInv, ListedInCommitOrder
<1> QED
  BY <1>5, <1>8, <1>11, <1>12, <1>13 DEF WriterInv

(* A commit gives the new row the place of its transaction.                *)
LEMMA CommitReplaces ==
    ASSUME WriterInv, NEW w \in Writers, Commit(w), NEW o, o = writing[w].order
    PROVE  /\ \A p \in Orders \ {o} : started'[p] = started[p] /\ Transactions(p)' = Transactions(p)
           /\ TotalOrder(Transactions(o)', started'[o])
           /\ Row(Len(timeline[o]) + 1) \in Transactions(o)'
           /\ \A t, u \in Transactions(o)' \ {Row(Len(timeline[o]) + 1)} :
                 <<t, u>> \in started'[o] <=> <<t, u>> \in started[o]
           /\ \A t \in Transactions(o)' \ {Row(Len(timeline[o]) + 1)} :
                 /\ <<t, Row(Len(timeline[o]) + 1)>> \in started'[o] <=> <<t, Open(w)>> \in started[o]
                 /\ <<Row(Len(timeline[o]) + 1), t>> \in started'[o] <=> <<Open(w), t>> \in started[o]
<1> DEFINE c == writing[w].command
           n == Len(timeline[o])
           new == Row(n + 1)
           T == Transactions(o)
           U == Transactions(o)'
           f == [t \in U |-> IF t = new THEN Open(w) ELSE t]
<1>1. /\ writing[w] # Idle
      /\ ApplyCommand(o, c, InputRef(o, c), HappyPath)
      /\ writing' = [writing EXCEPT ![w] = Idle]
      /\ started' = [started EXCEPT ![o] =
            {p \in U \X U : <<IF p[1] = Row(Len(timeline'[o])) THEN Open(w) ELSE p[1],
                              IF p[2] = Row(Len(timeline'[o])) THEN Open(w) ELSE p[2]>> \in @}]
  BY DEF Commit
<1>2. VTyped /\ TypeOK /\ StartsOrdered /\ o \in Orders
  BY <1>1, WritingTyped DEF WriterInv, IInv, TimelineInv
<1>3. writing'[w] = Idle /\ \A x \in Writers \ {w} : writing'[x] = writing[x]
  BY <1>1, <1>2 DEF VTyped
<1>4. /\ Len(timeline'[o]) = n + 1
      /\ DOMAIN timeline'[o] = 1 .. n + 1
      /\ \A p \in Orders \ {o} : timeline'[p] = timeline[p]
  BY <1>1, <1>2, ApplyAppends
<1>5. DOMAIN timeline[o] = 1 .. n /\ n \in Nat
  BY <1>2, RowsTyped
<1>6. \A p \in Orders \ {o} : started'[p] = started[p] /\ Transactions(p)' = Transactions(p)
  <2>1. \A p \in Orders \ {o} : started'[p] = started[p]
    BY <1>1, <1>2 DEF VTyped
  <2>2. \A p \in Orders \ {o} : Transactions(p)' = Transactions(p)
    BY <1>1, <1>3, <1>4 DEF Transactions
  <2> QED
    BY <2>1, <2>2
<1>7. started'[o] = {p \in U \X U : <<IF p[1] = new THEN Open(w) ELSE p[1],
                                      IF p[2] = new THEN Open(w) ELSE p[2]>> \in started[o]}
  BY <1>1, <1>2, <1>4 DEF VTyped
<1>8. \A t : t \in U <=> \/ \E i \in 1 .. n + 1 : t = Row(i)
                         \/ \E x \in Writers \ {w} : writing[x] # Idle /\ writing[x].order = o /\ t = Open(x)
  BY <1>3, <1>4 DEF Transactions
<1>9. \A t : t \in T <=> \/ \E i \in 1 .. n : t = Row(i)
                         \/ \E x \in Writers : writing[x] # Idle /\ writing[x].order = o /\ t = Open(x)
  BY <1>5, TransactionsAre
<1>10. new \in U /\ Open(w) \in T
  BY <1>1, <1>5, <1>8, <1>9
<1>11. \A t \in U \ {new} : t \in T /\ t # Open(w)
  <2> SUFFICES ASSUME NEW t \in U, t # new PROVE t \in T /\ t # Open(w)
    OBVIOUS
  <2>1. CASE \E i \in 1 .. n + 1 : t = Row(i)
    <3>1. PICK i \in 1 .. n + 1 : t = Row(i)
      BY <2>1
    <3>2. i \in 1 .. n
      BY <3>1, <1>5
    <3> QED
      BY <3>1, <3>2, <1>9, TransactionNames
  <2>2. CASE \E x \in Writers \ {w} : writing[x] # Idle /\ writing[x].order = o /\ t = Open(x)
    BY <2>2, <1>9, TransactionNames
  <2> QED
    BY <2>1, <2>2, <1>8
<1>12. f \in [U -> T]
  BY <1>10, <1>11
<1>13. \A t, u \in U : f[t] = f[u] => t = u
  BY <1>11
<1>14. started'[o] = {p \in U \X U : <<f[p[1]], f[p[2]]>> \in started[o]}
  BY <1>7
<1>15. TotalOrder(T, started[o])
  BY <1>2 DEF StartsOrdered
<1>16. TotalOrder(U, started'[o])
  <2> HIDE DEF T, U, f
  <2> QED
    BY <1>12, <1>13, <1>14, <1>15, OrderRenamed
<1>17. \A t, u \in U : <<t, u>> \in started'[o] <=> <<f[t], f[u]>> \in started[o]
  <2> HIDE DEF U, f
  <2> QED
    BY <1>14
<1>18. f[new] = Open(w) /\ \A t \in U \ {new} : f[t] = t
  BY <1>10
<1>19. /\ \A t, u \in U \ {new} : <<t, u>> \in started'[o] <=> <<t, u>> \in started[o]
       /\ \A t \in U \ {new} :
             /\ <<t, new>> \in started'[o] <=> <<t, Open(w)>> \in started[o]
             /\ <<new, t>> \in started'[o] <=> <<Open(w), t>> \in started[o]
  <2> HIDE DEF U, f, new
  <2> QED
    BY <1>10, <1>17, <1>18
<1> QED
  BY <1>6, <1>10, <1>16, <1>19
(* A commit keeps the writers' invariant.  What was seen in a status of    *)
(* row k can be applied in no later one, unless it is out of turn; so no   *)
(* row after k was committed, and none is listed behind the new one.       *)
LEMMA CommitKeeps ==
    ASSUME WriterInv, IInv', NEW w \in Writers, Commit(w), NEW o, o = writing[w].order
    PROVE  WriterInv'
<1> DEFINE c == writing[w].command
           n == Len(timeline[o])
<1>1. /\ writing[w] # Idle
      /\ ApplyCommand(o, c, InputRef(o, c), HappyPath)
      /\ writing' = [writing EXCEPT ![w] = Idle]
      /\ DOMAIN started' = DOMAIN started
  BY DEF Commit
<1>2. VTyped /\ TypeOK /\ TimelineInv /\ o \in Orders /\ c \in Command
  BY <1>1, WritingTyped DEF WriterInv, IInv, TimelineInv
<1>3. writing'[w] = Idle /\ \A x \in Writers \ {w} : writing'[x] = writing[x]
  BY <1>1, <1>2 DEF VTyped
<1>4. PICK to \in Status :
         /\ Transition(status[o], c, to, HappyPath)
         /\ <<status[o], c, to>> \in Table
         /\ status' = [status EXCEPT ![o] = to]
         /\ timeline'[o][Len(timeline[o]) + 1].to = to
  <2> HIDE DEF c
  <2> QED
    BY <1>1, <1>2, ApplyAppends
<1>5. /\ Len(timeline'[o]) = n + 1
      /\ DOMAIN timeline'[o] = 1 .. n + 1
      /\ timeline'[o][n + 1].command = c
      /\ \A i \in DOMAIN timeline[o] : timeline'[o][i] = timeline[o][i]
      /\ \A p \in Orders \ {o} : timeline'[p] = timeline[p]
  BY <1>1, <1>2, ApplyAppends
<1>6. DOMAIN timeline[o] = 1 .. n /\ n \in Nat /\ timeline[o] \in Seq(TimelineEntry)
  BY <1>2, RowsTyped
<1>7. /\ \A p \in Orders \ {o} : started'[p] = started[p] /\ Transactions(p)' = Transactions(p)
      /\ TotalOrder(Transactions(o)', started'[o])
      /\ Row(n + 1) \in Transactions(o)'
      /\ \A t, u \in Transactions(o)' \ {Row(n + 1)} :
            <<t, u>> \in started'[o] <=> <<t, u>> \in started[o]
      /\ \A t \in Transactions(o)' \ {Row(n + 1)} :
            /\ <<t, Row(n + 1)>> \in started'[o] <=> <<t, Open(w)>> \in started[o]
            /\ <<Row(n + 1), t>> \in started'[o] <=> <<Open(w), t>> \in started[o]
  BY CommitReplaces
<1>8. \A i \in 1 .. n : Row(i) \in Transactions(o) /\ Row(i) \in Transactions(o)' \ {Row(n + 1)}
  <2> TAKE i \in 1 .. n
  <2>1. i \in 1 .. n + 1 /\ i # n + 1
    BY <1>6
  <2>2. Row(i) # Row(n + 1)
    BY <2>1 DEF Row
  <2> QED
    BY <2>1, <2>2, <1>5, <1>6 DEF Transactions
<1>9. VTyped'
  BY <1>1, <1>2 DEF VTyped
<1>10. StartsOrdered'
  <2>1. ASSUME NEW p \in Orders PROVE TotalOrder(Transactions(p)', started'[p])
    <3>1. CASE p = o
      BY <3>1, <1>7
    <3>2. CASE p # o
      BY <3>2, <1>7 DEF WriterInv, StartsOrdered
    <3> QED
      BY <3>1, <3>2
  <2> QED
    BY <2>1 DEF StartsOrdered
<1>11. /\ status[o] \in Status
       /\ Rank[status[o]] < Rank[to]
       /\ Rank[status[o]] \in Nat
       /\ Rank[to] \in Nat
  BY <1>4, TableTyped, RankIncreases, RankIsNumber
<1>12. status'[o] = to /\ \A p \in Orders \ {o} : status'[p] = status[p]
  <2>1. status \in [Orders -> Status \union {Absent}]
    BY <1>2 DEF TypeOK
  <2> QED
    BY <2>1, <1>2, <1>4
<1>13. n > 0 /\ timeline[o][n].to = status[o]
  <2>1. status[o] # Absent
    BY <1>11 DEF Status, Absent
  <2> QED
    BY <2>1, <1>2, <1>6 DEF TimelineInv, TimelineFaithful
<1>14. EnteredOnce'
  <2> SUFFICES ASSUME NEW p \in Orders, NEW i \in DOMAIN timeline'[p], i < Len(timeline'[p])
               PROVE  Rank[timeline'[p][i].to] < Rank[status'[p]]
    BY DEF EnteredOnce
  <2>1. CASE p # o
    BY <2>1, <1>5, <1>12 DEF WriterInv, EnteredOnce
  <2>2. CASE p = o
    <3>1. i \in 1 .. n /\ timeline'[o][i] = timeline[o][i]
      BY <2>2, <1>5, <1>6
    <3>2. CASE i = n
      BY <2>2, <3>1, <3>2, <1>11, <1>12, <1>13
    <3>3. CASE i # n
      <4>1. i < n
        BY <3>1, <3>3, <1>6
      <4>2. Rank[timeline[o][i].to] < Rank[status[o]]
        BY <3>1, <4>1, <1>2, <1>6 DEF WriterInv, EnteredOnce
      <4>3. timeline[o][i] \in TimelineEntry
        BY <3>1, <1>6
      <4>4. timeline[o][i].to \in Status
        BY <4>3 DEF TimelineEntry
      <4>5. Rank[timeline[o][i].to] \in Nat
        BY <4>4, RankIsNumber
      <4> QED
        BY <2>2, <3>1, <4>2, <4>5, <1>11, <1>12
    <3> QED
      BY <3>2, <3>3
  <2> QED
    BY <2>1, <2>2
<1>15. AllBegan'
  <2> SUFFICES ASSUME NEW x \in Writers, writing'[x] # Idle PROVE Began(x)'
    BY DEF AllBegan
  <2>1. x # w
    BY <1>3
  <2>2. writing'[x] = writing[x] /\ Began(x) /\ writing[x].order \in Orders
    BY <2>1, <1>2, <1>3, WritingTyped DEF WriterInv, AllBegan
  <2>3. CASE writing[x].order # o
    <3>1. PICK q \in Orders \ {o} : q = writing[x].order
      BY <2>2, <2>3
    <3>2. timeline'[q] = timeline[q] /\ started'[q] = started[q]
      BY <1>5, <1>7
    <3> QED
      BY <2>2, <3>1, <3>2 DEF Began
  <2>4. CASE writing[x].order = o
    <3>1. Open(x) \in Transactions(o)' \ {Row(n + 1)}
      <4>1. Open(x) # Row(n + 1)
        BY TransactionNames
      <4> QED
        BY <2>2, <2>4, <4>1 DEF Transactions
    <3>2. 1 \in DOMAIN timeline'[o]
      BY <1>5, <1>6
    <3>3. <<Row(1), Open(x)>> \in started'[o]
      <4>1. 1 \in 1 .. n /\ <<Row(1), Open(x)>> \in started[o]
        BY <2>2, <2>4, <1>6 DEF Began
      <4> QED
        BY <4>1, <3>1, <1>7, <1>8
    <3>4. ASSUME writing[x].command # "RequestRedemption"
          PROVE  \E k \in DOMAIN timeline'[o] :
                    /\ Allowed(timeline'[o][k].to, writing[x].command)
                    /\ \A i \in DOMAIN timeline'[o] : <<Open(x), Row(i)>> \in started'[o] => i > k
      <4>1. PICK k \in DOMAIN timeline[o] :
               /\ Allowed(timeline[o][k].to, writing[x].command)
               /\ \A i \in DOMAIN timeline[o] : <<Open(x), Row(i)>> \in started[o] => i > k
        BY <2>2, <2>4, <3>4 DEF Began
      <4>2. k \in DOMAIN timeline'[o] /\ timeline'[o][k] = timeline[o][k]
        BY <1>5, <1>6
      <4>3. ASSUME NEW i \in DOMAIN timeline'[o], <<Open(x), Row(i)>> \in started'[o]
            PROVE  i > k
        <5>1. CASE i = n + 1
          BY <5>1, <1>6
        <5>2. CASE i \in 1 .. n
          BY <5>2, <4>1, <4>3, <3>1, <1>6, <1>7, <1>8
        <5> QED
          BY <5>1, <5>2, <1>5, <1>6
      <4> QED
        BY <4>1, <4>2, <4>3
    <3> QED
      BY <2>2, <2>4, <3>2, <3>3, <3>4 DEF Began
  <2> QED
    BY <2>3, <2>4
<1>16. BookedByAgent'
  <2> SUFFICES ASSUME NEW p \in Orders, positions'[p] # NoRef PROVE positions'[p] = RefOf[p]
    BY DEF BookedByAgent
  <2>1. CASE positions'[p] = positions[p]
    BY <2>1 DEF WriterInv, BookedByAgent
  <2>2. CASE positions'[p] # positions[p]
    <3>1. c = "BookPosition" /\ BookPositionEffect(o, InputRef(o, c))
      BY <1>1, <2>2 DEF ApplyCommand, ApplySideEffects, LockCashEffect, OpenExceptionEffect
    <3>2. InputRef(o, c) = RefOf[o] /\ RefOf[o] # NoRef
      BY <3>1, <1>2, ViewsAssumption, NullAssumption DEF InputRef
    <3>3. positions' = [positions EXCEPT ![o] = IF @ = NoRef THEN RefOf[o] ELSE @]
      BY <3>1, <3>2 DEF BookPositionEffect, BookingRef
    <3> QED
      BY <2>2, <3>3, <1>2 DEF TypeOK
  <2> QED
    BY <2>1, <2>2
<1>17. BreakOpened'
  <2> SUFFICES ASSUME NEW p \in Orders, Did(p, "OpenException")' PROVE breaks'[p] # <<>>
    BY DEF BreakOpened
  <2>1. CASE p = o /\ c = "OpenException"
    <3>1. breaks' = [breaks EXCEPT ![o] = Append(@, "Open")]
      BY <1>1, <2>1 DEF ApplyCommand, ApplySideEffects, OpenExceptionEffect
    <3>2. breaks'[o] = Append(breaks[o], "Open") /\ breaks[o] \in Seq({"Open", "Resolved"})
      BY <3>1, <1>2 DEF TypeOK
    <3>3. Len(breaks'[o]) = Len(breaks[o]) + 1 /\ Len(breaks[o]) \in Nat
      BY <3>2
    <3> QED
      BY <2>1, <3>3
  <2>2. CASE ~ (p = o /\ c = "OpenException")
    <3>1. Did(p, "OpenException")
      <4>1. CASE p # o
        BY <4>1, <1>5 DEF Did
      <4>2. CASE p = o
        <5>1. PICK i \in 1 .. n + 1 : timeline'[o][i].command = "OpenException"
          BY <4>2, <1>5 DEF Did
        <5>2. c # "OpenException"
          BY <2>2, <4>2
        <5>3. i # n + 1
          BY <5>1, <5>2, <1>5
        <5>4. i \in 1 .. n
          BY <5>3, <1>6
        <5>5. timeline[o][i].command = "OpenException"
          BY <5>1, <5>4, <1>5, <1>6
        <5> QED
          BY <4>2, <5>4, <5>5, <1>6 DEF Did
      <4> QED
        BY <4>1, <4>2
    <3>2. breaks'[p] = breaks[p]
      BY <1>1, <1>2, <2>2 DEF ApplyCommand, ApplySideEffects, LockCashEffect, BookPositionEffect,
                              OpenExceptionEffect, TypeOK
    <3> QED
      BY <3>1, <3>2 DEF WriterInv, BreakOpened
  <2> QED
    BY <2>1, <2>2
<1>18. ListedInCommitOrder'
  <2> SUFFICES ASSUME NEW p \in Orders, NEW i \in DOMAIN timeline'[p], NEW j \in DOMAIN timeline'[p], i < j
               PROVE  \/ ListedBefore(p, i, j)'
                      \/ /\ ListedBefore(p, j, i)'
                         /\ i # 1
                         /\ timeline'[p][j].command \in OutOfTurn
    BY DEF ListedInCommitOrder
  <2>1. CASE p # o
    BY <2>1, <1>5, <1>7 DEF WriterInv, ListedInCommitOrder, ListedBefore
  <2>2. CASE p = o /\ j # n + 1
    <3>1. i \in 1 .. n /\ j \in 1 .. n
      <4>1. i \in 1 .. n + 1 /\ j \in 1 .. n + 1
        BY <2>2, <1>5
      <4>2. n \in Nat
        BY <1>6
      <4> HIDE DEF n
      <4> QED
        BY <2>2, <4>1, <4>2
    <3>2. /\ ListedBefore(o, i, j)' <=> ListedBefore(o, i, j)
          /\ ListedBefore(o, j, i)' <=> ListedBefore(o, j, i)
      BY <3>1, <1>7, <1>8 DEF ListedBefore
    <3>3. timeline'[o][j] = timeline[o][j]
      BY <3>1, <1>5, <1>6
    <3> QED
      BY <2>2, <3>1, <3>2, <3>3, <1>2, <1>6 DEF WriterInv, ListedInCommitOrder
  <2>3. CASE p = o /\ j = n + 1
    <3>1. i \in 1 .. n
      BY <2>3, <1>5, <1>6
    <3>2. /\ ListedBefore(o, i, j)' <=> <<Row(i), Open(w)>> \in started[o]
          /\ ListedBefore(o, j, i)' <=> <<Open(w), Row(i)>> \in started[o]
      BY <2>3, <3>1, <1>7, <1>8 DEF ListedBefore
    <3>3. Open(w) \in Transactions(o) /\ Row(i) \in Transactions(o) /\ Row(i) # Open(w)
      BY <1>1, <1>8, <3>1, TransactionNames DEF Transactions
    <3>4. TotalOrder(Transactions(o), started[o])
      BY <1>2 DEF WriterInv, StartsOrdered
    <3>5. SUFFICES ASSUME <<Open(w), Row(i)>> \in started[o]
                   PROVE  i # 1 /\ c \in OutOfTurn
      <4>1. <<Row(i), Open(w)>> \in started[o] \/ <<Open(w), Row(i)>> \in started[o]
        BY <3>3, <3>4 DEF TotalOrder
      <4> QED
        BY <4>1, <3>2, <2>3, <1>5
    <3>6. Began(w)
      BY <1>1 DEF WriterInv, AllBegan
    <3>7. i # 1
      BY <3>3, <3>4, <3>5, <3>6, OneIsBefore DEF Began
    <3>8. c \in OutOfTurn
      <4> SUFFICES ASSUME c \notin OutOfTurn PROVE FALSE
        OBVIOUS
      <4>1. c \notin {"Cancel", "OpenException", "RequestRedemption"}
        BY DEF OutOfTurn
      <4>2. PICK k \in DOMAIN timeline[o] :
               /\ Allowed(timeline[o][k].to, c)
               /\ \A m \in DOMAIN timeline[o] : <<Open(w), Row(m)>> \in started[o] => m > k
        BY <3>6, <4>1 DEF Began
      <4>3. timeline[o][k].to = status[o]
        BY <4>1, <4>2, <1>4, OneSource
      <4>4. i > k /\ k \in 1 .. n /\ k < n
        BY <3>1, <3>5, <4>2, <1>6
      <4>5. Rank[status[o]] < Rank[status[o]]
        BY <4>3, <4>4, <1>2, <1>6 DEF WriterInv, EnteredOnce
      <4> QED
        BY <4>5, <1>11
    <3> QED
      BY <3>7, <3>8
  <2> QED
    BY <2>1, <2>2, <2>3
<1> QED
  BY <1>9, <1>10, <1>14, <1>15, <1>16, <1>17, <1>18 DEF WriterInv
(* Every step of the program keeps the writers' invariant.                 *)
LEMMA NextWriterInv ==
    ASSUME WriterInv, [VNext]_vars
    PROVE  WriterInv'
<1>1. IInv'
  <2>1. [Next]_storeVars
    BY ViewsStep DEF WriterInv
  <2> QED
    BY <2>1, NextIInv DEF WriterInv
<1>2. CASE \E o \in Orders : Create(o)
  BY <1>1, <1>2, CreateKeeps
<1>3. CASE \E w \in Writers, o \in Orders, command \in Issued : Begin(w, o, command)
  BY <1>1, <1>3, BeginKeeps
<1>4. CASE \E w \in Writers : Commit(w)
  <2>1. PICK w \in Writers : Commit(w)
    BY <1>4
  <2>2. PICK o : o = writing[w].order
    OBVIOUS
  <2> QED
    BY <1>1, <2>1, <2>2, CommitKeeps
<1>5. CASE \E w \in Writers : Rollback(w)
  <2>1. PICK w \in Writers : Rollback(w)
    BY <1>5
  <2>2. PICK o : o = writing[w].order
    OBVIOUS
  <2> QED
    BY <1>1, <2>1, <2>2, RollbackKeeps
<1>6. CASE \/ \E r \in Readers, o \in Orders : StartReview(r, o)
           \/ \E r \in Readers : Fetch(r)
           \/ UNCHANGED vars
  <2>1. UNCHANGED <<storeVars, started, writing>>
    BY <1>6 DEF StartReview, Fetch, vars
  <2> QED
    BY <2>1, WriterStutter
<1> QED
  BY <1>2, <1>3, <1>4, <1>5, <1>6 DEF VNext

(* Nothing is begun in the empty database.                                 *)
LEMMA InitWriterInv == VInit => WriterInv
<1> SUFFICES ASSUME VInit PROVE WriterInv
  OBVIOUS
<1>1. IInv
  BY InitIInv DEF VInit
<1>2. /\ timeline = [o \in Orders |-> <<>>]
      /\ positions = [o \in Orders |-> NoRef]
      /\ started = [o \in Orders |-> {}]
      /\ writing = [w \in Writers |-> Idle]
  BY DEF VInit, Init
<1>3. \A o \in Orders : DOMAIN timeline[o] = {}
  BY <1>2
<1>4. VTyped
  BY <1>2 DEF VTyped
<1>5. \A w \in Writers : writing[w] = Idle
  BY <1>2
<1>6. \A o \in Orders : Transactions(o) = {} /\ started[o] = {}
  BY <1>2, <1>3, <1>5 DEF Transactions
<1>7. StartsOrdered
  BY <1>6 DEF StartsOrdered, TotalOrder
<1>8. EnteredOnce /\ AllBegan /\ BookedByAgent /\ BreakOpened /\ ListedInCommitOrder
  BY <1>2, <1>3, <1>5 DEF EnteredOnce, AllBegan, BookedByAgent, BreakOpened, Did, ListedInCommitOrder
<1> QED
  BY <1>1, <1>4, <1>7, <1>8 DEF WriterInv

-----------------------------------------------------------------------------
(* The readers.  What was shown is grounded in the tables for good: rows   *)
(* are only added to a timeline.                                           *)

ViewType == [order : Orders \union {Idle.order}, events : SUBSET Event,
             row : Status \union {Absent}, timeline : SUBSET TimelineEntry,
             positions : Refs \union {NoRef}, breaks : Seq({"Open", "Resolved"})]

Rest == {<<"events", "row", "timeline", "positions", "breaks">>,
         <<"row", "timeline", "positions", "breaks">>,
         <<"timeline", "positions", "breaks">>,
         <<"positions", "breaks">>,
         <<"breaks">>,
         <<>>}

ReaderTyped == todo \in [Readers -> Rest] /\ view \in [Readers -> ViewType]

Grounded(r) ==
    LET v == view[r]
        rows == timeline[v.order]
    IN
    /\ v.order \in Orders
    /\ \A e \in v.events \ {"SweepOrderCreated"} :
          \E i \in DOMAIN rows : rows[i].command # "CreateSweepOrder" /\ e \in Emits(rows[i].command)
    /\ v.row # Absent => \E i \in DOMAIN rows : rows[i].to = v.row
    /\ \A entry \in v.timeline : \E i \in DOMAIN rows : rows[i] = entry

NothingYet(r) == view[r] = Nothing(Idle.order) /\ todo[r] = <<>>

ReviewInv ==
    /\ ReaderTyped
    /\ \A r \in Readers : NothingYet(r) \/ Grounded(r)
    /\ TimelineNotBehind
    /\ ReviewConsistent

(* What a timeline held it keeps, in its place.                            *)
LEMMA RowsStay ==
    ASSUME WriterInv, [VNext]_vars, NEW o \in Orders, NEW i \in DOMAIN timeline[o]
    PROVE  i \in DOMAIN timeline'[o] /\ timeline'[o][i] = timeline[o][i]
<1>1. TypeOK /\ TimelineInv /\ VTyped
  BY DEF WriterInv, IInv, TimelineInv
<1>2. CASE UNCHANGED timeline
  BY <1>2
<1>3. CASE \E p \in Orders : Create(p)
  <2>1. PICK p \in Orders, key \in Keys, asked \in Terms : CreateOrder(p, key, asked)
    BY <1>3 DEF Create
  <2>2. DOMAIN timeline[p] = {} /\ \A q \in Orders \ {p} : timeline'[q] = timeline[q]
    BY <2>1, <1>1, CreateAppends
  <2> QED
    BY <2>2
<1>4. CASE \E w \in Writers : Commit(w)
  <2>1. PICK w \in Writers, p \in Orders : ApplyCommand(p, writing[w].command, InputRef(p, writing[w].command), HappyPath)
    BY <1>4 DEF Commit
  <2> DEFINE c == writing[w].command
  <2> HIDE DEF c
  <2>2. ApplyCommand(p, c, InputRef(p, c), HappyPath)
    BY <2>1 DEF c
  <2>3. /\ DOMAIN timeline'[p] = 1 .. Len(timeline[p]) + 1
        /\ \A j \in DOMAIN timeline[p] : timeline'[p][j] = timeline[p][j]
        /\ \A q \in Orders \ {p} : timeline'[q] = timeline[q]
    BY <1>1, <2>2, ApplyAppends
  <2>4. DOMAIN timeline[p] = 1 .. Len(timeline[p]) /\ Len(timeline[p]) \in Nat
    BY <1>1, RowsTyped
  <2> QED
    BY <2>3, <2>4
<1>5. CASE \/ \E w \in Writers, p \in Orders, command \in Issued : Begin(w, p, command)
           \/ \E w \in Writers : Rollback(w)
           \/ \E r \in Readers, p \in Orders : StartReview(r, p)
           \/ \E r \in Readers : Fetch(r)
           \/ UNCHANGED vars
  <2>1. UNCHANGED timeline
    BY <1>5 DEF Begin, Rollback, StartReview, Fetch, vars, storeVars
  <2> QED
    BY <2>1
<1> QED
  BY <1>3, <1>4, <1>5 DEF VNext

(* What has been shown when so much is still to be fetched.                *)
LEMMA ShownWhen ==
    ASSUME NEW r
    PROVE  /\ Shown(r, "row") => view[r].row # Absent
           /\ Shown(r, "timeline") => view[r].row # Absent /\ "timeline" \notin ToSet(todo[r])
           /\ Shown(r, "positions") => view[r].row # Absent /\ "positions" \notin ToSet(todo[r])
           /\ Shown(r, "breaks") => view[r].row # Absent /\ "breaks" \notin ToSet(todo[r])
BY DEF Shown, Statement, Nothing

(* Which statements are still to be run.                                   *)
LEMMA RestHolds ==
    /\ "timeline" \in ToSet(<<"row", "timeline", "positions", "breaks">>)
    /\ "positions" \in ToSet(<<"row", "timeline", "positions", "breaks">>)
    /\ "breaks" \in ToSet(<<"row", "timeline", "positions", "breaks">>)
    /\ "timeline" \in ToSet(<<"timeline", "positions", "breaks">>)
    /\ "positions" \in ToSet(<<"timeline", "positions", "breaks">>)
    /\ "breaks" \in ToSet(<<"timeline", "positions", "breaks">>)
    /\ "positions" \in ToSet(<<"positions", "breaks">>)
    /\ "breaks" \in ToSet(<<"positions", "breaks">>)
    /\ "timeline" \notin ToSet(<<"positions", "breaks">>)
    /\ "breaks" \in ToSet(<<"breaks">>)
    /\ "timeline" \notin ToSet(<<"breaks">>)
    /\ "positions" \notin ToSet(<<"breaks">>)
    /\ "row" \notin ToSet(<<"positions", "breaks">>)
    /\ "row" \notin ToSet(<<"breaks">>)
BY DEF ToSet

(* One statement of a review.                                              *)
LEMMA FetchStep ==
    ASSUME ReaderTyped, NEW r \in Readers, Fetch(r), NEW o, o = view[r].order
    PROVE  /\ \A x \in Readers \ {r} : view'[x] = view[x] /\ todo'[x] = todo[x]
           /\ \/ /\ todo'[r] = <<"row", "timeline", "positions", "breaks">>
                 /\ view' = [view EXCEPT ![r] = [@ EXCEPT !.events = ListAuditEvents(o)]]
              \/ /\ todo'[r] = <<"timeline", "positions", "breaks">>
                 /\ view' = [view EXCEPT ![r] = [@ EXCEPT !.row = status[o]]]
              \/ /\ todo[r] = <<"timeline", "positions", "breaks">>
                 /\ todo'[r] = <<"positions", "breaks">>
                 /\ view' = [view EXCEPT ![r] = [@ EXCEPT !.timeline = ListTimeline(o)]]
              \/ /\ todo[r] = <<"positions", "breaks">>
                 /\ todo'[r] = <<"breaks">>
                 /\ view' = [view EXCEPT ![r] = [@ EXCEPT !.positions = positions[o]]]
              \/ /\ todo[r] = <<"breaks">>
                 /\ todo'[r] = <<>>
                 /\ view' = [view EXCEPT ![r] = [@ EXCEPT !.breaks = breaks[o]]]
<1>1. /\ todo[r] # <<>> /\ todo[r] \in Rest
      /\ view' = [view EXCEPT ![r] = [@ EXCEPT ![Head(todo[r])] = Fetched(o, Head(todo[r]))]]
      /\ todo' = [todo EXCEPT ![r] = Tail(@)]
  BY DEF Fetch, ReaderTyped
<1>2. /\ todo'[r] = Tail(todo[r])
      /\ \A x \in Readers \ {r} : view'[x] = view[x] /\ todo'[x] = todo[x]
  BY <1>1 DEF ReaderTyped
<1>3. CASE todo[r] = <<"events", "row", "timeline", "positions", "breaks">>
  <2>1. Head(todo[r]) = "events" /\ Tail(todo[r]) = <<"row", "timeline", "positions", "breaks">>
    BY <1>3
  <2>2. Fetched(o, "events") = ListAuditEvents(o)
    BY DEF Fetched
  <2> QED
    BY <1>1, <1>2, <2>1, <2>2
<1>4. CASE todo[r] = <<"row", "timeline", "positions", "breaks">>
  <2>1. Head(todo[r]) = "row" /\ Tail(todo[r]) = <<"timeline", "positions", "breaks">>
    BY <1>4
  <2>2. Fetched(o, "row") = status[o]
    BY DEF Fetched
  <2> QED
    BY <1>1, <1>2, <2>1, <2>2
<1>5. CASE todo[r] = <<"timeline", "positions", "breaks">>
  <2>1. Head(todo[r]) = "timeline" /\ Tail(todo[r]) = <<"positions", "breaks">>
    BY <1>5
  <2>2. Fetched(o, "timeline") = ListTimeline(o)
    BY DEF Fetched
  <2> QED
    BY <1>1, <1>2, <1>5, <2>1, <2>2
<1>6. CASE todo[r] = <<"positions", "breaks">>
  <2>1. Head(todo[r]) = "positions" /\ Tail(todo[r]) = <<"breaks">>
    BY <1>6
  <2>2. Fetched(o, "positions") = positions[o]
    BY DEF Fetched
  <2> QED
    BY <1>1, <1>2, <1>6, <2>1, <2>2
<1>7. CASE todo[r] = <<"breaks">>
  <2>1. Head(todo[r]) = "breaks" /\ Tail(todo[r]) = <<>>
    BY <1>7
  <2>2. Fetched(o, "breaks") = breaks[o]
    BY DEF Fetched
  <2> QED
    BY <1>1, <1>2, <1>7, <2>1, <2>2
<1> QED
  BY <1>1, <1>3, <1>4, <1>5, <1>6, <1>7 DEF Rest

(* TimelineNotBehind and ReviewConsistent, of one reader.                  *)
NotBehind(r) ==
    Shown(r, "timeline") /\ Shown(r, "row") =>
        \E i \in DOMAIN timeline[view[r].order] :
            /\ timeline[view[r].order][i].to = view[r].row
            /\ \A k \in 1 .. i : timeline[view[r].order][k] \in view[r].timeline

Consistent(r) ==
    /\ Shown(r, "timeline") =>
          \A e \in view[r].events \ {"SweepOrderCreated"} :
              \E command \in Listed(r) \ {"CreateSweepOrder"} : e \in Emits(command)
    /\ Shown(r, "positions") /\ "BookPosition" \in Listed(r) =>
          view[r].positions = RefOf[view[r].order]
    /\ Shown(r, "breaks") /\ "OpenException" \in Listed(r) =>
          view[r].breaks # <<>>

(* The two properties hold when they hold of every reader.                 *)
LEMMA ReaderByReader ==
    /\ TimelineNotBehind <=> \A r \in Readers : NotBehind(r)
    /\ ReviewConsistent <=> \A r \in Readers : Consistent(r)
    /\ TimelineNotBehind' <=> \A r \in Readers : NotBehind(r)'
    /\ ReviewConsistent' <=> \A r \in Readers : Consistent(r)'
BY DEF TimelineNotBehind, NotBehind, ReviewConsistent, Consistent

(* What was grounded stays so whatever is committed.                       *)
LEMMA GroundedStays ==
    ASSUME WriterInv, [VNext]_vars, NEW r, Grounded(r), view'[r] = view[r]
    PROVE  Grounded(r)'
<1> DEFINE v == view[r]
           o == v.order
<1>1. o \in Orders
  BY DEF Grounded
<1>2. \A i \in DOMAIN timeline[o] : i \in DOMAIN timeline'[o] /\ timeline'[o][i] = timeline[o][i]
  BY <1>1, RowsStay
<1>3. v' = v
  OBVIOUS
<1> QED
  BY <1>1, <1>2, <1>3 DEF Grounded

(* A writer comes between two statements.                                  *)
LEMMA ReviewSurvives ==
    ASSUME WriterInv, ReviewInv, [VNext]_vars, UNCHANGED <<todo, view>>
    PROVE  ReviewInv'
<1>1. ReaderTyped'
  BY DEF ReviewInv, ReaderTyped
<1>2. ASSUME NEW r \in Readers PROVE NothingYet(r)' \/ Grounded(r)'
  <2>1. CASE NothingYet(r)
    BY <2>1 DEF NothingYet, Nothing
  <2>2. CASE Grounded(r)
    BY <2>2, GroundedStays
  <2> QED
    BY <2>1, <2>2 DEF ReviewInv
<1>3. ASSUME NEW r \in Readers PROVE NotBehind(r)'
  <2> SUFFICES ASSUME Shown(r, "timeline")', Shown(r, "row")'
               PROVE  \E i \in DOMAIN timeline'[view[r].order] :
                         /\ timeline'[view[r].order][i].to = view[r].row
                         /\ \A k \in 1 .. i : timeline'[view[r].order][k] \in view[r].timeline
    BY DEF NotBehind
  <2>1. Shown(r, "timeline") /\ Shown(r, "row")
    BY DEF Shown
  <2>2. view[r].row # Absent
    BY <2>1, ShownWhen
  <2>3. Grounded(r)
    BY <2>2 DEF ReviewInv, NothingYet, Nothing
  <2>4. view[r].order \in Orders
    BY <2>3 DEF Grounded
  <2> DEFINE o == view[r].order
  <2>5. PICK i \in DOMAIN timeline[o] :
           /\ timeline[o][i].to = view[r].row
           /\ \A k \in 1 .. i : timeline[o][k] \in view[r].timeline
    BY <2>1, ReaderByReader DEF ReviewInv, NotBehind
  <2>6. \A k \in DOMAIN timeline[o] : k \in DOMAIN timeline'[o] /\ timeline'[o][k] = timeline[o][k]
    BY <2>4, RowsStay
  <2>7. \A k \in 1 .. i : k \in DOMAIN timeline[o]
    BY <2>4, <2>5, RowsTyped DEF WriterInv, IInv, TimelineInv
  <2> QED
    BY <2>5, <2>6, <2>7
<1>4. ASSUME NEW r \in Readers PROVE Consistent(r)'
  <2>1. Consistent(r)
    BY ReaderByReader DEF ReviewInv
  <2> QED
    BY <2>1 DEF Consistent, Shown, Listed
<1>5. TimelineNotBehind' /\ ReviewConsistent'
  BY <1>3, <1>4, ReaderByReader
<1> QED
  BY <1>1, <1>2, <1>5 DEF ReviewInv

(* Reading does not write.                                                 *)
LEMMA OthersUndisturbed ==
    ASSUME ReviewInv, UNCHANGED storeVars, NEW x \in Readers, view'[x] = view[x], todo'[x] = todo[x]
    PROVE  /\ NothingYet(x)' \/ Grounded(x)'
           /\ NotBehind(x)'
           /\ Consistent(x)'
<1>1. /\ NothingYet(x) \/ Grounded(x)
      /\ NotBehind(x)
      /\ Consistent(x)
  BY ReaderByReader DEF ReviewInv
<1>2. timeline' = timeline
  BY DEF storeVars
<1>3. NothingYet(x)' \/ Grounded(x)'
  <2>1. CASE NothingYet(x)
    BY <2>1 DEF NothingYet, Nothing
  <2>2. CASE Grounded(x)
    BY <2>2, <1>2 DEF Grounded
  <2> QED
    BY <2>1, <2>2, <1>1
<1>4. NotBehind(x)' /\ Consistent(x)'
  BY <1>1, <1>2 DEF NotBehind, Consistent, Shown, Listed
<1> QED
  BY <1>3, <1>4

(* A review begins with nothing shown.                                     *)
LEMMA StartKeeps ==
    ASSUME WriterInv, ReviewInv, NEW r \in Readers, NEW o \in Orders, StartReview(r, o)
    PROVE  ReviewInv'
<1>1. /\ todo' = [todo EXCEPT ![r] = Review]
      /\ view' = [view EXCEPT ![r] = Nothing(o)]
      /\ UNCHANGED storeVars
  BY DEF StartReview
<1>2. /\ todo'[r] = Review
      /\ view'[r] = Nothing(o)
      /\ \A x \in Readers \ {r} : view'[x] = view[x] /\ todo'[x] = todo[x]
  BY <1>1 DEF ReviewInv, ReaderTyped
<1>3. ReaderTyped'
  <2>1. Review \in Rest
    BY DEF Review, Rest
  <2>2. Nothing(o) \in ViewType
    BY DEF Nothing, ViewType
  <2> QED
    BY <1>1, <2>1, <2>2 DEF ReviewInv, ReaderTyped
<1>4. view'[r].row = Absent /\ view'[r].order = o /\ view'[r].events = {} /\ view'[r].timeline = {}
  BY <1>2 DEF Nothing
<1>5. Grounded(r)'
  BY <1>4 DEF Grounded
<1>6. NotBehind(r)' /\ Consistent(r)'
  BY <1>4 DEF NotBehind, Consistent, Shown
<1>7. ASSUME NEW x \in Readers
      PROVE  /\ NothingYet(x)' \/ Grounded(x)'
             /\ NotBehind(x)'
             /\ Consistent(x)'
  <2>1. CASE x = r
    BY <2>1, <1>5, <1>6
  <2>2. CASE x # r
    BY <2>2, <1>1, <1>2, OthersUndisturbed
  <2> QED
    BY <2>1, <2>2
<1>8. TimelineNotBehind' /\ ReviewConsistent'
  BY <1>7, ReaderByReader
<1> QED
  BY <1>3, <1>7, <1>8 DEF ReviewInv

(* What each statement may show.                                           *)
LEMMA FetchedTyped ==
    ASSUME TypeOK, NEW o \in Orders
    PROVE  /\ ListAuditEvents(o) \subseteq Event
           /\ status[o] \in Status \union {Absent}
           /\ ListTimeline(o) \subseteq TimelineEntry
           /\ positions[o] \in Refs \union {NoRef}
           /\ breaks[o] \in Seq({"Open", "Resolved"})
BY RowsTyped DEF TypeOK, ListAuditEvents, ListTimeline

(* A command of the machine is not the creation.                           *)
LEMMA CreationIsNoCommand == "CreateSweepOrder" \notin Command
BY DEF Command

(* One statement, and what it shows is in the tables.                      *)
LEMMA FetchKeeps ==
    ASSUME WriterInv, ReviewInv, NEW r \in Readers, Fetch(r)
    PROVE  ReviewInv'
<1> DEFINE o == view[r].order
           rows == timeline[o]
<1>1. Grounded(r) /\ NotBehind(r) /\ Consistent(r)
  BY ReaderByReader DEF ReviewInv, NothingYet, Fetch
<1>2. o \in Orders
  BY <1>1 DEF Grounded
<1>3. /\ UNCHANGED storeVars
      /\ timeline' = timeline
  BY DEF Fetch, storeVars
<1>4. ReaderTyped /\ view[r] \in ViewType
  BY DEF ReviewInv, ReaderTyped
<1>5. TypeOK
  BY DEF WriterInv, IInv, TimelineInv
<1>6. ASSUME NEW new \in ViewType, view' = [view EXCEPT ![r] = new], todo'[r] \in Rest,
             Grounded(r)', NotBehind(r)', Consistent(r)'
      PROVE  ReviewInv'
  <2>1. ReaderTyped'
    <3>1. todo' \in [Readers -> Rest]
      BY <1>4, <1>6 DEF Fetch, ReaderTyped
    <3>2. view' \in [Readers -> ViewType]
      BY <1>4, <1>6 DEF ReaderTyped
    <3> QED
      BY <3>1, <3>2 DEF ReaderTyped
  <2>2. ASSUME NEW x \in Readers
        PROVE  /\ NothingYet(x)' \/ Grounded(x)'
               /\ NotBehind(x)'
               /\ Consistent(x)'
    <3>1. CASE x = r
      BY <3>1, <1>6
    <3>2. CASE x # r
      <4>1. view'[x] = view[x] /\ todo'[x] = todo[x]
        BY <3>2, <1>4, <2>2, FetchStep
      <4> QED
        BY <4>1, <1>3, <2>2, OthersUndisturbed
    <3> QED
      BY <3>1, <3>2
  <2>3. TimelineNotBehind' /\ ReviewConsistent'
    BY <2>2, ReaderByReader
  <2> QED
    BY <2>1, <2>2, <2>3 DEF ReviewInv
<1>7. CASE /\ todo'[r] = <<"row", "timeline", "positions", "breaks">>
           /\ view' = [view EXCEPT ![r] = [@ EXCEPT !.events = ListAuditEvents(o)]]
  <2> DEFINE new == [view[r] EXCEPT !.events = ListAuditEvents(o)]
  <2>1. /\ new \in ViewType
        /\ new.order = o /\ new.row = view[r].row /\ new.timeline = view[r].timeline
        /\ new.events = ListAuditEvents(o)
    BY <1>2, <1>4, <1>5, FetchedTyped DEF ViewType
  <2>2. view' = [view EXCEPT ![r] = new] /\ view'[r] = new
    BY <1>4, <1>7 DEF ReaderTyped
  <2> HIDE DEF new
  <2>3. \A e \in ListAuditEvents(o) \ {"SweepOrderCreated"} :
           \E i \in DOMAIN rows : rows[i].command # "CreateSweepOrder" /\ e \in Emits(rows[i].command)
    <3> SUFFICES ASSUME NEW e \in ListAuditEvents(o) \ {"SweepOrderCreated"}
                 PROVE  \E i \in DOMAIN rows : rows[i].command # "CreateSweepOrder" /\ e \in Emits(rows[i].command)
      OBVIOUS
    <3>1. e \in Event /\ events[o][e] > 0
      BY DEF ListAuditEvents
    <3>2. e \in EventsOwed(o)
      BY <1>2, <3>1 DEF WriterInv, IInv, EventsExact
    <3>3. PICK c \in Command : Did(o, c) /\ e \in Emits(c)
      BY <3>2 DEF EventsOwed
    <3> QED
      BY <3>3, CreationIsNoCommand DEF Did
  <2>4. Grounded(r)'
    BY <1>1, <1>3, <2>1, <2>2, <2>3 DEF Grounded
  <2>5. NotBehind(r)' /\ Consistent(r)'
    BY <1>7, RestHolds DEF NotBehind, Consistent, Shown
  <2>6. todo'[r] \in Rest
    BY <1>7 DEF Rest
  <2> QED
    BY <1>6, <2>1, <2>2, <2>4, <2>5, <2>6
<1>8. CASE /\ todo'[r] = <<"timeline", "positions", "breaks">>
           /\ view' = [view EXCEPT ![r] = [@ EXCEPT !.row = status[o]]]
  <2> DEFINE new == [view[r] EXCEPT !.row = status[o]]
  <2>1. /\ new \in ViewType
        /\ new.order = o /\ new.row = status[o] /\ new.timeline = view[r].timeline
        /\ new.events = view[r].events
    BY <1>2, <1>4, <1>5, FetchedTyped DEF ViewType
  <2>2. view' = [view EXCEPT ![r] = new] /\ view'[r] = new
    BY <1>4, <1>8 DEF ReaderTyped
  <2> HIDE DEF new
  <2>3. status[o] # Absent => \E i \in DOMAIN rows : rows[i].to = status[o]
    <3> SUFFICES ASSUME status[o] # Absent PROVE \E i \in DOMAIN rows : rows[i].to = status[o]
      OBVIOUS
    <3>1. Len(rows) \in Nat /\ DOMAIN rows = 1 .. Len(rows)
      BY <1>2, <1>5, RowsTyped
    <3>2. Len(rows) # 0 /\ (Len(rows) > 0 => rows[Len(rows)].to = status[o])
      BY <1>2 DEF WriterInv, IInv, TimelineInv, TimelineFaithful
    <3>3. Len(rows) \in DOMAIN rows /\ rows[Len(rows)].to = status[o]
      BY <3>1, <3>2
    <3> QED
      BY <3>3
  <2>4. Grounded(r)'
    BY <1>1, <1>3, <2>1, <2>2, <2>3 DEF Grounded
  <2>5. NotBehind(r)' /\ Consistent(r)'
    BY <1>8, RestHolds DEF NotBehind, Consistent, Shown
  <2>6. todo'[r] \in Rest
    BY <1>8 DEF Rest
  <2> QED
    BY <1>6, <2>1, <2>2, <2>4, <2>5, <2>6
<1>9. CASE /\ todo'[r] = <<"positions", "breaks">>
           /\ view' = [view EXCEPT ![r] = [@ EXCEPT !.timeline = ListTimeline(o)]]
  <2> DEFINE new == [view[r] EXCEPT !.timeline = ListTimeline(o)]
  <2>1. /\ new \in ViewType
        /\ new.order = o /\ new.row = view[r].row /\ new.timeline = ListTimeline(o)
        /\ new.events = view[r].events
    BY <1>2, <1>4, <1>5, FetchedTyped DEF ViewType
  <2>2. view' = [view EXCEPT ![r] = new] /\ view'[r] = new
    BY <1>4, <1>9 DEF ReaderTyped
  <2> HIDE DEF new
  <2>3. /\ \A entry \in ListTimeline(o) : \E i \in DOMAIN rows : rows[i] = entry
        /\ \A i \in DOMAIN rows : rows[i] \in ListTimeline(o)
    BY DEF ListTimeline
  <2>4. Grounded(r)'
    BY <1>1, <1>3, <2>1, <2>2, <2>3 DEF Grounded
  <2>5. NotBehind(r)'
    <3> SUFFICES ASSUME Shown(r, "row")'
                 PROVE  \E i \in DOMAIN rows :
                           /\ rows[i].to = new.row
                           /\ \A k \in 1 .. i : rows[k] \in ListTimeline(o)
      BY <1>3, <2>1, <2>2 DEF NotBehind
    <3>1. new.row # Absent
      BY <2>2 DEF Shown
    <3>2. PICK i \in DOMAIN rows : rows[i].to = new.row
      BY <1>1, <2>1, <3>1 DEF Grounded
    <3>3. \A k \in 1 .. i : k \in DOMAIN rows
      BY <1>2, <1>5, <3>2, RowsTyped
    <3> QED
      BY <3>2, <3>3, <2>3
  <2>6. Consistent(r)'
    <3>1. \A e \in new.events \ {"SweepOrderCreated"} :
             \E command \in {entry.command : entry \in new.timeline} \ {"CreateSweepOrder"} : e \in Emits(command)
      BY <1>1, <2>1, <2>3 DEF Grounded
    <3>2. ~ Shown(r, "positions")' /\ ~ Shown(r, "breaks")'
      BY <1>9, RestHolds DEF Shown
    <3> QED
      BY <2>2, <3>1, <3>2 DEF Consistent, Listed
  <2>7. todo'[r] \in Rest
    BY <1>9 DEF Rest
  <2> QED
    BY <1>6, <2>1, <2>2, <2>4, <2>5, <2>6, <2>7
<1>10. CASE /\ todo[r] = <<"positions", "breaks">>
            /\ todo'[r] = <<"breaks">>
            /\ view' = [view EXCEPT ![r] = [@ EXCEPT !.positions = positions[o]]]
  <2> DEFINE new == [view[r] EXCEPT !.positions = positions[o]]
  <2>1. /\ new \in ViewType
        /\ new.order = o /\ new.row = view[r].row /\ new.timeline = view[r].timeline
        /\ new.events = view[r].events /\ new.positions = positions[o]
    BY <1>2, <1>4, <1>5, FetchedTyped DEF ViewType
  <2>2. view' = [view EXCEPT ![r] = new] /\ view'[r] = new
    BY <1>4, <1>10 DEF ReaderTyped
  <2> HIDE DEF new
  <2>3. Grounded(r)'
    BY <1>1, <1>3, <2>1, <2>2 DEF Grounded
  <2>4. /\ Shown(r, "timeline")' => Shown(r, "timeline")
        /\ Shown(r, "row")' => Shown(r, "row")
        /\ ~ Shown(r, "breaks")'
    <3>1. view'[r].row = view[r].row
      BY <2>1, <2>2
    <3>2. "row" \notin ToSet(todo[r]) /\ "timeline" \notin ToSet(todo[r]) /\ "breaks" \in ToSet(todo'[r])
      BY <1>10, RestHolds
    <3> QED
      BY <3>1, <3>2 DEF Shown
  <2>5. NotBehind(r)'
    <3>1. /\ view'[r].order = o /\ view'[r].row = view[r].row
          /\ view'[r].timeline = view[r].timeline
      BY <2>1, <2>2
    <3> QED
      BY <1>1, <1>3, <2>4, <3>1 DEF NotBehind
  <2>6. ASSUME "BookPosition" \in Listed(r)' PROVE positions[o] = RefOf[o]
    <3>1. PICK entry \in view[r].timeline : entry.command = "BookPosition"
      BY <2>1, <2>2, <2>6 DEF Listed
    <3>2. Did(o, "BookPosition")
      BY <1>1, <3>1 DEF Grounded, Did
    <3>3. positions[o] # NoRef
      BY <1>2, <3>2 DEF WriterInv, IInv, PositionBacked
    <3> QED
      BY <1>2, <3>3 DEF WriterInv, BookedByAgent
  <2>7. Consistent(r)'
    BY <1>1, <2>1, <2>2, <2>4, <2>6 DEF Consistent, Listed
  <2>8. todo'[r] \in Rest
    BY <1>10 DEF Rest
  <2> QED
    BY <1>6, <2>1, <2>2, <2>3, <2>5, <2>7, <2>8
<1>11. CASE /\ todo[r] = <<"breaks">>
            /\ todo'[r] = <<>>
            /\ view' = [view EXCEPT ![r] = [@ EXCEPT !.breaks = breaks[o]]]
  <2> DEFINE new == [view[r] EXCEPT !.breaks = breaks[o]]
  <2>1. /\ new \in ViewType
        /\ new.order = o /\ new.row = view[r].row /\ new.timeline = view[r].timeline
        /\ new.events = view[r].events /\ new.positions = view[r].positions
        /\ new.breaks = breaks[o]
    BY <1>2, <1>4, <1>5, FetchedTyped DEF ViewType
  <2>2. view' = [view EXCEPT ![r] = new] /\ view'[r] = new
    BY <1>4, <1>11 DEF ReaderTyped
  <2> HIDE DEF new
  <2>3. Grounded(r)'
    BY <1>1, <1>3, <2>1, <2>2 DEF Grounded
  <2>4. /\ Shown(r, "timeline")' => Shown(r, "timeline")
        /\ Shown(r, "row")' => Shown(r, "row")
        /\ Shown(r, "positions")' => Shown(r, "positions")
    <3>1. view'[r].row = view[r].row
      BY <2>1, <2>2
    <3>2. ToSet(todo[r]) \intersect {"row", "timeline", "positions"} = {}
      BY <1>11, RestHolds
    <3> QED
      BY <3>1, <3>2 DEF Shown
  <2>5. NotBehind(r)'
    <3>1. /\ view'[r].order = o /\ view'[r].row = view[r].row
          /\ view'[r].timeline = view[r].timeline
      BY <2>1, <2>2
    <3> QED
      BY <1>1, <1>3, <2>4, <3>1 DEF NotBehind
  <2>6. ASSUME "OpenException" \in Listed(r)' PROVE breaks[o] # <<>>
    <3>1. PICK entry \in view[r].timeline : entry.command = "OpenException"
      BY <2>1, <2>2, <2>6 DEF Listed
    <3>2. Did(o, "OpenException")
      BY <1>1, <3>1 DEF Grounded, Did
    <3> QED
      BY <1>2, <3>2 DEF WriterInv, BreakOpened
  <2>7. Consistent(r)'
    BY <1>1, <2>1, <2>2, <2>4, <2>6 DEF Consistent, Listed
  <2>8. todo'[r] \in Rest
    BY <1>11 DEF Rest
  <2> QED
    BY <1>6, <2>1, <2>2, <2>3, <2>5, <2>7, <2>8
<1> QED
  BY <1>4, <1>7, <1>8, <1>9, <1>10, <1>11, FetchStep

(* Readers begin with nothing.                                             *)
LEMMA InitReviewInv == VInit => ReviewInv
<1> SUFFICES ASSUME VInit PROVE ReviewInv
  OBVIOUS
<1>1. /\ todo = [r \in Readers |-> <<>>]
      /\ view = [r \in Readers |-> Nothing(Idle.order)]
  BY DEF VInit
<1>2. Nothing(Idle.order) \in ViewType /\ Nothing(Idle.order).row = Absent
  BY DEF Nothing, ViewType
<1>3. ReaderTyped
  BY <1>1, <1>2 DEF ReaderTyped, Rest
<1>4. \A r \in Readers : NothingYet(r) /\ view[r].row = Absent
  BY <1>1, <1>2 DEF NothingYet
<1>5. TimelineNotBehind /\ ReviewConsistent
  BY <1>4 DEF TimelineNotBehind, ReviewConsistent, Shown
<1> QED
  BY <1>3, <1>4, <1>5 DEF ReviewInv

(* The readers' part is kept by every step.                                *)
LEMMA NextReviewInv ==
    ASSUME WriterInv, ReviewInv, [VNext]_vars
    PROVE  ReviewInv'
<1>1. CASE \E r \in Readers, o \in Orders : StartReview(r, o)
  BY <1>1, StartKeeps
<1>2. CASE \E r \in Readers : Fetch(r)
  BY <1>2, FetchKeeps
<1>3. CASE \/ \E o \in Orders : Create(o)
           \/ \E w \in Writers, o \in Orders, command \in Issued : Begin(w, o, command)
           \/ \E w \in Writers : Commit(w) \/ Rollback(w)
           \/ UNCHANGED vars
  <2>1. UNCHANGED <<todo, view>>
    BY <1>3 DEF Create, Begin, Commit, Rollback, vars
  <2> QED
    BY <2>1, ReviewSurvives
<1> QED
  BY <1>1, <1>2, <1>3 DEF VNext

-----------------------------------------------------------------------------
(* The writers' part and the readers' part of every reachable state.       *)
THEOREM ViewsInvariance == VSpec => [](WriterInv /\ ReviewInv)
<1>1. VInit => WriterInv /\ ReviewInv
  BY InitWriterInv, InitReviewInv
<1>2. WriterInv /\ ReviewInv /\ [VNext]_vars => WriterInv' /\ ReviewInv'
  BY NextWriterInv, NextReviewInv
<1> QED
  BY <1>1, <1>2, PTL DEF VSpec

(***************************************************************************)
(* list_timeline lists the rows by the start of their transactions: the    *)
(* order of the commits, except for the commands that a service may issue  *)
(* in several statuses or before their status is reached; the creation is  *)
(* always first.                                                           *)
(***************************************************************************)
THEOREM TimelineListedInOrder == VSpec => []ListedInCommitOrder
<1>1. WriterInv => ListedInCommitOrder
  BY DEF WriterInv
<1> QED
  BY <1>1, ViewsInvariance, PTL

(***************************************************************************)
(* The listing is an order of all the rows, whatever was rolled back: of   *)
(* two rows one is listed before the other, and never both.                *)
(***************************************************************************)
ListingTotal ==
    \A o \in Orders : \A i, j \in DOMAIN timeline[o] :
        i # j => (ListedBefore(o, i, j) <=> ~ ListedBefore(o, j, i))

(* created_at puts any two rows of an order one before the other.          *)
THEOREM TimelineListsEveryRow == VSpec => []ListingTotal
<1>1. WriterInv => ListingTotal
  <2> SUFFICES ASSUME WriterInv, NEW o \in Orders, NEW i \in DOMAIN timeline[o],
                      NEW j \in DOMAIN timeline[o], i # j
               PROVE  ListedBefore(o, i, j) <=> ~ ListedBefore(o, j, i)
    BY DEF ListingTotal
  <2>1. TotalOrder(Transactions(o), started[o])
    BY DEF WriterInv, StartsOrdered
  <2>2. Row(i) \in Transactions(o) /\ Row(j) \in Transactions(o)
    BY TransactionsAre
  <2>3. Row(i) # Row(j)
    BY DEF Row
  <2>4. <<Row(i), Row(j)>> \in started[o] \/ <<Row(j), Row(i)>> \in started[o]
    BY <2>1, <2>2, <2>3 DEF TotalOrder
  <2> QED
    BY <2>1, <2>2, <2>4, OneIsBefore DEF ListedBefore
<1> QED
  BY <1>1, ViewsInvariance, PTL

(***************************************************************************)
(* get_sweep_order reads the row and then the timeline, with writers       *)
(* between the two statements: the timeline is never behind the row.       *)
(***************************************************************************)
THEOREM OrderShownWithItsTimeline == VSpec => []TimelineNotBehind
<1>1. ReviewInv => TimelineNotBehind
  BY DEF ReviewInv
<1> QED
  BY <1>1, ViewsInvariance, PTL

(***************************************************************************)
(* The four lists of docs/operations.md, fetched one after the other while *)
(* services write, contradict each other in nothing the operator compares. *)
(***************************************************************************)
THEOREM OperatorSeesNoContradiction == VSpec => []ReviewConsistent
<1>1. ReviewInv => ReviewConsistent
  BY DEF ReviewInv
<1> QED
  BY <1>1, ViewsInvariance, PTL

(***************************************************************************)
(* Transactions that begin, wait and commit out of the order they began in *)
(* do to the tables what the store's operations do one after the other.    *)
(***************************************************************************)
THEOREM ViewsImplementStore == VSpec => Spec
<1>1. VInit => Init
  BY DEF VInit
<1>2. WriterInv /\ [VNext]_vars => [Next]_storeVars
  BY ViewsStep DEF WriterInv
<1> QED
  BY <1>1, <1>2, ViewsInvariance, PTL DEF VSpec, Spec
=============================================================================
