----------------------- MODULE SweepRefinementProofs -----------------------
(***************************************************************************)
(* What others conclude from the order store, proved for every number of   *)
(* orders, keys, assets, references and callers: the certifier's checks    *)
(* never fail, and the abstract orders of abstract_refinement.rs are       *)
(* followed but for the ledger rows of two commands.                       *)
(***************************************************************************)
EXTENDS SweepRefinement, Certifier, SweepOrdersProofs, FiniteSetTheorems

-----------------------------------------------------------------------------
(* The last row of a timeline of an order past LockCash.                   *)
LEMMA LastRow ==
    ASSUME IInv, NEW o \in Orders, status[o] \in Locked
    PROVE  \E i \in DOMAIN timeline[o] :
              /\ i - 1 \in DOMAIN timeline[o]
              /\ timeline[o][i].to = status[o]
              /\ <<timeline[o][i - 1].to, timeline[o][i].command, status[o]>> \in Table
<1> DEFINE n == Len(timeline[o])
<1>1. timeline[o] \in Seq(TimelineEntry) /\ DOMAIN timeline[o] = 1 .. n /\ n \in Nat
  BY DEF IInv, TimelineInv, TypeOK
<1>2. PICK i \in 1 .. n : timeline[o][i].command = "LockCash"
  BY <1>1 DEF IInv, PathTaken, Did
<1>3. i > 1
  BY <1>1, <1>2 DEF IInv, TimelineInv, TimelineFaithful
<1>4. n > 1 /\ n \in DOMAIN timeline[o] /\ n - 1 \in DOMAIN timeline[o]
  BY <1>1, <1>2, <1>3
<1>5. /\ timeline[o][n].to = status[o]
      /\ timeline[o][n].from = timeline[o][n - 1].to
  BY <1>4, <1>1 DEF IInv, TimelineInv, TimelineFaithful
<1>6. <<timeline[o][n].from, timeline[o][n].command, status[o]>> \in Table
  BY <1>4, <1>5 DEF IInv, TimelineInv, TimelineRanked
<1> QED
  BY <1>4, <1>5, <1>6

(* How an order came to be where the abstract invariants ask for a past.   *)
LEMMA PastOfActive ==
    ASSUME IInv, NEW o \in Orders, status[o] = "Active"
    PROVE  \E i \in DOMAIN timeline[o] : timeline[o][i].to = "Reconciled"
<1>1. status[o] \in Locked
  BY DEF Locked, Status, Cancellable
<1>2. PICK i \in DOMAIN timeline[o] :
        /\ i - 1 \in DOMAIN timeline[o]
        /\ <<timeline[o][i - 1].to, timeline[o][i].command, "Active">> \in Table
  BY <1>1, LastRow
<1>3. timeline[o][i - 1].to = "Reconciled"
  BY <1>2 DEF Table, Cancellable, Interruptible
<1> QED
  BY <1>2, <1>3

(* Cash is credited only after the redemption was confirmed.               *)
LEMMA PastOfCredited ==
    ASSUME IInv, NEW o \in Orders, status[o] = "CashCredited"
    PROVE  \E i \in DOMAIN timeline[o] : timeline[o][i].to = "RedemptionConfirmed"
<1>1. status[o] \in Locked
  BY DEF Locked, Status, Cancellable
<1>2. PICK i \in DOMAIN timeline[o] :
        /\ i - 1 \in DOMAIN timeline[o]
        /\ <<timeline[o][i - 1].to, timeline[o][i].command, "CashCredited">> \in Table
  BY <1>1, LastRow
<1>3. timeline[o][i - 1].to = "RedemptionConfirmed"
  BY <1>2 DEF Table, Cancellable, Interruptible
<1> QED
  BY <1>2, <1>3

(* A confirmed redemption was confirmed by its command.                    *)
LEMMA PastOfConfirmed ==
    ASSUME IInv, NEW o \in Orders, status[o] = "RedemptionConfirmed"
    PROVE  Did(o, "ConfirmRedemption")
<1>1. status[o] \in Locked
  BY DEF Locked, Status, Cancellable
<1>2. PICK i \in DOMAIN timeline[o] :
        <<timeline[o][i - 1].to, timeline[o][i].command, "RedemptionConfirmed">> \in Table
  BY <1>1, LastRow
<1>3. timeline[o][i].command = "ConfirmRedemption"
  BY <1>2 DEF Table, Cancellable, Interruptible
<1> QED
  BY <1>3 DEF Did

(* Whenever the certifier is run, none of its queries on the order tables  *)
(* finds a row: it fails no healthy store.                                 *)
THEOREM CertifierNeverFails == Spec => []CertifierPasses
<1>1. IInv => CertifierPasses
  <2> SUFFICES ASSUME IInv PROVE CertifierPasses
    OBVIOUS
  <2>1. DuplicateConfirmations = {}
    <3> SUFFICES ASSUME NEW ref \in Refs, NEW o \in Orders, NEW p \in Orders, o # p,
                        positions[o] = ref, positions[p] = ref
                 PROVE  FALSE
      BY DEF DuplicateConfirmations
    <3>1. ref # NoRef
      BY NullAssumption
    <3>2. confirmation[o] = ref /\ confirmation[p] = ref
      BY <3>1 DEF IInv, PositionBacked
    <3> QED
      BY <3>1, <3>2 DEF IInv, PositionBacked
  <2>2. ActiveWithoutHistory = {}
    <3>1. ASSUME NEW o \in Orders, status[o] = "Active"
          PROVE  \E i \in DOMAIN timeline[o] : timeline[o][i].to = "Reconciled"
      BY <3>1, PastOfActive
    <3> QED
      BY <3>1 DEF ActiveWithoutHistory
  <2>3. Unbalanced = {}
    <3> SUFFICES ASSUME NEW o \in Orders, NEW asset \in Asset, NEW kind \in LedgerKind
        PROVE  ledger[o][[kind |-> kind, asset |-> asset, side |-> "Debit"]] =
               ledger[o][[kind |-> kind, asset |-> asset, side |-> "Credit"]]
      BY DEF Unbalanced
    <3> DEFINE debit == [kind |-> kind, asset |-> asset, side |-> "Debit"]
               credit == [kind |-> kind, asset |-> asset, side |-> "Credit"]
    <3>1. debit \in LedgerEntry /\ credit \in LedgerEntry
      BY DEF LedgerEntry, Side
    <3>2. debit \in LedgerOwed(o) <=> credit \in LedgerOwed(o)
      BY DEF LedgerOwed, BalancedPair, Side
    <3> QED
      BY <3>1, <3>2 DEF IInv, LedgerExact
  <2>4. DuplicateEvents = {}
    <3>1. BusinessEvent \subseteq Event
      BY DEF BusinessEvent, Event
    <3>2. \A o \in Orders, e \in Event : events[o][e] = 0 \/ events[o][e] = 1
      BY DEF IInv, EventsExact
    <3> QED
      BY <3>1, <3>2 DEF DuplicateEvents
  <2> QED
    BY <2>1, <2>2, <2>3, <2>4 DEF CertifierPasses
<1> QED
  BY <1>1, Invariance, PTL

-----------------------------------------------------------------------------
(* Two facts the refinement needs of the tables beyond IInv: an order that *)
(* exists has terms somebody asked for and may have, and the confirmation  *)
(* column is filled by ConfirmTransferAgent.                               *)
TermsGiven ==
    \A o \in Orders :
        IF status[o] = Absent THEN terms[o] = NoTerms
        ELSE terms[o] \in Terms /\ YieldSourceAllowed(terms[o].product)

ConfirmationRecorded ==
    \A o \in Orders : confirmation[o] # NoRef <=> Did(o, "ConfirmTransferAgent")

RInv == IInv /\ TermsGiven /\ ConfirmationRecorded

(* The inductive invariant holds of the empty database.                    *)
LEMMA InitRInv == Init => RInv
<1> SUFFICES ASSUME Init PROVE RInv
  OBVIOUS
<1>1. IInv
  BY InitIInv
<1>2. \A o \in Orders : status[o] = Absent /\ terms[o] = NoTerms /\ confirmation[o] = NoRef
  BY DEF Init
<1>3. \A o \in Orders : \A c : ~ Did(o, c)
  BY <1>1, <1>2, AbsentDidNothing DEF IInv
<1> QED
  BY <1>1, <1>2, <1>3 DEF RInv, TermsGiven, ConfirmationRecorded

(* What apply_command does to the timeline, as the other lemmas use it.    *)
LEMMA ApplyShape ==
    ASSUME IInv, NEW o \in Orders, NEW command \in Command,
           NEW ctx \in GuardContexts, NEW ref \in InputRefs(command),
           ApplyCommand(o, command, ref, ctx)
    PROVE  /\ <<status[o], command, status'[o]>> \in Table
           /\ status[o] \in Status /\ status'[o] \in Status
           /\ status[o] # Absent /\ status'[o] # Absent
           /\ \A p \in Orders \ {o} : status'[p] = status[p] /\ timeline'[p] = timeline[p]
           /\ timeline'[o] = Append(timeline[o],
                 [from |-> status[o], command |-> command, to |-> status'[o]])
           /\ \A p \in Orders : \A c : Did(p, c)' <=> Did(p, c) \/ (p = o /\ c = command)
           /\ ~ Did(o, command)
           /\ UNCHANGED terms
<1>0. TypeOK /\ TimelineInv
  BY DEF IInv, TimelineInv
<1>1. PICK to \in Status :
        /\ <<status[o], command, to>> \in Table
        /\ status' = [status EXCEPT ![o] = to]
        /\ InsertTransition(o, status[o], command, to)
        /\ UNCHANGED terms
  BY DEF ApplyCommand, Transition, Defined
<1>2. /\ status'[o] = to
      /\ \A p \in Orders \ {o} : status'[p] = status[p]
  BY <1>0, <1>1 DEF TypeOK
<1>3. status[o] \in Status
  BY <1>1, TableTyped
<1>4. status[o] # Absent /\ to # Absent
  BY <1>3 DEF Status, Absent
<1>5. \A p \in Orders : \A c : Did(p, c)' <=> Did(p, c) \/ (p = o /\ c = command)
  BY <1>0, <1>1, DidInsert
<1>6. ~ Did(o, command)
  BY <1>0, <1>1, NotDoneYet
<1>7. /\ timeline'[o] = Append(timeline[o], [from |-> status[o], command |-> command, to |-> to])
      /\ \A p \in Orders \ {o} : timeline'[p] = timeline[p]
  BY <1>0, <1>1 DEF InsertTransition, TypeOK
<1> QED
  BY <1>1, <1>2, <1>3, <1>4, <1>5, <1>6, <1>7

(* Applying a command keeps terms and confirmations recorded.              *)
LEMMA ApplyRInv ==
    ASSUME RInv, NEW o \in Orders, NEW command \in Command,
           NEW ctx \in GuardContexts, NEW ref \in InputRefs(command),
           ApplyCommand(o, command, ref, ctx)
    PROVE  TermsGiven' /\ ConfirmationRecorded'
<1>1. /\ <<status[o], command, status'[o]>> \in Table
      /\ status[o] # Absent /\ status'[o] # Absent
      /\ \A p \in Orders \ {o} : status'[p] = status[p]
      /\ \A p \in Orders : \A c : Did(p, c)' <=> Did(p, c) \/ (p = o /\ c = command)
      /\ UNCHANGED terms
  BY ApplyShape DEF RInv
<1>2. TermsGiven'
  BY <1>1 DEF RInv, TermsGiven, YieldSourceAllowed
<1>3. /\ confirmation'[o] = IF ref = NoRef THEN confirmation[o] ELSE ref
      /\ \A p \in Orders \ {o} : confirmation'[p] = confirmation[p]
  BY DEF ApplyCommand, RecordConfirmation, RInv, IInv, TimelineInv, TypeOK
<1>4. command = "ConfirmTransferAgent" => ref # NoRef
  BY NullAssumption DEF ApplyCommand, ApplySideEffects, ConfirmationValid
<1>5. ref # NoRef => command \in {"ConfirmTransferAgent", "BookPosition"}
  BY DEF InputRefs
<1>6. command = "BookPosition" => Did(o, "ConfirmTransferAgent")
  BY <1>1, TableRegions DEF RInv, IInv, PathTaken
<1>7. ConfirmationRecorded'
  <2> SUFFICES ASSUME NEW p \in Orders
               PROVE  confirmation'[p] # NoRef <=> Did(p, "ConfirmTransferAgent")'
    BY DEF ConfirmationRecorded
  <2>1. confirmation[p] # NoRef <=> Did(p, "ConfirmTransferAgent")
    BY DEF RInv, ConfirmationRecorded
  <2>2. CASE p # o
    BY <2>1, <2>2, <1>1, <1>3
  <2>3. CASE p = o
    BY <2>1, <2>3, <1>1, <1>3, <1>4, <1>5, <1>6
  <2> QED
    BY <2>2, <2>3
<1> QED
  BY <1>2, <1>7

(* What the creation of an order changes.                                  *)
LEMMA CreateShape ==
    ASSUME IInv, NEW o \in Orders, NEW key \in Keys, NEW asked \in Terms,
           CreateOrder(o, key, asked)
    PROVE  /\ status[o] = Absent /\ status'[o] = "Created" /\ status'[o] # Absent
           /\ terms'[o] = asked /\ YieldSourceAllowed(asked.product)
           /\ \A p \in Orders \ {o} :
                 /\ status'[p] = status[p] /\ terms'[p] = terms[p]
                 /\ timeline'[p] = timeline[p]
           /\ timeline'[o] = Append(timeline[o],
                 [from |-> Absent, command |-> "CreateSweepOrder", to |-> "Created"])
           /\ \A p \in Orders : \A c :
                 Did(p, c)' <=> Did(p, c) \/ (p = o /\ c = "CreateSweepOrder")
<1>0. TypeOK /\ TimelineInv
  BY DEF IInv, TimelineInv
<1>1. /\ InsertTransition(o, Absent, "CreateSweepOrder", "Created")
      /\ status[o] = Absent /\ YieldSourceAllowed(asked.product)
      /\ status' = [status EXCEPT ![o] = "Created"]
      /\ terms' = [terms EXCEPT ![o] = asked]
  BY DEF CreateOrder
<1>2. \A p \in Orders : \A c : Did(p, c)' <=> Did(p, c) \/ (p = o /\ c = "CreateSweepOrder")
  BY <1>0, <1>1, DidInsert
<1>3. "Created" # Absent
  BY DEF Absent
<1> QED
  BY <1>0, <1>1, <1>2, <1>3 DEF InsertTransition, TypeOK

(* Creating an order gives it its terms.                                   *)
LEMMA CreateRInv ==
    ASSUME RInv, NEW o \in Orders, NEW key \in Keys, NEW asked \in Terms,
           CreateOrder(o, key, asked)
    PROVE  TermsGiven' /\ ConfirmationRecorded'
<1>1. TermsGiven'
  BY CreateShape DEF RInv, TermsGiven, YieldSourceAllowed
<1>2. UNCHANGED confirmation
  BY DEF CreateOrder
<1>3. ConfirmationRecorded'
  BY <1>2, CreateShape DEF RInv, ConfirmationRecorded
<1> QED
  BY <1>1, <1>3

(* Every operation preserves the inductive invariant.                      *)
LEMMA NextRInv == RInv /\ [Next]_storeVars => RInv'
<1> SUFFICES ASSUME RInv, [Next]_storeVars PROVE RInv'
  OBVIOUS
<1>1. IInv'
  BY NextIInv DEF RInv
<1>2. TermsGiven' /\ ConfirmationRecorded'
  <2>1. ASSUME NEW o \in Orders, NEW key \in Keys, NEW asked \in Terms,
               CreateOrder(o, key, asked)
        PROVE  TermsGiven' /\ ConfirmationRecorded'
    BY <2>1, CreateRInv
  <2>2. ASSUME NEW o \in Orders, NEW command \in Command, NEW ctx \in GuardContexts,
               NEW ref \in InputRefs(command), ApplyCommand(o, command, ref, ctx)
        PROVE  TermsGiven' /\ ConfirmationRecorded'
    BY <2>2, ApplyRInv
  <2>3. CASE UNCHANGED <<status, terms, confirmation, timeline>>
    BY <2>3 DEF RInv, TermsGiven, ConfirmationRecorded, YieldSourceAllowed, Did
  <2> QED
    BY <2>1, <2>2, <2>3 DEF Next, ResolveBreak, storeVars
<1> QED
  BY <1>1, <1>2 DEF RInv

(* The inductive invariant of the refinement holds in every reachable      *)
(* state of the order store.                                               *)
THEOREM RefinementInvariance == Spec => []RInv
BY InitRInv, NextRInv, PTL DEF Spec

-----------------------------------------------------------------------------
(* The mapped state in terms of the commands in the order's past.          *)

Times(condition) == IF condition THEN 1 ELSE 0

(* A ledger pair is two rows.                                              *)
LEMMA CardinalityPair ==
    ASSUME NEW x, NEW y, x # y
    PROVE  Cardinality({x} \union {y}) = 2
<1>1. IsFiniteSet({x}) /\ Cardinality({x}) = 1 /\ y \notin {x}
  BY FS_Singleton
<1> DEFINE S == {x}
<1> HIDE DEF S
<1>2. IsFiniteSet(S) /\ Cardinality(S) = 1 /\ y \notin S
  BY <1>1 DEF S
<1>3. Cardinality(S \union {y}) = Cardinality(S) + 1
  BY <1>2, FS_AddElement
<1> QED
  BY <1>2, <1>3 DEF S

(* At most one row per side for a lock and one for a booking.              *)
LEMMA RowsPosted ==
    ASSUME RInv, NEW o \in Orders, NEW side \in Side
    PROVE  Cardinality(Postings(o, side)) =
              Times(Did(o, "LockCash")) + Times(Did(o, "BookPosition"))
<1> DEFINE lock == [kind |-> "CashLock", asset |-> terms[o].cash, side |-> side]
           booking == [kind |-> "PositionBooking", asset |-> terms[o].product, side |-> side]
           rows == {r \in LedgerOwed(o) : r.side = side}
<1>1. Did(o, "LockCash") \/ Did(o, "BookPosition") => terms[o] \in [cash : Asset, product : Asset]
  BY AbsentDidNothing, TermsAssumption DEF RInv, IInv, TermsGiven
<1>2. LedgerOwed(o) \subseteq LedgerEntry
  BY <1>1 DEF LedgerOwed, BalancedPair, LedgerEntry, LedgerKind, Side
<1>3. Postings(o, side) = rows \X {1}
  <2>1. \A e \in LedgerEntry : ledger[o][e] = IF e \in LedgerOwed(o) THEN 1 ELSE 0
    BY DEF RInv, IInv, LedgerExact
  <2>2. 1 .. 1 = {1} /\ 1 .. 0 = {}
    OBVIOUS
  <2>3. \A e \in LedgerEntry : 1 .. ledger[o][e] = IF e \in LedgerOwed(o) THEN {1} ELSE {}
    BY <2>1, <2>2
  <2> HIDE DEF rows
  <2>4. \A x : x \in Postings(o, side) <=>
               \E e \in LedgerEntry : e.side = side /\ x \in {e} \X (1 .. ledger[o][e])
    <3> DEFINE mine == {x \in LedgerEntry : x.side = side}
               F(e) == {e} \X (1 .. ledger[o][e])
    <3>1. Postings(o, side) = UNION {F(e) : e \in mine}
      BY DEF Postings
    <3>2. \A e : e \in mine <=> e \in LedgerEntry /\ e.side = side
      OBVIOUS
    <3> HIDE DEF mine, F
    <3>3. \A x : x \in UNION {F(e) : e \in mine} <=> \E e \in mine : x \in F(e)
      OBVIOUS
    <3>4. \A x : x \in Postings(o, side) <=>
                 \E e \in LedgerEntry : e.side = side /\ x \in F(e)
      BY <3>1, <3>2, <3>3
    <3> QED
      BY <3>4 DEF F
  <2>5. \A x : x \in Postings(o, side) <=>
               \E e \in LedgerEntry : e.side = side /\ e \in LedgerOwed(o) /\ x \in {e} \X {1}
    <3>1. ASSUME NEW e \in LedgerEntry, NEW x
          PROVE  x \in {e} \X (1 .. ledger[o][e]) <=> e \in LedgerOwed(o) /\ x \in {e} \X {1}
      <4>1. CASE e \in LedgerOwed(o)
        BY <2>3, <4>1
      <4>2. CASE e \notin LedgerOwed(o)
        <5>1. 1 .. ledger[o][e] = {}
          BY <2>3, <4>2
        <5> QED
          BY <5>1, <4>2
      <4> QED
        BY <4>1, <4>2
    <3> QED
      BY <2>4, <3>1
  <2>6. \A x : x \in rows \X {1} <=>
               \E e \in LedgerEntry : e.side = side /\ e \in LedgerOwed(o) /\ x \in {e} \X {1}
    BY <1>2 DEF rows
  <2>7. \A x : x \in Postings(o, side) <=> x \in rows \X {1}
    BY <2>5, <2>6
  <2> QED
    BY <2>7
<1>4. rows = (IF Did(o, "LockCash") THEN {lock} ELSE {})
             \union (IF Did(o, "BookPosition") THEN {booking} ELSE {})
  BY DEF LedgerOwed, BalancedPair, Side
<1>5. lock # booking
  OBVIOUS
<1> HIDE DEF lock, booking, rows
<1>6. Postings(o, side) = (IF Did(o, "LockCash") THEN {<<lock, 1>>} ELSE {})
                          \union (IF Did(o, "BookPosition") THEN {<<booking, 1>>} ELSE {})
  BY <1>3, <1>4
<1>7. <<lock, 1>> # <<booking, 1>>
  BY <1>5
<1>8. /\ IsFiniteSet({}) /\ Cardinality({}) = 0
      /\ \A x : IsFiniteSet({x}) /\ Cardinality({x}) = 1
  BY FS_EmptySet, FS_Singleton
<1>9. Cardinality({<<lock, 1>>} \union {<<booking, 1>>}) = 2
  BY <1>7, CardinalityPair
<1> DEFINE a == {<<lock, 1>>}
           b == {<<booking, 1>>}
<1>10. Cardinality(a) = 1 /\ Cardinality(b) = 1 /\ Cardinality(a \union b) = 2
  BY <1>8, <1>9
<1> HIDE DEF a, b
<1>11. Postings(o, side) = (IF Did(o, "LockCash") THEN a ELSE {})
                           \union (IF Did(o, "BookPosition") THEN b ELSE {})
  BY <1>6 DEF a, b
<1>12. CASE Did(o, "LockCash") /\ Did(o, "BookPosition")
  BY <1>10, <1>11, <1>12 DEF Times
<1>13. CASE Did(o, "LockCash") /\ ~ Did(o, "BookPosition")
  <2>1. Postings(o, side) = a
    BY <1>11, <1>13
  <2> QED
    BY <2>1, <1>10, <1>13 DEF Times
<1>14. CASE ~ Did(o, "LockCash") /\ Did(o, "BookPosition")
  <2>1. Postings(o, side) = b
    BY <1>11, <1>14
  <2> QED
    BY <2>1, <1>10, <1>14 DEF Times
<1>15. CASE ~ Did(o, "LockCash") /\ ~ Did(o, "BookPosition")
  <2>1. Postings(o, side) = {}
    BY <1>11, <1>15
  <2> QED
    BY <2>1, <1>8, <1>15 DEF Times
<1> QED
  BY <1>12, <1>13, <1>14, <1>15

(* Each pair is counted once, on both sides alike, in its own asset.       *)
EffectsCounted ==
    \A o \in Orders :
        /\ \A side \in Side :
              Posted(o, side) = Times(Did(o, "LockCash")) + Times(Did(o, "BookPosition"))
        /\ PostedAssets(o) = (IF Did(o, "LockCash") THEN {terms[o].cash} ELSE {})
                             \union (IF Did(o, "BookPosition") THEN {terms[o].product} ELSE {})

(* The assets with rows are those of the pairs owed.                       *)
LEMMA AssetsPosted ==
    ASSUME RInv, NEW o \in Orders
    PROVE  PostedAssets(o) = (IF Did(o, "LockCash") THEN {terms[o].cash} ELSE {})
                             \union (IF Did(o, "BookPosition") THEN {terms[o].product} ELSE {})
<1> DEFINE lock(side) == [kind |-> "CashLock", asset |-> terms[o].cash, side |-> side]
           booking(side) == [kind |-> "PositionBooking", asset |-> terms[o].product,
                             side |-> side]
<1>1. Did(o, "LockCash") \/ Did(o, "BookPosition") => terms[o] \in [cash : Asset, product : Asset]
  BY AbsentDidNothing, TermsAssumption DEF RInv, IInv, TermsGiven
<1>2. \A e \in LedgerEntry : ledger[o][e] > 0 <=> e \in LedgerOwed(o)
  <2>1. \A e \in LedgerEntry : ledger[o][e] = IF e \in LedgerOwed(o) THEN 1 ELSE 0
    BY DEF RInv, IInv, LedgerExact
  <2> QED
    BY <2>1
<1>3. \A e : e \in LedgerOwed(o) <=>
             \/ Did(o, "LockCash") /\ \E side \in Side : e = lock(side)
             \/ Did(o, "BookPosition") /\ \E side \in Side : e = booking(side)
  BY DEF LedgerOwed, BalancedPair
<1>4. \A e \in LedgerOwed(o) : e \in LedgerEntry
  BY <1>1, <1>3 DEF LedgerEntry, LedgerKind
<1>5. \A x : x \in PostedAssets(o) <=> \E e \in LedgerOwed(o) : x = e.asset
  BY <1>2, <1>4 DEF PostedAssets
<1>6. \A side : lock(side).asset = terms[o].cash /\ booking(side).asset = terms[o].product
  OBVIOUS
<1>7. "Debit" \in Side
  BY DEF Side
<1> HIDE DEF lock, booking
<1>8. \A x : x \in PostedAssets(o) <=>
             \/ Did(o, "LockCash") /\ x = terms[o].cash
             \/ Did(o, "BookPosition") /\ x = terms[o].product
  BY <1>3, <1>5, <1>6, <1>7
<1> QED
  BY <1>8

(* The effects counted row by row are those of the commands applied.       *)
LEMMA EffectsPosted == RInv => EffectsCounted
BY RowsPosted, AssetsPosted DEF EffectsCounted, Posted

-----------------------------------------------------------------------------
(* The steps.                                                              *)

(* The table of sweep.rs is the abstract model's Sources and Target.       *)
LEMMA TableIsAbstract ==
    ASSUME NEW o \in Orders, NEW s, NEW c, NEW t, <<s, c, t>> \in Table
    PROVE  s \in AbstractOrder(o)!Sources[c] /\ t = AbstractOrder(o)!Target[c]
<1>1. CASE c = "Cancel"
  BY <1>1 DEF Table, Cancellable, Interruptible, AbstractOrder!Sources, AbstractOrder!Target
<1>2. CASE c = "OpenException"
  <2>1. s \in Interruptible /\ t = "ExceptionOpen"
    BY <1>2 DEF Table, Cancellable
  <2>2. AbstractOrder(o)!Status = Status
    BY DEF AbstractOrder!Status, Status
  <2> QED
    BY <2>1, <2>2, <1>2 DEF Interruptible, AbstractOrder!Sources, AbstractOrder!Target
<1>3. CASE c \notin {"Cancel", "OpenException"}
  <2>1. s \in AbstractOrder(o)!Sources[c]
    BY <1>3 DEF Table, AbstractOrder!Sources
  <2>2. t = AbstractOrder(o)!Target[c]
    BY <1>3 DEF Table, AbstractOrder!Target
  <2> QED
    BY <2>1, <2>2
<1> QED
  BY <1>1, <1>2, <1>3

(* An order no transaction touched stays where it is.                      *)
LEMMA OthersStay ==
    ASSUME NEW o \in Orders,
           UNCHANGED <<status[o], terms[o], positions[o], confirmation[o],
                       timeline[o], ledger[o]>>
    PROVE  UNCHANGED AbstractOrder(o)!vars
BY DEF AbstractOrder!vars, ProductOf, Posted, PostedAssets, Postings, Did

(* Every order starts as the abstract model does.                          *)
LEMMA InitIsAbstract == Init => AbstractInit
<1> SUFFICES ASSUME Init, NEW o \in Orders PROVE AbstractOrder(o)!Init
  BY DEF AbstractInit
<1>1. RInv
  BY InitRInv
<1>2. /\ status[o] = Absent /\ positions[o] = NoRef /\ confirmation[o] = NoRef
      /\ timeline[o] = <<>>
  BY DEF Init
<1>3. \A c : ~ Did(o, c)
  BY <1>1, <1>2, AbsentDidNothing DEF RInv, IInv
<1>4. Posted(o, "Debit") = 0 /\ Posted(o, "Credit") = 0 /\ PostedAssets(o) = {}
  BY <1>1, <1>3, EffectsPosted DEF EffectsCounted, Side, Times
<1>5. {timeline[o][i].to : i \in DOMAIN timeline[o]} = {}
  BY <1>2
<1>6. ~ (positions[o] # NoRef) /\ ~ (confirmation[o] # NoRef) /\ ~ Did(o, "ConfirmRedemption")
  BY <1>2, <1>3
<1>7. ProductOf(o) = NoTerms
  BY <1>2 DEF ProductOf
<1> QED
  BY <1>2, <1>4, <1>5, <1>6, <1>7 DEF AbstractOrder!Init, AbstractOrder!Absent, Absent

(* The invariants that the abstract model asserts after each action.       *)
AbstractlySound == \A o \in Orders : status[o] # Absent => AbstractOrder(o)!Invariants

(* The certifier's assertions follow from the inductive invariant.         *)
LEMMA AbstractInvariants == RInv => AbstractlySound
<1> SUFFICES ASSUME RInv, NEW o \in Orders, status[o] # Absent
             PROVE  AbstractOrder(o)!Invariants
  BY DEF AbstractlySound
<1> DEFINE seen == {timeline[o][i].to : i \in DOMAIN timeline[o]}
<1>1. AbstractOrder(o)!YieldBearingAllowed(ProductOf(o))
  BY DEF AbstractOrder!YieldBearingAllowed, ProductOf, RInv, TermsGiven, YieldSourceAllowed
<1>2. status[o] \in seen
  <2>1. timeline[o] \in Seq(TimelineEntry) /\ DOMAIN timeline[o] = 1 .. Len(timeline[o])
    BY DEF RInv, IInv, TimelineInv, TypeOK
  <2>2. Len(timeline[o]) # 0 /\ Len(timeline[o]) \in Nat
    BY <2>1 DEF RInv, IInv, TimelineInv, TimelineFaithful
  <2>3. timeline[o][Len(timeline[o])].to = status[o]
    BY <2>2 DEF RInv, IInv, TimelineInv, TimelineFaithful
  <2> QED
    BY <2>1, <2>2, <2>3
<1>3. positions[o] # NoRef => confirmation[o] # NoRef
  BY DEF RInv, IInv, PositionBacked
<1>4. status[o] = "Active" => "Reconciled" \in seen
  BY PastOfActive DEF RInv
<1>5. status[o] = "CashCredited" => "RedemptionConfirmed" \in seen
  BY PastOfCredited DEF RInv
<1>6. Posted(o, "Debit") = Posted(o, "Credit")
  BY EffectsPosted DEF EffectsCounted, Side
<1> QED
  BY <1>1, <1>2, <1>3, <1>4, <1>5, <1>6 DEF AbstractOrder!Invariants

(* create_sweep_order is the abstract creation.                            *)
LEMMA CreateIsAbstract ==
    ASSUME RInv, RInv', NEW o \in Orders, NEW key \in Keys, NEW asked \in Terms,
           CreateOrder(o, key, asked)
    PROVE  AbstractOrder(o)!Created(asked.product)
<1>1. /\ status[o] = Absent /\ status'[o] = "Created" /\ status'[o] # Absent
      /\ terms'[o] = asked /\ YieldSourceAllowed(asked.product)
      /\ timeline'[o] = Append(timeline[o],
            [from |-> Absent, command |-> "CreateSweepOrder", to |-> "Created"])
      /\ \A c : Did(o, c)' <=> Did(o, c) \/ c = "CreateSweepOrder"
  BY CreateShape DEF RInv
<1>2. timeline[o] = <<>>
  <2>1. timeline[o] \in Seq(TimelineEntry) /\ Len(timeline[o]) = 0
    BY <1>1 DEF RInv, IInv, TimelineInv, TypeOK, TimelineFaithful
  <2> QED
    BY <2>1
<1>3. {timeline'[o][i].to : i \in DOMAIN timeline'[o]} = {"Created"}
  <2>1. timeline'[o] = <<[from |-> Absent, command |-> "CreateSweepOrder", to |-> "Created"]>>
    BY <1>1, <1>2
  <2>2. DOMAIN timeline'[o] = {1} /\ timeline'[o][1].to = "Created"
    BY <2>1
  <2> QED
    BY <2>2
<1>4. ProductOf(o)' = asked.product
  BY <1>1 DEF ProductOf
<1>5. /\ \A side \in Side : Posted(o, side)' = 0 /\ Posted(o, side) = 0
      /\ PostedAssets(o)' = {} /\ PostedAssets(o) = {}
  <2>1. EffectsCounted /\ EffectsCounted'
    BY EffectsPosted, PTL
  <2>2. /\ ~ Did(o, "LockCash") /\ ~ Did(o, "BookPosition")
        /\ ~ Did(o, "LockCash")' /\ ~ Did(o, "BookPosition")'
    BY <1>1, AbsentDidNothing DEF RInv, IInv
  <2>3. \A side \in Side :
           /\ Posted(o, side) = Times(Did(o, "LockCash")) + Times(Did(o, "BookPosition"))
           /\ Posted(o, side)' = Times(Did(o, "LockCash")') + Times(Did(o, "BookPosition")')
    BY <2>1 DEF EffectsCounted, Times
  <2>4. \A side \in Side : Posted(o, side)' = 0 /\ Posted(o, side) = 0
    BY <2>2, <2>3 DEF Times
  <2>5. PostedAssets(o) = {}
    BY <2>1, <2>2 DEF EffectsCounted
  <2>6. PostedAssets(o)' = {}
    BY <2>1, <2>2 DEF EffectsCounted
  <2> QED
    BY <2>4, <2>5, <2>6
<1>6. /\ (positions'[o] # NoRef) = (positions[o] # NoRef)
      /\ (confirmation'[o] # NoRef) = (confirmation[o] # NoRef)
  BY DEF CreateOrder
<1>7. Did(o, "ConfirmRedemption")' = Did(o, "ConfirmRedemption")
  <2>1. Did(o, "ConfirmRedemption")' <=> Did(o, "ConfirmRedemption")
    BY <1>1
  <2> QED
    BY <2>1 DEF Did
<1> QED
  BY <1>1, <1>3, <1>4, <1>5, <1>6, <1>7
     DEF AbstractOrder!Created, AbstractOrder!Absent, Absent, Side,
         AbstractOrder!YieldBearingAllowed, YieldSourceAllowed

(* apply_command is the abstract action of its own name: what the abstract *)
(* model asks of the past is in the tables, and the ledger rows posted are *)
(* those it expects, but for two commands.                                 *)
LEMMA ApplyIsAbstract ==
    ASSUME RInv, RInv', NEW o \in Orders, NEW command \in Command,
           NEW ctx \in GuardContexts, NEW ref \in InputRefs(command),
           ApplyCommand(o, command, ref, ctx)
    PROVE  \/ command \notin {"LockCash", "CreditCash"} /\ AbstractOrder(o)!Apply(command)
           \/ LockedInCash(o)
           \/ CreditedUnposted(o)
<1> DEFINE seen == {timeline[o][i].to : i \in DOMAIN timeline[o]}
<1>1. /\ <<status[o], command, status'[o]>> \in Table
      /\ status[o] # Absent /\ status'[o] # Absent
      /\ timeline'[o] = Append(timeline[o],
            [from |-> status[o], command |-> command, to |-> status'[o]])
      /\ \A c : Did(o, c)' <=> Did(o, c) \/ c = command
      /\ ~ Did(o, command)
      /\ UNCHANGED terms
  BY ApplyShape DEF RInv
<1>2. /\ status[o] \in AbstractOrder(o)!Sources[command]
      /\ status'[o] = AbstractOrder(o)!Target[command]
  BY <1>1, TableIsAbstract
<1>3. timeline[o] \in Seq(TimelineEntry)
  BY DEF RInv, IInv, TimelineInv, TypeOK
<1>4. seen' = seen \union {status'[o]}
  <2> DEFINE n == Len(timeline[o])
  <2>1. /\ DOMAIN timeline[o] = 1 .. n /\ DOMAIN timeline'[o] = 1 .. n + 1 /\ n \in Nat
        /\ \A i \in 1 .. n : timeline'[o][i] = timeline[o][i]
        /\ timeline'[o][n + 1].to = status'[o]
    BY <1>1, <1>3
  <2>2. 1 .. n + 1 = (1 .. n) \union {n + 1}
    BY <2>1
  <2> HIDE DEF n
  <2>3. {timeline'[o][i].to : i \in DOMAIN timeline'[o]} =
        {timeline[o][i].to : i \in DOMAIN timeline[o]} \union {status'[o]}
    BY <2>1, <2>2
  <2> QED
    BY <2>3
<1>5. AbstractOrder(o)!Justified(command)
  <2>1. command = "Activate" => "Reconciled" \in seen
    <3>1. command = "Activate" => status[o] = "Reconciled"
      BY <1>1 DEF Table, Cancellable, Interruptible
    <3>2. status[o] = "Reconciled" => status[o] \in Locked
      BY DEF Locked, Status, Cancellable
    <3>3. status[o] \in Locked => status[o] \in seen
      BY LastRow DEF RInv
    <3> QED
      BY <3>1, <3>2, <3>3
  <2>2. command = "BookPosition" => confirmation[o] # NoRef
    BY <1>1, TableRegions DEF RInv, IInv, PathTaken, ConfirmationRecorded
  <2>3. command = "CreditCash" => Did(o, "ConfirmRedemption")
    <3>1. command = "CreditCash" => status[o] = "RedemptionConfirmed"
      BY <1>1 DEF Table, Cancellable, Interruptible
    <3> QED
      BY <3>1, PastOfConfirmed DEF RInv
  <2> QED
    BY <2>1, <2>2, <2>3 DEF AbstractOrder!Justified
<1> DEFINE pairs == IF command \in {"LockCash", "BookPosition"} THEN 1 ELSE 0
<1>6. /\ \A side \in Side : /\ Posted(o, side) \in Nat
                            /\ Posted(o, side)' = Posted(o, side) + pairs
      /\ PostedAssets(o)' = PostedAssets(o)
                            \union (IF command = "LockCash" THEN {terms[o].cash} ELSE {})
                            \union (IF command = "BookPosition" THEN {terms[o].product} ELSE {})
  <2>1. EffectsCounted /\ EffectsCounted'
    BY EffectsPosted, PTL
  <2>2. \A c : Did(o, c)' <=> Did(o, c) \/ c = command
    BY <1>1
  <2>3. ASSUME NEW c
        PROVE  /\ Times(Did(o, c)) \in Nat
               /\ Times(Did(o, c)') = Times(Did(o, c)) + (IF command = c THEN 1 ELSE 0)
    BY <1>1 DEF Times
  <2>4. /\ Times(Did(o, "LockCash")) \in Nat
        /\ Times(Did(o, "LockCash")') =
             Times(Did(o, "LockCash")) + (IF command = "LockCash" THEN 1 ELSE 0)
    BY <2>3
  <2>5. /\ Times(Did(o, "BookPosition")) \in Nat
        /\ Times(Did(o, "BookPosition")') =
             Times(Did(o, "BookPosition")) + (IF command = "BookPosition" THEN 1 ELSE 0)
    BY <2>3
  <2>6. \A side \in Side :
           /\ Posted(o, side) = Times(Did(o, "LockCash")) + Times(Did(o, "BookPosition"))
           /\ Posted(o, side)' = Times(Did(o, "LockCash")') + Times(Did(o, "BookPosition")')
    BY <2>1 DEF EffectsCounted, Times
  <2>7. \A side \in Side : /\ Posted(o, side) \in Nat
                           /\ Posted(o, side)' = Posted(o, side) + pairs
    BY <2>4, <2>5, <2>6
  <2>8. /\ PostedAssets(o) = (IF Did(o, "LockCash") THEN {terms[o].cash} ELSE {})
                             \union (IF Did(o, "BookPosition") THEN {terms[o].product} ELSE {})
        /\ PostedAssets(o)' = (IF Did(o, "LockCash")' THEN {terms'[o].cash} ELSE {})
                              \union (IF Did(o, "BookPosition")' THEN {terms'[o].product} ELSE {})
    BY <2>1 DEF EffectsCounted
  <2>9. PostedAssets(o)' = PostedAssets(o)
                            \union (IF command = "LockCash" THEN {terms[o].cash} ELSE {})
                            \union (IF command = "BookPosition" THEN {terms[o].product} ELSE {})
    BY <2>2, <2>8, <1>1
  <2> QED
    BY <2>7, <2>9
<1>7. ProductOf(o)' = ProductOf(o)
  BY <1>1 DEF ProductOf
<1>8. (positions'[o] # NoRef) = (positions[o] # NoRef \/ command = "BookPosition")
  <2>1. positions'[o] # NoRef <=> Did(o, "BookPosition")'
    BY DEF RInv, IInv, PositionBacked
  <2>2. positions[o] # NoRef <=> Did(o, "BookPosition")
    BY DEF RInv, IInv, PositionBacked
  <2> QED
    BY <1>1, <2>1, <2>2
<1>9. (confirmation'[o] # NoRef) = (confirmation[o] # NoRef \/ command = "ConfirmTransferAgent")
  <2>1. confirmation'[o] # NoRef <=> Did(o, "ConfirmTransferAgent")'
    BY DEF RInv, ConfirmationRecorded
  <2>2. confirmation[o] # NoRef <=> Did(o, "ConfirmTransferAgent")
    BY DEF RInv, ConfirmationRecorded
  <2> QED
    BY <1>1, <2>1, <2>2
<1>10. Did(o, "ConfirmRedemption")' = (Did(o, "ConfirmRedemption") \/ command = "ConfirmRedemption")
  <2>1. Did(o, "ConfirmRedemption")' <=> Did(o, "ConfirmRedemption") \/ command = "ConfirmRedemption"
    BY <1>1
  <2> QED
    BY <2>1 DEF Did
<1>11. status'[o] = "PositionBooked" <=> command = "BookPosition"
  BY <1>1 DEF Table, Cancellable, Interruptible
<1>13. AbstractOrder(o)!Invariants'
  <2>1. AbstractlySound'
    BY AbstractInvariants, PTL
  <2> QED
    BY <2>1, <1>1 DEF AbstractlySound, Absent
<1>14. AbstractOrder(o)!Follows(command)
  BY <1>2, <1>4, <1>5, <1>7, <1>9, <1>10, <1>13 DEF AbstractOrder!Follows
<1> HIDE DEF seen
<1>15. CASE command = "LockCash"
  <2>1. Cardinality({terms[o].cash}) = 1
    BY FS_Singleton
  <2>2. (positions[o] # NoRef)' = (positions[o] # NoRef)
    BY <1>8, <1>15
  <2> QED
    BY <1>6, <1>14, <1>15, <2>1, <2>2 DEF LockedInCash, Posts
<1>16. CASE command = "CreditCash"
  <2>1. Cardinality({}) = 0
    BY FS_EmptySet
  <2>2. (positions[o] # NoRef)' = (positions[o] # NoRef)
    BY <1>8, <1>16
  <2> QED
    BY <1>6, <1>14, <1>16, <2>1, <2>2 DEF CreditedUnposted, Posts
<1>17. CASE command = "BookPosition"
  <2>1. /\ Posted(o, "Debit")' = Posted(o, "Debit") + 1
        /\ Posted(o, "Credit")' = Posted(o, "Credit") + 1
    BY <1>6, <1>17 DEF Side
  <2>2. PostedAssets(o)' = PostedAssets(o) \union {ProductOf(o)}
    BY <1>1, <1>6, <1>17 DEF ProductOf
  <2>3. (positions'[o] # NoRef) = (positions[o] # NoRef \/ status'[o] = "PositionBooked")
    BY <1>8, <1>11
  <2>4. AbstractOrder(o)!Effect(command)
    BY <1>17, <2>1, <2>2, <2>3
       DEF AbstractOrder!Effect, AbstractOrder!AddBalancedLedgerEffect
  <2> QED
    BY <1>14, <1>17, <2>4 DEF AbstractOrder!Apply
<1>18. CASE command \notin {"LockCash", "BookPosition", "CreditCash"}
  <2>1. /\ Posted(o, "Debit")' = Posted(o, "Debit")
        /\ Posted(o, "Credit")' = Posted(o, "Credit")
        /\ PostedAssets(o)' = PostedAssets(o)
    BY <1>6, <1>18 DEF Side
  <2>2. (positions'[o] # NoRef) = (positions[o] # NoRef)
    BY <1>8, <1>18
  <2>3. AbstractOrder(o)!Effect(command)
    BY <1>18, <2>1, <2>2 DEF AbstractOrder!Effect
  <2> QED
    BY <1>14, <1>18, <2>3 DEF AbstractOrder!Apply
<1> QED
  BY <1>15, <1>16, <1>17, <1>18

(* Every step of the store is, for each order, a step of its abstract      *)
(* order, one of the two that post other rows, or none.                    *)
LEMMA StepIsAbstract == RInv /\ RInv' /\ [Next]_storeVars => AbstractStep
<1> DEFINE Allowed(p) ==
              \/ \E asset \in Asset : AbstractOrder(p)!Created(asset)
              \/ \E action \in Command \ {"LockCash", "CreditCash"} :
                    AbstractOrder(p)!Apply(action)
              \/ LockedInCash(p) \/ CreditedUnposted(p)
              \/ UNCHANGED AbstractOrder(p)!vars
<1> SUFFICES ASSUME RInv, RInv', [Next]_storeVars, NEW p \in Orders
             PROVE  Allowed(p)
  BY DEF AbstractStep
<1>1. ASSUME NEW o \in Orders, NEW key \in Keys, NEW asked \in Terms,
             CreateOrder(o, key, asked)
      PROVE  Allowed(p)
  <2>1. CASE p = o
    <3>1. AbstractOrder(o)!Created(asked.product)
      BY <1>1, CreateIsAbstract
    <3>2. asked.product \in Asset
      BY TermsAssumption
    <3> QED
      BY <2>1, <3>1, <3>2
  <2>2. CASE p # o
    <3>1. UNCHANGED <<status[p], terms[p], timeline[p]>>
      BY <1>1, <2>2, CreateShape DEF RInv
    <3>2. UNCHANGED <<positions[p], confirmation[p], ledger[p]>>
      BY <1>1 DEF CreateOrder
    <3> QED
      BY <3>1, <3>2, OthersStay
  <2> QED
    BY <2>1, <2>2
<1>2. ASSUME NEW o \in Orders, NEW command \in Command, NEW ctx \in GuardContexts,
             NEW ref \in InputRefs(command), ApplyCommand(o, command, ref, ctx)
      PROVE  Allowed(p)
  <2>1. CASE p = o
    <3>1. \/ command \notin {"LockCash", "CreditCash"} /\ AbstractOrder(o)!Apply(command)
          \/ LockedInCash(o)
          \/ CreditedUnposted(o)
      BY <1>2, ApplyIsAbstract
    <3> QED
      BY <2>1, <3>1
  <2>2. CASE p # o
    <3>1. UNCHANGED <<status[p], terms[p], timeline[p]>>
      BY <1>2, <2>2, ApplyShape DEF RInv
    <3>2. UNCHANGED <<positions[p], confirmation[p], ledger[p]>>
      <4>1. TypeOK
        BY DEF RInv, IInv, TimelineInv
      <4>2. confirmation'[p] = confirmation[p]
        BY <1>2, <2>2, <4>1 DEF ApplyCommand, RecordConfirmation, TypeOK
      <4>3. positions'[p] = positions[p]
        BY <1>2, <2>2, <4>1
           DEF ApplyCommand, ApplySideEffects, LockCashEffect, BookPositionEffect,
               OpenExceptionEffect, TypeOK
      <4>4. ledger'[p] = ledger[p]
        BY <1>2, <2>2, <4>1
           DEF ApplyCommand, ApplySideEffects, LockCashEffect, BookPositionEffect,
               OpenExceptionEffect, InsertLedgerPair, TypeOK
      <4> QED
        BY <4>2, <4>3, <4>4
    <3> QED
      BY <3>1, <3>2, OthersStay
  <2> QED
    BY <2>1, <2>2
<1>3. CASE UNCHANGED <<status, terms, positions, confirmation, timeline, ledger>>
  BY <1>3, OthersStay
<1> QED
  BY <1>1, <1>2, <1>3 DEF Next, ResolveBreak, storeVars

(* The order store implements abstract_refinement.rs but for the rows of a *)
(* cash lock and a cash credit, for any number of orders, callers and      *)
(* retries.                                                                *)
THEOREM StoreFollowsAbstract == Spec => FollowsAbstractSweep
<1>1. Init => AbstractInit
  BY InitIsAbstract
<1>2. RInv /\ RInv' /\ [Next]_storeVars => [AbstractStep]_storeVars
  BY StepIsAbstract
<1> QED
  BY <1>1, <1>2, RefinementInvariance, PTL DEF Spec, FollowsAbstractSweep
=============================================================================
