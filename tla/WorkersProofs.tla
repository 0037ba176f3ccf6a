---------------------------- MODULE WorkersProofs ----------------------------
(***************************************************************************)
(* Proofs about Workers: for any number of workers, approvers, orders,     *)
(* messages and receives, and under every fault, a message is handled at   *)
(* most once, one worker books, and the reconciliation worker comes after  *)
(* the booking and before any redemption.                                  *)
(***************************************************************************)
EXTENDS Workers, SweepOrdersProofs

-----------------------------------------------------------------------------
(* The commands a worker may still have to apply.                          *)

ChainCommands == {"CheckEligibility", "CheckDisclosures", "Approve", "LockCash",
                  "SubmitSubscription"}
ApprovalCommands == {"CheckEligibility", "CheckDisclosures", "Approve"}
ToBook == {<<"ConfirmTransferAgent", "BookPosition">>, <<"BookPosition">>}
ToDecide == {<<"Reconcile", "Activate">>, <<"Activate">>, <<"OpenException">>}

(* Lists of two commands, of one command, and of any number.               *)
LEMMA SeqTwo ==
    ASSUME NEW S, NEW a \in S, NEW b \in S
    PROVE  /\ <<a, b>> \in Seq(S) /\ Head(<<a, b>>) = a /\ Tail(<<a, b>>) = <<b>>
           /\ <<a, b>> # <<>> /\ <<a, b>> # <<a>> /\ <<a, b>> # <<b>>
OBVIOUS

LEMMA SeqOne ==
    ASSUME NEW S, NEW a \in S
    PROVE  /\ <<a>> \in Seq(S) /\ Head(<<a>>) = a /\ Tail(<<a>>) = <<>> /\ <<a>> # <<>>
OBVIOUS

LEMMA SeqMore ==
    ASSUME NEW S, NEW s \in Seq(S), s # <<>>
    PROVE  Head(s) \in S /\ Tail(s) \in Seq(S)
OBVIOUS

(* The transfer-agent worker's chain is made of its five commands.         *)
LEMMA ChainTyped == Chain \in Seq(ChainCommands)
<1>1. \A i \in 1 .. 5 : Chain[i] \in ChainCommands
  BY DEF Chain, ChainCommands
<1>2. Chain = [i \in 1 .. 5 |-> Chain[i]]
  BY DEF Chain
<1> QED
  BY <1>1, <1>2

(* Lists that grow shorter keep their shape.                               *)
LEMMA BookShape ==
    ASSUME NEW t \in ToBook
    PROVE  /\ t # <<>> /\ Head(t) \in {"ConfirmTransferAgent", "BookPosition"}
           /\ Tail(t) = <<>> \/ Tail(t) = <<"BookPosition">>
           /\ Tail(t) = <<"BookPosition">> => Head(t) = "ConfirmTransferAgent"
<1>1. CASE t = <<"ConfirmTransferAgent", "BookPosition">>
  <2>1. /\ t # <<>> /\ Head(t) = "ConfirmTransferAgent" /\ Tail(t) = <<"BookPosition">>
    BY <1>1
  <2> QED
    BY <2>1
<1>2. CASE t = <<"BookPosition">>
  <2>1. /\ t # <<>> /\ Head(t) = "BookPosition" /\ Tail(t) = <<>>
    BY <1>2
  <2>2. <<>> # <<"BookPosition">>
    OBVIOUS
  <2> QED
    BY <2>1, <2>2
<1> QED
  BY <1>1, <1>2 DEF ToBook

(* The same for the reconciliation worker's lists.                         *)
LEMMA DecideShape ==
    ASSUME NEW t \in ToDecide
    PROVE  /\ t # <<>> /\ Head(t) \in {"Reconcile", "Activate", "OpenException"}
           /\ Tail(t) = <<>> \/ Tail(t) = <<"Activate">>
<1>1. CASE t = <<"Reconcile", "Activate">>
  <2>1. /\ t # <<>> /\ Head(t) = "Reconcile" /\ Tail(t) = <<"Activate">>
    BY <1>1
  <2> QED
    BY <2>1
<1>2. CASE t = <<"Activate">>
  BY <1>2
<1>3. CASE t = <<"OpenException">>
  BY <1>3
<1> QED
  BY <1>1, <1>2, <1>3 DEF ToDecide

(* All of them are lists of commands.                                      *)
LEMMA ShapesTyped == ToBook \union ToDecide \subseteq Seq(Command)
<1>1. {"ConfirmTransferAgent", "BookPosition", "Reconcile", "Activate", "OpenException"}
        \subseteq Command
  BY DEF Command
<1> DEFINE C == Command
<1> HIDE DEF C
<1>2. /\ "ConfirmTransferAgent" \in C /\ "BookPosition" \in C /\ "Reconcile" \in C
      /\ "Activate" \in C /\ "OpenException" \in C
  BY <1>1 DEF C
<1>3. /\ <<"ConfirmTransferAgent", "BookPosition">> \in Seq(C)
      /\ <<"Reconcile", "Activate">> \in Seq(C)
      /\ <<"BookPosition">> \in Seq(C) /\ <<"Activate">> \in Seq(C)
      /\ <<"OpenException">> \in Seq(C)
  BY <1>2
<1> QED
  BY <1>3 DEF C, ToBook, ToDecide

(* The last step of a booking is told apart from every other list.         *)
LEMMA ShapesDiffer ==
    /\ <<"BookPosition">> \notin ToDecide
    /\ \A t \in ToDecide : Tail(t) # <<"BookPosition">>
    /\ <<"ConfirmTransferAgent", "BookPosition">> # <<"BookPosition">>
<1>1. <<"BookPosition">> \notin ToDecide
  BY DEF ToDecide
<1>2. <<"Activate">> # <<"BookPosition">> /\ <<>> # <<"BookPosition">>
  OBVIOUS
<1>3. \A t \in ToDecide : Tail(t) # <<"BookPosition">>
  BY <1>2, DecideShape
<1> QED
  BY <1>1, <1>3

-----------------------------------------------------------------------------
(* Types, and how a worker's message and commands fit its step.            *)

IsBooked(m) == m.consumer = "reconciliation" /\ m.event = "SweepPositionBooked"

WTyped ==
    /\ queue \in [Deliveries -> Places]
    /\ receives \in [Deliveries -> 0 .. MaxReceives]
    /\ inbox \subseteq Deliveries
    /\ pc \in [Worker -> Pc]
    /\ held \in [Worker -> Deliveries \union {NoDelivery}]
    /\ todo \in [Worker -> Seq(Command)]
    /\ mismatch \in BOOLEAN
    /\ handled \in [Deliveries -> Nat]
    /\ succeeded \subseteq Deliveries
    /\ request \in [Approvers -> [step : {"none", "read", "apply", "done"},
                                  order : Orders \union {NoOrder},
                                  todo : Seq(ApprovalCommands)]]

WorkerFits(w) ==
    /\ pc[w] = "idle" <=> held[w] = NoDelivery
    /\ pc[w] \in {"check", "applyChecked"} => todo[w] \in Seq(ChainCommands)
    /\ pc[w] = "applyChecked" => todo[w] # <<>>
    /\ pc[w] \notin {"idle", "record"} => held[w] \in inbox
    /\ pc[w] \in {"review", "readMismatch"} => IsBooked(held[w])
    /\ pc[w] = "apply" => todo[w] \in ToBook \/ (todo[w] \in ToDecide /\ IsBooked(held[w]))

RequestFits(a) ==
    /\ request[a].step \in {"read", "apply"} => request[a].order \in Orders
    /\ request[a].step = "apply" => request[a].todo # <<>>

WBase ==
    /\ WTyped
    /\ \A w \in Worker : WorkerFits(w)
    /\ \A a \in Approvers : RequestFits(a)

(* Every worker starts idle.                                               *)
LEMMA InitBase == WInit => WBase
<1> SUFFICES ASSUME WInit PROVE WBase
  OBVIOUS
<1>1. <<>> \in Seq(Command) /\ <<>> \in Seq(ApprovalCommands)
  OBVIOUS
<1>2. NoRequest \in [step : {"none", "read", "apply", "done"},
                     order : Orders \union {NoOrder}, todo : Seq(ApprovalCommands)]
  BY <1>1 DEF NoRequest
<1>3. WTyped
  <2>1. 0 \in 0 .. MaxReceives /\ "idle" \in Pc
    BY DeliveryAssumption DEF Pc
  <2> QED
    BY <1>1, <1>2, <2>1 DEF WInit, WTyped, Places
<1>4. \A w \in Worker : WorkerFits(w)
  BY DEF WInit, WorkerFits
<1>5. \A a \in Approvers : RequestFits(a)
  BY DEF WInit, RequestFits, NoRequest
<1> QED
  BY <1>3, <1>4, <1>5 DEF WBase

(* A worker's step concerns no other worker: the inbox only grows.         *)
OnlyWorker(w) ==
    /\ \E p, h, t : /\ pc' = [pc EXCEPT ![w] = p]
                    /\ held' = [held EXCEPT ![w] = h]
                    /\ todo' = [todo EXCEPT ![w] = t]
    /\ inbox \subseteq inbox'
    /\ UNCHANGED <<request, mismatch>>

(* The other workers still fit their step.                                 *)
LEMMA OthersFit ==
    ASSUME WBase, NEW w \in Worker, OnlyWorker(w), NEW x \in Worker, x # w
    PROVE  WorkerFits(x)'
BY DEF WBase, WTyped, OnlyWorker, WorkerFits, IsBooked

(* A worker's step that leaves it fitting its new step keeps the types.    *)
LEMMA StepBase ==
    ASSUME WBase, NEW w \in Worker, OnlyWorker(w), WorkerFits(w)',
           pc'[w] \in Pc, held'[w] \in Deliveries \union {NoDelivery}, todo'[w] \in Seq(Command),
           queue' \in [Deliveries -> Places],
           receives' \in [Deliveries -> 0 .. MaxReceives], inbox' \subseteq Deliveries,
           handled' \in [Deliveries -> Nat], succeeded' \subseteq Deliveries
    PROVE  WBase'
<1>1. \A x \in Worker : WorkerFits(x)'
  BY OthersFit
<1>2. WTyped'
  BY DEF WBase, WTyped, OnlyWorker
<1>3. \A a \in Approvers : RequestFits(a)'
  BY DEF WBase, RequestFits, OnlyWorker
<1> QED
  BY <1>1, <1>2, <1>3 DEF WBase

(* Going to the next message keeps the types.                              *)
LEMMA DropBase ==
    ASSUME WBase, NEW w \in Worker, Drop(w),
           UNCHANGED <<receives, inbox, handled, succeeded, request, mismatch>>,
           queue' \in [Deliveries -> Places]
    PROVE  WBase'
<1>1. pc'[w] = "idle" /\ held'[w] = NoDelivery /\ todo'[w] = <<>>
  BY DEF Drop, WBase, WTyped
<1>2. OnlyWorker(w)
  BY DEF Drop, OnlyWorker
<1>3. WorkerFits(w)'
  BY <1>1 DEF WorkerFits
<1>4. <<>> \in Seq(Command) /\ "idle" \in Pc
  BY DEF Pc
<1> QED
  BY <1>1, <1>2, <1>3, <1>4, StepBase DEF WBase, WTyped

(* A handler that returns Ok keeps the types.                              *)
LEMMA OkBase ==
    ASSUME WBase, NEW w \in Worker, HandlerOk(w), held[w] \in inbox,
           UNCHANGED <<queue, receives, inbox, handled, held, request, mismatch>>
    PROVE  WBase'
<1>1. pc'[w] = "delete" /\ held'[w] = held[w] /\ todo'[w] = <<>>
  BY DEF HandlerOk, WBase, WTyped
<1>2. held[w] \in Deliveries /\ held[w] # NoDelivery
  BY DeliveryAssumption DEF WBase, WTyped
<1>3. OnlyWorker(w)
  <2>1. held' = [held EXCEPT ![w] = held[w]]
    BY DEF WBase, WTyped
  <2> QED
    BY <2>1 DEF HandlerOk, OnlyWorker
<1>4. WorkerFits(w)'
  BY <1>1, <1>2 DEF WorkerFits
<1>5. <<>> \in Seq(Command) /\ "delete" \in Pc
  BY DEF Pc
<1>6. succeeded' \subseteq Deliveries
  BY <1>2 DEF HandlerOk, WBase, WTyped
<1> QED
  BY <1>1, <1>2, <1>3, <1>4, <1>5, <1>6, StepBase DEF WBase, WTyped

(* A step that keeps the message and changes the list or the step only.    *)
LEMMA MoveBase ==
    ASSUME WBase, NEW w \in Worker, NEW p \in Pc, NEW t \in Seq(Command),
           p \notin {"idle", "record"}, pc[w] \notin {"idle", "record"},
           pc' = [pc EXCEPT ![w] = p], todo' = [todo EXCEPT ![w] = t],
           UNCHANGED <<messageVars, held, request, mismatch>>,
           p \in {"check", "applyChecked"} => t \in Seq(ChainCommands),
           p = "applyChecked" => t # <<>>,
           p \in {"review", "readMismatch"} => IsBooked(held[w]),
           p = "apply" => t \in ToBook \/ (t \in ToDecide /\ IsBooked(held[w]))
    PROVE  WBase'
<1>1. pc'[w] = p /\ held'[w] = held[w] /\ todo'[w] = t
  BY DEF WBase, WTyped
<1>2. held[w] \in inbox /\ held[w] # NoDelivery /\ held[w] \in Deliveries
  BY DEF WBase, WTyped, WorkerFits
<1>3. OnlyWorker(w)
  <2>1. held' = [held EXCEPT ![w] = held[w]]
    BY DEF WBase, WTyped
  <2> QED
    BY <2>1 DEF OnlyWorker, messageVars
<1>4. WorkerFits(w)'
  BY <1>1, <1>2 DEF WorkerFits, IsBooked, messageVars
<1> QED
  BY <1>1, <1>2, <1>3, <1>4, StepBase DEF WBase, WTyped, messageVars

(* The chain is a list of commands.                                        *)
LEMMA ChainCommandsTyped == ChainCommands \subseteq Command /\ ApprovalCommands \subseteq Command
BY DEF ChainCommands, ApprovalCommands, Command

(* Receiving a message keeps the types.                                    *)
LEMMA ReceiveBase ==
    ASSUME WBase, NEW w \in Worker, NEW m \in Deliveries, Receive(w, m)
    PROVE  WBase'
<1>1. pc'[w] = "record" /\ held'[w] = m /\ todo'[w] = todo[w]
  BY DEF Receive, WBase, WTyped
<1>2. receives[m] + 1 \in 0 .. MaxReceives
  BY DeliveryAssumption DEF Receive, WBase, WTyped
<1>3. OnlyWorker(w)
  <2>1. todo' = [todo EXCEPT ![w] = todo[w]]
    BY DEF Receive, WBase, WTyped
  <2> QED
    BY <2>1 DEF Receive, OnlyWorker
<1>4. WorkerFits(w)'
  BY <1>1, DeliveryAssumption DEF WorkerFits
<1>5. "record" \in Pc
  BY DEF Pc
<1>6. receives' \in [Deliveries -> 0 .. MaxReceives]
  BY <1>2 DEF Receive, WBase, WTyped
<1> QED
  BY <1>1, <1>3, <1>4, <1>5, <1>6, StepBase DEF Receive, WBase, WTyped, Places

(* Recording a message in the inbox keeps the types.                       *)
LEMMA RecordBase ==
    ASSUME WBase, NEW w \in Worker, RecordInboxMessage(w)
    PROVE  WBase'
<1>1. pc[w] = "record" /\ held' = held /\ inbox' = inbox \union {held[w]}
  BY DEF RecordInboxMessage
<1>2. held[w] \in Deliveries /\ held[w] # NoDelivery
  BY <1>1 DEF WBase, WTyped, WorkerFits
<1>3. held[w] \in inbox' /\ inbox' \subseteq Deliveries /\ inbox \subseteq inbox'
  BY <1>1, <1>2 DEF WBase, WTyped
<1>4. /\ handled' \in [Deliveries -> Nat] /\ succeeded' \subseteq Deliveries
      /\ UNCHANGED <<queue, receives, request, mismatch>>
  <2>1. UNCHANGED <<queue, receives, request, mismatch>>
    BY DEF RecordInboxMessage
  <2>2. succeeded' = succeeded \union {held[w]} \/ succeeded' = succeeded
    BY DEF RecordInboxMessage, StartHandler
  <2>3. handled' = [handled EXCEPT ![held[w]] = @ + 1] \/ handled' = handled
    BY DEF RecordInboxMessage
  <2>4. succeeded' \subseteq Deliveries
    BY <1>2, <2>2 DEF WBase, WTyped
  <2>5. handled \in [Deliveries -> Nat] /\ handled[held[w]] \in Nat
    BY <1>2 DEF WBase, WTyped
  <2>6. handled' \in [Deliveries -> Nat]
    BY <2>3, <2>5
  <2> QED
    BY <2>1, <2>4, <2>6
<1>5. held' = [held EXCEPT ![w] = held[w]]
  BY <1>1 DEF WBase, WTyped
<1>6. PICK p, t : /\ pc' = [pc EXCEPT ![w] = p] /\ todo' = [todo EXCEPT ![w] = t]
                  /\ \/ p = "check" /\ t = Chain
                     \/ p = "review" /\ IsBooked(held[w]) /\ t = todo[w]
                     \/ p = "delete" /\ t = todo[w]
  <2>1. todo = [todo EXCEPT ![w] = todo[w]]
    BY DEF WBase, WTyped
  <2> QED
    BY <2>1 DEF RecordInboxMessage, StartHandler, IsBooked
<1>7. pc'[w] = p /\ todo'[w] = t /\ held'[w] = held[w]
  BY <1>1, <1>6 DEF WBase, WTyped
<1>8. Chain \in Seq(ChainCommands) /\ Chain \in Seq(Command)
  BY ChainTyped, ChainCommandsTyped
<1>9. p \in Pc /\ t \in Seq(Command)
  BY <1>6, <1>8 DEF Pc, WBase, WTyped
<1>10. WorkerFits(w)'
  BY <1>2, <1>3, <1>6, <1>7, <1>8 DEF WorkerFits, IsBooked
<1>11. OnlyWorker(w)
  BY <1>3, <1>4, <1>5, <1>6 DEF OnlyWorker
<1> QED
  BY <1>2, <1>3, <1>4, <1>7, <1>9, <1>10, <1>11, StepBase DEF WBase, WTyped

(* Every step of the two handlers keeps the types.                         *)
LEMMA HandlerBase ==
    ASSUME WBase, NEW w \in Worker,
           \/ CheckStatus(w) \/ ApplyChecked(w) \/ CheckSubmitted(w)
           \/ RequestConfirmation(w) \/ ApplyNext(w) \/ Review(w) \/ ReadMismatch(w)
    PROVE  WBase'
<1>1. /\ pc[w] \in Pc /\ todo[w] \in Seq(Command) /\ WorkerFits(w)
      /\ pc = [pc EXCEPT ![w] = pc[w]] /\ todo = [todo EXCEPT ![w] = todo[w]]
  BY DEF WBase, WTyped
<1>2. CASE CheckStatus(w)
  <2>1. todo[w] \in Seq(ChainCommands) /\ todo[w] # <<>>
    BY <1>1, <1>2 DEF CheckStatus, WorkerFits
  <2>2. Tail(todo[w]) \in Seq(ChainCommands) /\ Tail(todo[w]) \in Seq(Command)
    BY <1>1, <2>1
  <2>3. CASE pc' = [pc EXCEPT ![w] = "applyChecked"] /\ UNCHANGED todo
    BY <1>1, <1>2, <2>1, <2>3, MoveBase DEF CheckStatus, Pc
  <2>4. CASE todo' = [todo EXCEPT ![w] = Tail(todo[w])] /\ UNCHANGED pc
    BY <1>1, <1>2, <2>2, <2>4, MoveBase DEF CheckStatus, Pc
  <2> QED
    BY <1>2, <2>3, <2>4 DEF CheckStatus
<1>3. CASE ApplyChecked(w)
  <2>1. todo[w] \in Seq(ChainCommands) /\ todo[w] # <<>>
    BY <1>1, <1>3 DEF ApplyChecked, WorkerFits
  <2>2. Tail(todo[w]) \in Seq(ChainCommands) /\ Tail(todo[w]) \in Seq(Command)
    BY <1>1, <2>1
  <2> QED
    BY <1>1, <1>3, <2>2, MoveBase DEF ApplyChecked, Pc
<1>4. CASE CheckSubmitted(w)
  <2>1. pc[w] = "check" /\ held[w] \in inbox
    BY <1>1, <1>4 DEF CheckSubmitted, WorkerFits
  <2>2. CASE HandlerOk(w)
    BY <1>4, <2>1, <2>2, OkBase DEF CheckSubmitted
  <2>3. CASE pc' = [pc EXCEPT ![w] = "request"] /\ UNCHANGED <<todo, succeeded>>
    BY <1>1, <1>4, <2>1, <2>3, MoveBase DEF CheckSubmitted, Pc, messageVars
  <2> QED
    BY <1>4, <2>2, <2>3 DEF CheckSubmitted
<1>5. CASE RequestConfirmation(w)
  <2>1. <<"ConfirmTransferAgent", "BookPosition">> \in ToBook
    BY DEF ToBook
  <2> QED
    BY <1>1, <1>5, <2>1, ShapesTyped, MoveBase DEF RequestConfirmation, Pc
<1>6. CASE ApplyNext(w)
  <2>1. pc[w] = "apply" /\ held[w] \in inbox
    BY <1>1, <1>6 DEF ApplyNext, WorkerFits
  <2>2. CASE HandlerOk(w)
    BY <1>6, <2>1, <2>2, OkBase DEF ApplyNext
  <2>3. CASE Tail(todo[w]) # <<>> /\ todo' = [todo EXCEPT ![w] = Tail(todo[w])]
             /\ UNCHANGED <<pc, succeeded>>
    <3>1. \/ Tail(todo[w]) \in ToBook
          \/ Tail(todo[w]) \in ToDecide /\ IsBooked(held[w])
      BY <1>1, <2>1, <2>3, BookShape, DecideShape DEF WorkerFits, ToBook, ToDecide
    <3>2. Tail(todo[w]) \in Seq(Command)
      BY <3>1, ShapesTyped
    <3> QED
      BY <1>1, <1>6, <2>1, <2>3, <3>1, <3>2, MoveBase DEF ApplyNext, messageVars
  <2> QED
    BY <1>6, <2>2, <2>3 DEF ApplyNext
<1>7. CASE Review(w)
  <2>1. pc[w] = "review" /\ held[w] \in inbox /\ IsBooked(held[w])
    BY <1>1, <1>7 DEF Review, WorkerFits
  <2>2. CASE HandlerOk(w)
    BY <1>7, <2>1, <2>2, OkBase DEF Review
  <2>3. CASE pc' = [pc EXCEPT ![w] = "apply"] /\ todo' = [todo EXCEPT ![w] = <<"Activate">>]
             /\ UNCHANGED succeeded
    <3>1. <<"Activate">> \in ToDecide
      BY DEF ToDecide
    <3> QED
      BY <1>7, <2>1, <2>3, <3>1, ShapesTyped, MoveBase DEF Review, messageVars, Pc
  <2>4. CASE pc' = [pc EXCEPT ![w] = "readMismatch"] /\ UNCHANGED <<todo, succeeded>>
    BY <1>1, <1>7, <2>1, <2>4, MoveBase DEF Review, messageVars, Pc
  <2> QED
    BY <1>7, <2>2, <2>3, <2>4 DEF Review
<1>8. CASE ReadMismatch(w)
  <2>1. pc[w] = "readMismatch" /\ IsBooked(held[w])
    BY <1>1, <1>8 DEF ReadMismatch, WorkerFits
  <2>2. PICK t \in ToDecide : todo' = [todo EXCEPT ![w] = t]
    BY <1>8 DEF ReadMismatch, ToDecide
  <2> QED
    BY <1>1, <1>8, <2>1, <2>2, ShapesTyped, MoveBase DEF ReadMismatch, Pc
<1> QED
  BY <1>2, <1>3, <1>4, <1>5, <1>6, <1>7, <1>8

(* What SNS and SQS do keeps the types.                                    *)
LEMMA QueueBase ==
    ASSUME WBase, UNCHANGED <<receives, inbox, handled, succeeded, workerVars, request, mismatch>>,
           queue' \in [Deliveries -> Places]
    PROVE  WBase'
<1>1. WTyped'
  BY DEF WBase, WTyped, workerVars
<1>2. \A w \in Worker : WorkerFits(w)'
  BY DEF WBase, WorkerFits, workerVars, IsBooked
<1>3. \A a \in Approvers : RequestFits(a)'
  BY DEF WBase, RequestFits
<1> QED
  BY <1>1, <1>2, <1>3 DEF WBase

(* An approve request keeps the types.                                     *)
LEMMA ApprovalBase ==
    ASSUME WBase, NEW a \in Approvers, Approval(a)
    PROVE  WBase'
<1> DEFINE Shape == [step : {"none", "read", "apply", "done"},
                     order : Orders \union {NoOrder}, todo : Seq(ApprovalCommands)]
<1>1. request \in [Approvers -> Shape] /\ request[a] \in Shape
  BY DEF WBase, WTyped
<1>2. UNCHANGED <<messageVars, workerVars, mismatch>>
  BY DEF Approval, ApproveStart, ApproveRead, ApproveApply, ApproveRefused
<1>3. PICK r : request' = [request EXCEPT ![a] = r]
  BY DEF Approval, ApproveStart, ApproveRead, ApproveApply, ApproveRefused
<1>4. <<>> \in Seq(ApprovalCommands)
      /\ <<"CheckEligibility", "CheckDisclosures", "Approve">> \in Seq(ApprovalCommands)
  BY DEF ApprovalCommands
<1> DEFINE done == [NoRequest EXCEPT !.step = "done"]
<1>5. done \in Shape /\ done.step = "done"
  BY <1>4 DEF NoRequest
<1>6. /\ request'[a] \in Shape
      /\ request'[a].step \in {"read", "apply"} => request'[a].order \in Orders
      /\ request'[a].step = "apply" => request'[a].todo # <<>>
  <2>1. ASSUME NEW o \in Orders, ApproveStart(a, o)
        PROVE  request'[a] \in Shape /\ request'[a].step = "read" /\ request'[a].order \in Orders
    BY <2>1, <1>1, <1>4 DEF ApproveStart
  <2>2. CASE ApproveRead(a)
    <3>1. request[a].order \in Orders
      BY <2>2 DEF ApproveRead, WBase, RequestFits
    <3>2. CASE request'[a] = done
      BY <1>5, <3>2
    <3>3. CASE request'[a] = [request[a] EXCEPT !.step = "apply"] /\ request[a].todo # <<>>
      BY <1>1, <3>1, <3>3
    <3> QED
      BY <1>1, <2>2, <3>2, <3>3 DEF ApproveRead
  <2>3. CASE ApproveApply(a)
    <3>1. request[a].order \in Orders /\ request[a].todo # <<>>
      BY <2>3 DEF ApproveApply, WBase, RequestFits
    <3>2. Tail(request[a].todo) \in Seq(ApprovalCommands)
      BY <1>1, <3>1
    <3>3. request'[a] = [step |-> "read", order |-> request[a].order,
                         todo |-> Tail(request[a].todo)]
      BY <1>1, <2>3 DEF ApproveApply
    <3> QED
      BY <1>1, <3>1, <3>2, <3>3
  <2>4. CASE ApproveRefused(a)
    BY <1>1, <1>5, <2>4 DEF ApproveRefused
  <2> QED
    BY <2>1, <2>2, <2>3, <2>4 DEF Approval
<1> HIDE DEF Shape, done
<1>7. request' \in [Approvers -> Shape]
  BY <1>1, <1>3, <1>6
<1>8. \A b \in Approvers \ {a} : request'[b] = request[b]
  BY <1>1, <1>3
<1>9. WTyped'
  BY <1>2, <1>7 DEF Shape, WBase, WTyped, messageVars, workerVars
<1>10. \A w \in Worker : WorkerFits(w)'
  BY <1>2 DEF WBase, WorkerFits, workerVars, messageVars, IsBooked
<1>11. \A b \in Approvers : RequestFits(b)'
  BY <1>6, <1>8 DEF WBase, RequestFits
<1> QED
  BY <1>9, <1>10, <1>11 DEF WBase

(* Every step keeps the types.                                             *)
LEMMA NextBase == WBase /\ [WNext]_vars => WBase'
<1> SUFFICES ASSUME WBase, [WNext]_vars PROVE WBase'
  OBVIOUS
<1>0. queue \in [Deliveries -> Places]
  BY DEF WBase, WTyped
<1>1. CASE Queues
  <2>1. PICK m \in Deliveries :
          Deliver(m) \/ LeftLeased(m) \/ VisibilityTimeout(m) \/ DeadLetter(m)
    BY <1>1 DEF Queues
  <2>2. queue' \in [Deliveries -> Places]
    BY <1>0, <2>1 DEF Deliver, LeftLeased, VisibilityTimeout, DeadLetter, Places
  <2>3. UNCHANGED <<receives, inbox, handled, succeeded, workerVars, request, mismatch>>
    BY <2>1 DEF Deliver, LeftLeased, VisibilityTimeout, DeadLetter
  <2> QED
    BY <2>2, <2>3, QueueBase
<1>2. ASSUME NEW w \in Worker, WorkerStep(w) \/ Crash(w) PROVE WBase'
  <2>1. ASSUME NEW m \in Deliveries, Receive(w, m) PROVE WBase'
    BY <2>1, ReceiveBase
  <2>2. CASE RecordInboxMessage(w)
    BY <2>2, RecordBase
  <2>3. CASE RecordFails(w) \/ HandlerFails(w) \/ Crash(w)
    BY <1>0, <2>3, DropBase DEF RecordFails, HandlerFails, Crash, messageVars
  <2>4. CASE DeleteMessage(w)
    <3>1. held[w] \in Deliveries
      BY <2>4 DEF DeleteMessage, WBase, WTyped, WorkerFits
    <3>2. queue' \in [Deliveries -> Places]
      BY <1>0, <2>4, <3>1 DEF DeleteMessage, Places
    <3> QED
      BY <2>4, <3>2, DropBase DEF DeleteMessage
  <2>5. CASE \/ CheckStatus(w) \/ ApplyChecked(w) \/ CheckSubmitted(w)
             \/ RequestConfirmation(w) \/ ApplyNext(w) \/ Review(w) \/ ReadMismatch(w)
    BY <2>5, HandlerBase
  <2> QED
    BY <1>2, <2>1, <2>2, <2>3, <2>4, <2>5 DEF WorkerStep
<1>3. ASSUME NEW a \in Approvers, Approval(a) PROVE WBase'
  BY <1>3, ApprovalBase
<1>4. CASE UNCHANGED <<messageVars, workerVars, request>> /\ mismatch' \in BOOLEAN
  <2>1. WTyped'
    BY <1>4 DEF WBase, WTyped, messageVars, workerVars
  <2>2. \A w \in Worker : WorkerFits(w)'
    BY <1>4 DEF WBase, WorkerFits, messageVars, workerVars, IsBooked
  <2>3. \A a \in Approvers : RequestFits(a)'
    BY <1>4 DEF WBase, RequestFits
  <2> QED
    BY <2>1, <2>2, <2>3 DEF WBase
<1>5. mismatch \in BOOLEAN
  BY DEF WBase, WTyped
<1> QED
  BY <1>1, <1>2, <1>3, <1>4, <1>5 DEF WNext, ApiWrite, SetMismatch, vars

-----------------------------------------------------------------------------
(* The store under the workers and the API.                                *)

(* The commands that a step may apply, and the reference it gives.         *)
LEMMA WorkersStep ==
    ASSUME WBase, [WNext]_vars
    PROVE  [Next]_storeVars
<1>1. ASSUME NEW w \in Worker, WorkerStep(w) PROVE [Next]_storeVars
  <2>1. CASE ApplyChecked(w)
    <3>1. /\ held[w] \in Deliveries /\ todo[w] \in Seq(Command) /\ todo[w] # <<>>
      BY <2>1 DEF ApplyChecked, WBase, WTyped, WorkerFits
    <3>2. OrderOf(w) \in Orders /\ Head(todo[w]) \in Command
      BY <3>1, SeqMore, DeliveryAssumption DEF OrderOf, DeliveryShape
    <3>3. NoRef \in InputRefs(Head(todo[w]))
      BY DEF InputRefs
    <3> QED
      BY <2>1, <3>2, <3>3, AgentAssumption DEF ApplyChecked, Next
  <2>2. CASE ApplyNext(w)
    <3>1. /\ held[w] \in Deliveries
          /\ todo[w] \in ToBook \/ todo[w] \in ToDecide
      BY <2>2 DEF ApplyNext, WBase, WTyped, WorkerFits
    <3>2. OrderOf(w) \in Orders /\ Head(todo[w]) \in Command
      BY <3>1, BookShape, DecideShape, DeliveryAssumption DEF OrderOf, DeliveryShape, Command
    <3>3. WorkerRef(w) \in InputRefs(Head(todo[w]))
      BY <3>2, AgentAssumption DEF WorkerRef, InputRefs, CreateSubscription
    <3> QED
      BY <2>2, <3>2, <3>3, AgentAssumption DEF ApplyNext, Next
  <2>3. CASE UNCHANGED storeVars
    BY <2>3
  <2> QED
    BY <1>1, <2>1, <2>2, <2>3
       DEF WorkerStep, Receive, RecordInboxMessage, RecordFails, DeleteMessage, CheckStatus,
           CheckSubmitted, RequestConfirmation, Review, ReadMismatch, HandlerFails
<1>2. ASSUME NEW a \in Approvers, Approval(a) PROVE [Next]_storeVars
  <2>1. CASE ApproveApply(a)
    <3>1. /\ request[a].order \in Orders /\ request[a].todo # <<>>
          /\ request[a].todo \in Seq(ApprovalCommands)
      BY <2>1 DEF ApproveApply, WBase, WTyped, RequestFits
    <3>2. Head(request[a].todo) \in Command
      BY <3>1, SeqMore, ChainCommandsTyped
    <3>3. NoRef \in InputRefs(Head(request[a].todo))
      BY DEF InputRefs
    <3> QED
      BY <2>1, <3>1, <3>2, <3>3, AgentAssumption DEF ApproveApply, Next
  <2> QED
    BY <1>2, <2>1 DEF Approval, ApproveStart, ApproveRead, ApproveRefused
<1>3. CASE ApiWrite
  <2>1. /\ "Cancel" \in Command /\ "RequestRedemption" \in Command
        /\ NoRef \in InputRefs("Cancel") /\ NoRef \in InputRefs("RequestRedemption")
    BY DEF Command, InputRefs
  <2> QED
    BY <1>3, <2>1, AgentAssumption DEF ApiWrite, Next
<1>4. CASE UNCHANGED storeVars
  BY <1>4
<1> QED
  BY <1>1, <1>2, <1>3, <1>4
     DEF WNext, Queues, Deliver, LeftLeased, VisibilityTimeout, DeadLetter, Crash, SetMismatch, vars

(* Only what the transfer agent answered is ever taken for a confirmation, *)
(* and it is not forgotten.                                                *)
ConfirmedByAgent == \A o \in Orders : confirmation[o] \in {NoRef, RefOf[o]}

StoreStepKeeps ==
    \A o \in Orders :
        /\ confirmation[o] # NoRef => confirmation'[o] # NoRef
        /\ \A command : Did(o, command) => Did(o, command)'
        /\ \A e \in Event : events[o][e] > 0 => events'[o][e] > 0

(* A command applied with the agent's reference, or none, records no       *)
(* other.                                                                  *)
LEMMA AppliedRef ==
    ASSUME TypeOK, ConfirmedByAgent, NEW o \in Orders, NEW command, NEW ref \in {NoRef, RefOf[o]},
           NEW ctx, ApplyCommand(o, command, ref, ctx)
    PROVE  ConfirmedByAgent'
BY DEF ApplyCommand, RecordConfirmation, ConfirmedByAgent, TypeOK

(* So does every step of the workers and the API.                          *)
LEMMA AgentConfirms ==
    ASSUME WBase, TypeOK, ConfirmedByAgent, [WNext]_vars
    PROVE  ConfirmedByAgent'
<1>1. ASSUME NEW w \in Worker, WorkerStep(w) PROVE ConfirmedByAgent'
  <2>1. CASE ApplyChecked(w) \/ ApplyNext(w)
    <3>1. OrderOf(w) \in Orders
      BY <2>1, DeliveryAssumption
         DEF ApplyChecked, ApplyNext, WBase, WTyped, WorkerFits, OrderOf, DeliveryShape
    <3>2. WorkerRef(w) \in {NoRef, RefOf[OrderOf(w)]}
      BY DEF WorkerRef, CreateSubscription
    <3> QED
      BY <2>1, <3>1, <3>2, AppliedRef DEF ApplyChecked, ApplyNext
  <2>2. CASE UNCHANGED confirmation
    BY <2>2 DEF ConfirmedByAgent
  <2> QED
    BY <1>1, <2>1, <2>2
       DEF WorkerStep, Receive, RecordInboxMessage, RecordFails, DeleteMessage, CheckStatus,
           CheckSubmitted, RequestConfirmation, Review, ReadMismatch, HandlerFails, storeVars
<1>2. ASSUME NEW a \in Approvers, Approval(a) PROVE ConfirmedByAgent'
  <2>1. CASE ApproveApply(a)
    <3>1. request[a].order \in Orders
      BY <2>1 DEF ApproveApply, WBase, RequestFits
    <3> QED
      BY <2>1, <3>1, AppliedRef DEF ApproveApply
  <2>2. CASE UNCHANGED confirmation
    BY <2>2 DEF ConfirmedByAgent
  <2> QED
    BY <1>2, <2>1, <2>2 DEF Approval, ApproveStart, ApproveRead, ApproveRefused, storeVars
<1>3. CASE ApiWrite
  <2>1. CASE UNCHANGED confirmation
    BY <2>1 DEF ConfirmedByAgent
  <2> QED
    BY <1>3, <2>1, AppliedRef DEF ApiWrite, CreateOrder, ResolveBreak
<1>4. CASE UNCHANGED confirmation
  BY <1>4 DEF ConfirmedByAgent
<1> QED
  BY <1>1, <1>2, <1>3, <1>4
     DEF WNext, Queues, Deliver, LeftLeased, VisibilityTimeout, DeadLetter, Crash, SetMismatch,
         vars, storeVars

(* The order store forgets no confirmation, command or event.              *)
LEMMA StoreKeeps ==
    ASSUME IInv, [Next]_storeVars
    PROVE  StoreStepKeeps
<1>0. TypeOK
  BY DEF IInv, TimelineInv
<1>1. ASSUME NEW o \in Orders, NEW from, NEW command, NEW to, NEW emitted,
             InsertTransition(o, from, command, to), InsertEvents(o, emitted)
      PROVE  /\ \A p \in Orders : \A c : Did(p, c) => Did(p, c)'
             /\ \A p \in Orders : \A e \in Event : events[p][e] > 0 => events'[p][e] > 0
  <2>1. \A p \in Orders : \A c : Did(p, c) => Did(p, c)'
    BY <1>0, <1>1, DidInsert
  <2>2. \A p \in Orders : \A e \in Event : events[p][e] > 0 => events'[p][e] > 0
    <3> SUFFICES ASSUME NEW p \in Orders, NEW e \in Event, events[p][e] > 0
                 PROVE  events'[p][e] > 0
      OBVIOUS
    <3>1. events[p][e] \in Nat
      BY <1>0 DEF TypeOK
    <3> QED
      BY <3>1, <1>0, <1>1, EventsInserted
  <2> QED
    BY <2>1, <2>2
<1>2. ASSUME NEW o \in Orders, NEW key \in Keys, NEW asked \in Terms, CreateOrder(o, key, asked)
      PROVE  StoreStepKeeps
  BY <1>1, <1>2 DEF CreateOrder, StoreStepKeeps
<1>3. ASSUME NEW o \in Orders, NEW command \in Command, NEW ctx \in GuardContexts,
             NEW ref \in InputRefs(command), ApplyCommand(o, command, ref, ctx)
      PROVE  StoreStepKeeps
  <2>1. \A p \in Orders : confirmation[p] # NoRef => confirmation'[p] # NoRef
    BY <1>0, <1>3 DEF ApplyCommand, RecordConfirmation, TypeOK
  <2> QED
    BY <1>1, <1>3, <2>1 DEF ApplyCommand, StoreStepKeeps
<1>4. CASE UNCHANGED <<confirmation, timeline, events>>
  BY <1>4 DEF StoreStepKeeps, Did
<1> QED
  BY <1>2, <1>3, <1>4 DEF Next, ResolveBreak, storeVars

-----------------------------------------------------------------------------
(* Messages: every step but the inbox's leaves who handles what as it was. *)

HandlersStay ==
    /\ UNCHANGED <<inbox, handled>>
    /\ \A w \in Worker : InHandler(w)' => InHandler(w) /\ held'[w] = held[w]
    /\ \A m \in Deliveries : queue'[m] = "deleted" => queue[m] = "deleted" \/ m \in inbox

(* Every step but the inbox's is one of these.                             *)
LEMMA OtherSteps ==
    ASSUME WBase, [WNext]_vars
    PROVE  (\E w \in Worker : RecordInboxMessage(w)) \/ HandlersStay
<1>0. WTyped
  BY DEF WBase
<1>1. CASE Queues
  <2>1. PICK m \in Deliveries :
          Deliver(m) \/ LeftLeased(m) \/ VisibilityTimeout(m) \/ DeadLetter(m)
    BY <1>1 DEF Queues
  <2> QED
    BY <1>0, <2>1
       DEF Deliver, LeftLeased, VisibilityTimeout, DeadLetter, HandlersStay, InHandler,
         workerVars, WTyped
<1>2. ASSUME NEW w \in Worker, WorkerStep(w) \/ Crash(w), ~ RecordInboxMessage(w)
      PROVE  HandlersStay
  <2>1. ASSUME NEW m \in Deliveries, Receive(w, m) PROVE HandlersStay
    <3>1. \A x \in Worker : InHandler(x)' => InHandler(x) /\ held'[x] = held[x]
      BY <1>0, <2>1 DEF Receive, InHandler, WTyped
    <3>2. \A n \in Deliveries : queue'[n] = "deleted" => queue[n] = "deleted"
      BY <1>0, <2>1, DeliveryAssumption DEF Receive, WTyped
    <3> QED
      BY <2>1, <3>1, <3>2 DEF Receive, HandlersStay
  <2>2. ASSUME Drop(w), UNCHANGED <<inbox, handled>>,
               queue' = queue \/ (pc[w] = "delete" /\ queue' = [queue EXCEPT ![held[w]] = "deleted"])
        PROVE  HandlersStay
    <3>1. \A x \in Worker : InHandler(x)' => InHandler(x) /\ held'[x] = held[x]
      BY <1>0, <2>2 DEF Drop, InHandler, WTyped
    <3>2. pc[w] = "delete" => held[w] \in inbox
      BY DEF WBase, WorkerFits
    <3>3. \A n \in Deliveries : queue'[n] = "deleted" => queue[n] = "deleted" \/ n \in inbox
      BY <1>0, <2>2, <3>2 DEF WTyped
    <3> QED
      BY <2>2, <3>1, <3>3 DEF HandlersStay
  <2>3. CASE RecordFails(w) \/ HandlerFails(w) \/ Crash(w) \/ DeleteMessage(w)
    BY <2>2, <2>3 DEF RecordFails, HandlerFails, Crash, DeleteMessage, messageVars
  <2>4. CASE \/ CheckStatus(w) \/ ApplyChecked(w) \/ CheckSubmitted(w)
             \/ RequestConfirmation(w) \/ ApplyNext(w) \/ Review(w) \/ ReadMismatch(w)
    <3>1. InHandler(w) /\ UNCHANGED <<queue, inbox, handled, held>>
      BY <2>4
         DEF CheckStatus, ApplyChecked, CheckSubmitted, RequestConfirmation, ApplyNext, Review,
             ReadMismatch, InHandler, messageVars
    <3>2. \A x \in Worker \ {w} : pc'[x] = pc[x]
      BY <1>0, <2>4
         DEF CheckStatus, ApplyChecked, CheckSubmitted, RequestConfirmation, ApplyNext, Review,
             ReadMismatch, HandlerOk, WTyped
    <3> QED
      BY <3>1, <3>2 DEF HandlersStay, InHandler
  <2> QED
    BY <1>2, <2>1, <2>3, <2>4 DEF WorkerStep
<1>3. CASE UNCHANGED <<messageVars, workerVars>>
  BY <1>3 DEF HandlersStay, messageVars, workerVars, InHandler
<1> QED
  BY <1>1, <1>2, <1>3
     DEF WNext, Approval, ApproveStart, ApproveRead, ApproveApply, ApproveRefused, ApiWrite,
         SetMismatch, vars

(* The inbox starts a handler only for a message it does not hold.         *)
LEMMA RecordedOnce ==
    ASSUME WBase, HandledAtMostOnce, NEW w \in Worker, RecordInboxMessage(w)
    PROVE  HandledAtMostOnce'
<1>0. WTyped /\ \A x \in Worker : WorkerFits(x)
  BY DEF WBase
<1>1. /\ pc[w] = "record" /\ held' = held /\ queue' = queue
      /\ inbox' = inbox \union {held[w]} /\ held[w] \in Deliveries
  BY <1>0 DEF RecordInboxMessage, WTyped, WorkerFits
<1>2. \A m \in Deliveries : handled'[m] = IF m \in inbox' THEN 1 ELSE 0
  <2>1. CASE held[w] \notin inbox
    <3>1. handled' = [handled EXCEPT ![held[w]] = handled[held[w]] + 1] /\ handled[held[w]] = 0
      BY <1>1, <2>1 DEF RecordInboxMessage, HandledAtMostOnce
    <3> QED
      BY <1>0, <1>1, <2>1, <3>1 DEF HandledAtMostOnce, WTyped
  <2>2. CASE held[w] \in inbox
    BY <1>1, <2>2 DEF RecordInboxMessage, HandledAtMostOnce
  <2> QED
    BY <2>1, <2>2
<1>3. \A m \in Deliveries : queue'[m] = "deleted" => m \in inbox'
  BY <1>1 DEF HandledAtMostOnce
<1>4. \A x \in Worker \ {w} : InHandler(x)' <=> InHandler(x)
  <2>1. \A x \in Worker \ {w} : pc'[x] = pc[x]
    BY <1>0 DEF RecordInboxMessage, StartHandler, WTyped
  <2> QED
    BY <2>1 DEF InHandler
<1>5. InHandler(w)' => held[w] \notin inbox
  BY <1>0, <1>1 DEF RecordInboxMessage, InHandler, WTyped
<1>6. \A x \in Worker : InHandler(x) => held[x] \in inbox
  BY <1>0 DEF WorkerFits, InHandler
<1>7. ASSUME NEW m \in Deliveries, NEW x \in Worker, NEW y \in Worker, x # y,
             InHandler(x)', InHandler(y)', held[x] = m
      PROVE  held[y] # m
  <2>1. CASE x = w
    BY <1>4, <1>5, <1>6, <1>7, <2>1
  <2>2. CASE y = w
    BY <1>4, <1>5, <1>6, <1>7, <2>2
  <2>3. CASE x # w /\ y # w
    BY <1>4, <1>7, <2>3 DEF HandledAtMostOnce
  <2> QED
    BY <2>1, <2>2, <2>3
<1> QED
  BY <1>1, <1>2, <1>3, <1>7 DEF HandledAtMostOnce

(* Every step keeps the inbox's promise.                                   *)
LEMMA HandledStays ==
    ASSUME WBase, HandledAtMostOnce, [WNext]_vars
    PROVE  HandledAtMostOnce'
<1>1. CASE HandlersStay
  BY <1>1 DEF HandlersStay, HandledAtMostOnce
<1> QED
  BY <1>1, OtherSteps, RecordedOnce

(* A message at a queue, or at a worker, is of an event that was written.  *)
Arrived ==
    /\ \A m \in Deliveries : queue[m] \notin NotSent => events[m.order][m.event] > 0
    /\ \A w \in Worker : held[w] # NoDelivery => queue[held[w]] \notin NotSent

(* No step brings a message of an event that was not written.              *)
LEMMA ArrivedStays ==
    ASSUME WBase, Arrived, StoreStepKeeps, [WNext]_vars
    PROVE  Arrived'
<1>0. WTyped
  BY DEF WBase
<1>1. \A m \in Deliveries : events[m.order][m.event] > 0 => events'[m.order][m.event] > 0
  BY DeliveryAssumption DEF StoreStepKeeps, DeliveryShape
<1>2. ASSUME \A m \in Deliveries : queue'[m] \notin NotSent <=> queue[m] \notin NotSent,
             \A w \in Worker : held'[w] = held[w] \/ held'[w] = NoDelivery
      PROVE  Arrived'
  <2>1. \A w \in Worker : held'[w] # NoDelivery => queue'[held'[w]] \notin NotSent
    BY <1>0, <1>2 DEF Arrived, WTyped
  <2> QED
    BY <1>1, <1>2, <2>1 DEF Arrived
<1>3. ASSUME NEW m \in Deliveries, Deliver(m) PROVE Arrived'
  <2>1. \A n \in Deliveries : queue'[n] = IF n = m THEN "visible" ELSE queue[n]
    BY <1>0, <1>3 DEF Deliver, WTyped
  <2>2. UNCHANGED <<events, held>> /\ events[m.order][m.event] > 0
    BY <1>3 DEF Deliver, storeVars, workerVars
  <2> QED
    BY <1>0, <2>1, <2>2 DEF Arrived, WTyped, NotSent
<1>7. ASSUME NEW m \in Deliveries, LeftLeased(m) PROVE Arrived'
  <2>1. \A n \in Deliveries :
           queue'[n] = queue[n] \/ (queue[n] = "absent" /\ queue'[n] = "unsent")
    BY <1>7 DEF LeftLeased
  <2>2. \A n \in Deliveries : queue'[n] \notin NotSent <=> queue[n] \notin NotSent
    BY <2>1 DEF NotSent
  <2>3. UNCHANGED held
    BY <1>7 DEF LeftLeased, workerVars
  <2> QED
    BY <1>2, <2>2, <2>3
<1>4. ASSUME NEW m \in Deliveries, VisibilityTimeout(m) \/ DeadLetter(m) PROVE Arrived'
  <2>1. queue[m] \notin NotSent
    BY <1>4, DeliveryAssumption DEF VisibilityTimeout, DeadLetter, NotSent
  <2>2. \A n \in Deliveries : queue'[n] \notin NotSent <=> queue[n] \notin NotSent
    BY <1>0, <1>4, <2>1 DEF VisibilityTimeout, DeadLetter, WTyped, NotSent
  <2>3. UNCHANGED held
    BY <1>4 DEF VisibilityTimeout, DeadLetter, workerVars
  <2> QED
    BY <1>2, <2>2, <2>3
<1>5. ASSUME NEW w \in Worker, WorkerStep(w) \/ Crash(w) PROVE Arrived'
  <2>1. ASSUME NEW m \in Deliveries, Receive(w, m) PROVE Arrived'
    <3>1. /\ queue[m] = "visible" /\ queue'[m] = w /\ w \notin NotSent
          /\ \A n \in Deliveries \ {m} : queue'[n] = queue[n]
      BY <1>0, <2>1, DeliveryAssumption DEF Receive, WTyped, NotSent
    <3>2. held'[w] = m /\ \A x \in Worker \ {w} : held'[x] = held[x]
      BY <1>0, <2>1 DEF Receive, WTyped
    <3>3. ASSUME NEW x \in Worker, held'[x] # NoDelivery
          PROVE  queue'[held'[x]] \notin NotSent
      <4>1. CASE x = w
        BY <3>1, <3>2, <4>1
      <4>2. CASE x # w
        <5>1. held'[x] = held[x] /\ held[x] \in Deliveries /\ queue[held[x]] \notin NotSent
          BY <1>0, <3>2, <3>3, <4>2 DEF Arrived, WTyped
        <5> QED
          BY <3>1, <5>1
      <4> QED
        BY <4>1, <4>2
    <3> QED
      BY <1>1, <3>1, <3>3 DEF Arrived, NotSent
  <2>2. CASE DeleteMessage(w)
    <3>1. held[w] \in Deliveries /\ queue[held[w]] \notin NotSent
      BY <2>2 DEF DeleteMessage, WBase, WTyped, WorkerFits, Arrived
    <3>2. \A n \in Deliveries : queue'[n] \notin NotSent <=> queue[n] \notin NotSent
      BY <1>0, <2>2, <3>1 DEF DeleteMessage, WTyped, NotSent
    <3>3. \A x \in Worker : held'[x] = held[x] \/ held'[x] = NoDelivery
      BY <1>0, <2>2 DEF DeleteMessage, Drop, WTyped
    <3> QED
      BY <1>2, <3>2, <3>3
  <2>3. CASE \/ RecordInboxMessage(w) \/ RecordFails(w) \/ HandlerFails(w) \/ Crash(w)
             \/ CheckStatus(w) \/ ApplyChecked(w) \/ CheckSubmitted(w)
             \/ RequestConfirmation(w) \/ ApplyNext(w) \/ Review(w) \/ ReadMismatch(w)
    <3>1. UNCHANGED queue
      BY <2>3
         DEF RecordInboxMessage, RecordFails, HandlerFails, Crash, CheckStatus, ApplyChecked,
             CheckSubmitted, RequestConfirmation, ApplyNext, Review, ReadMismatch, messageVars
    <3>2. \A x \in Worker : held'[x] = held[x] \/ held'[x] = NoDelivery
      BY <1>0, <2>3
         DEF RecordInboxMessage, RecordFails, HandlerFails, Crash, CheckStatus, ApplyChecked,
             CheckSubmitted, RequestConfirmation, ApplyNext, Review, ReadMismatch, Drop, WTyped
    <3> QED
      BY <1>2, <3>1, <3>2
  <2> QED
    BY <1>5, <2>1, <2>2, <2>3 DEF WorkerStep
<1>6. CASE UNCHANGED <<queue, held>>
  BY <1>2, <1>6
<1> QED
  BY <1>3, <1>4, <1>5, <1>6, <1>7
     DEF WNext, Queues, Approval, ApproveStart, ApproveRead, ApproveApply, ApproveRefused,
         ApiWrite, SetMismatch, vars, messageVars, workerVars

-----------------------------------------------------------------------------
(* Bookings: a worker is about to book only after its own confirmation was *)
(* applied, which happens once per order.                                  *)

Bookers ==
    \A w \in Worker : Booking(w) =>
        /\ Did(OrderOf(w), "ConfirmTransferAgent")
        /\ confirmation[OrderOf(w)] # NoRef
        /\ \A x \in Worker \ {w} : Booking(x) => OrderOf(x) # OrderOf(w)

ConfirmsNow(w) ==
    /\ ApplyNext(w)
    /\ todo[w] \in ToBook /\ Head(todo[w]) = "ConfirmTransferAgent"

(* The steps of one worker leave the others where they are.                *)
LEMMA OneAtATime ==
    ASSUME WBase, NEW w \in Worker, WorkerStep(w) \/ Crash(w), NEW x \in Worker, x # w
    PROVE  pc'[x] = pc[x] /\ todo'[x] = todo[x] /\ held'[x] = held[x]
<1>0. WTyped
  BY DEF WBase
<1>1. ASSUME NEW m \in Deliveries, Receive(w, m)
      PROVE  pc'[x] = pc[x] /\ todo'[x] = todo[x] /\ held'[x] = held[x]
  BY <1>0, <1>1 DEF Receive, WTyped
<1>2. CASE RecordInboxMessage(w)
  BY <1>0, <1>2 DEF RecordInboxMessage, StartHandler, WTyped
<1>3. CASE RecordFails(w) \/ HandlerFails(w) \/ Crash(w) \/ DeleteMessage(w)
  BY <1>0, <1>3 DEF RecordFails, HandlerFails, Crash, DeleteMessage, Drop, WTyped
<1>4. CASE CheckStatus(w) \/ ApplyChecked(w) \/ CheckSubmitted(w) \/ RequestConfirmation(w)
  BY <1>0, <1>4
     DEF CheckStatus, ApplyChecked, CheckSubmitted, RequestConfirmation, HandlerOk, WTyped
<1>5. CASE ApplyNext(w) \/ Review(w) \/ ReadMismatch(w)
  BY <1>0, <1>5 DEF ApplyNext, Review, ReadMismatch, HandlerOk, WTyped
<1> QED
  BY <1>1, <1>2, <1>3, <1>4, <1>5 DEF WorkerStep

(* A worker comes to a booking by its confirmation only.                   *)
LEMMA BookingSteps ==
    ASSUME WBase, NEW w \in Worker, WorkerStep(w) \/ Crash(w), Booking(w)'
    PROVE  ConfirmsNow(w) /\ held'[w] = held[w]
<1>0. WTyped /\ WorkerFits(w)
  BY DEF WBase
<1>1. pc'[w] = "apply" /\ todo'[w] = <<"BookPosition">>
  BY DEF Booking
<1>2. ~ (\E m \in Deliveries : Receive(w, m))
  BY <1>0, <1>1 DEF Receive, WTyped
<1>3. ~ RecordInboxMessage(w)
  <2> SUFFICES ASSUME RecordInboxMessage(w) PROVE FALSE
    OBVIOUS
  <2>1. pc'[w] \in {"check", "review", "delete"}
    BY <1>0 DEF RecordInboxMessage, StartHandler, WTyped
  <2> QED
    BY <1>1, <2>1
<1>4. ~ (RecordFails(w) \/ HandlerFails(w) \/ Crash(w) \/ DeleteMessage(w))
  <2> SUFFICES ASSUME Drop(w) PROVE FALSE
    BY DEF RecordFails, HandlerFails, Crash, DeleteMessage
  <2> QED
    BY <1>0, <1>1 DEF Drop, WTyped
<1>5. ~ (CheckStatus(w) \/ ApplyChecked(w) \/ CheckSubmitted(w))
  <2> SUFFICES ASSUME CheckStatus(w) \/ ApplyChecked(w) \/ CheckSubmitted(w) PROVE FALSE
    OBVIOUS
  <2>1. pc'[w] \in {"check", "applyChecked", "request", "delete"}
    BY <1>0 DEF CheckStatus, ApplyChecked, CheckSubmitted, HandlerOk, WTyped
  <2> QED
    BY <1>1, <2>1
<1>6. ~ RequestConfirmation(w)
  <2> SUFFICES ASSUME RequestConfirmation(w) PROVE FALSE
    OBVIOUS
  <2>1. todo'[w] = <<"ConfirmTransferAgent", "BookPosition">>
    BY <1>0 DEF RequestConfirmation, WTyped
  <2> QED
    BY <1>1, <2>1, ShapesDiffer
<1>7. ~ (Review(w) \/ ReadMismatch(w))
  <2> SUFFICES ASSUME Review(w) \/ ReadMismatch(w) PROVE FALSE
    OBVIOUS
  <2>1. todo'[w] \in ToDecide \/ pc'[w] \in {"delete", "readMismatch"}
    BY <1>0 DEF Review, ReadMismatch, HandlerOk, WTyped, ToDecide
  <2> QED
    BY <1>1, <2>1, ShapesDiffer
<1>8. ApplyNext(w)
  BY <1>2, <1>3, <1>4, <1>5, <1>6, <1>7 DEF WorkerStep
<1>9. Tail(todo[w]) = <<"BookPosition">>
  <2>1. ~ HandlerOk(w)
    BY <1>0, <1>1 DEF HandlerOk, WTyped
  <2> QED
    BY <1>0, <1>1, <1>8, <2>1 DEF ApplyNext, WTyped
<1>10. todo[w] \in ToBook \/ todo[w] \in ToDecide
  BY <1>0, <1>8 DEF ApplyNext, WorkerFits
<1>11. todo[w] \in ToBook /\ Head(todo[w]) = "ConfirmTransferAgent"
  BY <1>9, <1>10, BookShape, ShapesDiffer
<1> QED
  BY <1>8, <1>11 DEF ConfirmsNow, ApplyNext

(* Every step keeps bookings confirmed, and one per order.                 *)
LEMMA BookersStay ==
    ASSUME WBase, IInv, Bookers, StoreStepKeeps, [WNext]_vars
    PROVE  Bookers'
<1>0. WTyped /\ TypeOK /\ TimelineInv
  BY DEF WBase, IInv, TimelineInv
<1>1. \A w \in Worker : Booking(w) => OrderOf(w) \in Orders
  <2> SUFFICES ASSUME NEW w \in Worker, Booking(w) PROVE OrderOf(w) \in Orders
    OBVIOUS
  <2>1. held[w] \in Deliveries
    BY <1>0 DEF Booking, WBase, WTyped, WorkerFits
  <2> QED
    BY <2>1, DeliveryAssumption DEF OrderOf, DeliveryShape
<1>2. ASSUME \A w \in Worker : Booking(w)' => Booking(w) /\ held'[w] = held[w]
      PROVE  Bookers'
  <2> SUFFICES ASSUME NEW w \in Worker, Booking(w)'
               PROVE  /\ Did(OrderOf(w), "ConfirmTransferAgent")'
                      /\ confirmation'[OrderOf(w)'] # NoRef
                      /\ \A x \in Worker \ {w} : Booking(x)' => OrderOf(x)' # OrderOf(w)'
    BY DEF Bookers
  <2>1. Booking(w) /\ held'[w] = held[w]
    BY <1>2
  <2>2. OrderOf(w) \in Orders /\ OrderOf(w)' = OrderOf(w)
    BY <1>1, <2>1 DEF OrderOf
  <2>3. \A x \in Worker \ {w} : Booking(x)' => OrderOf(x)' # OrderOf(w)'
    BY <1>2, <2>1, <2>2 DEF Bookers, OrderOf
  <2>4. Did(OrderOf(w), "ConfirmTransferAgent") /\ confirmation[OrderOf(w)] # NoRef
    BY <2>1 DEF Bookers
  <2> DEFINE o == OrderOf(w)
  <2>5. \E i \in DOMAIN timeline'[o] : timeline'[o][i].command = "ConfirmTransferAgent"
    BY <2>2, <2>4 DEF StoreStepKeeps, Did
  <2>6. Did(OrderOf(w), "ConfirmTransferAgent")'
    BY <2>2, <2>5 DEF Did
  <2> QED
    BY <2>2, <2>3, <2>4, <2>6 DEF StoreStepKeeps
<1>3. ASSUME NEW w \in Worker, ConfirmsNow(w), Booking(w)', WorkerStep(w)
      PROVE  Bookers'
  <2>1. held[w] \in Deliveries /\ held'[w] = held[w]
    BY <1>0, <1>3 DEF ConfirmsNow, ApplyNext, WBase, WTyped, WorkerFits
  <2> DEFINE o == OrderOf(w)
  <2>2. o \in Orders /\ OrderOf(w)' = o
    BY <2>1, DeliveryAssumption DEF OrderOf, DeliveryShape
  <2>3. ApplyCommand(o, "ConfirmTransferAgent", RefOf[o], HappyPath)
    BY <1>3 DEF ConfirmsNow, ApplyNext, WorkerRef, CreateSubscription
  <2> HIDE DEF o
  <2>4. ~ Did(o, "ConfirmTransferAgent")
    <3>1. PICK to \in Status : <<status[o], "ConfirmTransferAgent", to>> \in Table
      BY <2>3 DEF ApplyCommand, Transition, Defined
    <3> QED
      BY <1>0, <2>2, <3>1, NotDoneYet
  <2>5. \E i \in DOMAIN timeline'[o] : timeline'[o][i].command = "ConfirmTransferAgent"
    BY <1>0, <2>2, <2>3, ApplyDid DEF Did
  <2>6. confirmation'[o] # NoRef
    <3>1. RefOf[o] # NoRef
      BY <2>2, AgentAssumption, NullAssumption
    <3> QED
      BY <1>0, <2>2, <2>3, <3>1 DEF ApplyCommand, RecordConfirmation, TypeOK
  <2>7. \A x \in Worker \ {w} : Booking(x)' => Booking(x) /\ OrderOf(x)' = OrderOf(x)
    BY <1>3, OneAtATime DEF Booking, OrderOf
  <2>8. \A x \in Worker \ {w} : Booking(x)' => OrderOf(x)' # o
    BY <2>4, <2>7 DEF Bookers
  <2> SUFFICES ASSUME NEW v \in Worker, Booking(v)'
               PROVE  /\ Did(OrderOf(v), "ConfirmTransferAgent")'
                      /\ confirmation'[OrderOf(v)'] # NoRef
                      /\ \A x \in Worker \ {v} : Booking(x)' => OrderOf(x)' # OrderOf(v)'
    BY DEF Bookers
  <2>9. CASE v = w
    BY <2>2, <2>5, <2>6, <2>8, <2>9 DEF Did
  <2>10. CASE v # w
    <3>1. Booking(v) /\ OrderOf(v)' = OrderOf(v)
      BY <2>7, <2>10
    <3>2. OrderOf(v) \in Orders
      BY <1>1, <3>1
    <3>3. Did(OrderOf(v), "ConfirmTransferAgent") /\ confirmation[OrderOf(v)] # NoRef
      BY <3>1 DEF Bookers
    <3>4. \A x \in Worker \ {v} : Booking(x)' => OrderOf(x)' # OrderOf(v)'
      BY <2>2, <2>7, <2>8, <2>10, <3>1 DEF Bookers
    <3> DEFINE p == OrderOf(v)
    <3>5. \E i \in DOMAIN timeline'[p] : timeline'[p][i].command = "ConfirmTransferAgent"
      BY <3>2, <3>3 DEF StoreStepKeeps, Did
    <3>6. Did(OrderOf(v), "ConfirmTransferAgent")'
      BY <3>1, <3>5 DEF Did
    <3> QED
      BY <3>1, <3>2, <3>3, <3>4, <3>6 DEF StoreStepKeeps
  <2> QED
    BY <2>9, <2>10
<1>4. ASSUME NEW w \in Worker, WorkerStep(w) \/ Crash(w) PROVE Bookers'
  <2>1. CASE Booking(w)'
    <3>1. ConfirmsNow(w)
      BY <1>4, <2>1, BookingSteps
    <3>2. WorkerStep(w)
      BY <3>1 DEF ConfirmsNow, WorkerStep
    <3> QED
      BY <1>3, <2>1, <3>1, <3>2
  <2>2. CASE ~ Booking(w)'
    <3>1. \A x \in Worker : Booking(x)' => Booking(x) /\ held'[x] = held[x]
      BY <1>4, <2>2, OneAtATime DEF Booking
    <3> QED
      BY <1>2, <3>1
  <2> QED
    BY <2>1, <2>2
<1>5. CASE UNCHANGED workerVars
  BY <1>2, <1>5 DEF workerVars, Booking
<1> QED
  BY <1>4, <1>5
     DEF WNext, Queues, Deliver, LeftLeased, VisibilityTimeout, DeadLetter, Approval, ApproveStart,
         ApproveRead, ApproveApply, ApproveRefused, ApiWrite, SetMismatch, vars

-----------------------------------------------------------------------------
(* Redemptions: an order that became Active was reviewed to the end, under *)
(* a message that no handler is ever started for again.                    *)

Decided(m, o) ==
    /\ m.order = o /\ IsBooked(m)
    /\ m \in inbox /\ queue[m] \notin NotSent
    /\ \A w \in Worker : Reviewing(w) => held[w] # m

DecidedOnce ==
    \A o \in Orders :
        status[o] = "Active" \/ Did(o, "RequestRedemption") =>
            \E m \in Deliveries : Decided(m, o)

(* No message is taken out of the queues' history.                         *)
LEMMA QueueStays ==
    ASSUME WBase, [WNext]_vars, NEW m \in Deliveries, queue[m] \notin NotSent
    PROVE  queue'[m] \notin NotSent
<1>0. queue \in [Deliveries -> Places]
  BY DEF WBase, WTyped
<1>1. CASE Queues
  BY <1>0, <1>1 DEF Queues, Deliver, LeftLeased, VisibilityTimeout, DeadLetter, NotSent
<1>2. ASSUME NEW w \in Worker, WorkerStep(w) \/ Crash(w) PROVE queue'[m] \notin NotSent
  <2>1. ASSUME NEW n \in Deliveries, Receive(w, n) PROVE queue'[m] \notin NotSent
    BY <1>0, <2>1, DeliveryAssumption DEF Receive, NotSent
  <2>2. CASE DeleteMessage(w)
    BY <1>0, <2>2 DEF DeleteMessage, NotSent
  <2>3. CASE UNCHANGED queue
    BY <2>3
  <2> QED
    BY <1>2, <2>1, <2>2, <2>3
       DEF WorkerStep, RecordInboxMessage, RecordFails, HandlerFails, Crash, CheckStatus,
           ApplyChecked, CheckSubmitted, RequestConfirmation, ApplyNext, Review, ReadMismatch,
           messageVars
<1>3. CASE UNCHANGED queue
  BY <1>3
<1> QED
  BY <1>1, <1>2, <1>3
     DEF WNext, Approval, ApproveStart, ApproveRead, ApproveApply, ApproveRefused, ApiWrite,
         SetMismatch, vars, messageVars

(* A review begins with a message the inbox did not hold.                  *)
LEMMA ReviewSteps ==
    ASSUME WBase, [WNext]_vars, NEW w \in Worker, Reviewing(w)'
    PROVE  /\ held'[w] = held[w]
           /\ Reviewing(w) \/ held[w] \notin inbox
<1>0. WTyped
  BY DEF WBase
<1>1. ASSUME NEW x \in Worker, WorkerStep(x) \/ Crash(x)
      PROVE  /\ held'[w] = held[w]
             /\ Reviewing(w) \/ held[w] \notin inbox
  <2>1. CASE x # w
    BY <1>1, <2>1, OneAtATime DEF Reviewing
  <2>2. CASE x = w
    <3>1. /\ pc'[w] \in {"review", "readMismatch", "apply"}
          /\ pc'[w] = "apply" => todo'[w] = <<"OpenException">>
      BY DEF Reviewing
    <3>2. ~ (\E m \in Deliveries : Receive(w, m))
      BY <1>0, <3>1 DEF Receive, WTyped
    <3>3. ~ (RecordFails(w) \/ HandlerFails(w) \/ Crash(w) \/ DeleteMessage(w))
      BY <1>0, <3>1 DEF RecordFails, HandlerFails, Crash, DeleteMessage, Drop, WTyped
    <3>4. ~ (CheckStatus(w) \/ ApplyChecked(w) \/ CheckSubmitted(w) \/ RequestConfirmation(w))
      <4>1. <<"ConfirmTransferAgent", "BookPosition">> # <<"OpenException">>
        OBVIOUS
      <4> QED
        BY <1>0, <3>1, <4>1
           DEF CheckStatus, ApplyChecked, CheckSubmitted, RequestConfirmation, HandlerOk, WTyped
    <3>5. ~ ApplyNext(w)
      <4> SUFFICES ASSUME ApplyNext(w) PROVE FALSE
        OBVIOUS
      <4>1. todo[w] \in ToBook \union ToDecide
        BY DEF ApplyNext, WBase, WorkerFits
      <4>2. Tail(todo[w]) # <<"OpenException">>
        <5>1. <<>> # <<"OpenException">> /\ <<"BookPosition">> # <<"OpenException">>
              /\ <<"Activate">> # <<"OpenException">>
          OBVIOUS
        <5> QED
          BY <4>1, <5>1, BookShape, DecideShape
      <4>3. CASE HandlerOk(w)
        BY <1>0, <3>1, <4>3 DEF HandlerOk, WTyped
      <4>4. CASE todo' = [todo EXCEPT ![w] = Tail(@)] /\ UNCHANGED pc
        BY <1>0, <3>1, <4>2, <4>4 DEF ApplyNext, WTyped
      <4> QED
        BY <4>3, <4>4 DEF ApplyNext
    <3>8. CASE ReadMismatch(w)
      BY <3>8 DEF ReadMismatch, Reviewing
    <3>6. CASE RecordInboxMessage(w)
      BY <1>0, <3>1, <3>6 DEF RecordInboxMessage, WTyped
    <3>7. CASE Review(w)
      BY <3>7 DEF Review, Reviewing
    <3> QED
      BY <1>1, <2>2, <3>2, <3>3, <3>4, <3>5, <3>6, <3>7, <3>8 DEF WorkerStep
  <2> QED
    BY <2>1, <2>2
<1>2. CASE UNCHANGED workerVars
  BY <1>2 DEF workerVars, Reviewing
<1> QED
  BY <1>1, <1>2
     DEF WNext, Queues, Deliver, LeftLeased, VisibilityTimeout, DeadLetter, Approval, ApproveStart,
         ApproveRead, ApproveApply, ApproveRefused, ApiWrite, SetMismatch, vars

(* A message that was decided stays decided.                               *)
LEMMA DecidedStays ==
    ASSUME WBase, [WNext]_vars, NEW m \in Deliveries, NEW o, Decided(m, o)
    PROVE  Decided(m, o)'
<1>1. queue'[m] \notin NotSent
  BY QueueStays DEF Decided
<1>2. m \in inbox'
  BY OtherSteps DEF Decided, RecordInboxMessage, HandlersStay
<1>3. \A w \in Worker : Reviewing(w)' => held'[w] # m
  BY ReviewSteps DEF Decided
<1> QED
  BY <1>1, <1>2, <1>3 DEF Decided, IsBooked

(* Only the reconciliation worker's handler applies Activate.              *)
Activates(w, o) ==
    /\ ApplyNext(w) /\ OrderOf(w) = o
    /\ todo[w] \in ToDecide /\ IsBooked(held[w])

(* Nor does anything else open an exception.                               *)
Interrupts(w, o) ==
    /\ ApplyNext(w) /\ OrderOf(w) = o
    /\ todo[w] = <<"OpenException">>

(* The commands that no service issues.                                    *)
Unissued == {"ObserveChainMirror", "ReserveShares", "SubmitRedemption", "ConfirmRedemption",
             "CreditCash", "SettleRedemption", "CloseException"}

(* A command, and who must have issued it.                                 *)
Issues(o, command) ==
    /\ command \notin Unissued
    /\ command = "Activate" => \E w \in Worker : WorkerStep(w) /\ Activates(w, o)
    /\ command = "OpenException" => \E w \in Worker : WorkerStep(w) /\ Interrupts(w, o)

(* What changes an order: the creation, or a command, and Activate and     *)
(* OpenException only from the review.                                     *)
LEMMA WhoApplies ==
    ASSUME WBase, [WNext]_vars
    PROVE  \/ UNCHANGED <<status, timeline>>
           \/ \E o \in Orders, key \in Keys, asked \in Terms : CreateOrder(o, key, asked)
           \/ \E o \in Orders : \E command, ref, ctx :
                 ApplyCommand(o, command, ref, ctx) /\ Issues(o, command)
<1> DEFINE Applied ==
      \E o \in Orders : \E command, ref, ctx :
          ApplyCommand(o, command, ref, ctx) /\ Issues(o, command)
<1>1. ASSUME NEW w \in Worker, WorkerStep(w) PROVE Applied \/ UNCHANGED <<status, timeline>>
  <2>1. CASE ApplyChecked(w)
    <3>1. held[w] \in Deliveries /\ todo[w] \in Seq(ChainCommands) /\ todo[w] # <<>>
      BY <2>1 DEF ApplyChecked, WBase, WTyped, WorkerFits
    <3>2. OrderOf(w) \in Orders
      BY <3>1, DeliveryAssumption DEF OrderOf, DeliveryShape
    <3>3. Head(todo[w]) \in ChainCommands
      BY <3>1, SeqMore
    <3>4. Issues(OrderOf(w), Head(todo[w]))
      BY <3>3 DEF ChainCommands, Issues, Unissued
    <3> QED
      BY <2>1, <3>2, <3>4 DEF ApplyChecked
  <2>2. CASE ApplyNext(w)
    <3>1. /\ held[w] \in Deliveries
          /\ todo[w] \in ToBook \/ (todo[w] \in ToDecide /\ IsBooked(held[w]))
      BY <2>2 DEF ApplyNext, WBase, WTyped, WorkerFits
    <3>2. OrderOf(w) \in Orders
      BY <3>1, DeliveryAssumption DEF OrderOf, DeliveryShape
    <3>3. Issues(OrderOf(w), Head(todo[w]))
      <4>1. Head(todo[w]) \notin Unissued
        BY <3>1, BookShape, DecideShape DEF Unissued
      <4>2. Head(todo[w]) = "Activate" => Activates(w, OrderOf(w))
        BY <2>2, <3>1, BookShape DEF Activates
      <4>3. Head(todo[w]) = "OpenException" => todo[w] = <<"OpenException">>
        <5>1. Head(<<"Reconcile", "Activate">>) # "OpenException" /\ Head(<<"Activate">>) # "OpenException"
          OBVIOUS
        <5> QED
          BY <3>1, <5>1, BookShape DEF ToDecide
      <4> QED
        BY <1>1, <2>2, <4>1, <4>2, <4>3 DEF Issues, Interrupts
    <3>4. ApplyCommand(OrderOf(w), Head(todo[w]), WorkerRef(w), HappyPath)
      BY <2>2 DEF ApplyNext
    <3> QED
      BY <1>1, <3>2, <3>3, <3>4
  <2>3. CASE UNCHANGED <<status, timeline>>
    BY <2>3
  <2> QED
    BY <1>1, <2>1, <2>2, <2>3
       DEF WorkerStep, Receive, RecordInboxMessage, RecordFails, DeleteMessage, CheckStatus,
           CheckSubmitted, RequestConfirmation, Review, ReadMismatch, HandlerFails, storeVars
<1>2. ASSUME NEW a \in Approvers, Approval(a) PROVE Applied \/ UNCHANGED <<status, timeline>>
  <2>1. CASE ApproveApply(a)
    <3>1. /\ request[a].order \in Orders /\ request[a].todo # <<>>
          /\ request[a].todo \in Seq(ApprovalCommands)
      BY <2>1 DEF ApproveApply, WBase, WTyped, RequestFits
    <3>2. Head(request[a].todo) \in ApprovalCommands
      BY <3>1, SeqMore
    <3>3. Issues(request[a].order, Head(request[a].todo))
      BY <3>2 DEF ApprovalCommands, Issues, Unissued
    <3> QED
      BY <2>1, <3>1, <3>3 DEF ApproveApply
  <2> QED
    BY <1>2, <2>1 DEF Approval, ApproveStart, ApproveRead, ApproveRefused, storeVars
<1>3. CASE ApiWrite
  <2>1. ASSUME NEW o \in Orders, NEW command \in {"Cancel", "RequestRedemption"},
               ApplyCommand(o, command, NoRef, HappyPath)
        PROVE  Applied
    <3>1. Issues(o, command)
      BY DEF Issues, Unissued
    <3> QED
      BY <2>1, <3>1
  <2>2. ASSUME NEW o \in Orders, NEW i \in DOMAIN breaks[o], ResolveBreak(o, i)
        PROVE  UNCHANGED <<status, timeline>>
    BY <2>2 DEF ResolveBreak
  <2> QED
    BY <1>3, <2>1, <2>2 DEF ApiWrite
<1>4. CASE UNCHANGED <<status, timeline>>
  BY <1>4
<1> QED
  BY <1>1, <1>2, <1>3, <1>4
     DEF WNext, Queues, Deliver, LeftLeased, VisibilityTimeout, DeadLetter, Crash, SetMismatch,
         vars, storeVars

(* Every step keeps an active order decided.                               *)
LEMMA DecidedOnceStays ==
    ASSUME WBase, IInv, Arrived, HandledAtMostOnce, DecidedOnce, [WNext]_vars
    PROVE  DecidedOnce'
<1>0. WTyped /\ TypeOK
  BY DEF WBase, IInv, TimelineInv
<1> SUFFICES ASSUME NEW o \in Orders,
                    status'[o] = "Active" \/ Did(o, "RequestRedemption")'
             PROVE  \E m \in Deliveries : Decided(m, o)'
  BY DEF DecidedOnce
<1>1. CASE status[o] = "Active" \/ Did(o, "RequestRedemption")
  BY <1>1, DecidedStays DEF DecidedOnce
<1>2. CASE ~ (status[o] = "Active" \/ Did(o, "RequestRedemption"))
  <2>1. ~ UNCHANGED <<status, timeline>>
    BY <1>2 DEF Did
  <2>2. ASSUME NEW p \in Orders, NEW key \in Keys, NEW asked \in Terms, CreateOrder(p, key, asked)
        PROVE  FALSE
    <3>1. status'[o] # "Active"
      BY <1>0, <1>2, <2>2 DEF CreateOrder, TypeOK
    <3>2. Did(o, "RequestRedemption")' <=> Did(o, "RequestRedemption")
      BY <1>0, <2>2, DidInsert DEF CreateOrder
    <3> QED
      BY <1>2, <3>1, <3>2
  <2>30. PICK p \in Orders : \E command, ref, ctx :
          ApplyCommand(p, command, ref, ctx) /\ Issues(p, command)
    BY <2>1, <2>2, WhoApplies
  <2>3. PICK command, ref, ctx :
          /\ ApplyCommand(p, command, ref, ctx)
          /\ command = "Activate" => \E w \in Worker : WorkerStep(w) /\ Activates(w, p)
    BY <2>30 DEF Issues
  <2>4. PICK to \in Status :
          /\ <<status[p], command, to>> \in Table
          /\ status' = [status EXCEPT ![p] = to]
          /\ InsertTransition(p, status[p], command, to)
    BY <2>3 DEF ApplyCommand, Transition, Defined
  <2>5. Did(o, "RequestRedemption")' =>
          Did(o, "RequestRedemption") \/ (p = o /\ command = "RequestRedemption")
    BY <1>0, <2>4, DidInsert
  <2>6. command = "RequestRedemption" => status[p] = "Active"
    BY <2>4 DEF Table, Cancellable, Interruptible
  <2>7. status'[o] = "Active" => p = o /\ to = "Active"
    BY <1>0, <1>2, <2>4 DEF TypeOK
  <2>8. to = "Active" => command = "Activate"
    BY <2>4 DEF Table, Cancellable, Interruptible
  <2>9. PICK w \in Worker : WorkerStep(w) /\ Activates(w, o)
    BY <1>2, <2>3, <2>5, <2>6, <2>7, <2>8
  <2>31. PICK m \in Deliveries : m = held[w]
    BY <1>0, <2>9 DEF Activates, ApplyNext, WBase, WTyped, WorkerFits
  <2>10. /\ m = held[w] /\ m \in inbox /\ m.order = o /\ IsBooked(m)
         /\ InHandler(w) /\ queue[m] \notin NotSent
    BY <1>0, <2>9, <2>31, DeliveryAssumption
       DEF Activates, ApplyNext, OrderOf, WBase, WTyped, WorkerFits, Arrived, InHandler
  <2>11. \A x \in Worker : Reviewing(x)' => held'[x] # m
    <3> SUFFICES ASSUME NEW x \in Worker, Reviewing(x)' PROVE held'[x] # m
      OBVIOUS
    <3>1. CASE x = w
      <4>1. /\ ApplyNext(w) /\ todo[w] \in ToDecide
            /\ pc'[w] \in {"review", "readMismatch", "apply"}
            /\ pc'[w] = "apply" => todo'[w] = <<"OpenException">>
        BY <2>9, <3>1 DEF Activates, Reviewing
      <4>2. Tail(todo[w]) # <<"OpenException">>
        <5>1. <<>> # <<"OpenException">> /\ <<"Activate">> # <<"OpenException">>
          OBVIOUS
        <5> QED
          BY <4>1, <5>1, DecideShape
      <4>3. CASE HandlerOk(w)
        BY <1>0, <4>1, <4>3 DEF HandlerOk, WTyped
      <4>4. CASE todo' = [todo EXCEPT ![w] = Tail(@)] /\ UNCHANGED pc
        BY <1>0, <4>1, <4>2, <4>4 DEF ApplyNext, WTyped
      <4> QED
        BY <4>1, <4>3, <4>4 DEF ApplyNext
    <3>2. CASE x # w
      <4>1. Reviewing(x) /\ held'[x] = held[x]
        BY <2>9, <3>2, OneAtATime DEF Reviewing
      <4>2. InHandler(x)
        BY <4>1 DEF Reviewing, InHandler
      <4> QED
        BY <2>10, <3>2, <4>1, <4>2 DEF HandledAtMostOnce
    <3> QED
      BY <3>1, <3>2
  <2>12. m \in inbox' /\ queue'[m] \notin NotSent
    BY <2>9, <2>10 DEF Activates, ApplyNext
  <2>13. Decided(m, o)'
    BY <2>9, <2>10, <2>11, <2>12 DEF Decided, Activates, ApplyNext
  <2> QED
    BY <2>10, <2>13
<1> QED
  BY <1>1, <1>2

-----------------------------------------------------------------------------
(* The inductive invariant, and the properties as its consequences.        *)

WInv ==
    /\ IInv
    /\ ConfirmedByAgent
    /\ WBase
    /\ HandledAtMostOnce
    /\ Arrived
    /\ Bookers
    /\ DecidedOnce

(* The inductive invariant holds at the start.                             *)
LEMMA InitWInv == WInit => WInv
<1> SUFFICES ASSUME WInit PROVE WInv
  OBVIOUS
<1>1. IInv /\ TypeOK
  BY InitIInv DEF WInit, IInv, TimelineInv
<1>2. ConfirmedByAgent
  BY DEF WInit, Init, ConfirmedByAgent
<1>3. WBase
  BY InitBase
<1>4. HandledAtMostOnce
  BY DEF WInit, HandledAtMostOnce, InHandler
<1>5. Arrived
  BY DEF WInit, Arrived, NotSent
<1>6. Bookers
  BY DEF WInit, Bookers, Booking
<1>7. DecidedOnce
  <2>1. \A o \in Orders : status[o] = Absent
    BY DEF WInit, Init
  <2>2. \A o \in Orders : ~ Did(o, "RequestRedemption")
    BY <1>1, <2>1, AbsentDidNothing DEF IInv
  <2> QED
    BY <2>1, <2>2 DEF DecidedOnce, Absent
<1> QED
  BY <1>1, <1>2, <1>3, <1>4, <1>5, <1>6, <1>7 DEF WInv

(* Every step preserves the inductive invariant.                           *)
LEMMA NextWInv == WInv /\ [WNext]_vars => WInv'
<1> SUFFICES ASSUME WInv, [WNext]_vars PROVE WInv'
  OBVIOUS
<1> USE DEF WInv
<1>1. [Next]_storeVars
  BY WorkersStep
<1>2. StoreStepKeeps
  BY <1>1, StoreKeeps
<1>3. IInv'
  BY <1>1, NextIInv
<1>4. TypeOK
  BY DEF IInv, TimelineInv
<1>5. ConfirmedByAgent'
  BY <1>4, AgentConfirms
<1>6. WBase'
  BY NextBase
<1>7. HandledAtMostOnce'
  BY HandledStays
<1>8. Arrived'
  BY <1>2, ArrivedStays
<1>9. Bookers'
  BY <1>2, BookersStay
<1>10. DecidedOnce'
  BY DecidedOnceStays
<1> QED
  BY <1>3, <1>5, <1>6, <1>7, <1>8, <1>9, <1>10

(* Under every interleaving of workers, requests, queues and faults the    *)
(* inductive invariant holds; it contains that of the order store.         *)
THEOREM WorkersInvariance == WSpec => []WInv
BY InitWInv, NextWInv, PTL DEF WSpec

(* The consumer loop keeps its state well typed; a worker holds a message  *)
(* exactly while it is not idle.                                           *)
THEOREM WorkersTypeCorrect == WSpec => []WTypeOK
<1>1. WInv => WTypeOK
  BY DEF WInv, WBase, WTyped, WorkerFits, WTypeOK
<1> QED
  BY <1>1, WorkersInvariance, PTL

(* The inbox starts the handler of a message once, for one worker.         *)
THEOREM OneHandlerRunPerMessage == WSpec => []HandledAtMostOnce
<1>1. WInv => HandledAtMostOnce
  BY DEF WInv
<1> QED
  BY <1>1, WorkersInvariance, PTL

(* However many handlers ask the transfer agent for an order, one books.   *)
THEOREM OneWorkerBooks == WSpec => []OneBooker
<1>1. WInv => OneBooker
  <2> SUFFICES ASSUME WInv, NEW w \in Worker, Booking(w)
               PROVE  /\ confirmation[OrderOf(w)] = RefOf[OrderOf(w)]
                      /\ \A x \in Worker \ {w} : Booking(x) => OrderOf(x) # OrderOf(w)
    BY DEF OneBooker
  <2>1. held[w] \in Deliveries
    BY DEF WInv, WBase, WTyped, WorkerFits, Booking
  <2>2. OrderOf(w) \in Orders
    BY <2>1, DeliveryAssumption DEF OrderOf, DeliveryShape
  <2> QED
    BY <2>2 DEF WInv, Bookers, ConfirmedByAgent
<1> QED
  BY <1>1, WorkersInvariance, PTL

(* The commands that emit the booked event, and where they leave an order. *)
LEMMA BookedEvent ==
    ASSUME IInv, NEW o \in Orders, events[o]["SweepPositionBooked"] > 0
    PROVE  Did(o, "BookPosition") /\ Rank[status[o]] >= Rank["PositionBooked"]
<1>1. "SweepPositionBooked" \in EventsOwed(o)
  <2>1. "SweepPositionBooked" \in Event
    BY DEF Event
  <2>2. events[o]["SweepPositionBooked"] =
          IF "SweepPositionBooked" \in EventsOwed(o) THEN 1 ELSE 0
    BY <2>1 DEF IInv, EventsExact
  <2> QED
    BY <2>2
<1>2. PICK c \in Command : Did(o, c) /\ "SweepPositionBooked" \in Emits(c)
  BY <1>1 DEF EventsOwed
<1>3. c = "BookPosition"
  BY <1>2 DEF Emits, EventTable
<1>4. PICK i \in DOMAIN timeline[o] : timeline[o][i].command = "BookPosition"
  BY <1>2, <1>3 DEF Did
<1>5. timeline[o] \in Seq(TimelineEntry) /\ i \in 1 .. Len(timeline[o])
  BY <1>4 DEF IInv, TimelineInv, TypeOK
<1>6. i > 1
  BY <1>4, <1>5 DEF IInv, TimelineInv, TimelineFaithful
<1>7. /\ <<timeline[o][i].from, "BookPosition", timeline[o][i].to>> \in Table
      /\ Rank[timeline[o][i].to] <= Rank[status[o]]
  BY <1>4, <1>6 DEF IInv, TimelineInv, TimelineRanked
<1>8. timeline[o][i].to = "PositionBooked"
  BY <1>7, TableRegions
<1>9. status[o] \in Status
  <2>1. Len(timeline[o]) # 0
    BY <1>5
  <2> QED
    BY <2>1 DEF IInv, TimelineInv, TimelineFaithful, TypeOK
<1>10. Rank[status[o]] \in 1 .. 20 /\ Rank["PositionBooked"] = 9
  BY <1>9, RankTyped DEF Rank
<1> QED
  BY <1>2, <1>3, <1>7, <1>8, <1>10

(* What a worker reviews is the order of a booked event that arrived.      *)
LEMMA ReviewsBooked ==
    ASSUME WInv, NEW w \in Worker, Reviewing(w)
    PROVE  /\ held[w] \in Deliveries /\ IsBooked(held[w]) /\ queue[held[w]] \notin NotSent
           /\ OrderOf(w) \in Orders /\ events[OrderOf(w)]["SweepPositionBooked"] > 0
<1>1. held[w] \in Deliveries /\ IsBooked(held[w]) /\ held[w] # NoDelivery
  <2>1. WorkerFits(w) /\ held[w] \in Deliveries \union {NoDelivery} /\ NoDelivery \notin Deliveries
    BY DeliveryAssumption DEF WInv, WBase, WTyped
  <2>2. <<"OpenException">> \notin ToBook
    <3>1. <<"OpenException">> # <<"BookPosition">>
          /\ <<"OpenException">> # <<"ConfirmTransferAgent", "BookPosition">>
      OBVIOUS
    <3> QED
      BY <3>1 DEF ToBook
  <2> QED
    BY <2>1, <2>2 DEF WorkerFits, Reviewing
<1>2. OrderOf(w) \in Orders
  BY <1>1, DeliveryAssumption DEF OrderOf, DeliveryShape
<1> QED
  BY <1>1, <1>2 DEF WInv, Arrived, OrderOf, IsBooked

(* The reconciliation worker looks at an order only after its booking.     *)
THEOREM ReviewComesAfterBooking == WSpec => []ReviewedAfterBooking
<1>1. WInv => ReviewedAfterBooking
  <2> SUFFICES ASSUME WInv, NEW w \in Worker, Reviewing(w)
               PROVE  /\ positions[OrderOf(w)] = RefOf[OrderOf(w)]
                      /\ Rank[status[OrderOf(w)]] >= Rank["PositionBooked"]
    BY DEF ReviewedAfterBooking, Reviewing
  <2>1. OrderOf(w) \in Orders /\ events[OrderOf(w)]["SweepPositionBooked"] > 0
    BY ReviewsBooked
  <2>2. /\ Did(OrderOf(w), "BookPosition")
        /\ Rank[status[OrderOf(w)]] >= Rank["PositionBooked"]
    BY <2>1, BookedEvent DEF WInv
  <2>3. /\ positions[OrderOf(w)] # NoRef
        /\ positions[OrderOf(w)] = confirmation[OrderOf(w)]
    BY <2>1, <2>2 DEF WInv, IInv, PositionBacked
  <2>4. confirmation[OrderOf(w)] \in {NoRef, RefOf[OrderOf(w)]}
    BY <2>1 DEF WInv, ConfirmedByAgent
  <2> QED
    BY <2>2, <2>3, <2>4
<1> QED
  BY <1>1, WorkersInvariance, PTL

(* An order in redemption is reviewed again only if its booked event was   *)
(* sent twice: the inbox keeps a repeated message from the handler.        *)
THEOREM RedemptionIsNotReviewed == WSpec => []RedemptionNotReviewed
<1>1. WInv => RedemptionNotReviewed
  <2> SUFFICES ASSUME WInv, NEW w \in Worker, Reviewing(w),
                      Did(OrderOf(w), "RequestRedemption")
               PROVE  SentTwice(OrderOf(w))
    BY DEF RedemptionNotReviewed
  <2> DEFINE n == held[w]
  <2>1. n \in Deliveries /\ IsBooked(n) /\ queue[n] \notin NotSent /\ OrderOf(w) \in Orders
    BY ReviewsBooked
  <2>2. PICK m \in Deliveries : Decided(m, OrderOf(w))
    BY <2>1 DEF WInv, DecidedOnce
  <2>3. m # n
    BY <2>2 DEF Decided
  <2>4. /\ m.order = n.order /\ m.consumer = n.consumer /\ m.event = n.event
        /\ queue[m] \notin NotSent
    BY <2>1, <2>2 DEF Decided, IsBooked, OrderOf
  <2>5. m \in DeliveryShape /\ n \in DeliveryShape
    BY <2>1, DeliveryAssumption
  <2>6. m.copy # n.copy /\ m.copy \in Nat \ {0} /\ n.copy \in Nat \ {0}
    BY <2>3, <2>4, <2>5 DEF DeliveryShape
  <2>7. m.copy > 1 \/ n.copy > 1
    BY <2>6
  <2> QED
    BY <2>1, <2>2, <2>4, <2>7 DEF SentTwice, OrderOf
<1> QED
  BY <1>1, WorkersInvariance, PTL

(* An order in redemption was asked to be redeemed: its last row is not    *)
(* the creation, as cash was locked for it.                                *)
LEMMA RedeemedDid ==
    ASSUME IInv, NEW o \in Orders, status[o] = "RedemptionRequested"
    PROVE  Did(o, "RequestRedemption")
<1> DEFINE n == Len(timeline[o])
<1>1. n \in Nat /\ DOMAIN timeline[o] = 1 .. n
  BY DEF IInv, TimelineInv, TypeOK
<1>2. n > 0 => timeline[o][n].to = "RedemptionRequested"
  BY DEF IInv, TimelineInv, TimelineFaithful
<1>3. status[o] \in Locked
  BY DEF Locked, Status, Cancellable
<1>4. PICK i \in DOMAIN timeline[o] : timeline[o][i].command = "LockCash"
  BY <1>3 DEF IInv, PathTaken, Did
<1>5. i > 1
  BY <1>1, <1>4 DEF IInv, TimelineInv, TimelineFaithful
<1>6. n \in DOMAIN timeline[o] /\ n > 1
  BY <1>1, <1>4, <1>5
<1>7. <<timeline[o][n].from, timeline[o][n].command, timeline[o][n].to>> \in Table
  BY <1>6 DEF IInv, TimelineInv, TimelineRanked
<1>8. timeline[o][n].command = "RequestRedemption"
  BY <1>2, <1>6, <1>7 DEF Table, Cancellable, Interruptible
<1> QED
  BY <1>6, <1>8 DEF Did

(* No running service carries on an order in redemption or in exception;   *)
(* what a repeated message could do to it takes a second publish.          *)
THEOREM OrdersAreLeftForGood == WSpec => LeftForGood
<1> DEFINE Left ==
      \A o \in Orders :
          status[o] \in {"RedemptionRequested", "ExceptionOpen"} =>
              \/ status'[o] = status[o]
              \/ /\ status[o] = "RedemptionRequested" /\ status'[o] = "ExceptionOpen"
                 /\ SentTwice(o)
<1>1. WInv /\ RedemptionNotReviewed /\ [WNext]_vars => [Left]_vars
  <2> SUFFICES ASSUME WInv, RedemptionNotReviewed, [WNext]_vars, NEW o \in Orders,
                      status[o] \in {"RedemptionRequested", "ExceptionOpen"},
                      status'[o] # status[o]
               PROVE  /\ status[o] = "RedemptionRequested" /\ status'[o] = "ExceptionOpen"
                      /\ SentTwice(o)
    OBVIOUS
  <2>0. WBase /\ IInv /\ TypeOK
    BY DEF WInv, IInv, TimelineInv
  <2>1. ASSUME NEW p \in Orders, NEW key \in Keys, NEW asked \in Terms, CreateOrder(p, key, asked)
        PROVE  FALSE
    BY <2>0, <2>1 DEF CreateOrder, TypeOK, Absent
  <2>2. PICK p \in Orders : \E command, ref, ctx :
          ApplyCommand(p, command, ref, ctx) /\ Issues(p, command)
    BY <2>0, <2>1, WhoApplies
  <2>3. PICK command, ref, ctx : ApplyCommand(p, command, ref, ctx) /\ Issues(p, command)
    BY <2>2
  <2>4. PICK to \in Status :
          /\ <<status[p], command, to>> \in Table
          /\ status' = [status EXCEPT ![p] = to]
    BY <2>3 DEF ApplyCommand, Transition, Defined
  <2>5. p = o /\ status'[o] = to
    BY <2>0, <2>4 DEF TypeOK
  <2>6. command \notin Unissued
    BY <2>3 DEF Issues
  <2>7. status[o] = "RedemptionRequested" /\ command = "OpenException" /\ to = "ExceptionOpen"
    BY <2>4, <2>5, <2>6 DEF Table, Cancellable, Interruptible, Unissued
  <2>8. PICK w \in Worker : WorkerStep(w) /\ Interrupts(w, o)
    BY <2>3, <2>5, <2>7 DEF Issues
  <2>9. Reviewing(w) /\ OrderOf(w) = o
    BY <2>8 DEF Interrupts, ApplyNext, Reviewing
  <2> QED
    BY <2>0, <2>5, <2>7, <2>9, RedeemedDid DEF RedemptionNotReviewed
<1> QED
  BY <1>1, WorkersInvariance, RedemptionIsNotReviewed, PTL DEF WSpec, LeftForGood

(***************************************************************************)
(* Workers, requests and queues do to the tables what the operations of    *)
(* the store do one after the other, for every interleaving and fault:     *)
(* what is proved of the store holds under the services.                   *)
(***************************************************************************)
THEOREM WorkersImplementStore == WSpec => Spec
<1>1. WInit => Init
  BY DEF WInit
<1>2. WInv /\ [WNext]_vars => [Next]_storeVars
  BY WorkersStep DEF WInv
<1> QED
  BY <1>1, <1>2, WorkersInvariance, PTL DEF WSpec, Spec
=============================================================================
