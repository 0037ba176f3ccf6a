------------------------------ MODULE EventBus ------------------------------
(***************************************************************************)
(* What the outbox, SNS, SQS and the inbox may do together: only an event  *)
(* that a transaction committed is sent, a bounded number of times, and a  *)
(* consumer starts its handler at most once per copy and finishes it at    *)
(* most once.  That events do arrive is not said here: Delivery, which     *)
(* implements this, states it as EventuallyRecorded.                       *)
(***************************************************************************)
EXTENDS Naturals

CONSTANTS
    Events, Consumers,
    MaxCopies  \* how often a flaky publish may send one event

(* Every copy is a message of its own to every consumer.                   *)
Message == [consumer : Consumers, row : Events, copy : 1 .. MaxCopies]

VARIABLES
    committed,  \* events of committed transactions
    copies,     \* how often each event was sent
    started,    \* messages whose handler was started
    finished    \* per message: handler runs that succeeded

busVars == <<committed, copies, started, finished>>

Init ==
    /\ committed = {}
    /\ copies = [e \in Events |-> 0]
    /\ started = {}
    /\ finished = [m \in Message |-> 0]

Commit(e) ==
    /\ e \notin committed
    /\ committed' = committed \union {e}
    /\ UNCHANGED <<copies, started, finished>>

Send(e) ==
    /\ e \in committed
    /\ copies[e] < MaxCopies
    /\ copies' = [copies EXCEPT ![e] = @ + 1]
    /\ UNCHANGED <<committed, started, finished>>

Start(m) ==
    /\ m \notin started
    /\ m.copy <= copies[m.row]
    /\ started' = started \union {m}
    /\ UNCHANGED <<committed, copies, finished>>

Finish(m) ==
    /\ m \in started
    /\ finished[m] = 0
    /\ finished' = [finished EXCEPT ![m] = 1]
    /\ UNCHANGED <<committed, copies, started>>

Next ==
    \/ \E e \in Events : Commit(e) \/ Send(e)
    \/ \E m \in Message : Start(m) \/ Finish(m)

Spec == Init /\ [][Next]_busVars
=============================================================================
