----------------------------- MODULE MCWorkers -----------------------------
(* Workers for TLC: one order, two transfer-agent workers, one             *)
(* reconciliation worker.                                                  *)
EXTENDS Workers, TLC

CONSTANTS o1, r1

MCOrders == {o1}
MCRefs == {r1}
MCAsset == {"USD", "FYOXX"}
MCTerms == {[cash |-> "USD", product |-> "FYOXX"]}
MCGuardContexts == {HappyPath}
MCRefOf == [o \in MCOrders |-> r1]

Message(consumer, event, copy) ==
    [consumer |-> consumer, event |-> event, order |-> o1, copy |-> copy]

Created(copy) == Message("transfer-agent", "SweepOrderCreated", copy)
Booked(copy) == Message("reconciliation", "SweepPositionBooked", copy)

(* Each event once.                                                        *)
MCOnce == {Created(1), Booked(1)}

(* Each event once, and one at the queue whose consumer ignores it.        *)
MCIgnored == MCOnce \union {Message("reconciliation", "SweepOrderCreated", 1)}

(* The created event published twice.                                      *)
MCTwice == {Created(1), Created(2), Booked(1)}

MCFaults == {"crash", "database", "sdk", "agent", "publisher"}
MCNone == {}

MCSymmetry == Permutations(TransferAgentWorkers)
=============================================================================
