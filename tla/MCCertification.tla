-------------------------- MODULE MCCertification --------------------------
(* Certification for TLC: one event, of which a failed publish makes a     *)
(* second copy, and two replicas of a consumer that may receive both at    *)
(* once.                                                                   *)
(* The admission kernel on integers below 8.                               *)
EXTENDS Certification

CONSTANTS s1, s2, c1

MCRows == {1}
MCFaults == {"crash", "database"}
MCServiceFaults == {"crash", "database", "sdk", "handler"}

MCInputs ==
    [budget_limit_cents : {1}, actual_spend_cents : 0 .. 2,
     pre_existing_queue_messages : 0 .. 1, target_attempts : 0 .. 7,
     duration_seconds : 0 .. 7, queue_drain_capacity_per_second : 0 .. 7,
     db_capacity_per_second : 0 .. 7]

MCConsumerOf == [s \in {s1, s2} |-> c1]
=============================================================================
