----------------------- MODULE CertificationAdmission -----------------------
(***************************************************************************)
(* The admission kernel of certification campaigns,                        *)
(* crates/domain/src/certification.rs: may a campaign of so many attempts  *)
(* in so many seconds start, and at what rate?  Pure functions on unsigned *)
(* integers of a fixed width.                                              *)
(***************************************************************************)
EXTENDS Naturals

CONSTANTS
    Width,  \* 2^64 in the code
    Inputs  \* campaigns that are asked for

U64 == 0 .. Width - 1

CertificationAdmissionInput ==
    [budget_limit_cents : U64, actual_spend_cents : U64,
     pre_existing_queue_messages : U64, target_attempts : U64,
     duration_seconds : U64, queue_drain_capacity_per_second : U64,
     db_capacity_per_second : U64]

ASSUME AdmissionAssumption ==
    /\ Width \in Nat
    /\ Width > 1
    /\ Inputs \subseteq CertificationAdmissionInput

BudgetAllows(limit, actual, mode) == mode = "Cleanup" \/ actual <= limit

AtLeastOne(rate) == IF rate < 1 THEN 1 ELSE rate

(* Mutant: the remainder is forgotten.                                     *)
ArrivalRateFloor(target, duration) == AtLeastOne(target \div duration)

(* For a duration that is not 0; the sum wraps.                            *)
ArrivalRate(target, duration) ==
    AtLeastOne(((target \div duration) + (IF target % duration = 0 THEN 0 ELSE 1)) % Width)

(* admit_certification_campaign: the first check that fails.               *)
Rejection(input) ==
    LET rate == ArrivalRate(input.target_attempts, input.duration_seconds) IN
    IF ~ BudgetAllows(input.budget_limit_cents, input.actual_spend_cents, "Enforce")
    THEN "BudgetExceeded"
    ELSE IF input.pre_existing_queue_messages # 0 THEN "DirtyQueue"
    ELSE IF input.duration_seconds = 0 THEN "InvalidDuration"
    ELSE IF rate > input.queue_drain_capacity_per_second THEN "QueueCapacityExceeded"
    ELSE IF rate > input.db_capacity_per_second THEN "DatabaseCapacityExceeded"
    ELSE "None"

Admitted(input) == Rejection(input) = "None"

DrainAfterOneTick(messages, capacity) ==
    IF messages < capacity THEN 0 ELSE messages - capacity

-----------------------------------------------------------------------------
(***************************************************************************)
(* A campaign is admitted exactly when the budget holds, the queue is      *)
(* empty and some rate within both capacities makes the target in time;    *)
(* the rate it is given is the least such, and one tick drains what        *)
(* arrives in one second.  For every width: the sum never wraps.           *)
(***************************************************************************)
Feasible(input) ==
    {r \in U64 \ {0} :
        /\ r * input.duration_seconds >= input.target_attempts
        /\ r <= input.queue_drain_capacity_per_second
        /\ r <= input.db_capacity_per_second}

Permitted(input) ==
    /\ input.actual_spend_cents <= input.budget_limit_cents
    /\ input.pre_existing_queue_messages = 0
    /\ input.duration_seconds > 0

AdmissionExact ==
    \A input \in Inputs :
        LET rate == ArrivalRate(input.target_attempts, input.duration_seconds) IN
        /\ Admitted(input) <=> Permitted(input) /\ Feasible(input) # {}
        /\ Admitted(input) =>
              /\ rate \in Feasible(input)
              /\ \A r \in Feasible(input) : rate <= r
              /\ DrainAfterOneTick(rate, input.queue_drain_capacity_per_second) = 0
=============================================================================
