------------------------------- MODULE Outbox -------------------------------
(***************************************************************************)
(* The transactional outbox: the rows that command transactions insert,    *)
(* the lease and mark statements of crates/persistence/src/outbox.rs, and  *)
(* the publisher replicas of services/worker that lease rows, publish them *)
(* to SNS and mark them.                                                   *)
(*                                                                         *)
(* Each SQL statement is one action.  Between them a publisher may be      *)
(* killed, or its statement may fail, when Faults says so.                 *)
(***************************************************************************)
EXTENDS Naturals, FiniteSets

CONSTANTS
    Publishers,  \* replicas of the outbox-publisher worker
    Rows,        \* outbox rows; their order is that of created_at
    Limit,       \* rows a lease may take
    MaxErrors,   \* bound on the SNS errors per row: an outage ends
    Faults,      \* of "crash" and "database"
    NoRow

ASSUME OutboxAssumption ==
    /\ Rows \subseteq Nat
    /\ IsFiniteSet(Rows)
    /\ Limit \in Nat \ {0}
    /\ MaxErrors \in Nat
    /\ Faults \subseteq {"crash", "database"}
    /\ NoRow \notin Rows

VARIABLES
    outbox,       \* outbox_events.status, "absent" before the insert
    leasedUntil,  \* outbox_events.leased_until against now(): null, running, expired
    attempts,     \* outbox_events.attempts
    step,         \* where each publisher is in publish_once
    batch,        \* the leased rows a publisher has still to handle
    current,      \* the row it is marking
    sent,         \* how often SNS accepted the row's message
    errors,       \* how often a publish of the row returned an error
    orphaned      \* history: leased rows whose publisher died or could not mark them

vars == <<outbox, leasedUntil, attempts, step, batch, current, sent, errors, orphaned>>

RowStatus == {"absent", "pending", "leased", "published", "failed"}
Step == {"poll", "publish", "markPublished", "markFailed"}

Init ==
    /\ outbox = [e \in Rows |-> "absent"]
    /\ leasedUntil = [e \in Rows |-> "null"]
    /\ attempts = [e \in Rows |-> 0]
    /\ step = [p \in Publishers |-> "poll"]
    /\ batch = [p \in Publishers |-> {}]
    /\ current = [p \in Publishers |-> NoRow]
    /\ sent = [e \in Rows |-> 0]
    /\ errors = [e \in Rows |-> 0]
    /\ orphaned = {}

-----------------------------------------------------------------------------
(* insert_outbox_event, at the commit of a command's transaction.  Commits *)
(* need not come in the order of created_at.                               *)
InsertOutboxEvent(e) ==
    /\ outbox[e] = "absent"
    /\ outbox' = [outbox EXCEPT ![e] = "pending"]
    /\ UNCHANGED <<leasedUntil, attempts, step, batch, current, sent, errors, orphaned>>

(* Mutant: rows whose lease ran out may be leased again.                   *)
LeasableAgain ==
    {e \in Rows : /\ outbox[e] \in {"pending", "failed", "leased"}
                  /\ leasedUntil[e] # "running"}

(* Mutant: only the lease is looked at, not the status.                    *)
LeasableByTime == {e \in Rows : outbox[e] # "absent" /\ leasedUntil[e] = "null"}

(* Mutant: failed rows are not retried.                                    *)
LeasableOnce == {e \in Rows : outbox[e] = "pending" /\ leasedUntil[e] # "running"}

Leasable ==
    {e \in Rows : outbox[e] \in {"pending", "failed"} /\ leasedUntil[e] # "running"}

(* order by created_at limit $1; rows another lease holds locked are       *)
(* skipped, so concurrent leases behave as if one came after the other.    *)
Picked == {e \in Leasable : Cardinality({f \in Leasable : f < e}) < Limit}

LeasePendingOutbox(p) ==
    /\ step[p] = "poll"
    /\ Picked # {}
    /\ outbox' = [e \in Rows |-> IF e \in Picked THEN "leased" ELSE outbox[e]]
    /\ leasedUntil' = [e \in Rows |-> IF e \in Picked THEN "running" ELSE leasedUntil[e]]
    /\ attempts' = [e \in Rows |-> IF e \in Picked THEN attempts[e] + 1 ELSE attempts[e]]
    /\ batch' = [batch EXCEPT ![p] = Picked]
    /\ step' = [step EXCEPT ![p] = "publish"]
    /\ UNCHANGED <<current, sent, errors, orphaned>>

(* publisher.publish for one row of the batch: RETURNING has no order.     *)
PublishAccepted(p, e) ==
    /\ step[p] = "publish"
    /\ e \in batch[p]
    /\ sent' = [sent EXCEPT ![e] = @ + 1]
    /\ current' = [current EXCEPT ![p] = e]
    /\ step' = [step EXCEPT ![p] = "markPublished"]
    /\ UNCHANGED <<outbox, leasedUntil, attempts, batch, errors, orphaned>>

(* The call fails, before or after SNS accepted the message.               *)
PublishError(p, e) ==
    /\ step[p] = "publish"
    /\ e \in batch[p]
    /\ errors[e] < MaxErrors
    /\ errors' = [errors EXCEPT ![e] = @ + 1]
    /\ sent' \in {sent, [sent EXCEPT ![e] = @ + 1]}
    /\ current' = [current EXCEPT ![p] = e]
    /\ step' = [step EXCEPT ![p] = "markFailed"]
    /\ UNCHANGED <<outbox, leasedUntil, attempts, batch, orphaned>>

(* The loop goes on with the rest of the batch, then sleeps and polls.     *)
FinishRow(p) ==
    /\ batch' = [batch EXCEPT ![p] = @ \ {current[p]}]
    /\ step' = [step EXCEPT ![p] = IF batch[p] = {current[p]} THEN "poll" ELSE "publish"]
    /\ current' = [current EXCEPT ![p] = NoRow]

(* Mutant: the status is written as the domain spells its statuses.        *)
MarkFailedCapital(p) ==
    /\ step[p] = "markFailed"
    /\ outbox' = [outbox EXCEPT ![current[p]] = "Failed"]
    /\ leasedUntil' = [leasedUntil EXCEPT ![current[p]] = "null"]
    /\ FinishRow(p)
    /\ UNCHANGED <<attempts, sent, errors, orphaned>>

(* mark_published and mark_failed name the row only, not the lease.        *)
MarkPublished(p) ==
    /\ step[p] = "markPublished"
    /\ outbox' = [outbox EXCEPT ![current[p]] = "published"]
    /\ leasedUntil' = [leasedUntil EXCEPT ![current[p]] = "null"]
    /\ FinishRow(p)
    /\ UNCHANGED <<attempts, sent, errors, orphaned>>

MarkFailed(p) ==
    /\ step[p] = "markFailed"
    /\ outbox' = [outbox EXCEPT ![current[p]] = "failed"]
    /\ leasedUntil' = [leasedUntil EXCEPT ![current[p]] = "null"]
    /\ FinishRow(p)
    /\ UNCHANGED <<attempts, sent, errors, orphaned>>

(* Either statement fails; the error is logged or dropped.                 *)
MarkLost(p) ==
    /\ "database" \in Faults
    /\ step[p] \in {"markPublished", "markFailed"}
    /\ orphaned' = orphaned \union {current[p]}
    /\ FinishRow(p)
    /\ UNCHANGED <<outbox, leasedUntil, attempts, sent, errors>>

(* The process is killed, or ctrl_c wins the select! and drops the future  *)
(* of publish_once at an await; a new process starts by polling.           *)
Crash(p) ==
    /\ "crash" \in Faults
    /\ step[p] # "poll"
    /\ orphaned' = orphaned \union batch[p]
    /\ step' = [step EXCEPT ![p] = "poll"]
    /\ batch' = [batch EXCEPT ![p] = {}]
    /\ current' = [current EXCEPT ![p] = NoRow]
    /\ UNCHANGED <<outbox, leasedUntil, attempts, sent, errors>>

(* leased_until passes now().                                              *)
LeaseExpires(e) ==
    /\ leasedUntil[e] = "running"
    /\ leasedUntil' = [leasedUntil EXCEPT ![e] = "expired"]
    /\ UNCHANGED <<outbox, attempts, step, batch, current, sent, errors, orphaned>>

Publish(p) == \E e \in Rows : PublishAccepted(p, e) \/ PublishError(p, e)

Mark(p) == MarkPublished(p) \/ MarkFailed(p) \/ MarkLost(p)

Next ==
    \/ \E e \in Rows : InsertOutboxEvent(e) \/ LeaseExpires(e)
    \/ \E p \in Publishers : LeasePendingOutbox(p) \/ Publish(p) \/ Mark(p) \/ Crash(p)

Spec == Init /\ [][Next]_vars

(* The publisher loop never returns: it leases whatever is due and carries *)
(* each row to its mark.                                                   *)
Fairness ==
    \A p \in Publishers :
        WF_vars(LeasePendingOutbox(p)) /\ WF_vars(Publish(p)) /\ WF_vars(Mark(p))

FairSpec == Spec /\ Fairness

-----------------------------------------------------------------------------
TypeOK ==
    /\ outbox \in [Rows -> RowStatus]
    /\ leasedUntil \in [Rows -> {"null", "running", "expired"}]
    /\ attempts \in [Rows -> Nat]
    /\ step \in [Publishers -> Step]
    /\ batch \in [Publishers -> SUBSET Rows]
    /\ current \in [Publishers -> Rows \union {NoRow}]
    /\ sent \in [Rows -> Nat]
    /\ errors \in [Rows -> 0 .. MaxErrors]
    /\ orphaned \in SUBSET Rows

(***************************************************************************)
(* A leased row has exactly one holder, and only a row whose holder died   *)
(* or failed to mark it has none: no two replicas ever work on the same    *)
(* row, although mark_published and mark_failed check no lease.            *)
(***************************************************************************)
OneHolder ==
    /\ \A p, q \in Publishers : p # q => batch[p] \intersect batch[q] = {}
    /\ \A e \in Rows :
          outbox[e] = "leased" <=> e \in orphaned \union UNION {batch[p] : p \in Publishers}
    /\ \A p \in Publishers : batch[p] \intersect orphaned = {}

(***************************************************************************)
(* At least once, and again only after an error: a published row was       *)
(* accepted by SNS, and a row is leased -- hence sent -- a second time     *)
(* only if an earlier publish of it returned an error.                     *)
(***************************************************************************)
ResentOnlyAfterError ==
    \A e \in Rows :
        /\ outbox[e] = "published" => sent[e] >= 1
        /\ sent[e] <= attempts[e]
        /\ attempts[e] <= errors[e] + 1

(***************************************************************************)
(* No late answer takes a published row back.                              *)
(***************************************************************************)
PublishedStays ==
    \A e \in Rows : outbox[e] = "published" => outbox'[e] = "published"

PublishedIsFinal == [][PublishedStays]_vars

(***************************************************************************)
(* Every inserted row is published once SNS stops failing, unless its      *)
(* publisher died or failed to mark it.                                    *)
(***************************************************************************)
EventuallyPublished ==
    \A e \in Rows : outbox[e] = "pending" ~> outbox[e] = "published" \/ e \in orphaned

(***************************************************************************)
(* docs/liveness-verification.md: "Outbox lease does not stay stuck".      *)
(***************************************************************************)
LeaseDoesNotStayStuck ==
    \A e \in Rows : outbox[e] = "leased" ~> outbox[e] \in {"published", "failed"}
=============================================================================
