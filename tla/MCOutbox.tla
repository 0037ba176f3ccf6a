------------------------------ MODULE MCOutbox ------------------------------
(* Outbox for TLC: two replicas, three rows, leases of at most two rows.   *)
EXTENDS Outbox

MCRows == 1 .. 3
MCFaults == {"crash", "database"}
=============================================================================
