------------------------------ MODULE Certifier ------------------------------
(***************************************************************************)
(* The checks of services/certifier on the order tables: each query counts *)
(* the groups of rows that break a rule, and the run fails unless all find *)
(* none.  The queries see committed states only, so the certifier may look *)
(* at any state of the store.                                              *)
(***************************************************************************)
EXTENDS SweepOrders

(* no_duplicate_transfer_agent_confirmations                               *)
DuplicateConfirmations ==
    {ref \in Refs : \E o, p \in Orders : o # p /\ positions[o] = ref /\ positions[p] = ref}

(* active_requires_reconciled_history                                      *)
ActiveWithoutHistory ==
    {o \in Orders : /\ status[o] = "Active"
                    /\ \A i \in DOMAIN timeline[o] : timeline[o][i].to # "Reconciled"}

(* ledger_balanced_per_asset_order_kind: both sides carry the order's one  *)
(* amount, so the signed sum is zero when the sides have equally many rows.*)
Unbalanced ==
    {g \in Orders \X Asset \X LedgerKind :
        ledger[g[1]][[kind |-> g[3], asset |-> g[2], side |-> "Debit"]]
            # ledger[g[1]][[kind |-> g[3], asset |-> g[2], side |-> "Credit"]]}

(* outbox_retry_does_not_duplicate_business_events                         *)
BusinessEvent ==
    {"SweepPositionBooked", "SweepActive", "RedemptionCashCredited", "ReconciliationBreakOpened"}

DuplicateEvents == {g \in Orders \X BusinessEvent : events[g[1]][g[2]] > 1}

(***************************************************************************)
(* The certifier never fails on the order tables, whenever it is run: not  *)
(* only after a campaign that has come to rest, but between any two        *)
(* transactions, on orders in exception, cancelled or under redemption.    *)
(***************************************************************************)
CertifierPasses ==
    /\ DuplicateConfirmations = {}
    /\ ActiveWithoutHistory = {}
    /\ Unbalanced = {}
    /\ DuplicateEvents = {}
=============================================================================
