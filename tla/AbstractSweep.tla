---------------------------- MODULE AbstractSweep ----------------------------
(***************************************************************************)
(* One order as crates/domain/src/abstract_refinement.rs describes it: the *)
(* abstract state that follows the accepted transitions, the transitions   *)
(* it maps to an action, and the invariants it asserts after each of them. *)
(* The code drives it from its tests only; SweepRefinement compares the    *)
(* order store with it.                                                    *)
(***************************************************************************)
EXTENDS SweepMachine

CONSTANTS
    Asset,    \* asset symbols
    NoAsset   \* the product before the order exists

VARIABLES
    status,         \* Absent before `created'
    product_asset,
    seen_statuses,
    position_booked,
    transfer_agent_confirmation_seen,
    redemption_confirmation_seen,
    ledger_debit, ledger_credit,
    ledger_entries  \* symbols of the assets with an effect

vars == <<status, product_asset, seen_statuses, position_booked,
          transfer_agent_confirmation_seen, redemption_confirmation_seen,
          ledger_debit, ledger_credit, ledger_entries>>

Absent == "Absent"

YieldBearingAllowed(asset) == asset # "FIDD"

(***************************************************************************)
(* for_parts: where each action may start and where it ends.  for_command  *)
(* gives every command the action of its own name, so the comparison in    *)
(* for_outcome never fails.                                                *)
(***************************************************************************)
Sources ==
    [CheckEligibility |-> {"Created"},
     CheckDisclosures |-> {"EligibilityChecked"},
     Approve |-> {"DisclosureChecked"},
     LockCash |-> {"Approved"},
     SubmitSubscription |-> {"CashLocked"},
     ConfirmTransferAgent |-> {"SubscriptionSubmitted"},
     ObserveChainMirror |-> {"TransferAgentConfirmed"},
     BookPosition |-> {"TransferAgentConfirmed", "ChainMirrorObserved"},
     Reconcile |-> {"PositionBooked"},
     Activate |-> {"Reconciled"},
     RequestRedemption |-> {"Active"},
     ReserveShares |-> {"RedemptionRequested"},
     SubmitRedemption |-> {"SharesReserved"},
     ConfirmRedemption |-> {"RedemptionSubmitted"},
     CreditCash |-> {"RedemptionConfirmed"},
     SettleRedemption |-> {"CashCredited"},
     OpenException |-> Status \ {"Settled", "ExceptionOpen", "ExceptionClosed", "Cancelled"},
     CloseException |-> {"ExceptionOpen"},
     Cancel |-> {"Created", "EligibilityChecked", "DisclosureChecked", "Approved"}]

Target ==
    [CheckEligibility |-> "EligibilityChecked",
     CheckDisclosures |-> "DisclosureChecked",
     Approve |-> "Approved",
     LockCash |-> "CashLocked",
     SubmitSubscription |-> "SubscriptionSubmitted",
     ConfirmTransferAgent |-> "TransferAgentConfirmed",
     ObserveChainMirror |-> "ChainMirrorObserved",
     BookPosition |-> "PositionBooked",
     Reconcile |-> "Reconciled",
     Activate |-> "Active",
     RequestRedemption |-> "RedemptionRequested",
     ReserveShares |-> "SharesReserved",
     SubmitRedemption |-> "RedemptionSubmitted",
     ConfirmRedemption |-> "RedemptionConfirmed",
     CreditCash |-> "CashCredited",
     SettleRedemption |-> "Settled",
     OpenException |-> "ExceptionOpen",
     CloseException |-> "ExceptionClosed",
     Cancel |-> "Cancelled"]

Init ==
    /\ status = Absent
    /\ product_asset = NoAsset
    /\ seen_statuses = {}
    /\ position_booked = FALSE
    /\ transfer_agent_confirmation_seen = FALSE
    /\ redemption_confirmation_seen = FALSE
    /\ ledger_debit = 0
    /\ ledger_credit = 0
    /\ ledger_entries = {}

Created(asset) ==
    /\ status = Absent
    /\ YieldBearingAllowed(asset)
    /\ status' = "Created"
    /\ product_asset' = asset
    /\ seen_statuses' = {"Created"}
    /\ UNCHANGED <<position_booked, transfer_agent_confirmation_seen,
                   redemption_confirmation_seen, ledger_debit, ledger_credit,
                   ledger_entries>>

(* The guards that `apply' reads off the history.                          *)
Justified(action) ==
    /\ action = "Activate" => "Reconciled" \in seen_statuses
    /\ action = "BookPosition" => transfer_agent_confirmation_seen
    /\ action = "CreditCash" => redemption_confirmation_seen

AddBalancedLedgerEffect ==
    /\ ledger_debit' = ledger_debit + 1
    /\ ledger_credit' = ledger_credit + 1
    /\ ledger_entries' = ledger_entries \union {product_asset}
    /\ position_booked' = (position_booked \/ status' = "PositionBooked")

Effect(action) ==
    IF action \in {"LockCash", "BookPosition", "CreditCash"}
    THEN AddBalancedLedgerEffect
    ELSE UNCHANGED <<ledger_debit, ledger_credit, ledger_entries, position_booked>>

(* assert_invariants, for an order that exists.                            *)
Invariants ==
    /\ YieldBearingAllowed(product_asset)
    /\ status \in seen_statuses
    /\ position_booked => transfer_agent_confirmation_seen
    /\ status = "Active" => "Reconciled" \in seen_statuses
    /\ status = "CashCredited" => "RedemptionConfirmed" \in seen_statuses
    /\ ledger_debit = ledger_credit

(* apply, but for the ledger effect: Ok only when the invariants hold of   *)
(* the state it leaves.                                                    *)
Follows(action) ==
    /\ status \in Sources[action]
    /\ Justified(action)
    /\ status' = Target[action]
    /\ seen_statuses' = seen_statuses \union {status'}
    /\ transfer_agent_confirmation_seen' =
          (transfer_agent_confirmation_seen \/ action = "ConfirmTransferAgent")
    /\ redemption_confirmation_seen' =
          (redemption_confirmation_seen \/ action = "ConfirmRedemption")
    /\ UNCHANGED product_asset
    /\ Invariants'

Apply(action) == Follows(action) /\ Effect(action)

Next ==
    \/ \E asset \in Asset : Created(asset)
    \/ \E action \in Command : Apply(action)

Spec == Init /\ [][Next]_vars
=============================================================================
