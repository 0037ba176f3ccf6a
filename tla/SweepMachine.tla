---------------------------- MODULE SweepMachine ----------------------------
(***************************************************************************)
(* The sweep-order state machine of crates/domain/src/sweep.rs: the        *)
(* statuses, the commands, the transition table with its guards and the    *)
(* domain events each transition emits.  Pure data and predicates; the     *)
(* modules that keep orders in the database are built on it.               *)
(***************************************************************************)
EXTENDS Naturals, Sequences

Status == {"Created", "EligibilityChecked", "DisclosureChecked", "Approved",
           "CashLocked", "SubscriptionSubmitted", "TransferAgentConfirmed",
           "ChainMirrorObserved", "PositionBooked", "Reconciled", "Active",
           "RedemptionRequested", "SharesReserved", "RedemptionSubmitted",
           "RedemptionConfirmed", "CashCredited", "Settled", "ExceptionOpen",
           "ExceptionClosed", "Cancelled"}

Command == {"CheckEligibility", "CheckDisclosures", "Approve", "LockCash",
            "SubmitSubscription", "ConfirmTransferAgent", "ObserveChainMirror",
            "BookPosition", "Reconcile", "Activate", "RequestRedemption",
            "ReserveShares", "SubmitRedemption", "ConfirmRedemption",
            "CreditCash", "SettleRedemption", "OpenException",
            "CloseException", "Cancel"}

(***************************************************************************)
(* A GuardContext is the set of its fields that are true.                  *)
(***************************************************************************)
ContextField == {"eligible_account", "disclosures_current",
                 "authorized_approver", "cash_available", "cash_locked",
                 "transfer_agent_confirmation_present", "chain_mirror_required",
                 "chain_mirror_observed", "reconciliation_matched",
                 "redeemable_position", "shares_available", "shares_reserved",
                 "redemption_confirmation_present", "cash_credited",
                 "exception_reason_present", "exception_resolved", "cancellable"}

HappyPath == ContextField \ {"chain_mirror_required", "chain_mirror_observed"}

(***************************************************************************)
(* The transition table, <<from, command, to>>.                            *)
(***************************************************************************)
(* Mutant: cancellation also accepted after cash was locked.               *)
CancellableAfterLock == {"Created", "EligibilityChecked", "DisclosureChecked",
                         "Approved", "CashLocked"}

Cancellable == {"Created", "EligibilityChecked", "DisclosureChecked", "Approved"}

(* Mutant: an open exception can be opened again.                          *)
InterruptibleTwice == Status \ {"Settled", "ExceptionClosed", "Cancelled"}

Interruptible == Status \ {"Settled", "ExceptionOpen", "ExceptionClosed", "Cancelled"}

Table ==
    {<<"Created", "CheckEligibility", "EligibilityChecked">>,
     <<"EligibilityChecked", "CheckDisclosures", "DisclosureChecked">>,
     <<"DisclosureChecked", "Approve", "Approved">>,
     <<"Approved", "LockCash", "CashLocked">>,
     <<"CashLocked", "SubmitSubscription", "SubscriptionSubmitted">>,
     <<"SubscriptionSubmitted", "ConfirmTransferAgent", "TransferAgentConfirmed">>,
     <<"TransferAgentConfirmed", "ObserveChainMirror", "ChainMirrorObserved">>,
     <<"TransferAgentConfirmed", "BookPosition", "PositionBooked">>,
     <<"ChainMirrorObserved", "BookPosition", "PositionBooked">>,
     <<"PositionBooked", "Reconcile", "Reconciled">>,
     <<"Reconciled", "Activate", "Active">>,
     <<"Active", "RequestRedemption", "RedemptionRequested">>,
     <<"RedemptionRequested", "ReserveShares", "SharesReserved">>,
     <<"SharesReserved", "SubmitRedemption", "RedemptionSubmitted">>,
     <<"RedemptionSubmitted", "ConfirmRedemption", "RedemptionConfirmed">>,
     <<"RedemptionConfirmed", "CreditCash", "CashCredited">>,
     <<"CashCredited", "SettleRedemption", "Settled">>,
     <<"ExceptionOpen", "CloseException", "ExceptionClosed">>}
    \union Cancellable \X {"Cancel"} \X {"Cancelled"}
    \union Interruptible \X {"OpenException"} \X {"ExceptionOpen"}

(***************************************************************************)
(* The guards of a row.  chain_mirror_not_required negates a field and     *)
(* reconciled always passes; every other guard is a field of the context.  *)
(***************************************************************************)
GuardOf == [CheckEligibility |-> "eligible_account",
            CheckDisclosures |-> "disclosures_current",
            Approve |-> "authorized_approver",
            LockCash |-> "cash_available",
            SubmitSubscription |-> "cash_locked",
            ConfirmTransferAgent |-> "transfer_agent_confirmation_present",
            ObserveChainMirror |-> "chain_mirror_required",
            BookPosition |-> "transfer_agent_confirmation_present",
            Reconcile |-> "reconciliation_matched",
            Activate |-> "reconciled",
            RequestRedemption |-> "redeemable_position",
            ReserveShares |-> "shares_available",
            SubmitRedemption |-> "shares_reserved",
            ConfirmRedemption |-> "redemption_confirmation_present",
            CreditCash |-> "redemption_confirmation_present",
            SettleRedemption |-> "cash_credited",
            OpenException |-> "exception_reason_present",
            CloseException |-> "exception_resolved",
            Cancel |-> "cancellable"]

Guards(from, command) ==
    {GuardOf[command]} \union
    CASE command = "ObserveChainMirror" -> {"chain_mirror_observed"}
      [] command = "BookPosition" /\ from = "TransferAgentConfirmed"
           -> {"chain_mirror_not_required"}
      [] command = "BookPosition" /\ from = "ChainMirrorObserved"
           -> {"chain_mirror_observed"}
      [] OTHER -> {}

GuardPassed(guard, ctx) ==
    \/ guard = "reconciled"
    \/ guard = "chain_mirror_not_required" /\ "chain_mirror_required" \notin ctx
    \/ guard \in ctx

(***************************************************************************)
(* transition_definition: the two arms of the match at                     *)
(* TransferAgentConfirmed are chosen by chain_mirror_required, so the arm  *)
(* that does not apply is an InvalidTransition and no guard is evaluated.  *)
(***************************************************************************)
Defined(from, command, to, ctx) ==
    /\ <<from, command, to>> \in Table
    /\ from = "TransferAgentConfirmed" =>
         /\ command = "ObserveChainMirror" => "chain_mirror_required" \in ctx
         /\ command = "BookPosition" => "chain_mirror_required" \notin ctx

(* transition: Ok with status `to'.                                        *)
Transition(from, command, to, ctx) ==
    /\ Defined(from, command, to, ctx)
    /\ \A guard \in Guards(from, command) : GuardPassed(guard, ctx)

(***************************************************************************)
(* The domain events, and the one each command's transitions emit.         *)
(***************************************************************************)
Event == {"SweepOrderCreated", "SweepEligibilityChecked",
          "SweepDisclosuresChecked", "SweepOrderApproved", "SweepCashLocked",
          "SweepSubscriptionSubmitted", "SweepTransferAgentConfirmed",
          "SweepChainMirrorObserved", "SweepPositionBooked", "SweepReconciled",
          "SweepActive", "RedemptionRequested", "RedemptionSubmitted",
          "RedemptionConfirmed", "RedemptionCashCredited",
          "ReconciliationBreakOpened", "ReconciliationBreakResolved"}

(* Mutant: the position is announced as booked when it is confirmed.       *)
EventTableEarly ==
    {<<"ConfirmTransferAgent", "SweepPositionBooked">>,
     <<"BookPosition", "SweepTransferAgentConfirmed">>}

EventTable ==
    {<<"CheckEligibility", "SweepEligibilityChecked">>,
     <<"CheckDisclosures", "SweepDisclosuresChecked">>,
     <<"Approve", "SweepOrderApproved">>,
     <<"LockCash", "SweepCashLocked">>,
     <<"SubmitSubscription", "SweepSubscriptionSubmitted">>,
     <<"ConfirmTransferAgent", "SweepTransferAgentConfirmed">>,
     <<"ObserveChainMirror", "SweepChainMirrorObserved">>,
     <<"BookPosition", "SweepPositionBooked">>,
     <<"Reconcile", "SweepReconciled">>,
     <<"Activate", "SweepActive">>,
     <<"RequestRedemption", "RedemptionRequested">>,
     <<"SubmitRedemption", "RedemptionSubmitted">>,
     <<"ConfirmRedemption", "RedemptionConfirmed">>,
     <<"CreditCash", "RedemptionCashCredited">>,
     <<"OpenException", "ReconciliationBreakOpened">>,
     <<"CloseException", "ReconciliationBreakResolved">>}

(* ReserveShares, SettleRedemption and Cancel emit nothing.                *)
Emits(command) == {e \in Event : <<command, e>> \in EventTable}

(***************************************************************************)
(* How far along its life an order in each status is: every transition     *)
(* goes up, which is what makes each command happen at most once.          *)
(***************************************************************************)
Rank == [Created |-> 1, EligibilityChecked |-> 2, DisclosureChecked |-> 3,
         Approved |-> 4, CashLocked |-> 5, SubscriptionSubmitted |-> 6,
         TransferAgentConfirmed |-> 7, ChainMirrorObserved |-> 8,
         PositionBooked |-> 9, Reconciled |-> 10, Active |-> 11,
         RedemptionRequested |-> 12, SharesReserved |-> 13,
         RedemptionSubmitted |-> 14, RedemptionConfirmed |-> 15,
         CashCredited |-> 16, Settled |-> 17, ExceptionOpen |-> 18,
         ExceptionClosed |-> 19, Cancelled |-> 20]
=============================================================================
