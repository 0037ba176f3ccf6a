---------------------------- MODULE MCOrderViews ----------------------------
(* OrderViews for TLC: two writers, a reader, the commands up to the       *)
(* booking, and those that may be issued in several statuses or too early. *)
EXTENDS OrderViews, TLC

CONSTANTS o1, r1

CONSTANTS w1, w2

MCSymmetry == Permutations(Writers)
MCAsset == {"USD", "FIDYY"}
MCTerms == {[cash |-> "USD", product |-> "FIDYY"]}
MCGuardContexts == {HappyPath}
MCRefOf == [o \in {o1} |-> r1]
MCIssued == {"CheckEligibility", "CheckDisclosures", "Approve", "LockCash",
             "SubmitSubscription", "ConfirmTransferAgent", "BookPosition",
             "Cancel", "OpenException", "RequestRedemption"}
=============================================================================
