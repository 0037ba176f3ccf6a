--------------------------- MODULE SweepRefinement ---------------------------
(***************************************************************************)
(* The order store against the abstract orders of abstract_refinement.rs,  *)
(* one instance of AbstractSweep per order.                                *)
(*                                                                         *)
(* The abstract state is read off the tables: the confirmation off         *)
(* sweep_orders, the booking off positions, the ledger effects off         *)
(* ledger_entries.  Two commands post other rows than the abstract order   *)
(* counts, and they are named below.                                       *)
(***************************************************************************)
EXTENDS SweepOrders, FiniteSets

(* The rows of the order's ledger on one side, a row posted twice counted  *)
(* twice.                                                                  *)
Postings(o, side) ==
    UNION {{e} \X (1 .. ledger[o][e]) : e \in {x \in LedgerEntry : x.side = side}}

Posted(o, side) == Cardinality(Postings(o, side))

PostedAssets(o) == {e.asset : e \in {x \in LedgerEntry : ledger[o][x] > 0}}

ProductOf(o) == IF status[o] = Absent THEN NoTerms ELSE terms[o].product

AbstractOrder(o) == INSTANCE AbstractSweep WITH
    NoAsset <- NoTerms,
    status <- status[o],
    product_asset <- ProductOf(o),
    seen_statuses <- {timeline[o][i].to : i \in DOMAIN timeline[o]},
    position_booked <- positions[o] # NoRef,
    transfer_agent_confirmation_seen <- confirmation[o] # NoRef,
    redemption_confirmation_seen <- Did(o, "ConfirmRedemption"),
    ledger_debit <- Posted(o, "Debit"),
    ledger_credit <- Posted(o, "Credit"),
    ledger_entries <- PostedAssets(o)

(* One row on each side for each of `assets'.                              *)
Posts(o, assets) ==
    /\ \A side \in Side : Posted(o, side)' = Posted(o, side) + Cardinality(assets)
    /\ PostedAssets(o)' = PostedAssets(o) \union assets
    /\ (positions[o] # NoRef)' = (positions[o] # NoRef)

(* The store locks the cash asset, the abstract order counts the product.  *)
LockedInCash(o) == AbstractOrder(o)!Follows("LockCash") /\ Posts(o, {terms[o].cash})

(* The store posts nothing when it credits cash, the abstract order counts *)
(* a third debit and credit.                                               *)
CreditedUnposted(o) == AbstractOrder(o)!Follows("CreditCash") /\ Posts(o, {})

(***************************************************************************)
(* Whatever commands, references and retries reach the store, what it      *)
(* records of each order is what the abstract model of the repository      *)
(* allows, but for the ledger rows of two commands: each step is one of    *)
(* its actions, justified by what the history shows, and leaves its        *)
(* invariants true; LockCash posts its pair in another asset, and          *)
(* CreditCash posts none.                                                  *)
(***************************************************************************)
AbstractInit == \A o \in Orders : AbstractOrder(o)!Init

AbstractStep ==
    \A o \in Orders :
        \/ \E asset \in Asset : AbstractOrder(o)!Created(asset)
        \/ \E action \in Command \ {"LockCash", "CreditCash"} : AbstractOrder(o)!Apply(action)
        \/ LockedInCash(o) \/ CreditedUnposted(o)
        \/ UNCHANGED AbstractOrder(o)!vars

FollowsAbstractSweep == AbstractInit /\ [][AbstractStep]_storeVars
=============================================================================
