---------------------------- MODULE MCSweepOrders ----------------------------
(* SweepOrders for TLC: two orders, two keys, two references.              *)
EXTENDS SweepRefinement, Certifier, TLC

CONSTANTS o1, o2, r1, r2

MCOrders == {o1, o2}
MCRefs == {r1, r2}
MCAsset == {"USD", "FIDD", "FYOXX"}

(* One admissible request, one that books the cash rail as a yield source  *)
(* and one that pays with a product.                                       *)
MCTerms == {[cash |-> "USD", product |-> "FYOXX"],
            [cash |-> "USD", product |-> "FIDD"],
            [cash |-> "FYOXX", product |-> "FYOXX"]}

(* What every service passes, the same with the chain mirror required and  *)
(* observed, and with the mirror required but not yet observed.            *)
MCGuardContexts == {HappyPath, ContextField, ContextField \ {"chain_mirror_observed"}}

MCSymmetry == Permutations(MCOrders) \union Permutations(MCRefs)
=============================================================================
