---------------------------- MODULE MCReviewFlow ----------------------------
(***************************************************************************)
(* ReviewFlow for TLC: a template of two audit stages, one whose only      *)
(* audit stage has no auditors, and one that only has the stage at which   *)
(* orders are posted.                                                      *)
(***************************************************************************)
EXTENDS ReviewFlow, TLC

CONSTANTS a, b

MCStepLists == {<<{}, {a}, {b}>>, <<{}, {}>>, <<{}>>}

MCSymmetry == Permutations(Handlers) \union Permutations(TplIds)

=============================================================================
