------------------------- MODULE MCLifecycleFaults -------------------------
(* A small Credit-mode instance of LifecycleFaults for TLC.                *)
EXTENDS LifecycleFaults, TLC

CONSTANTS c1, c2

MCCreators == {c1, c2}
MCSymmetry == Permutations(MCCreators)

\* REQUEST_COST_CREDITS: one fixed amount, not the same as the creator reward.
MCAmounts == {200}
MCPartialRefunds == {50}
MCPercents == {50}
=============================================================================
