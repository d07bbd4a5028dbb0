------------------------ MODULE MCRequestLifecycle -------------------------
(* Small instances of RequestLifecycle for TLC.                            *)
EXTENDS RequestLifecycle, TLC

CONSTANTS c1, c2

MCCreators == {c1, c2}

\* Odd numbers of hundredths, so that every rounding in the split is exercised;
\* the larger one is at the high-value threshold of the configurations.
MCAmounts == {1033, 2005}

MCPartialRefunds == {501}

MCSymmetry == Permutations(MCCreators)

\* Splits an Admin may resolve with: an even one, and one that always rounds.
MCPercents == {50, 33}
=============================================================================
