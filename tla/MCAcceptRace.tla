---------------------------- MODULE MCAcceptRace ---------------------------
(* Small instances of AcceptRace: two creators, one of whom taps twice.    *)
EXTENDS AcceptRace, TLC

CONSTANTS c1, c2, a1, a2, a3

MCCreators == {c1, c2}
MCAttempts == {a1, a2, a3}
MCOf == a1 :> c1 @@ a2 :> c1 @@ a3 :> c2

\* c1 can pay for both taps, c2 for one acceptance.
MCConnects == c1 :> 2 @@ c2 :> 1
=============================================================================
