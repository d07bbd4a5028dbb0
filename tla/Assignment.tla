---------------------------- MODULE Assignment -----------------------------
(***************************************************************************)
(* What acceptance promises, without locks, sweeps or stale reads: an      *)
(* offered request is nobody's, one creator takes it, only that creator's  *)
(* assignment can be undone, and a request that has gone on is never       *)
(* offered again.  AcceptRace implements this.                             *)
(***************************************************************************)
CONSTANTS Creators, None

VARIABLES phase, owner

TypeOK ==
    /\ phase \in {"offered", "taken", "gone"}
    /\ owner \in Creators \cup {None}

Init == phase = "offered" /\ owner = None

\* One creator wins the request.
Take(c) ==
    /\ phase = "offered" /\ owner = None
    /\ phase' = "taken" /\ owner' = c

\* The assignment lapses or could not be paid for.
GiveBack ==
    /\ phase = "taken" /\ owner # None
    /\ phase' = "offered" /\ owner' = None

\* Recording starts, or the request is cancelled or expires.
GoOn ==
    /\ phase' = "gone"
    /\ UNCHANGED owner

Next == GiveBack \/ GoOn \/ \E c \in Creators : Take(c)

Spec == Init /\ [][Next]_<<phase, owner>>
=============================================================================
