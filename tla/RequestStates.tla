--------------------------- MODULE RequestStates ---------------------------
(***************************************************************************)
(* The statuses of a Request and the one table the handlers consult before *)
(* they change one (requestStateMachine.ts).                               *)
(***************************************************************************)

Statuses == {
    "DRAFT", "PENDING_MODERATION", "PUBLISHED", "MATCHING_WINDOW",
    "CREATOR_ASSIGNED", "TEMPORARY_CHAT", "RECORDING", "UPLOAD",
    "MODERATOR_REVIEW", "REQUESTER_REVIEW", "RESHOOT_REQUESTED", "ACCEPTED",
    "PAYMENT_RELEASED", "COMPLETED", "REJECTED", "DISPUTED", "EXPIRED",
    "CANCELLED", "TIPPING" }

TRANSITIONS == [
    DRAFT |-> {"PUBLISHED", "PENDING_MODERATION", "CANCELLED", "EXPIRED"},
    PENDING_MODERATION |-> {"PUBLISHED", "REJECTED"},
    PUBLISHED |-> {"CREATOR_ASSIGNED", "MATCHING_WINDOW", "CANCELLED", "EXPIRED"},
    MATCHING_WINDOW |-> {"CREATOR_ASSIGNED", "PUBLISHED"},
    CREATOR_ASSIGNED |-> {"RECORDING", "TEMPORARY_CHAT", "PUBLISHED", "CANCELLED"},
    TEMPORARY_CHAT |-> {"RECORDING", "PUBLISHED", "CANCELLED"},
    RECORDING |-> {"UPLOAD", "CANCELLED"},
    UPLOAD |-> {"MODERATOR_REVIEW", "RECORDING"},
    MODERATOR_REVIEW |-> {"REQUESTER_REVIEW", "REJECTED", "RECORDING", "DISPUTED"},
    REQUESTER_REVIEW |-> {"ACCEPTED", "RESHOOT_REQUESTED", "REJECTED", "DISPUTED"},
    RESHOOT_REQUESTED |-> {"RECORDING"},
    ACCEPTED |-> {"PAYMENT_RELEASED", "DISPUTED"},
    PAYMENT_RELEASED |-> {"COMPLETED", "DISPUTED"},
    COMPLETED |-> {"DISPUTED"},
    REJECTED |-> {"DISPUTED"},
    DISPUTED |-> {},
    EXPIRED |-> {},
    CANCELLED |-> {},
    TIPPING |-> {} ]

\* canTransition; assertTransition turns a FALSE into a 409, so in the modules
\* that use it a handler's assertTransition is this conjunct of its guard.
CanTransition(from, to) == from \in Statuses /\ to \in TRANSITIONS[from]

\* Statuses a dispute may be raised from (disputeValidation.ts).
DisputeSources == {
    "REQUESTER_REVIEW", "ACCEPTED", "PAYMENT_RELEASED", "COMPLETED",
    "REJECTED", "MODERATOR_REVIEW" }
=============================================================================
