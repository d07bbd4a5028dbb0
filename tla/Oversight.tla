----------------------------- MODULE Oversight ------------------------------
(***************************************************************************)
(* What everybody is shown of a request: the requester's list, the feeds   *)
(* and the dashboard of a creator, the queues of moderators, the dispute   *)
(* desk and the Admin's monitoring.  The queries read the row of           *)
(* RequestLifecycle and change nothing, so its behaviours are the ones     *)
(* looked at here; what the properties ask is whether the lists and the    *)
(* handlers agree on what there is to do.  Paging, sorting and optional    *)
(* filters are left out: a list is the request being on it.                *)
(***************************************************************************)
EXTENDS RequestLifecycle

CONSTANTS
    Near,           \* creators with a GPS fix within the radius of the request
    Poster          \* its requester

ASSUME NearAssumption == Near \subseteq Creators
ASSUME PosterAssumption == Poster \notin Creators \cup {None}

TERMINAL_STATUSES == {"COMPLETED", "REJECTED", "DISPUTED", "EXPIRED", "CANCELLED"}

Exists == status # "NONE"
Unexpired == clock.expiry # "expired"

-----------------------------------------------------------------------------
(* The requester and the creators.                                         *)

\* requestService.listMine without a filter, and getById.
ListMine == Exists

\* findDiscoverableInBoundingBox, before distances are looked at.
Discoverable == status \in {"PUBLISHED", "MATCHING_WINDOW"} /\ Unexpired

\* GET /requests/nearby.
Nearby(c) == c \in Near /\ Discoverable

\* GET /requests/available, for creators without a fix.
Available(c) == status = "PUBLISHED" /\ Unexpired

\* GET /requests/:id/details: any user sees all but a DRAFT; what he is told of it.
Visible == Exists /\ status # "DRAFT"
IsLocked == status \notin {"PUBLISHED", "DRAFT", "MATCHING_WINDOW"}
IsVisibleToCreator(c) == status \in {"PUBLISHED", "MATCHING_WINDOW"} /\ Unexpired
Details(c) == [shown |-> Visible, locked |-> IsLocked, open |-> IsVisibleToCreator(c)]

\* Slip: an upload under way is not the creator's work any more.
ActiveUntilUpload(c) ==
    creator = c /\ status \in {"CREATOR_ASSIGNED", "TEMPORARY_CHAT", "RECORDING", "RESHOOT_REQUESTED"}

\* findActiveForCreator.
Active(c) ==
    /\ creator = c
    /\ status \in {"CREATOR_ASSIGNED", "TEMPORARY_CHAT", "RECORDING", "UPLOAD",
                   "MODERATOR_REVIEW", "REQUESTER_REVIEW", "RESHOOT_REQUESTED"}

\* findAcceptedForCreator.
Accepted(c) == creator = c /\ status # "PUBLISHED"

\* creatorService.dashboard.
Dashboard(c) == [pending |-> Nearby(c), active |-> Active(c), accepted |-> Accepted(c)]

-----------------------------------------------------------------------------
(* Moderators and Admins.                                                  *)

\* The queue of requests not yet published (moderationService.getRequestQueue).
RequestQueue == status = "PENDING_MODERATION"

\* The queue of videos, by their own state: uploaded, and not yet decided on.
VideoQueue == status \in {"UPLOAD", "MODERATOR_REVIEW"}

One(shown) == IF shown THEN 1 ELSE 0

\* A filter is All, or the value a row must have.
All == "all"
Matches(value, filter) == filter \in {All, value}

\* disputeService.listMine, adminList, and the figures of adminStats.
ListMyDisputes(u, filter) == dispute.status # "NONE" /\ u \in {Poster, creator} /\ Matches(dispute.status, filter)
DisputeList(filter) == dispute.status # "NONE" /\ Matches(dispute.status, filter)
DisputeStats == [s \in DisputeStatuses \ {"NONE"} |-> One(dispute.status = s)]

\* findManyActiveForAdmin: a status asked for is listed also when it is terminal.
FindManyActiveForAdmin(filter) ==
    Exists /\ IF filter = All THEN status \notin TERMINAL_STATUSES ELSE status = filter
ActiveRequests(filter) == FindManyActiveForAdmin(filter)

CountGroupedByLiveStatus == [s \in Statuses \ TERMINAL_STATUSES |-> One(status = s)]
ActivePins == Exists /\ status \notin TERMINAL_STATUSES
ActiveForAdmin == ActiveRequests(All)

\* getLiveMonitoring's tiles: a row for each of LIVE_STATUS_ORDER.
LIVE_STATUS_ORDER ==
    {"DRAFT", "PUBLISHED", "CREATOR_ASSIGNED", "TEMPORARY_CHAT", "RECORDING", "UPLOAD",
     "MODERATOR_REVIEW", "REQUESTER_REVIEW", "RESHOOT_REQUESTED", "ACCEPTED", "PAYMENT_RELEASED"}
LiveMonitoring ==
    [tiles |-> [s \in LIVE_STATUS_ORDER |-> CountGroupedByLiveStatus[s]], pins |-> ActivePins,
     queue |-> VideoQueue, open |-> DisputeStats["OPEN"], review |-> DisputeStats["UNDER_REVIEW"]]

\* getDashboardKpis.
DashboardKpis ==
    [active |-> ActiveForAdmin, queue |-> VideoQueue,
     disputes |-> DisputeStats["OPEN"] + DisputeStats["UNDER_REVIEW"]]

\* escrowService: getForParticipant, adminList, and the sums of adminSummary,
\* which are of escrows in INR and of three of their states.
EscrowShownTo(u) == u \in {Poster, creator} /\ escrow.state # "NONE"
EscrowList(filter) == escrow.state # "NONE" /\ Matches(escrow.state, filter)
SumOf(state, amount) == IF Currency = "INR" /\ escrow.state = state THEN amount ELSE 0
EscrowSummary ==
    [totalLocked |-> SumOf("RESERVED", escrow.locked),
     totalCommissionEarned |-> SumOf("RELEASED", escrow.commission),
     totalPaidToCreators |-> SumOf("RELEASED", escrow.earnings),
     totalRefunded |-> SumOf("REFUNDED", escrow.refunded)]

-----------------------------------------------------------------------------
(* Who is shown the request and can do something about it: the checks his  *)
(* endpoint makes, which are the guards of RequestLifecycle's actions.     *)

CreatorMoves(c) ==
    \/ (Nearby(c) \/ Available(c)) /\ CanAccept
    \/ Dashboard(c).active /\ (CanRecord \/ CanUpload \/ CanDeleteDraft)

RequesterMoves ==
    /\ ListMine
    /\ CanCancel \/ CanReview \/ (status = "ACCEPTED" /\ CanDispute)

StaffMoves ==
    \/ RequestQueue /\ CanModerateRequest
    \/ VideoQueue /\ CanModerateVideo
    \/ DisputeList(All) /\ (CanReopen \/ CanResolve)

\* A sweep has it on its list now, or will when its deadline passes.
SweptSometime ==
    \/ TimerDue \/ WindowDue \/ ExpiryDue \/ (CanReview /\ clock.review = 1)
    \/ status \in {"DRAFT", "PUBLISHED"} /\ Unexpired
    \/ status = "CREATOR_ASSIGNED" /\ ~clock.timer
    \/ status = "MATCHING_WINDOW" /\ ~clock.window
    \/ status = "REQUESTER_REVIEW" /\ clock.review = 0

\* What the Admin's screens leave out although it goes on: a request without a
\* tile waits for a moderator or for its window to close, a frozen escrow that
\* no figure counts belongs to a case that was closed or reopened, and what the
\* summary says the platform holds or earned is what the two users' books
\* lack, although a resolution rewrites the earnings and not the commission,
\* save for escrows that are frozen or split, or were split before a dispute.
MonitoringGaps ==
    /\ ActiveForAdmin /\ (\A s \in LIVE_STATUS_ORDER : LiveMonitoring.tiles[s] = 0)
          => RequestQueue \/ status = "MATCHING_WINDOW"
    /\ EscrowList("FROZEN") /\ DashboardKpis.disputes = 0
          => DisputeList("CLOSED") \/ DisputeList("REOPENED")
    /\ Currency = "INR" /\ DeltaApplies /\ escrow.state \notin {"FROZEN", "SPLIT"}
          => /\ EscrowSummary.totalLocked + EscrowSummary.totalCommissionEarned
                   = -(RequesterTotal + CreatorTotal)
             /\ EscrowSummary.totalPaidToCreators = CreatorTotal

\* A case and its money are shown to the same people: nobody reads of a dispute
\* about an escrow he may not look at.
ParticipantsSee == \A u \in Creators \cup {Poster} : ListMyDisputes(u, All) => EscrowShownTo(u)

\* Nothing anybody is waiting for is on nobody's list: a request that is not
\* at its end, or that still holds money, is shown to somebody whose endpoint
\* would take it on, or a sweep will; and a frozen escrow is on the dispute
\* desk of an Admin who can settle it (the finders of requestRepository and
\* requestVideoRepository against the guards of the handlers); what the
\* dashboards leave out is no more than MonitoringGaps says.
NoOrphan ==
    /\ ActiveForAdmin \/ (Exists /\ escrow.state \in {"RESERVED", "FROZEN"})
          => \/ RequesterMoves \/ StaffMoves \/ SweptSometime
             \/ \E c \in Creators : CreatorMoves(c)
    /\ EscrowList("FROZEN") => StaffMoves
    /\ MonitoringGaps /\ ParticipantsSee

\* What a creator is offered he can take, and what he can take he is offered:
\* the feeds, the details page and accept judge status and expiry alike, and
\* nobody is shown as free to take a request another creator holds.
OffersStand ==
    \A c \in Creators :
        /\ Nearby(c) \/ Available(c)
              => CanAccept \/ status = "MATCHING_WINDOW"
        /\ CanAccept => Available(c) /\ Details(c).shown /\ ~Details(c).locked /\ Details(c).open
        /\ Details(c).locked => ~ Details(c).open
        /\ Details(c).open => creator = None

\* The lists and the handlers agree on what there is to do and for whom:
\* NoOrphan and OffersStand.
ListsMatchWork == NoOrphan /\ OffersStand
=============================================================================
