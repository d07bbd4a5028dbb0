--------------------------- MODULE Correspondence ---------------------------
(***************************************************************************)
(* What the service sends a user and keeps for him: notifications through  *)
(* the one device he last registered, the export of his data, and the chat *)
(* of a request under review with its filter.  The calls are Accounts'     *)
(* calls, with more jobs: ref is the device of a "device", and 1 for a     *)
(* "say" the filter blocks.  Texts and templates are left out; an await    *)
(* that only reads a text is no step.                                      *)
(***************************************************************************)
EXTENDS Accounts

CONSTANTS
    FirstDevice,    \* the device everybody has registered at the start
    NoDevice,       \* a null fcmToken
    FlagThreshold,  \* MODERATION_FLAG_THRESHOLD
    Parties         \* the requester and the creator of the request with the chat

ASSUME CorrespondenceAssumption ==
    /\ FlagThreshold \in Nat \ {0} /\ NoDevice # FirstDevice
    /\ Parties \subseteq Contacts /\ Cardinality(Parties) = 2

VARIABLES
    device,         \* User.fcmToken
    latest,         \* the device each user registered last
    gone,           \* devices the push service no longer knows
    inactive,       \* users whose row was not written for INACTIVE_ACCOUNT_DAYS
    stray,          \* users who registered while a call went by an earlier look at their row
    wants,          \* users with the notification category of these events on
    inbox,          \* Notification rows, by the call that wrote them
    export,         \* DataExportRequest of each call: status, and whether it has its file
    fumbled,        \* exports that failed after they were ready
    open,           \* the request is in REQUESTER_REVIEW
    said,           \* PostSubmissionChatMessage rows: blockedAttempt of each
    flagged,        \* chatFlaggedForReview, one column for this chat and the questions before it
    asked,          \* it was set for a question thread of the request
    alerts,         \* AdminAlert rows about this chat
    crowded         \* blocked messages were in progress together

notices == <<device, latest, gone, inactive, stray, wants, inbox>>
exports == <<export, fumbled>>
chat == <<open, said, flagged, asked, alerts, crowded>>
correspondence == <<notices, exports, chat>>
accountsOnly == <<users, otps, tokens, trail>>

CorrespondenceInit ==
    /\ device = [c \in Contacts |-> FirstDevice] /\ latest = device
    /\ gone = {} /\ inactive = {} /\ stray = {} /\ wants = Contacts /\ inbox = {}
    /\ export = [k \in DOMAIN call |-> [status |-> "none", file |-> FALSE]] /\ fumbled = {}
    /\ open = TRUE /\ said = <<>> /\ flagged = FALSE /\ asked = FALSE
    /\ alerts = 0 /\ crowded = FALSE

-----------------------------------------------------------------------------
(* notificationService.notifyUser and fcmService.sendToUser: the end of    *)
(* every call that tells somebody something.                               *)

Tellers == {"event", "export", "say"}

\* Whom a call tells: of the chat, the other participant.
Told(k) == IF Job(k).op = "say" THEN CHOOSE c \in Parties : c # Who(k) ELSE Who(k)

StartEvent(k) ==
    /\ MayStart(k, {"event"}) /\ To(k, "tell")
    /\ UNCHANGED <<accountsOnly, correspondence>>

\* isCategoryEnabled.
IsCategoryEnabled(k) ==
    /\ At(k, "tell", Tellers)
    /\ IF Told(k) \in wants \cap account THEN To(k, "wanted") ELSE Finish(k)
    /\ UNCHANGED <<accountsOnly, correspondence>>

ReadDevice(k) ==
    /\ At(k, "wanted", Tellers)
    /\ call' = [call EXCEPT ![k].pc = "addressed", ![k].row = [device |-> device[Told(k)]]]
    /\ UNCHANGED <<accountsOnly, correspondence>>

CreateNotification(k) ==
    /\ At(k, "addressed", Tellers)
    /\ inbox' = inbox \cup {k}
    /\ IF call[k].row.device = NoDevice THEN Finish(k) ELSE To(k, "push")
    /\ UNCHANGED <<accountsOnly, device, latest, gone, inactive, stray, wants, exports, chat>>

\* Slip: whatever the push service answers, the device is taken for gone.
SaysGoneAlways(d) == TRUE

\* messaging/registration-token-not-registered; any other error is only logged.
SaysGone(d) == d \in gone

Push(k) ==
    /\ At(k, "push", Tellers)
    /\ \/ Finish(k)
       \/ SaysGone(call[k].row.device) /\ To(k, "rejected")
    /\ UNCHANGED <<accountsOnly, correspondence>>

\* By the user's id, whatever device he has by now.
ClearToken(k) ==
    /\ At(k, "rejected", Tellers) /\ Finish(k)
    /\ device' = [device EXCEPT ![Told(k)] = NoDevice] /\ inactive' = inactive \ {Told(k)}
    /\ UNCHANGED <<accountsOnly, latest, gone, stray, wants, inbox, exports, chat>>

\* Calls that go by an earlier look at the device of c.
Addressing(c) == {k \in Calls : /\ Told(k) = c
                                /\ \/ At(k, "addressed", Tellers) \/ At(k, "push", Tellers)
                                   \/ At(k, "rejected", Tellers) \/ At(k, "stale", {"tidy"})}

RegisterFcmToken(k) ==
    LET c == Who(k)
    IN  /\ MayStart(k, {"device"}) /\ Authenticated(k) /\ Finish(k)
        /\ device' = [device EXCEPT ![c] = Job(k).ref] /\ latest' = [latest EXCEPT ![c] = Job(k).ref]
        /\ inactive' = inactive \ {c}
        /\ stray' = IF Addressing(c) # {} THEN stray \cup {c} ELSE stray \ {c}
        /\ UNCHANGED <<accountsOnly, gone, wants, inbox, exports, chat>>

UpdatePreferences(k) ==
    /\ MayStart(k, {"mute"}) /\ Authenticated(k) /\ Finish(k)
    /\ wants' = wants \ {Who(k)} /\ inactive' = inactive \ {Who(k)}
    /\ UNCHANGED <<accountsOnly, device, latest, gone, stray, inbox, exports, chat>>

\* cleanupInactiveAccounts: devices of users who were away for long.
FindInactiveWithFcmToken(k) ==
    /\ MayStart(k, {"tidy"})
    /\ IF Who(k) \in inactive /\ device[Who(k)] # NoDevice THEN To(k, "stale") ELSE Finish(k)
    /\ UNCHANGED <<accountsOnly, correspondence>>

ClearFcmToken(k) ==
    /\ At(k, "stale", {"tidy"}) /\ Finish(k)
    /\ device' = [device EXCEPT ![Who(k)] = NoDevice] /\ inactive' = inactive \ {Who(k)}
    /\ gone' = gone \cup {latest[Who(k)]}
    /\ UNCHANGED <<accountsOnly, latest, stray, wants, inbox, exports, chat>>

\* The app is removed from a device; a user stays away for long.
AppRemoved ==
    /\ gone' = gone \cup {FirstDevice} /\ gone' # gone
    /\ \E k \in Calls : Job(k).op \in Tellers
    /\ UNCHANGED <<accountsOnly, call, device, latest, inactive, stray, wants, inbox, exports, chat>>

GrowInactive(c) ==
    /\ c \notin inactive /\ (\E k \in Calls : Job(k).op = "tidy" /\ Who(k) = c)
    /\ inactive' = inactive \cup {c}
    /\ UNCHANGED <<accountsOnly, call, device, latest, gone, stray, wants, inbox, exports, chat>>

-----------------------------------------------------------------------------
(* dataExportService.createExportRequest: one try around all of it, the    *)
(* notification included.                                                  *)

CreateExport(k) ==
    /\ MayStart(k, {"export"}) /\ Authenticated(k) /\ To(k, "bundle")
    /\ export' = [export EXCEPT ![k].status = "PROCESSING"]
    /\ UNCHANGED <<accountsOnly, notices, fumbled, chat>>

\* buildExportBundle reads; a user row that is gone makes it throw.
BuildExportBundle(k) ==
    /\ At(k, "bundle", {"export"})
    /\ To(k, IF Who(k) \in account THEN "upload" ELSE "failing")
    /\ UNCHANGED <<accountsOnly, correspondence>>

UploadExport(k) ==
    /\ At(k, "upload", {"export"}) /\ (To(k, "uploaded") \/ To(k, "failing"))
    /\ UNCHANGED <<accountsOnly, correspondence>>

\* Slip: the status is left to whoever downloads it first.
ReadyWithoutStatus(e) == [e EXCEPT !.file = TRUE]

Ready(e) == [e EXCEPT !.status = "READY", !.file = TRUE]

MarkReady(k) ==
    /\ At(k, "uploaded", {"export"}) /\ To(k, "tell")
    /\ export' = [export EXCEPT ![k] = Ready(@)]
    /\ UNCHANGED <<accountsOnly, notices, fumbled, chat>>

\* A query of the notification fails, or the one that clears the device.
TellingFails(k) ==
    /\ At(k, call[k].pc, {"export"}) /\ call[k].pc \in {"tell", "wanted", "addressed", "rejected"}
    /\ To(k, "failing") /\ fumbled' = fumbled \cup {k}
    /\ UNCHANGED <<accountsOnly, notices, export, chat>>

\* The catch: FAILED, with fileUrl as it is.
MarkFailed(k) ==
    /\ At(k, "failing", {"export"}) /\ Finish(k)
    /\ export' = [export EXCEPT ![k].status = "FAILED"]
    /\ UNCHANGED <<accountsOnly, notices, fumbled, chat>>

-----------------------------------------------------------------------------
(* postSubmissionChatService.                                              *)

\* list, and adminList: the messages in them, by their place.
ChatList == {i \in DOMAIN said : ~said[i]}
ChatAdminList == DOMAIN said

BlockedNow(k) == Running(k) /\ Job(k).op = "say" /\ Job(k).ref = 1

LoadChat(k) ==
    /\ MayStart(k, {"say"}) /\ Authenticated(k) /\ open
    /\ call' = [call EXCEPT ![k].pc = "loaded", ![k].saw = flagged]
    /\ crowded' = (crowded \/ \E l \in Calls \ {k} : BlockedNow(l))
    /\ UNCHANGED <<accountsOnly, notices, exports, open, said, flagged, asked, alerts>>

\* The toggle, off for the chat to be had; the status is the one loaded.
CheckToggle(k) ==
    /\ At(k, "loaded", {"say"}) /\ (To(k, "allowed") \/ Finish(k))
    /\ UNCHANGED <<accountsOnly, correspondence>>

Say(k) ==
    LET blocked == Job(k).ref = 1
    IN  /\ At(k, "allowed", {"say"}) /\ To(k, IF blocked THEN "refused" ELSE "tell")
        /\ said' = Append(said, blocked)
        /\ UNCHANGED <<accountsOnly, notices, exports, open, flagged, asked, alerts, crowded>>

\* Slip: one too many.
ManyBlockedMore == Cardinality({i \in DOMAIN said : said[i]}) > FlagThreshold

\* countBlocked.
ManyBlocked == Cardinality({i \in DOMAIN said : said[i]}) >= FlagThreshold

CountBlocked(k) ==
    /\ At(k, "refused", {"say"})
    /\ IF ManyBlocked /\ ~call[k].saw THEN To(k, "many") ELSE Finish(k)
    /\ UNCHANGED <<accountsOnly, correspondence>>

FlagChat(k) ==
    /\ At(k, "many", {"say"}) /\ To(k, "flagged")
    /\ flagged' = TRUE
    /\ UNCHANGED <<accountsOnly, notices, exports, open, said, asked, alerts, crowded>>

CreateAlert(k) ==
    /\ At(k, "flagged", {"say"}) /\ Finish(k)
    /\ alerts' = alerts + 1
    /\ UNCHANGED <<accountsOnly, notices, exports, open, said, flagged, asked, crowded>>

\* queryService.ask, while the request was PUBLISHED or held since: the flag is
\* the same column, the alert that follows is about the thread.
FlagThread ==
    /\ ~asked /\ (\E k \in Calls : Job(k).op = "say")
    /\ flagged' = TRUE /\ asked' = TRUE
    /\ UNCHANGED <<accountsOnly, call, notices, exports, open, said, alerts, crowded>>

\* The requester decides, and the status is another.
ReviewEnds ==
    /\ open /\ (\E k \in Calls : Job(k).op = "say") /\ open' = FALSE
    /\ UNCHANGED <<accountsOnly, call, notices, exports, said, flagged, asked, alerts, crowded>>

-----------------------------------------------------------------------------
CorrespondenceStep ==
    \/ \E k \in Calls :
        \/ StartEvent(k) \/ IsCategoryEnabled(k) \/ ReadDevice(k) \/ CreateNotification(k)
        \/ Push(k) \/ ClearToken(k) \/ RegisterFcmToken(k) \/ UpdatePreferences(k)
        \/ FindInactiveWithFcmToken(k) \/ ClearFcmToken(k)
        \/ CreateExport(k) \/ BuildExportBundle(k) \/ UploadExport(k) \/ MarkReady(k)
        \/ TellingFails(k) \/ MarkFailed(k)
        \/ LoadChat(k) \/ CheckToggle(k) \/ Say(k) \/ CountBlocked(k) \/ FlagChat(k) \/ CreateAlert(k)
    \/ \E c \in Contacts : GrowInactive(c)
    \/ AppRemoved
    \/ FlagThread
    \/ ReviewEnds

-----------------------------------------------------------------------------
(* Properties.                                                             *)

\* The device a user registered last is the one he is reached at, until its app
\* is gone or he stays away (fcmService.sendToUser, registerFcmToken, the
\* retention sweep), unless he registered it while a call went by an earlier
\* look and then cleared what it found.
DeviceKept ==
    \A c \in Contacts : device[c] # latest[c] =>
        device[c] = NoDevice /\ (latest[c] \in gone \/ c \in stray)

\* Who is told his export is ready can download it, and an export ends
\* (createExportRequest): it is READY with its file or FAILED without one
\* unless telling him was what failed, and PROCESSING only while its call runs
\* or when it was cut.
ExportTold ==
    \A k \in Calls : Job(k).op = "export" =>
        /\ k \in inbox => export[k].file /\ (export[k].status = "READY" \/ k \in fumbled)
        /\ export[k].file => export[k].status = "READY" \/ k \in fumbled
        /\ export[k].status = "PROCESSING" => Running(k) \/ Who(k) \in torn

\* A user is told what holds, where he is: DeviceKept and ExportTold.
NoticesReach == DeviceKept /\ ExportTold

\* A chat in which the two keep writing what the filter blocks is flagged, in
\* whatever order their messages come (send, countBlocked), and not for less;
\* and the Admins are alerted to it, once unless blocked messages were in
\* progress together.  The alert is due only where no question thread of the
\* request has set the flag, which the two share: where one has, a chat that
\* crosses the threshold raises none.
ChatFlagged ==
    (torn = {} /\ \A k \in Calls : Running(k) => Job(k).op # "say") =>
        /\ Cardinality(ChatAdminList \ ChatList) >= FlagThreshold => flagged /\ (alerts > 0 \/ asked)
        /\ flagged => Cardinality(ChatAdminList \ ChatList) >= FlagThreshold \/ asked
        /\ ~crowded => alerts <= 1
=============================================================================
