---------------------------- MODULE PeopleProofs ----------------------------
(***************************************************************************)
(* What accounts, reputation, trust, settings, consent and correspondence  *)
(* guarantee beside each other, for any contacts, any casts of calls and   *)
(* any of them cut anywhere.                                               *)
(***************************************************************************)
EXTENDS People, TLAPS, FiniteSetTheorems, SequenceTheorems

-----------------------------------------------------------------------------
(* The calls.  A step moves one call, or none; it never changes its job,   *)
(* and a call that is done stays so.                                       *)

Shape(r) == r = [job |-> r.job, pc |-> r.pc, saw |-> r.saw, row |-> r.row]

CallsOK == call = [k \in Calls |-> call[k]] /\ \A k \in Calls : Shape(call[k])

\* Only call k has moved.
Only(k) ==
    /\ CallsOK' /\ Calls' = Calls
    /\ call'[k].job = call[k].job
    /\ \A l \in Calls \ {k} : call'[l] = call[l]

Dropped(k) ==
    Running(k) /\ call'[k] = Start(Job(k), "done") /\ torn' = torn \cup {Who(k)}

\* Only calls with these jobs have moved, but for those that were cut.
Frame(ops) ==
    /\ CallsOK' /\ Calls' = Calls
    /\ \A l \in Calls :
        /\ call'[l].job = call[l].job
        /\ call[l].pc = "done" => call'[l] = call[l]
        /\ call'[l] = call[l] \/ Job(l).op \in ops \/ Dropped(l)

\* The same where nothing is cut.
Exact(ops) ==
    /\ CallsOK' /\ Calls' = Calls
    /\ \A l \in Calls :
        /\ call'[l].job = call[l].job
        /\ call[l].pc = "done" => call'[l] = call[l]
        /\ call'[l] = call[l] \/ Job(l).op \in ops

AccountOps == {"sendRegister", "sendLogin", "verifyRegister", "verifyLogin", "login",
               "refresh", "logout", "block", "suspend", "sweep"}
OpinionOps == {"rate", "complete", "verdict", "report", "resolve", "dismiss", "toggle"}
ProfileOps == {"take", "lapse", "reshoot", "finish", "withdraw", "profile"}
SettingOps == {"get", "set", "preset", "direct"}
ConsentOps == {"raise", "look", "accept"}
NoticeOps == {"event", "device", "mute", "tidy", "export", "say"}

\* Whatever is written into a call's record, the record keeps its four fields.
LEMMA UpdateOnly ==
    ASSUME CallsOK, NEW k \in Calls, NEW r, Shape(r), r.job = call[k].job,
           call' = [call EXCEPT ![k] = r]
    PROVE  Only(k) /\ call'[k] = r
<1>1. Calls' = Calls /\ call'[k] = r /\ \A l \in Calls \ {k} : call'[l] = call[l]
  BY DEF CallsOK, Calls
<1>2. CallsOK'
  <2>1. call' = [l \in Calls' |-> call'[l]]
    BY DEF CallsOK, Calls
  <2>2. \A l \in Calls' : Shape(call'[l])
    BY <1>1 DEF CallsOK
  <2>3. QED
    BY <2>1, <2>2 DEF CallsOK, Shape
<1>3. QED
  BY <1>1, <1>2 DEF Only

LEMMA ToOnly ==
    ASSUME CallsOK, NEW k \in Calls, NEW where, To(k, where)
    PROVE  /\ Only(k) /\ call'[k].pc = where
           /\ call'[k].saw = call[k].saw /\ call'[k].row = call[k].row
<1>. DEFINE r == [job |-> call[k].job, pc |-> where, saw |-> call[k].saw, row |-> call[k].row]
<1>1. /\ Shape(r) /\ r.job = call[k].job /\ r.pc = where
      /\ r.saw = call[k].saw /\ r.row = call[k].row
  BY DEF Shape
<1>2. call' = [call EXCEPT ![k] = r]
  <2>1. call[k] = [job |-> call[k].job, pc |-> call[k].pc, saw |-> call[k].saw, row |-> call[k].row]
    BY DEF CallsOK, Shape
  <2>2. [call[k] EXCEPT !.pc = where] = r
    BY <2>1
  <2>3. QED
    BY <2>2 DEF To
<1>. HIDE DEF r
<1>3. QED
  BY <1>1, <1>2, UpdateOnly

LEMMA FinishOnly ==
    ASSUME CallsOK, NEW k \in Calls, Finish(k)
    PROVE  Only(k) /\ call'[k] = Start(Job(k), "done") /\ call'[k].pc = "done"
<1>. DEFINE r == Start(Job(k), "done")
<1>1. Shape(r) /\ r.job = call[k].job /\ r.pc = "done"
  BY DEF Shape, Start, Job
<1>2. call' = [call EXCEPT ![k] = r]
  BY DEF Finish, CallsOK, Job, Start
<1>. HIDE DEF r
<1>3. QED
  BY <1>1, <1>2, UpdateOnly DEF r

LEMMA KeepOnly ==
    ASSUME CallsOK, NEW k \in Calls, NEW where, NEW value, Keep(k, where, value)
    PROVE  /\ Only(k) /\ call'[k].pc = where
           /\ call'[k].saw = call[k].saw /\ call'[k].row = value
<1>. DEFINE r == [job |-> call[k].job, pc |-> where, saw |-> call[k].saw, row |-> value]
<1>1. /\ Shape(r) /\ r.job = call[k].job /\ r.pc = where
      /\ r.saw = call[k].saw /\ r.row = value
  BY DEF Shape
<1>2. call' = [call EXCEPT ![k] = r]
  <2>1. call[k] = [job |-> call[k].job, pc |-> call[k].pc, saw |-> call[k].saw, row |-> call[k].row]
    BY DEF CallsOK, Shape
  <2>. DEFINE half == [job |-> call[k].job, pc |-> where, saw |-> call[k].saw, row |-> call[k].row]
  <2>2. [[call[k] EXCEPT !.pc = where] EXCEPT !.row = value] = r
    <3>1. [call[k] EXCEPT !.pc = where] = half
      BY <2>1
    <3>2. [half EXCEPT !.row = value] = r
      OBVIOUS
    <3>3. QED
      BY <3>1, <3>2
  <2>3. QED
    BY <2>2 DEF Keep, CallsOK
<1>. HIDE DEF r
<1>3. QED
  BY <1>1, <1>2, UpdateOnly

\* Keep, written the other way round.
LEMMA RowOnly ==
    ASSUME CallsOK, NEW k \in Calls, NEW where, NEW value,
           call' = [call EXCEPT ![k].row = value, ![k].pc = where]
    PROVE  /\ Only(k) /\ call'[k].pc = where
           /\ call'[k].saw = call[k].saw /\ call'[k].row = value
<1>. DEFINE r == [job |-> call[k].job, pc |-> where, saw |-> call[k].saw, row |-> value]
<1>1. /\ Shape(r) /\ r.job = call[k].job /\ r.pc = where
      /\ r.saw = call[k].saw /\ r.row = value
  BY DEF Shape
<1>2. call' = [call EXCEPT ![k] = r]
  <2>1. call[k] = [job |-> call[k].job, pc |-> call[k].pc, saw |-> call[k].saw, row |-> call[k].row]
    BY DEF CallsOK, Shape
  <2>. DEFINE half == [job |-> call[k].job, pc |-> call[k].pc, saw |-> call[k].saw, row |-> value]
  <2>2. [[call[k] EXCEPT !.row = value] EXCEPT !.pc = where] = r
    <3>1. [call[k] EXCEPT !.row = value] = half
      BY <2>1
    <3>2. [half EXCEPT !.pc = where] = r
      OBVIOUS
    <3>3. QED
      BY <3>1, <3>2
  <2>3. QED
    BY <2>2 DEF CallsOK
<1>. HIDE DEF r
<1>3. QED
  BY <1>1, <1>2, UpdateOnly

LEMMA SawOnly ==
    ASSUME CallsOK, NEW k \in Calls, NEW where, NEW value,
           call' = [call EXCEPT ![k].pc = where, ![k].saw = value]
    PROVE  /\ Only(k) /\ call'[k].pc = where
           /\ call'[k].saw = value /\ call'[k].row = call[k].row
<1>. DEFINE r == [job |-> call[k].job, pc |-> where, saw |-> value, row |-> call[k].row]
<1>1. /\ Shape(r) /\ r.job = call[k].job /\ r.pc = where
      /\ r.saw = value /\ r.row = call[k].row
  BY DEF Shape
<1>2. call' = [call EXCEPT ![k] = r]
  <2>1. call[k] = [job |-> call[k].job, pc |-> call[k].pc, saw |-> call[k].saw, row |-> call[k].row]
    BY DEF CallsOK, Shape
  <2>. DEFINE half == [job |-> call[k].job, pc |-> where, saw |-> call[k].saw, row |-> call[k].row]
  <2>2. [[call[k] EXCEPT !.pc = where] EXCEPT !.saw = value] = r
    <3>1. [call[k] EXCEPT !.pc = where] = half
      BY <2>1
    <3>2. [half EXCEPT !.saw = value] = r
      OBVIOUS
    <3>3. QED
      BY <3>1, <3>2
  <2>3. QED
    BY <2>2 DEF CallsOK
<1>. HIDE DEF r
<1>3. QED
  BY <1>1, <1>2, UpdateOnly

See(k, where, value) == call' = [call EXCEPT ![k].pc = where, ![k].saw = value]

LEMMA SeeOnly ==
    ASSUME CallsOK, NEW k \in Calls, NEW where, NEW value, See(k, where, value)
    PROVE  /\ Only(k) /\ call'[k].pc = where
           /\ call'[k].saw = value /\ call'[k].row = call[k].row
BY SawOnly DEF See

LEMMA OnlyFrame ==
    ASSUME NEW k \in Calls, NEW ops, Only(k), call[k].pc # "done", Job(k).op \in ops
    PROVE  Frame(ops) /\ Exact(ops)
BY DEF Only, Frame, Exact

LEMMA StillFrame ==
    ASSUME CallsOK, NEW ops, call' = call
    PROVE  Frame(ops) /\ Exact(ops)
BY DEF CallsOK, Calls, Shape, Frame, Exact

LEMMA FrameGrows ==
    ASSUME NEW small, NEW large, small \subseteq large, Frame(small)
    PROVE  Frame(large)
BY DEF Frame

\* A call with another job stands where it stood, unless it is done.
LEMMA StillAt ==
    ASSUME NEW ops, Frame(ops) \/ Exact(ops), NEW l \in Calls, Job(l).op \notin ops,
           call'[l].pc # "done"
    PROVE  call'[l] = call[l]
<1>1. \/ call'[l] = call[l]
      \/ call'[l] = Start(Job(l), "done")
  BY DEF Frame, Exact, Dropped
<1>2. Start(Job(l), "done").pc = "done"
  BY DEF Start
<1>3. QED
  BY <1>1, <1>2

LEMMA AccountsFrame ==
    ASSUME CallsOK, AccountsStep
    PROVE  Frame(AccountOps) /\ torn \subseteq torn'
<1>1. ASSUME NEW k \in Calls,
             \/ Register(k) \/ ClearPending(k) \/ StoreEmailCode(k)
             \/ RequestPhoneOtp(k) \/ CoolDown(k) \/ StorePhoneCode(k)
             \/ LoadVerify(k) \/ ReadEmailCode(k) \/ ReadPhoneCode(k) \/ RemoveStale(k)
             \/ CountEmailTry(k) \/ CountPhoneTry(k) \/ LockOut(k) \/ TakeCode(k)
             \/ CheckUnregistered(k) \/ LoadPhoneUser(k) \/ CreateEmailUser(k) \/ CreatePhoneUser(k)
             \/ DropCode(k) \/ GrantSignupBonus(k)
             \/ LoadLogin(k) \/ IssueSession(k) \/ LoadToken(k) \/ RevokeFamily(k) \/ CheckUser(k)
             \/ CreateHeir(k) \/ MarkRotated(k) \/ LoadLogout(k) \/ Logout(k)
             \/ LoadUser(k) \/ ToggleBlock(k) \/ SuspendUser(k) \/ KillSessions(k)
             \/ PurgeExpired(k) \/ FindLapsed(k) \/ Reactivate(k)
      PROVE  Frame(AccountOps) /\ UNCHANGED torn
  <2>0. /\ \A where : To(k, where) => Only(k)
        /\ Finish(k) => Only(k)
        /\ \A where, value : call' = [call EXCEPT ![k].pc = where, ![k].saw = value] => Only(k)
        /\ \A where, value : call' = [call EXCEPT ![k].row = value, ![k].pc = where] => Only(k)
    BY ToOnly, FinishOnly, SawOnly, RowOnly
  <2>. USE DEF At, MayStart, trail, Verifies, Closes
  <2>1. SUFFICES Only(k) /\ call[k].pc # "done" /\ Job(k).op \in AccountOps /\ UNCHANGED torn
    BY OnlyFrame
  <2>2. CASE \/ Register(k) \/ ClearPending(k) \/ StoreEmailCode(k)
             \/ RequestPhoneOtp(k) \/ CoolDown(k) \/ StorePhoneCode(k)
    BY <2>0, <2>2 DEF Register, ClearPending, StoreEmailCode, RequestPhoneOtp, CoolDown,
                      StorePhoneCode, AccountOps
  <2>3. CASE LoadVerify(k) \/ ReadEmailCode(k) \/ ReadPhoneCode(k) \/ RemoveStale(k)
    BY <2>0, <2>3 DEF LoadVerify, ReadEmailCode, ReadPhoneCode, RemoveStale, Judge, AccountOps
  <2>4. CASE CountEmailTry(k) \/ CountPhoneTry(k) \/ LockOut(k) \/ TakeCode(k)
    BY <2>0, <2>4 DEF CountEmailTry, CountPhoneTry, LockOut, TakeCode, AccountOps
  <2>5. CASE \/ CheckUnregistered(k) \/ LoadPhoneUser(k) \/ CreateEmailUser(k)
             \/ CreatePhoneUser(k) \/ DropCode(k) \/ GrantSignupBonus(k)
    BY <2>0, <2>5 DEF CheckUnregistered, LoadPhoneUser, CreateEmailUser, CreatePhoneUser,
                      NewAccount, DropCode, GrantSignupBonus, AccountOps
  <2>6. CASE \/ LoadLogin(k) \/ IssueSession(k) \/ LoadToken(k) \/ RevokeFamily(k) \/ CheckUser(k)
             \/ CreateHeir(k) \/ MarkRotated(k) \/ LoadLogout(k) \/ Logout(k)
    BY <2>0, <2>6 DEF LoadLogin, IssueSession, LoadToken, RevokeFamily, CheckUser, CreateHeir,
                      MarkRotated, LoadLogout, Logout, AccountOps
  <2>7. CASE \/ LoadUser(k) \/ ToggleBlock(k) \/ SuspendUser(k) \/ KillSessions(k)
             \/ PurgeExpired(k) \/ FindLapsed(k) \/ Reactivate(k)
    BY <2>0, <2>7 DEF LoadUser, ToggleBlock, SuspendUser, CloseNow, KillSessions, PurgeExpired,
                      FindLapsed, Reactivate, AccountOps
  <2>8. QED
    BY <1>1, <2>2, <2>3, <2>4, <2>5, <2>6, <2>7
<1>2. ASSUME NEW k \in Calls, Cut(k)
      PROVE  Frame(AccountOps) /\ torn \subseteq torn'
  <2>1. Only(k) /\ call'[k] = Start(Job(k), "done") /\ Running(k) /\ torn' = torn \cup {Who(k)}
    BY <1>2, FinishOnly DEF Cut
  <2>2. Dropped(k) /\ call[k].pc # "done"
    BY <2>1 DEF Dropped, Running
  <2>3. QED
    BY <2>1, <2>2 DEF Only, Frame
<1>3. ASSUME NEW c \in Contacts,
             Cool(c) \/ LapseCode(c) \/ Unlock(c) \/ EndSuspension(c) \/ ExpireTokens(c)
      PROVE  Frame(AccountOps) /\ UNCHANGED torn
  <2>1. call' = call /\ torn' = torn
    BY <1>3 DEF Cool, LapseCode, Unlock, EndSuspension, ExpireTokens, trail
  <2>2. QED
    BY <2>1, StillFrame
<1>4. QED
  BY <1>1, <1>2, <1>3 DEF AccountsStep

OpinionAction(k) ==
    \/ LoadRate(k) \/ ReadOther(k) \/ CreateRating(k) \/ RevealOther(k) \/ AfterRating(k)
    \/ Complete(k) \/ ReadStats(k) \/ ReadRatings(k) \/ StoreStatus(k) \/ SyncUser(k)
    \/ AdminSetVerified(k)
    \/ LoadReport(k) \/ CreateReport(k) \/ CountReports(k) \/ ReadSuspect(k) \/ Flag(k)
    \/ Resolve(k) \/ Dismiss(k) \/ LoadToggle(k) \/ ToggleSuspicious(k)

LEMMA OpinionFrame ==
    ASSUME CallsOK, NEW k \in Calls, OpinionAction(k)
    PROVE  /\ Only(k) /\ call[k].pc # "done" /\ Job(k).op \in OpinionOps
           /\ UNCHANGED rest
<1>0. /\ \A where : To(k, where) => Only(k)
      /\ Finish(k) => Only(k)
      /\ \A where, value : Keep(k, where, value) => Only(k)
      /\ \A where, value : call' = [call EXCEPT ![k].pc = where, ![k].saw = value] => Only(k)
  BY ToOnly, FinishOnly, SawOnly, KeepOnly
<1>. USE DEF At, MayStart, Evaluators, OpinionOps
<1>1. CASE LoadRate(k) \/ ReadOther(k) \/ CreateRating(k) \/ RevealOther(k) \/ AfterRating(k)
  BY <1>0, <1>1 DEF LoadRate, ReadOther, CreateRating, RevealOther, AfterRating
<1>2. CASE Complete(k) \/ ReadStats(k) \/ ReadRatings(k) \/ SyncUser(k) \/ AdminSetVerified(k)
  BY <1>0, <1>2 DEF Complete, ReadStats, ReadRatings, SyncUser, AdminSetVerified
<1>3. CASE StoreStatus(k)
  BY <1>0, <1>3 DEF StoreStatus
<1>4. CASE LoadReport(k) \/ CreateReport(k) \/ CountReports(k) \/ ReadSuspect(k) \/ Flag(k)
  BY <1>0, <1>4 DEF LoadReport, CreateReport, CountReports, ReadSuspect, Flag
<1>5. CASE Resolve(k) \/ Dismiss(k) \/ LoadToggle(k) \/ ToggleSuspicious(k)
  BY <1>0, <1>5 DEF Resolve, Dismiss, LoadDecision, Decide, LoadToggle, ToggleSuspicious
<1>6. QED
  BY <1>1, <1>2, <1>3, <1>4, <1>5 DEF OpinionAction

LEMMA ReputationFrame ==
    ASSUME CallsOK, ReputationStep
    PROVE  Frame(AccountOps \cup OpinionOps) /\ torn \subseteq torn'
<1>1. CASE AccountsStep
  BY <1>1, AccountsFrame, FrameGrows
<1>2. ASSUME NEW k \in Calls, OpinionAction(k)
      PROVE  Frame(AccountOps \cup OpinionOps) /\ torn \subseteq torn'
  <2>1. Only(k) /\ call[k].pc # "done" /\ Job(k).op \in OpinionOps /\ torn' = torn
    BY <1>2, OpinionFrame DEF rest, trail
  <2>2. QED
    BY <2>1, OnlyFrame
<1>3. CASE WeekPasses \/ WindowPasses
  <2>1. call' = call /\ torn' = torn
    BY <1>3 DEF WeekPasses, WindowPasses, rest, trail
  <2>2. QED
    BY <2>1, StillFrame
<1>4. QED
  BY <1>1, <1>2, <1>3 DEF ReputationStep, OpinionAction

ProfileAction(k) ==
    \/ TakeRequest(k) \/ LetLapse(k) \/ AskReshoot(k) \/ EndRequest(k)
    \/ LoadProfile(k) \/ BuildProfile(k) \/ ReadSnapshot(k) \/ Announce(k) \/ RememberTold(k)

LEMMA ProfileFrame ==
    ASSUME CallsOK, NEW k \in Calls, ProfileAction(k)
    PROVE  /\ Only(k) /\ call[k].pc # "done" /\ Job(k).op \in ProfileOps
           /\ UNCHANGED Others
<1>0. /\ \A where : To(k, where) => Only(k)
      /\ Finish(k) => Only(k)
      /\ \A where, value : Keep(k, where, value) => Only(k)
  BY ToOnly, FinishOnly, KeepOnly
<1>. USE DEF At, MayStart, Fetches, ProfileOps
<1>1. CASE TakeRequest(k) \/ LetLapse(k) \/ AskReshoot(k) \/ EndRequest(k)
  BY <1>0, <1>1 DEF TakeRequest, LetLapse, AskReshoot, EndRequest
<1>2. CASE LoadProfile(k) \/ BuildProfile(k) \/ ReadSnapshot(k) \/ Announce(k) \/ RememberTold(k)
  BY <1>0, <1>2 DEF LoadProfile, BuildProfile, ReadSnapshot, Announce, RememberTold
<1>3. QED
  BY <1>1, <1>2 DEF ProfileAction

PeopleOps == AccountOps \cup OpinionOps \cup ProfileOps

LEMMA TrustFrame ==
    ASSUME CallsOK, TrustStep
    PROVE  Frame(PeopleOps) /\ torn \subseteq torn'
<1>1. CASE ReputationStep
  BY <1>1, ReputationFrame, FrameGrows DEF PeopleOps
<1>2. ASSUME NEW k \in Calls, ProfileAction(k)
      PROVE  Frame(PeopleOps) /\ torn \subseteq torn'
  <2>1. Only(k) /\ call[k].pc # "done" /\ Job(k).op \in PeopleOps /\ torn' = torn
    BY <1>2, ProfileFrame DEF Others, rest, trail, PeopleOps
  <2>2. QED
    BY <2>1, OnlyFrame
<1>3. QED
  BY <1>1, <1>2 DEF TrustStep, ProfileAction

SettingAction(k) ==
    \/ CacheGet(k) \/ ReadSetting(k) \/ FillCache(k)
    \/ LoadSetting(k) \/ UpsertSetting(k) \/ CreateVersion(k) \/ RefreshCache(k) \/ DirectWrite(k)

ConsentAction(k) == Raise(k) \/ Look(k) \/ LoadVersion(k) \/ CreateConsent(k)

\* What a call writes into its row is left open here.
LEMMA SettingFrame ==
    ASSUME CallsOK, NEW k \in Calls, SettingAction(k)
    PROVE  /\ Only(k) /\ call[k].pc # "done" /\ Job(k).op \in SettingOps
           /\ UNCHANGED <<elsewhere, consent>>
<1>0. /\ \A where : To(k, where) => Only(k)
      /\ Finish(k) => Only(k)
      /\ \A where, value : Keep(k, where, value) => Only(k)
  BY ToOnly, FinishOnly, KeepOnly
<1>. USE DEF At, MayStart, Writers, SettingOps
<1>1. CASE CacheGet(k) \/ ReadSetting(k) \/ FillCache(k) \/ DirectWrite(k)
  BY <1>0, <1>1 DEF CacheGet, ReadSetting, FillCache, DirectWrite, Keep, consent
<1>2. CASE UpsertSetting(k) \/ CreateVersion(k) \/ RefreshCache(k)
  BY <1>0, <1>2 DEF UpsertSetting, CreateVersion, RefreshCache, GoOn
<1>3. CASE LoadSetting(k)
  <2>1. CASE At(k, "next", Writers) /\ call' = [call EXCEPT ![k].pc = "existing", ![k].row.at = @ + 1]
    <3>1. call' = [call EXCEPT ![k].pc = "existing",
                               ![k].row = [call[k].row EXCEPT !.at = call[k].row.at + 1]]
      BY <2>1 DEF CallsOK, Shape
    <3>2. QED
      BY <1>0, <1>3, <2>1, <3>1 DEF LoadSetting, Keep
  <2>2. CASE MayStart(k, Writers) /\ call' = [call EXCEPT ![k].pc = "existing", ![k].row = [at |-> 1]]
    BY <1>0, <1>3, <2>2 DEF LoadSetting, Keep
  <2>3. QED
    BY <1>3, <2>1, <2>2 DEF LoadSetting
<1>4. QED
  BY <1>1, <1>2, <1>3 DEF SettingAction

LEMMA ConsentFrame ==
    ASSUME CallsOK, NEW k \in Calls, ConsentAction(k)
    PROVE  /\ Only(k) /\ call[k].pc # "done" /\ Job(k).op \in ConsentOps
           /\ UNCHANGED <<elsewhere, settings>>
<1>0. /\ Finish(k) => Only(k)
      /\ \A where, value : Keep(k, where, value) => Only(k)
  BY FinishOnly, KeepOnly
<1>1. QED
  BY <1>0 DEF At, MayStart, ConsentOps, ConsentAction, Raise, Look, LoadVersion, CreateConsent, Keep

LEMMA SettingsFrame ==
    ASSUME CallsOK, SettingsStep
    PROVE  Exact(SettingOps \cup ConsentOps) /\ torn' = torn
<1>1. ASSUME NEW k \in Calls, SettingAction(k) \/ ConsentAction(k)
      PROVE  Exact(SettingOps \cup ConsentOps) /\ torn' = torn
  <2>1. /\ Only(k) /\ call[k].pc # "done" /\ Job(k).op \in SettingOps \cup ConsentOps
        /\ torn' = torn
    BY <1>1, SettingFrame, ConsentFrame DEF elsewhere, trail
  <2>2. QED
    BY <2>1, OnlyFrame
<1>2. CASE (\E x \in SettingKeys : EntryExpires(x)) \/ RedisComesAndGoes
  <2>1. call' = call /\ torn' = torn
    BY <1>2 DEF EntryExpires, RedisComesAndGoes, elsewhere, trail
  <2>2. QED
    BY <2>1, StillFrame
<1>3. QED
  BY <1>1, <1>2 DEF SettingsStep, SettingAction, ConsentAction

NoticeAction(k) ==
    \/ StartEvent(k) \/ IsCategoryEnabled(k) \/ ReadDevice(k) \/ CreateNotification(k)
    \/ Push(k) \/ ClearToken(k) \/ RegisterFcmToken(k) \/ UpdatePreferences(k)
    \/ FindInactiveWithFcmToken(k) \/ ClearFcmToken(k)
    \/ CreateExport(k) \/ BuildExportBundle(k) \/ UploadExport(k) \/ MarkReady(k)
    \/ TellingFails(k) \/ MarkFailed(k)
    \/ LoadChat(k) \/ CheckToggle(k) \/ Say(k) \/ CountBlocked(k) \/ FlagChat(k) \/ CreateAlert(k)

LEMMA NoticeFrame ==
    ASSUME CallsOK, NEW k \in Calls, NoticeAction(k)
    PROVE  /\ Only(k) /\ call[k].pc # "done" /\ Job(k).op \in NoticeOps
           /\ UNCHANGED accountsOnly
<1>0. /\ \A where : To(k, where) => Only(k)
      /\ Finish(k) => Only(k)
      /\ \A where, value : Keep(k, where, value) => Only(k)
      /\ \A where, value : call' = [call EXCEPT ![k].pc = where, ![k].saw = value] => Only(k)
  BY ToOnly, FinishOnly, KeepOnly, SawOnly
<1>. USE DEF At, MayStart, Tellers, NoticeOps
<1>1. CASE StartEvent(k) \/ IsCategoryEnabled(k) \/ ReadDevice(k) \/ CreateNotification(k)
  BY <1>0, <1>1 DEF StartEvent, IsCategoryEnabled, ReadDevice, CreateNotification, Keep
<1>2. CASE Push(k) \/ ClearToken(k) \/ RegisterFcmToken(k) \/ UpdatePreferences(k)
  BY <1>0, <1>2 DEF Push, ClearToken, RegisterFcmToken, UpdatePreferences
<1>3. CASE \/ FindInactiveWithFcmToken(k) \/ ClearFcmToken(k)
           \/ CreateExport(k) \/ BuildExportBundle(k) \/ UploadExport(k)
  BY <1>0, <1>3 DEF FindInactiveWithFcmToken, ClearFcmToken, CreateExport, BuildExportBundle,
                    UploadExport
<1>4. CASE MarkReady(k) \/ TellingFails(k) \/ MarkFailed(k)
  BY <1>0, <1>4 DEF MarkReady, TellingFails, MarkFailed
<1>5. CASE LoadChat(k) \/ CheckToggle(k) \/ Say(k)
  BY <1>0, <1>5 DEF LoadChat, CheckToggle, Say
<1>6. CASE CountBlocked(k) \/ FlagChat(k) \/ CreateAlert(k)
  BY <1>0, <1>6 DEF CountBlocked, FlagChat, CreateAlert
<1>7. QED
  BY <1>1, <1>2, <1>3, <1>4, <1>5, <1>6 DEF NoticeAction

LEMMA CorrespondenceFrame ==
    ASSUME CallsOK, CorrespondenceStep
    PROVE  Exact(NoticeOps) /\ torn' = torn
<1>1. ASSUME NEW k \in Calls, NoticeAction(k)
      PROVE  Exact(NoticeOps) /\ torn' = torn
  <2>1. Only(k) /\ call[k].pc # "done" /\ Job(k).op \in NoticeOps /\ torn' = torn
    BY <1>1, NoticeFrame DEF accountsOnly, trail
  <2>2. QED
    BY <2>1, OnlyFrame
<1>2. CASE (\E c \in Contacts : GrowInactive(c)) \/ AppRemoved \/ FlagThread \/ ReviewEnds
  <2>1. call' = call /\ torn' = torn
    BY <1>2 DEF GrowInactive, AppRemoved, FlagThread, ReviewEnds, accountsOnly, trail
  <2>2. QED
    BY <2>1, StillFrame
<1>3. QED
  BY <1>1, <1>2 DEF CorrespondenceStep, NoticeAction

-----------------------------------------------------------------------------
(* Settings: row, cache and trail.                                         *)

SettingRows ==
    /\ setting = [x \in SettingKeys |-> setting[x]]
    /\ history = [x \in SettingKeys |-> history[x]]
    /\ cached = [x \in SettingKeys |-> cached[x]]

SettingJob(k) ==
    /\ Job(k).op = "get" => Job(k).ref \in SettingKeys
    /\ Job(k).op \in {"set", "direct"} => Job(k).ref.key \in SettingKeys

\* Where a writer is in its list of writes.
WriterOK(k) ==
    Job(k).op \in Writers /\ call[k].pc \in {"existing", "upserted", "versioned", "next"} =>
        /\ call[k].row = [at |-> call[k].row.at]
        /\ call[k].row.at \in 1..Len(Writes(k))
        /\ call[k].pc = "next" => call[k].row.at < Len(Writes(k))

\* Who holds a value nobody has overtaken holds the row's.
HolderOK(k) ==
    /\ Stores(k) /\ k \notin overtaken => setting[Write(k).key] = Write(k).value
    /\ At(k, "holding", {"get"}) /\ k \notin overtaken => setting[Job(k).ref] = call[k].row.value

CacheOK(x) == InFlight(x) \/ cached[x] \in {Unset, setting[x]} \/ x \in excused

Upserted(x) == \E k \in Calls : At(k, "upserted", Writers) /\ Write(k).key = x

\* The version row is behind only between the two writes of writeValue.
TrailOK(x) == history[x] = setting[x] \/ x \in astray \/ Upserted(x)

SettingsInv ==
    /\ SettingRows
    /\ \A k \in Calls : SettingJob(k) /\ WriterOK(k) /\ HolderOK(k)
    /\ \A x \in SettingKeys : CacheOK(x) /\ TrailOK(x)

\* The write in hand is of a known key.
LEMMA WriteKey ==
    ASSUME NEW k \in Calls, SettingJob(k), WriterOK(k), Job(k).op \in Writers,
           call[k].pc \in {"existing", "upserted", "versioned"}
    PROVE  Write(k).key \in SettingKeys
<1>1. call[k].row.at \in 1..Len(Writes(k))
  BY DEF WriterOK
<1>2. CASE Job(k).op = "preset"
  BY <1>1, <1>2, SettingsAssumption DEF Write, Writes
<1>3. CASE Job(k).op = "set"
  <2>1. Writes(k) = <<Job(k).ref>> /\ Len(<<Job(k).ref>>) = 1
    BY <1>3 DEF Writes
  <2>2. call[k].row.at = 1
    BY <1>1, <2>1
  <2>3. QED
    BY <1>3, <2>1, <2>2 DEF Write, SettingJob
<1>4. QED
  BY <1>2, <1>3 DEF Writers

\* A call that has not moved stands where it stood.
LEMMA SameCall ==
    ASSUME NEW k, call'[k] = call[k]
    PROVE  /\ Job(k)' = Job(k) /\ Writes(k)' = Writes(k) /\ Write(k)' = Write(k)
           /\ KeyOf(k)' = KeyOf(k) /\ (Stores(k)' <=> Stores(k))
           /\ \A w, ops : At(k, w, ops)' <=> At(k, w, ops)
BY DEF Job, Writes, Write, KeyOf, Stores, At

LEMMA SettingsElsewhere ==
    ASSUME SettingsInv, NEW ops, ops \cap SettingOps = {},
           UNCHANGED <<setting, history, cached, overtaken>>,
           \/ Exact(ops) /\ excused' = excused /\ astray' = astray
           \/ Frame(ops) /\ Meanwhile
    PROVE  SettingsInv'
<1>1. /\ Calls' = Calls
      /\ \A l \in Calls : /\ call'[l].job = call[l].job
                         /\ \/ call'[l] = call[l]
                            \/ Job(l).op \in ops
                            \/ call'[l] = Start(Job(l), "done")
  BY DEF Exact, Frame, Dropped
<1>2. \A l \in Calls : Job(l)' = Job(l) /\ Writes(l)' = Writes(l)
  BY <1>1 DEF Job, Writes
<1>3. \A l \in Calls : Start(Job(l), "done").pc = "done"
  BY DEF Start
<1>4. SettingRows'
  BY DEF SettingsInv, SettingRows
<1>5. ASSUME NEW l \in Calls
      PROVE  (SettingJob(l) /\ WriterOK(l) /\ HolderOK(l))'
  <2>0. SettingJob(l) /\ WriterOK(l) /\ HolderOK(l)
    BY DEF SettingsInv
  <2>1. CASE call'[l] = call[l]
    BY <1>2, <2>0, <2>1, SameCall DEF SettingJob, WriterOK, HolderOK
  <2>2. CASE Job(l).op \in ops \/ call'[l].pc = "done"
    BY <1>2, <2>0, <2>2 DEF SettingJob, WriterOK, HolderOK, Stores, At, Writers, SettingOps
  <2>3. QED
    BY <1>1, <1>3, <2>1, <2>2
<1>6. ASSUME NEW l \in Calls, Stores(l)
      PROVE  \/ /\ call'[l] = call[l] /\ Stores(l)' /\ Write(l)' = Write(l)
                /\ At(l, "upserted", Writers)' <=> At(l, "upserted", Writers)
             \/ Write(l).key \in excused' /\ Write(l).key \in astray'
  <2>1. CASE call'[l] = call[l]
    BY <1>6, <2>1, SameCall
  <2>2. CASE call'[l] # call[l]
    <3>1. Job(l).op \in Writers /\ Job(l).op \notin ops
      BY <1>6 DEF Stores, At, Writers, SettingOps
    <3>2. Frame(ops) /\ Meanwhile /\ call'[l].pc = "done"
      BY <1>3, <2>2, <3>1 DEF Exact, Frame, Dropped
    <3>3. KeyOf(l) = Write(l).key
      BY <3>1 DEF KeyOf, Writers
    <3>4. QED
      BY <1>6, <3>2, <3>3 DEF Meanwhile
  <2>3. QED
    BY <2>1, <2>2
<1>7. excused \subseteq excused' /\ astray \subseteq astray'
  BY DEF Meanwhile
<1>8. ASSUME NEW x \in SettingKeys
      PROVE  (CacheOK(x) /\ TrailOK(x))'
  <2>1. CacheOK(x) /\ TrailOK(x)
    BY DEF SettingsInv
  <2>2. InFlight(x) => InFlight(x)' \/ x \in excused'
    BY <1>1, <1>6 DEF InFlight
  <2>3. Upserted(x) => Upserted(x)' \/ x \in astray'
    BY <1>1, <1>6 DEF Upserted, Stores
  <2>4. QED
    BY <1>7, <2>1, <2>2, <2>3 DEF CacheOK, TrailOK
<1>9. QED
  BY <1>1, <1>4, <1>5, <1>8 DEF SettingsInv

\* What the other calls hold is still so, unless the row has changed.
LEMMA OthersHold ==
    ASSUME SettingsInv, NEW k \in Calls, Only(k)
    PROVE  /\ \A l \in Calls : Job(l)' = Job(l) /\ Writes(l)' = Writes(l) /\ SettingJob(l)'
           /\ \A l \in Calls \ {k} :
                  /\ WriterOK(l)' /\ Write(l)' = Write(l)
                  /\ Stores(l)' <=> Stores(l)
                  /\ \A w, ops : At(l, w, ops)' <=> At(l, w, ops)
                  /\ UNCHANGED <<setting, overtaken>> => HolderOK(l)'
<1>1. \A l \in Calls : Job(l)' = Job(l) /\ Writes(l)' = Writes(l)
  BY DEF Only, Job, Writes
<1>2. \A l \in Calls : SettingJob(l) /\ WriterOK(l) /\ HolderOK(l)
  BY DEF SettingsInv
<1>3. ASSUME NEW l \in Calls \ {k}
      PROVE  /\ WriterOK(l)' /\ Write(l)' = Write(l)
             /\ Stores(l)' <=> Stores(l)
             /\ \A w, ops : At(l, w, ops)' <=> At(l, w, ops)
             /\ UNCHANGED <<setting, overtaken>> => HolderOK(l)'
  <2>1. call'[l] = call[l]
    BY DEF Only
  <2>2. QED
    BY <1>1, <1>2, <2>1, SameCall DEF WriterOK, HolderOK
<1>4. QED
  BY <1>1, <1>2, <1>3 DEF SettingJob

\* A step that writes nothing, of a call with nothing left to store.
LEMMA SettingsRead ==
    ASSUME SettingsInv, NEW k \in Calls, Only(k), ~Stores(k),
           UNCHANGED <<setting, history, cached, overtaken, excused, astray>>,
           WriterOK(k)', HolderOK(k)'
    PROVE  SettingsInv'
<1>1. Calls' = Calls /\ SettingRows'
  BY DEF Only, SettingsInv, SettingRows
<1>2. \A l \in Calls : SettingJob(l)' /\ WriterOK(l)' /\ HolderOK(l)'
  BY OthersHold
<1>3. ASSUME NEW x \in SettingKeys
      PROVE  CacheOK(x)' /\ TrailOK(x)'
  <2>1. CacheOK(x) /\ TrailOK(x)
    BY DEF SettingsInv
  <2>2. InFlight(x) => InFlight(x)'
    BY <1>1, OthersHold DEF InFlight
  <2>3. Upserted(x) => Upserted(x)'
    BY <1>1, OthersHold DEF Upserted, Stores
  <2>4. QED
    BY <2>1, <2>2, <2>3 DEF CacheOK, TrailOK
<1>4. QED
  BY <1>1, <1>2, <1>3 DEF SettingsInv

LEMMA ReadStep ==
    ASSUME CallsOK, SettingsInv, NEW k \in Calls, CacheGet(k) \/ ReadSetting(k) \/ LoadSetting(k)
    PROVE  SettingsInv'
<1>1. Only(k) /\ UNCHANGED <<setting, history, cached, overtaken, excused, astray>>
  <2>1. SettingAction(k)
    BY DEF SettingAction
  <2>2. QED
    BY <2>1, SettingFrame DEF CacheGet, ReadSetting, LoadSetting, settings
<1>2. Job(k)' = Job(k) /\ Writes(k)' = Writes(k) /\ SettingJob(k)
  BY <1>1, OthersHold DEF SettingsInv
<1>3. CASE CacheGet(k) \/ ReadSetting(k)
  <2>1. Job(k).op = "get" /\ ~Stores(k)
    BY <1>3 DEF CacheGet, ReadSetting, MayStart, At, Stores, Writers
  <2>2. WriterOK(k)'
    BY <1>2, <2>1 DEF WriterOK, Writers
  <2>3. ~Stores(k)'
    BY <1>2, <2>1 DEF Stores, At, Writers
  <2>4. At(k, "holding", {"get"})' => call'[k].row.value = setting[Job(k).ref]
    <3>1. CASE CacheGet(k)
      BY <3>1, ToOnly, FinishOnly DEF CacheGet, At
    <3>2. CASE ReadSetting(k)
      <4>1. CASE Finish(k)
        BY <4>1, FinishOnly DEF At
      <4>2. CASE call' = [call EXCEPT ![k].pc = "holding", ![k].row = [value |-> setting[Job(k).ref]]]
        <5>1. Keep(k, "holding", [value |-> setting[Job(k).ref]])
          BY <4>2 DEF Keep
        <5>2. call'[k].row = [value |-> setting[Job(k).ref]]
          BY <5>1, KeepOnly
        <5>3. QED
          BY <5>2
      <4>3. QED
        BY <3>2, <4>1, <4>2 DEF ReadSetting
    <3>3. QED
      BY <1>3, <3>1, <3>2
  <2>5. HolderOK(k)'
    BY <1>1, <1>2, <2>3, <2>4 DEF HolderOK
  <2>6. QED
    BY <1>1, <2>1, <2>2, <2>5, SettingsRead
<1>4. CASE LoadSetting(k)
  <2>1. Job(k).op \in Writers /\ ~Stores(k) /\ call[k].pc \in {"idle", "next"}
    BY <1>4 DEF LoadSetting, MayStart, At, Stores
  <2>2. /\ call'[k].pc = "existing" /\ call'[k].row = [at |-> call'[k].row.at]
        /\ call'[k].row.at \in 1..Len(Writes(k))
    <3>1. CASE MayStart(k, Writers) /\ call' = [call EXCEPT ![k].pc = "existing", ![k].row = [at |-> 1]]
      <4>0. Keep(k, "existing", [at |-> 1])
        BY <3>1 DEF Keep
      <4>1. call'[k].pc = "existing" /\ call'[k].row = [at |-> 1]
        BY <4>0, KeepOnly
      <4>2. Len(Writes(k)) \in Nat \ {0}
        <5>1. CASE Job(k).op = "preset"
          <6>1. Len(Preset) # 0 /\ Len(Preset) \in Nat
            BY SettingsAssumption
          <6>2. QED
            BY <5>1, <6>1 DEF Writes
        <5>2. CASE Job(k).op # "preset"
          BY <5>2 DEF Writes
        <5>3. QED
          BY <5>1, <5>2
      <4>3. QED
        BY <4>1, <4>2
    <3>2. CASE At(k, "next", Writers) /\ call' = [call EXCEPT ![k].pc = "existing", ![k].row.at = @ + 1]
      <4>1. call' = [call EXCEPT ![k].pc = "existing",
                                 ![k].row = [call[k].row EXCEPT !.at = call[k].row.at + 1]]
        BY <3>2 DEF CallsOK, Shape
      <4>2. /\ call[k].row = [at |-> call[k].row.at] /\ call[k].row.at \in 1..Len(Writes(k))
            /\ call[k].row.at < Len(Writes(k))
        BY <3>2 DEF SettingsInv, WriterOK, At
      <4>3. [call[k].row EXCEPT !.at = call[k].row.at + 1] = [at |-> call[k].row.at + 1]
        BY <4>2
      <4>0. Keep(k, "existing", [at |-> call[k].row.at + 1])
        BY <4>1, <4>3 DEF Keep
      <4>4. call'[k].pc = "existing" /\ call'[k].row = [at |-> call[k].row.at + 1]
        BY <4>0, KeepOnly
      <4>5. call[k].row.at + 1 \in 1..Len(Writes(k))
        BY <4>2
      <4>6. QED
        BY <4>4, <4>5
    <3>3. QED
      BY <1>4, <3>1, <3>2 DEF LoadSetting
  <2>3. WriterOK(k)' /\ HolderOK(k)'
    BY <1>2, <2>2 DEF WriterOK, HolderOK, Stores, At
  <2>4. QED
    BY <1>1, <2>1, <2>3, SettingsRead
<1>5. QED
  BY <1>3, <1>4

\* cacheSet leaves the other entries alone.
LEMMA EntryElsewhere ==
    ASSUME SettingRows, NEW k, NEW x \in SettingKeys, NEW value, CacheSet(k, x, value),
           NEW y \in SettingKeys, y # x
    PROVE  cached'[y] = cached[y] /\ (y \in excused => y \in excused')
<1>1. cached'[y] = cached[y]
  BY DEF CacheSet, SettingRows
<1>2. excused' \in {excused \cup {x}, excused \ {x}, excused}
  BY DEF CacheSet
<1>3. QED
  BY <1>1, <1>2

\* The entry a reader fills in is the row's, or it has an excuse.
LEMMA FillStep ==
    ASSUME CallsOK, SettingsInv, NEW k \in Calls, FillCache(k)
    PROVE  SettingsInv'
<1>. DEFINE x == Job(k).ref
<1>1. /\ Only(k) /\ call'[k].pc = "done" /\ Job(k).op = "get" /\ x \in SettingKeys
      /\ UNCHANGED <<setting, history, overtaken, astray>>
      /\ CacheSet(k, x, call[k].row.value)
  BY FinishOnly DEF FillCache, At, SettingsInv, SettingJob
<1>2. k \notin overtaken => setting[x] = call[k].row.value
  BY DEF FillCache, SettingsInv, HolderOK
<1>3. Calls' = Calls /\ ~Stores(k) /\ ~Stores(k)'
  BY <1>1, OthersHold DEF Only, Stores, At, Writers
<1>4. SettingRows'
  BY <1>1 DEF SettingsInv, SettingRows, CacheSet
<1>5. \A l \in Calls : SettingJob(l)' /\ WriterOK(l)' /\ HolderOK(l)'
  <2>1. WriterOK(k)' /\ HolderOK(k)'
    BY <1>1, <1>3, OthersHold DEF WriterOK, HolderOK, At
  <2>2. QED
    BY <1>1, <2>1, OthersHold
<1>6. ASSUME NEW y \in SettingKeys
      PROVE  CacheOK(y)' /\ TrailOK(y)'
  <2>1. CacheOK(y) /\ TrailOK(y)
    BY DEF SettingsInv
  <2>2. InFlight(y) => InFlight(y)'
    BY <1>1, <1>3, OthersHold DEF InFlight
  <2>3. Upserted(y) => Upserted(y)'
    BY <1>1, <1>3, OthersHold DEF Upserted, Stores
  <2>4. TrailOK(y)'
    BY <1>1, <2>1, <2>3 DEF TrailOK
  <2>5. CASE y # x
    <3>1. cached'[y] = cached[y] /\ (y \in excused => y \in excused')
      BY <1>1, <2>5, EntryElsewhere DEF SettingsInv
    <3>2. QED
      BY <1>1, <2>1, <2>2, <2>4, <3>1 DEF CacheOK
  <2>6. CASE y = x
    <3>1. CASE ready
      <4>1. cached'[x] = call[k].row.value
        BY <1>1, <3>1 DEF CacheSet, SettingsInv, SettingRows
      <4>2. k \in overtaken => x \in excused'
        BY <1>1 DEF CacheSet
      <4>3. QED
        BY <1>1, <1>2, <2>4, <2>6, <4>1, <4>2 DEF CacheOK
    <3>2. CASE ~ready
      <4>1. cached' = cached /\ excused \subseteq excused'
        BY <1>1, <3>2 DEF CacheSet
      <4>2. QED
        BY <1>1, <2>1, <2>2, <2>4, <4>1 DEF CacheOK
    <3>3. QED
      BY <3>1, <3>2
  <2>7. QED
    BY <2>4, <2>5, <2>6
<1>7. QED
  BY <1>3, <1>4, <1>5, <1>6 DEF SettingsInv

\* What other calls hold of a row that changes is overtaken.
LEMMA OthersOvertaken ==
    ASSUME SettingsInv, NEW k \in Calls, Only(k), NEW w,
           setting' = [setting EXCEPT ![w.key] = w.value],
           (overtaken \cup Holding(w.key)) \ {k} \subseteq overtaken'
    PROVE  \A l \in Calls \ {k} : HolderOK(l)'
<1> TAKE l \in Calls \ {k}
<1>1. HolderOK(l) /\ WriterOK(l) /\ SettingJob(l)
  BY DEF SettingsInv
<1>2. /\ Job(l)' = Job(l) /\ Write(l)' = Write(l) /\ (Stores(l)' <=> Stores(l))
      /\ At(l, "holding", {"get"})' <=> At(l, "holding", {"get"})
      /\ call'[l] = call[l] /\ (l \notin overtaken' => l \notin overtaken)
  BY OthersHold DEF Only
<1>3. CASE Stores(l) /\ l \notin overtaken'
  <2>1. Job(l).op \in Writers /\ KeyOf(l) = Write(l).key /\ Write(l).key \in SettingKeys
        /\ ~At(l, "holding", {"get"})
    BY <1>1, <1>3, WriteKey DEF Stores, At, KeyOf, Writers
  <2>2. Write(l).key # w.key
    BY <1>3, <2>1 DEF Holding
  <2>3. setting'[Write(l).key] = setting[Write(l).key]
    BY <2>1, <2>2 DEF SettingsInv, SettingRows
  <2>4. QED
    BY <1>1, <1>2, <1>3, <2>1, <2>3 DEF HolderOK
<1>4. CASE At(l, "holding", {"get"}) /\ l \notin overtaken'
  <2>1. Job(l).op = "get" /\ ~Stores(l) /\ Job(l).ref \in SettingKeys /\ KeyOf(l) = Job(l).ref
    BY <1>1, <1>4 DEF At, Stores, Writers, SettingJob, KeyOf
  <2>2. Job(l).ref # w.key
    BY <1>4, <2>1 DEF Holding
  <2>3. setting'[Job(l).ref] = setting[Job(l).ref]
    BY <2>1, <2>2 DEF SettingsInv, SettingRows
  <2>4. QED
    BY <1>1, <1>2, <1>4, <2>1, <2>3 DEF HolderOK
<1>5. QED
  BY <1>2, <1>3, <1>4 DEF HolderOK

LEMMA UpsertStep ==
    ASSUME CallsOK, SettingsInv, NEW k \in Calls, UpsertSetting(k)
    PROVE  SettingsInv'
<1>. DEFINE w == Write(k)
<1>1. /\ Only(k) /\ call'[k].pc = "upserted" /\ call'[k].row = call[k].row
      /\ Job(k).op \in Writers /\ call[k].pc = "existing"
      /\ setting' = [setting EXCEPT ![w.key] = w.value]
      /\ overtaken' = (overtaken \cup Holding(w.key)) \ {k}
      /\ UNCHANGED <<history, cached, excused, astray>>
  BY ToOnly DEF UpsertSetting, At
<1>2. Job(k)' = Job(k) /\ Writes(k)' = Writes(k) /\ WriterOK(k) /\ SettingJob(k) /\ Calls' = Calls
  BY <1>1, OthersHold DEF SettingsInv, Only
<1>3. Write(k)' = w /\ w.key \in SettingKeys /\ WriterOK(k)'
  BY <1>1, <1>2, WriteKey DEF Write, WriterOK
<1>4. Stores(k)' /\ At(k, "upserted", Writers)' /\ ~Stores(k)
  BY <1>1, <1>2 DEF Stores, At
<1>. HIDE DEF w
<1>5. setting'[w.key] = w.value /\ SettingRows'
      /\ \A y \in SettingKeys : y # w.key => setting'[y] = setting[y]
  BY <1>1, <1>3 DEF SettingsInv, SettingRows
<1>6. HolderOK(k)'
  BY <1>1, <1>2, <1>3, <1>5 DEF HolderOK, At
<1>7. \A l \in Calls \ {k} : HolderOK(l)'
  BY <1>1, OthersOvertaken
<1>8. ASSUME NEW y \in SettingKeys
      PROVE  CacheOK(y)' /\ TrailOK(y)'
  <2>1. CacheOK(y) /\ TrailOK(y)
    BY DEF SettingsInv
  <2>2. InFlight(y) => InFlight(y)'
    BY <1>1, <1>2, <1>4, OthersHold DEF InFlight
  <2>3. Upserted(y) => Upserted(y)'
    BY <1>1, <1>2, <1>4, OthersHold DEF Upserted, Stores
  <2>4. CASE y = w.key
    BY <1>2, <1>3, <1>4, <2>4 DEF CacheOK, TrailOK, InFlight, Upserted
  <2>5. CASE y # w.key
    BY <1>1, <1>5, <2>1, <2>2, <2>3, <2>5 DEF CacheOK, TrailOK
  <2>6. QED
    BY <2>4, <2>5
<1>9. QED
  BY <1>1, <1>2, <1>3, <1>5, <1>6, <1>7, <1>8, OthersHold DEF SettingsInv

LEMMA VersionStep ==
    ASSUME CallsOK, SettingsInv, NEW k \in Calls, CreateVersion(k)
    PROVE  SettingsInv'
<1>. DEFINE w == Write(k)
<1>1. /\ Only(k) /\ call'[k].pc = "versioned" /\ call'[k].row = call[k].row
      /\ Job(k).op \in Writers /\ call[k].pc = "upserted"
      /\ history' = [history EXCEPT ![w.key] = w.value]
      /\ astray' = IF k \in overtaken THEN astray \cup {w.key} ELSE astray \ {w.key}
      /\ UNCHANGED <<setting, cached, overtaken, excused>>
  BY ToOnly DEF CreateVersion, At
<1>2. /\ Job(k)' = Job(k) /\ Writes(k)' = Writes(k) /\ WriterOK(k) /\ SettingJob(k)
      /\ HolderOK(k) /\ Calls' = Calls
  BY <1>1, OthersHold DEF SettingsInv, Only
<1>3. Write(k)' = w /\ w.key \in SettingKeys /\ WriterOK(k)'
  BY <1>1, <1>2, WriteKey DEF Write, WriterOK
<1>4. Stores(k)' /\ Stores(k) /\ ~At(k, "upserted", Writers)'
  BY <1>1, <1>2 DEF Stores, At
<1>5. k \notin overtaken => setting[w.key] = w.value
  BY <1>2, <1>4 DEF HolderOK
<1>. HIDE DEF w
<1>6. history'[w.key] = w.value /\ SettingRows'
      /\ \A y \in SettingKeys : y # w.key => history'[y] = history[y]
  BY <1>1, <1>3 DEF SettingsInv, SettingRows
<1>7. HolderOK(k)'
  BY <1>1, <1>2, <1>3, <1>5 DEF HolderOK, At
<1>8. ASSUME NEW y \in SettingKeys
      PROVE  CacheOK(y)' /\ TrailOK(y)'
  <2>1. CacheOK(y) /\ TrailOK(y)
    BY DEF SettingsInv
  <2>2. InFlight(y) => InFlight(y)'
    <3>1. \A l \in Calls : Stores(l) => Stores(l)' /\ Write(l)' = Write(l)
      BY <1>1, <1>3, <1>4, OthersHold DEF w
    <3>2. QED
      BY <1>2, <3>1 DEF InFlight
  <2>3. y # w.key /\ Upserted(y) => Upserted(y)'
    BY <1>1, <1>2, OthersHold DEF Upserted, w
  <2>4. CASE y = w.key
    <3>1. TrailOK(y)'
      BY <1>1, <1>5, <1>6, <2>4 DEF TrailOK
    <3>2. QED
      BY <1>1, <2>1, <2>2, <3>1 DEF CacheOK
  <2>5. CASE y # w.key
    <3>1. y \in astray => y \in astray'
      BY <1>1, <2>5
    <3>2. QED
      BY <1>1, <1>6, <2>1, <2>2, <2>3, <2>5, <3>1 DEF CacheOK, TrailOK
  <2>6. QED
    BY <2>4, <2>5
<1>9. QED
  BY <1>1, <1>2, <1>3, <1>6, <1>7, <1>8, OthersHold DEF SettingsInv

LEMMA RefreshStep ==
    ASSUME CallsOK, SettingsInv, NEW k \in Calls, RefreshCache(k)
    PROVE  SettingsInv'
<1>. DEFINE w == Write(k)
<1>1. /\ Only(k) /\ call'[k].pc \in {"next", "done"}
      /\ call'[k].pc = "next" => call'[k].row = call[k].row /\ call[k].row.at < Len(Writes(k))
      /\ Job(k).op \in Writers /\ call[k].pc = "versioned"
      /\ CacheSet(k, w.key, w.value)
      /\ UNCHANGED <<setting, history, overtaken, astray>>
  <2>1. /\ GoOn(k) /\ Job(k).op \in Writers /\ call[k].pc = "versioned"
        /\ CacheSet(k, w.key, w.value) /\ UNCHANGED <<setting, history, overtaken, astray>>
    BY DEF RefreshCache, Refresh, At
  <2>2. CASE call[k].row.at < Len(Writes(k)) /\ To(k, "next")
    BY <2>1, <2>2, ToOnly
  <2>3. CASE Finish(k)
    BY <2>1, <2>3, FinishOnly
  <2>4. QED
    BY <2>1, <2>2, <2>3 DEF GoOn
<1>2. /\ Job(k)' = Job(k) /\ Writes(k)' = Writes(k) /\ WriterOK(k) /\ SettingJob(k)
      /\ HolderOK(k) /\ Calls' = Calls
  BY <1>1, OthersHold DEF SettingsInv, Only
<1>3. w.key \in SettingKeys /\ WriterOK(k)'
  BY <1>1, <1>2, WriteKey DEF WriterOK
<1>4. ~Stores(k)' /\ Stores(k) /\ ~At(k, "upserted", Writers) /\ ~At(k, "holding", {"get"})'
  BY <1>1, <1>2 DEF Stores, At
<1>5. k \notin overtaken => setting[w.key] = w.value
  BY <1>2, <1>4 DEF HolderOK
<1>. HIDE DEF w
<1>6. SettingRows'
  BY <1>1 DEF SettingsInv, SettingRows, CacheSet
<1>7. HolderOK(k)'
  BY <1>4 DEF HolderOK
<1>8. ASSUME NEW y \in SettingKeys
      PROVE  CacheOK(y)' /\ TrailOK(y)'
  <2>1. CacheOK(y) /\ TrailOK(y)
    BY DEF SettingsInv
  <2>2. y # w.key /\ InFlight(y) => InFlight(y)'
    BY <1>1, <1>2, OthersHold DEF InFlight, w
  <2>3. Upserted(y) => Upserted(y)'
    BY <1>1, <1>2, <1>4, OthersHold DEF Upserted, w
  <2>4. TrailOK(y)'
    BY <1>1, <2>1, <2>3 DEF TrailOK
  <2>5. CASE y # w.key
    <3>1. cached'[y] = cached[y] /\ (y \in excused => y \in excused')
      BY <1>1, <1>3, <2>5, EntryElsewhere DEF SettingsInv
    <3>2. QED
      BY <1>1, <2>1, <2>2, <2>4, <2>5, <3>1 DEF CacheOK
  <2>6. CASE y = w.key
    <3>1. CASE ready /\ k \notin overtaken
      <4>1. cached'[w.key] = w.value
        BY <1>1, <1>3, <3>1 DEF CacheSet, SettingsInv, SettingRows
      <4>2. QED
        BY <1>1, <1>5, <2>4, <2>6, <3>1, <4>1 DEF CacheOK
    <3>2. CASE ~ready \/ k \in overtaken
      <4>1. Job(k).op # "get"
        BY <1>1 DEF Writers
      <4>2. w.key \in excused'
        BY <1>1, <3>2, <4>1 DEF CacheSet
      <4>3. QED
        BY <2>4, <2>6, <4>2 DEF CacheOK
    <3>3. QED
      BY <3>1, <3>2
  <2>7. QED
    BY <2>5, <2>6
<1>9. QED
  BY <1>1, <1>2, <1>3, <1>6, <1>7, <1>8, OthersHold DEF SettingsInv

LEMMA DirectStep ==
    ASSUME CallsOK, SettingsInv, NEW k \in Calls, DirectWrite(k)
    PROVE  SettingsInv'
<1>. DEFINE w == Job(k).ref
<1>1. /\ Only(k) /\ call'[k].pc = "done" /\ Job(k).op = "direct" /\ call[k].pc = "idle"
      /\ setting' = [setting EXCEPT ![w.key] = w.value]
      /\ overtaken' = overtaken \cup Holding(w.key)
      /\ excused' = excused \cup {w.key} /\ astray' = astray \cup {w.key}
      /\ UNCHANGED <<history, cached>>
  <2>1. Finish(k) /\ Job(k).op = "direct" /\ call[k].pc = "idle"
    BY DEF DirectWrite, MayStart, At
  <2>2. Only(k) /\ call'[k].pc = "done"
    BY <2>1, FinishOnly
  <2>3. QED
    BY <2>1, <2>2 DEF DirectWrite
<1>2. Job(k)' = Job(k) /\ SettingJob(k) /\ Calls' = Calls
  BY <1>1, OthersHold DEF SettingsInv, Only
<1>3. w.key \in SettingKeys /\ WriterOK(k)' /\ HolderOK(k)' /\ ~Stores(k) /\ ~Stores(k)'
  BY <1>1, <1>2 DEF SettingJob, WriterOK, HolderOK, Stores, At, Writers
<1>. HIDE DEF w
<1>4. SettingRows' /\ \A y \in SettingKeys : y # w.key => setting'[y] = setting[y]
  BY <1>1, <1>3 DEF SettingsInv, SettingRows
<1>5. \A l \in Calls \ {k} : HolderOK(l)'
  BY <1>1, OthersOvertaken
<1>6. ASSUME NEW y \in SettingKeys
      PROVE  CacheOK(y)' /\ TrailOK(y)'
  <2>1. CacheOK(y) /\ TrailOK(y)
    BY DEF SettingsInv
  <2>2. InFlight(y) => InFlight(y)'
    BY <1>1, <1>2, <1>3, OthersHold DEF InFlight
  <2>3. Upserted(y) => Upserted(y)'
    BY <1>1, <1>2, <1>3, OthersHold DEF Upserted, Stores
  <2>4. QED
    BY <1>1, <1>4, <2>1, <2>2, <2>3 DEF CacheOK, TrailOK
<1>7. QED
  BY <1>1, <1>2, <1>3, <1>4, <1>5, <1>6, OthersHold DEF SettingsInv

LEMMA SettingsWeather ==
    ASSUME SettingsInv, (\E x \in SettingKeys : EntryExpires(x)) \/ RedisComesAndGoes
    PROVE  SettingsInv'
<1>1. /\ call' = call /\ UNCHANGED <<setting, history, overtaken, astray>>
      /\ SettingRows'
      /\ \A y \in SettingKeys : \/ cached'[y] = cached[y] /\ (y \in excused => y \in excused')
                                \/ cached'[y] = Unset
  BY DEF EntryExpires, RedisComesAndGoes, SettingsInv, SettingRows
<1>2. ASSUME NEW l \in Calls
      PROVE  SettingJob(l)' /\ WriterOK(l)' /\ HolderOK(l)'
  <2>1. SettingJob(l) /\ WriterOK(l) /\ HolderOK(l) /\ call'[l] = call[l]
    BY <1>1 DEF SettingsInv
  <2>2. QED
    BY <1>1, <2>1, SameCall DEF SettingJob, WriterOK, HolderOK
<1>3. \A y \in SettingKeys : (InFlight(y)' <=> InFlight(y)) /\ (Upserted(y)' <=> Upserted(y))
  <2>1. \A l \in Calls : /\ Write(l)' = Write(l) /\ (Stores(l)' <=> Stores(l))
                         /\ At(l, "upserted", Writers)' <=> At(l, "upserted", Writers)
    BY <1>1, SameCall
  <2>2. Calls' = Calls
    BY <1>1 DEF Calls
  <2>3. QED
    BY <2>1, <2>2 DEF InFlight, Upserted
<1>4. \A y \in SettingKeys : CacheOK(y)' /\ TrailOK(y)'
  BY <1>1, <1>3 DEF SettingsInv, CacheOK, TrailOK
<1>5. QED
  BY <1>1, <1>2, <1>4 DEF SettingsInv, Calls

LEMMA SettingsNext ==
    ASSUME CallsOK, SettingsInv, [Next]_vars
    PROVE  SettingsInv'
<1>. USE DEF configuration, settings, consent
<1>1. CASE TrustStep /\ Meanwhile
  <2>1. Frame(PeopleOps) /\ PeopleOps \cap SettingOps = {}
    BY <1>1, TrustFrame
       DEF PeopleOps, AccountOps, OpinionOps, ProfileOps, SettingOps
  <2>2. UNCHANGED <<setting, history, cached, overtaken>>
    BY <1>1 DEF Meanwhile
  <2>3. QED
    BY <1>1, <2>1, <2>2, SettingsElsewhere
<1>2. CASE SettingsStep
  <2>1. ASSUME NEW k \in Calls, SettingAction(k)
        PROVE  SettingsInv'
    BY <2>1, ReadStep, FillStep, UpsertStep, VersionStep, RefreshStep, DirectStep
       DEF SettingAction
  <2>2. ASSUME NEW k \in Calls, ConsentAction(k)
        PROVE  SettingsInv'
    <3>1. Exact(ConsentOps) /\ ConsentOps \cap SettingOps = {}
      BY <2>2, ConsentFrame, OnlyFrame DEF ConsentOps, SettingOps
    <3>2. UNCHANGED settings
      BY <2>2, ConsentFrame
    <3>3. QED
      BY <3>1, <3>2, SettingsElsewhere
  <2>3. CASE (\E x \in SettingKeys : EntryExpires(x)) \/ RedisComesAndGoes
    BY <2>3, SettingsWeather
  <2>4. QED
    BY <1>2, <2>1, <2>2, <2>3 DEF SettingsStep, SettingAction, ConsentAction
<1>3. CASE CorrespondenceStep /\ UNCHANGED configuration
  <2>1. Exact(NoticeOps) /\ NoticeOps \cap SettingOps = {}
    BY <1>3, CorrespondenceFrame DEF NoticeOps, SettingOps
  <2>2. QED
    BY <1>3, <2>1, SettingsElsewhere
<1>4. CASE UNCHANGED vars
  <2>1. Exact({}) /\ UNCHANGED settings
    BY <1>4, StillFrame DEF vars, reputationVars, accountVars
  <2>2. QED
    BY <2>1, SettingsElsewhere
<1>5. QED
  BY <1>1, <1>2, <1>3, <1>4 DEF Next

\* At the start every call is idle, with a job of one of the casts.
LEMMA CallsStart ==
    ASSUME Init
    PROVE  \E cast \in Casts : call = [k \in DOMAIN cast |-> Start(cast[k], "idle")]
BY DEF Init, TrustInit, ReputationInit, AccountsInit

LEMMA CallsIdle ==
    ASSUME Init
    PROVE  CallsOK /\ \A k \in Calls : call[k] = Start(Job(k), "idle") /\ call[k].pc = "idle"
<1>1. PICK cast \in Casts : call = [k \in DOMAIN cast |-> Start(cast[k], "idle")]
  BY CallsStart
<1>2. CallsOK
  BY <1>1 DEF CallsOK, Calls, Shape, Start
<1>3. \A k \in Calls : call[k] = Start(Job(k), "idle") /\ call[k].pc = "idle"
  BY <1>1 DEF Calls, Job, Start
<1>4. QED
  BY <1>2, <1>3

LEMMA SettingsStart == Init => SettingsInv
<1> SUFFICES ASSUME Init
             PROVE  SettingsInv
  OBVIOUS
<1>1. SettingsInit
  BY DEF Init
<1>2. SettingRows
  BY <1>1, SettingsAssumption DEF SettingsInit, SettingRows
<1>3. ASSUME NEW k \in Calls
      PROVE  SettingJob(k) /\ WriterOK(k) /\ HolderOK(k)
  <2>1. PICK cast \in Casts : call = [l \in DOMAIN cast |-> Start(cast[l], "idle")]
    BY CallsStart
  <2>2. k \in DOMAIN cast /\ Job(k) = cast[k]
    BY <2>1 DEF Calls, Job, Start
  <2>3. SettingJob(k)
    BY <2>2, SettingJobsAssumption DEF SettingJob
  <2>4. call[k].pc = "idle"
    BY CallsIdle
  <2>5. QED
    BY <2>3, <2>4 DEF WriterOK, HolderOK, Stores, At
<1>4. \A x \in SettingKeys : CacheOK(x) /\ TrailOK(x)
  BY <1>1 DEF SettingsInit, CacheOK, TrailOK
<1>5. QED
  BY <1>2, <1>3, <1>4 DEF SettingsInv

\* No step touches the shape of the calls.
LEMMA CallsNext ==
    ASSUME CallsOK, [Next]_vars
    PROVE  CallsOK' /\ Calls' = Calls /\ \A k \in Calls : Job(k)' = Job(k)
<1>1. \E ops : Frame(ops) \/ Exact(ops)
  BY TrustFrame, SettingsFrame, CorrespondenceFrame, StillFrame
     DEF Next, vars, reputationVars, accountVars
<1>2. QED
  BY <1>1 DEF Frame, Exact, Job

\* The records of the calls keep their four fields, and a call its job.
THEOREM CallsInvariance == Spec => []CallsOK
<1>1. Init => CallsOK
  BY CallsIdle
<1>2. CallsOK /\ [Next]_vars => CallsOK'
  BY CallsNext
<1>3. QED
  BY <1>1, <1>2, PTL DEF Spec

\* What the agreement of settings rests on: writers in their places, and
\* holders of a value that is still the row's unless it was overtaken.
THEOREM SettingsInvariance == Spec => []SettingsInv
<1>1. Init => SettingsInv
  BY SettingsStart
<1>2. CallsOK /\ SettingsInv /\ [Next]_vars => SettingsInv'
  BY SettingsNext
<1>3. QED
  BY <1>1, <1>2, CallsInvariance, PTL DEF Spec

\* Row, cache and version trail of every setting agree whatever comes
\* together (settingsService.readValue, writeValue), but for the reasons
\* SettingsAgree names.
THEOREM SettingsAgreement == Spec => []SettingsAgree
<1>1. SettingsInv => SettingsAgree
  <2> SUFFICES ASSUME SettingsInv, NEW x \in SettingKeys, ~InFlight(x)
               PROVE  /\ cached[x] \in {Unset, setting[x]} \/ x \in excused
                      /\ history[x] = setting[x] \/ x \in astray
    BY DEF SettingsAgree, ListAll
  <2>1. CacheOK(x) /\ TrailOK(x)
    BY DEF SettingsInv
  <2>2. ~Upserted(x)
    BY DEF InFlight, Upserted, Stores
  <2>3. QED
    BY <2>1, <2>2 DEF CacheOK, TrailOK
<1>2. QED
  BY <1>1, SettingsInvariance, PTL

-----------------------------------------------------------------------------
(* Consent: what was accepted was shown, or is known not to have been.     *)

Covered(c, version) == version \in shown[c] \/ <<c, version>> \in unseen

ConsentJob(k) == Who(k) \in Contacts /\ (Job(k).op = "raise" => Job(k).ref \in Nat \ {0})

ConsentInv ==
    /\ text \in Nat \ {0}
    /\ shown = [c \in Contacts |-> shown[c]] /\ accepted = [c \in Contacts |-> accepted[c]]
    /\ \A k \in Calls :
        /\ ConsentJob(k)
        /\ At(k, "agreed", {"accept"}) => Covered(Who(k), call[k].row.version)
    /\ \A c \in Contacts : accepted[c] = 0 \/ Covered(c, accepted[c])

LEMMA ConsentElsewhere ==
    ASSUME ConsentInv, NEW ops, ops \cap ConsentOps = {}, UNCHANGED consent,
           Frame(ops) \/ Exact(ops)
    PROVE  ConsentInv'
<1>1. /\ Calls' = Calls
      /\ \A l \in Calls : /\ call'[l].job = call[l].job
                         /\ \/ call'[l] = call[l]
                            \/ Job(l).op \in ops
                            \/ call'[l] = Start(Job(l), "done")
  BY DEF Exact, Frame, Dropped
<1>2. \A l \in Calls : ConsentJob(l)'
  BY <1>1 DEF ConsentInv, ConsentJob, Who, Job
<1>3. ASSUME NEW l \in Calls, At(l, "agreed", {"accept"})'
      PROVE  At(l, "agreed", {"accept"}) /\ call'[l] = call[l] /\ Who(l)' = Who(l)
  <2>1. Job(l)' = Job(l) /\ Job(l).op \notin ops /\ call'[l].pc = "agreed"
    BY <1>1, <1>3 DEF At, Job, ConsentOps
  <2>2. call'[l] = call[l]
    BY <2>1, StillAt
  <2>3. QED
    BY <1>3, <2>2 DEF At, Job, Who
<1>4. QED
  BY <1>1, <1>2, <1>3 DEF ConsentInv, Covered, consent

\* Nothing that covered a version is taken back.
LEMMA ConsentAfter ==
    ASSUME ConsentInv, NEW k \in Calls, Only(k), text' \in Nat \ {0},
           \A c \in Contacts : shown[c] \subseteq shown'[c], unseen \subseteq unseen',
           shown' = [c \in Contacts |-> shown'[c]], accepted' = [c \in Contacts |-> accepted'[c]],
           At(k, "agreed", {"accept"})' => Covered(Who(k), call[k].row.version)',
           \A c \in Contacts : accepted'[c] = 0 \/ accepted'[c] = accepted[c] \/ Covered(c, accepted'[c])
    PROVE  ConsentInv'
<1>1. Calls' = Calls /\ \A l \in Calls : Job(l)' = Job(l) /\ Who(l)' = Who(l)
  BY DEF Only, Job, Who
<1>2. \A l \in Calls : ConsentJob(l)'
  BY <1>1 DEF ConsentInv, ConsentJob
<1>3. ASSUME NEW l \in Calls \ {k}, At(l, "agreed", {"accept"})'
      PROVE  Covered(Who(l), call[l].row.version)'
  <2>1. call'[l] = call[l] /\ At(l, "agreed", {"accept"})
    BY <1>1, <1>3 DEF Only, At
  <2>2. Covered(Who(l), call[l].row.version) /\ Who(l) \in Contacts
    BY <2>1 DEF ConsentInv, ConsentJob
  <2>3. QED
    BY <1>1, <2>1, <2>2 DEF Covered
<1>4. ASSUME NEW c \in Contacts
      PROVE  accepted'[c] = 0 \/ Covered(c, accepted[c])'
  BY DEF ConsentInv, Covered
<1>5. QED
  BY <1>1, <1>2, <1>3, <1>4 DEF ConsentInv

LEMMA ConsentStep ==
    ASSUME CallsOK, ConsentInv, NEW k \in Calls, ConsentAction(k)
    PROVE  ConsentInv'
<1>1. Only(k) /\ ConsentJob(k) /\ Who(k)' = Who(k)
  BY ConsentFrame DEF Only, Job, Who, ConsentInv
<1>2. CASE Raise(k)
  <2>1. ~At(k, "agreed", {"accept"})'
    BY <1>2, FinishOnly DEF Raise, At
  <2>2. text' \in Nat \ {0} /\ UNCHANGED <<shown, accepted, unseen>>
    BY <1>1, <1>2 DEF Raise, MayStart, At, ConsentJob
  <2>3. QED
    BY <1>1, <2>1, <2>2, ConsentAfter DEF ConsentInv
<1>3. CASE Look(k)
  <2>1. ~At(k, "agreed", {"accept"})'
    BY <1>3, FinishOnly DEF Look, At
  <2>2. /\ UNCHANGED <<text, accepted, unseen>>
        /\ shown' = [c \in Contacts |-> shown'[c]]
        /\ \A c \in Contacts : shown[c] \subseteq shown'[c]
    BY <1>3 DEF Look, ConsentInv
  <2>3. QED
    BY <1>1, <2>1, <2>2, ConsentAfter DEF ConsentInv
<1>4. CASE LoadVersion(k)
  <2>1. Keep(k, "agreed", [version |-> text]) /\ UNCHANGED <<text, shown, accepted>>
        /\ unseen' = IF text \in shown[Who(k)] THEN unseen ELSE unseen \cup {<<Who(k), text>>}
    BY <1>4 DEF LoadVersion, Keep
  <2>2. call'[k].row = [version |-> text]
    BY <2>1, KeepOnly
  <2>3. call'[k].row.version = text
    BY <2>2
  <2>4. Covered(Who(k), call[k].row.version)' /\ unseen \subseteq unseen'
    BY <1>1, <2>1, <2>3 DEF Covered
  <2>5. QED
    BY <1>1, <2>1, <2>4, ConsentAfter DEF ConsentInv
<1>5. CASE CreateConsent(k)
  <2>1. ~At(k, "agreed", {"accept"})'
    BY <1>5, FinishOnly DEF CreateConsent, At
  <2>2. /\ UNCHANGED <<text, shown, unseen>>
        /\ accepted' = [accepted EXCEPT ![Who(k)] = call[k].row.version]
        /\ Covered(Who(k), call[k].row.version)
    BY <1>5 DEF CreateConsent, ConsentInv
  <2>3. /\ accepted' = [c \in Contacts |-> accepted'[c]]
        /\ \A c \in Contacts : accepted'[c] = accepted[c] \/ Covered(c, accepted'[c])
    BY <1>1, <2>2 DEF ConsentInv, ConsentJob
  <2>4. QED
    BY <1>1, <2>1, <2>2, <2>3, ConsentAfter DEF ConsentInv
<1>6. QED
  BY <1>2, <1>3, <1>4, <1>5 DEF ConsentAction

LEMMA ConsentNext ==
    ASSUME CallsOK, ConsentInv, [Next]_vars
    PROVE  ConsentInv'
<1>. USE DEF configuration
<1>1. CASE TrustStep /\ Meanwhile
  <2>1. Frame(PeopleOps) /\ PeopleOps \cap ConsentOps = {} /\ UNCHANGED consent
    BY <1>1, TrustFrame
       DEF PeopleOps, AccountOps, OpinionOps, ProfileOps, ConsentOps, Meanwhile
  <2>2. QED
    BY <2>1, ConsentElsewhere
<1>2. CASE SettingsStep
  <2>1. ASSUME NEW k \in Calls, SettingAction(k)
        PROVE  ConsentInv'
    <3>1. Exact(SettingOps) /\ SettingOps \cap ConsentOps = {} /\ UNCHANGED consent
      BY <2>1, SettingFrame, OnlyFrame DEF ConsentOps, SettingOps
    <3>2. QED
      BY <3>1, ConsentElsewhere
  <2>2. CASE (\E x \in SettingKeys : EntryExpires(x)) \/ RedisComesAndGoes
    <3>1. Exact({}) /\ UNCHANGED consent
      BY <2>2, StillFrame DEF EntryExpires, RedisComesAndGoes
    <3>2. QED
      BY <3>1, ConsentElsewhere
  <2>3. QED
    BY <1>2, <2>1, <2>2, ConsentStep DEF SettingsStep, SettingAction, ConsentAction
<1>3. CASE CorrespondenceStep /\ UNCHANGED configuration
  <2>1. Exact(NoticeOps) /\ NoticeOps \cap ConsentOps = {}
    BY <1>3, CorrespondenceFrame DEF NoticeOps, ConsentOps
  <2>2. QED
    BY <1>3, <2>1, ConsentElsewhere
<1>4. CASE UNCHANGED vars
  <2>1. Exact({}) /\ UNCHANGED consent
    BY <1>4, StillFrame DEF vars, reputationVars, accountVars
  <2>2. QED
    BY <2>1, ConsentElsewhere
<1>5. QED
  BY <1>1, <1>2, <1>3, <1>4 DEF Next

LEMMA ConsentStart == Init => ConsentInv
<1> SUFFICES ASSUME Init
             PROVE  ConsentInv
  OBVIOUS
<1>1. SettingsInit
  BY DEF Init
<1>2. ASSUME NEW k \in Calls
      PROVE  ConsentJob(k) /\ ~At(k, "agreed", {"accept"})
  <2>1. PICK cast \in Casts : call = [l \in DOMAIN cast |-> Start(cast[l], "idle")]
    BY CallsStart
  <2>2. k \in DOMAIN cast /\ Job(k) = cast[k]
    BY <2>1 DEF Calls, Job, Start
  <2>3. QED
    BY <2>2, CallsIdle, CastsAssumption, SettingJobsAssumption DEF ConsentJob, Who, At
<1>3. QED
  BY <1>1, <1>2 DEF SettingsInit, ConsentInv

\* What the consent of a user rests on: every version he accepted, or is about
\* to, is one he was shown or one known to have been slipped under him.
THEOREM ConsentInvariance == Spec => []ConsentInv
<1>1. Init => ConsentInv
  BY ConsentStart
<1>2. CallsOK /\ ConsentInv /\ [Next]_vars => ConsentInv'
  BY ConsentNext
<1>3. QED
  BY <1>1, <1>2, CallsInvariance, PTL DEF Spec

\* Who is not asked to accept again was shown the text as it is now
\* (consentService.status, accept), unless it was replaced between his look
\* and his acceptance.
THEOREM ConsentCovers == Spec => []ConsentCoversText
<1>1. ConsentInv => ConsentCoversText
  BY DEF ConsentInv, ConsentCoversText, NeedsReacceptance, Covered
<1>2. QED
  BY <1>1, ConsentInvariance, PTL

-----------------------------------------------------------------------------
(* Notices: the device of a user, and his exports.                         *)

Carrying == {"addressed", "push", "rejected"}

\* A call that goes by a device goes by the last one registered, or by none,
\* unless its user has registered another since.
HeldOK(k) ==
    Job(k).op \in Tellers =>
        /\ call[k].pc \in Carrying \cup {"wanted"} => Told(k) \in Contacts
        /\ call[k].pc \in Carrying =>
              call[k].row.device \in {NoDevice, latest[Told(k)]} \/ Told(k) \in stray
        /\ call[k].pc \in {"push", "rejected"} => call[k].row.device # NoDevice
        /\ call[k].pc = "rejected" => call[k].row.device \in gone

Preparing == {"bundle", "upload", "uploaded"}

\* How far an export has come, by where its call is.
ExportOK(k) ==
    Job(k).op = "export" =>
        /\ k \in inbox => export[k].file
        /\ export[k].file => export[k].status = "READY" \/ k \in fumbled
        /\ call[k].pc = "idle" => export[k].status = "none" /\ ~export[k].file
        /\ call[k].pc \in Preparing => ~export[k].file
        /\ call[k].pc \in Carrying \cup {"tell", "wanted"} => export[k].status = "READY" /\ export[k].file
        /\ call[k].pc = "failing" => ~export[k].file \/ k \in fumbled
        /\ call[k].pc = "done" => export[k].status # "PROCESSING" \/ Who(k) \in torn

NoticeRows ==
    /\ device = [c \in Contacts |-> device[c]] /\ latest = [c \in Contacts |-> latest[c]]
    /\ wants \subseteq Contacts
    /\ export = [k \in Calls |-> export[k]]
    /\ \A k \in Calls : export[k] = [status |-> export[k].status, file |-> export[k].file]

NoticesInv ==
    /\ NoticeRows /\ DeviceKept
    /\ \A k \in Calls : Who(k) \in Contacts /\ HeldOK(k) /\ ExportOK(k)

\* Whom a call tells goes by its job.
LEMMA SameTold ==
    ASSUME NEW k, call'[k].job = call[k].job
    PROVE  Job(k)' = Job(k) /\ Who(k)' = Who(k) /\ Told(k)' = Told(k)
<1>1. Job(k)' = Job(k)
  BY DEF Job
<1>2. Who(k)' = Who(k)
  BY <1>1 DEF Who
<1>3. Told(k)' = Told(k)
  BY <1>1, <1>2 DEF Told
<1>4. QED
  BY <1>1, <1>2, <1>3

LEMMA NoticesElsewhere ==
    ASSUME NoticesInv, NEW ops, ops \cap NoticeOps = {}, UNCHANGED correspondence,
           \/ Frame(ops) /\ torn \subseteq torn'
           \/ Exact(ops) /\ torn' = torn
    PROVE  NoticesInv'
<1>1. /\ Calls' = Calls /\ torn \subseteq torn'
      /\ \A l \in Calls : Job(l)' = Job(l) /\ Who(l)' = Who(l) /\ Told(l)' = Told(l)
  BY SameTold DEF Exact, Frame
<1>. USE DEF correspondence, notices, exports
<1>2. NoticeRows' /\ DeviceKept'
  BY <1>1 DEF NoticesInv, NoticeRows, DeviceKept
<1>3. ASSUME NEW l \in Calls
      PROVE  (Who(l) \in Contacts /\ HeldOK(l) /\ ExportOK(l))'
  <2>1. Who(l) \in Contacts /\ HeldOK(l) /\ ExportOK(l)
    BY DEF NoticesInv
  <2>2. CASE call'[l] = call[l]
    BY <1>1, <2>1, <2>2 DEF HeldOK, ExportOK
  <2>3. CASE Job(l).op \in ops
    BY <1>1, <2>1, <2>3 DEF HeldOK, ExportOK, NoticeOps, Tellers
  <2>4. CASE Dropped(l) /\ torn' = torn \cup {Who(l)}
    <3>1. call'[l].pc = "done"
      BY <2>4 DEF Dropped, Start
    <3>2. QED
      BY <1>1, <2>1, <2>4, <3>1 DEF HeldOK, ExportOK, Carrying, Preparing
  <2>5. QED
    BY <2>2, <2>3, <2>4 DEF Frame, Exact, Dropped
<1>4. QED
  BY <1>1, <1>2, <1>3 DEF NoticesInv

\* A step of one call, as far as the others are concerned.
LEMMA NoticesAfter ==
    ASSUME NoticesInv, NEW k \in Calls, Only(k), torn' = torn,
           NoticeRows', DeviceKept', HeldOK(k)', ExportOK(k)',
           \A l \in Calls \ {k} : HeldOK(l)',
           \A l \in Calls \ {k} : /\ export'[l] = export[l] /\ (l \in inbox' => l \in inbox)
                                  /\ l \in fumbled => l \in fumbled'
    PROVE  NoticesInv'
<1>1. Calls' = Calls /\ \A l \in Calls : Job(l)' = Job(l) /\ Who(l)' = Who(l)
  BY DEF Only, Job, Who
<1>2. ASSUME NEW l \in Calls \ {k}
      PROVE  ExportOK(l)'
  BY <1>1 DEF NoticesInv, ExportOK, Only
<1>3. QED
  BY <1>1, <1>2 DEF NoticesInv

LEMMA HeldStays ==
    ASSUME NoticesInv, NEW k \in Calls, Only(k),
           UNCHANGED <<latest, stray>>, gone \subseteq gone'
    PROVE  \A l \in Calls \ {k} : HeldOK(l)'
<1> TAKE l \in Calls \ {k}
<1>1. call'[l] = call[l] /\ Job(l)' = Job(l) /\ Told(l)' = Told(l)
  BY SameTold DEF Only
<1>2. QED
  BY <1>1 DEF NoticesInv, HeldOK

\* A step that goes by no device.
LEMMA NoticesQuiet ==
    ASSUME NoticesInv, NEW k \in Calls, Only(k), torn' = torn,
           UNCHANGED <<device, latest, stray, gone, inbox>>, wants' \subseteq wants,
           call'[k].pc \notin Carrying \cup {"wanted"},
           NoticeRows' \/ export' = export, ExportOK(k)',
           \A l \in Calls \ {k} : export'[l] = export[l] /\ (l \in fumbled => l \in fumbled')
    PROVE  NoticesInv'
<1>1. HeldOK(k)' /\ \A l \in Calls \ {k} : HeldOK(l)'
  BY HeldStays DEF HeldOK, Carrying
<1>2. NoticeRows' /\ DeviceKept'
  BY DEF NoticesInv, NoticeRows, DeviceKept, Only
<1>3. QED
  BY <1>1, <1>2, NoticesAfter

LEMMA TellStep ==
    ASSUME CallsOK, NoticesInv, NEW k \in Calls,
           \/ StartEvent(k) \/ IsCategoryEnabled(k) \/ ReadDevice(k) \/ CreateNotification(k)
           \/ Push(k) \/ ClearToken(k)
    PROVE  NoticesInv'
<1>1. /\ Only(k) /\ torn' = torn /\ Job(k)' = Job(k) /\ Told(k)' = Told(k) /\ Who(k)' = Who(k)
      /\ Calls' = Calls /\ Job(k).op \in Tellers
  <2>1. NoticeAction(k) /\ Job(k).op \in Tellers
    BY DEF NoticeAction, StartEvent, IsCategoryEnabled, ReadDevice, CreateNotification, Push,
           ClearToken, MayStart, At, Tellers
  <2>2. Only(k) /\ torn' = torn
    BY <2>1, NoticeFrame DEF accountsOnly, trail
  <2>3. QED
    BY <2>1, <2>2, SameTold DEF Only
<1>2. HeldOK(k) /\ ExportOK(k)
  BY DEF NoticesInv
<1>. USE DEF correspondence, notices, exports, Carrying, Preparing
<1>3. CASE StartEvent(k)
  <2>1. call'[k].pc = "tell" /\ Job(k).op = "event" /\ UNCHANGED correspondence
    BY <1>3, ToOnly DEF StartEvent, MayStart, At
  <2>2. ExportOK(k)'
    BY <1>1, <2>1 DEF ExportOK
  <2>3. QED
    BY <1>1, <2>1, <2>2, NoticesQuiet
<1>4. CASE IsCategoryEnabled(k)
  <2>1. /\ UNCHANGED correspondence /\ call[k].pc = "tell"
        /\ call'[k].pc = "done" \/ (call'[k].pc = "wanted" /\ Told(k) \in wants)
    BY <1>4, ToOnly, FinishOnly DEF IsCategoryEnabled, At
  <2>2. ExportOK(k)'
    BY <1>1, <1>2, <2>1 DEF ExportOK
  <2>3. HeldOK(k)'
    BY <1>1, <2>1 DEF HeldOK, NoticesInv, NoticeRows
  <2>4. NoticeRows' /\ DeviceKept'
    BY <1>1, <2>1 DEF NoticesInv, NoticeRows, DeviceKept
  <2>5. QED
    BY <1>1, <2>1, <2>2, <2>3, <2>4, HeldStays, NoticesAfter
<1>5. CASE ReadDevice(k)
  <2>1. /\ UNCHANGED correspondence /\ call[k].pc = "wanted"
        /\ Keep(k, "addressed", [device |-> device[Told(k)]])
    BY <1>5 DEF ReadDevice, At, Keep
  <2>2. call'[k].pc = "addressed" /\ call'[k].row = [device |-> device[Told(k)]]
    BY <2>1, KeepOnly
  <2>3. call'[k].row.device = device[Told(k)] /\ Told(k) \in Contacts
    BY <1>1, <1>2, <2>1, <2>2 DEF HeldOK
  <2>4. ExportOK(k)'
    BY <1>1, <1>2, <2>1, <2>2 DEF ExportOK
  <2>5. HeldOK(k)'
    BY <1>1, <2>1, <2>2, <2>3 DEF HeldOK, NoticesInv, DeviceKept
  <2>6. NoticeRows' /\ DeviceKept'
    BY <1>1, <2>1 DEF NoticesInv, NoticeRows, DeviceKept
  <2>7. QED
    BY <1>1, <2>1, <2>4, <2>5, <2>6, HeldStays, NoticesAfter
<1>6. CASE CreateNotification(k)
  <2>1. /\ call[k].pc = "addressed" /\ inbox' = inbox \cup {k}
        /\ \/ call'[k].pc = "done"
           \/ call'[k].pc = "push" /\ call'[k].row = call[k].row /\ call[k].row.device # NoDevice
        /\ UNCHANGED <<device, latest, gone, stray, wants, exports>>
    BY <1>6, ToOnly, FinishOnly DEF CreateNotification, At
  <2>2. ExportOK(k)'
    BY <1>1, <1>2, <2>1 DEF ExportOK
  <2>3. HeldOK(k)'
    BY <1>1, <1>2, <2>1 DEF HeldOK
  <2>4. NoticeRows' /\ DeviceKept'
    BY <1>1, <2>1 DEF NoticesInv, NoticeRows, DeviceKept
  <2>5. QED
    BY <1>1, <2>1, <2>2, <2>3, <2>4, HeldStays, NoticesAfter
<1>7. CASE Push(k)
  <2>1. /\ UNCHANGED correspondence /\ call[k].pc = "push"
        /\ \/ call'[k].pc = "done"
           \/ call'[k].pc = "rejected" /\ call'[k].row = call[k].row /\ call[k].row.device \in gone
    BY <1>7, ToOnly, FinishOnly DEF Push, At, SaysGone
  <2>2. ExportOK(k)'
    BY <1>1, <1>2, <2>1 DEF ExportOK
  <2>3. HeldOK(k)'
    BY <1>1, <1>2, <2>1 DEF HeldOK
  <2>4. NoticeRows' /\ DeviceKept'
    BY <1>1, <2>1 DEF NoticesInv, NoticeRows, DeviceKept
  <2>5. QED
    BY <1>1, <2>1, <2>2, <2>3, <2>4, HeldStays, NoticesAfter
<1>8. CASE ClearToken(k)
  <2>1. /\ call[k].pc = "rejected" /\ call'[k].pc = "done"
        /\ device' = [device EXCEPT ![Told(k)] = NoDevice]
        /\ UNCHANGED <<latest, gone, stray, wants, inbox, exports>>
    BY <1>8, FinishOnly DEF ClearToken, At
  <2>2. ExportOK(k)'
    BY <1>1, <1>2, <2>1 DEF ExportOK
  <2>3. HeldOK(k)'
    BY <1>1, <2>1 DEF HeldOK
  <2>4. Told(k) \in Contacts /\ (latest[Told(k)] \in gone \/ Told(k) \in stray)
    BY <1>1, <1>2, <2>1 DEF HeldOK
  <2>5. NoticeRows' /\ DeviceKept'
    BY <1>1, <2>1, <2>4 DEF NoticesInv, NoticeRows, DeviceKept
  <2>6. QED
    BY <1>1, <2>1, <2>2, <2>3, <2>5, HeldStays, NoticesAfter
<1>9. QED
  BY <1>3, <1>4, <1>5, <1>6, <1>7, <1>8

LEMMA DeviceStep ==
    ASSUME CallsOK, NoticesInv, NEW k \in Calls,
           \/ RegisterFcmToken(k) \/ UpdatePreferences(k)
           \/ FindInactiveWithFcmToken(k) \/ ClearFcmToken(k)
    PROVE  NoticesInv'
<1>1. /\ Only(k) /\ torn' = torn /\ Job(k)' = Job(k) /\ Who(k)' = Who(k) /\ Who(k) \in Contacts
      /\ Calls' = Calls /\ Job(k).op \notin Tellers
  <2>1. NoticeAction(k) /\ Job(k).op \notin Tellers
    BY DEF NoticeAction, RegisterFcmToken, UpdatePreferences, FindInactiveWithFcmToken,
           ClearFcmToken, MayStart, At, Tellers
  <2>2. Only(k) /\ torn' = torn
    BY <2>1, NoticeFrame DEF accountsOnly, trail
  <2>3. QED
    BY <2>1, <2>2 DEF Only, Job, Who, NoticesInv
<1>2. ExportOK(k)' /\ HeldOK(k)'
  BY <1>1 DEF ExportOK, HeldOK, Tellers
<1>. USE DEF correspondence, notices, exports
<1>3. CASE RegisterFcmToken(k)
  <2>. DEFINE c == Who(k)
  <2>1. /\ device' = [device EXCEPT ![c] = Job(k).ref] /\ latest' = [latest EXCEPT ![c] = Job(k).ref]
        /\ stray' = IF Addressing(c) # {} THEN stray \cup {c} ELSE stray \ {c}
        /\ UNCHANGED <<gone, wants, inbox, exports>>
    BY <1>3 DEF RegisterFcmToken
  <2>2. NoticeRows' /\ \A d \in Contacts \ {c} : device'[d] = device[d] /\ latest'[d] = latest[d]
    BY <1>1, <2>1 DEF NoticesInv, NoticeRows
  <2>3. device'[c] = latest'[c]
    BY <1>1, <2>1 DEF NoticesInv, NoticeRows
  <2>. HIDE DEF c
  <2>4. \A d \in Contacts \ {c} : d \in stray' <=> d \in stray
    BY <2>1
  <2>5. DeviceKept'
    BY <2>1, <2>2, <2>3, <2>4 DEF NoticesInv, DeviceKept
  <2>6. ASSUME NEW l \in Calls \ {k}
        PROVE  HeldOK(l)'
    <3>1. call'[l] = call[l] /\ Job(l)' = Job(l) /\ Told(l)' = Told(l) /\ HeldOK(l)
      BY <1>1, SameTold DEF Only, NoticesInv
    <3>2. CASE Job(l).op \in Tellers /\ call[l].pc \in Carrying /\ Told(l) = c
      <4>1. l \in Addressing(c)
        BY <3>2 DEF Addressing, At, Carrying
      <4>2. c \in stray'
        BY <2>1, <4>1
      <4>3. QED
        BY <2>1, <3>1, <3>2, <4>2 DEF HeldOK
    <3>3. CASE ~(Job(l).op \in Tellers /\ call[l].pc \in Carrying /\ Told(l) = c)
      BY <2>1, <2>2, <2>4, <3>1, <3>3 DEF HeldOK, Carrying
    <3>4. QED
      BY <3>2, <3>3
  <2>7. QED
    BY <1>1, <1>2, <2>1, <2>2, <2>5, <2>6, NoticesAfter
<1>4. CASE UpdatePreferences(k)
  <2>1. UNCHANGED <<device, latest, stray, gone, inbox, exports>> /\ wants' \subseteq wants
        /\ call'[k].pc = "done"
    BY <1>4, FinishOnly DEF UpdatePreferences
  <2>2. QED
    BY <1>1, <1>2, <2>1, NoticesQuiet DEF Carrying
<1>5. CASE FindInactiveWithFcmToken(k)
  <2>1. UNCHANGED correspondence /\ call'[k].pc \in {"stale", "done"}
    BY <1>5, ToOnly, FinishOnly DEF FindInactiveWithFcmToken
  <2>2. QED
    BY <1>1, <1>2, <2>1, NoticesQuiet DEF Carrying
<1>6. CASE ClearFcmToken(k)
  <2>1. /\ device' = [device EXCEPT ![Who(k)] = NoDevice] /\ gone' = gone \cup {latest[Who(k)]}
        /\ UNCHANGED <<latest, stray, wants, inbox, exports>>
    BY <1>6 DEF ClearFcmToken
  <2>2. NoticeRows' /\ DeviceKept'
    BY <1>1, <2>1 DEF NoticesInv, NoticeRows, DeviceKept
  <2>3. QED
    BY <1>1, <1>2, <2>1, <2>2, HeldStays, NoticesAfter
<1>7. QED
  BY <1>3, <1>4, <1>5, <1>6

LEMMA WithFile ==
    ASSUME NEW r, NEW s, NEW f, NEW t, NEW a, r = [status |-> s, file |-> f],
           a = [r EXCEPT !.file = t]
    PROVE  a = [status |-> s, file |-> t]
OBVIOUS

LEMMA MadeReady ==
    ASSUME NEW e, e = [status |-> e.status, file |-> e.file]
    PROVE  Ready(e) = [status |-> "READY", file |-> TRUE]
<1>1. PICK t : t = TRUE
  OBVIOUS
<1>. DEFINE half == [e EXCEPT !.status = "READY"]
            full == [half EXCEPT !.file = t]
<1>2. half = [status |-> "READY", file |-> e.file]
  OBVIOUS
<1>3. full = [half EXCEPT !.file = t]
  OBVIOUS
<1>4. full = [half EXCEPT !.file = TRUE]
  BY <1>1, Zenon
<1>5. Ready(e) = full
  BY <1>4, Zenon DEF Ready
<1>. HIDE DEF half, full
<1>6. full = [status |-> "READY", file |-> t]
  BY <1>2, <1>3, WithFile
<1>7. QED
  BY <1>1, <1>5, <1>6, Zenon

LEMMA ExportStep ==
    ASSUME CallsOK, NoticesInv, NEW k \in Calls,
           \/ CreateExport(k) \/ BuildExportBundle(k) \/ UploadExport(k) \/ MarkReady(k)
           \/ TellingFails(k) \/ MarkFailed(k)
    PROVE  NoticesInv'
<1>1. /\ Only(k) /\ torn' = torn /\ Job(k)' = Job(k) /\ Who(k)' = Who(k)
      /\ Calls' = Calls /\ Job(k).op = "export"
  <2>1. NoticeAction(k) /\ Job(k).op = "export"
    BY DEF NoticeAction, CreateExport, BuildExportBundle, UploadExport, MarkReady,
           TellingFails, MarkFailed, MayStart, At
  <2>2. Only(k) /\ torn' = torn
    BY <2>1, NoticeFrame DEF accountsOnly, trail
  <2>3. QED
    BY <2>1, <2>2 DEF Only, Job, Who
<1>2. ExportOK(k) /\ NoticeRows
      /\ export[k] = [status |-> export[k].status, file |-> export[k].file]
  BY DEF NoticesInv, NoticeRows
<1>. USE DEF correspondence, notices, exports, Carrying, Preparing
<1>3. CASE CreateExport(k)
  <2>1. /\ call[k].pc = "idle" /\ call'[k].pc = "bundle"
        /\ export' = [export EXCEPT ![k].status = "PROCESSING"]
        /\ UNCHANGED <<notices, fumbled>>
    BY <1>3, ToOnly DEF CreateExport, MayStart, At
  <2>2. /\ export'[k] = [status |-> "PROCESSING", file |-> export[k].file] /\ NoticeRows'
        /\ \A l \in Calls \ {k} : export'[l] = export[l]
    BY <1>1, <1>2, <2>1 DEF NoticeRows
  <2>3. export'[k].status = "PROCESSING" /\ export'[k].file = export[k].file
    BY <2>2
  <2>4. ExportOK(k)'
    BY <1>1, <1>2, <2>1, <2>3 DEF ExportOK
  <2>5. QED
    BY <1>1, <2>1, <2>2, <2>4, NoticesQuiet
<1>4. CASE BuildExportBundle(k) \/ UploadExport(k)
  <2>1. /\ call[k].pc \in Preparing /\ call'[k].pc \in {"upload", "uploaded", "failing"}
        /\ UNCHANGED correspondence
    BY <1>4, ToOnly DEF BuildExportBundle, UploadExport, At
  <2>2. ExportOK(k)'
    BY <1>1, <1>2, <2>1 DEF ExportOK
  <2>3. QED
    BY <1>1, <2>1, <2>2, NoticesQuiet
<1>5. CASE MarkReady(k)
  <2>1. /\ call[k].pc = "uploaded" /\ call'[k].pc = "tell"
        /\ export' = [export EXCEPT ![k] = Ready(export[k])]
        /\ UNCHANGED <<notices, fumbled>>
    BY <1>5, ToOnly DEF MarkReady, At
  <2>2. Ready(export[k]) = [status |-> "READY", file |-> TRUE]
    BY <1>2, MadeReady
  <2>3. /\ export'[k] = [status |-> "READY", file |-> TRUE] /\ NoticeRows'
        /\ \A l \in Calls \ {k} : export'[l] = export[l]
    BY <1>1, <1>2, <2>1, <2>2 DEF NoticeRows
  <2>4. export'[k].status = "READY" /\ export'[k].file
    BY <2>3
  <2>5. ExportOK(k)'
    BY <1>1, <1>2, <2>1, <2>4 DEF ExportOK
  <2>6. QED
    BY <1>1, <2>1, <2>3, <2>5, NoticesQuiet
<1>6. CASE TellingFails(k)
  <2>1. /\ call[k].pc \in {"tell", "wanted", "addressed", "rejected"} /\ call'[k].pc = "failing"
        /\ fumbled' = fumbled \cup {k} /\ UNCHANGED <<notices, export>>
    BY <1>6, ToOnly DEF TellingFails
  <2>2. ExportOK(k)'
    BY <1>1, <1>2, <2>1 DEF ExportOK
  <2>3. QED
    BY <1>1, <2>1, <2>2, NoticesQuiet
<1>7. CASE MarkFailed(k)
  <2>1. /\ call[k].pc = "failing" /\ call'[k].pc = "done"
        /\ export' = [export EXCEPT ![k].status = "FAILED"]
        /\ UNCHANGED <<notices, fumbled>>
    BY <1>7, FinishOnly DEF MarkFailed, At
  <2>2. /\ export'[k] = [status |-> "FAILED", file |-> export[k].file] /\ NoticeRows'
        /\ \A l \in Calls \ {k} : export'[l] = export[l]
    BY <1>1, <1>2, <2>1 DEF NoticeRows
  <2>3. export'[k].status = "FAILED" /\ export'[k].file = export[k].file
    BY <2>2
  <2>4. ExportOK(k)'
    BY <1>1, <1>2, <2>1, <2>3 DEF ExportOK
  <2>5. QED
    BY <1>1, <2>1, <2>2, <2>4, NoticesQuiet
<1>8. QED
  BY <1>3, <1>4, <1>5, <1>6, <1>7

LEMMA SayStep ==
    ASSUME CallsOK, NoticesInv, NEW k \in Calls,
           \/ LoadChat(k) \/ CheckToggle(k) \/ Say(k) \/ CountBlocked(k) \/ FlagChat(k) \/ CreateAlert(k)
    PROVE  NoticesInv'
<1>1. NoticeAction(k) /\ Job(k).op = "say" /\ UNCHANGED <<notices, exports>>
  BY DEF NoticeAction, LoadChat, CheckToggle, Say, CountBlocked, FlagChat, CreateAlert, MayStart, At,
         correspondence
<1>2. Only(k) /\ torn' = torn
  BY <1>1, NoticeFrame DEF accountsOnly, trail
<1>3. call'[k].pc \in {"loaded", "allowed", "refused", "tell", "many", "flagged", "done"}
  <2>1. /\ \A where : To(k, where) => call'[k].pc = where
        /\ Finish(k) => call'[k].pc = "done"
    BY ToOnly, FinishOnly
  <2>2. CASE LoadChat(k)
    BY <2>2, SawOnly DEF LoadChat
  <2>3. CASE CheckToggle(k) \/ Say(k)
    BY <2>1, <2>3 DEF CheckToggle, Say
  <2>4. CASE CountBlocked(k) \/ FlagChat(k) \/ CreateAlert(k)
    BY <2>1, <2>4 DEF CountBlocked, FlagChat, CreateAlert
  <2>5. QED
    BY <2>2, <2>3, <2>4
<1>4. ExportOK(k)'
  BY <1>1, <1>2 DEF ExportOK, Only, Job
<1>5. QED
  BY <1>1, <1>2, <1>3, <1>4, NoticesQuiet DEF Carrying, notices, exports

LEMMA NoticesWeather ==
    ASSUME NoticesInv, (\E c \in Contacts : GrowInactive(c)) \/ AppRemoved \/ FlagThread \/ ReviewEnds
    PROVE  NoticesInv'
<1>1. /\ call' = call /\ torn' = torn /\ gone \subseteq gone'
      /\ UNCHANGED <<device, latest, stray, wants, inbox, exports>>
  BY DEF GrowInactive, AppRemoved, FlagThread, ReviewEnds, accountsOnly, trail, notices
<1>2. Calls' = Calls /\ \A l \in Calls : Job(l)' = Job(l) /\ Who(l)' = Who(l) /\ Told(l)' = Told(l)
  BY <1>1, SameTold DEF Calls
<1>3. NoticeRows' /\ DeviceKept'
  BY <1>1, <1>2 DEF NoticesInv, NoticeRows, DeviceKept, exports
<1>4. \A l \in Calls : HeldOK(l)' /\ ExportOK(l)'
  BY <1>1, <1>2 DEF NoticesInv, HeldOK, ExportOK, exports
<1>5. QED
  BY <1>2, <1>3, <1>4 DEF NoticesInv

LEMMA NoticesNext ==
    ASSUME CallsOK, NoticesInv, [Next]_vars
    PROVE  NoticesInv'
<1>1. CASE TrustStep /\ UNCHANGED correspondence
  <2>1. Frame(PeopleOps) /\ PeopleOps \cap NoticeOps = {} /\ torn \subseteq torn'
    BY <1>1, TrustFrame
       DEF PeopleOps, AccountOps, OpinionOps, ProfileOps, NoticeOps
  <2>2. QED
    BY <1>1, <2>1, NoticesElsewhere
<1>2. CASE SettingsStep /\ UNCHANGED correspondence
  <2>1. Exact(SettingOps \cup ConsentOps) /\ torn' = torn
        /\ (SettingOps \cup ConsentOps) \cap NoticeOps = {}
    BY <1>2, SettingsFrame DEF SettingOps, ConsentOps, NoticeOps
  <2>2. QED
    BY <1>2, <2>1, NoticesElsewhere
<1>3. CASE CorrespondenceStep
  <2>1. ASSUME NEW k \in Calls, NoticeAction(k)
        PROVE  NoticesInv'
    BY <2>1, TellStep, DeviceStep, ExportStep, SayStep DEF NoticeAction
  <2>2. QED
    BY <1>3, <2>1, NoticesWeather DEF CorrespondenceStep, NoticeAction
<1>4. CASE UNCHANGED vars
  <2>1. Exact({}) /\ UNCHANGED correspondence /\ torn' = torn
    BY <1>4, StillFrame DEF vars, reputationVars, accountVars, trail
  <2>2. QED
    BY <2>1, NoticesElsewhere
<1>5. QED
  BY <1>1, <1>2, <1>3, <1>4 DEF Next

LEMMA NoticesStart == Init => NoticesInv
<1> SUFFICES ASSUME Init
             PROVE  NoticesInv
  OBVIOUS
<1>1. CorrespondenceInit
  BY DEF Init
<1>2. \A k \in Calls : call[k].pc = "idle" /\ Who(k) \in Contacts
  <2>1. PICK cast \in Casts : call = [l \in DOMAIN cast |-> Start(cast[l], "idle")]
    BY CallsStart
  <2>2. \A k \in Calls : k \in DOMAIN cast /\ Job(k) = cast[k]
    BY <2>1 DEF Calls, Job, Start
  <2>3. QED
    BY <2>2, CallsIdle, CastsAssumption DEF Who
<1>3. NoticeRows /\ DeviceKept
  BY <1>1 DEF CorrespondenceInit, NoticeRows, DeviceKept, Calls
<1>4. \A k \in Calls : export[k].status = "none" /\ ~export[k].file /\ k \notin inbox
  BY <1>1 DEF CorrespondenceInit, Calls
<1>5. \A k \in Calls : HeldOK(k) /\ ExportOK(k)
  BY <1>2, <1>4 DEF HeldOK, ExportOK, Carrying, Preparing
<1>6. QED
  BY <1>2, <1>3, <1>5 DEF NoticesInv

\* What reaching a user rests on: a call under way goes by his last device
\* or by one he has since replaced, and an export is as far as its call.
THEOREM NoticesInvariance == Spec => []NoticesInv
<1>1. Init => NoticesInv
  BY NoticesStart
<1>2. CallsOK /\ NoticesInv /\ [Next]_vars => NoticesInv'
  BY NoticesNext
<1>3. QED
  BY <1>1, <1>2, CallsInvariance, PTL DEF Spec

\* The device a user registered last is the one he is reached at, and who is
\* told his export is ready can download it (fcmService.sendToUser,
\* registerFcmToken, dataExportService.createExportRequest).
THEOREM NoticesArrive == Spec => []NoticesReach
<1>1. NoticesInv => NoticesReach
  <2> SUFFICES ASSUME NoticesInv
               PROVE  NoticesReach
    OBVIOUS
  <2>1. ASSUME NEW k \in Calls, Job(k).op = "export"
        PROVE  /\ k \in inbox => export[k].file /\ (export[k].status = "READY" \/ k \in fumbled)
               /\ export[k].file => export[k].status = "READY" \/ k \in fumbled
               /\ export[k].status = "PROCESSING" => Running(k) \/ Who(k) \in torn
    BY <2>1 DEF NoticesInv, ExportOK, Running
  <2>2. QED
    BY <2>1 DEF NoticesInv, NoticesReach, ExportTold
<1>2. QED
  BY <1>1, NoticesInvariance, PTL

-----------------------------------------------------------------------------
(* Badges: announced once, and what is remembered is what was announced.   *)

Fetching(k) == At(k, "read", Fetches) \/ At(k, "announced", Fetches)

Announced == {b \in Keys : news[b] = 1}

\* Of the fetches, at most one goes by the snapshot, and the snapshot is still
\* what it read.
OnceInv ==
    /\ \A b \in Keys : news[b] \in {0, 1}
    /\ \A k, l \in Calls : Fetching(k) /\ Fetching(l) => k = l
    /\ \A k \in Calls : Fetching(k) => call[k].row.told = told
    /\ \A k \in Calls : At(k, "announced", Fetches) => Announced = told \cup call[k].row.earned
    /\ (\A k \in Calls : ~At(k, "announced", Fetches)) => told = Announced

EarnedOK(k) == At(k, "built", Fetches) \/ Fetching(k) => call[k].row.earned \subseteq Keys

ToldInv ==
    /\ news = [b \in Keys |-> news[b]]
    /\ \A k \in Calls : EarnedOK(k)
    /\ ~muddled /\ torn = {} => OnceInv

LEMMA ToldElsewhere ==
    ASSUME ToldInv, NEW ops, "profile" \notin ops, UNCHANGED <<told, news, muddled>>,
           torn \subseteq torn', Frame(ops) \/ Exact(ops)
    PROVE  ToldInv'
<1>1. Calls' = Calls /\ \A l \in Calls : Job(l)' = Job(l)
  BY DEF Exact, Frame, Job
<1>2. ASSUME NEW l \in Calls, Job(l).op = "profile", call'[l].pc # "done"
      PROVE  call'[l] = call[l]
  BY <1>2, StillAt
<1>3. ASSUME NEW l \in Calls
      PROVE  EarnedOK(l)'
  <2>1. CASE Job(l).op = "profile" /\ call'[l].pc # "done"
    BY <1>1, <1>2, <2>1 DEF ToldInv, EarnedOK, Fetching, At
  <2>2. CASE ~(Job(l).op = "profile" /\ call'[l].pc # "done")
    BY <1>1, <2>2 DEF EarnedOK, Fetching, At, Fetches
  <2>3. QED
    BY <2>1, <2>2
<1>4. ASSUME ~muddled', torn' = {}
      PROVE  OnceInv'
  <2>1. OnceInv
    BY <1>4 DEF ToldInv
  <2>2. ASSUME NEW l \in Calls, Job(l).op = "profile"
        PROVE  call'[l] = call[l]
    BY <1>4, <2>2 DEF Frame, Exact, Dropped
  <2>3. ASSUME NEW l \in Calls
        PROVE  /\ Fetching(l)' <=> Fetching(l)
               /\ At(l, "announced", Fetches)' <=> At(l, "announced", Fetches)
               /\ Fetching(l) => call'[l] = call[l]
    BY <1>1, <2>2 DEF Fetching, At, Fetches
  <2>4. QED
    BY <1>1, <2>1, <2>3 DEF OnceInv, Announced, Fetching
<1>5. QED
  BY <1>1, <1>3, <1>4 DEF ToldInv

\* The fetch itself.
LEMMA ToldStep ==
    ASSUME CallsOK, ToldInv, NEW k \in Calls,
           LoadProfile(k) \/ BuildProfile(k) \/ ReadSnapshot(k) \/ Announce(k) \/ RememberTold(k)
    PROVE  ToldInv'
<1>1. /\ Only(k) /\ torn' = torn /\ Calls' = Calls /\ Job(k).op = "profile"
      /\ \A l \in Calls : Job(l)' = Job(l)
      /\ \A l \in Calls \ {k} : call'[l] = call[l]
  <2>1. ProfileAction(k) /\ Job(k).op = "profile"
    BY DEF ProfileAction, LoadProfile, BuildProfile, ReadSnapshot, Announce, RememberTold, MayStart,
           At, Fetches
  <2>2. Only(k) /\ torn' = torn
    BY <2>1, ProfileFrame DEF Others, rest, trail
  <2>3. QED
    BY <2>1, <2>2 DEF Only, Job
<1>2. ASSUME NEW l \in Calls \ {k}
      PROVE  /\ Fetching(l)' <=> Fetching(l)
             /\ At(l, "announced", Fetches)' <=> At(l, "announced", Fetches)
             /\ EarnedOK(l)' /\ call'[l] = call[l]
  BY <1>1 DEF Fetching, At, EarnedOK, ToldInv
<1>3. CASE LoadProfile(k)
  <2>1. call[k].pc = "idle" /\ call'[k].pc = "user" /\ UNCHANGED <<told, news, muddled>>
    BY <1>3, KeepOnly DEF LoadProfile, MayStart, At, trust
  <2>2. ~Fetching(k) /\ ~Fetching(k)' /\ EarnedOK(k)' /\ ~At(k, "announced", Fetches)'
    BY <2>1 DEF Fetching, At, EarnedOK
  <2>3. OnceInv => OnceInv'
    BY <1>1, <1>2, <2>1, <2>2 DEF OnceInv, Announced, Fetching
  <2>4. QED
    BY <1>1, <1>2, <2>1, <2>2, <2>3 DEF ToldInv
<1>4. CASE BuildProfile(k)
  <2>. DEFINE m == RoleMetrics(Role(k))
              built == [score |-> TrustScore(m, call[k].row), earned |-> Earned(Role(k), m, call[k].row)]
  <2>1. call[k].pc = "user" /\ Keep(k, "built", built) /\ UNCHANGED <<told, news, muddled>>
    BY <1>4 DEF BuildProfile, At, trust
  <2>2. built.earned \subseteq Keys
    BY DEF Earned, Role, Keys, Roles
  <2>. HIDE DEF built
  <2>3. call'[k].pc = "built" /\ call'[k].row = built
    BY <2>1, KeepOnly
  <2>4. ~Fetching(k) /\ ~Fetching(k)' /\ EarnedOK(k)' /\ ~At(k, "announced", Fetches)'
    BY <2>1, <2>2, <2>3 DEF Fetching, At, EarnedOK
  <2>5. OnceInv => OnceInv'
    BY <1>1, <1>2, <2>1, <2>4 DEF OnceInv, Announced, Fetching
  <2>6. QED
    BY <1>1, <1>2, <2>1, <2>4, <2>5 DEF ToldInv
<1>5. CASE ReadSnapshot(k)
  <2>. DEFINE read == [score |-> call[k].row.score, earned |-> call[k].row.earned,
                       told |-> told, last |-> lastScore]
              others == {l \in Calls \ {k} : Fetching(l)}
  <2>1. /\ call[k].pc = "built" /\ Keep(k, "read", read) /\ UNCHANGED <<told, news>>
        /\ muddled' = (muddled \/ others # {})
    BY <1>5 DEF ReadSnapshot, At, Fetching
  <2>2. read.earned = call[k].row.earned /\ read.told = told
    OBVIOUS
  <2>. HIDE DEF read
  <2>3. call'[k].pc = "read" /\ call'[k].row = read
    BY <2>1, KeepOnly
  <2>4. At(k, "built", Fetches)
    BY <1>1, <2>1 DEF At, Fetches
  <2>5. Fetching(k)' /\ ~At(k, "announced", Fetches)' /\ ~Fetching(k) /\ EarnedOK(k)'
    BY <1>1, <2>1, <2>2, <2>3, <2>4 DEF Fetching, At, EarnedOK, ToldInv, Fetches
  <2>6. ASSUME OnceInv, ~muddled'
        PROVE  OnceInv'
    <3>1. \A l \in Calls \ {k} : ~Fetching(l)
      BY <2>1, <2>6
    <3>2. \A l \in Calls : ~At(l, "announced", Fetches)
      BY <2>5, <3>1 DEF Fetching
    <3>3. told = Announced /\ Announced' = Announced
      BY <2>1, <2>6, <3>2 DEF OnceInv, Announced
    <3>4. QED
      BY <1>1, <1>2, <2>1, <2>2, <2>3, <2>5, <2>6, <3>1, <3>3 DEF OnceInv, Fetching
  <2>7. muddled => muddled'
    BY <2>1
  <2>8. QED
    BY <1>1, <1>2, <2>1, <2>5, <2>6, <2>7 DEF ToldInv
<1>6. CASE Announce(k)
  <2>1. /\ call[k].pc = "read" /\ call'[k].pc = "announced" /\ call'[k].row = call[k].row
        /\ UNCHANGED <<told, muddled>>
        /\ news' = [b \in Keys |-> IF b \in NewlyEarned(k) THEN news[b] + 1 ELSE news[b]]
    BY <1>6, ToOnly DEF Announce, At
  <2>2. Fetching(k) /\ Fetching(k)' /\ ~At(k, "announced", Fetches) /\ EarnedOK(k)'
    BY <1>1, <2>1 DEF Fetching, At, EarnedOK, ToldInv, Fetches
  <2>3. call[k].row.earned \subseteq Keys
    BY <2>2 DEF ToldInv, EarnedOK
  <2>4. ASSUME OnceInv
        PROVE  OnceInv'
    <3>1. \A l \in Calls \ {k} : ~Fetching(l)
      BY <2>2, <2>4 DEF OnceInv
    <3>2. \A l \in Calls : ~At(l, "announced", Fetches)
      BY <2>2, <3>1 DEF Fetching
    <3>3. told = Announced /\ call[k].row.told = told
      BY <2>2, <2>4, <3>2 DEF OnceInv
    <3>4. \A b \in Keys : /\ b \in NewlyEarned(k) => news[b] = 0 /\ news'[b] = 1
                          /\ b \notin NewlyEarned(k) => news'[b] = news[b]
      BY <2>1, <2>4, <3>3 DEF NewlyEarned, OnceInv, Announced
    <3>5. Announced' = told \cup call[k].row.earned
      BY <2>3, <3>3, <3>4 DEF Announced, NewlyEarned
    <3>6. \A b \in Keys : news'[b] \in {0, 1}
      BY <2>4, <3>4 DEF OnceInv
    <3>7. At(k, "announced", Fetches)'
      BY <1>1, <2>1 DEF At, Fetches
    <3>8. QED
      BY <1>1, <1>2, <2>1, <3>1, <3>3, <3>5, <3>6, <3>7 DEF OnceInv, Fetching
  <2>5. QED
    BY <1>1, <1>2, <2>1, <2>2, <2>4 DEF ToldInv
<1>7. CASE RememberTold(k)
  <2>1. /\ call[k].pc = "announced" /\ call'[k].pc = "done" /\ UNCHANGED <<news, muddled>>
        /\ \/ told' = call[k].row.told \cup call[k].row.earned
           \/ NewlyEarned(k) = {} /\ told' = told
    BY <1>7, FinishOnly DEF RememberTold, At, Merged
  <2>2. Fetching(k) /\ At(k, "announced", Fetches) /\ ~Fetching(k)' /\ EarnedOK(k)'
        /\ ~At(k, "announced", Fetches)'
    BY <1>1, <2>1 DEF Fetching, At, EarnedOK, Fetches
  <2>3. ASSUME OnceInv
        PROVE  OnceInv'
    <3>1. \A l \in Calls \ {k} : ~Fetching(l)
      BY <2>2, <2>3 DEF OnceInv
    <3>2. call[k].row.told = told /\ Announced = told \cup call[k].row.earned /\ Announced' = Announced
      BY <2>1, <2>2, <2>3 DEF OnceInv, Announced
    <3>3. told' = Announced
      BY <2>1, <3>2 DEF NewlyEarned
    <3>4. QED
      BY <1>1, <1>2, <2>1, <2>2, <2>3, <3>1, <3>2, <3>3 DEF OnceInv
  <2>4. QED
    BY <1>1, <1>2, <2>1, <2>2, <2>3 DEF ToldInv
<1>8. QED
  BY <1>3, <1>4, <1>5, <1>6, <1>7

LEMMA ToldNext ==
    ASSUME CallsOK, ToldInv, [Next]_vars
    PROVE  ToldInv'
<1>1. CASE TrustStep
  <2>1. CASE ReputationStep /\ UNCHANGED trust
    <3>1. Frame(AccountOps \cup OpinionOps) /\ "profile" \notin AccountOps \cup OpinionOps
          /\ torn \subseteq torn'
      BY <2>1, ReputationFrame DEF AccountOps, OpinionOps
    <3>2. QED
      BY <2>1, <3>1, ToldElsewhere DEF trust
  <2>2. ASSUME NEW k \in Calls, TakeRequest(k) \/ LetLapse(k) \/ AskReshoot(k) \/ EndRequest(k)
        PROVE  ToldInv'
    <3>. DEFINE ops == {"take", "lapse", "reshoot", "finish", "withdraw"}
    <3>1. ProfileAction(k) /\ Job(k).op \in ops /\ UNCHANGED <<told, news, muddled>>
      BY <2>2 DEF ProfileAction, TakeRequest, LetLapse, AskReshoot, EndRequest, MayStart, At
    <3>2. Exact(ops) /\ torn' = torn
      BY <3>1, ProfileFrame, OnlyFrame DEF Others, rest, trail
    <3>3. QED
      BY <3>1, <3>2, ToldElsewhere
  <2>3. QED
    BY <1>1, <2>1, <2>2, ToldStep DEF TrustStep
<1>2. CASE SettingsStep /\ UNCHANGED profiles
  <2>1. Exact(SettingOps \cup ConsentOps) /\ torn' = torn /\ "profile" \notin SettingOps \cup ConsentOps
    BY <1>2, SettingsFrame DEF SettingOps, ConsentOps
  <2>2. QED
    BY <1>2, <2>1, ToldElsewhere DEF profiles, trust
<1>3. CASE CorrespondenceStep /\ UNCHANGED profiles
  <2>1. Exact(NoticeOps) /\ torn' = torn /\ "profile" \notin NoticeOps
    BY <1>3, CorrespondenceFrame DEF NoticeOps
  <2>2. QED
    BY <1>3, <2>1, ToldElsewhere DEF profiles, trust
<1>4. CASE UNCHANGED vars
  <2>1. Exact({}) /\ UNCHANGED trust /\ torn' = torn
    BY <1>4, StillFrame DEF vars, reputationVars, accountVars, trail
  <2>2. QED
    BY <2>1, ToldElsewhere DEF trust
<1>5. QED
  BY <1>1, <1>2, <1>3, <1>4 DEF Next

\* What the announcements rest on: as long as no two fetches overlap, the one
\* under way goes by the snapshot as it is.
THEOREM ToldInvariance == Spec => []ToldInv
<1>1. Init => ToldInv
  <2> SUFFICES ASSUME Init
               PROVE  ToldInv
    OBVIOUS
  <2>1. told = {} /\ news = [b \in Keys |-> 0]
    BY DEF Init, TrustInit
  <2>2. \A k \in Calls : ~Fetching(k) /\ ~At(k, "built", Fetches) /\ ~At(k, "announced", Fetches)
    BY CallsIdle DEF Fetching, At
  <2>3. QED
    BY <2>1, <2>2 DEF ToldInv, OnceInv, EarnedOK, Announced
<1>2. CallsOK /\ ToldInv /\ [Next]_vars => ToldInv'
  BY ToldNext
<1>3. QED
  BY <1>1, <1>2, CallsInvariance, PTL DEF Spec

\* Each badge is announced once, and what is remembered is what was announced
\* (trustScoreService.checkAndNotifyChanges), unless two fetches overlapped or
\* one was cut.
THEOREM BadgesToldOnce == Spec => []BadgeToldOnce
<1>1. ToldInv => BadgeToldOnce
  BY DEF ToldInv, OnceInv, BadgeToldOnce, Announced
<1>2. QED
  BY <1>1, ToldInvariance, PTL

-----------------------------------------------------------------------------
(* The badge: an evaluation that runs alone leaves row and column agreeing. *)

InEval(k) == At(k, "stats", Evaluators) \/ At(k, "judged", Evaluators) \/ At(k, "stored", Evaluators)
Judging(k) == At(k, "stats", Evaluators) \/ At(k, "judged", Evaluators)

StatsOK(k) ==
    Judging(k) =>
        /\ call[k].row = [active |-> call[k].row.active, verified |-> call[k].row.verified,
                          completed |-> call[k].row.completed]
        /\ k \in alone => call[k].row.verified = isVerified

\* Between its two writes it carries what the row says.
StoredOK(k) == At(k, "stored", Evaluators) /\ k \in alone => call[k].saw = (status = "verified")

BadgeInv ==
    /\ BadgeAgrees
    /\ \A k \in Calls : InEval(k) => drift
    /\ \A k, l \in Calls : k \in alone /\ InEval(k) /\ InEval(l) => k = l
    /\ \A k \in Calls : StatsOK(k) /\ StoredOK(k)

LEMMA BadgeElsewhere ==
    ASSUME BadgeInv, NEW ops, ops \cap Evaluators = {}, Frame(ops) \/ Exact(ops),
           UNCHANGED <<isVerified, status, alone, drift>>
    PROVE  BadgeInv'
<1>1. Calls' = Calls /\ \A l \in Calls : Job(l)' = Job(l)
  BY DEF Exact, Frame, Job
<1>2. ASSUME NEW l \in Calls, InEval(l)'
      PROVE  /\ InEval(l) /\ call'[l] = call[l] /\ (Judging(l)' <=> Judging(l))
             /\ At(l, "stored", Evaluators)' <=> At(l, "stored", Evaluators)
  <2>1. Job(l).op \notin ops /\ call'[l].pc # "done"
    BY <1>1, <1>2 DEF InEval, At, Evaluators
  <2>2. call'[l] = call[l]
    BY <2>1, StillAt
  <2>3. QED
    BY <1>1, <1>2, <2>2 DEF InEval, Judging, At
<1>3. BadgeAgrees'
  BY DEF BadgeInv, BadgeAgrees
<1>4. \A l \in Calls : StatsOK(l)' /\ StoredOK(l)'
  BY <1>2 DEF BadgeInv, StatsOK, StoredOK, InEval, Judging
<1>5. QED
  BY <1>1, <1>2, <1>3, <1>4 DEF BadgeInv

\* A step of one call, as far as the others are concerned.
LEMMA BadgeOthers ==
    ASSUME BadgeInv, NEW k \in Calls, Only(k)
    PROVE  /\ Calls' = Calls /\ Job(k)' = Job(k)
           /\ \A l \in Calls \ {k} :
                  /\ call'[l] = call[l] /\ (InEval(l)' <=> InEval(l))
                  /\ Judging(l)' <=> Judging(l)
                  /\ At(l, "stored", Evaluators)' <=> At(l, "stored", Evaluators)
                  /\ Judging(l) => InEval(l)
                  /\ At(l, "stored", Evaluators) => InEval(l)
BY DEF Only, InEval, Judging, At, Job

\* A step of a call that is not evaluating then.
LEMMA BadgeQuiet ==
    ASSUME BadgeInv, NEW k \in Calls, Only(k), ~InEval(k)',
           UNCHANGED <<isVerified, status, alone, drift>>
    PROVE  BadgeInv'
<1>1. BadgeAgrees'
  BY DEF BadgeInv, BadgeAgrees
<1>2. \A l \in Calls : StatsOK(l)' /\ StoredOK(l)'
  BY BadgeOthers DEF BadgeInv, StatsOK, StoredOK, InEval, Judging
<1>3. QED
  BY <1>1, <1>2, BadgeOthers DEF BadgeInv

LEMMA WithActive ==
    ASSUME NEW r, NEW t, NEW a, a = [r EXCEPT !.active = t],
           r = [active |-> r.active, verified |-> r.verified, completed |-> r.completed]
    PROVE  a = [active |-> t, verified |-> r.verified, completed |-> r.completed]
OBVIOUS

LEMMA EvaluateStep ==
    ASSUME CallsOK, BadgeInv, NEW k \in Calls,
           \/ Complete(k) \/ ReadStats(k) \/ ReadRatings(k) \/ StoreStatus(k) \/ SyncUser(k)
           \/ AdminSetVerified(k)
    PROVE  BadgeInv'
<1>1. Only(k)
  BY OpinionFrame DEF OpinionAction
<1>2. CASE Complete(k)
  <2>1. call'[k].pc = "evaluate" /\ UNCHANGED <<isVerified, status, alone, drift>>
    BY <1>2, ToOnly DEF Complete
  <2>2. QED
    BY <1>1, <2>1, BadgeQuiet DEF InEval, At
<1>3. CASE ReadStats(k)
  <2>. DEFINE seen == [active |-> active[Creator], verified |-> isVerified, completed |-> completed]
              others == {l \in Calls \ {k} : InEval(l)}
  <2>1. /\ Keep(k, "stats", seen) /\ drift' /\ UNCHANGED <<isVerified, status>>
        /\ alone' = IF others = {} THEN {k} ELSE {}
        /\ Job(k).op \in Evaluators
    BY <1>3 DEF ReadStats, At, InEval
  <2>2. call'[k].pc = "stats" /\ call'[k].row = seen
    BY <2>1, KeepOnly
  <2>3. /\ seen.verified = isVerified
        /\ seen = [active |-> seen.active, verified |-> seen.verified, completed |-> seen.completed]
    OBVIOUS
  <2>. HIDE DEF seen
  <2>4. StatsOK(k)' /\ StoredOK(k)'
    BY <2>1, <2>2, <2>3 DEF StatsOK, StoredOK, At
  <2>5. ASSUME NEW l \in Calls \ {k}
        PROVE  l \notin alone' /\ StatsOK(l)' /\ StoredOK(l)'
    <3>1. l \notin alone'
      BY <2>1
    <3>2. QED
      BY <1>1, <2>1, <3>1, BadgeOthers DEF BadgeInv, StatsOK, StoredOK
  <2>6. k \in alone' => \A l \in Calls \ {k} : ~InEval(l)'
    BY <1>1, <2>1, BadgeOthers
  <2>7. BadgeAgrees'
    BY <2>1 DEF BadgeAgrees
  <2>8. QED
    BY <1>1, <2>1, <2>4, <2>5, <2>6, <2>7, BadgeOthers DEF BadgeInv
<1>4. CASE ReadRatings(k)
  <2>1. PICK t : t = (call[k].row.active /\ ~RatingGateFails)
    OBVIOUS
  <2>. DEFINE now == [call[k].row EXCEPT !.active = t]
  <2>2. /\ Keep(k, "judged", now) /\ At(k, "stats", Evaluators)
        /\ UNCHANGED <<isVerified, status, alone, drift>>
    BY <1>4, <2>1 DEF ReadRatings, badge
  <2>3. call'[k].pc = "judged" /\ call'[k].row = now
    BY <2>2, KeepOnly
  <2>4. InEval(k) /\ Judging(k) /\ StatsOK(k)
    BY <2>2 DEF InEval, Judging, BadgeInv
  <2>5. now = [call[k].row EXCEPT !.active = t]
    OBVIOUS
  <2>. HIDE DEF now
  <2>6. now = [active |-> t, verified |-> call[k].row.verified, completed |-> call[k].row.completed]
    BY <2>4, <2>5, WithActive DEF StatsOK
  <2>7. /\ now.verified = call[k].row.verified
        /\ now = [active |-> now.active, verified |-> now.verified, completed |-> now.completed]
    BY <2>6
  <2>8. StatsOK(k)' /\ StoredOK(k)'
    BY <2>2, <2>3, <2>4, <2>7 DEF StatsOK, StoredOK, At
  <2>9. \A l \in Calls \ {k} : StatsOK(l)' /\ StoredOK(l)'
    BY <1>1, <2>2, BadgeOthers DEF BadgeInv, StatsOK, StoredOK
  <2>10. BadgeAgrees'
    BY <2>2 DEF BadgeInv, BadgeAgrees
  <2>11. QED
    BY <1>1, <2>2, <2>4, <2>8, <2>9, <2>10, BadgeOthers DEF BadgeInv
<1>5. CASE StoreStatus(k)
  <2>1. PICK next : next = (call[k].row.active /\ call[k].row.completed >= Threshold)
    OBVIOUS
  <2>2. /\ At(k, "judged", Evaluators) /\ UNCHANGED <<isVerified, alone>>
        /\ status' = IF next THEN "verified" ELSE "revoked"
        /\ \/ /\ call' = [call EXCEPT ![k].pc = "stored", ![k].saw = next]
              /\ drift' = drift
           \/ next = call[k].row.verified /\ Finish(k) /\ drift' = (k \notin alone)
    BY <1>5, <2>1 DEF StoreStatus, IsChange
  <2>3. next = (status' = "verified")
    BY <2>1, <2>2
  <2>4. InEval(k) /\ Judging(k) /\ StatsOK(k) /\ drift
    BY <2>2 DEF InEval, Judging, BadgeInv
  <2>5. k \in alone => \A l \in Calls \ {k} : ~InEval(l)
    BY <2>4 DEF BadgeInv
  <2>6. ASSUME NEW l \in Calls \ {k}
        PROVE  StatsOK(l)' /\ StoredOK(l)'
    <3>1. InEval(l) /\ l \in alone => FALSE
      BY <2>4 DEF BadgeInv
    <3>2. QED
      BY <1>1, <2>2, <3>1, BadgeOthers DEF BadgeInv, StatsOK, StoredOK
  <2>7. CASE call' = [call EXCEPT ![k].pc = "stored", ![k].saw = next] /\ drift' = drift
    <3>1. call'[k].pc = "stored" /\ call'[k].saw = next
      <4>1. See(k, "stored", next)
        BY <2>7 DEF See
      <4>2. QED
        BY <4>1, SeeOnly
    <3>2. StatsOK(k)' /\ StoredOK(k)'
      BY <2>3, <3>1 DEF StatsOK, StoredOK, Judging, At
    <3>3. BadgeAgrees'
      BY <2>4, <2>7 DEF BadgeAgrees
    <3>4. QED
      BY <1>1, <2>2, <2>4, <2>6, <2>7, <3>2, <3>3, BadgeOthers DEF BadgeInv
  <2>8. CASE next = call[k].row.verified /\ Finish(k) /\ drift' = (k \notin alone)
    <3>1. ~InEval(k)' /\ StatsOK(k)' /\ StoredOK(k)'
      BY <2>8, FinishOnly DEF InEval, StatsOK, StoredOK, Judging, At
    <3>2. BadgeAgrees'
      <4>1. k \in alone => isVerified = next
        BY <2>4, <2>8 DEF StatsOK
      <4>2. QED
        BY <2>2, <2>3, <2>8, <4>1 DEF BadgeAgrees
    <3>3. QED
      BY <1>1, <2>2, <2>5, <2>6, <2>8, <3>1, <3>2, BadgeOthers DEF BadgeInv
  <2>9. QED
    BY <2>2, <2>7, <2>8
<1>6. CASE SyncUser(k)
  <2>1. /\ At(k, "stored", Evaluators) /\ call'[k].pc = "done" /\ isVerified' = call[k].saw
        /\ drift' = (k \notin alone) /\ UNCHANGED <<status, alone>>
    BY <1>6, FinishOnly DEF SyncUser
  <2>2. InEval(k) /\ StoredOK(k) /\ ~InEval(k)' /\ StatsOK(k)' /\ StoredOK(k)'
    BY <2>1 DEF InEval, BadgeInv, StatsOK, StoredOK, Judging, At
  <2>3. k \in alone => \A l \in Calls \ {k} : ~InEval(l)
    BY <2>2 DEF BadgeInv
  <2>4. ASSUME NEW l \in Calls \ {k}
        PROVE  StatsOK(l)' /\ StoredOK(l)'
    <3>1. InEval(l) /\ l \in alone => FALSE
      BY <2>2 DEF BadgeInv
    <3>2. QED
      BY <1>1, <2>1, <3>1, BadgeOthers DEF BadgeInv, StatsOK, StoredOK
  <2>5. BadgeAgrees'
    BY <2>1, <2>2 DEF BadgeAgrees, StoredOK
  <2>6. QED
    BY <1>1, <2>1, <2>2, <2>3, <2>4, <2>5, BadgeOthers DEF BadgeInv
<1>7. CASE AdminSetVerified(k)
  <2>1. call'[k].pc = "done" /\ alone' = {} /\ drift' /\ status' = status
    BY <1>7, FinishOnly DEF AdminSetVerified
  <2>2. ~InEval(k)' /\ StatsOK(k)' /\ StoredOK(k)'
    BY <2>1 DEF InEval, StatsOK, StoredOK, Judging, At
  <2>3. \A l \in Calls \ {k} : StatsOK(l)' /\ StoredOK(l)'
    BY <1>1, <2>1, BadgeOthers DEF BadgeInv, StatsOK, StoredOK
  <2>4. BadgeAgrees'
    BY <2>1 DEF BadgeAgrees
  <2>5. QED
    BY <1>1, <2>1, <2>2, <2>3, <2>4, BadgeOthers DEF BadgeInv
<1>8. QED
  BY <1>2, <1>3, <1>4, <1>5, <1>6, <1>7

\* The other actions of Reputation: of ratings, and of reports.
RateAction(k) == LoadRate(k) \/ ReadOther(k) \/ CreateRating(k) \/ RevealOther(k) \/ AfterRating(k)
ReportAction(k) ==
    \/ LoadReport(k) \/ CreateReport(k) \/ CountReports(k) \/ ReadSuspect(k) \/ Flag(k)
    \/ Resolve(k) \/ Dismiss(k) \/ LoadToggle(k) \/ ToggleSuspicious(k)
ReportOps == {"report", "resolve", "dismiss", "toggle"}

LEMMA ReportFrame ==
    ASSUME CallsOK, NEW k \in Calls, ReportAction(k)
    PROVE  /\ Only(k) /\ call[k].pc # "done" /\ Job(k).op \in ReportOps
           /\ UNCHANGED <<rest, ratings, badge>>
<1>1. OpinionAction(k) /\ Job(k).op \in ReportOps /\ UNCHANGED <<rest, ratings, badge>>
  BY DEF ReportAction, OpinionAction, ReportOps, LoadReport, CreateReport, CountReports, ReadSuspect,
         Flag, Resolve, Dismiss, LoadDecision, Decide, LoadToggle, ToggleSuspicious, MayStart, At
<1>2. QED
  BY <1>1, OpinionFrame

LEMMA BadgeNext ==
    ASSUME CallsOK, BadgeInv, [Next]_vars
    PROVE  BadgeInv'
<1>. USE DEF badge
<1>1. CASE ReputationStep
  <2>1. CASE AccountsStep /\ UNCHANGED <<ratings, badge, complaints>>
    <3>1. Frame(AccountOps) /\ AccountOps \cap Evaluators = {}
      BY <2>1, AccountsFrame DEF AccountOps, Evaluators
    <3>2. QED
      BY <2>1, <3>1, BadgeElsewhere
  <2>2. ASSUME NEW k \in Calls, RateAction(k)
        PROVE  BadgeInv'
    <3>1. Only(k) /\ UNCHANGED badge
      BY <2>2, OpinionFrame
         DEF RateAction, OpinionAction, LoadRate, ReadOther, CreateRating, RevealOther, AfterRating
    <3>2. call'[k].pc \in {"loaded", "looked", "rated", "pairing", "evaluate", "done"}
      <4>1. /\ \A where : To(k, where) => call'[k].pc = where
            /\ Finish(k) => call'[k].pc = "done"
        BY ToOnly, FinishOnly
      <4>2. CASE ReadOther(k)
        BY <4>2, SawOnly DEF ReadOther
      <4>3. CASE LoadRate(k) \/ CreateRating(k)
        BY <4>1, <4>3 DEF LoadRate, CreateRating
      <4>4. CASE RevealOther(k) \/ AfterRating(k)
        BY <4>1, <4>4 DEF RevealOther, AfterRating
      <4>5. QED
        BY <2>2, <4>2, <4>3, <4>4 DEF RateAction
    <3>3. QED
      BY <3>1, <3>2, BadgeQuiet DEF InEval, At
  <2>3. ASSUME NEW k \in Calls, ReportAction(k)
        PROVE  BadgeInv'
    <3>1. Exact(ReportOps) /\ UNCHANGED badge /\ ReportOps \cap Evaluators = {}
      BY <2>3, ReportFrame, OnlyFrame DEF ReportOps, Evaluators
    <3>2. QED
      BY <3>1, BadgeElsewhere
  <2>4. CASE WeekPasses \/ WindowPasses
    <3>1. Exact({}) /\ UNCHANGED badge
      BY <2>4, StillFrame DEF WeekPasses, WindowPasses
    <3>2. QED
      BY <3>1, BadgeElsewhere
  <2>5. QED
    BY <1>1, <2>1, <2>2, <2>3, <2>4, EvaluateStep DEF ReputationStep, RateAction, ReportAction
<1>2. ASSUME NEW k \in Calls, ProfileAction(k)
      PROVE  BadgeInv'
  <2>1. Exact(ProfileOps) /\ UNCHANGED badge /\ ProfileOps \cap Evaluators = {}
    BY <1>2, ProfileFrame, OnlyFrame DEF Others, ProfileOps, Evaluators
  <2>2. QED
    BY <2>1, BadgeElsewhere
<1>3. CASE SettingsStep /\ UNCHANGED profiles
  <2>1. Exact(SettingOps \cup ConsentOps) /\ (SettingOps \cup ConsentOps) \cap Evaluators = {}
    BY <1>3, SettingsFrame DEF SettingOps, ConsentOps, Evaluators
  <2>2. QED
    BY <1>3, <2>1, BadgeElsewhere DEF profiles
<1>4. CASE CorrespondenceStep /\ UNCHANGED profiles
  <2>1. Exact(NoticeOps) /\ NoticeOps \cap Evaluators = {}
    BY <1>4, CorrespondenceFrame DEF NoticeOps, Evaluators
  <2>2. QED
    BY <1>4, <2>1, BadgeElsewhere DEF profiles
<1>5. CASE UNCHANGED vars
  <2>1. Exact({}) /\ UNCHANGED badge
    BY <1>5, StillFrame DEF vars, reputationVars, accountVars
  <2>2. QED
    BY <2>1, BadgeElsewhere
<1>6. QED
  BY <1>1, <1>2, <1>3, <1>4, <1>5 DEF Next, TrustStep, ProfileAction

\* What the badge rests on: an evaluation that runs alone carries what the row
\* and the column are while it does.
THEOREM BadgeInvariance == Spec => []BadgeInv
<1>1. Init => BadgeInv
  <2> SUFFICES ASSUME Init
               PROVE  BadgeInv
    OBVIOUS
  <2>1. status = "none"
    BY DEF Init, TrustInit, ReputationInit
  <2>2. \A k \in Calls : ~InEval(k) /\ ~Judging(k) /\ ~At(k, "stored", Evaluators)
    BY CallsIdle DEF InEval, Judging, At
  <2>3. QED
    BY <2>1, <2>2 DEF BadgeInv, BadgeAgrees, StatsOK, StoredOK
<1>2. CallsOK /\ BadgeInv /\ [Next]_vars => BadgeInv'
  BY BadgeNext
<1>3. QED
  BY <1>1, <1>2, CallsInvariance, PTL DEF Spec

\* User.isVerified agrees with VerifiedCreatorStatus after every evaluation that
\* nothing overlapped, until the next one or an Admin's override
\* (verifiedCreatorService.evaluate).
THEOREM BadgeInSync == Spec => []BadgeAgrees
<1>1. BadgeInv => BadgeAgrees
  BY DEF BadgeInv
<1>2. QED
  BY <1>1, BadgeInvariance, PTL

-----------------------------------------------------------------------------
(* Ratings: revealed together.                                             *)

Sides == {Requester, Creator}
Pairing(s) == \E k \in Calls : At(k, "pairing", {"rate"}) /\ Other(Who(k)) = s

RaterOK(k) ==
    Job(k).op = "rate" =>
        /\ Who(k) \in Sides
        /\ call[k].pc = "looked" /\ call[k].saw => rating[Other(Who(k))] # "none"
        /\ call[k].pc = "pairing" => \A s \in Sides : rating[s] # "none"
        /\ call[k].pc = "rated" => rating[Who(k)] # "none"

\* A rating that is hidden although the other side has rated is about to be
\* revealed, unless the two were written at once or a call was cut.
HiddenOK ==
    (\A s \in Sides : rating[s] # "none") /\ ~crossed /\ torn = {} =>
        \A s \in Sides : rating[s] = "ahead" => Pairing(s)

PairedOK == \A s \in Sides : rating[s] = "paired" => rating[Other(s)] # "none"

NotifiedOK == notified \subseteq Sides /\ \A s \in notified : rating[Other(s)] # "none"

RevealInv ==
    /\ rating = [s \in Sides |-> rating[s]]
    /\ \A k \in Calls : RaterOK(k)
    /\ PairedOK /\ HiddenOK /\ NotifiedOK

LEMMA OtherSide ==
    \A s \in Sides : Other(s) \in Sides /\ Other(s) # s /\ Other(Other(s)) = s
                     /\ \A u \in Sides : u = s \/ u = Other(s)
BY ReputationAssumption DEF Sides, Other

LEMMA RevealElsewhere ==
    ASSUME RevealInv, NEW ops, "rate" \notin ops, torn \subseteq torn', UNCHANGED <<rating, crossed, notified>>,
           Frame(ops) \/ Exact(ops)
    PROVE  RevealInv'
<1>1. Calls' = Calls /\ \A l \in Calls : Job(l)' = Job(l) /\ Who(l)' = Who(l)
  BY SameTold DEF Exact, Frame
<1>2. ASSUME NEW l \in Calls
      PROVE  RaterOK(l)'
  <2>1. CASE Job(l).op = "rate" /\ call'[l].pc # "done"
    <3>1. call'[l] = call[l]
      BY <2>1, StillAt
    <3>2. QED
      BY <1>1, <3>1 DEF RevealInv, RaterOK
  <2>2. CASE call'[l].pc = "done"
    BY <1>1, <2>2 DEF RevealInv, RaterOK
  <2>3. CASE Job(l).op # "rate"
    BY <1>1, <2>3 DEF RaterOK
  <2>4. QED
    BY <2>1, <2>2, <2>3
<1>3. ASSUME NEW l \in Calls, At(l, "pairing", {"rate"}), torn' = {}
      PROVE  At(l, "pairing", {"rate"})'
  BY <1>3 DEF Frame, Exact, Dropped, At, Job
<1>4. HiddenOK' /\ PairedOK' /\ NotifiedOK'
  BY <1>1, <1>3 DEF RevealInv, HiddenOK, PairedOK, NotifiedOK, Pairing
<1>5. QED
  BY <1>1, <1>2, <1>4 DEF RevealInv

\* A step of one call, as far as the others are concerned: what has been rated
\* stays so.
LEMMA RevealAfter ==
    ASSUME RevealInv, NEW k \in Calls, Only(k), rating' = [s \in Sides |-> rating'[s]],
           \A s \in Sides : rating[s] # "none" => rating'[s] # "none",
           notified' = notified \/ NotifiedOK',
           RaterOK(k)', PairedOK', HiddenOK'
    PROVE  RevealInv'
<1>1. Calls' = Calls /\ \A l \in Calls : Job(l)' = Job(l) /\ Who(l)' = Who(l)
  BY SameTold DEF Only
<1>2. ASSUME NEW l \in Calls \ {k}
      PROVE  RaterOK(l)'
  <2>1. call'[l] = call[l] /\ RaterOK(l)
    BY DEF Only, RevealInv
  <2>2. QED
    BY <1>1, <2>1, OtherSide DEF RaterOK
<1>3. NotifiedOK'
  BY OtherSide DEF RevealInv, NotifiedOK
<1>4. QED
  BY <1>1, <1>2, <1>3 DEF RevealInv

\* A step that touches no rating, of a call with nothing to reveal.
LEMMA RevealQuiet ==
    ASSUME RevealInv, NEW k \in Calls, Only(k), torn' = torn, UNCHANGED <<rating, crossed>>,
           ~At(k, "pairing", {"rate"}), notified' = notified \/ NotifiedOK', RaterOK(k)'
    PROVE  RevealInv'
<1>1. Calls' = Calls /\ \A l \in Calls : Job(l)' = Job(l) /\ Who(l)' = Who(l)
  BY SameTold DEF Only
<1>2. \A s \in Sides : Pairing(s) => Pairing(s)'
  BY <1>1 DEF Pairing, At, Only
<1>3. PairedOK' /\ HiddenOK'
  BY <1>2 DEF RevealInv, PairedOK, HiddenOK
<1>4. QED
  BY <1>3, RevealAfter DEF RevealInv

LEMMA RateStep ==
    ASSUME CallsOK, RevealInv, NEW k \in Calls, RateAction(k)
    PROVE  RevealInv'
<1>1. /\ Only(k) /\ torn' = torn /\ Job(k).op = "rate" /\ Calls' = Calls
      /\ \A l \in Calls : Job(l)' = Job(l) /\ Who(l)' = Who(l)
  <2>1. OpinionAction(k)
    BY DEF OpinionAction, RateAction
  <2>2. Only(k) /\ torn' = torn
    BY <2>1, OpinionFrame DEF rest, trail
  <2>3. Job(k).op = "rate"
    BY DEF RateAction, LoadRate, ReadOther, CreateRating, RevealOther, AfterRating, MayStart, At
  <2>4. QED
    BY <2>2, <2>3, SameTold DEF Only
<1>2. RaterOK(k) /\ Who(k) \in Sides
  BY <1>1 DEF RevealInv, RaterOK
<1>. USE DEF ratings
<1>3. CASE LoadRate(k)
  <2>1. call[k].pc = "idle" /\ call'[k].pc = "loaded" /\ UNCHANGED ratings
    BY <1>3, ToOnly DEF LoadRate, MayStart, At
  <2>2. RaterOK(k)' /\ ~At(k, "pairing", {"rate"})
    BY <1>1, <1>2, <2>1 DEF RaterOK, At
  <2>3. QED
    BY <1>1, <2>1, <2>2, RevealQuiet
<1>4. CASE ReadOther(k)
  <2>1. PICK seen : seen = (rating[Other(Who(k))] # "none")
    OBVIOUS
  <2>2. call[k].pc = "loaded" /\ See(k, "looked", seen) /\ UNCHANGED ratings
    BY <1>4, <2>1 DEF ReadOther, At, See
  <2>3. call'[k].pc = "looked" /\ call'[k].saw = seen
    BY <2>2, SeeOnly
  <2>4. RaterOK(k)' /\ ~At(k, "pairing", {"rate"})
    BY <1>1, <1>2, <2>1, <2>2, <2>3 DEF RaterOK, At
  <2>5. QED
    BY <1>1, <2>2, <2>4, RevealQuiet
<1>5. CASE CreateRating(k)
  <2>. DEFINE me == Who(k)
  <2>1. call[k].pc = "looked" /\ ~At(k, "pairing", {"rate"})
    BY <1>5 DEF CreateRating, At
  <2>2. CASE rating[me] # "none"
    <3>1. call'[k].pc = "done" /\ UNCHANGED ratings
      BY <1>5, <2>2, FinishOnly DEF CreateRating
    <3>2. RaterOK(k)'
      BY <1>1, <1>2, <3>1 DEF RaterOK
    <3>3. QED
      BY <1>1, <2>1, <3>1, <3>2, RevealQuiet
  <2>3. CASE rating[me] = "none"
    <3>1. /\ rating' = [rating EXCEPT ![me] = IF call[k].saw THEN "paired" ELSE "ahead"]
          /\ crossed' = (crossed \/ (~call[k].saw /\ rating[Other(me)] # "none"))
          /\ To(k, IF call[k].saw THEN "pairing" ELSE "rated")
          /\ notified' = notified
      BY <1>5, <2>3 DEF CreateRating
    <3>2. call'[k].pc = IF call[k].saw THEN "pairing" ELSE "rated"
      BY <3>1, ToOnly
    <3>3. call[k].saw => rating[Other(me)] # "none"
      BY <1>1, <1>2, <2>1 DEF RaterOK
    <3>4. me \in Sides /\ Other(me) \in Sides /\ Other(me) # me /\ Other(Other(me)) = me
          /\ \A s \in Sides : s = me \/ s = Other(me)
      BY <1>2, OtherSide
    <3>. HIDE DEF me
    <3>5. /\ rating' = [s \in Sides |-> rating'[s]]
          /\ rating'[me] = IF call[k].saw THEN "paired" ELSE "ahead"
          /\ rating'[Other(me)] = rating[Other(me)]
      BY <3>1, <3>4 DEF RevealInv
    <3>6. RaterOK(k)'
      <4>1. me = Who(k)
        BY DEF me
      <4>2. CASE call[k].saw
        BY <1>1, <1>2, <3>2, <3>3, <3>4, <3>5, <4>2 DEF RaterOK
      <4>3. CASE ~call[k].saw
        BY <1>1, <1>2, <3>2, <3>5, <4>1, <4>3 DEF RaterOK
      <4>4. QED
        BY <4>2, <4>3
    <3>7. PairedOK'
      BY <3>3, <3>4, <3>5 DEF RevealInv, PairedOK
    <3>8. HiddenOK'
      <4>1. SUFFICES ASSUME \A v \in Sides : rating'[v] # "none", ~crossed',
                            NEW u \in Sides, rating'[u] = "ahead"
                     PROVE  Pairing(u)'
        BY DEF HiddenOK
      <4>2. call[k].saw
        BY <3>1, <3>4, <3>5, <4>1
      <4>3. u = Other(me)
        BY <3>4, <3>5, <4>1, <4>2
      <4>4. At(k, "pairing", {"rate"})' /\ Other(Who(k)') = u
        BY <1>1, <3>2, <4>2, <4>3 DEF At, me
      <4>5. QED
        BY <1>1, <4>4 DEF Pairing, Other
    <3>9. QED
      BY <1>1, <3>1, <3>4, <3>5, <3>6, <3>7, <3>8, RevealAfter
  <2>4. QED
    BY <2>2, <2>3
<1>6. CASE RevealOther(k)
  <2>. DEFINE s == Other(Who(k))
  <2>1. /\ call[k].pc = "pairing" /\ call'[k].pc = "rated" /\ crossed' = crossed
        /\ notified' = notified
        /\ rating' = [rating EXCEPT ![s] = IF rating[s] = "aged" THEN "aged" ELSE "paired"]
    BY <1>6, ToOnly DEF RevealOther, Revealed, At
  <2>2. \A u \in Sides : rating[u] # "none"
    BY <1>1, <1>2, <2>1 DEF RaterOK
  <2>3. s \in Sides /\ Other(s) = Who(k) /\ Who(k) # s
    BY <1>2, OtherSide
  <2>4. RaterOK(k)'
    BY <1>1, <1>2, <2>1 DEF RaterOK
  <2>5. \A l \in Calls : At(l, "pairing", {"rate"}) /\ Other(Who(l)) # s => At(l, "pairing", {"rate"})'
    BY <1>1 DEF At, Only
  <2>. HIDE DEF s
  <2>6. /\ rating' = [u \in Sides |-> rating'[u]]
        /\ rating'[s] \in {"aged", "paired"}
        /\ \A u \in Sides \ {s} : rating'[u] = rating[u]
    BY <2>1, <2>3 DEF RevealInv
  <2>7. \A u \in Sides : rating'[u] # "none"
    BY <2>2, <2>6
  <2>8. PairedOK'
    BY <2>7, OtherSide DEF PairedOK
  <2>9. \A u \in Sides \ {s} : Pairing(u) => Pairing(u)'
    BY <1>1, <2>5 DEF Pairing
  <2>10. HiddenOK'
    BY <1>1, <2>1, <2>2, <2>6, <2>9 DEF RevealInv, HiddenOK
  <2>11. QED
    BY <1>1, <2>1, <2>4, <2>6, <2>7, <2>8, <2>10, RevealAfter
<1>7. CASE AfterRating(k)
  <2>1. /\ call[k].pc = "rated" /\ call'[k].pc \in {"evaluate", "done"} /\ UNCHANGED <<rating, crossed>>
        /\ notified' \in {notified, notified \cup {Other(Who(k))}}
    BY <1>7, ToOnly, FinishOnly DEF AfterRating, At
  <2>2. RaterOK(k)' /\ ~At(k, "pairing", {"rate"})
    BY <1>1, <1>2, <2>1 DEF RaterOK, At
  <2>3. rating[Who(k)] # "none" /\ Other(Who(k)) \in Sides /\ Other(Other(Who(k))) = Who(k)
    BY <1>1, <1>2, <2>1, OtherSide DEF RaterOK
  <2>4. NotifiedOK'
    BY <2>1, <2>3 DEF RevealInv, NotifiedOK, Other
  <2>5. QED
    BY <1>1, <2>1, <2>2, <2>4, RevealQuiet
<1>8. QED
  BY <1>3, <1>4, <1>5, <1>6, <1>7 DEF RateAction

\* What is not a step of Reputation's own leaves its rows and calls alone.
LEMMA BesideOpinions ==
    ASSUME CallsOK, [Next]_vars
    PROVE  \/ (\E k \in Calls : OpinionAction(k)) \/ WeekPasses \/ WindowPasses
           \/ \E ops : /\ ops \cap OpinionOps = {} /\ torn \subseteq torn'
                       /\ Frame(ops) \/ Exact(ops)
                       /\ UNCHANGED <<ratings, badge, complaints>>
<1>1. CASE ReputationStep
  <2>1. CASE AccountsStep /\ UNCHANGED <<ratings, badge, complaints>>
    <3>1. Frame(AccountOps) /\ torn \subseteq torn' /\ AccountOps \cap OpinionOps = {}
      BY <2>1, AccountsFrame DEF AccountOps, OpinionOps
    <3>2. QED
      BY <2>1, <3>1
  <2>2. QED
    BY <1>1, <2>1 DEF ReputationStep, OpinionAction
<1>2. ASSUME NEW k \in Calls, ProfileAction(k)
      PROVE  \E ops : /\ ops \cap OpinionOps = {} /\ torn \subseteq torn' /\ Exact(ops)
                      /\ UNCHANGED <<ratings, badge, complaints>>
  <2>1. Exact(ProfileOps) /\ UNCHANGED <<ratings, badge, complaints>> /\ torn' = torn
    BY <1>2, ProfileFrame, OnlyFrame DEF Others, rest, trail
  <2>2. ProfileOps \cap OpinionOps = {}
    BY DEF ProfileOps, OpinionOps
  <2>3. QED
    BY <2>1, <2>2
<1>3. CASE SettingsStep /\ UNCHANGED profiles
  <2>1. Exact(SettingOps \cup ConsentOps) /\ torn' = torn
        /\ (SettingOps \cup ConsentOps) \cap OpinionOps = {}
    BY <1>3, SettingsFrame DEF SettingOps, ConsentOps, OpinionOps
  <2>2. QED
    BY <1>3, <2>1 DEF profiles
<1>4. CASE CorrespondenceStep /\ UNCHANGED profiles
  <2>1. Exact(NoticeOps) /\ NoticeOps \cap OpinionOps = {} /\ torn' = torn
    BY <1>4, CorrespondenceFrame DEF NoticeOps, OpinionOps
  <2>2. QED
    BY <1>4, <2>1 DEF profiles
<1>5. CASE UNCHANGED vars
  <2>1. Exact({}) /\ UNCHANGED <<ratings, badge, complaints>> /\ torn' = torn
    BY <1>5, StillFrame DEF vars, reputationVars, accountVars, trail
  <2>2. QED
    BY <2>1
<1>6. QED
  BY <1>1, <1>2, <1>3, <1>4, <1>5 DEF Next, TrustStep, ProfileAction

LEMMA RevealNext ==
    ASSUME CallsOK, RevealInv, [Next]_vars
    PROVE  RevealInv'
<1>1. ASSUME NEW k \in Calls, OpinionAction(k), ~RateAction(k)
      PROVE  RevealInv'
  <2>1. /\ Only(k) /\ Job(k)' = Job(k) /\ Who(k)' = Who(k)
        /\ torn' = torn /\ UNCHANGED ratings
    <3>1. Only(k) /\ UNCHANGED rest
      BY <1>1, OpinionFrame
    <3>2. UNCHANGED ratings
      BY <1>1 DEF OpinionAction, RateAction, Complete, ReadStats, ReadRatings, StoreStatus, SyncUser,
                  AdminSetVerified, LoadReport, CreateReport, CountReports, ReadSuspect, Flag,
                  Resolve, Dismiss, LoadDecision, Decide, LoadToggle, ToggleSuspicious
    <3>3. QED
      BY <3>1, <3>2, SameTold DEF Only, rest, trail
  <2>2. /\ Job(k).op = "rate" => call'[k].pc \in {"stats", "judged", "stored", "done"}
        /\ ~At(k, "pairing", {"rate"})
    <3>1. /\ \A where : To(k, where) => call'[k].pc = where
          /\ Finish(k) => call'[k].pc = "done"
          /\ \A where, value : Keep(k, where, value) => call'[k].pc = where
      BY ToOnly, FinishOnly, KeepOnly
    <3>2. CASE Complete(k) \/ ReadStats(k) \/ ReadRatings(k) \/ SyncUser(k) \/ AdminSetVerified(k)
      BY <3>1, <3>2 DEF Complete, ReadStats, ReadRatings, SyncUser, AdminSetVerified, MayStart, At
    <3>3. CASE StoreStatus(k)
      <4>1. Finish(k) \/ \E value : See(k, "stored", value)
        BY <3>3 DEF StoreStatus, See
      <4>2. call'[k].pc \in {"stored", "done"}
        BY <4>1, FinishOnly, SeeOnly
      <4>3. QED
        BY <3>3, <4>2 DEF StoreStatus, At
    <3>4. CASE ReportAction(k)
      BY <3>4, ReportFrame DEF ReportOps, At
    <3>5. QED
      BY <1>1, <3>2, <3>3, <3>4 DEF OpinionAction, RateAction, ReportAction
  <2>3. RaterOK(k)'
    BY <2>1, <2>2 DEF RevealInv, RaterOK
  <2>4. QED
    BY <2>1, <2>2, <2>3, RevealQuiet DEF ratings
<1>2. CASE WeekPasses
  <2>1. call' = call /\ torn' = torn /\ crossed' = crossed /\ notified' = notified
        /\ rating' = [s \in DOMAIN rating |-> IF rating[s] = "ahead" THEN "aged" ELSE rating[s]]
    BY <1>2 DEF WeekPasses, rest, trail
  <2>2. /\ rating' = [s \in Sides |-> rating'[s]]
        /\ \A s \in Sides : /\ rating'[s] = IF rating[s] = "ahead" THEN "aged" ELSE rating[s]
                            /\ Other(s) \in Sides
    BY <2>1, OtherSide DEF RevealInv
  <2>3. \A l \in Calls : RaterOK(l)'
    <3>1. ASSUME NEW l \in Calls
          PROVE  RaterOK(l)'
      <4>1. call'[l] = call[l] /\ Job(l)' = Job(l) /\ Who(l)' = Who(l) /\ RaterOK(l)
        BY <2>1, SameTold DEF RevealInv
      <4>2. QED
        BY <2>2, <4>1 DEF RaterOK
    <3>2. QED
      BY <3>1
  <2>4. PairedOK' /\ HiddenOK' /\ NotifiedOK'
    BY <2>1, <2>2, OtherSide DEF RevealInv, PairedOK, HiddenOK, NotifiedOK
  <2>5. QED
    BY <2>1, <2>2, <2>3, <2>4 DEF RevealInv, Calls
<1>3. CASE WindowPasses
  <2>1. Exact({}) /\ UNCHANGED ratings /\ torn' = torn
    BY <1>3, StillFrame DEF WindowPasses, rest, trail
  <2>2. QED
    BY <2>1, RevealElsewhere DEF ratings
<1>4. ASSUME NEW ops, ops \cap OpinionOps = {}, torn \subseteq torn', Frame(ops) \/ Exact(ops),
             UNCHANGED <<ratings, badge, complaints>>
      PROVE  RevealInv'
  BY <1>4, RevealElsewhere DEF ratings, OpinionOps
<1>5. QED
  BY <1>1, <1>2, <1>3, <1>4, RateStep, BesideOpinions

\* What the reveal rests on: a rater who has seen the other's rating is about
\* to bring it forward.
THEOREM RevealInvariance == Spec => []RevealInv
<1>1. Init => RevealInv
  <2> SUFFICES ASSUME Init
               PROVE  RevealInv
    OBVIOUS
  <2>1. rating = [s \in Sides |-> "none"]
    BY DEF Init, TrustInit, ReputationInit, Sides
  <2>2. Requester \in Sides
    BY DEF Sides
  <2>3. ASSUME NEW k \in Calls
        PROVE  RaterOK(k)
    <3>1. PICK cast \in Casts : call = [l \in DOMAIN cast |-> Start(cast[l], "idle")]
      BY CallsStart
    <3>2. k \in DOMAIN cast /\ Job(k) = cast[k] /\ call[k].pc = "idle"
      BY <3>1, CallsIdle DEF Calls, Job, Start
    <3>3. QED
      BY <3>2, RatersAssumption DEF RaterOK, Who, Sides
  <2>4. PairedOK /\ HiddenOK /\ NotifiedOK
    BY <2>1, <2>2 DEF PairedOK, HiddenOK, NotifiedOK, Init, TrustInit, ReputationInit
  <2>5. QED
    BY <2>1, <2>3, <2>4 DEF RevealInv
<1>2. CallsOK /\ RevealInv /\ [Next]_vars => RevealInv'
  BY RevealNext
<1>3. QED
  BY <1>1, <1>2, CallsInvariance, PTL DEF Spec

\* A rating's row is shown to the other side before a week only if he has rated
\* too, and once both have rated each is shown (ratingService.rate,
\* getForRequest), unless the two were written at once or a call was cut; the
\* notice with the stars comes at once, and after the rating is written.
THEOREM RevealedTogether == Spec => []RevealTogether
<1>1. RevealInv => RevealTogether
  <2> SUFFICES ASSUME RevealInv
               PROVE  RevealTogether
    OBVIOUS
  <2>1. DOMAIN rating = Sides
    BY DEF RevealInv
  <2>2. ASSUME \A k \in Calls : Running(k) => Job(k).op # "rate"
        PROVE  \A s \in Sides : ~Pairing(s)
    BY <2>2 DEF Pairing, Running, At
  <2>3. QED
    BY <2>1, <2>2 DEF RevealInv, RevealTogether, PairedOK, HiddenOK, NotifiedOK
<1>2. QED
  BY <1>1, RevealInvariance, PTL
-----------------------------------------------------------------------------
(* Sessions: the families of tokens, and the accounts that are closed.     *)

TokenStates == {"none", "live", "revoked"}

\* The call has issued its token, or never will.
Used(k) == call[k].pc = "done" \/ At(k, "heir", {"refresh"})

\* A refresh on its way with a token it has read.
Bringing(k) == At(k, "valid", {"refresh"}) \/ At(k, "user", {"refresh"})

FamiliesOK ==
    /\ token \in [Calls -> TokenStates] /\ family \in [Calls -> Calls]
    /\ \A k \in Calls :
        /\ Job(k).op = "refresh" => Job(k).ref \in Calls
        /\ token[k] # "none" => Used(k)
        /\ family[k] # k => Used(k) /\ Used(family[k])
        /\ k \in replayed => Used(k)
        /\ Bringing(k) \/ At(k, "replay", {"refresh"}) => Used(Job(k).ref)

\* Whoever has escaped the end of a family is known.
EscapesKnown ==
    /\ \A t \in Calls : token[t] = "live" /\ family[t] \in replayed => t \in escaped
    /\ \A k \in Calls :
        Bringing(k) /\ family[Job(k).ref] \in replayed => k \in escaped \/ Job(k).ref \in escaped

FamilyInv == FamiliesOK /\ EscapesKnown

\* A call that holds a live token, or will without asking again whether its
\* account is open.
Armed(k) ==
    \/ token[k] = "live"
    \/ At(k, "created", Verifies) \/ At(k, "bonus", Verifies)
    \/ At(k, "issue", Verifies \cup {"login"})
    \/ At(k, "user", {"refresh"})

\* Somebody is about to revoke the tokens of c.
Killing(c) == \E k \in Calls : Who(k) = c /\ At(k, "closed", Closes)

AccountsOK ==
    /\ token = [k \in Calls |-> token[k]] /\ active = [c \in Contacts |-> active[c]]
    /\ \A c \in Contacts : c \notin account => active[c]
    /\ \A k \in Calls : /\ Who(k) \in Contacts
                        /\ At(k, "loaded", Closes) => Who(k) \in account

ClosedInv ==
    /\ AccountsOK
    /\ \A t \in Calls :
        Armed(t) /\ Who(t) \in account /\ ~active[Who(t)] /\ Who(t) \notin torn /\ ~Killing(Who(t))
        => t \in late

\* Every step is one of the accounts' or leaves them and their calls alone.
LEMMA BesideAccounts ==
    ASSUME CallsOK, [Next]_vars
    PROVE  \/ AccountsStep
           \/ \E ops : ops \cap AccountOps = {} /\ Exact(ops) /\ UNCHANGED rest
<1>1. ASSUME NEW k \in Calls, OpinionAction(k)
      PROVE  \E ops : ops \cap AccountOps = {} /\ Exact(ops) /\ UNCHANGED rest
  <2>1. Exact(OpinionOps) /\ UNCHANGED rest
    BY <1>1, OpinionFrame, OnlyFrame
  <2>2. OpinionOps \cap AccountOps = {}
    BY DEF OpinionOps, AccountOps
  <2>3. QED
    BY <2>1, <2>2
<1>2. ASSUME NEW k \in Calls, ProfileAction(k)
      PROVE  \E ops : ops \cap AccountOps = {} /\ Exact(ops) /\ UNCHANGED rest
  <2>1. Exact(ProfileOps) /\ UNCHANGED rest
    BY <1>2, ProfileFrame, OnlyFrame DEF Others
  <2>2. ProfileOps \cap AccountOps = {}
    BY DEF ProfileOps, AccountOps
  <2>3. QED
    BY <2>1, <2>2
<1>3. CASE WeekPasses \/ WindowPasses \/ UNCHANGED vars
  <2>1. call' = call /\ UNCHANGED rest
    BY <1>3 DEF WeekPasses, WindowPasses, vars, reputationVars, accountVars, rest
  <2>2. Exact({})
    BY <2>1, StillFrame
  <2>3. QED
    BY <2>1, <2>2
<1>4. CASE SettingsStep
  <2>1. Exact(SettingOps \cup ConsentOps)
    BY <1>4, SettingsFrame
  <2>2. UNCHANGED rest
    <3>1. ASSUME NEW k \in Calls, SettingAction(k) \/ ConsentAction(k)
          PROVE  UNCHANGED rest
      BY <3>1, SettingFrame, ConsentFrame DEF elsewhere, rest
    <3>2. QED
      BY <1>4, <3>1 DEF SettingsStep, SettingAction, ConsentAction, EntryExpires,
                        RedisComesAndGoes, elsewhere, rest
  <2>3. (SettingOps \cup ConsentOps) \cap AccountOps = {}
    BY DEF SettingOps, ConsentOps, AccountOps
  <2>4. QED
    BY <2>1, <2>2, <2>3
<1>5. CASE CorrespondenceStep
  <2>1. Exact(NoticeOps)
    BY <1>5, CorrespondenceFrame
  <2>2. UNCHANGED rest
    <3>1. ASSUME NEW k \in Calls, NoticeAction(k)
          PROVE  UNCHANGED rest
      BY <3>1, NoticeFrame DEF accountsOnly, rest
    <3>2. QED
      BY <1>5, <3>1 DEF CorrespondenceStep, NoticeAction, GrowInactive, AppRemoved, FlagThread,
                        ReviewEnds,
                        accountsOnly, rest
  <2>3. NoticeOps \cap AccountOps = {}
    BY DEF NoticeOps, AccountOps
  <2>4. QED
    BY <2>1, <2>2, <2>3
<1>6. QED
  BY <1>1, <1>2, <1>3, <1>4, <1>5
     DEF Next, TrustStep, ReputationStep, OpinionAction, ProfileAction

\* A call of accounts stands where it stood in the steps of the others.
LEMMA AccountsIdle ==
    ASSUME NEW ops, ops \cap AccountOps = {}, Exact(ops), UNCHANGED rest
    PROVE  /\ Calls' = Calls /\ UNCHANGED rest
           /\ \A l \in Calls : call'[l].job = call[l].job
           /\ \A l \in Calls : Job(l).op \in AccountOps => call'[l] = call[l]
           /\ \A l \in Calls : call[l].pc = "done" => call'[l] = call[l]
BY DEF Exact

LEMMA FamilyStart == Init => FamilyInv
<1>. SUFFICES ASSUME Init
              PROVE  FamilyInv
  OBVIOUS
<1>1. AccountsInit
  BY DEF Init, TrustInit, ReputationInit
<1>2. PICK cast \in Casts :
        /\ call = [k \in DOMAIN cast |-> Start(cast[k], "idle")]
        /\ token = [k \in DOMAIN cast |-> "none"] /\ family = [k \in DOMAIN cast |-> k]
  BY <1>1 DEF AccountsInit
<1>3. Calls = DOMAIN cast
  BY <1>2 DEF Calls
<1>4. \A k \in Calls : call[k].pc = "idle"
  BY CallsIdle
<1>5. \A k \in Calls : Job(k).op = "refresh" => Job(k).ref \in Calls
  BY <1>2, <1>3, CastsAssumption DEF Job, Start
<1>6. FamiliesOK
  BY <1>1, <1>2, <1>3, <1>4, <1>5 DEF AccountsInit, FamiliesOK, TokenStates, Bringing, At
<1>7. EscapesKnown
  BY <1>2, <1>3, <1>4 DEF EscapesKnown, Bringing, At
<1>8. QED
  BY <1>6, <1>7 DEF FamilyInv

\* What a step does that neither issues a token, nor revokes a family, nor
\* reads a token for a refresh.
FamiliesLeft ==
    /\ Calls' = Calls /\ UNCHANGED <<family, replayed, escaped>>
    /\ token' \in [Calls -> TokenStates]
    /\ \A t \in Calls :
        /\ token'[t] # "none" => token[t] # "none"
        /\ token'[t] = "live" => token[t] = "live"

\* Call k goes nowhere near a family.
Apart(k) ==
    /\ call'[k].job = call[k].job
    /\ Used(k) => Used(k)'
    /\ Bringing(k)' => Bringing(k)
    /\ At(k, "replay", {"refresh"})' => At(k, "replay", {"refresh"})

LEMMA FamilyKept ==
    ASSUME FamilyInv, FamiliesLeft, \A k \in Calls : Apart(k)
    PROVE  FamilyInv'
<1>1. FamiliesOK'
  <2>1. \A k \in Calls : Job(k)' = Job(k)
    BY DEF Apart, Job
  <2>2. \A k \in Calls : Used(k) => Used(k)'
    BY DEF Apart
  <2>3. ASSUME NEW k \in Calls
        PROVE  /\ Job(k).op = "refresh" => Job(k).ref \in Calls'
               /\ token'[k] # "none" => Used(k)'
               /\ family'[k] # k => Used(k)' /\ Used(family[k])'
               /\ k \in replayed' => Used(k)'
               /\ Bringing(k)' \/ At(k, "replay", {"refresh"})' => Used(Job(k).ref)'
    <3>1. family[k] \in Calls
      BY DEF FamilyInv, FamiliesOK
    <3>2. Bringing(k)' \/ At(k, "replay", {"refresh"})' => Used(Job(k).ref)
      BY DEF Apart, FamilyInv, FamiliesOK
    <3>3. Bringing(k)' \/ At(k, "replay", {"refresh"})' => Used(Job(k).ref)'
      <4>1. Bringing(k)' \/ At(k, "replay", {"refresh"})' => Job(k).ref \in Calls
        BY <2>1 DEF Bringing, At, FamilyInv, FamiliesOK
      <4>2. QED
        BY <2>1, <2>2, <3>2, <4>1 DEF Used, At, Job
    <3>4. QED
      BY <2>2, <3>1, <3>2, <3>3 DEF FamiliesLeft, FamilyInv, FamiliesOK
  <2>4. QED
    BY <2>1, <2>3 DEF FamiliesOK, FamiliesLeft, FamilyInv
<1>2. EscapesKnown'
  BY DEF FamilyInv, FamiliesOK, EscapesKnown, FamiliesLeft, Apart, Job
<1>3. QED
  BY <1>1, <1>2 DEF FamilyInv

LEMMA OnlyApart ==
    ASSUME NEW k \in Calls, Only(k), Apart(k)
    PROVE  Calls' = Calls /\ \A l \in Calls : Apart(l)
<1>1. ASSUME NEW l \in Calls \ {k}
      PROVE  Apart(l)
  <2>1. call'[l] = call[l]
    BY DEF Only
  <2>2. QED
    BY <2>1 DEF Apart, Used, Bringing, At, Job
<1>2. QED
  BY <1>1 DEF Only

\* The steps of a call which no session has to do with yet, or of one whose
\* tokens are only revoked.
Unissued(k) ==
    \/ Register(k) \/ ClearPending(k) \/ StoreEmailCode(k)
    \/ RequestPhoneOtp(k) \/ CoolDown(k) \/ StorePhoneCode(k)
    \/ LoadVerify(k) \/ ReadEmailCode(k) \/ ReadPhoneCode(k) \/ RemoveStale(k)
    \/ CountEmailTry(k) \/ CountPhoneTry(k) \/ LockOut(k) \/ TakeCode(k)
    \/ CheckUnregistered(k) \/ LoadPhoneUser(k) \/ CreateEmailUser(k) \/ CreatePhoneUser(k)
    \/ DropCode(k) \/ GrantSignupBonus(k)
    \/ LoadLogin(k) \/ LoadLogout(k)
    \/ LoadUser(k) \/ ToggleBlock(k) \/ SuspendUser(k)
    \/ FindLapsed(k) \/ Reactivate(k)

LEMMA UnissuedStep ==
    ASSUME CallsOK, NEW k \in Calls, Unissued(k)
    PROVE  /\ Only(k) /\ UNCHANGED <<tokens, replayed, escaped, torn>>
           /\ Job(k).op # "refresh" /\ call[k].pc \notin {"heir", "done"}
<1>0. /\ \A where : To(k, where) => Only(k)
      /\ Finish(k) => Only(k)
      /\ \A where, value : call' = [call EXCEPT ![k].pc = where, ![k].saw = value] => Only(k)
      /\ \A where, value : call' = [call EXCEPT ![k].row = value, ![k].pc = where] => Only(k)
  BY ToOnly, FinishOnly, SawOnly, RowOnly
<1>. USE DEF At, MayStart, trail, Verifies, Closes
<1>2. CASE \/ Register(k) \/ ClearPending(k) \/ StoreEmailCode(k)
           \/ RequestPhoneOtp(k) \/ CoolDown(k) \/ StorePhoneCode(k)
  BY <1>0, <1>2 DEF Register, ClearPending, StoreEmailCode, RequestPhoneOtp, CoolDown,
                    StorePhoneCode
<1>3. CASE LoadVerify(k) \/ ReadEmailCode(k) \/ ReadPhoneCode(k) \/ RemoveStale(k)
  BY <1>0, <1>3 DEF LoadVerify, ReadEmailCode, ReadPhoneCode, RemoveStale, Judge
<1>4. CASE CountEmailTry(k) \/ CountPhoneTry(k) \/ LockOut(k) \/ TakeCode(k)
  BY <1>0, <1>4 DEF CountEmailTry, CountPhoneTry, LockOut, TakeCode
<1>5. CASE \/ CheckUnregistered(k) \/ LoadPhoneUser(k) \/ CreateEmailUser(k)
           \/ CreatePhoneUser(k) \/ DropCode(k) \/ GrantSignupBonus(k)
  BY <1>0, <1>5 DEF CheckUnregistered, LoadPhoneUser, CreateEmailUser, CreatePhoneUser,
                    NewAccount, DropCode, GrantSignupBonus
<1>6. CASE LoadLogin(k) \/ LoadLogout(k)
  BY <1>0, <1>6 DEF LoadLogin, LoadLogout
<1>7. CASE LoadUser(k) \/ ToggleBlock(k) \/ SuspendUser(k) \/ FindLapsed(k) \/ Reactivate(k)
  BY <1>0, <1>7 DEF LoadUser, ToggleBlock, SuspendUser, CloseNow, FindLapsed, Reactivate
<1>8. QED
  BY <1>2, <1>3, <1>4, <1>5, <1>6, <1>7 DEF Unissued

LEMMA FamilyUnissued ==
    ASSUME CallsOK, FamilyInv, NEW k \in Calls, Unissued(k)
    PROVE  FamilyInv'
<1>1. Only(k) /\ UNCHANGED <<tokens, replayed, escaped>> /\ Job(k).op # "refresh"
      /\ call[k].pc \notin {"heir", "done"}
  BY UnissuedStep
<1>2. Apart(k)
  BY <1>1 DEF Apart, Only, Used, Bringing, At, Job
<1>3. FamiliesLeft
  BY <1>1 DEF FamiliesLeft, Only, tokens, FamilyInv, FamiliesOK
<1>4. QED
  BY <1>1, <1>2, <1>3, OnlyApart, FamilyKept

LEMMA RevokedStates ==
    ASSUME token \in [Calls -> TokenStates], NEW T
    PROVE  /\ Revoked(T) \in [Calls -> TokenStates]
           /\ \A t \in Calls :
                /\ Revoked(T)[t] # "none" => token[t] # "none"
                /\ Revoked(T)[t] = "live" => token[t] = "live" /\ t \notin T
BY DEF Revoked, TokenStates

LEMMA FamilyEnds ==
    ASSUME CallsOK, FamilyInv, NEW k \in Calls,
           \/ MarkRotated(k) \/ Logout(k) \/ KillSessions(k) \/ PurgeExpired(k) \/ Cut(k) \/ CheckUser(k)
    PROVE  FamilyInv'
<1>1. /\ \A where : To(k, where) => Only(k) /\ call'[k].pc = where
      /\ Finish(k) => Only(k) /\ call'[k].pc = "done"
  BY ToOnly, FinishOnly
<1>2. Only(k) /\ Apart(k)
  <2>1. CASE MarkRotated(k) \/ Logout(k) \/ KillSessions(k) \/ Cut(k)
    <3>1. Only(k) /\ call'[k].pc = "done"
      BY <1>1, <2>1 DEF MarkRotated, Logout, KillSessions, Cut
    <3>2. QED
      BY <3>1 DEF Only, Apart, Used, At, Job, Bringing, At
  <2>2. CASE PurgeExpired(k)
    <3>1. Only(k) /\ call'[k].pc = "purged" /\ call[k].pc = "idle"
      BY <1>1, <2>2 DEF PurgeExpired, MayStart, At
    <3>2. QED
      BY <3>1 DEF Only, Apart, Used, At, Job, Bringing, At
  <2>3. CASE CheckUser(k)
    <3>1. Only(k) /\ call'[k].pc \in {"user", "done"} /\ At(k, "valid", {"refresh"})
      BY <1>1, <2>3 DEF CheckUser
    <3>2. QED
      BY <3>1 DEF Only, Apart, Used, At, Job, Bringing, At
  <2>4. QED
    BY <2>1, <2>2, <2>3
<1>3. FamiliesLeft
  <2>1. token \in [Calls -> TokenStates]
    BY DEF FamilyInv, FamiliesOK
  <2>2. UNCHANGED <<family, replayed, escaped>>
    BY DEF MarkRotated, Logout, KillSessions, PurgeExpired, Cut, CheckUser, trail, tokens
  <2>3. \/ \E T : token' = Revoked(T)
        \/ token' = [t \in Calls |-> IF t \in expired THEN "none" ELSE token[t]]
        \/ token' = token
    BY DEF MarkRotated, Logout, KillSessions, PurgeExpired, Cut, CheckUser, tokens
  <2>4. QED
    BY <1>2, <2>1, <2>2, <2>3, RevokedStates DEF FamiliesLeft, Only, TokenStates
<1>4. QED
  BY <1>2, <1>3, OnlyApart, FamilyKept

\* A refresh has read its token, used once before it was rotated or never.
LEMMA FamilyLoad ==
    ASSUME CallsOK, FamilyInv, NEW k \in Calls, LoadToken(k)
    PROVE  FamilyInv'
<1>. DEFINE t == Job(k).ref
<1>1. /\ Only(k) /\ call[k].pc = "idle" /\ Job(k).op = "refresh" /\ token[t] # "none"
      /\ UNCHANGED <<tokens, trail>>
      /\ call'[k].pc \in {"replay", "valid", "done"}
      /\ call'[k].pc = "valid" => token[t] # "revoked"
  BY ToOnly, FinishOnly DEF LoadToken, MayStart, At
<1>2. Calls' = Calls /\ (\A l \in Calls : Job(l)' = Job(l) /\ (Used(l) => Used(l)'))
  BY <1>1 DEF Only, Job, Used, At, Job
<1>3. t \in Calls /\ Used(t) /\ token[t] \in TokenStates
  BY <1>1 DEF FamilyInv, FamiliesOK
<1>4. \A l \in Calls \ {k} :
        /\ Bringing(l)' <=> Bringing(l)
        /\ At(l, "replay", {"refresh"})' <=> At(l, "replay", {"refresh"})
  BY <1>1 DEF Only, Bringing, At, Job
<1>5. FamiliesOK'
  <2>1. token' \in [Calls' -> TokenStates] /\ family' \in [Calls' -> Calls']
    BY <1>1, <1>2 DEF FamilyInv, FamiliesOK, tokens
  <2>2. ASSUME NEW l \in Calls
        PROVE  /\ Job(l)'.op = "refresh" => Job(l)'.ref \in Calls
               /\ token'[l] # "none" => Used(l)'
               /\ family'[l] # l => Used(l)' /\ Used(family[l])'
               /\ l \in replayed' => Used(l)'
               /\ Bringing(l)' \/ At(l, "replay", {"refresh"})' => Used(Job(l).ref)'
    <3>1. family[l] \in Calls
      BY DEF FamilyInv, FamiliesOK
    <3>2. Bringing(l)' \/ At(l, "replay", {"refresh"})' => Used(Job(l).ref) /\ Job(l).ref \in Calls
      <4>1. CASE l = k
        BY <1>3, <4>1
      <4>2. CASE l # k
        BY <1>4, <4>2 DEF FamilyInv, FamiliesOK, Bringing, At
      <4>3. QED
        BY <4>1, <4>2
    <3>3. Bringing(l)' \/ At(l, "replay", {"refresh"})' => Used(Job(l).ref)'
      BY <1>2, <3>2 DEF Used, At, Job
    <3>4. QED
      BY <1>1, <1>2, <3>1, <3>3 DEF FamilyInv, FamiliesOK, tokens, trail
  <2>3. QED
    BY <1>1, <1>2, <2>1, <2>2 DEF FamiliesOK, tokens
<1>6. EscapesKnown'
  <2>1. ASSUME NEW l \in Calls, Bringing(l)', family[Job(l).ref] \in replayed
        PROVE  l \in escaped \/ Job(l).ref \in escaped
    <3>1. CASE l = k
      <4>1. token[t] = "live"
        BY <1>1, <1>3, <2>1, <3>1 DEF Bringing, At, TokenStates
      <4>2. QED
        BY <1>3, <2>1, <3>1, <4>1 DEF FamilyInv, EscapesKnown
    <3>2. CASE l # k
      BY <1>4, <2>1, <3>2 DEF FamilyInv, EscapesKnown
    <3>3. QED
      BY <3>1, <3>2
  <2>2. QED
    BY <1>1, <1>2, <2>1 DEF EscapesKnown, FamilyInv, tokens, trail
<1>7. QED
  BY <1>5, <1>6 DEF FamilyInv

\* A family found replayed: what is not revoked now is on its way.
LEMMA FamilyRevoked ==
    ASSUME CallsOK, FamilyInv, NEW k \in Calls, RevokeFamily(k)
    PROVE  FamilyInv'
<1>. DEFINE f == family[Job(k).ref]
<1>1. /\ Only(k) /\ call'[k].pc = "done" /\ At(k, "replay", {"refresh"})
      /\ token' = Revoked(Of(f)) /\ family' = family
      /\ replayed' = replayed \cup {f}
      /\ escaped' = escaped \cup {l \in Calls \ {k} : Bringing(l) /\ family[Job(l).ref] = f}
  BY FinishOnly DEF RevokeFamily, Doomed, Bringing
<1>2. Calls' = Calls /\ (\A l \in Calls : Job(l)' = Job(l) /\ (Used(l) => Used(l)'))
  BY <1>1 DEF Only, Job, Used, At, Job
<1>3. ~Bringing(k)' /\ ~At(k, "replay", {"refresh"})'
  BY <1>1 DEF Bringing, At
<1>4. \A l \in Calls \ {k} :
        /\ Bringing(l)' <=> Bringing(l)
        /\ At(l, "replay", {"refresh"})' <=> At(l, "replay", {"refresh"})
  BY <1>1 DEF Only, Bringing, At, Job
<1>5. Job(k).ref \in Calls /\ Used(Job(k).ref) /\ f \in Calls /\ Used(f)
  BY <1>1 DEF FamilyInv, FamiliesOK, At
<1>6. /\ token' \in [Calls -> TokenStates]
      /\ \A t \in Calls : /\ token'[t] # "none" => token[t] # "none"
                          /\ token'[t] = "live" => token[t] = "live" /\ t \notin Of(f)
  BY <1>1, RevokedStates DEF FamilyInv, FamiliesOK
<1>. HIDE DEF f
<1>7. FamiliesOK'
  <2>1. ASSUME NEW l \in Calls
        PROVE  /\ Job(l)'.op = "refresh" => Job(l)'.ref \in Calls
               /\ token'[l] # "none" => Used(l)'
               /\ family'[l] # l => Used(l)' /\ Used(family[l])'
               /\ l \in replayed' => Used(l)'
               /\ Bringing(l)' \/ At(l, "replay", {"refresh"})' => Used(Job(l).ref)'
    <3>1. family[l] \in Calls
      BY DEF FamilyInv, FamiliesOK
    <3>2. Bringing(l)' \/ At(l, "replay", {"refresh"})' => Used(Job(l).ref) /\ Job(l).ref \in Calls
      BY <1>3, <1>4 DEF FamilyInv, FamiliesOK, Bringing, At
    <3>3. Bringing(l)' \/ At(l, "replay", {"refresh"})' => Used(Job(l).ref)'
      BY <1>2, <3>2 DEF Used, At, Job
    <3>4. QED
      BY <1>1, <1>2, <1>5, <1>6, <3>1, <3>3 DEF FamilyInv, FamiliesOK
  <2>2. QED
    BY <1>1, <1>2, <1>6, <2>1 DEF FamiliesOK, FamilyInv
<1>8. EscapesKnown'
  <2>1. ASSUME NEW t \in Calls, token'[t] = "live", family[t] \in replayed'
        PROVE  t \in escaped'
    BY <1>1, <1>6, <2>1 DEF Of, FamilyInv, EscapesKnown
  <2>2. ASSUME NEW l \in Calls, Bringing(l)', family[Job(l).ref] \in replayed'
        PROVE  l \in escaped' \/ Job(l).ref \in escaped'
    BY <1>1, <1>3, <1>4, <2>2 DEF FamilyInv, EscapesKnown
  <2>3. QED
    BY <1>1, <1>2, <2>1, <2>2 DEF EscapesKnown
<1>9. QED
  BY <1>7, <1>8 DEF FamilyInv

\* A session opened, which is a family of its own, or a token rotated.
LEMMA FamilyGrows ==
    ASSUME CallsOK, FamilyInv, NEW k \in Calls, IssueSession(k) \/ CreateHeir(k)
    PROVE  FamilyInv'
<1>1. /\ Only(k) /\ call'[k].pc \in {"heir", "done"} /\ ~Used(k)
      /\ call'[k].pc = "heir" => Job(k).op = "refresh"
      /\ token' = [token EXCEPT ![k] = "live"] /\ UNCHANGED replayed
  BY ToOnly, FinishOnly DEF IssueSession, CreateHeir, At, Used, At, Job, trail
<1>2. /\ Calls' = Calls /\ Used(k)'
      /\ \A l \in Calls : Job(l)' = Job(l) /\ (Used(l) => Used(l)')
  BY <1>1 DEF Only, Job, Used, At, Job
<1>3. ~Bringing(k)' /\ ~At(k, "replay", {"refresh"})'
  BY <1>1 DEF Bringing, At
<1>4. \A l \in Calls \ {k} :
        /\ Bringing(l)' <=> Bringing(l)
        /\ At(l, "replay", {"refresh"})' <=> At(l, "replay", {"refresh"})
  BY <1>1 DEF Only, Bringing, At, Job
<1>5. /\ family[k] = k /\ k \notin replayed /\ token[k] = "none"
      /\ \A t \in Calls \ {k} : family[t] # k
      /\ \A l \in Calls : Bringing(l) \/ At(l, "replay", {"refresh"}) => Job(l).ref # k
  BY <1>1 DEF FamilyInv, FamiliesOK
<1>6. \/ UNCHANGED <<family, escaped>>
      \/ \E t \in Calls \ {k} :
            /\ t = Job(k).ref /\ Bringing(k) /\ Used(t)
            /\ family' = [family EXCEPT ![k] = family[t]]
            /\ escaped' = IF t \in escaped THEN escaped \cup {k} ELSE escaped
  <2>1. CASE IssueSession(k)
    BY <2>1 DEF IssueSession, trail
  <2>2. CASE CreateHeir(k)
    <3>1. Bringing(k)
      BY <2>2 DEF CreateHeir, Bringing
    <3>2. Job(k).ref \in Calls /\ Used(Job(k).ref)
      BY <3>1 DEF FamilyInv, FamiliesOK, Bringing, At
    <3>3. QED
      BY <1>5, <2>2, <3>1, <3>2 DEF CreateHeir
  <2>3. QED
    BY <2>1, <2>2
<1>7. /\ token \in [Calls -> TokenStates] /\ family \in [Calls -> Calls]
      /\ token' \in [Calls -> TokenStates]
      /\ token'[k] = "live" /\ \A t \in Calls \ {k} : token'[t] = token[t]
  BY <1>1 DEF FamilyInv, FamiliesOK, TokenStates
<1>8. /\ family' \in [Calls -> Calls]
      /\ \A t \in Calls \ {k} : family'[t] = family[t]
      /\ \/ family'[k] = k
         \/ /\ Used(family'[k]) /\ Bringing(k) /\ family'[k] = family[Job(k).ref]
            /\ Job(k).ref \in escaped => k \in escaped'
      /\ \A t \in escaped : t \in escaped'
  BY <1>5, <1>6, <1>7 DEF FamilyInv, FamiliesOK
<1>9. FamiliesOK'
  <2>1. ASSUME NEW l \in Calls
        PROVE  /\ Job(l)'.op = "refresh" => Job(l)'.ref \in Calls
               /\ token'[l] # "none" => Used(l)'
               /\ family'[l] # l => Used(l)' /\ (\E g \in Calls : g = family'[l] /\ Used(g)')
               /\ l \in replayed' => Used(l)'
               /\ Bringing(l)' \/ At(l, "replay", {"refresh"})' => Used(Job(l).ref)'
    <3>1. Bringing(l)' \/ At(l, "replay", {"refresh"})' => Used(Job(l).ref) /\ Job(l).ref \in Calls
      BY <1>3, <1>4 DEF FamilyInv, FamiliesOK, Bringing, At
    <3>2. Bringing(l)' \/ At(l, "replay", {"refresh"})' => Used(Job(l).ref)'
      BY <1>2, <3>1 DEF Used, At, Job
    <3>3. family'[l] \in Calls
      BY <1>8
    <3>4. family'[l] # l => \E g \in Calls : g = family'[l] /\ Used(g)
      BY <1>8, <3>3 DEF FamilyInv, FamiliesOK
    <3>5. QED
      BY <1>1, <1>2, <1>7, <1>8, <3>2, <3>4 DEF FamilyInv, FamiliesOK
  <2>2. QED
    BY <1>2, <1>7, <1>8, <2>1 DEF FamiliesOK, Used, At, Job
<1>10. EscapesKnown'
  <2>1. ASSUME NEW t \in Calls, token'[t] = "live", family'[t] \in replayed
        PROVE  t \in escaped'
    <3>1. CASE t = k
      BY <1>5, <1>6, <1>8, <2>1, <3>1 DEF FamilyInv, EscapesKnown
    <3>2. CASE t # k
      BY <1>7, <1>8, <2>1, <3>2 DEF FamilyInv, EscapesKnown
    <3>3. QED
      BY <3>1, <3>2
  <2>2. ASSUME NEW l \in Calls, Bringing(l)', family'[Job(l).ref] \in replayed
        PROVE  l \in escaped' \/ Job(l).ref \in escaped'
    <3>1. l # k /\ Bringing(l) /\ Job(l).ref # k /\ Job(l).ref \in Calls
      BY <1>3, <1>4, <1>5, <2>2 DEF FamilyInv, FamiliesOK, Bringing, At
    <3>2. QED
      BY <1>8, <2>2, <3>1 DEF FamilyInv, EscapesKnown
  <2>3. QED
    BY <1>1, <1>2, <2>1, <2>2 DEF EscapesKnown
<1>11. QED
  BY <1>9, <1>10 DEF FamilyInv

AccountAction(k) ==
    \/ Unissued(k) \/ MarkRotated(k) \/ Logout(k) \/ KillSessions(k) \/ PurgeExpired(k)
    \/ Cut(k) \/ CheckUser(k)
    \/ LoadToken(k) \/ RevokeFamily(k) \/ IssueSession(k) \/ CreateHeir(k)

LEMMA AccountActions ==
    ASSUME AccountsStep
    PROVE  \/ \E k \in Calls : AccountAction(k)
           \/ \E c \in Contacts : Cool(c) \/ LapseCode(c) \/ Unlock(c) \/ EndSuspension(c) \/ ExpireTokens(c)
BY DEF AccountsStep, AccountAction, Unissued

LEMMA FamilyNext ==
    ASSUME CallsOK, FamilyInv, [Next]_vars
    PROVE  FamilyInv'
<1>1. ASSUME NEW k \in Calls, AccountAction(k)
      PROVE  FamilyInv'
  BY <1>1, FamilyUnissued, FamilyEnds, FamilyLoad, FamilyRevoked, FamilyGrows DEF AccountAction
<1>2. ASSUME call' = call, UNCHANGED <<token, family, replayed, escaped>>
      PROVE  FamilyInv'
  BY <1>2 DEF FamilyInv, FamiliesOK, EscapesKnown, Calls, Job, Used, At, Job, Bringing, At
<1>3. ASSUME NEW c \in Contacts,
             Cool(c) \/ LapseCode(c) \/ Unlock(c) \/ EndSuspension(c) \/ ExpireTokens(c)
      PROVE  FamilyInv'
  <2>1. call' = call /\ UNCHANGED <<token, family, replayed, escaped>>
    BY <1>3 DEF Cool, LapseCode, Unlock, EndSuspension, ExpireTokens, tokens, trail
  <2>2. QED
    BY <1>2, <2>1
<1>4. ASSUME NEW ops, ops \cap AccountOps = {}, Exact(ops), UNCHANGED rest
      PROVE  FamilyInv'
  <2>1. /\ Calls' = Calls /\ UNCHANGED rest
        /\ \A l \in Calls : call'[l].job = call[l].job
        /\ \A l \in Calls : Job(l).op \in AccountOps => call'[l] = call[l]
        /\ \A l \in Calls : call[l].pc = "done" => call'[l] = call[l]
    BY <1>4, AccountsIdle
  <2>2. ASSUME NEW l \in Calls
        PROVE  Apart(l)
    <3>1. CASE Job(l).op \in AccountOps
      BY <2>1, <3>1 DEF Apart, Used, Bringing, At, Job
    <3>2. CASE Job(l).op # "refresh"
      BY <2>1, <3>2 DEF Apart, Used, Bringing, At, Job
    <3>3. QED
      BY <3>1, <3>2 DEF AccountOps
  <2>3. FamiliesLeft
    BY <2>1 DEF FamiliesLeft, rest, tokens, trail, FamilyInv, FamiliesOK
  <2>4. QED
    BY <2>2, <2>3, FamilyKept
<1>5. QED
  BY <1>1, <1>3, <1>4, BesideAccounts, AccountActions

LEMMA ClosedStart == Init => ClosedInv
<1>. SUFFICES ASSUME Init
              PROVE  ClosedInv
  OBVIOUS
<1>1. AccountsInit
  BY DEF Init, TrustInit, ReputationInit
<1>2. PICK cast \in Casts :
        /\ call = [k \in DOMAIN cast |-> Start(cast[k], "idle")]
        /\ token = [k \in DOMAIN cast |-> "none"]
  BY <1>1 DEF AccountsInit
<1>3. Calls = DOMAIN cast
  BY <1>2 DEF Calls
<1>4. \A k \in Calls : call[k].pc = "idle" /\ Who(k) \in Contacts
  <2>1. \A k \in Calls : Job(k) = cast[k]
    BY <1>2, <1>3 DEF Job, Start
  <2>2. QED
    BY <1>3, <2>1, CallsIdle, CastsAssumption DEF Who
<1>5. QED
  BY <1>1, <1>2, <1>3, <1>4 DEF AccountsInit, ClosedInv, AccountsOK, Armed, At

\* What a step may do to the account of a call: it arms no call whose account is
\* closed, and who was about to revoke the tokens has done so or was cut.
Calm(k) ==
    /\ call'[k].job = call[k].job
    /\ Armed(k)' => Armed(k) \/ active[Who(k)]
    /\ At(k, "loaded", Closes)' => At(k, "loaded", Closes) \/ Who(k) \in account
    /\ At(k, "closed", Closes) /\ ~At(k, "closed", Closes)' =>
          Who(k) \in torn' \/ \A t \in Calls : Who(t) = Who(k) /\ Armed(t)' => t \in late'

\* An account is closed by a call that is about to revoke its tokens.
Guarded ==
    /\ Calls' = Calls /\ account \subseteq account' /\ late \subseteq late' /\ torn \subseteq torn'
    /\ token' = [k \in Calls |-> token'[k]] /\ active' = [c \in Contacts |-> active'[c]]
    /\ \A c \in Contacts : ~active'[c] => ~active[c] \/ (Killing(c)' /\ c \in account)

LEMMA ClosedKept ==
    ASSUME ClosedInv, Guarded, \A k \in Calls : Calm(k)
    PROVE  ClosedInv'
<1>1. \A k \in Calls : Job(k)' = Job(k) /\ Who(k)' = Who(k)
  BY DEF Calm, Job, Who
<1>2. AccountsOK'
  BY <1>1 DEF ClosedInv, AccountsOK, Guarded, Calm
<1>3. ASSUME NEW t \in Calls, Armed(t)', Who(t) \in account', ~active'[Who(t)], Who(t) \notin torn',
             ~Killing(Who(t))'
      PROVE  t \in late'
  <2>1. Who(t) \in Contacts
    BY DEF ClosedInv, AccountsOK
  <2>2. ~active[Who(t)] /\ Who(t) \in account
    BY <1>1, <1>3, <2>1 DEF ClosedInv, AccountsOK, Guarded, Killing
  <2>3. Armed(t)
    BY <1>3, <2>2 DEF Calm
  <2>4. CASE Killing(Who(t))
    <3>1. PICK k \in Calls : Who(k) = Who(t) /\ At(k, "closed", Closes)
      BY <2>4 DEF Killing
    <3>2. ~At(k, "closed", Closes)'
      BY <1>1, <1>3, <3>1 DEF Killing, Guarded
    <3>3. QED
      BY <1>3, <3>1, <3>2 DEF Calm
  <2>5. CASE ~Killing(Who(t))
    BY <1>3, <2>2, <2>3, <2>5 DEF ClosedInv, Guarded
  <2>6. QED
    BY <2>4, <2>5
<1>4. QED
  BY <1>1, <1>2, <1>3 DEF ClosedInv, Guarded

\* What happens to no other call leaves it as armed as it was.
LEMMA OnlyCalm ==
    ASSUME NEW k \in Calls, Only(k), Calm(k),
           \A l \in Calls \ {k} : token'[l] = "live" => token[l] = "live"
    PROVE  \A l \in Calls : Calm(l)
<1>1. ASSUME NEW l \in Calls \ {k}
      PROVE  Calm(l)
  <2>1. call'[l] = call[l] /\ (token'[l] = "live" => token[l] = "live")
    BY DEF Only
  <2>2. QED
    BY <2>1 DEF Calm, Armed, At, Job
<1>2. QED
  BY <1>1

\* Sending and using codes, and signing up: whoever goes on to a session has
\* just got his account, or has just been asked for it.
LEMMA ClosedCodes ==
    ASSUME CallsOK, ClosedInv, NEW k \in Calls, Unissued(k), Job(k).op \notin Closes \cup {"sweep"}
    PROVE  ClosedInv'
<1>a. /\ \A where : To(k, where) => call'[k].pc = where
      /\ Finish(k) => call'[k].pc = "done"
  BY ToOnly, FinishOnly
<1>b. \A where, value : call' = [call EXCEPT ![k].row = value, ![k].pc = where] => call'[k].pc = where
  BY RowOnly
<1>0. /\ \A where : To(k, where) => call'[k].pc = where
      /\ Finish(k) => call'[k].pc = "done"
      /\ \A where, value : call' = [call EXCEPT ![k].row = value, ![k].pc = where] => call'[k].pc = where
  BY <1>a, <1>b
<1>1. Only(k) /\ UNCHANGED <<tokens, torn>> /\ Job(k).op # "refresh"
  BY UnissuedStep
<1>2. UNCHANGED <<active, late>> /\ account \subseteq account'
  BY DEF Unissued, Register, ClearPending, StoreEmailCode, RequestPhoneOtp, CoolDown, StorePhoneCode,
         LoadVerify, ReadEmailCode, ReadPhoneCode, RemoveStale, CountEmailTry, CountPhoneTry, LockOut,
         TakeCode, CheckUnregistered, LoadPhoneUser, CreateEmailUser, CreatePhoneUser, NewAccount,
         DropCode, GrantSignupBonus, LoadLogin, LoadLogout, LoadUser, ToggleBlock, SuspendUser,
         FindLapsed, Reactivate, MayStart, At, Closes, users, trail
<1>3. call'[k].pc \in {"created", "bonus", "issue"} /\ Job(k).op \in Verifies \cup {"login"}
        => Armed(k) \/ active[Who(k)]
  <2>. USE DEF At, MayStart
  <2>1. CASE \/ Register(k) \/ ClearPending(k) \/ StoreEmailCode(k)
             \/ RequestPhoneOtp(k) \/ CoolDown(k) \/ StorePhoneCode(k)
    BY <1>0, <2>1 DEF Register, ClearPending, StoreEmailCode, RequestPhoneOtp, CoolDown, StorePhoneCode
  <2>2. CASE LoadVerify(k) \/ ReadEmailCode(k) \/ ReadPhoneCode(k) \/ RemoveStale(k)
    BY <1>0, <2>2 DEF LoadVerify, ReadEmailCode, ReadPhoneCode, RemoveStale, Judge
  <2>3. CASE CountEmailTry(k) \/ CountPhoneTry(k) \/ LockOut(k) \/ TakeCode(k)
    BY <1>0, <2>3 DEF CountEmailTry, CountPhoneTry, LockOut, TakeCode
  <2>4. CASE CheckUnregistered(k) \/ LoadPhoneUser(k) \/ LoadLogin(k) \/ LoadLogout(k)
    BY <1>0, <2>4 DEF CheckUnregistered, LoadPhoneUser, LoadLogin, LoadLogout, Open
  <2>5. CASE CreateEmailUser(k) \/ CreatePhoneUser(k)
    <3>1. call'[k].pc = "done" \/ Who(k) \notin account
      BY <1>0, <2>5 DEF CreateEmailUser, CreatePhoneUser, NewAccount
    <3>2. QED
      BY <3>1 DEF ClosedInv, AccountsOK
  <2>6. CASE DropCode(k) \/ GrantSignupBonus(k)
    BY <2>6 DEF DropCode, GrantSignupBonus, Armed
  <2>7. CASE LoadUser(k) \/ ToggleBlock(k) \/ SuspendUser(k) \/ FindLapsed(k) \/ Reactivate(k)
    BY <2>7 DEF LoadUser, ToggleBlock, SuspendUser, FindLapsed, Reactivate, Closes
  <2>8. QED
    BY <2>1, <2>2, <2>3, <2>4, <2>5, <2>6, <2>7 DEF Unissued
<1>4. Calm(k)
  BY <1>1, <1>3 DEF Calm, Only, Armed, At, Job, tokens, Closes
<1>5. Guarded
  BY <1>1, <1>2 DEF Guarded, Only, ClosedInv, AccountsOK, tokens
<1>6. \A l \in Calls \ {k} : token'[l] = "live" => token[l] = "live"
  BY <1>1 DEF tokens
<1>7. QED
  BY <1>1, <1>4, <1>5, <1>6, OnlyCalm, ClosedKept

\* Opening and closing an account.
LEMMA ClosedDecided ==
    ASSUME CallsOK, ClosedInv, NEW k \in Calls,
           LoadUser(k) \/ ToggleBlock(k) \/ SuspendUser(k) \/ FindLapsed(k) \/ Reactivate(k)
    PROVE  ClosedInv'
<1>a. /\ \A where : To(k, where) => call'[k].pc = where
      /\ Finish(k) => call'[k].pc = "done"
  BY ToOnly, FinishOnly
<1>b. \A where, value : call' = [call EXCEPT ![k].pc = where, ![k].saw = value] => call'[k].pc = where
  BY SawOnly
<1>1. Only(k) /\ UNCHANGED <<tokens, torn>> /\ Job(k).op # "refresh"
  BY UnissuedStep DEF Unissued
<1>2. Job(k).op \in Closes \cup {"sweep"} /\ ~At(k, "closed", Closes) /\ UNCHANGED account
  BY DEF LoadUser, ToggleBlock, SuspendUser, FindLapsed, Reactivate, MayStart, At, Closes, users
<1>3. At(k, "loaded", Closes)' => Who(k) \in account
  BY <1>a, <1>b, <1>1 DEF LoadUser, ToggleBlock, SuspendUser, CloseNow, FindLapsed, Reactivate, At
<1>4. Calm(k)
  BY <1>1, <1>2, <1>3 DEF Calm, Only, Armed, At, Job, tokens, Closes, Verifies
<1>5. /\ Who(k) \in Contacts /\ active = [c \in Contacts |-> active[c]]
      /\ At(k, "loaded", Closes) => Who(k) \in account
  BY DEF ClosedInv, AccountsOK
<1>6. late \subseteq late'
  BY DEF LoadUser, ToggleBlock, SuspendUser, CloseNow, FindLapsed, Reactivate, trail
<1>7. \/ active' = active \/ active' = [active EXCEPT ![Who(k)] = TRUE]
      \/ active' = [active EXCEPT ![Who(k)] = FALSE] /\ At(k, "closed", Closes)' /\ Who(k) \in account
  <2>1. CASE LoadUser(k) \/ FindLapsed(k) \/ Reactivate(k)
    BY <2>1 DEF LoadUser, FindLapsed, Reactivate, users
  <2>2. CASE SuspendUser(k) \/ ToggleBlock(k)
    <3>1. At(k, "loaded", Closes)
      BY <2>2 DEF SuspendUser, ToggleBlock, At, Closes
    <3>2. CloseNow(k) => active' = [active EXCEPT ![Who(k)] = FALSE] /\ At(k, "closed", Closes)'
      BY <1>a, <1>1, <3>1 DEF CloseNow, At, Only, Job
    <3>3. QED
      BY <1>5, <2>2, <3>1, <3>2 DEF SuspendUser, ToggleBlock
  <2>3. QED
    BY <2>1, <2>2
<1>8. Guarded
  <2>1. Calls' = Calls /\ Who(k)' = Who(k)
    BY <1>1 DEF Only, Who, Job
  <2>2. ASSUME NEW c \in Contacts, c = Who(k), At(k, "closed", Closes)'
        PROVE  Killing(c)'
    BY <2>1, <2>2 DEF Killing
  <2>3. active' = [c \in Contacts |-> active'[c]]
    BY <1>5, <1>7
  <2>4. \A c \in Contacts : ~active'[c] => ~active[c] \/ (Killing(c)' /\ c \in account)
    BY <1>5, <1>7, <2>2
  <2>5. token' = [l \in Calls |-> token'[l]]
    BY <1>1 DEF ClosedInv, AccountsOK, tokens
  <2>6. QED
    BY <1>1, <1>2, <1>6, <2>1, <2>3, <2>4, <2>5 DEF Guarded
<1>9. \A l \in Calls \ {k} : token'[l] = "live" => token[l] = "live"
  BY <1>1 DEF tokens
<1>10. QED
  BY <1>1, <1>4, <1>8, <1>9, OnlyCalm, ClosedKept

\* Tokens issued, rotated, revoked and purged.
LEMMA ClosedTokens ==
    ASSUME CallsOK, ClosedInv, NEW k \in Calls,
           \/ IssueSession(k) \/ LoadToken(k) \/ RevokeFamily(k) \/ CheckUser(k)
           \/ CreateHeir(k) \/ MarkRotated(k) \/ Logout(k) \/ PurgeExpired(k)
    PROVE  ClosedInv'
<1>1. /\ Only(k) /\ UNCHANGED <<users, late, torn>>
      /\ Job(k).op \in Verifies \cup {"login", "refresh", "logout", "sweep"}
      /\ call'[k].pc \in {"done", "replay", "valid", "user", "heir", "purged"}
      /\ call'[k].pc = "user" => active[Who(k)]
  <2>1. /\ \A where : To(k, where) => Only(k) /\ call'[k].pc = where
        /\ Finish(k) => Only(k) /\ call'[k].pc = "done"
    BY ToOnly, FinishOnly
  <2>. USE DEF MayStart, At, trail
  <2>2. CASE IssueSession(k)
    BY <2>1, <2>2 DEF IssueSession
  <2>3. CASE LoadToken(k) \/ RevokeFamily(k)
    BY <2>1, <2>3 DEF LoadToken, RevokeFamily
  <2>4. CASE CheckUser(k) \/ CreateHeir(k)
    BY <2>1, <2>4 DEF CheckUser, CreateHeir, Open
  <2>5. CASE MarkRotated(k) \/ Logout(k)
    BY <2>1, <2>5 DEF MarkRotated, Logout
  <2>6. CASE PurgeExpired(k)
    BY <2>1, <2>6 DEF PurgeExpired
  <2>7. QED
    BY <2>2, <2>3, <2>4, <2>5, <2>6
<1>2. token = [t \in Calls |-> token[t]]
  BY DEF ClosedInv, AccountsOK
<1>3. \/ token' = [token EXCEPT ![k] = "live"] /\ Armed(k)
      \/ \E T : token' = Revoked(T)
      \/ token' = [t \in Calls |-> IF t \in expired THEN "none" ELSE token[t]]
      \/ token' = token
  BY DEF IssueSession, LoadToken, RevokeFamily, CheckUser, CreateHeir, MarkRotated, Logout,
         PurgeExpired, tokens, Armed
<1>4. /\ token' = [t \in Calls |-> token'[t]]
      /\ \A l \in Calls \ {k} : token'[l] = "live" => token[l] = "live"
      /\ token'[k] = "live" => Armed(k)
  BY <1>2, <1>3 DEF Revoked, Armed
<1>5. Calm(k)
  BY <1>1, <1>4 DEF Calm, Only, Armed, At, Job, Closes, Verifies
<1>6. Guarded
  BY <1>1, <1>4 DEF Guarded, Only, users, ClosedInv, AccountsOK
<1>7. QED
  BY <1>1, <1>4, <1>5, <1>6, OnlyCalm, ClosedKept

\* The tokens of a closed account revoked: what is still armed is in progress.
LEMMA ClosedKilled ==
    ASSUME CallsOK, ClosedInv, NEW k \in Calls, KillSessions(k)
    PROVE  ClosedInv'
<1>1. /\ Only(k) /\ call'[k].pc = "done" /\ UNCHANGED <<users, torn>>
      /\ token' = Revoked(SessionsOf(Who(k))) /\ late' = late \cup Busy(Who(k), k)
      /\ At(k, "closed", Closes)
  BY FinishOnly DEF KillSessions
<1>2. /\ token' = [t \in Calls |-> token'[t]]
      /\ \A l \in Calls : token'[l] = "live" => token[l] = "live" /\ l \notin SessionsOf(Who(k))
  BY <1>1 DEF Revoked
<1>3. ASSUME NEW t \in Calls, Who(t) = Who(k), Armed(t)'
      PROVE  t \in late'
  <2>1. token'[t] # "live"
    BY <1>2, <1>3 DEF SessionsOf
  <2>2. t # k
    BY <1>1, <1>3, <2>1 DEF Armed, At
  <2>3. Running(t)
    BY <1>1, <1>3, <2>1, <2>2 DEF Armed, At, Only, Running
  <2>4. QED
    BY <1>1, <1>3, <2>2, <2>3 DEF Busy
<1>4. Calm(k)
  BY <1>1, <1>2, <1>3 DEF Calm, Only, Armed, At, Job
<1>5. Guarded
  BY <1>1, <1>2 DEF Guarded, Only, users, ClosedInv, AccountsOK
<1>6. QED
  BY <1>1, <1>2, <1>4, <1>5, OnlyCalm, ClosedKept

LEMMA ClosedCut ==
    ASSUME CallsOK, ClosedInv, NEW k \in Calls, Cut(k)
    PROVE  ClosedInv'
<1>1. /\ Only(k) /\ call'[k].pc = "done" /\ UNCHANGED <<users, tokens, late>>
      /\ torn' = torn \cup {Who(k)}
  BY FinishOnly DEF Cut
<1>2. Calm(k)
  BY <1>1 DEF Calm, Only, Armed, At, Job, tokens
<1>3. Guarded
  BY <1>1 DEF Guarded, Only, users, tokens, ClosedInv, AccountsOK
<1>4. \A l \in Calls \ {k} : token'[l] = "live" => token[l] = "live"
  BY <1>1 DEF tokens
<1>5. QED
  BY <1>1, <1>2, <1>3, <1>4, OnlyCalm, ClosedKept

LEMMA ClosedNext ==
    ASSUME CallsOK, ClosedInv, [Next]_vars
    PROVE  ClosedInv'
<1>1. ASSUME NEW k \in Calls, AccountAction(k)
      PROVE  ClosedInv'
  <2>1. CASE Unissued(k)
    <3>1. Unissued(k) /\ Job(k).op \in Closes \cup {"sweep"} =>
            LoadUser(k) \/ ToggleBlock(k) \/ SuspendUser(k) \/ FindLapsed(k) \/ Reactivate(k)
      BY DEF Unissued, Register, ClearPending, StoreEmailCode, RequestPhoneOtp, CoolDown,
             StorePhoneCode, LoadVerify, ReadEmailCode, ReadPhoneCode, RemoveStale, CountEmailTry,
             CountPhoneTry, LockOut, TakeCode, CheckUnregistered, LoadPhoneUser, CreateEmailUser,
             CreatePhoneUser, DropCode, GrantSignupBonus, LoadLogin, LoadLogout, MayStart, At,
             Closes, Verifies
    <3>2. QED
      BY <2>1, <3>1, ClosedCodes, ClosedDecided
  <2>2. QED
    BY <1>1, <2>1, ClosedTokens, ClosedKilled, ClosedCut DEF AccountAction
<1>2. ASSUME NEW c \in Contacts,
             Cool(c) \/ LapseCode(c) \/ Unlock(c) \/ EndSuspension(c) \/ ExpireTokens(c)
      PROVE  ClosedInv'
  <2>1. call' = call /\ UNCHANGED <<account, active, token, late, torn>>
    BY <1>2 DEF Cool, LapseCode, Unlock, EndSuspension, ExpireTokens, users, tokens, trail
  <2>2. QED
    BY <2>1 DEF ClosedInv, AccountsOK, Armed, Killing, Calls, Who, Job, At
<1>3. ASSUME NEW ops, ops \cap AccountOps = {}, Exact(ops), UNCHANGED rest
      PROVE  ClosedInv'
  <2>1. /\ Calls' = Calls /\ UNCHANGED rest
        /\ \A l \in Calls : call'[l].job = call[l].job
        /\ \A l \in Calls : Job(l).op \in AccountOps => call'[l] = call[l]
    BY <1>3, AccountsIdle
  <2>2. ASSUME NEW l \in Calls
        PROVE  Calm(l)
    <3>1. CASE Job(l).op \in AccountOps
      BY <2>1, <3>1 DEF Calm, Armed, At, Job, rest, tokens
    <3>2. CASE Job(l).op \notin AccountOps
      <4>1. Job(l).op \notin Closes \cup Verifies \cup {"login", "refresh"}
        BY <3>2 DEF AccountOps, Closes, Verifies
      <4>2. QED
        BY <2>1, <4>1 DEF Calm, Armed, At, Job, rest, tokens
    <3>3. QED
      BY <3>1, <3>2
  <2>3. Guarded
    BY <2>1 DEF Guarded, rest, users, tokens, trail, ClosedInv, AccountsOK
  <2>4. QED
    BY <2>2, <2>3, ClosedKept
<1>4. QED
  BY <1>1, <1>2, <1>3, BesideAccounts, AccountActions

\* What the end of a family rests on: a token's call is over or has an heir, a
\* family in use was opened, and whoever brings a token of a family found
\* replayed is known to have escaped it.
THEOREM FamilyInvariance == Spec => []FamilyInv
<1>1. Init => FamilyInv
  BY FamilyStart
<1>2. CallsOK /\ FamilyInv /\ [Next]_vars => FamilyInv'
  BY FamilyNext
<1>3. QED
  BY <1>1, <1>2, CallsInvariance, PTL DEF Spec

\* A refresh token used again ends its whole family (authService.refresh),
\* however often it was rotated, but for the refreshes that had read a token of
\* it before and what descends from them.
THEOREM ReplayedFamilyEnds == Spec => []ReplayEndsFamily
<1>1. FamilyInv => ReplayEndsFamily
  BY DEF FamilyInv, EscapesKnown, ReplayEndsFamily
<1>2. QED
  BY <1>1, FamilyInvariance, PTL

\* What a closed account rests on: no call is armed with a session of it unless
\* it was in progress when the account was closed or its tokens revoked.
THEOREM ClosedInvariance == Spec => []ClosedInv
<1>1. Init => ClosedInv
  BY ClosedStart
<1>2. CallsOK /\ ClosedInv /\ [Next]_vars => ClosedInv'
  BY ClosedNext
<1>3. QED
  BY <1>1, <1>2, CallsInvariance, PTL DEF Spec

\* Blocking or suspending ends every session (adminService.toggleBlock,
\* suspendUser): what is live afterwards was being issued when it happened.
THEOREM ClosedMeansOut == Spec => []ClosedHasNoSession
<1>1. ClosedInv => ClosedHasNoSession
  BY DEF ClosedInv, ClosedHasNoSession, Armed, Killing
<1>2. QED
  BY <1>1, ClosedInvariance, PTL

-----------------------------------------------------------------------------
(* Codes: who may open a session with one.                                 *)

\* A set of numbers has a least one.
LEMMA LeastNumber ==
    ASSUME NEW T \in SUBSET Nat, T # {}
    PROVE  \E n \in T : \A m \in T : n <= m
<1>1. \E n \in T : \A m \in T : ~(m < n)
  <2>1. PICK n \in T : \A m \in T : <<m, n>> \notin OpToRel(<, Nat)
    BY NatLessThanWellFounded, WFMin
  <2>2. \A m \in T : ~(m < n)
    BY <2>1 DEF OpToRel
  <2>. QED
    BY <2>2, Zenon
<1>2. QED
  BY <1>1

Stays(f, n, s, places) ==
    f = [i \in 0..n |-> IF i = 0 THEN <<>>
                        ELSE IF i \in places THEN Append(f[i - 1], s[i]) ELSE f[i - 1]]

\* The rows that stay can be gone through.
LEMMA StaysExists ==
    ASSUME NEW s, NEW places, NEW n \in Nat
    PROVE  \E f : Stays(f, n, s, places)
<1>. DEFINE Bad == {m \in Nat : ~ \E f : Stays(f, m, s, places)}
<1>1. SUFFICES ASSUME Bad # {} PROVE FALSE
  OBVIOUS
<1>2. PICK m \in Bad : \A k \in Bad : m <= k
  <2>1. Bad \in SUBSET Nat
    OBVIOUS
  <2>. HIDE DEF Bad
  <2>2. QED
    BY <1>1, <2>1, LeastNumber
<1>3. CASE m = 0
  <2>1. Stays([i \in 0..0 |-> <<>>], 0, s, places)
    BY DEF Stays
  <2>2. QED
    BY <1>2, <1>3, <2>1
<1>4. CASE m # 0
  <2>1. m \in Nat /\ m - 1 \in Nat /\ m - 1 \notin Bad
    BY <1>2, <1>4
  <2>2. PICK f : Stays(f, m - 1, s, places)
    BY <2>1
  <2>. DEFINE g == [i \in 0..m |-> IF i = m THEN IF m \in places THEN Append(f[m - 1], s[m]) ELSE f[m - 1]
                                   ELSE f[i]]
  <2>3. \A i \in 0..(m - 1) : g[i] = f[i]
    BY <2>1
  <2>4. ASSUME NEW i \in 0..m
        PROVE  g[i] = IF i = 0 THEN <<>>
                      ELSE IF i \in places THEN Append(g[i - 1], s[i]) ELSE g[i - 1]
    <3>1. CASE i = m
      BY <1>4, <2>1, <2>3, <3>1
    <3>2. CASE i # m
      <4>1. i \in 0..(m - 1) /\ (i # 0 => i - 1 \in 0..(m - 1))
        BY <2>1, <3>2
      <4>2. f[i] = IF i = 0 THEN <<>>
                   ELSE IF i \in places THEN Append(f[i - 1], s[i]) ELSE f[i - 1]
        BY <2>2, <4>1 DEF Stays
      <4>3. QED
        BY <2>3, <4>1, <4>2
    <3>3. QED
      BY <3>1, <3>2
  <2>5. Stays(g, m, s, places)
    <3>1. g = [i \in 0..m |-> g[i]]
      OBVIOUS
    <3>2. QED
      BY <2>4, <3>1 DEF Stays
  <2>6. QED
    BY <1>2, <2>5
<1>5. QED
  BY <1>3, <1>4

\* What stays of a sequence are rows of it.
LEMMA StayingSeq ==
    ASSUME NEW S, NEW s \in Seq(S), NEW places
    PROVE  Staying(s, places) \in Seq(S)
<1>. DEFINE f == CHOOSE g : Stays(g, Len(s), s, places)
<1>1. Len(s) \in Nat /\ \A i \in 1..Len(s) : s[i] \in S
  BY LenProperties, ElementOfSeq
<1>2. Stays(f, Len(s), s, places)
  BY <1>1, StaysExists
<1>3. Staying(s, places) = f[Len(s)]
  BY DEF Staying, Stays
<1>. HIDE DEF f
<1>. DEFINE Bad == {i \in 0..Len(s) : f[i] \notin Seq(S)}
<1>4. SUFFICES ASSUME Bad # {} PROVE FALSE
  BY <1>1, <1>3
<1>5. PICK i \in Bad : \A k \in Bad : i <= k
  <2>1. Bad \in SUBSET Nat
    BY <1>1
  <2>. HIDE DEF Bad
  <2>2. QED
    BY <1>4, <2>1, LeastNumber
<1>6. f[i] = IF i = 0 THEN <<>>
             ELSE IF i \in places THEN Append(f[i - 1], s[i]) ELSE f[i - 1]
  BY <1>2, <1>5 DEF Stays
<1>7. CASE i = 0
  BY <1>5, <1>6, <1>7, EmptySeq
<1>8. CASE i # 0
  <2>1. i \in 1..Len(s) /\ i - 1 \in 0..Len(s) /\ i - 1 \notin Bad
    BY <1>1, <1>5, <1>8
  <2>2. f[i - 1] \in Seq(S) /\ s[i] \in S
    BY <1>1, <2>1
  <2>3. f[i] \in Seq(S)
    BY <1>6, <1>8, <2>2, AppendProperties
  <2>4. QED
    BY <1>5, <2>3
<1>9. QED
  BY <1>7, <1>8

LEMMA StayingRows ==
    ASSUME NEW S, NEW s \in Seq(S), NEW places
    PROVE  /\ Staying(s, places) \in Seq(S)
           /\ \A i \in DOMAIN Staying(s, places) : \E j \in DOMAIN s : Staying(s, places)[i] = s[j]
<1>. DEFINE T == {s[j] : j \in DOMAIN s}
<1>1. s \in Seq(T)
  OBVIOUS
<1>2. Staying(s, places) \in Seq(T)
  BY <1>1, StayingSeq
<1>3. \A i \in DOMAIN Staying(s, places) : Staying(s, places)[i] \in T
  BY <1>2
<1>4. QED
  BY <1>3, StayingSeq

CodeRow == [by : Calls, for : Verifies, tries : Nat, fresh : BOOLEAN, locked : BOOLEAN]

\* What the code sent by call b is for.
UseOf(b) == IF Job(b).op = "sendLogin" THEN "verifyLogin" ELSE "verifyRegister"

\* Call b has sent a code to c, for this use.
Sent(b, use, c) == b \in Calls /\ Who(b) = c /\ call[b].pc = "done" /\ use = UseOf(b)

CodeRowsOK ==
    /\ codes = [c \in Contacts |-> codes[c]] /\ token = [k \in Calls |-> token[k]]
    /\ \A c \in Contacts :
        /\ codes[c] \in Seq(CodeRow)
        /\ \A i \in DOMAIN codes[c] : Sent(codes[c][i].by, codes[c][i].for, c)

\* A verification past the deletion of its code, or past the account it made,
\* and one whose code was right.
AfterUse(k, places) == Job(k).op \in Verifies /\ (call[k].pc \in places \/ token[k] # "none")
Past(k) == Job(k).op = "verifyLogin" /\ AfterUse(k, {"taken", "new", "created", "bonus", "issue"})
Made(k) == Job(k).op = "verifyRegister" /\ AfterUse(k, {"created", "bonus", "issue"})
Right(k) == AfterUse(k, {"right", "taken", "new", "created", "bonus", "issue"})

\* The call may use this code.
Fits(k, use) == IF Who(k) \in Phones THEN Job(k).op = use ELSE Job(k).op = "verifyRegister"

\* A code read as right is the one the call brought, it was sent, and once a
\* login has deleted it no row has it again; a sign-up past it has the account.
UserOfCode(k) ==
    /\ Who(k) \in Contacts
    /\ At(k, "right", Verifies) => call[k].row.by = Job(k).ref
    /\ Right(k) => /\ Sent(Job(k).ref, UseOf(Job(k).ref), Who(k))
                   /\ Fits(k, UseOf(Job(k).ref))
    /\ Past(k) => \A i \in DOMAIN codes[Who(k)] : codes[Who(k)][i].by # Job(k).ref
    /\ Made(k) => Who(k) \in account

\* Nobody signs up twice, and two logins with one code read it together.
UsersApart(k, l) ==
    /\ ~(Made(k) /\ Made(l) /\ Who(k) = Who(l))
    /\ (/\ Right(k) /\ Right(l) /\ Job(k).op = "verifyLogin" /\ Job(l).op = "verifyLogin"
        /\ Job(k).ref = Job(l).ref)
       => {k, l} \subseteq twins

CodeInv ==
    /\ CodeRowsOK
    /\ \A k \in Calls : UserOfCode(k) /\ \A l \in Calls \ {k} : UsersApart(k, l)

LEMMA CodeStart == Init => CodeInv
<1>. SUFFICES ASSUME Init
              PROVE  CodeInv
  OBVIOUS
<1>1. AccountsInit
  BY DEF Init, TrustInit, ReputationInit
<1>2. PICK cast \in Casts :
        /\ call = [k \in DOMAIN cast |-> Start(cast[k], "idle")]
        /\ token = [k \in DOMAIN cast |-> "none"]
  BY <1>1 DEF AccountsInit
<1>3. Calls = DOMAIN cast
  BY <1>2 DEF Calls
<1>4. \A k \in Calls : call[k].pc = "idle" /\ Who(k) \in Contacts
  <2>1. \A k \in Calls : Job(k) = cast[k]
    BY <1>2, <1>3 DEF Job, Start
  <2>2. QED
    BY <1>3, <2>1, CallsIdle, CastsAssumption DEF Who
<1>5. CodeRowsOK
  <2>1. \A c \in Contacts : codes[c] = <<>> /\ codes[c] \in Seq(CodeRow) /\ DOMAIN codes[c] = {}
    BY <1>1 DEF AccountsInit
  <2>2. QED
    BY <1>1, <1>2, <1>3, <2>1 DEF AccountsInit, CodeRowsOK
<1>6. \A k \in Calls : ~Right(k) /\ ~Past(k) /\ ~Made(k) /\ ~At(k, "right", Verifies)
  BY <1>2, <1>3, <1>4 DEF Right, Past, Made, AfterUse, At
<1>7. QED
  BY <1>4, <1>5, <1>6 DEF CodeInv, UserOfCode, UsersApart

\* A verification that has just read its code.
Reads(k) ==
    /\ At(k, "right", Verifies)' /\ call'[k].row.by = Job(k).ref
    /\ \E i \in DOMAIN codes[Who(k)] :
          codes[Who(k)][i].by = Job(k).ref /\ Fits(k, codes[Who(k)][i].for)
    /\ \A l \in Calls \ {k} :
          At(l, "right", Verifies) /\ call[l].row.by = Job(k).ref => {k, l} \subseteq twins'

\* What a step does to a call it is not about, and to the one it is about.
Steady(k) ==
    /\ call'[k].job = call[k].job
    /\ call[k].pc = "done" => call'[k].pc = "done"
    /\ At(k, "right", Verifies)' => At(k, "right", Verifies) /\ call'[k].row = call[k].row
    /\ Right(k)' => Right(k)
    /\ Past(k)' => Past(k)
    /\ Made(k)' => Made(k)

Moves(k) ==
    /\ call'[k].job = call[k].job
    /\ call[k].pc = "done" => call'[k].pc = "done"
    /\ At(k, "right", Verifies)' => \/ At(k, "right", Verifies) /\ call'[k].row = call[k].row
                                    \/ Reads(k)
    /\ Right(k)' => Right(k) \/ Reads(k)
    /\ Past(k)' => Past(k) \/ codes'[Who(k)] = <<>>
    /\ Made(k)' => Made(k) \/ (Who(k) \notin account /\ Who(k) \in account')

\* The rows are some of those there were, or sent by a call that is through.
RowsKept ==
    /\ Calls' = Calls /\ account \subseteq account' /\ twins \subseteq twins'
    /\ codes' = [c \in Contacts |-> codes'[c]] /\ token' = [k \in Calls |-> token'[k]]
    /\ \A c \in Contacts :
        /\ codes'[c] \in Seq(CodeRow)
        /\ \A i \in DOMAIN codes'[c] :
            LET r == codes'[c][i]
            IN  \/ \E j \in DOMAIN codes[c] : codes[c][j].by = r.by /\ codes[c][j].for = r.for
                \/ /\ r.by \in Calls /\ Who(r.by) = c /\ r.for = UseOf(r.by)
                   /\ call[r.by].pc # "done" /\ call'[r.by].pc = "done"

LEMMA CodeKept ==
    ASSUME CodeInv, RowsKept, NEW k, \A l \in Calls : Moves(l) /\ (l # k => Steady(l))
    PROVE  CodeInv'
<1>1. /\ Calls' = Calls /\ CodeRow' = CodeRow
      /\ \A l \in Calls : Job(l)' = Job(l) /\ Who(l)' = Who(l) /\ UseOf(l)' = UseOf(l)
      /\ \A l \in Calls : call[l].pc = "done" => call'[l].pc = "done"
  BY DEF RowsKept, Moves, Job, Who, UseOf, CodeRow
<1>2. CodeRowsOK /\ \A l \in Calls : UserOfCode(l)
  BY DEF CodeInv
<1>3. \A b, use, c : Sent(b, use, c) => Sent(b, use, c)'
  BY <1>1 DEF Sent
<1>4. CodeRowsOK'
  <2>1. ASSUME NEW c \in Contacts, NEW i \in DOMAIN codes'[c],
               NEW b, b = codes'[c][i].by, NEW use, use = codes'[c][i].for
        PROVE  Sent(b, use, c)'
    <3>1. CASE \E j \in DOMAIN codes[c] :
                  codes[c][j].by = codes'[c][i].by /\ codes[c][j].for = codes'[c][i].for
      BY <1>2, <1>3, <2>1, <3>1 DEF CodeRowsOK
    <3>2. CASE ~ \E j \in DOMAIN codes[c] :
                  codes[c][j].by = codes'[c][i].by /\ codes[c][j].for = codes'[c][i].for
      BY <1>1, <2>1, <3>2 DEF RowsKept, Sent
    <3>3. QED
      BY <3>1, <3>2
  <2>2. \A c \in Contacts : codes'[c] \in Seq(CodeRow')
    BY <1>1 DEF RowsKept
  <2>3. QED
    BY <1>1, <2>1, <2>2 DEF CodeRowsOK, RowsKept
<1>5. ASSUME NEW l \in Calls, Reads(l)
      PROVE  /\ Sent(Job(l).ref, UseOf(Job(l).ref), Who(l)) /\ Fits(l, UseOf(Job(l).ref))
             /\ \A m \in Calls : Past(m) /\ Who(m) = Who(l) => Job(m).ref # Job(l).ref
  <2>1. PICK i \in DOMAIN codes[Who(l)] :
            codes[Who(l)][i].by = Job(l).ref /\ Fits(l, codes[Who(l)][i].for)
    BY <1>5 DEF Reads
  <2>2. Who(l) \in Contacts
    BY <1>2 DEF UserOfCode
  <2>3. Sent(Job(l).ref, codes[Who(l)][i].for, Who(l))
    BY <1>2, <2>1, <2>2 DEF CodeRowsOK
  <2>4. codes[Who(l)][i].for = UseOf(Job(l).ref)
    BY <2>3 DEF Sent
  <2>5. QED
    BY <1>2, <2>1, <2>3, <2>4 DEF UserOfCode
<1>6. ASSUME NEW l \in Calls
      PROVE  UserOfCode(l)'
  <2>1. Moves(l) /\ UserOfCode(l) /\ Who(l)' = Who(l) /\ Job(l)' = Job(l)
    BY <1>1, <1>2
  <2>2. At(l, "right", Verifies)' => call'[l].row.by = Job(l).ref
    BY <2>1 DEF Moves, Reads, UserOfCode
  <2>3. Right(l)' => Sent(Job(l).ref, UseOf(Job(l).ref), Who(l)) /\ Fits(l, UseOf(Job(l).ref))
    BY <1>5, <2>1 DEF Moves, UserOfCode
  <2>4. Right(l)' => Sent(Job(l).ref, UseOf(Job(l).ref), Who(l))' /\ Fits(l, UseOf(Job(l).ref))'
    <3>1. \A b, use : Fits(l, use)' <=> Fits(l, use)
      BY <2>1 DEF Fits
    <3>2. Sent(Job(l).ref, UseOf(Job(l).ref), Who(l)) =>
            Sent(Job(l).ref, UseOf(Job(l).ref), Who(l))' /\ UseOf(Job(l).ref)' = UseOf(Job(l).ref)
      BY <1>1, <2>1 DEF Sent
    <3>3. QED
      BY <1>1, <2>1, <2>3, <3>1, <3>2 DEF Fits, UseOf
  <2>5. Past(l)' => \A i \in DOMAIN codes'[Who(l)] : codes'[Who(l)][i].by # Job(l).ref
    <3>1. SUFFICES ASSUME Past(l)', NEW i \in DOMAIN codes'[Who(l)], codes'[Who(l)][i].by = Job(l).ref
                   PROVE  FALSE
      OBVIOUS
    <3>2. codes'[Who(l)] # <<>>
      BY <3>1
    <3>3. Past(l) /\ Right(l)
      BY <2>1, <3>1, <3>2 DEF Moves, Past, Right, AfterUse, Verifies
    <3>4. call[Job(l).ref].pc = "done" /\ Job(l).ref \in Calls
      BY <2>1, <3>3 DEF UserOfCode, Sent
    <3>5. Who(l) \in Contacts
      BY <2>1 DEF UserOfCode
    <3>6. QED
      BY <2>1, <3>1, <3>3, <3>4, <3>5 DEF UserOfCode, RowsKept
  <2>6. Made(l)' => Who(l) \in account'
    BY <2>1 DEF Moves, UserOfCode, RowsKept
  <2>7. QED
    BY <2>1, <2>2, <2>4, <2>5, <2>6 DEF UserOfCode
<1>7. ASSUME NEW l \in Calls, NEW m \in Calls \ {l}
      PROVE  UsersApart(l, m)'
  <2>1. /\ UserOfCode(l) /\ UserOfCode(m) /\ UsersApart(l, m)
        /\ Job(l)' = Job(l) /\ Who(l)' = Who(l) /\ Job(m)' = Job(m) /\ Who(m)' = Who(m)
        /\ Moves(l) /\ Moves(m) /\ (Steady(l) \/ Steady(m))
    BY <1>1 DEF CodeInv
  <2>2. ~(Made(l)' /\ Made(m)' /\ Who(l) = Who(m))
    BY <2>1 DEF Moves, Steady, UserOfCode, UsersApart
  <2>3. ASSUME Right(l)', Right(m)', Job(l).op = "verifyLogin", Job(m).op = "verifyLogin",
               Job(l).ref = Job(m).ref
        PROVE  {l, m} \subseteq twins'
    <3>1. CASE Right(l) /\ Right(m)
      BY <2>1, <2>3, <3>1 DEF UsersApart, RowsKept
    <3>2. ASSUME NEW x \in {l, m}, NEW y \in {l, m}, x # y, Reads(x), Right(y)
          PROVE  {x, y} \subseteq twins'
      <4>1. /\ x \in Calls /\ y \in Calls /\ Job(x).ref = Job(y).ref
            /\ Job(y).op = "verifyLogin" /\ UserOfCode(y)
        BY <2>1, <2>3, <3>2
      <4>2. Who(y) = Who(x)
        BY <1>5, <3>2, <4>1 DEF UserOfCode, Sent
      <4>3. ~Past(y)
        BY <1>5, <3>2, <4>1, <4>2
      <4>4. At(y, "right", Verifies)
        BY <3>2, <4>1, <4>3 DEF Right, Past, AfterUse, At
      <4>5. call[y].row.by = Job(x).ref
        BY <4>1, <4>4 DEF UserOfCode
      <4>6. QED
        BY <3>2, <4>1, <4>4, <4>5 DEF Reads
    <3>3. \/ Right(l) /\ Right(m)
          \/ Reads(l) /\ Right(m)
          \/ Right(l) /\ Reads(m)
      BY <2>1, <2>3 DEF Moves, Steady
    <3>4. QED
      BY <3>1, <3>2, <3>3
  <2>4. QED
    BY <2>1, <2>2, <2>3 DEF UsersApart
<1>8. QED
  BY <1>1, <1>4, <1>6, <1>7 DEF CodeInv

LEMMA CodeByOne ==
    ASSUME CallsOK, CodeInv, NEW k \in Calls, Only(k), RowsKept, Moves(k),
           \A l \in Calls \ {k} : token'[l] # "none" => token[l] # "none"
    PROVE  CodeInv'
<1>1. ASSUME NEW l \in Calls \ {k}
      PROVE  Steady(l)
  <2>1. call'[l] = call[l] /\ (token'[l] # "none" => token[l] # "none")
    BY DEF Only
  <2>2. QED
    BY <2>1 DEF Steady, At, Job, Right, Past, Made, AfterUse
<1>2. \A l \in Calls : Moves(l)
  BY <1>1 DEF Steady, Moves
<1>3. QED
  BY <1>1, <1>2, CodeKept

\* A call that brings no code uses none.
LEMMA NoUser ==
    ASSUME NEW k \in Calls, Only(k), call[k].pc # "done", Job(k).op \notin Verifies
    PROVE  Moves(k)
BY DEF Moves, Only, At, Right, Past, Made, AfterUse, Job, Verifies

\* One contact's rows change, or none do.
LEMMA RowsChanged ==
    ASSUME CodeInv, NEW c \in Contacts, NEW s \in Seq(CodeRow), codes' = [codes EXCEPT ![c] = s],
           Calls' = Calls, account \subseteq account', twins \subseteq twins', UNCHANGED token,
           \A i \in DOMAIN s :
                \/ \E j \in DOMAIN codes[c] : codes[c][j].by = s[i].by /\ codes[c][j].for = s[i].for
                \/ /\ s[i].by \in Calls /\ Who(s[i].by) = c /\ s[i].for = UseOf(s[i].by)
                   /\ call[s[i].by].pc # "done" /\ call'[s[i].by].pc = "done"
    PROVE  RowsKept
<1>1. CodeRowsOK
  BY DEF CodeInv
<1>2. codes' = [d \in Contacts |-> codes'[d]] /\ \A d \in Contacts : codes'[d] = IF d = c THEN s ELSE codes[d]
  BY <1>1 DEF CodeRowsOK
<1>3. \A d \in Contacts : codes[d] \in Seq(CodeRow)
  BY <1>1 DEF CodeRowsOK
<1>4. token' = [k \in Calls |-> token'[k]]
  BY <1>1 DEF CodeRowsOK
<1>5. QED
  BY <1>2, <1>3, <1>4 DEF RowsKept

LEMMA RowsSame ==
    ASSUME CodeInv, codes' = codes, Calls' = Calls, account \subseteq account',
           twins \subseteq twins', token' = [k \in Calls |-> token'[k]]
    PROVE  RowsKept
BY DEF CodeInv, CodeRowsOK, RowsKept

\* What sends a code: a row is sent once, by a call that is through then.
LEMMA CodeSent ==
    ASSUME CallsOK, CodeInv, NEW k \in Calls,
           \/ Register(k) \/ ClearPending(k) \/ StoreEmailCode(k)
           \/ RequestPhoneOtp(k) \/ CoolDown(k) \/ StorePhoneCode(k)
    PROVE  CodeInv'
<1>1. /\ \A where : To(k, where) => Only(k)
      /\ Finish(k) => Only(k) /\ call'[k].pc = "done"
  BY ToOnly, FinishOnly
<1>2. /\ Only(k) /\ call[k].pc # "done" /\ Job(k).op \in {"sendRegister", "sendLogin"}
      /\ UNCHANGED <<token, account, twins>>
  <2>. USE DEF At, MayStart, trail, users, tokens
  <2>1. CASE Register(k) \/ ClearPending(k) \/ StoreEmailCode(k)
    BY <1>1, <2>1 DEF Register, ClearPending, StoreEmailCode
  <2>2. CASE RequestPhoneOtp(k) \/ CoolDown(k) \/ StorePhoneCode(k)
    BY <1>1, <2>2 DEF RequestPhoneOtp, CoolDown, StorePhoneCode
  <2>3. QED
    BY <2>1, <2>2
<1>3. Moves(k)
  BY <1>2, NoUser DEF Verifies
<1>4. /\ Who(k) \in Contacts /\ codes[Who(k)] \in Seq(CodeRow)
      /\ Calls' = Calls /\ token' = [l \in Calls |-> token'[l]]
  BY <1>2 DEF CodeInv, UserOfCode, CodeRowsOK, Only
<1>5. RowsKept
  <2>1. CASE Register(k) \/ RequestPhoneOtp(k) \/ CoolDown(k)
    <3>1. codes' = codes
      BY <2>1 DEF Register, RequestPhoneOtp, CoolDown, otps
    <3>2. QED
      BY <1>2, <1>4, <3>1, RowsSame
  <2>2. CASE ClearPending(k)
    <3>1. <<>> \in Seq(CodeRow) /\ codes' = [codes EXCEPT ![Who(k)] = <<>>] /\ DOMAIN <<>> = {}
      BY <2>2 DEF ClearPending
    <3>2. QED
      BY <1>2, <1>4, <3>1, RowsChanged
  <2>3. ASSUME NEW use \in Verifies, use = UseOf(k), call'[k].pc = "done",
               NEW s, s = <<Row(k, use)>> \/ s = Append(codes[Who(k)], Row(k, use)),
               codes' = [codes EXCEPT ![Who(k)] = s]
        PROVE  RowsKept
    <3>1. Row(k, use) \in CodeRow /\ Row(k, use).by = k /\ Row(k, use).for = use
      BY DEF Row, CodeRow
    <3>2. /\ s \in Seq(CodeRow)
          /\ \A i \in DOMAIN s : \/ s[i] = Row(k, use)
                                 \/ i \in DOMAIN codes[Who(k)] /\ s[i] = codes[Who(k)][i]
      <4>. HIDE DEF Row, CodeRow
      <4>1. CASE s = <<Row(k, use)>>
        BY <3>1, <4>1
      <4>2. CASE s = Append(codes[Who(k)], Row(k, use))
        BY <1>4, <3>1, <4>2, AppendProperties, LenProperties
      <4>3. QED
        BY <2>3, <4>1, <4>2
    <3>3. \A i \in DOMAIN s :
                \/ \E j \in DOMAIN codes[Who(k)] :
                        codes[Who(k)][j].by = s[i].by /\ codes[Who(k)][j].for = s[i].for
                \/ /\ s[i].by \in Calls /\ Who(s[i].by) = Who(k) /\ s[i].for = UseOf(s[i].by)
                   /\ call[s[i].by].pc # "done" /\ call'[s[i].by].pc = "done"
      BY <1>2, <2>3, <3>1, <3>2
    <3>4. QED
      BY <1>2, <1>4, <2>3, <3>2, <3>3, RowsChanged
  <2>4. CASE StoreEmailCode(k)
    <3>1. Job(k).op = "sendRegister" /\ call'[k].pc = "done"
      BY <1>1, <2>4 DEF StoreEmailCode, At
    <3>2. QED
      BY <2>3, <2>4, <3>1 DEF StoreEmailCode, UseOf, Verifies
  <2>5. CASE StorePhoneCode(k)
    <3>1. call'[k].pc = "done"
      BY <1>1, <2>5 DEF StorePhoneCode
    <3>2. QED
      BY <2>3, <2>5, <3>1 DEF StorePhoneCode, UseOf, Verifies
  <2>6. QED
    BY <2>1, <2>2, <2>4, <2>5
<1>6. QED
  BY <1>2, <1>3, <1>5, CodeByOne

\* Deleting, counting and locking change no row's sender or use.
LEMMA RowsFewer ==
    ASSUME CodeInv, NEW c \in Contacts, NEW places
    PROVE  /\ Staying(codes[c], places) \in Seq(CodeRow)
           /\ \A i \in DOMAIN Staying(codes[c], places) :
                \E j \in DOMAIN codes[c] : codes[c][j] = Staying(codes[c], places)[i]
<1>1. codes[c] \in Seq(CodeRow)
  BY DEF CodeInv, CodeRowsOK
<1>2. QED
  BY <1>1, StayingRows

LEMMA WithoutRows ==
    ASSUME CodeInv, NEW k \in Calls
    PROVE  /\ Who(k) \in Contacts /\ Without(k) \in Seq(CodeRow)
           /\ \A i \in DOMAIN Without(k) :
                \E j \in DOMAIN codes[Who(k)] : codes[Who(k)][j] = Without(k)[i]
<1>1. Who(k) \in Contacts
  BY DEF CodeInv, UserOfCode
<1>2. CASE Who(k) \in Phones
  BY <1>1, <1>2 DEF Without
<1>3. CASE Who(k) \notin Phones
  BY <1>1, <1>3, RowsFewer DEF Without
<1>4. QED
  BY <1>2, <1>3

\* A row tried once more, locked, unlocked or lapsed, or left as it is.
Marked(r) ==
    {r, Tried(r)} \cup {[r EXCEPT !.locked = b] : b \in BOOLEAN} \cup {[r EXCEPT !.fresh = b] : b \in BOOLEAN}

Marking(s, was) == s = [i \in DOMAIN was |-> s[i]] /\ \A i \in DOMAIN was : s[i] \in Marked(was[i])

LEMMA RowsMarked ==
    ASSUME CodeInv, NEW c \in Contacts, NEW s, Marking(s, codes[c])
    PROVE  /\ s \in Seq(CodeRow)
           /\ \A i \in DOMAIN s :
                \E j \in DOMAIN codes[c] : codes[c][j].by = s[i].by /\ codes[c][j].for = s[i].for
<1>0. \A i \in DOMAIN codes[c] :
        \/ s[i] = codes[c][i] \/ s[i] = Tried(codes[c][i])
        \/ \E b \in BOOLEAN : s[i] \in {[codes[c][i] EXCEPT !.locked = b], [codes[c][i] EXCEPT !.fresh = b]}
  BY DEF Marking, Marked
<1>1. codes[c] \in Seq(CodeRow)
  BY DEF CodeInv, CodeRowsOK
<1>2. Len(codes[c]) \in Nat /\ DOMAIN codes[c] = 1..Len(codes[c])
  BY <1>1, LenProperties
<1>3. \A i \in DOMAIN codes[c] :
        s[i] \in CodeRow /\ codes[c][i].by = s[i].by /\ codes[c][i].for = s[i].for
  <2>1. \A i \in DOMAIN codes[c] : codes[c][i] \in CodeRow
    BY <1>1, <1>2, ElementOfSeq
  <2>2. ASSUME NEW r \in CodeRow
        PROVE  /\ Tried(r) \in CodeRow /\ Tried(r).by = r.by /\ Tried(r).for = r.for
               /\ \A b \in BOOLEAN : \A m : m \in {[r EXCEPT !.locked = b], [r EXCEPT !.fresh = b]} =>
                        m \in CodeRow /\ m.by = r.by /\ m.for = r.for
    <3>1. /\ r.by \in Calls /\ r.for \in Verifies /\ r.tries \in Nat
          /\ r.fresh \in BOOLEAN /\ r.locked \in BOOLEAN
          /\ r = [by |-> r.by, for |-> r.for, tries |-> r.tries, fresh |-> r.fresh, locked |-> r.locked]
      BY DEF CodeRow
    <3>2. Tried(r) = [by |-> r.by, for |-> r.for, tries |-> r.tries + 1, fresh |-> r.fresh, locked |-> r.locked]
      BY <3>1 DEF Tried
    <3>3. ASSUME NEW b \in BOOLEAN
          PROVE  /\ [r EXCEPT !.locked = b] =
                        [by |-> r.by, for |-> r.for, tries |-> r.tries, fresh |-> r.fresh, locked |-> b]
                 /\ [r EXCEPT !.fresh = b] =
                        [by |-> r.by, for |-> r.for, tries |-> r.tries, fresh |-> b, locked |-> r.locked]
      BY <3>1
    <3>5. r.tries + 1 \in Nat
      BY <3>1
    <3>6. ASSUME NEW n \in Nat, NEW f \in BOOLEAN, NEW b \in BOOLEAN
          PROVE  [by |-> r.by, for |-> r.for, tries |-> n, fresh |-> f, locked |-> b] \in CodeRow
      BY <3>1 DEF CodeRow
    <3>. HIDE DEF CodeRow
    <3>7. Tried(r) \in CodeRow /\ Tried(r).by = r.by /\ Tried(r).for = r.for
      BY <3>1, <3>2, <3>5, <3>6
    <3>8. ASSUME NEW b \in BOOLEAN, NEW m, m = [r EXCEPT !.locked = b] \/ m = [r EXCEPT !.fresh = b]
          PROVE  m \in CodeRow /\ m.by = r.by /\ m.for = r.for
      <4>1. \/ m = [by |-> r.by, for |-> r.for, tries |-> r.tries, fresh |-> r.fresh, locked |-> b]
            \/ m = [by |-> r.by, for |-> r.for, tries |-> r.tries, fresh |-> b, locked |-> r.locked]
        BY <3>3, <3>8
      <4>2. QED
        BY <3>1, <3>6, <4>1
    <3>9. QED
      BY <3>7, <3>8
  <2>. HIDE DEF CodeRow
  <2>3. ASSUME NEW i \in DOMAIN codes[c]
        PROVE  s[i] \in CodeRow /\ codes[c][i].by = s[i].by /\ codes[c][i].for = s[i].for
    <3>1. codes[c][i] \in CodeRow
      BY <2>1
    <3>2. CASE s[i] = codes[c][i] \/ s[i] = Tried(codes[c][i])
      BY <2>2, <3>1, <3>2
    <3>3. CASE \E b \in BOOLEAN : s[i] \in {[codes[c][i] EXCEPT !.locked = b], [codes[c][i] EXCEPT !.fresh = b]}
      <4>1. PICK b \in BOOLEAN : s[i] \in {[codes[c][i] EXCEPT !.locked = b], [codes[c][i] EXCEPT !.fresh = b]}
        BY <3>3
      <4>2. QED
        BY <2>2, <3>1, <4>1
    <3>4. QED
      BY <1>0, <3>2, <3>3
  <2>4. QED
    BY <2>3
<1>4. s \in [1..Len(codes[c]) -> CodeRow] /\ DOMAIN s = DOMAIN codes[c]
  BY <1>2, <1>3 DEF Marking
<1>5. s \in Seq(CodeRow)
  BY <1>2, <1>4
<1>6. QED
  BY <1>3, <1>4, <1>5

\* Reading a code: the row read is the latest, and whoever is using it as well
\* is known.
LEMMA CodeRead ==
    ASSUME CallsOK, CodeInv, NEW k \in Calls, LoadVerify(k) \/ ReadEmailCode(k) \/ ReadPhoneCode(k)
    PROVE  CodeInv'
<1>. DEFINE newest == Latest(Who(k))
<1>1. /\ Job(k).op \in Verifies /\ call[k].pc \in {"idle", "checked"}
      /\ UNCHANGED <<codes, token, account>>
      /\ \/ To(k, "checked") /\ UNCHANGED twins
         \/ Finish(k) /\ UNCHANGED twins
         \/ /\ \E spent \in BOOLEAN : Judge(k, newest, spent)
            /\ codes[Who(k)] # <<>> /\ Fits(k, newest.for)
  <2>. USE DEF MayStart, At, users, otps, tokens, trail
  <2>1. CASE LoadVerify(k)
    BY <2>1 DEF LoadVerify, Verifies
  <2>2. CASE ReadEmailCode(k)
    BY <2>2 DEF ReadEmailCode, Verifies, Fits
  <2>3. CASE ReadPhoneCode(k)
    BY <2>3 DEF ReadPhoneCode, Verifies, Fits
  <2>4. QED
    BY <2>1, <2>2, <2>3
<1>2. CASE UNCHANGED twins /\ (To(k, "checked") \/ Finish(k))
  <2>1. Only(k) /\ call'[k].pc \in {"checked", "done"}
    BY <1>2, ToOnly, FinishOnly
  <2>2. Moves(k)
    BY <1>1, <2>1 DEF Moves, Only, At, Right, Past, Made, AfterUse, Job
  <2>3. RowsKept
    BY <1>1, <1>2, <2>1, RowsSame DEF Only, CodeInv, CodeRowsOK
  <2>4. QED
    BY <1>1, <2>1, <2>2, <2>3, CodeByOne
<1>3. ASSUME NEW spent \in BOOLEAN, Judge(k, newest, spent), codes[Who(k)] # <<>>, Fits(k, newest.for)
      PROVE  CodeInv'
  <2>. DEFINE others == {l \in Calls \ {k} : call[l].pc = "right" /\ call[l].row.by = newest.by}
              right == ~spent /\ newest.by = Job(k).ref
              where == IF spent THEN "stale" ELSE IF right THEN "right" ELSE "wrong"
  <2>1. /\ call' = [call EXCEPT ![k].row = newest, ![k].pc = where]
        /\ twins' = IF right /\ others # {} THEN twins \cup others \cup {k} ELSE twins
    BY <1>3 DEF Judge
  <2>2. Only(k) /\ call'[k].pc = where /\ call'[k].row = newest
    <3>1. ASSUME NEW w, NEW r, call' = [call EXCEPT ![k].row = r, ![k].pc = w]
          PROVE  Only(k) /\ call'[k].pc = w /\ call'[k].row = r
      BY <3>1, RowOnly
    <3>. HIDE DEF where, newest
    <3>2. QED
      BY <2>1, <3>1
  <2>3. \E i \in DOMAIN codes[Who(k)] : codes[Who(k)][i] = newest
    <3>1. codes[Who(k)] \in Seq(CodeRow)
      BY DEF CodeInv, CodeRowsOK, UserOfCode
    <3>2. Len(codes[Who(k)]) \in DOMAIN codes[Who(k)]
      BY <1>3, <3>1, EmptySeq, LenProperties
    <3>3. QED
      BY <3>2 DEF Latest, Last
  <2>4. where = "right" => Reads(k)
    <3>1. SUFFICES ASSUME where = "right"
                   PROVE  Reads(k)
      OBVIOUS
    <3>2. right
      BY <3>1
    <3>3. \A l \in Calls \ {k} :
            At(l, "right", Verifies) /\ call[l].row.by = Job(k).ref => {k, l} \subseteq twins'
      BY <2>1, <3>2 DEF At
    <3>4. At(k, "right", Verifies)' /\ call'[k].row.by = Job(k).ref
      BY <1>1, <2>2, <3>1, <3>2 DEF At, Job, Only
    <3>5. QED
      BY <1>3, <2>3, <3>2, <3>3, <3>4 DEF Reads
  <2>5. where \in {"stale", "right", "wrong"} /\ twins \subseteq twins'
    BY <2>1
  <2>. HIDE DEF where
  <2>6. Moves(k)
    BY <1>1, <2>2, <2>4, <2>5 DEF Moves, Only, At, Right, Past, Made, AfterUse, Job
  <2>7. RowsKept
    BY <1>1, <2>2, <2>5, RowsSame DEF Only, CodeInv, CodeRowsOK
  <2>8. QED
    BY <1>1, <2>2, <2>6, <2>7, CodeByOne
<1>4. QED
  BY <1>1, <1>2, <1>3

\* Using it.
LEMMA CodeUsed ==
    ASSUME CallsOK, CodeInv, NEW k \in Calls,
           RemoveStale(k) \/ CountEmailTry(k) \/ CountPhoneTry(k) \/ LockOut(k) \/ TakeCode(k)
    PROVE  CodeInv'
<1>1. /\ \A where : To(k, where) => Only(k) /\ call'[k].pc = where
      /\ Finish(k) => Only(k) /\ call'[k].pc = "done"
  BY ToOnly, FinishOnly
<1>2. /\ Only(k) /\ Job(k).op \in Verifies /\ UNCHANGED <<token, account, twins>>
      /\ call[k].pc # "done" /\ call'[k].pc \in {"done", "locking", "taken"}
      /\ call'[k].pc = "taken" =>
            call[k].pc = "right" /\ codes' = [codes EXCEPT ![Who(k)] = <<>>]
  <2>. USE DEF At, users, tokens, trail, Verifies
  <2>1. CASE RemoveStale(k) \/ CountEmailTry(k) \/ LockOut(k)
    BY <1>1, <2>1 DEF RemoveStale, CountEmailTry, LockOut
  <2>2. CASE CountPhoneTry(k) \/ TakeCode(k)
    BY <1>1, <2>2 DEF CountPhoneTry, TakeCode, Without
  <2>3. QED
    BY <2>1, <2>2
<1>3. Who(k) \in Contacts /\ codes = [c \in Contacts |-> codes[c]]
  BY DEF CodeInv, UserOfCode, CodeRowsOK
<1>4. Moves(k)
  <2>1. call'[k].pc = "taken" => codes'[Who(k)] = <<>> /\ Right(k)
    BY <1>2, <1>3 DEF Right, AfterUse
  <2>2. QED
    BY <1>2, <2>1 DEF Moves, Only, At, Right, Past, Made, AfterUse, Job
<1>5. \E s \in Seq(CodeRow) :
        /\ codes' = [codes EXCEPT ![Who(k)] = s]
        /\ \A i \in DOMAIN s : \E j \in DOMAIN codes[Who(k)] :
                codes[Who(k)][j].by = s[i].by /\ codes[Who(k)][j].for = s[i].for
  <2>1. CASE RemoveStale(k) \/ TakeCode(k)
    BY <2>1, WithoutRows DEF RemoveStale, TakeCode
  <2>. DEFINE sent == codes[Who(k)]
  <2>2. CASE CountEmailTry(k)
    <3>. DEFINE s == [i \in DOMAIN sent |-> IF sent[i].by = call[k].row.by THEN Tried(sent[i]) ELSE sent[i]]
    <3>1. codes' = [codes EXCEPT ![Who(k)] = s]
      BY <1>3, <2>2 DEF CountEmailTry
    <3>2. /\ s = [i \in DOMAIN sent |-> s[i]]
          /\ \A i \in DOMAIN sent : s[i] = IF sent[i].by = call[k].row.by THEN Tried(sent[i]) ELSE sent[i]
      OBVIOUS
    <3>. HIDE DEF s
    <3>3. /\ s \in Seq(CodeRow)
          /\ \A i \in DOMAIN s :
                \E j \in DOMAIN sent : sent[j].by = s[i].by /\ sent[j].for = s[i].for
      <4>1. Marking(s, codes[Who(k)])
        BY <3>2 DEF Marking, Marked
      <4>2. QED
        BY <1>3, <4>1, RowsMarked
    <3>4. QED
      BY <3>1, <3>3
  <2>3. CASE CountPhoneTry(k)
    <3>. DEFINE s == [i \in DOMAIN sent |-> Tried(sent[i])]
    <3>1. codes' = [codes EXCEPT ![Who(k)] = s]
      BY <2>3 DEF CountPhoneTry
    <3>2. /\ s = [i \in DOMAIN sent |-> s[i]]
          /\ \A i \in DOMAIN sent : s[i] = Tried(sent[i])
      OBVIOUS
    <3>. HIDE DEF s
    <3>3. /\ s \in Seq(CodeRow)
          /\ \A i \in DOMAIN s :
                \E j \in DOMAIN sent : sent[j].by = s[i].by /\ sent[j].for = s[i].for
      <4>1. Marking(s, codes[Who(k)])
        BY <3>2 DEF Marking, Marked
      <4>2. QED
        BY <1>3, <4>1, RowsMarked
    <3>4. QED
      BY <3>1, <3>3
  <2>4. CASE LockOut(k)
    <3>. DEFINE s == [i \in DOMAIN sent |-> [sent[i] EXCEPT !.locked = TRUE]]
    <3>1. codes' = [codes EXCEPT ![Who(k)] = s]
      BY <1>3, <2>4 DEF LockOut
    <3>2. /\ s = [i \in DOMAIN sent |-> s[i]]
          /\ \A i \in DOMAIN sent : s[i] = [sent[i] EXCEPT !.locked = TRUE]
      OBVIOUS
    <3>. HIDE DEF s
    <3>3. /\ s \in Seq(CodeRow)
          /\ \A i \in DOMAIN s :
                \E j \in DOMAIN sent : sent[j].by = s[i].by /\ sent[j].for = s[i].for
      <4>1. Marking(s, codes[Who(k)])
        BY <3>2 DEF Marking, Marked
      <4>2. QED
        BY <1>3, <4>1, RowsMarked
    <3>4. QED
      BY <3>1, <3>3
  <2>5. QED
    BY <2>1, <2>2, <2>3, <2>4
<1>6. RowsKept
  BY <1>2, <1>3, <1>5, RowsChanged DEF Only
<1>7. QED
  BY <1>2, <1>4, <1>6, CodeByOne

\* What it opens: an account once, and the end of the code by email.
LEMMA CodeMade ==
    ASSUME CallsOK, CodeInv, NEW k \in Calls,
           \/ CheckUnregistered(k) \/ LoadPhoneUser(k) \/ CreateEmailUser(k)
           \/ CreatePhoneUser(k) \/ DropCode(k) \/ GrantSignupBonus(k)
    PROVE  CodeInv'
<1>1. /\ \A where : To(k, where) => Only(k) /\ call'[k].pc = where
      /\ Finish(k) => Only(k) /\ call'[k].pc = "done"
  BY ToOnly, FinishOnly
<1>2. /\ Only(k) /\ UNCHANGED <<token, twins>> /\ account \subseteq account'
      /\ Job(k).op \in Verifies /\ call[k].pc # "done"
      /\ codes' = codes \/ codes' = [codes EXCEPT ![Who(k)] = Without(k)]
      /\ Moves(k)
  <2>. USE DEF At, users, otps, tokens, trail, Verifies
  <2>1. CASE CheckUnregistered(k) \/ LoadPhoneUser(k) \/ GrantSignupBonus(k)
    <3>1. /\ Only(k) /\ UNCHANGED <<codes, token, twins, account>>
          /\ \/ Job(k).op = "verifyRegister" /\ call[k].pc = "taken" /\ call'[k].pc \in {"done", "new"}
             \/ Job(k).op = "verifyLogin" /\ call[k].pc = "taken" /\ call'[k].pc \in {"done", "issue"}
             \/ Job(k).op \in Verifies /\ call[k].pc = "bonus" /\ call'[k].pc = "issue"
      BY <1>1, <2>1 DEF CheckUnregistered, LoadPhoneUser, GrantSignupBonus
    <3>2. Moves(k)
      BY <3>1 DEF Moves, Only, Right, Past, Made, AfterUse, Job
    <3>3. QED
      BY <3>1, <3>2
  <2>2. CASE DropCode(k)
    <3>1. /\ Only(k) /\ UNCHANGED <<token, twins, account>> /\ Job(k).op \in Verifies
          /\ call[k].pc = "created" /\ call'[k].pc \in {"done", "bonus"}
          /\ codes' = [codes EXCEPT ![Who(k)] = Without(k)]
      BY <1>1, <2>2 DEF DropCode
    <3>2. Moves(k)
      BY <3>1 DEF Moves, Only, Right, Past, Made, AfterUse, Job
    <3>3. QED
      BY <3>1, <3>2
  <2>3. CASE CreateEmailUser(k) \/ CreatePhoneUser(k)
    <3>1. /\ Only(k) /\ UNCHANGED <<codes, token, twins>> /\ Job(k).op = "verifyRegister"
          /\ call[k].pc \in {"right", "new"} /\ account \subseteq account'
          /\ \/ call'[k].pc = "done"
             \/ call'[k].pc \in {"created", "bonus"} /\ Who(k) \notin account /\ Who(k) \in account'
      BY <1>1, <2>3 DEF CreateEmailUser, CreatePhoneUser, NewAccount
    <3>2. Moves(k)
      BY <3>1 DEF Moves, Only, Right, Past, Made, AfterUse, Job
    <3>3. QED
      BY <3>1, <3>2
  <2>4. QED
    BY <2>1, <2>2, <2>3
<1>3. Calls' = Calls /\ token' = [l \in Calls |-> token'[l]]
  BY <1>2 DEF Only, CodeInv, CodeRowsOK
<1>4. RowsKept
  <2>1. CASE codes' = codes
    BY <1>2, <1>3, <2>1, RowsSame
  <2>2. CASE codes' = [codes EXCEPT ![Who(k)] = Without(k)]
    <3>1. /\ Who(k) \in Contacts /\ Without(k) \in Seq(CodeRow)
          /\ \A i \in DOMAIN Without(k) :
                \E j \in DOMAIN codes[Who(k)] : codes[Who(k)][j] = Without(k)[i]
      BY WithoutRows
    <3>2. \A i \in DOMAIN Without(k) : \E j \in DOMAIN codes[Who(k)] :
            codes[Who(k)][j].by = Without(k)[i].by /\ codes[Who(k)][j].for = Without(k)[i].for
      BY <3>1
    <3>3. QED
      BY <1>2, <1>3, <2>2, <3>1, <3>2, RowsChanged
  <2>3. QED
    BY <1>2, <2>1, <2>2
<1>5. QED
  BY <1>2, <1>4, CodeByOne

\* The calls that bring no code; the sweep takes the codes that have lapsed.
LEMMA CodeBeside ==
    ASSUME CallsOK, CodeInv, NEW k \in Calls,
           \/ LoadLogin(k) \/ LoadToken(k) \/ RevokeFamily(k) \/ CheckUser(k) \/ CreateHeir(k)
           \/ MarkRotated(k) \/ LoadLogout(k) \/ Logout(k) \/ LoadUser(k) \/ ToggleBlock(k)
           \/ SuspendUser(k) \/ KillSessions(k) \/ PurgeExpired(k) \/ FindLapsed(k) \/ Reactivate(k)
    PROVE  CodeInv'
<1>1. /\ \A where : To(k, where) => Only(k)
      /\ Finish(k) => Only(k)
      /\ \A where, value : call' = [call EXCEPT ![k].pc = where, ![k].saw = value] => Only(k)
  BY ToOnly, FinishOnly, SawOnly
<1>2. token = [l \in Calls |-> token[l]]
  BY DEF CodeInv, CodeRowsOK
<1>3. \A T : /\ Revoked(T) = [l \in Calls |-> Revoked(T)[l]]
             /\ \A l \in Calls : Revoked(T)[l] # "none" => token[l] # "none"
  BY DEF Revoked
<1>4. /\ Only(k) /\ call[k].pc # "done" /\ Job(k).op \notin Verifies /\ UNCHANGED <<account, twins>>
      /\ PurgeExpired(k) \/ codes' = codes
      /\ token' = [l \in Calls |-> token'[l]]
      /\ \A l \in Calls \ {k} : token'[l] # "none" => token[l] # "none"
  <2>. USE DEF At, MayStart, users, otps, tokens, trail, Verifies, Closes
  <2>1. CASE LoadLogin(k) \/ LoadToken(k) \/ CheckUser(k) \/ LoadLogout(k)
    BY <1>1, <1>2, <2>1 DEF LoadLogin, LoadToken, CheckUser, LoadLogout
  <2>2. CASE RevokeFamily(k) \/ MarkRotated(k) \/ Logout(k) \/ KillSessions(k)
    BY <1>1, <1>3, <2>2 DEF RevokeFamily, MarkRotated, Logout, KillSessions
  <2>3. CASE CreateHeir(k)
    <3>1. token' = [token EXCEPT ![k] = "live"]
      BY <2>3 DEF CreateHeir
    <3>2. /\ token' = [l \in Calls |-> token'[l]]
          /\ \A l \in Calls \ {k} : token'[l] = token[l]
      BY <1>2, <3>1
    <3>3. QED
      BY <1>1, <2>3, <3>2 DEF CreateHeir
  <2>4. CASE LoadUser(k) \/ ToggleBlock(k) \/ SuspendUser(k) \/ FindLapsed(k) \/ Reactivate(k)
    BY <1>1, <1>2, <2>4 DEF LoadUser, ToggleBlock, SuspendUser, CloseNow, FindLapsed, Reactivate
  <2>5. CASE PurgeExpired(k)
    BY <1>1, <1>2, <2>5 DEF PurgeExpired
  <2>6. QED
    BY <2>1, <2>2, <2>3, <2>4, <2>5
<1>5. Moves(k)
  BY <1>4, NoUser
<1>6. RowsKept
  <2>1. CASE codes' = codes
    BY <1>4, <2>1, RowsSame DEF Only
  <2>2. CASE PurgeExpired(k)
    <3>1. codes' = [c \in Contacts |-> Staying(codes[c], {i \in DOMAIN codes[c] : codes[c][i].fresh})]
      BY <2>2 DEF PurgeExpired
    <3>2. \A c \in Contacts :
            /\ codes'[c] \in Seq(CodeRow)
            /\ \A i \in DOMAIN codes'[c] : \E j \in DOMAIN codes[c] : codes[c][j] = codes'[c][i]
      <4>1. ASSUME NEW c \in Contacts
            PROVE  /\ codes'[c] \in Seq(CodeRow)
                   /\ \A i \in DOMAIN codes'[c] : \E j \in DOMAIN codes[c] : codes[c][j] = codes'[c][i]
        <5>1. PICK places : codes'[c] = Staying(codes[c], places)
          BY <3>1
        <5>2. /\ Staying(codes[c], places) \in Seq(CodeRow)
              /\ \A i \in DOMAIN Staying(codes[c], places) :
                    \E j \in DOMAIN codes[c] : codes[c][j] = Staying(codes[c], places)[i]
          BY RowsFewer
        <5>3. QED
          BY <5>1, <5>2
      <4>2. QED
        BY <4>1
    <3>3. codes' = [c \in Contacts |-> codes'[c]]
      BY <3>1
    <3>4. QED
      BY <1>4, <3>2, <3>3 DEF RowsKept, Only
  <2>3. QED
    BY <1>4, <2>1, <2>2
<1>7. QED
  BY <1>4, <1>5, <1>6, CodeByOne

LEMMA CodeIssued ==
    ASSUME CallsOK, CodeInv, NEW k \in Calls, IssueSession(k) \/ Cut(k)
    PROVE  CodeInv'
<1>1. /\ Only(k) /\ call'[k].pc = "done" /\ call[k].pc # "done"
      /\ UNCHANGED <<codes, account, twins>>
  BY FinishOnly DEF IssueSession, Cut, At, Running, users, otps, trail
<1>2. /\ token' = [l \in Calls |-> token'[l]]
      /\ \A l \in Calls \ {k} : token'[l] = token[l]
      /\ token'[k] = token[k] \/ At(k, "issue", Verifies \cup {"login"})
  BY DEF IssueSession, Cut, tokens, CodeInv, CodeRowsOK
<1>3. Moves(k)
  BY <1>1, <1>2 DEF Moves, Only, At, Right, Past, Made, AfterUse, Job, Verifies
<1>4. RowsKept
  BY <1>1, <1>2, RowsSame DEF Only
<1>5. QED
  BY <1>1, <1>2, <1>3, <1>4, CodeByOne

LEMMA CodeWeather ==
    ASSUME CodeInv, NEW c \in Contacts,
           Cool(c) \/ LapseCode(c) \/ Unlock(c) \/ EndSuspension(c) \/ ExpireTokens(c)
    PROVE  CodeInv'
<1>1. UNCHANGED <<call, account, token, twins>>
  BY DEF Cool, LapseCode, Unlock, EndSuspension, ExpireTokens, users, tokens, trail
<1>2. \A l \in Calls : Steady(l) /\ Moves(l)
  BY <1>1 DEF Steady, Moves, At, Right, Past, Made, AfterUse, Job
<1>3. Calls' = Calls /\ token' = [l \in Calls |-> token'[l]]
  BY <1>1 DEF Calls, CodeInv, CodeRowsOK
<1>4. RowsKept
  <2>1. CASE Cool(c) \/ EndSuspension(c) \/ ExpireTokens(c)
    <3>1. codes' = codes
      BY <2>1 DEF Cool, EndSuspension, ExpireTokens, otps
    <3>2. QED
      BY <1>1, <1>3, <3>1, RowsSame
  <2>. DEFINE was == codes[c]
  <2>2. CASE LapseCode(c) \/ Unlock(c)
    <3>1. PICK s : Marking(s, was) /\ codes' = [codes EXCEPT ![c] = s]
      <4>. DEFINE lapsed == [i \in DOMAIN was |-> [was[i] EXCEPT !.fresh = FALSE]]
                  opened == [i \in DOMAIN was |-> [was[i] EXCEPT !.locked = FALSE]]
      <4>1. Marking(lapsed, was) /\ Marking(opened, was)
        BY DEF Marking, Marked
      <4>2. codes = [d \in Contacts |-> codes[d]]
        BY DEF CodeInv, CodeRowsOK
      <4>3. codes' = [codes EXCEPT ![c] = lapsed] \/ codes' = [codes EXCEPT ![c] = opened]
        BY <2>2, <4>2 DEF LapseCode, Unlock
      <4>. HIDE DEF lapsed, opened
      <4>4. QED
        BY <4>1, <4>3
    <3>2. Marking(s, codes[c])
      BY <3>1
    <3>3. /\ s \in Seq(CodeRow)
          /\ \A i \in DOMAIN s :
                \E j \in DOMAIN codes[c] : codes[c][j].by = s[i].by /\ codes[c][j].for = s[i].for
      BY <3>2, RowsMarked
    <3>4. QED
      BY <1>1, <1>3, <3>1, <3>3, RowsChanged
  <2>3. QED
    BY <2>1, <2>2
<1>5. QED
  BY <1>2, <1>4, CodeKept

LEMMA CodeNext ==
    ASSUME CallsOK, CodeInv, [Next]_vars
    PROVE  CodeInv'
<1>1. ASSUME NEW k \in Calls, AccountAction(k)
      PROVE  CodeInv'
  BY <1>1, CodeSent, CodeRead, CodeUsed, CodeMade, CodeBeside, CodeIssued DEF AccountAction, Unissued
<1>2. ASSUME NEW ops, ops \cap AccountOps = {}, Exact(ops), UNCHANGED rest
      PROVE  CodeInv'
  <2>1. /\ Calls' = Calls /\ UNCHANGED <<codes, token, account, twins>>
        /\ \A l \in Calls : call'[l].job = call[l].job
        /\ \A l \in Calls : Job(l).op \in AccountOps => call'[l] = call[l]
        /\ \A l \in Calls : call[l].pc = "done" => call'[l] = call[l]
    BY <1>2, AccountsIdle DEF rest, users, otps, tokens, trail
  <2>2. ASSUME NEW l \in Calls
        PROVE  Steady(l) /\ Moves(l)
    <3>1. Job(l).op \in Verifies => call'[l] = call[l]
      BY <2>1 DEF Verifies, AccountOps
    <3>2. QED
      BY <2>1, <3>1 DEF Steady, Moves, At, Right, Past, Made, AfterUse, Job
  <2>3. RowsKept
    BY <2>1, RowsSame DEF CodeInv, CodeRowsOK
  <2>4. QED
    BY <2>2, <2>3, CodeKept
<1>3. QED
  BY <1>1, <1>2, CodeWeather, BesideAccounts, AccountActions

\* What a code rests on: a row names the call that sent it and what for, a
\* code read as right is the one the call brought, no row has it again once a
\* login has deleted it, and a sign-up past it has the account, alone.
THEOREM CodeInvariance == Spec => []CodeInv
<1>1. Init => CodeInv
  BY CodeStart
<1>2. CallsOK /\ CodeInv /\ [Next]_vars => CodeInv'
  BY CodeNext
<1>3. QED
  BY <1>1, <1>2, CallsInvariance, PTL DEF Spec

\* A code opens one session (authService, phoneOtpService.verifyPhoneOtpCode):
\* two sessions with one code were logins by phone that had both read it before
\* either of them deleted it.
THEOREM OneCodeOneSession == Spec => []OneSessionACode
<1>1. CodeInv => OneSessionACode
  <2>1. SUFFICES ASSUME CodeInv, NEW k \in Calls, NEW l \in Calls, k # l,
                        Job(k).op \in Verifies, Job(l).op \in Verifies, Job(k).ref = Job(l).ref,
                        token[k] # "none", token[l] # "none"
                 PROVE  Job(k).op = "verifyLogin" /\ {k, l} \subseteq twins
    BY DEF OneSessionACode
  <2>2. Right(k) /\ Right(l)
    BY <2>1 DEF Right, AfterUse
  <2>3. UserOfCode(k) /\ UserOfCode(l) /\ UsersApart(k, l)
    BY <2>1 DEF CodeInv
  <2>4. Who(k) = Who(l)
    BY <2>1, <2>2, <2>3 DEF UserOfCode, Sent
  <2>5. Job(k).op = Job(l).op
    BY <2>1, <2>2, <2>3, <2>4 DEF UserOfCode, Fits
  <2>6. Job(k).op = "verifyLogin"
    BY <2>1, <2>3, <2>4, <2>5 DEF Made, AfterUse, UsersApart, Verifies
  <2>7. QED
    BY <2>1, <2>2, <2>3, <2>5, <2>6 DEF UsersApart
<1>2. QED
  BY <1>1, CodeInvariance, PTL

-----------------------------------------------------------------------------
(* Reports: whoever crosses the threshold is flagged.                      *)

\* A report whose writer has yet to count, or to flag.
Counting(k) ==
    At(k, "reported", {"report"}) \/ At(k, "many", {"report"}) \/ At(k, "unflagged", {"report"})

DecisionOK(k) ==
    At(k, "loaded", {"resolve", "dismiss"}) /\ Job(k).ref \in DOMAIN reports
    => reports[Job(k).ref] # "none"

Verdicts == {"RESOLVED", "DISMISSED"}
ReportStates == {"none", "PENDING"} \cup Verdicts

FlagDue ==
    SuspendRecommended /\ ~cleared /\ ~revived /\ torn = {} =>
        isSuspicious \/ \E k \in Calls : Counting(k)

ComplaintInv ==
    /\ reports \in [DOMAIN reports -> ReportStates] /\ IsFiniteSet(DOMAIN reports)
    /\ \A k \in Calls : DecisionOK(k)
    /\ FlagDue

LEMMA ComplaintElsewhere ==
    ASSUME ComplaintInv, NEW ops, ops \cap ReportOps = {}, torn \subseteq torn', UNCHANGED complaints,
           Frame(ops) \/ Exact(ops)
    PROVE  ComplaintInv'
<1>1. Calls' = Calls /\ \A l \in Calls : Job(l)' = Job(l)
  BY SameTold DEF Exact, Frame
<1>. USE DEF complaints
<1>2. ASSUME NEW l \in Calls
      PROVE  DecisionOK(l)'
  <2>1. CASE At(l, "loaded", {"resolve", "dismiss"})'
    <3>1. Job(l).op \notin ops /\ call'[l].pc # "done"
      BY <1>1, <2>1 DEF At, ReportOps
    <3>2. call'[l] = call[l]
      BY <3>1, StillAt
    <3>3. QED
      BY <1>1, <2>1, <3>2 DEF ComplaintInv, DecisionOK, At
  <2>2. QED
    BY <2>1 DEF DecisionOK
<1>3. FlagDue'
  <2>1. SuspendRecommended' = SuspendRecommended
    BY DEF Recent, Counted, SuspendRecommended
  <2>2. ASSUME NEW l \in Calls, Counting(l), torn' = {}
        PROVE  Counting(l)'
    <3>1. Job(l).op \notin ops
      BY <2>2 DEF Counting, At, ReportOps
    <3>2. call'[l] = call[l]
      BY <2>2, <3>1 DEF Frame, Exact, Dropped
    <3>3. QED
      BY <1>1, <2>2, <3>2 DEF Counting, At
  <2>3. QED
    BY <1>1, <2>1, <2>2 DEF ComplaintInv, FlagDue
<1>4. QED
  BY <1>1, <1>2, <1>3 DEF ComplaintInv

\* A step of one call, as far as the others are concerned.
LEMMA ComplaintAfter ==
    ASSUME ComplaintInv, NEW k \in Calls, Only(k),
           reports' \in [DOMAIN reports -> ReportStates],
           \A r \in DOMAIN reports : reports[r] # "none" => reports'[r] # "none",
           DecisionOK(k)', FlagDue'
    PROVE  ComplaintInv'
<1>1. Calls' = Calls /\ (\A l \in Calls : Job(l)' = Job(l)) /\ DOMAIN reports' = DOMAIN reports
  BY SameTold DEF Only
<1>2. ASSUME NEW l \in Calls \ {k}
      PROVE  DecisionOK(l)'
  <2>1. call'[l] = call[l] /\ DecisionOK(l)
    BY DEF Only, ComplaintInv
  <2>2. QED
    BY <1>1, <2>1 DEF DecisionOK, At
<1>3. QED
  BY <1>1, <1>2 DEF ComplaintInv

\* The flag stays due where nothing new is counted.
LEMMA FlagStaysDue ==
    ASSUME ComplaintInv, NEW k \in Calls, Only(k), torn' = torn, SuspendRecommended' => SuspendRecommended,
           cleared' = cleared, revived => revived', isSuspicious => isSuspicious',
           \/ Counting(k) => Counting(k)'
           \/ isSuspicious'
           \/ ~SuspendRecommended
    PROVE  FlagDue'
<1>1. Calls' = Calls /\ \A l \in Calls : Job(l)' = Job(l)
  BY SameTold DEF Only
<1>2. \A l \in Calls \ {k} : Counting(l) => Counting(l)'
  BY <1>1 DEF Only, Counting, At
<1>3. QED
  BY <1>1, <1>2 DEF ComplaintInv, FlagDue

\* A step that touches no report.
LEMMA ComplaintQuiet ==
    ASSUME ComplaintInv, NEW k \in Calls, Only(k), torn' = torn, UNCHANGED <<reports, old, cleared, revived>>,
           isSuspicious => isSuspicious',
           \/ Counting(k) => Counting(k)'
           \/ isSuspicious'
           \/ ~SuspendRecommended,
           DecisionOK(k)'
    PROVE  ComplaintInv'
<1>1. SuspendRecommended' = SuspendRecommended
  BY DEF Recent, Counted, SuspendRecommended
<1>2. FlagDue'
  BY <1>1, FlagStaysDue
<1>3. QED
  BY <1>2, ComplaintAfter DEF ComplaintInv

LEMMA ReportStep ==
    ASSUME CallsOK, ComplaintInv, NEW k \in Calls, ReportAction(k)
    PROVE  ComplaintInv'
<1>1. /\ Only(k) /\ torn' = torn /\ Job(k)' = Job(k) /\ Calls' = Calls
      /\ \A where : To(k, where) => call'[k].pc = where
      /\ Finish(k) => call'[k].pc = "done"
  BY ReportFrame, SameTold, ToOnly, FinishOnly DEF Only, rest, trail
<1>. USE DEF complaints
<1>2. CASE LoadReport(k)
  <2>1. Job(k).op = "report" /\ call[k].pc = "idle" /\ UNCHANGED complaints
    BY <1>2 DEF LoadReport, MayStart, At
  <2>2. DecisionOK(k)' /\ ~Counting(k)
    BY <1>1, <2>1 DEF DecisionOK, Counting, At
  <2>3. QED
    BY <1>1, <2>1, <2>2, ComplaintQuiet
<1>3. CASE CreateReport(k)
  <2>1. Job(k).op = "report" /\ call[k].pc = "loaded" /\ UNCHANGED <<old, isSuspicious, cleared, revived>>
    BY <1>3 DEF CreateReport, At
  <2>2. DecisionOK(k)' /\ ~Counting(k)
    BY <1>1, <2>1 DEF DecisionOK, Counting, At
  <2>3. CASE reports[Job(k).ref] # "none"
    BY <1>1, <1>3, <2>1, <2>2, <2>3, ComplaintQuiet DEF CreateReport
  <2>4. CASE reports[Job(k).ref] = "none"
    <3>1. reports' = [reports EXCEPT ![Job(k).ref] = "PENDING"] /\ call'[k].pc = "reported"
      BY <1>1, <1>3, <2>4 DEF CreateReport
    <3>2. Counting(k)'
      BY <1>1, <2>1, <3>1 DEF Counting, At
    <3>3. FlagDue'
      BY <1>1, <3>2 DEF FlagDue
    <3>4. reports' \in [DOMAIN reports -> ReportStates]
      BY <3>1 DEF ComplaintInv, ReportStates
    <3>5. QED
      BY <1>1, <2>2, <3>1, <3>3, <3>4, ComplaintAfter DEF ComplaintInv
  <2>5. QED
    BY <2>3, <2>4
<1>4. CASE CountReports(k) \/ ReadSuspect(k)
  <2>1. Job(k).op = "report" /\ UNCHANGED complaints
    BY <1>4 DEF CountReports, ReadSuspect, At
  <2>2. DecisionOK(k)'
    BY <1>1, <2>1 DEF DecisionOK, At
  <2>3. Counting(k)' \/ isSuspicious' \/ ~SuspendRecommended
    BY <1>1, <1>4, <2>1 DEF CountReports, ReadSuspect, Counting, At
  <2>4. QED
    BY <1>1, <2>1, <2>2, <2>3, ComplaintQuiet
<1>5. CASE Flag(k)
  <2>1. Job(k).op = "report" /\ isSuspicious' /\ UNCHANGED <<reports, old, cleared, revived>>
    BY <1>5 DEF Flag, At
  <2>2. DecisionOK(k)'
    BY <1>1, <2>1 DEF DecisionOK, At
  <2>3. QED
    BY <1>1, <2>1, <2>2, ComplaintQuiet
<1>6. ASSUME NEW op \in {"resolve", "dismiss"}, LoadDecision(k, op)
      PROVE  ComplaintInv'
  <2>1. Job(k).op = op /\ reports[Job(k).ref] = "PENDING" /\ UNCHANGED complaints
    BY <1>6 DEF LoadDecision, MayStart, At
  <2>2. DecisionOK(k)' /\ ~Counting(k)
    BY <1>1, <2>1 DEF DecisionOK, Counting, At
  <2>3. QED
    BY <1>1, <2>1, <2>2, ComplaintQuiet
<1>7. ASSUME NEW op \in {"resolve", "dismiss"}, NEW as \in Verdicts, Decide(k, op, as)
      PROVE  ComplaintInv'
  <2>1. /\ Job(k).op = op /\ At(k, "loaded", {"resolve", "dismiss"}) /\ call'[k].pc = "done"
        /\ reports' = [reports EXCEPT ![Job(k).ref] = as] /\ UNCHANGED <<old, isSuspicious, cleared>>
        /\ revived' = (revived \/ (as = "RESOLVED" /\ reports[Job(k).ref] = "DISMISSED"))
    BY <1>1, <1>7 DEF Decide, At
  <2>2. DecisionOK(k)' /\ ~Counting(k)
    BY <1>1, <2>1 DEF DecisionOK, Counting, At
  <2>3. /\ reports' \in [DOMAIN reports -> ReportStates]
        /\ \A r \in DOMAIN reports : reports'[r] # "none" <=> reports[r] # "none"
        /\ Job(k).ref \in DOMAIN reports => reports[Job(k).ref] # "none"
    BY <2>1 DEF ComplaintInv, DecisionOK, ReportStates, Verdicts
  <2>4. Counted' \subseteq Counted \/ revived'
    <3>. DEFINE r0 == Job(k).ref
    <3>1. /\ DOMAIN reports' = DOMAIN reports /\ old' = old
          /\ \A r \in DOMAIN reports : reports'[r] = IF r = r0 THEN as ELSE reports[r]
      BY <2>1 DEF ComplaintInv
    <3>2. CASE as = "DISMISSED"
      BY <3>1, <3>2 DEF Recent, Counted
    <3>3. CASE as = "RESOLVED" /\ r0 \in DOMAIN reports
      <4>1. reports[r0] \in {"PENDING", "RESOLVED", "DISMISSED"}
        BY <2>3, <3>3 DEF ComplaintInv, ReportStates, Verdicts
      <4>2. CASE reports[r0] = "DISMISSED"
        BY <2>1, <3>3, <4>2
      <4>3. CASE reports[r0] # "DISMISSED"
        BY <3>1, <3>3, <4>1, <4>3 DEF Recent, Counted
      <4>4. QED
        BY <4>2, <4>3
    <3>4. CASE r0 \notin DOMAIN reports
      BY <3>1, <3>4 DEF Recent, Counted
    <3>5. QED
      BY <3>2, <3>3, <3>4 DEF Verdicts
  <2>5. (SuspendRecommended' => SuspendRecommended) \/ revived'
    <3>1. Counted \subseteq DOMAIN reports
      BY DEF Counted, Recent
    <3>2. IsFiniteSet(Counted)
      BY <3>1, FS_Subset DEF ComplaintInv
    <3>3. ASSUME Counted' \subseteq Counted
          PROVE  Cardinality(Counted') <= Cardinality(Counted)
                 /\ Cardinality(Counted') \in Nat /\ Cardinality(Counted) \in Nat
      <4>1. IsFiniteSet(Counted')
        BY <3>2, <3>3, FS_Subset
      <4>2. QED
        BY <3>2, <3>3, <4>1, FS_Subset, FS_CardinalityType
    <3>4. QED
      BY <2>4, <3>3, ReputationAssumption DEF SuspendRecommended
  <2>6. FlagDue'
    <3>1. CASE revived'
      BY <3>1 DEF FlagDue
    <3>2. CASE ~revived'
      BY <1>1, <2>1, <2>2, <2>5, <3>2, FlagStaysDue
    <3>3. QED
      BY <3>1, <3>2
  <2>7. QED
    BY <1>1, <2>1, <2>2, <2>3, <2>6, ComplaintAfter
<1>8. CASE LoadToggle(k)
  <2>1. Job(k).op = "toggle" /\ UNCHANGED complaints
    BY <1>8 DEF LoadToggle, MayStart, At
  <2>2. DecisionOK(k)' /\ ~Counting(k)
    BY <1>1, <2>1 DEF DecisionOK, Counting, At
  <2>3. QED
    BY <1>1, <2>1, <2>2, ComplaintQuiet
<1>9. CASE ToggleSuspicious(k)
  <2>1. /\ Job(k).op = "toggle" /\ UNCHANGED <<reports, old, revived>>
        /\ isSuspicious' = ~call[k].saw /\ cleared' = (cleared \/ call[k].saw)
    BY <1>9 DEF ToggleSuspicious, At
  <2>2. DecisionOK(k)'
    BY <1>1, <2>1 DEF DecisionOK, At
  <2>3. FlagDue'
    BY <2>1 DEF FlagDue
  <2>4. QED
    BY <1>1, <2>1, <2>2, <2>3, ComplaintAfter DEF ComplaintInv
<1>10. QED
  BY <1>2, <1>3, <1>4, <1>5, <1>6, <1>7, <1>8, <1>9 DEF ReportAction, Resolve, Dismiss, Verdicts

LEMMA ComplaintNext ==
    ASSUME CallsOK, ComplaintInv, [Next]_vars
    PROVE  ComplaintInv'
<1>1. ASSUME NEW k \in Calls, OpinionAction(k), ~ReportAction(k)
      PROVE  ComplaintInv'
  <2>. DEFINE others == {"rate", "complete", "verdict"}
  <2>1. UNCHANGED complaints /\ Job(k).op \in others
    BY <1>1 DEF OpinionAction, ReportAction, LoadRate, ReadOther, CreateRating, RevealOther, AfterRating,
                Complete, ReadStats, ReadRatings, StoreStatus, SyncUser, AdminSetVerified, MayStart, At,
                Evaluators
  <2>2. Exact(others) /\ torn' = torn
    BY <1>1, <2>1, OpinionFrame, OnlyFrame DEF rest, trail
  <2>3. others \cap ReportOps = {}
    BY DEF ReportOps
  <2>4. QED
    BY <2>1, <2>2, <2>3, ComplaintElsewhere
<1>2. CASE WeekPasses
  <2>1. Exact({}) /\ UNCHANGED complaints /\ torn' = torn
    BY <1>2, StillFrame DEF WeekPasses, rest, trail
  <2>2. QED
    BY <2>1, ComplaintElsewhere
<1>3. CASE WindowPasses
  <2>1. call' = call /\ UNCHANGED <<reports, isSuspicious, cleared, revived>> /\ torn' = torn
        /\ old' = old \cup {r \in DOMAIN reports : reports[r] # "none"}
    BY <1>3 DEF WindowPasses, rest, trail
  <2>2. Counted' = {}
    BY <2>1 DEF Recent, Counted
  <2>3. ~SuspendRecommended'
    BY <2>2, FS_EmptySet, ReputationAssumption DEF SuspendRecommended
  <2>4. FlagDue'
    BY <2>3 DEF FlagDue
  <2>5. QED
    BY <2>1, <2>4 DEF ComplaintInv, DecisionOK, At, Job, Calls
<1>4. ASSUME NEW ops, ops \cap OpinionOps = {}, torn \subseteq torn', Frame(ops) \/ Exact(ops),
             UNCHANGED <<ratings, badge, complaints>>
      PROVE  ComplaintInv'
  <2>1. ops \cap ReportOps = {}
    BY <1>4 DEF OpinionOps, ReportOps
  <2>2. QED
    BY <1>4, <2>1, ComplaintElsewhere
<1>5. QED
  BY <1>1, <1>2, <1>3, <1>4, ReportStep, BesideOpinions

\* What the flag rests on: a threshold crossed by reports that were not
\* dismissed is seen by a report still at its count, unless the flag has been
\* up since; a dismissal only takes a report out of the count.
THEOREM ComplaintInvariance == Spec => []ComplaintInv
<1>1. Init => ComplaintInv
  <2> SUFFICES ASSUME Init
               PROVE  ComplaintInv
    OBVIOUS
  <2>1. reports = [r \in Calls |-> "none"]
    BY DEF Init, TrustInit, ReputationInit
  <2>2. Counted = {}
    BY <2>1 DEF Recent, Counted
  <2>3. FlagDue
    BY <2>2, FS_EmptySet, ReputationAssumption DEF FlagDue, SuspendRecommended
  <2>4. \A k \in Calls : DecisionOK(k)
    BY CallsIdle DEF DecisionOK, At
  <2>5. IsFiniteSet(DOMAIN reports)
    <3>1. PICK cast \in Casts : call = [l \in DOMAIN cast |-> Start(cast[l], "idle")]
      BY CallsStart
    <3>2. DOMAIN reports = DOMAIN cast
      BY <2>1, <3>1 DEF Calls
    <3>3. QED
      BY <3>2, CastsAssumption
  <2>6. QED
    BY <2>1, <2>3, <2>4, <2>5 DEF ComplaintInv, ReportStates
<1>2. CallsOK /\ ComplaintInv /\ [Next]_vars => ComplaintInv'
  BY ComplaintNext
<1>3. QED
  BY <1>1, <1>2, CallsInvariance, PTL DEF Spec

-----------------------------------------------------------------------------
(* The chat: who keeps writing what the filter blocks is flagged, once.    *)

\* How far a message has come, by where its call is.
SpeakerOK(k) ==
    Running(k) /\ Job(k).op = "say" =>
        /\ call[k].saw => flagged
        /\ call[k].pc \in {"refused", "many", "flagged"} => Job(k).ref = 1
        /\ call[k].pc = "many" => ManyBlocked /\ ~call[k].saw
        /\ call[k].pc = "flagged" => flagged

Refusing == \E k \in Calls : At(k, "refused", {"say"}) \/ At(k, "many", {"say"})
Alerting == \E k \in Calls : At(k, "flagged", {"say"})

\* The flag, and then the alert, is due to whoever is at the threshold.
AlarmDue ==
    torn = {} => /\ ManyBlocked => flagged \/ Refusing
                 /\ flagged => alerts > 0 \/ Alerting \/ asked

\* One blocked message at a time raises one alert.
OneAlert ==
    ~crowded =>
        /\ \A k, l \in Calls : BlockedNow(k) /\ BlockedNow(l) => k = l
        /\ \A k \in Calls : BlockedNow(k) /\ call[k].pc # "flagged" /\ ~call[k].saw => alerts = 0
        /\ Alerting => alerts = 0
        /\ alerts <= 1

ChatRows ==
    /\ said \in Seq(BOOLEAN) /\ alerts \in Nat
    /\ flagged => ManyBlocked \/ asked
    /\ ~flagged => alerts = 0

ChatInv ==
    /\ ChatRows /\ AlarmDue /\ OneAlert
    /\ \A k \in Calls : SpeakerOK(k)

LEMMA ChatElsewhere ==
    ASSUME ChatInv, NEW ops, "say" \notin ops, torn \subseteq torn', UNCHANGED chat,
           Frame(ops) \/ Exact(ops)
    PROVE  ChatInv'
<1>1. Calls' = Calls /\ \A l \in Calls : Job(l)' = Job(l)
  BY SameTold DEF Exact, Frame
<1>. USE DEF chat
<1>2. ManyBlocked' = ManyBlocked
  BY DEF ManyBlocked
<1>3. ASSUME NEW l \in Calls, Job(l).op = "say"
      PROVE  \/ call'[l] = call[l]
             \/ call'[l].pc = "done" /\ torn' # {}
  <2>1. call'[l] = call[l] \/ Dropped(l)
    BY <1>3 DEF Frame, Exact
  <2>2. QED
    BY <2>1 DEF Dropped, Start
<1>4. ASSUME NEW l \in Calls
      PROVE  SpeakerOK(l)'
  BY <1>1, <1>2, <1>3 DEF ChatInv, SpeakerOK, Running
<1>5. torn' = {} => /\ Refusing => Refusing'
                    /\ Alerting => Alerting'
  BY <1>1, <1>3 DEF Refusing, Alerting, At
<1>6. /\ Alerting' => Alerting
      /\ \A l \in Calls : BlockedNow(l)' => BlockedNow(l) /\ call'[l] = call[l]
  BY <1>1, <1>3 DEF Alerting, BlockedNow, Running, At
<1>7. ChatRows' /\ AlarmDue'
  BY <1>2, <1>5 DEF ChatInv, ChatRows, AlarmDue
<1>8. OneAlert'
  BY <1>1, <1>6 DEF ChatInv, OneAlert
<1>9. QED
  BY <1>1, <1>4, <1>7, <1>8 DEF ChatInv

\* A step of one message, as far as the others are concerned.
LEMMA OtherSpeakers ==
    ASSUME ChatInv, NEW k \in Calls, Only(k),
           flagged => flagged', ManyBlocked => ManyBlocked'
    PROVE  /\ Calls' = Calls /\ Job(k)' = Job(k)
           /\ \A l \in Calls \ {k} : /\ call'[l] = call[l] /\ Job(l)' = Job(l) /\ SpeakerOK(l)'
                                     /\ BlockedNow(l)' <=> BlockedNow(l)
<1>1. Calls' = Calls /\ \A l \in Calls : Job(l)' = Job(l)
  BY SameTold DEF Only
<1>2. ASSUME NEW l \in Calls \ {k}
      PROVE  call'[l] = call[l] /\ SpeakerOK(l)' /\ (BlockedNow(l)' <=> BlockedNow(l))
  <2>1. call'[l] = call[l] /\ SpeakerOK(l)
    BY DEF Only, ChatInv
  <2>2. QED
    BY <1>1, <2>1 DEF SpeakerOK, Running, BlockedNow
<1>3. QED
  BY <1>1, <1>2

\* A step of a message that is neither counted nor raising the alarm.
LEMMA ChatQuiet ==
    ASSUME ChatInv, NEW k \in Calls, Only(k), torn' = torn,
           UNCHANGED <<said, flagged, asked, alerts, crowded>>, Running(k),
           call[k].pc \notin {"refused", "many", "flagged"},
           call'[k].pc \notin {"idle", "refused", "many", "flagged"},
           call'[k].pc = "done" \/ call'[k].saw = call[k].saw
    PROVE  ChatInv'
<1>1. ManyBlocked' = ManyBlocked
  BY DEF ManyBlocked
<1>2. /\ Calls' = Calls /\ Job(k)' = Job(k)
      /\ \A l \in Calls \ {k} : /\ call'[l] = call[l] /\ Job(l)' = Job(l) /\ SpeakerOK(l)'
                                /\ BlockedNow(l)' <=> BlockedNow(l)
  BY <1>1, OtherSpeakers
<1>3. SpeakerOK(k)' /\ (BlockedNow(k)' => BlockedNow(k) /\ (call'[k].saw = call[k].saw))
  BY <1>2 DEF ChatInv, SpeakerOK, Running, BlockedNow
<1>4. (Refusing' <=> Refusing) /\ (Alerting' <=> Alerting)
  BY <1>2 DEF Refusing, Alerting, At
<1>5. ChatRows' /\ AlarmDue'
  BY <1>1, <1>4 DEF ChatInv, ChatRows, AlarmDue
<1>6. OneAlert'
  <2>1. SUFFICES ASSUME ~crowded
                 PROVE  OneAlert'
    BY DEF OneAlert
  <2>2. \A l \in Calls : BlockedNow(l)' => BlockedNow(l) /\ (call'[l].saw = call[l].saw)
    BY <1>2, <1>3
  <2>3. \A l \in Calls : BlockedNow(l)' /\ call'[l].pc # "flagged" /\ ~call'[l].saw => alerts = 0
    <3>1. ASSUME NEW l \in Calls, BlockedNow(l)', call'[l].pc # "flagged", ~call'[l].saw
          PROVE  alerts = 0
      <4>1. BlockedNow(l) /\ ~call[l].saw /\ call[l].pc # "flagged"
        BY <1>2, <2>2, <3>1
      <4>2. QED
        BY <2>1, <4>1 DEF ChatInv, OneAlert
    <3>2. QED
      BY <3>1
  <2>4. QED
    BY <1>2, <1>4, <2>1, <2>2, <2>3 DEF ChatInv, OneAlert
<1>7. QED
  BY <1>2, <1>3, <1>5, <1>6 DEF ChatInv

\* A message more: the blocked ones are no fewer, and no more unless it is one.
LEMMA SaidMore ==
    ASSUME said \in Seq(BOOLEAN), NEW b \in BOOLEAN, said' = Append(said, b)
    PROVE  /\ said' \in Seq(BOOLEAN)
           /\ ManyBlocked => ManyBlocked'
           /\ ~b => ManyBlocked' = ManyBlocked
<1>. DEFINE H == {i \in DOMAIN said : said[i]}
            G == {i \in DOMAIN said' : said'[i]}
<1>1. /\ said' \in Seq(BOOLEAN) /\ Len(said) \in Nat
      /\ DOMAIN said = 1 .. Len(said) /\ DOMAIN said' = 1 .. (Len(said) + 1)
      /\ \A i \in 1 .. Len(said) : said'[i] = said[i]
      /\ said'[Len(said) + 1] = b
  OBVIOUS
<1>2. H \subseteq G /\ (~b => G = H)
  BY <1>1
<1>3. IsFiniteSet(G) /\ IsFiniteSet(H)
  <2>1. IsFiniteSet(1 .. (Len(said) + 1))
    BY <1>1, FS_Interval
  <2>2. G \subseteq 1 .. (Len(said) + 1)
    BY <1>1
  <2>3. H \subseteq 1 .. (Len(said) + 1)
    BY <1>1, <1>2, <2>2
  <2>. HIDE DEF G, H
  <2>4. QED
    BY <2>1, <2>2, <2>3, FS_Subset
<1>4. Cardinality(H) <= Cardinality(G) /\ Cardinality(H) \in Nat /\ Cardinality(G) \in Nat
  <2>. HIDE DEF G, H
  <2>1. QED
    BY <1>2, <1>3, FS_Subset, FS_CardinalityType
<1>5. /\ ManyBlocked = (Cardinality(H) >= FlagThreshold)
      /\ ManyBlocked' = (Cardinality(G) >= FlagThreshold)
  BY DEF ManyBlocked
<1>. HIDE DEF G, H
<1>6. QED
  BY <1>1, <1>2, <1>4, <1>5, CorrespondenceAssumption

LEMMA ChatStep ==
    ASSUME CallsOK, ChatInv, NEW k \in Calls,
           \/ LoadChat(k) \/ CheckToggle(k) \/ Say(k) \/ CountBlocked(k) \/ FlagChat(k) \/ CreateAlert(k)
    PROVE  ChatInv'
<1>1. /\ Only(k) /\ torn' = torn /\ Job(k).op = "say" /\ Job(k)' = Job(k)
      /\ \A where : To(k, where) => call'[k].pc = where /\ call'[k].saw = call[k].saw
      /\ Finish(k) => call'[k].pc = "done"
  <2>1. NoticeAction(k) /\ Job(k).op = "say"
    BY DEF NoticeAction, LoadChat, CheckToggle, Say, CountBlocked, FlagChat, CreateAlert, MayStart, At
  <2>2. Only(k) /\ torn' = torn
    BY <2>1, NoticeFrame DEF accountsOnly, trail
  <2>3. QED
    BY <2>1, <2>2, SameTold, ToOnly, FinishOnly DEF Only
<1>2. SpeakerOK(k) /\ ChatRows /\ AlarmDue /\ OneAlert
  BY DEF ChatInv
<1>. USE DEF chat, correspondence
<1>3. CASE LoadChat(k)
  <2>1. /\ call[k].pc = "idle" /\ See(k, "loaded", flagged) /\ UNCHANGED <<said, flagged, asked, alerts>>
        /\ crowded' = (crowded \/ \E l \in Calls \ {k} : BlockedNow(l))
    BY <1>3 DEF LoadChat, MayStart, At, See
  <2>2. call'[k].pc = "loaded" /\ call'[k].saw = flagged
    BY <2>1, SeeOnly
  <2>3. ManyBlocked' = ManyBlocked
    BY <2>1 DEF ManyBlocked
  <2>4. /\ Calls' = Calls
        /\ \A l \in Calls \ {k} : /\ call'[l] = call[l] /\ Job(l)' = Job(l) /\ SpeakerOK(l)'
                                  /\ BlockedNow(l)' <=> BlockedNow(l)
    BY <1>1, <2>1, <2>3, OtherSpeakers
  <2>5. SpeakerOK(k)'
    BY <2>1, <2>2 DEF SpeakerOK
  <2>6. (Refusing' <=> Refusing) /\ (Alerting' <=> Alerting)
    BY <1>1, <2>1, <2>2, <2>4 DEF Refusing, Alerting, At
  <2>7. ChatRows' /\ AlarmDue'
    BY <1>1, <1>2, <2>1, <2>3, <2>6 DEF ChatRows, AlarmDue
  <2>8. OneAlert'
    <3>1. SUFFICES ASSUME ~crowded'
                   PROVE  OneAlert'
      BY DEF OneAlert
    <3>2. ~crowded /\ \A l \in Calls \ {k} : ~BlockedNow(l)'
      BY <2>1, <2>4, <3>1
    <3>3. QED
      BY <1>2, <2>1, <2>2, <2>4, <2>6, <3>2 DEF OneAlert, ChatRows
  <2>9. QED
    BY <2>4, <2>5, <2>7, <2>8 DEF ChatInv
<1>4. CASE CheckToggle(k)
  <2>1. /\ call[k].pc = "loaded" /\ UNCHANGED chat
        /\ \/ call'[k].pc = "done"
           \/ call'[k].pc = "allowed" /\ call'[k].saw = call[k].saw
    BY <1>1, <1>4 DEF CheckToggle, At
  <2>2. QED
    BY <1>1, <2>1, ChatQuiet DEF Running
<1>5. CASE Say(k)
  <2>1. PICK b \in BOOLEAN : b = (Job(k).ref = 1)
    OBVIOUS
  <2>2. /\ call[k].pc = "allowed" /\ said' = Append(said, b) /\ UNCHANGED <<flagged, asked, alerts, crowded>>
        /\ call'[k].pc = (IF b THEN "refused" ELSE "tell") /\ call'[k].saw = call[k].saw
    BY <1>1, <1>5, <2>1 DEF Say, At
  <2>3. /\ said' \in Seq(BOOLEAN) /\ (ManyBlocked => ManyBlocked')
        /\ ~b => ManyBlocked' = ManyBlocked
    BY <1>2, <2>2, SaidMore DEF ChatRows
  <2>4. /\ Calls' = Calls
        /\ \A l \in Calls \ {k} : /\ call'[l] = call[l] /\ Job(l)' = Job(l) /\ SpeakerOK(l)'
                                  /\ BlockedNow(l)' <=> BlockedNow(l)
    BY <1>1, <2>2, <2>3, OtherSpeakers
  <2>5. SpeakerOK(k)'
    BY <1>1, <1>2, <2>1, <2>2 DEF SpeakerOK, Running
  <2>6. /\ b => Refusing'
        /\ Refusing => Refusing'
        /\ Alerting' <=> Alerting
    BY <1>1, <2>2, <2>4 DEF Refusing, Alerting, At
  <2>7. ChatRows' /\ AlarmDue'
    BY <1>1, <1>2, <2>2, <2>3, <2>6 DEF ChatRows, AlarmDue
  <2>8. (BlockedNow(k)' <=> BlockedNow(k)) /\ call[k].pc # "flagged"
    BY <1>1, <2>2 DEF BlockedNow, Running
  <2>9. OneAlert'
    BY <1>2, <2>2, <2>4, <2>6, <2>8 DEF OneAlert
  <2>10. QED
    BY <2>4, <2>5, <2>7, <2>9 DEF ChatInv
<1>6. CASE CountBlocked(k)
  <2>1. /\ call[k].pc = "refused" /\ UNCHANGED <<said, flagged, asked, alerts, crowded>>
        /\ \/ ManyBlocked /\ ~call[k].saw /\ call'[k].pc = "many" /\ call'[k].saw = call[k].saw
           \/ ~(ManyBlocked /\ ~call[k].saw) /\ call'[k].pc = "done"
    BY <1>1, <1>6 DEF CountBlocked, At
  <2>2. ManyBlocked' = ManyBlocked
    BY <2>1 DEF ManyBlocked
  <2>3. /\ Calls' = Calls
        /\ \A l \in Calls \ {k} : /\ call'[l] = call[l] /\ Job(l)' = Job(l) /\ SpeakerOK(l)'
                                  /\ BlockedNow(l)' <=> BlockedNow(l)
    BY <1>1, <2>1, <2>2, OtherSpeakers
  <2>4. /\ BlockedNow(k)' => BlockedNow(k) /\ (call'[k].saw = call[k].saw)
        /\ call[k].pc # "flagged" /\ call'[k].pc # "flagged"
    BY <1>1, <2>1 DEF BlockedNow, Running
  <2>5. SpeakerOK(k)'
    BY <1>1, <1>2, <2>1, <2>2 DEF SpeakerOK, Running
  <2>6. /\ ManyBlocked => (Refusing => Refusing') \/ flagged
        /\ Alerting' <=> Alerting
    <3>1. ManyBlocked /\ Refusing => Refusing' \/ flagged
      <4>1. CASE ManyBlocked /\ call'[k].pc = "many"
        BY <1>1, <2>3, <4>1 DEF Refusing, At
      <4>2. CASE call[k].saw
        BY <1>2, <1>1, <2>1, <4>2 DEF SpeakerOK, Running
      <4>3. QED
        BY <2>1, <4>1, <4>2
    <3>2. Alerting' <=> Alerting
      BY <1>1, <2>1, <2>3 DEF Alerting, At
    <3>3. QED
      BY <3>1, <3>2
  <2>7. ChatRows' /\ AlarmDue'
    BY <1>1, <1>2, <2>1, <2>2, <2>6 DEF ChatRows, AlarmDue
  <2>8. OneAlert'
    <3>1. SUFFICES ASSUME ~crowded
                   PROVE  OneAlert'
      BY <2>1 DEF OneAlert
    <3>2. \A l \in Calls : /\ BlockedNow(l)' => BlockedNow(l) /\ (call'[l].saw = call[l].saw)
                           /\ call'[l].pc # "flagged" => call[l].pc # "flagged"
      BY <2>3, <2>4
    <3>3. \A l \in Calls : BlockedNow(l)' /\ call'[l].pc # "flagged" /\ ~call'[l].saw => alerts = 0
      BY <1>2, <3>1, <3>2 DEF OneAlert
    <3>4. QED
      BY <1>2, <2>1, <2>3, <2>6, <3>1, <3>2, <3>3 DEF OneAlert
  <2>9. QED
    BY <2>3, <2>5, <2>7, <2>8 DEF ChatInv
<1>7. CASE FlagChat(k)
  <2>1. /\ call[k].pc = "many" /\ call'[k].pc = "flagged" /\ flagged'
        /\ UNCHANGED <<said, asked, alerts, crowded>>
    BY <1>1, <1>7 DEF FlagChat, At
  <2>2. ManyBlocked' = ManyBlocked
    BY <2>1 DEF ManyBlocked
  <2>3. /\ Calls' = Calls
        /\ \A l \in Calls \ {k} : /\ call'[l] = call[l] /\ Job(l)' = Job(l) /\ SpeakerOK(l)'
                                  /\ BlockedNow(l)' <=> BlockedNow(l)
    BY <1>1, <2>1, <2>2, OtherSpeakers
  <2>4. ManyBlocked /\ ~call[k].saw /\ Job(k).ref = 1 /\ BlockedNow(k)
    BY <1>1, <1>2, <2>1 DEF SpeakerOK, Running, BlockedNow
  <2>5. SpeakerOK(k)' /\ Alerting'
    BY <1>1, <2>1, <2>3, <2>4 DEF SpeakerOK, Running, Alerting, At
  <2>6. ChatRows' /\ AlarmDue'
    BY <1>1, <1>2, <2>1, <2>2, <2>4, <2>5 DEF ChatRows, AlarmDue
  <2>7. OneAlert'
    <3>1. SUFFICES ASSUME ~crowded
                   PROVE  OneAlert'
      BY <2>1 DEF OneAlert
    <3>2. alerts = 0
      BY <1>2, <2>1, <2>4, <3>1 DEF OneAlert
    <3>3. \A l \in Calls : BlockedNow(l)' => l = k
      BY <1>2, <2>3, <2>4, <3>1 DEF OneAlert
    <3>4. QED
      BY <2>1, <2>3, <3>2, <3>3 DEF OneAlert
  <2>8. QED
    BY <2>3, <2>5, <2>6, <2>7 DEF ChatInv
<1>8. CASE CreateAlert(k)
  <2>1. /\ call[k].pc = "flagged" /\ call'[k].pc = "done" /\ alerts' = alerts + 1
        /\ UNCHANGED <<said, flagged, asked, crowded>> /\ At(k, "flagged", {"say"})
    BY <1>1, <1>8 DEF CreateAlert, At
  <2>2. ManyBlocked' = ManyBlocked
    BY <2>1 DEF ManyBlocked
  <2>3. /\ Calls' = Calls
        /\ \A l \in Calls \ {k} : /\ call'[l] = call[l] /\ Job(l)' = Job(l) /\ SpeakerOK(l)'
                                  /\ BlockedNow(l)' <=> BlockedNow(l)
    BY <1>1, <2>1, <2>2, OtherSpeakers
  <2>4. flagged /\ Alerting /\ BlockedNow(k) /\ ~BlockedNow(k)' /\ SpeakerOK(k)'
    BY <1>1, <1>2, <2>1 DEF SpeakerOK, Running, Alerting, BlockedNow
  <2>5. /\ Refusing => Refusing'
        /\ alerts' \in Nat /\ alerts' > 0
    BY <1>1, <1>2, <2>1, <2>3 DEF Refusing, At, ChatRows
  <2>6. ChatRows' /\ AlarmDue'
    BY <1>1, <1>2, <2>1, <2>2, <2>4, <2>5 DEF ChatRows, AlarmDue
  <2>7. OneAlert'
    <3>1. SUFFICES ASSUME ~crowded
                   PROVE  OneAlert'
      BY <2>1 DEF OneAlert
    <3>2. alerts' = 1
      BY <1>2, <2>1, <2>4, <3>1 DEF OneAlert
    <3>3. \A l \in Calls : ~BlockedNow(l)'
      BY <1>2, <2>3, <2>4, <3>1 DEF OneAlert
    <3>4. ~Alerting'
      <4>1. ASSUME NEW l \in Calls, At(l, "flagged", {"say"})'
            PROVE  BlockedNow(l)'
        <5>1. SpeakerOK(l)'
          BY <2>3, <2>4
        <5>2. QED
          BY <4>1, <5>1 DEF SpeakerOK, BlockedNow, Running, At
      <4>2. QED
        BY <2>3, <3>3, <4>1 DEF Alerting
    <3>5. QED
      BY <2>3, <3>2, <3>3, <3>4 DEF OneAlert
  <2>8. QED
    BY <2>3, <2>4, <2>6, <2>7 DEF ChatInv
<1>9. QED
  BY <1>3, <1>4, <1>5, <1>6, <1>7, <1>8

LEMMA ChatNext ==
    ASSUME CallsOK, ChatInv, [Next]_vars
    PROVE  ChatInv'
<1>. USE DEF correspondence
<1>1. CASE TrustStep /\ UNCHANGED correspondence
  <2>1. Frame(PeopleOps) /\ "say" \notin PeopleOps /\ torn \subseteq torn'
    BY <1>1, TrustFrame DEF PeopleOps, AccountOps, OpinionOps, ProfileOps
  <2>2. QED
    BY <1>1, <2>1, ChatElsewhere
<1>2. CASE SettingsStep /\ UNCHANGED correspondence
  <2>1. Exact(SettingOps \cup ConsentOps) /\ torn' = torn
        /\ "say" \notin SettingOps \cup ConsentOps
    BY <1>2, SettingsFrame DEF SettingOps, ConsentOps
  <2>2. QED
    BY <1>2, <2>1, ChatElsewhere
<1>3. ASSUME NEW k \in Calls, NoticeAction(k),
             ~(\/ LoadChat(k) \/ CheckToggle(k) \/ Say(k) \/ CountBlocked(k) \/ FlagChat(k)
               \/ CreateAlert(k))
      PROVE  ChatInv'
  <2>1. Only(k) /\ call[k].pc # "done" /\ Job(k).op \in NoticeOps /\ torn' = torn
    BY <1>3, NoticeFrame DEF accountsOnly, trail
  <2>2. CASE Job(k).op # "say"
    <3>1. UNCHANGED chat
      BY <1>3 DEF NoticeAction, StartEvent, IsCategoryEnabled, ReadDevice, CreateNotification, Push,
                  ClearToken, RegisterFcmToken, UpdatePreferences, FindInactiveWithFcmToken,
                  ClearFcmToken, CreateExport, BuildExportBundle, UploadExport, MarkReady,
                  TellingFails, MarkFailed
    <3>2. Exact(NoticeOps \ {"say"}) /\ "say" \notin NoticeOps \ {"say"}
      BY <2>1, <2>2, OnlyFrame
    <3>3. QED
      BY <2>1, <3>1, <3>2, ChatElsewhere
  <2>3. CASE Job(k).op = "say"
    <3>1. \/ IsCategoryEnabled(k) \/ ReadDevice(k) \/ CreateNotification(k)
          \/ Push(k) \/ ClearToken(k)
      BY <1>3, <2>3 DEF NoticeAction, StartEvent, RegisterFcmToken, UpdatePreferences,
                  FindInactiveWithFcmToken, ClearFcmToken, CreateExport, BuildExportBundle,
                  UploadExport, MarkReady, TellingFails, MarkFailed, MayStart, At
    <3>2. /\ \A where : To(k, where) => call'[k].pc = where /\ call'[k].saw = call[k].saw
          /\ Finish(k) => call'[k].pc = "done"
          /\ \A where, value : Keep(k, where, value) => call'[k].pc = where /\ call'[k].saw = call[k].saw
      BY ToOnly, FinishOnly, KeepOnly
    <3>3. /\ UNCHANGED chat
          /\ call[k].pc \in {"tell", "wanted", "addressed", "push", "rejected"}
          /\ \/ call'[k].pc = "done"
             \/ /\ call'[k].pc \in {"wanted", "addressed", "push", "rejected"}
                /\ call'[k].saw = call[k].saw
      BY <3>1, <3>2 DEF IsCategoryEnabled, ReadDevice, CreateNotification, Push, ClearToken, At, Keep
    <3>4. QED
      BY <2>1, <3>3, ChatQuiet DEF Running, chat
  <2>4. QED
    BY <2>2, <2>3
<1>4. CASE (\E c \in Contacts : GrowInactive(c)) \/ AppRemoved \/ ReviewEnds
  <2>1. /\ call' = call /\ torn' = torn /\ UNCHANGED <<said, flagged, asked, alerts, crowded>>
    BY <1>4 DEF GrowInactive, AppRemoved, ReviewEnds, accountsOnly, trail, chat
  <2>2. ChatRows' /\ AlarmDue'
    BY <2>1 DEF ChatInv, ChatRows, AlarmDue, ManyBlocked, Refusing, Alerting, At, Job, Calls
  <2>3. OneAlert'
    BY <2>1 DEF ChatInv, OneAlert, BlockedNow, Running, Alerting, At, Job, Calls
  <2>4. \A l \in Calls : SpeakerOK(l)'
    BY <2>1 DEF ChatInv, SpeakerOK, ManyBlocked, Running, Job, Calls
  <2>5. QED
    BY <2>1, <2>2, <2>3, <2>4 DEF ChatInv, Calls
<1>5. CASE FlagThread
  <2>1. /\ call' = call /\ torn' = torn /\ UNCHANGED <<said, alerts, crowded>>
        /\ flagged' /\ asked'
    BY <1>5 DEF FlagThread, accountsOnly, trail
  <2>2. ChatRows' /\ AlarmDue'
    BY <2>1 DEF ChatInv, ChatRows, AlarmDue
  <2>3. OneAlert'
    BY <2>1 DEF ChatInv, OneAlert, BlockedNow, Running, Alerting, At, Job, Calls
  <2>4. \A l \in Calls : SpeakerOK(l)'
    BY <2>1 DEF ChatInv, SpeakerOK, ManyBlocked, Running, Job, Calls
  <2>5. QED
    BY <2>1, <2>2, <2>3, <2>4 DEF ChatInv, Calls
<1>6. CASE CorrespondenceStep
  BY <1>3, <1>4, <1>5, <1>6, ChatStep DEF CorrespondenceStep, NoticeAction
<1>7. CASE UNCHANGED vars
  <2>1. Exact({}) /\ UNCHANGED correspondence /\ torn' = torn
    BY <1>7, StillFrame DEF vars, reputationVars, accountVars, trail
  <2>2. QED
    BY <2>1, ChatElsewhere
<1>8. QED
  BY <1>1, <1>2, <1>6, <1>7 DEF Next

\* What the alarm rests on: the message that made the blocked ones too many is
\* still at its count, or has put the flag up and then the alert.
THEOREM ChatInvariance == Spec => []ChatInv
<1>1. Init => ChatInv
  <2> SUFFICES ASSUME Init
               PROVE  ChatInv
    OBVIOUS
  <2>1. said = <<>> /\ ~flagged /\ alerts = 0
    BY DEF Init, CorrespondenceInit
  <2>2. {i \in DOMAIN said : said[i]} = {}
    BY <2>1
  <2>3. ~ManyBlocked
    BY <2>2, FS_EmptySet, CorrespondenceAssumption DEF ManyBlocked
  <2>4. \A k \in Calls : call[k].pc = "idle"
    BY CallsIdle
  <2>5. /\ \A k \in Calls : SpeakerOK(k) /\ ~BlockedNow(k)
        /\ ~Alerting
    BY <2>4 DEF SpeakerOK, BlockedNow, Running, Alerting, At
  <2>6. QED
    BY <2>1, <2>3, <2>5 DEF ChatInv, ChatRows, AlarmDue, OneAlert
<1>2. CallsOK /\ ChatInv /\ [Next]_vars => ChatInv'
  BY ChatNext
<1>3. QED
  BY <1>1, <1>2, CallsInvariance, PTL DEF Spec

\* A user who crosses the threshold of reports that were not dismissed is
\* flagged, whatever order reports and decisions come in, unless a call was
\* cut, an Admin took the flag away or one resolved what another had dismissed
\* (reportService.create); so is a chat that crosses the threshold of blocked
\* messages (postSubmissionChatService.send), with one alert unless a question
\* thread has set the flag or blocked messages were in progress together.
THEOREM ThresholdsAreFlagged == Spec => []ThresholdsFlag
<1>1. ComplaintInv /\ ChatInv => ThresholdsFlag
  <2> SUFFICES ASSUME ComplaintInv, ChatInv
               PROVE  ThresholdsFlag
    OBVIOUS
  <2>1. FlaggedAtThreshold
    <3>1. (\A k \in Calls : Running(k) => Job(k).op # "report") => \A k \in Calls : ~Counting(k)
      BY DEF Running, Counting, At
    <3>2. Counted = {r \in Recent : reports[r] # "DISMISSED"}
      BY DEF ComplaintInv, ReportStates, Verdicts, Recent, Counted
    <3>3. QED
      BY <3>1, <3>2 DEF ComplaintInv, FlagDue, FlaggedAtThreshold, SuspendRecommended
  <2>2. ChatFlagged
    <3>1. (\A k \in Calls : Running(k) => Job(k).op # "say") => ~Refusing /\ ~Alerting
      BY DEF Running, Refusing, Alerting, At
    <3>2. ChatAdminList \ ChatList = {i \in DOMAIN said : said[i]}
      BY DEF ChatAdminList, ChatList
    <3>3. ManyBlocked = (Cardinality(ChatAdminList \ ChatList) >= FlagThreshold)
      BY <3>2 DEF ManyBlocked
    <3>4. QED
      BY <3>1, <3>3 DEF ChatInv, ChatRows, AlarmDue, OneAlert, ChatFlagged
  <2>3. QED
    BY <2>1, <2>2 DEF ThresholdsFlag
<1>2. QED
  BY <1>1, ComplaintInvariance, ChatInvariance, PTL
=============================================================================
