------------------------------ MODULE Accounts ------------------------------
(***************************************************************************)
(* Accounts and sessions: one-time codes by email and by phone, the signup *)
(* and the logins they lead to, refresh tokens with rotation and the       *)
(* revocation of a replayed family, blocking and suspending, and the       *)
(* retention sweep that deletes what has expired and lifts suspensions.    *)
(* A step is the code between two awaits; any call may be cut.  A token is *)
(* named after the call that issued it, a code after the call that sent    *)
(* it.  Passwords are right: a wrong one changes nothing.                  *)
(***************************************************************************)
EXTENDS Integers, SequencesExt, FiniteSetsExt

CONSTANTS
    Contacts,       \* email addresses and phone numbers, each of one person
    Phones,         \* those that are phone numbers
    Registered,     \* those with an account at the start
    MaxAttempts,    \* PHONE_OTP_MAX_ATTEMPTS and OTP_MAX_ATTEMPTS
    Casts           \* bound: the calls and sweeps that may come together, as sequences of jobs

ASSUME AccountsAssumption ==
    /\ Phones \subseteq Contacts /\ Registered \subseteq Contacts
    /\ MaxAttempts \in Nat \ {0}
ASSUME CastsAssumption ==
    \A cast \in Casts :
        /\ IsFiniteSet(DOMAIN cast)
        /\ \A k \in DOMAIN cast :
            /\ cast[k].who \in Contacts
            /\ cast[k].op \in {"refresh", "logout"} => cast[k].ref \in DOMAIN cast

\* What a call does, for whom, and the call whose code or token it brings: 0
\* when it has none, or guesses wrong.
Work(op, who, ref) == [op |-> op, who |-> who, ref |-> ref]

VARIABLES
    account,        \* contacts with a User row
    active,         \* User.isActive
    until,          \* suspendedUntil: "null", "ahead" or "past"
    welcomed,       \* users with the signup bonus
    codes,          \* OTP rows of each contact, oldest first: a phone has at most one
    cooling,        \* phones whose last code was sent within the resend cooldown
    token,          \* RefreshToken rows: "none", "live", "revoked"
    family,         \* their familyId, the call that opened the session
    expired,        \* those past expiresAt
    call,           \* each call: its job, where it is, and its locals
    late,           \* calls in progress when their account was being closed
    replayed,       \* families found replayed
    escaped,        \* refreshes in progress when their family was revoked, and their heirs
    twins,          \* verifications that read a code while another was using it
    torn            \* contacts with a call that was cut

users == <<account, active, until, welcomed>>
otps == <<codes, cooling>>
tokens == <<token, family, expired>>
trail == <<late, replayed, escaped, twins, torn>>
accountVars == <<users, otps, tokens, call, trail>>

Start(job, where) == [job |-> job, pc |-> where, saw |-> FALSE, row |-> [by |-> 0]]

AccountsInit ==
    /\ account = Registered /\ active = [c \in Contacts |-> TRUE]
    /\ until = [c \in Contacts |-> "null"] /\ welcomed = Registered
    /\ codes = [c \in Contacts |-> <<>>] /\ cooling = {}
    /\ \E cast \in Casts :
        /\ call = [k \in DOMAIN cast |-> Start(cast[k], "idle")]
        /\ token = [k \in DOMAIN cast |-> "none"] /\ family = [k \in DOMAIN cast |-> k]
    /\ expired = {}
    /\ late = {} /\ replayed = {} /\ escaped = {} /\ twins = {} /\ torn = {}

Calls == DOMAIN call
Job(k) == call[k].job
Who(k) == Job(k).who
Running(k) == call[k].pc \notin {"idle", "done"}
At(k, where, ops) == call[k].pc = where /\ Job(k).op \in ops
To(k, where) == call' = [call EXCEPT ![k].pc = where]
Finish(k) == call' = [call EXCEPT ![k] = Start(@.job, "done")]
MayStart(k, ops) == At(k, "idle", ops)

Open(c) == c \in account /\ active[c]
Authenticated(k) == Open(Who(k))

-----------------------------------------------------------------------------
(* Sending a code.                                                         *)

Row(k, use) == [by |-> k, for |-> use, tries |-> 0, fresh |-> TRUE, locked |-> FALSE]

\* register: only for an email without an account.
Register(k) ==
    /\ MayStart(k, {"sendRegister"}) /\ Who(k) \notin Phones /\ Who(k) \notin account
    /\ To(k, "checked")
    /\ UNCHANGED <<users, otps, tokens, trail>>

\* deletePendingForEmail.
ClearPending(k) ==
    /\ At(k, "checked", {"sendRegister"}) /\ Who(k) \notin Phones /\ To(k, "cleared")
    /\ codes' = [codes EXCEPT ![Who(k)] = <<>>]
    /\ UNCHANGED <<users, cooling, tokens, trail>>

\* Beside whatever another call has stored since.
StoreEmailCode(k) ==
    /\ At(k, "cleared", {"sendRegister"}) /\ Who(k) \notin Phones /\ Finish(k)
    /\ codes' = [codes EXCEPT ![Who(k)] = Append(@, Row(k, "verifyRegister"))]
    /\ UNCHANGED <<users, cooling, tokens, trail>>

\* requestPhoneRegistrationOtp and requestPhoneLoginOtp.
RequestPhoneOtp(k) ==
    /\ MayStart(k, {"sendRegister", "sendLogin"}) /\ Who(k) \in Phones
    /\ IF Job(k).op = "sendRegister" THEN Who(k) \notin account ELSE Open(Who(k))
    /\ To(k, "checked")
    /\ UNCHANGED <<users, otps, tokens, trail>>

\* dispatchPhoneOtp: a lock does not keep another code from being sent.
CoolDown(k) ==
    /\ At(k, "checked", {"sendRegister", "sendLogin"}) /\ Who(k) \in Phones
    /\ IF Who(k) \in cooling /\ codes[Who(k)] # <<>> THEN Finish(k) ELSE To(k, "cleared")
    /\ UNCHANGED <<users, otps, tokens, trail>>

\* upsertForPhone: the row is replaced, with no attempts and no lock.
StorePhoneCode(k) ==
    LET use == IF Job(k).op = "sendLogin" THEN "verifyLogin" ELSE "verifyRegister"
    IN  /\ At(k, "cleared", {"sendRegister", "sendLogin"}) /\ Who(k) \in Phones /\ Finish(k)
        /\ codes' = [codes EXCEPT ![Who(k)] = <<Row(k, use)>>]
        /\ cooling' = cooling \cup {Who(k)}
        /\ UNCHANGED <<users, tokens, trail>>

-----------------------------------------------------------------------------
(* Using a code: verifyRegistrationOtp, verifyPhoneOtpCode and their       *)
(* callers, and grantSignupBonus.                                          *)

Verifies == {"verifyRegister", "verifyLogin"}
Latest(c) == Last(codes[c])

\* assertRegistrationAvailable comes before the code is looked up.
LoadVerify(k) ==
    /\ MayStart(k, {"verifyRegister"}) /\ Who(k) \notin Phones /\ Who(k) \notin account
    /\ To(k, "checked")
    /\ UNCHANGED <<users, otps, tokens, trail>>

\* Whether the code read is spent, right or wrong, and who else is using it.
Judge(k, row, spent) ==
    LET others == {l \in Calls \ {k} : call[l].pc = "right" /\ call[l].row.by = row.by}
        right == ~spent /\ row.by = Job(k).ref
    IN  /\ call' = [call EXCEPT ![k].row = row,
                                ![k].pc = IF spent THEN "stale" ELSE IF right THEN "right" ELSE "wrong"]
        /\ twins' = IF right /\ others # {} THEN twins \cup others \cup {k} ELSE twins

ReadEmailCode(k) ==
    LET row == Latest(Who(k))
    IN  /\ At(k, "checked", {"verifyRegister"}) /\ Who(k) \notin Phones
        /\ IF codes[Who(k)] = <<>> THEN Finish(k) /\ UNCHANGED twins
           ELSE Judge(k, row, ~row.fresh \/ row.tries >= MaxAttempts)
        /\ UNCHANGED <<users, otps, tokens, late, replayed, escaped, torn>>

ReadPhoneCode(k) ==
    LET row == Latest(Who(k))
    IN  /\ MayStart(k, Verifies) /\ Who(k) \in Phones
        /\ IF codes[Who(k)] = <<>> \/ row.for # Job(k).op \/ row.locked
           THEN Finish(k) /\ UNCHANGED twins
           ELSE Judge(k, row, ~row.fresh)
        /\ UNCHANGED <<users, otps, tokens, late, replayed, escaped, torn>>

\* The rows of s at these places, in their order.
Staying(s, places) ==
    LET stay[n \in 0..Len(s)] ==
            IF n = 0 THEN <<>>
            ELSE IF n \in places THEN Append(stay[n - 1], s[n]) ELSE stay[n - 1]
    IN  stay[Len(s)]

\* Slip: the code is left for the expiry sweep.
WithoutNever(k) == codes[Who(k)]

\* Deletion by phone takes whatever row is there now; by id, only the row read.
Without(k) ==
    LET sent == codes[Who(k)]
    IN  IF Who(k) \in Phones THEN <<>>
        ELSE Staying(sent, {i \in DOMAIN sent : sent[i].by # call[k].row.by})

RemoveStale(k) ==
    /\ At(k, "stale", Verifies) /\ Finish(k)
    /\ codes' = [codes EXCEPT ![Who(k)] = Without(k)]
    /\ UNCHANGED <<users, cooling, tokens, trail>>

Tried(r) == [r EXCEPT !.tries = @ + 1]

\* By the id of the row read, which may be gone.
CountEmailTry(k) ==
    /\ At(k, "wrong", {"verifyRegister"}) /\ Who(k) \notin Phones /\ Finish(k)
    /\ codes' = [codes EXCEPT ![Who(k)] =
                    [i \in DOMAIN @ |-> IF @[i].by = call[k].row.by THEN Tried(@[i]) ELSE @[i]]]
    /\ UNCHANGED <<users, cooling, tokens, trail>>

\* A phone's row keeps its id when it is replaced: the try counts against the new code.
CountPhoneTry(k) ==
    LET now == [i \in DOMAIN codes[Who(k)] |-> Tried(codes[Who(k)][i])]
    IN  /\ At(k, "wrong", Verifies) /\ Who(k) \in Phones
        /\ codes' = [codes EXCEPT ![Who(k)] = now]
        /\ IF \E i \in DOMAIN now : now[i].tries >= MaxAttempts THEN To(k, "locking") ELSE Finish(k)
        /\ UNCHANGED <<users, cooling, tokens, trail>>

LockOut(k) ==
    /\ At(k, "locking", Verifies) /\ Finish(k)
    /\ codes' = [codes EXCEPT ![Who(k)] = [i \in DOMAIN @ |-> [@[i] EXCEPT !.locked = TRUE]]]
    /\ UNCHANGED <<users, cooling, tokens, trail>>

\* verifyPhoneOtpCode ends by deleting the row; nothing asks whether one was there.
TakeCode(k) ==
    /\ At(k, "right", Verifies) /\ Who(k) \in Phones
    /\ codes' = [codes EXCEPT ![Who(k)] = Without(k)]
    /\ To(k, "taken")
    /\ UNCHANGED <<users, cooling, tokens, trail>>

\* verifyPhoneRegistrationOtp goes on.
CheckUnregistered(k) ==
    /\ At(k, "taken", {"verifyRegister"})
    /\ IF Who(k) \in account THEN Finish(k) ELSE To(k, "new")
    /\ UNCHANGED <<users, otps, tokens, trail>>

\* verifyPhoneLoginOtp goes on.
LoadPhoneUser(k) ==
    /\ At(k, "taken", {"verifyLogin"})
    /\ IF Open(Who(k)) THEN To(k, "issue") ELSE Finish(k)
    /\ UNCHANGED <<users, otps, tokens, trail>>

\* The unique email or phone refuses a second account.
NewAccount(k, where) ==
    /\ IF Who(k) \in account THEN Finish(k) /\ UNCHANGED account
       ELSE account' = account \cup {Who(k)} /\ To(k, where)
    /\ UNCHANGED <<active, until, welcomed, otps, tokens, trail>>

CreateEmailUser(k) == At(k, "right", {"verifyRegister"}) /\ Who(k) \notin Phones /\ NewAccount(k, "created")
CreatePhoneUser(k) == At(k, "new", {"verifyRegister"}) /\ NewAccount(k, "bonus")

\* A row that is gone makes the delete throw, after the account was created.
DropCode(k) ==
    LET c == Who(k)
        there == \E i \in DOMAIN codes[c] : codes[c][i].by = call[k].row.by
    IN  /\ At(k, "created", Verifies)
        /\ codes' = [codes EXCEPT ![c] = Without(k)]
        /\ IF there THEN To(k, "bonus") ELSE Finish(k)
        /\ UNCHANGED <<users, cooling, tokens, trail>>

GrantSignupBonus(k) ==
    /\ At(k, "bonus", Verifies) /\ To(k, "issue")
    /\ welcomed' = welcomed \cup {Who(k)}
    /\ UNCHANGED <<account, active, until, otps, tokens, trail>>

-----------------------------------------------------------------------------
(* Sessions: issueSession, login, refresh and logout.                      *)

LoadLogin(k) ==
    /\ MayStart(k, {"login"}) /\ Open(Who(k))
    /\ To(k, "issue")
    /\ UNCHANGED <<users, otps, tokens, trail>>

IssueSession(k) ==
    /\ At(k, "issue", Verifies \cup {"login"}) /\ Finish(k)
    /\ token' = [token EXCEPT ![k] = "live"]
    /\ UNCHANGED <<users, otps, family, expired, trail>>

\* A revoked token is looked at before an expired one.
LoadToken(k) ==
    LET t == Job(k).ref
    IN  /\ MayStart(k, {"refresh"}) /\ token[t] # "none"
        /\ IF token[t] = "revoked" THEN To(k, "replay")
           ELSE IF t \in expired THEN Finish(k) ELSE To(k, "valid")
        /\ UNCHANGED <<users, otps, tokens, trail>>

Of(f) == {t \in Calls : token[t] # "none" /\ family[t] = f}
Revoked(T) == [t \in Calls |-> IF t \in T /\ token[t] = "live" THEN "revoked" ELSE token[t]]

\* Slip: only what descends from the token at hand is looked for.
DoomedOne(k) == {Job(k).ref}

Doomed(k) == Of(family[Job(k).ref])

RevokeFamily(k) ==
    LET f == family[Job(k).ref]
    IN  /\ At(k, "replay", {"refresh"}) /\ Finish(k)
        /\ token' = Revoked(Doomed(k))
        /\ replayed' = replayed \cup {f}
        /\ escaped' = escaped \cup {l \in Calls \ {k} : /\ At(l, "valid", {"refresh"}) \/ At(l, "user", {"refresh"})
                                                        /\ family[Job(l).ref] = f}
        /\ UNCHANGED <<users, otps, family, expired, late, twins, torn>>

CheckUser(k) ==
    /\ At(k, "valid", {"refresh"})
    /\ IF Open(Who(k)) THEN To(k, "user") ELSE Finish(k)
    /\ UNCHANGED <<users, otps, tokens, trail>>

CreateHeir(k) ==
    LET t == Job(k).ref
    IN  /\ At(k, "user", {"refresh"}) /\ To(k, "heir")
        /\ token' = [token EXCEPT ![k] = "live"] /\ family' = [family EXCEPT ![k] = family[t]]
        /\ escaped' = IF t \in escaped THEN escaped \cup {k} ELSE escaped
        /\ UNCHANGED <<users, otps, expired, late, replayed, twins, torn>>

\* By id, whatever the token has become; a deleted row makes it throw.
MarkRotated(k) ==
    /\ At(k, "heir", {"refresh"}) /\ Finish(k)
    /\ token' = Revoked({Job(k).ref})
    /\ UNCHANGED <<users, otps, family, expired, trail>>

LoadLogout(k) ==
    /\ MayStart(k, {"logout"}) /\ token[Job(k).ref] = "live"
    /\ To(k, "valid")
    /\ UNCHANGED <<users, otps, tokens, trail>>

Logout(k) ==
    /\ At(k, "valid", {"logout"}) /\ Finish(k)
    /\ token' = Revoked({Job(k).ref})
    /\ UNCHANGED <<users, otps, family, expired, trail>>

-----------------------------------------------------------------------------
(* adminService.toggleBlock and suspendUser, retentionJob.runSweep.        *)

Closes == {"block", "suspend"}
Busy(c, k) == {l \in Calls \ {k} : Running(l) /\ Who(l) = c}

LoadUser(k) ==
    /\ MayStart(k, Closes) /\ Who(k) \in account
    /\ call' = [call EXCEPT ![k].pc = "loaded", ![k].saw = active[Who(k)]]
    /\ UNCHANGED <<users, otps, tokens, trail>>

CloseNow(k) ==
    /\ active' = [active EXCEPT ![Who(k)] = FALSE]
    /\ late' = late \cup Busy(Who(k), k)
    /\ To(k, "closed")

\* toggleBlock writes the opposite of what it read and leaves suspendedUntil alone.
ToggleBlock(k) ==
    /\ At(k, "loaded", {"block"})
    /\ IF call[k].saw THEN CloseNow(k)
       ELSE active' = [active EXCEPT ![Who(k)] = TRUE] /\ Finish(k) /\ UNCHANGED late
    /\ UNCHANGED <<account, until, welcomed, otps, tokens, replayed, escaped, twins, torn>>

SuspendUser(k) ==
    /\ At(k, "loaded", {"suspend"}) /\ CloseNow(k)
    /\ until' = [until EXCEPT ![Who(k)] = "ahead"]
    /\ UNCHANGED <<account, welcomed, otps, tokens, replayed, escaped, twins, torn>>

\* Slip: only the tokens that opened a session, not those rotated from them.
SessionsOfOpeners(c) == {t \in Calls : token[t] # "none" /\ Who(t) = c /\ family[t] = t}

SessionsOf(c) == {t \in Calls : token[t] # "none" /\ Who(t) = c}

\* revokeAllForUser.
KillSessions(k) ==
    /\ At(k, "closed", Closes) /\ Finish(k)
    /\ token' = Revoked(SessionsOf(Who(k)))
    /\ late' = late \cup Busy(Who(k), k)
    /\ UNCHANGED <<users, otps, family, expired, replayed, escaped, twins, torn>>

\* cleanupInactiveAccounts: codes of both kinds, and tokens whatever their state.
PurgeExpired(k) ==
    /\ MayStart(k, {"sweep"}) /\ To(k, "purged")
    /\ codes' = [c \in Contacts |-> Staying(codes[c], {i \in DOMAIN codes[c] : codes[c][i].fresh})]
    /\ token' = [t \in Calls |-> IF t \in expired THEN "none" ELSE token[t]]
    /\ UNCHANGED <<users, cooling, family, expired, trail>>

FindLapsed(k) ==
    /\ At(k, "purged", {"sweep"})
    /\ IF ~active[Who(k)] /\ until[Who(k)] = "past" THEN To(k, "found") ELSE Finish(k)
    /\ UNCHANGED <<users, otps, tokens, trail>>

Reactivate(k) ==
    /\ At(k, "found", {"sweep"}) /\ Finish(k)
    /\ active' = [active EXCEPT ![Who(k)] = TRUE] /\ until' = [until EXCEPT ![Who(k)] = "null"]
    /\ UNCHANGED <<account, welcomed, otps, tokens, trail>>

-----------------------------------------------------------------------------
(* The clock, and the calls together.                                      *)

Cool(c) ==
    /\ c \in cooling /\ cooling' = cooling \ {c}
    /\ UNCHANGED <<users, codes, tokens, call, trail>>

\* By the defaults a code outlives its cooldown, and the lock the code it is on.
LapseCode(c) ==
    /\ codes[c] # <<>> /\ c \notin cooling /\ (\E i \in DOMAIN codes[c] : codes[c][i].fresh)
    /\ codes' = [codes EXCEPT ![c] = [i \in DOMAIN @ |-> [@[i] EXCEPT !.fresh = FALSE]]]
    /\ UNCHANGED <<users, cooling, tokens, call, trail>>

Unlock(c) ==
    /\ \E i \in DOMAIN codes[c] : codes[c][i].locked /\ ~codes[c][i].fresh
    /\ codes' = [codes EXCEPT ![c] = [i \in DOMAIN @ |-> [@[i] EXCEPT !.locked = FALSE]]]
    /\ UNCHANGED <<users, cooling, tokens, call, trail>>

EndSuspension(c) ==
    /\ until[c] = "ahead" /\ until' = [until EXCEPT ![c] = "past"]
    /\ UNCHANGED <<account, active, welcomed, otps, tokens, call, trail>>

ExpireTokens(c) ==
    LET old == {t \in Calls : Who(t) = c /\ token[t] # "none"}
    IN  /\ ~ old \subseteq expired /\ \A t \in old : ~Running(t)
        /\ expired' = expired \cup old
        /\ UNCHANGED <<users, otps, token, family, call, trail>>

Cut(k) ==
    /\ Running(k) /\ Finish(k)
    /\ torn' = torn \cup {Who(k)}
    /\ UNCHANGED <<users, otps, tokens, late, replayed, escaped, twins>>

AccountsStep ==
    \/ \E k \in Calls :
        \/ Register(k) \/ ClearPending(k) \/ StoreEmailCode(k)
        \/ RequestPhoneOtp(k) \/ CoolDown(k) \/ StorePhoneCode(k)
        \/ LoadVerify(k) \/ ReadEmailCode(k) \/ ReadPhoneCode(k) \/ RemoveStale(k)
        \/ CountEmailTry(k) \/ CountPhoneTry(k) \/ LockOut(k) \/ TakeCode(k)
        \/ CheckUnregistered(k) \/ LoadPhoneUser(k) \/ CreateEmailUser(k) \/ CreatePhoneUser(k)
        \/ DropCode(k) \/ GrantSignupBonus(k)
        \/ LoadLogin(k) \/ IssueSession(k) \/ LoadToken(k) \/ RevokeFamily(k) \/ CheckUser(k)
        \/ CreateHeir(k) \/ MarkRotated(k) \/ LoadLogout(k) \/ Logout(k)
        \/ LoadUser(k) \/ ToggleBlock(k) \/ SuspendUser(k) \/ KillSessions(k)
        \/ PurgeExpired(k) \/ FindLapsed(k) \/ Reactivate(k)
        \/ Cut(k)
    \/ \E c \in Contacts :
        \/ Cool(c) \/ LapseCode(c) \/ Unlock(c) \/ EndSuspension(c) \/ ExpireTokens(c)

-----------------------------------------------------------------------------
(* Properties.                                                             *)

\* Blocking or suspending ends every session (adminService.toggleBlock,
\* suspendUser): an account that is closed, with nobody about to revoke its
\* tokens and no such call cut, has a live refresh token only if a login, a
\* verification or a refresh was in progress when it was closed.
ClosedHasNoSession ==
    \A t \in Calls :
        (/\ token[t] = "live" /\ Who(t) \in account /\ ~active[Who(t)]
         /\ Who(t) \notin torn /\ \A k \in Calls : Who(k) = Who(t) => ~At(k, "closed", Closes))
        => t \in late

\* A refresh token used again ends the whole family (authService.refresh):
\* what lives on after that was being issued by a refresh that had read its
\* token before, or descends from such a one.
ReplayEndsFamily ==
    \A t \in Calls : token[t] = "live" /\ family[t] \in replayed => t \in escaped

\* A code opens one session (verifyPhoneOtpCode deletes it, the unique email
\* and phone stop a second account): two with one code were logins by phone
\* that both read it before either had deleted it.
OneSessionACode ==
    \A k, l \in Calls :
        (/\ k # l /\ Job(k).op \in Verifies /\ Job(l).op \in Verifies /\ Job(k).ref = Job(l).ref
         /\ token[k] # "none" /\ token[l] # "none")
        => Job(k).op = "verifyLogin" /\ {k, l} \subseteq twins
=============================================================================
