------------------------------ MODULE Settings ------------------------------
(***************************************************************************)
(* Run-time configuration and consent: settings rows with their version    *)
(* trail and the Redis cache in front of them, launch presets, and the     *)
(* version of a legal text with what each user was shown of it and has     *)
(* accepted.  The calls are Accounts' calls, with more jobs: ref is the    *)
(* key of a "get", a pair of key and value for "set" and "direct", and the *)
(* new version for "raise".  The audit log entries are left out, and so    *)
(* are the compliance keys other than that version.                        *)
(***************************************************************************)
EXTENDS Accounts

CONSTANTS
    Stored,     \* the PlatformSetting rows at the start: the value of each key, or Unset
    Preset,     \* one of LAUNCH_PRESETS: pairs of key and value, in their order
    Unset       \* no row, no entry

SettingKeys == DOMAIN Stored

ASSUME SettingsAssumption ==
    /\ Stored = [x \in SettingKeys |-> Stored[x]]
    /\ Preset # <<>> /\ DOMAIN Preset = 1..Len(Preset)
    /\ \A i \in DOMAIN Preset : Preset[i].key \in SettingKeys /\ Preset[i].value # Unset
ASSUME SettingJobsAssumption ==
    \A cast \in Casts : \A k \in DOMAIN cast :
        /\ cast[k].op = "get" => cast[k].ref \in SettingKeys
        /\ cast[k].op \in {"set", "direct"} => cast[k].ref.key \in SettingKeys
        /\ cast[k].op = "raise" => cast[k].ref \in Nat \ {0}

VARIABLES
    setting,    \* the rows
    history,     \* newValue of each key's last PlatformSettingVersion row, or what it began with
    cached,     \* the entries in Redis
    ready,      \* redis.status
    overtaken,  \* calls whose row has changed again since they read or wrote it
    excused,    \* keys whose entry has a reason to differ from the row
    astray,     \* keys whose last version row was written out of turn
    text,       \* TERMS_OF_SERVICE_VERSION
    shown,      \* the versions GET /consent/status has told a user of
    accepted,   \* the version of his latest ConsentRecord, 0 without one
    unseen      \* users with a version they accepted on a look at another

settings == <<setting, history, cached, ready, overtaken, excused, astray>>
consent == <<text, shown, accepted, unseen>>
elsewhere == <<users, otps, tokens, trail>>

SettingsInit ==
    /\ setting = Stored /\ history = Stored /\ cached = [x \in SettingKeys |-> Unset]
    /\ ready = TRUE /\ overtaken = {} /\ excused = {} /\ astray = {}
    /\ text = 1 /\ shown = [c \in Contacts |-> {}]
    /\ accepted = [c \in Contacts |-> 0] /\ unseen = {}

Writers == {"set", "preset"}

\* What a call writes, in this order: applyPreset is one write after the other.
Writes(k) == IF Job(k).op = "preset" THEN Preset ELSE <<Job(k).ref>>

\* The write in hand.
Write(k) == Writes(k)[call[k].row.at]
Stores(k) == At(k, "upserted", Writers) \/ At(k, "versioned", Writers)
KeyOf(k) == IF Job(k).op = "get" THEN Job(k).ref ELSE Write(k).key

\* The calls that hold a value of key x they are still to store somewhere.
Holding(x) == {l \in Calls : (At(l, "holding", {"get"}) \/ Stores(l)) /\ KeyOf(l) = x}

-----------------------------------------------------------------------------
(* settingsService.                                                        *)

\* cacheGet: without Redis, or without an entry, the row decides.
CacheGet(k) ==
    /\ MayStart(k, {"get"})
    /\ IF ready /\ cached[Job(k).ref] # Unset THEN Finish(k) ELSE To(k, "missed")
    /\ UNCHANGED <<elsewhere, settings, consent>>

ReadSetting(k) ==
    LET value == setting[Job(k).ref]
    IN  /\ At(k, "missed", {"get"})
        /\ IF value = Unset THEN Finish(k)
           ELSE call' = [call EXCEPT ![k].pc = "holding", ![k].row = [value |-> value]]
        /\ UNCHANGED <<elsewhere, settings, consent>>

\* cacheSet, and whether what it leaves is out of date: nothing is written
\* without Redis, and then an entry from before stays.
CacheSet(k, x, value) ==
    /\ cached' = IF ready THEN [cached EXCEPT ![x] = value] ELSE cached
    /\ excused' = IF k \in overtaken \/ (~ready /\ Job(k).op # "get") THEN excused \cup {x}
                  ELSE IF ready THEN excused \ {x} ELSE excused

FillCache(k) ==
    /\ At(k, "holding", {"get"}) /\ Finish(k)
    /\ CacheSet(k, Job(k).ref, call[k].row.value)
    /\ UNCHANGED <<elsewhere, setting, history, ready, overtaken, astray, consent>>

\* writeValue, once for each write: the row as it was is only for the trail.
LoadSetting(k) ==
    /\ \/ MayStart(k, Writers) /\ call' = [call EXCEPT ![k].pc = "existing", ![k].row = [at |-> 1]]
       \/ At(k, "next", Writers) /\ call' = [call EXCEPT ![k].pc = "existing", ![k].row.at = @ + 1]
    /\ UNCHANGED <<elsewhere, settings, consent>>

UpsertSetting(k) ==
    LET w == Write(k)
    IN  /\ At(k, "existing", Writers) /\ To(k, "upserted")
        /\ setting' = [setting EXCEPT ![w.key] = w.value]
        /\ overtaken' = (overtaken \cup Holding(w.key)) \ {k}
        /\ UNCHANGED <<elsewhere, history, cached, ready, excused, astray, consent>>

CreateVersion(k) ==
    LET w == Write(k)
    IN  /\ At(k, "upserted", Writers) /\ To(k, "versioned")
        /\ history' = [history EXCEPT ![w.key] = w.value]
        /\ astray' = IF k \in overtaken THEN astray \cup {w.key} ELSE astray \ {w.key}
        /\ UNCHANGED <<elsewhere, setting, cached, ready, overtaken, excused, consent>>

GoOn(k) == IF call[k].row.at < Len(Writes(k)) THEN To(k, "next") ELSE Finish(k)

\* Slip: the entry is left to its TTL.
RefreshForgotten(k) == UNCHANGED <<cached, excused>>

Refresh(k) == CacheSet(k, Write(k).key, Write(k).value)

RefreshCache(k) ==
    /\ At(k, "versioned", Writers) /\ GoOn(k) /\ Refresh(k)
    /\ UNCHANGED <<elsewhere, setting, history, ready, overtaken, astray, consent>>

\* A row changed or deleted by something other than writeValue.
DirectWrite(k) ==
    LET w == Job(k).ref
    IN  /\ MayStart(k, {"direct"}) /\ Finish(k)
        /\ setting' = [setting EXCEPT ![w.key] = w.value]
        /\ overtaken' = overtaken \cup Holding(w.key)
        /\ excused' = excused \cup {w.key} /\ astray' = astray \cup {w.key}
        /\ UNCHANGED <<elsewhere, history, cached, ready, consent>>

\* CACHE_TTL_SECONDS have gone by.
EntryExpires(x) ==
    /\ cached[x] # Unset
    /\ cached' = [cached EXCEPT ![x] = Unset] /\ excused' = excused \ {x}
    /\ UNCHANGED <<elsewhere, call, setting, history, ready, overtaken, astray, consent>>

\* Of no consequence unless a call uses it.
RedisComesAndGoes ==
    /\ \E k \in Calls : Job(k).op \in Writers \cup {"get"}
    /\ ready' = ~ready
    /\ UNCHANGED <<elsewhere, call, setting, history, cached, overtaken, excused, astray, consent>>

\* GET /admin/settings reads the rows, not the cache.
ListAll == setting

-----------------------------------------------------------------------------
(* complianceConfigService.adminUpdate and consentService.                 *)

Raise(k) ==
    /\ MayStart(k, {"raise"}) /\ Finish(k)
    /\ text' = Job(k).ref
    /\ UNCHANGED <<elsewhere, settings, shown, accepted, unseen>>

Look(k) ==
    /\ MayStart(k, {"look"}) /\ Authenticated(k) /\ Finish(k)
    /\ shown' = [shown EXCEPT ![Who(k)] = @ \cup {text}]
    /\ UNCHANGED <<elsewhere, settings, text, accepted, unseen>>

\* accept is called after a look; the version is the one of now, not of then.
LoadVersion(k) ==
    /\ MayStart(k, {"accept"}) /\ Authenticated(k) /\ shown[Who(k)] # {}
    /\ call' = [call EXCEPT ![k].pc = "agreed", ![k].row = [version |-> text]]
    /\ unseen' = IF text \in shown[Who(k)] THEN unseen ELSE unseen \cup {<<Who(k), text>>}
    /\ UNCHANGED <<elsewhere, settings, text, shown, accepted>>

CreateConsent(k) ==
    /\ At(k, "agreed", {"accept"}) /\ Finish(k)
    /\ accepted' = [accepted EXCEPT ![Who(k)] = call[k].row.version]
    /\ UNCHANGED <<elsewhere, settings, text, shown, unseen>>

\* Slip: only who never accepted anything is asked.
NeedsFirstAcceptance(c) == accepted[c] = 0

NeedsReacceptance(c) == accepted[c] # text

-----------------------------------------------------------------------------
SettingsStep ==
    \/ \E k \in Calls :
        \/ CacheGet(k) \/ ReadSetting(k) \/ FillCache(k)
        \/ LoadSetting(k) \/ UpsertSetting(k) \/ CreateVersion(k) \/ RefreshCache(k) \/ DirectWrite(k)
        \/ Raise(k) \/ Look(k) \/ LoadVersion(k) \/ CreateConsent(k)
    \/ \E x \in SettingKeys : EntryExpires(x)
    \/ RedisComesAndGoes

\* Whatever else happens, a write that is cut leaves its key with an excuse.
Meanwhile ==
    LET dropped == {KeyOf(k) : k \in {l \in Calls : Stores(l) /\ call'[l].pc = "done"}}
    IN  /\ excused' = excused \cup dropped /\ astray' = astray \cup dropped
        /\ UNCHANGED <<setting, history, cached, ready, overtaken, consent>>

-----------------------------------------------------------------------------
(* Properties.                                                             *)

InFlight(x) == \E k \in Calls : Stores(k) /\ Write(k).key = x

\* Row, cache and version trail of a setting tell the same, whatever readers,
\* writers, presets, expiring entries and outages of Redis come together
\* (readValue, writeValue), but for a write in progress and these reasons: a
\* value stored after another write had overtaken it, a write that was cut or
\* found Redis away, and a row changed behind the service's back.
SettingsAgree ==
    \A x \in SettingKeys : ~InFlight(x) =>
        /\ cached[x] \in {Unset, ListAll[x]} \/ x \in excused
        /\ history[x] = ListAll[x] \/ x \in astray

\* Who is not asked to accept again was shown the text as it is now
\* (consentService.status, accept): a new version asks everybody, and only
\* who had it replaced between his look and his acceptance is taken to have
\* accepted what he never saw.
ConsentCoversText ==
    \A c \in Contacts :
        ~NeedsReacceptance(c) => text \in shown[c] \/ <<c, text>> \in unseen
=============================================================================
