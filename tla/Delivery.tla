------------------------------ MODULE Delivery ------------------------------
(* What a user's settings do to the messages of the reminder dispatcher    *)
(* (jobs/reminder_dispatcher.go): notification preferences, time zone,     *)
(* address and push devices, which requests (server/reminders.go,          *)
(* preferences.go, push.go) change while a tick reads and caches them.     *)
(*                                                                         *)
(* Everything is kept per user, so the model has one.  Ticks share only    *)
(* the devices they delete, as Unsubscribe does, so it has one tick at a   *)
(* time.  The in-app notification is in Reminders.                         *)
EXTENDS Naturals, FiniteSets

CONSTANTS
  Url, Address, Token,
  Zone,        \* time zones, as their distance from UTC
  Hours,       \* a day has the hours 0..Hours-1
  Configured,  \* the channels the instance has
  Patcher,     \* requests that PATCH the preferences
  Named,       \* the sets of fields they name: any the client likes
  MaxDue,      \* bounds the reminders of the user in a tick
  MaxAsk,      \* bounds the changes of settings
  MaxFail,     \* bounds the failing reads of a tick
  Faults,      \* reads may fail, ticks may be cut
  Unset        \* NULL, no row, nothing cached

Hour == 0..(Hours - 1)
Preferences == [push : BOOLEAN, apprise : BOOLEAN, email : BOOLEAN, url : Url \cup {Unset},
                start : Hour \cup {Unset}, end : Hour \cup {Unset}]

(* What a PATCH may give a field: an empty apprise_url clears it, the times *)
(* cannot be cleared.                                                      *)
Accepted == [push |-> BOOLEAN, apprise |-> BOOLEAN, email |-> BOOLEAN,
             url |-> Url \cup {Unset}, start |-> Hour, end |-> Hour]

ASSUME DeliveryAssumption ==
  /\ Hours \in Nat \ {0} /\ Zone \subseteq Hour /\ 0 \in Zone
  /\ Named \subseteq SUBSET DOMAIN Accepted
  /\ Unset \notin Hour \cup Preferences
  /\ Configured \subseteq {"push", "apprise", "email"} /\ Configured # {}
  /\ MaxDue \in Nat /\ MaxAsk \in Nat /\ MaxFail \in Nat /\ Faults \in BOOLEAN

VARIABLES
  row,       \* notification_prefs
  zone,      \* user_prefs.timezone
  address,   \* users.email, Unset once the account is deleted
  devices,   \* push_devices
  revoked,   \* tokens the push service answers with 404 or 410
  patching,  \* the row a PATCH has read, and what it changes
  wish,      \* history: the preferences as the user asked for them
  asks,      \* number of changes
  pc,        \* what the tick does next
  hour,      \* its now
  due,       \* reminders it has yet to deliver
  cache,     \* prefCache, tzCache, emailCache and devCache
  toPush,    \* devices it has yet to push the reminder to
  sent,      \* messages of the reminder it is at
  failed,    \* reads that failed in this tick
  seen       \* history: the settings the user had since it began

settings == <<row, zone, address, devices, wish>>
tick == <<pc, hour, due, cache, toPush, sent, failed>>
deliveryVars == <<settings, revoked, patching, asks, tick, seen>>

Defaults == [push |-> TRUE, apprise |-> FALSE, email |-> FALSE,
             url |-> Unset, start |-> Unset, end |-> Unset]
Uncached == [prefs |-> Unset, zone |-> Unset, address |-> Unset, devices |-> Unset]
Settings == [prefs |-> wish, zone |-> zone, address |-> address, devices |-> devices]

(* The bodies of a PATCH that names the fields F, and all bodies *)
Body(F) ==
  {patch \in [F -> UNION {Accepted[f] : f \in F}] : \A f \in F : patch[f] \in Accepted[f]}
Patches == UNION {Body(F) : F \in Named}

DeliveryInit ==
  /\ row = Unset
  /\ zone = Unset
  /\ address \in Address
  /\ devices = Token
  /\ revoked = {}
  /\ patching = [p \in Patcher |-> Unset]
  /\ wish = Defaults
  /\ asks = 0
  /\ pc = "idle"
  /\ hour = 0
  /\ due = 0
  /\ cache = Uncached
  /\ toPush = {}
  /\ sent = {}
  /\ failed = {}
  /\ seen = {}

-----------------------------------------------------------------------------
(* The user's requests                                                     *)

Ask == asks < MaxAsk /\ asks' = asks + 1

Watch == seen' = IF pc = "idle" THEN {} ELSE seen \cup {Settings'}

GetNotificationPrefs == IF row = Unset THEN Defaults ELSE row
GetUserPrefs == IF zone = Unset THEN 0 ELSE zone

(* params: what is there, overwritten by what the PATCH names *)
Overwrite(prefs, patch) ==
  [f \in DOMAIN prefs |-> IF f \in DOMAIN patch THEN patch[f] ELSE prefs[f]]
MutParamsFromDefaults(old, patch) == Overwrite(Defaults, patch)
Params(old, patch) == Overwrite(old, patch)

UpsertNotificationPrefs(new) == row' = new

(* handleUpdateNotificationPrefs reads the row before the body, ...        *)
PatchRead(p, patch) ==
  /\ patching[p] = Unset
  /\ Ask
  /\ patching' = [patching EXCEPT ![p] = [old |-> GetNotificationPrefs, patch |-> patch]]
  /\ UNCHANGED <<settings, revoked, tick, seen>>

(* ... validates, looking up the host of the URL, and writes all of it.    *)
(* Of overlapping requests the last one's row is what the user has.        *)
PatchWrite(p) ==
  /\ patching[p] # Unset
  /\ LET old == patching[p].old
         patch == patching[p].patch
     IN /\ UpsertNotificationPrefs(Params(old, patch))
        /\ wish' = IF GetNotificationPrefs = old THEN Overwrite(wish, patch) ELSE row'
  /\ patching' = [patching EXCEPT ![p] = Unset]
  /\ UNCHANGED <<zone, address, devices, revoked, asks, tick>>
  /\ Watch

(* 400 or 422 *)
PatchRefused(p) ==
  /\ patching[p] # Unset
  /\ patching' = [patching EXCEPT ![p] = Unset]
  /\ UNCHANGED <<settings, revoked, asks, tick, seen>>

(* COALESCE over the row or its defaults; a PATCH of the units alone has   *)
(* no time zone.                                                           *)
UpsertUserPrefs(z) == zone' = IF z = Unset THEN GetUserPrefs ELSE z
UpdateUserPrefs(z) ==
  /\ Ask
  /\ UpsertUserPrefs(z)
  /\ UNCHANGED <<row, address, devices, wish, revoked, patching, tick>>
  /\ Watch

SubscribePush(t) ==
  /\ Ask
  /\ devices' = devices \cup {t}
  /\ UNCHANGED <<row, zone, address, wish, revoked, patching, tick>>
  /\ Watch

DeletePushDevice(t) == devices' = devices \ {t}
UnsubscribePush(t) ==
  /\ Ask
  /\ DeletePushDevice(t)
  /\ UNCHANGED <<row, zone, address, wish, revoked, patching, tick>>
  /\ Watch

ChangeAddress(a) ==
  /\ address # Unset
  /\ Ask
  /\ address' = a
  /\ UNCHANGED <<row, zone, devices, wish, revoked, patching, tick>>
  /\ Watch

(* account.Anonymize; a PATCH under way may still write its row after it. *)
DeleteSettings ==
  /\ address # Unset
  /\ Ask
  /\ row' = Unset
  /\ zone' = Unset
  /\ address' = Unset
  /\ devices' = {}
  /\ wish' = Defaults
  /\ UNCHANGED <<revoked, patching, tick>>
  /\ Watch

Revoke(t) ==
  /\ t \notin revoked
  /\ Ask
  /\ revoked' = revoked \cup {t}
  /\ UNCHANGED <<settings, patching, tick, seen>>

-----------------------------------------------------------------------------
(* Work of reminderDispatchWorker                                          *)

(* isInQuietHours *)
MutNoWrap(p, z) ==
  LET local == (hour + z) % Hours
  IN p.start # Unset /\ p.end # Unset /\ local >= p.start /\ local < p.end
InQuietHours(p, z) ==
  LET local == (hour + z) % Hours
  IN /\ p.start # Unset
     /\ p.end # Unset
     /\ IF p.start <= p.end
        THEN local >= p.start /\ local < p.end
        ELSE local >= p.start \/ local < p.end

Fail(what) ==
  /\ Faults
  /\ Cardinality(failed) < MaxFail
  /\ failed' = failed \cup {what}

(* A tick claims n reminders of the user at the hour h. *)
ClaimReminders(h, n) ==
  /\ pc = "idle"
  /\ pc' = "prefs"
  /\ hour' = h
  /\ due' = n
  /\ seen' = {Settings}
  /\ UNCHANGED <<settings, revoked, patching, asks, cache, toPush, sent, failed>>

(* Whatever the error is, the defaults are used. *)
UserPrefs ==
  /\ pc = "prefs"
  /\ pc' = "zone"
  /\ \/ /\ cache.prefs = Unset
        /\ \/ cache' = [cache EXCEPT !.prefs = GetNotificationPrefs] /\ UNCHANGED failed
           \/ cache' = [cache EXCEPT !.prefs = Defaults] /\ Fail("prefs")
     \/ cache.prefs # Unset /\ UNCHANGED <<cache, failed>>
  /\ UNCHANGED <<settings, revoked, patching, asks, hour, due, toPush, sent, seen>>

UserTimezone ==
  /\ pc = "zone"
  /\ \/ /\ cache.zone = Unset
        /\ \/ cache' = [cache EXCEPT !.zone = GetUserPrefs] /\ UNCHANGED failed
           \/ cache' = [cache EXCEPT !.zone = 0] /\ Fail("zone")
     \/ cache.zone # Unset /\ UNCHANGED <<cache, failed>>
  /\ pc' = IF InQuietHours(cache'.prefs, cache'.zone) THEN "delivered" ELSE "apprise"
  /\ UNCHANGED <<settings, revoked, patching, asks, hour, due, toPush, sent, seen>>

(* The saved URL is validated again, and may be refused now. *)
SendApprise ==
  /\ pc = "apprise"
  /\ pc' = "email"
  /\ IF "apprise" \in Configured /\ cache.prefs.apprise /\ cache.prefs.url # Unset
     THEN \/ sent' = sent \cup {<<"apprise", cache.prefs.url>>} /\ UNCHANGED failed
          \/ Fail("policy") /\ UNCHANGED sent
     ELSE UNCHANGED <<sent, failed>>
  /\ UNCHANGED <<settings, revoked, patching, asks, hour, due, cache, toPush, seen>>

(* GetUserByID finds no deleted account. *)
UserEmail == IF cache.address # Unset THEN cache.address ELSE address
SendEmail ==
  /\ pc = "email"
  /\ pc' = "devices"
  /\ IF "email" \in Configured /\ cache.prefs.email /\ UserEmail # Unset
     THEN \/ /\ cache' = [cache EXCEPT !.address = UserEmail]
             /\ sent' = sent \cup {<<"email", UserEmail>>}
             /\ UNCHANGED failed
          \/ cache.address = Unset /\ Fail("address") /\ UNCHANGED <<cache, sent>>
     ELSE UNCHANGED <<cache, sent, failed>>
  /\ UNCHANGED <<settings, revoked, patching, asks, hour, due, toPush, seen>>

ListPushDevices == IF cache.devices # Unset THEN cache.devices ELSE devices
UserDevices ==
  /\ pc = "devices"
  /\ IF "push" \in Configured /\ cache.prefs.push
     THEN \/ /\ cache' = [cache EXCEPT !.devices = ListPushDevices]
             /\ toPush' = ListPushDevices
             /\ pc' = "push"
             /\ UNCHANGED failed
          \/ cache.devices = Unset /\ Fail("devices") /\ pc' = "delivered"
             /\ UNCHANGED <<cache, toPush>>
     ELSE pc' = "delivered" /\ UNCHANGED <<cache, toPush, failed>>
  /\ UNCHANGED <<settings, revoked, patching, asks, hour, due, sent, seen>>

(* 404 or 410 drops the row, if the DELETE succeeds. *)
SendPush(t) ==
  /\ pc = "push"
  /\ t \in toPush
  /\ toPush' = toPush \ {t}
  /\ sent' = sent \cup {<<"push", t>>}
  /\ \/ t \in revoked /\ DeletePushDevice(t)
     \/ (t \notin revoked \/ Faults) /\ UNCHANGED devices
  /\ UNCHANGED <<row, zone, address, wish, revoked, patching, asks, pc, hour, due,
                 cache, failed>>
  /\ Watch

Delivered == pc = "delivered" \/ (pc = "push" /\ toPush = {})

TickEnds ==
  /\ pc' = "idle"
  /\ hour' = 0
  /\ due' = 0
  /\ cache' = Uncached
  /\ toPush' = {}
  /\ sent' = {}
  /\ failed' = {}
  /\ seen' = {}
  /\ UNCHANGED <<settings, revoked, patching, asks>>

NextReminder ==
  /\ Delivered
  /\ \/ due = 1 /\ TickEnds
     \/ /\ due > 1
        /\ due' = due - 1
        /\ pc' = "prefs"
        /\ sent' = {}
        /\ UNCHANGED <<settings, revoked, patching, asks, hour, cache, toPush, failed, seen>>

(* The process dies, or the minute a job has is over. *)
TickCut == Faults /\ pc # "idle" /\ TickEnds

-----------------------------------------------------------------------------
UserStep ==
  \/ \E p \in Patcher :
       \/ \E patch \in Patches : PatchRead(p, patch)
       \/ PatchWrite(p)
       \/ PatchRefused(p)
  \/ \E z \in Zone \cup {Unset} : UpdateUserPrefs(z)
  \/ \E t \in Token : SubscribePush(t) \/ UnsubscribePush(t) \/ Revoke(t)
  \/ \E a \in Address : ChangeAddress(a)
  \/ DeleteSettings

TickStep ==
  \/ \E h \in Hour, n \in 1..MaxDue : ClaimReminders(h, n)
  \/ UserPrefs
  \/ UserTimezone
  \/ SendApprise
  \/ SendEmail
  \/ UserDevices
  \/ \E t \in Token : SendPush(t)
  \/ NextReminder
  \/ TickCut

DeliveryNext == UserStep \/ TickStep

DeliverySpec == DeliveryInit /\ [][DeliveryNext]_deliveryVars

-----------------------------------------------------------------------------
(* Properties                                                              *)

(* The hours from start up to end, going on past midnight; none if they    *)
(* are equal, or one is missing.                                           *)
Quiet(p, z) ==
  /\ p.start # Unset /\ p.end # Unset
  /\ \E n \in Hour : /\ (p.start + n) % Hours = (hour + z) % Hours
                     /\ \A m \in 0..n : (p.start + m) % Hours # p.end

ZoneOf(s) == IF s.zone = Unset THEN 0 ELSE s.zone
Loud(s, t) == ~Quiet(s.prefs, ZoneOf(t))

Targets(channel, s) ==
  IF channel = "push" THEN s.devices
  ELSE (IF channel = "apprise" THEN {s.prefs.url} ELSE {s.address}) \ {Unset}

(* Nothing goes out that the user had switched off before the tick began:  *)
(* on a channel, to a place or at an hour that none of the settings in     *)
(* force since then allows.  Only when the preferences could not be read   *)
(* is a device pushed to all the same.                                     *)
NothingUnwanted ==
  \A m \in sent :
    /\ \E s \in seen : m[2] \in Targets(m[1], s)
    /\ \/ m[1] = "push" /\ "prefs" \in failed
       \/ \E s, t \in seen : s.prefs[m[1]] /\ (Loud(s, t) \/ "zone" \in failed)

(* The places on a channel that every setting since the tick began allows *)
Wanted(channel) ==
  {x \in UNION {Targets(channel, s) : s \in seen} :
     \A t, r \in seen : t.prefs[channel] /\ Loud(t, r) /\ x \in Targets(channel, t)}

(* Every reminder goes out on each channel and to each place that the user *)
(* had wanted all the time since the tick began, outside the quiet hours,  *)
(* whatever other channels do, unless a read failed.                       *)
NothingMissed ==
  Delivered /\ failed = {} =>
    \A c \in Configured : \A x \in Wanted(c) : <<c, x>> \in sent

-----------------------------------------------------------------------------
(* What makes them inductive                                               *)

(* Values have their types; the row shows what the user asked for. *)
DeliveryTypeOK ==
  /\ row \in Preferences \cup {Unset}
  /\ zone \in Zone \cup {Unset}
  /\ address \in Address \cup {Unset}
  /\ devices \subseteq Token
  /\ patching \in [Patcher -> [old : Preferences, patch : Patches] \cup {Unset}]
  /\ wish = GetNotificationPrefs
  /\ pc \in {"idle", "prefs", "zone", "apprise", "email", "devices", "push", "delivered"}
  /\ hour \in Hour
  /\ cache \in [prefs : Preferences \cup {Unset}, zone : Zone \cup {Unset},
               address : Address \cup {Unset}, devices : (SUBSET Token) \cup {Unset}]
  /\ seen \subseteq [prefs : Preferences, zone : Zone \cup {Unset},
                     address : Address \cup {Unset}, devices : SUBSET Token]

(* Nothing is left of a tick that is over. *)
IdleInv ==
  pc = "idle" => cache = Uncached /\ toPush = {} /\ sent = {} /\ failed = {} /\ seen = {}

(* What a tick keeps was in force at some time since it began. *)
CacheInv ==
  /\ pc # "idle" => Settings \in seen
  /\ cache.prefs # Unset =>
       \/ \E s \in seen : cache.prefs = s.prefs
       \/ cache.prefs = Defaults /\ "prefs" \in failed
  /\ cache.zone # Unset =>
       \/ \E s \in seen : cache.zone = ZoneOf(s)
       \/ cache.zone = 0 /\ "zone" \in failed
  /\ cache.address # Unset => \E s \in seen : cache.address = s.address
  /\ cache.devices # Unset => \E s \in seen : cache.devices = s.devices

(* What a tick knows when it comes to a channel, and what it has done. *)
StageInv ==
  /\ pc \notin {"idle", "prefs"} => cache.prefs # Unset
  /\ pc \in {"apprise", "email", "devices", "push"} =>
       cache.zone # Unset /\ ~InQuietHours(cache.prefs, cache.zone)
  /\ pc = "push" => cache.prefs.push /\ \E s \in seen : toPush \subseteq s.devices

Passed(channel) ==
  \/ pc = "delivered"
  \/ channel = "apprise" /\ pc \in {"email", "devices", "push"}
  \/ channel = "email" /\ pc \in {"devices", "push"}

SentInv ==
  failed = {} => \A c \in Configured : \A x \in Wanted(c) :
    /\ Passed(c) => <<c, x>> \in sent
    /\ c = "push" /\ pc = "push" => x \in toPush \/ <<c, x>> \in sent

DeliveryInv ==
  DeliveryTypeOK /\ IdleInv /\ CacheInv /\ StageInv /\ NothingUnwanted /\ SentInv

=============================================================================
