--------------------------- MODULE Delivery_proofs ---------------------------
(* Proofs about Delivery: a tick neither sends against the settings nor     *)
(* misses what they ask for, whatever the user changes while it runs.       *)
EXTENDS Delivery, TLAPS

USE DeliveryAssumption

-----------------------------------------------------------------------------
(* The clock                                                               *)

LEMMA ModSmall == ASSUME NEW a \in Nat, a < Hours PROVE a % Hours = a
  BY SMT

LEMMA ModWraps ==
  ASSUME NEW a \in Nat, Hours <= a, a < 2 * Hours
  PROVE  a % Hours = a - Hours
  BY SMT

LEMMA ModHour == ASSUME NEW a \in Nat PROVE a % Hours \in Hour
  BY SMT DEF Hour

(* The comparison of isInQuietHours finds the hours that one passes on the *)
(* way from start to end.                                                  *)
LEMMA QuietHours ==
  ASSUME hour \in Hour, NEW p \in Preferences, NEW z \in Hour
  PROVE  InQuietHours(p, z) <=> Quiet(p, z)
<1> DEFINE local == (hour + z) % Hours
<1>1. local \in Hour
  BY ModHour DEF Hour
<1> HIDE DEF local
<1>2. CASE p.start = Unset \/ p.end = Unset
  BY <1>2 DEF InQuietHours, Quiet
<1>3. CASE p.start # Unset /\ p.end # Unset
  <2> DEFINE s == p.start
             e == p.end
             way(n) == (s + n) % Hours
  <2>1. s \in Hour /\ e \in Hour
    BY <1>3 DEF Preferences
  <2> HIDE DEF s, e
  <2>2. \A n \in Hour : way(n) = IF s + n < Hours THEN s + n ELSE s + n - Hours
    BY <2>1, ModSmall, ModWraps DEF Hour
  <2>3. InQuietHours(p, z) <=> IF s <= e THEN local >= s /\ local < e
                                         ELSE local >= s \/ local < e
    BY <1>3 DEF InQuietHours, local, s, e
  <2>4. Quiet(p, z) <=> \E n \in Hour : way(n) = local /\ \A m \in 0..n : way(m) # e
    BY <1>3 DEF Quiet, local, s, e
  <2> HIDE DEF way
  <2>5. ASSUME InQuietHours(p, z) PROVE Quiet(p, z)
    <3>1. CASE local >= s
      <4>1. local - s \in Hour /\ \A m \in 0..(local - s) : m \in Hour
        BY <1>1, <2>1, <3>1 DEF Hour
      <4>2. way(local - s) = local
        BY <1>1, <2>1, <2>2, <4>1 DEF Hour
      <4>3. \A m \in 0..(local - s) : way(m) # e
        BY <1>1, <2>1, <2>2, <2>3, <2>5, <3>1, <4>1 DEF Hour
      <4> QED
        BY <2>4, <4>1, <4>2, <4>3
    <3>2. CASE local < s
      <4> DEFINE n == Hours - s + local
      <4>1. local < e /\ e < s
        BY <1>1, <2>1, <2>3, <2>5, <3>2 DEF Hour
      <4>2. n \in Hour /\ \A m \in 0..n : m \in Hour
        BY <1>1, <2>1, <3>2 DEF Hour
      <4>3. way(n) = local
        BY <1>1, <2>1, <2>2, <4>2 DEF Hour
      <4>4. \A m \in 0..n : way(m) # e
        BY <1>1, <2>1, <2>2, <4>1, <4>2 DEF Hour
      <4> QED
        BY <2>4, <4>2, <4>3, <4>4
    <3> QED
      BY <1>1, <2>1, <3>1, <3>2 DEF Hour
  <2>6. ASSUME Quiet(p, z) PROVE InQuietHours(p, z)
    <3>1. PICK n \in Hour : way(n) = local /\ \A m \in 0..n : way(m) # e
      BY <2>4, <2>6
    <3>2. SUFFICES ASSUME ~InQuietHours(p, z) PROVE FALSE
      OBVIOUS
    <3>3. CASE s <= e
      <4>1. e - s \in Hour /\ way(e - s) = e
        BY <2>1, <2>2, <3>3 DEF Hour
      <4>2. e - s <= n
        BY <1>1, <2>1, <2>2, <2>3, <3>1, <3>2, <3>3 DEF Hour
      <4> QED
        BY <3>1, <4>1, <4>2 DEF Hour
    <3>4. CASE e < s
      <4> DEFINE m == Hours - s + e
      <4>1. m \in Hour /\ way(m) = e
        BY <2>1, <2>2, <3>4 DEF Hour
      <4>2. m <= n
        BY <1>1, <2>1, <2>2, <2>3, <3>1, <3>2, <3>4 DEF Hour
      <4> QED
        BY <3>1, <4>1, <4>2 DEF Hour
    <3> QED
      BY <2>1, <3>3, <3>4 DEF Hour
  <2> QED
    BY <2>5, <2>6
<1> QED
  BY <1>2, <1>3

-----------------------------------------------------------------------------
(* Types                                                                   *)

LEMMA DefaultsTyped == Defaults \in Preferences
  BY DEF Defaults, Preferences

(* A PATCH keeps the preferences well formed, whatever it names. *)
LEMMA OverwriteTyped ==
  ASSUME NEW prefs \in Preferences, NEW patch \in Patches
  PROVE  Overwrite(prefs, patch) \in Preferences
<1> DEFINE new == Overwrite(prefs, patch)
<1>1. DOMAIN prefs = {"push", "apprise", "email", "url", "start", "end"}
  BY DEF Preferences
<1>2. \A f \in DOMAIN patch : f \in DOMAIN Accepted /\ patch[f] \in Accepted[f]
  <2>1. PICK F \in Named : patch \in Body(F)
    BY DEF Patches
  <2> QED
    BY <2>1 DEF Body
<1>3. new = [push |-> new.push, apprise |-> new.apprise, email |-> new.email,
             url |-> new.url, start |-> new.start, end |-> new.end]
  BY <1>1 DEF Overwrite
<1>4. \A f \in DOMAIN prefs : new[f] = prefs[f] \/ new[f] \in Accepted[f]
  BY <1>2 DEF Overwrite
<1>5. new.push \in BOOLEAN /\ new.apprise \in BOOLEAN /\ new.email \in BOOLEAN
  <2>1. Accepted.push = BOOLEAN /\ Accepted.apprise = BOOLEAN /\ Accepted.email = BOOLEAN
    BY DEF Accepted
  <2> QED
    BY <1>1, <1>4, <2>1 DEF Preferences
<1>6. new.url \in Url \cup {Unset}
  <2>1. Accepted.url = Url \cup {Unset}
    BY DEF Accepted
  <2> QED
    BY <1>1, <1>4, <2>1 DEF Preferences
<1>7. new.start \in Hour \cup {Unset} /\ new.end \in Hour \cup {Unset}
  <2>1. Accepted.start = Hour /\ Accepted.end = Hour
    BY DEF Accepted
  <2> QED
    BY <1>1, <1>4, <2>1 DEF Preferences
<1> QED
  BY <1>3, <1>5, <1>6, <1>7 DEF Preferences

LEMMA PreferencesTyped == DeliveryTypeOK => GetNotificationPrefs \in Preferences
  BY DefaultsTyped DEF DeliveryTypeOK, GetNotificationPrefs

LEMMA SettingsTyped ==
  DeliveryTypeOK =>
    Settings \in [prefs : Preferences, zone : Zone \cup {Unset},
                  address : Address \cup {Unset}, devices : SUBSET Token]
  BY PreferencesTyped DEF DeliveryTypeOK, Settings

LEMMA ZoneTyped == ASSUME DeliveryTypeOK, NEW s \in seen PROVE ZoneOf(s) \in Hour
  BY DEF DeliveryTypeOK, ZoneOf

-----------------------------------------------------------------------------
(* A step of a user: the tick stays where it is and sees one more setting. *)

Overlaps ==
  /\ UNCHANGED tick
  /\ pc = "idle" => seen' = {}
  /\ pc # "idle" => seen \subseteq seen' /\ Settings' \in seen'

LEMMA UserType ==
  ASSUME DeliveryTypeOK, UserStep
  PROVE  DeliveryTypeOK' /\ (IdleInv /\ CacheInv => Overlaps)
<1> USE DEF DeliveryTypeOK, Overlaps, Watch, tick, settings
<1>0. /\ GetNotificationPrefs \in Preferences
      /\ Settings \in [prefs : Preferences, zone : Zone \cup {Unset},
                       address : Address \cup {Unset}, devices : SUBSET Token]
  BY PreferencesTyped, SettingsTyped
<1>1. ASSUME NEW p \in Patcher, NEW patch \in Patches, PatchRead(p, patch)
      PROVE  DeliveryTypeOK' /\ (IdleInv /\ CacheInv => Overlaps)
  <2>1. Settings' = Settings /\ GetNotificationPrefs' = GetNotificationPrefs
    BY <1>1 DEF PatchRead, Settings, GetNotificationPrefs
  <2>2. patching' \in [Patcher -> [old : Preferences, patch : Patches] \cup {Unset}]
    BY <1>0, <1>1 DEF PatchRead
  <2> QED
    BY <1>1, <2>1, <2>2 DEF PatchRead, IdleInv, CacheInv
<1>2. ASSUME NEW p \in Patcher, PatchWrite(p)
      PROVE  DeliveryTypeOK' /\ (IdleInv /\ CacheInv => Overlaps)
  <2> DEFINE old == patching[p].old
             patch == patching[p].patch
  <2>1. old \in Preferences /\ patch \in Patches
    BY <1>2 DEF PatchWrite
  <2>2. row' = Overwrite(old, patch) /\ row' \in Preferences /\ row' # Unset
    BY <1>2, <2>1, OverwriteTyped DEF PatchWrite, UpsertNotificationPrefs, Params
  <2>3. wish' = row' /\ GetNotificationPrefs' = row'
    BY <1>2, <2>2 DEF PatchWrite, GetNotificationPrefs
  <2>4. Settings' \in [prefs : Preferences, zone : Zone \cup {Unset},
                       address : Address \cup {Unset}, devices : SUBSET Token]
    BY <1>2, <2>2, <2>3 DEF PatchWrite, Settings
  <2>5. patching' \in [Patcher -> [old : Preferences, patch : Patches] \cup {Unset}]
    BY <1>2 DEF PatchWrite
  <2> QED
    BY <1>2, <2>2, <2>3, <2>4, <2>5 DEF PatchWrite, IdleInv, CacheInv
<1>3. ASSUME NEW p \in Patcher, PatchRefused(p)
      PROVE  DeliveryTypeOK' /\ (IdleInv /\ CacheInv => Overlaps)
  <2>1. Settings' = Settings /\ GetNotificationPrefs' = GetNotificationPrefs
    BY <1>3 DEF PatchRefused, Settings, GetNotificationPrefs
  <2>2. patching' \in [Patcher -> [old : Preferences, patch : Patches] \cup {Unset}]
    BY <1>3 DEF PatchRefused
  <2> QED
    BY <1>3, <2>1, <2>2 DEF PatchRefused, IdleInv, CacheInv
<1>4. ASSUME NEW z \in Zone \cup {Unset}, UpdateUserPrefs(z)
      PROVE  DeliveryTypeOK' /\ (IdleInv /\ CacheInv => Overlaps)
  BY <1>0, <1>4 DEF UpdateUserPrefs, UpsertUserPrefs, GetUserPrefs, GetNotificationPrefs, Settings
<1>5. ASSUME NEW t \in Token, SubscribePush(t)
      PROVE  DeliveryTypeOK' /\ (IdleInv /\ CacheInv => Overlaps)
  BY <1>0, <1>5 DEF SubscribePush, GetNotificationPrefs, Settings
<1>6. ASSUME NEW t \in Token, UnsubscribePush(t)
      PROVE  DeliveryTypeOK' /\ (IdleInv /\ CacheInv => Overlaps)
  BY <1>0, <1>6 DEF UnsubscribePush, DeletePushDevice, GetNotificationPrefs, Settings
<1>7. ASSUME NEW t \in Token, Revoke(t)
      PROVE  DeliveryTypeOK' /\ (IdleInv /\ CacheInv => Overlaps)
  BY <1>0, <1>7 DEF Revoke, GetNotificationPrefs, Settings, IdleInv, CacheInv
<1>8. ASSUME NEW a \in Address, ChangeAddress(a)
      PROVE  DeliveryTypeOK' /\ (IdleInv /\ CacheInv => Overlaps)
  BY <1>0, <1>8 DEF ChangeAddress, GetNotificationPrefs, Settings
<1>9. ASSUME DeleteSettings
      PROVE  DeliveryTypeOK' /\ (IdleInv /\ CacheInv => Overlaps)
  BY <1>9, DefaultsTyped DEF DeleteSettings, GetNotificationPrefs, Settings
<1> QED
  BY UserStep, <1>1, <1>2, <1>3, <1>4, <1>5, <1>6, <1>7, <1>8, <1>9 DEF UserStep

(* What more settings are seen can only take places away. *)
LEMMA WantedShrinks ==
  ASSUME hour' = hour, seen # {}, seen \subseteq seen', NEW c
  PROVE  Wanted(c)' \subseteq Wanted(c)
<1>1. \A s, t : Loud(s, t)' <=> Loud(s, t)
  BY DEF Loud, Quiet
<1>2. \A s : Targets(c, s)' = Targets(c, s)
  BY DEF Targets
<1> QED
  BY <1>1, <1>2 DEF Wanted

LEMMA OverlapKeeps ==
  ASSUME DeliveryInv, Overlaps
  PROVE  (IdleInv /\ CacheInv /\ StageInv /\ NothingUnwanted /\ SentInv)'
<1>1. CASE pc = "idle"
  BY <1>1 DEF DeliveryInv, Overlaps, tick, IdleInv, CacheInv, StageInv, NothingUnwanted, SentInv,
              Wanted, Uncached
<1>2. CASE pc # "idle"
  <2>0. UNCHANGED <<pc, hour, cache, toPush, sent, failed>> /\ seen \subseteq seen' /\ seen # {}
    BY <1>2 DEF DeliveryInv, Overlaps, tick, CacheInv
  <2>1. IdleInv' /\ CacheInv'
    BY <1>2, <2>0 DEF DeliveryInv, Overlaps, tick, IdleInv, CacheInv, ZoneOf
  <2>2. StageInv'
    BY <1>2, <2>0 DEF DeliveryInv, StageInv, InQuietHours
  <2>3. NothingUnwanted'
    <3>1. \A s, t : Loud(s, t)' <=> Loud(s, t)
      BY <2>0 DEF Loud, Quiet
    <3>2. \A c, s : Targets(c, s)' = Targets(c, s)
      BY DEF Targets
    <3> QED
      BY <2>0, <3>1, <3>2 DEF DeliveryInv, NothingUnwanted
  <2>4. SentInv'
    <3> SUFFICES ASSUME failed' = {}, NEW c \in Configured, NEW x \in Wanted(c)'
                 PROVE  /\ Passed(c)' => <<c, x>> \in sent'
                        /\ c = "push" /\ pc' = "push" => x \in toPush' \/ <<c, x>> \in sent'
      BY DEF SentInv
    <3>1. x \in Wanted(c)
      BY <2>0, WantedShrinks
    <3> QED
      BY <2>0, <3>1 DEF DeliveryInv, SentInv, Passed
  <2> QED
    BY <2>1, <2>2, <2>3, <2>4
<1> QED
  BY <1>1, <1>2

-----------------------------------------------------------------------------
(* What a tick knows                                                       *)

(* Of settings the user had, the comparison tells the quiet hours. *)
LEMMA QuietSeen ==
  ASSUME DeliveryTypeOK, NEW s \in seen, NEW t \in seen
  PROVE  Loud(s, t) <=> ~InQuietHours(s.prefs, ZoneOf(t))
<1>1. s.prefs \in Preferences /\ ZoneOf(t) \in Hour /\ hour \in Hour
  BY ZoneTyped DEF DeliveryTypeOK
<1> QED
  BY <1>1, QuietHours DEF Loud

(* A channel that it finds switched on, it may use. *)
LEMMA Allowed ==
  ASSUME DeliveryInv, pc \in {"apprise", "email", "devices", "push"},
         NEW c \in {"push", "apprise", "email"}, cache.prefs[c]
  PROVE  \/ c = "push" /\ "prefs" \in failed
         \/ \E s, t \in seen : s.prefs[c] /\ (Loud(s, t) \/ "zone" \in failed)
<1>1. cache.prefs # Unset /\ cache.zone # Unset /\ ~InQuietHours(cache.prefs, cache.zone)
  BY DEF DeliveryInv, StageInv
<1>2. CASE \E s \in seen : cache.prefs = s.prefs
  <2>1. PICK s \in seen : cache.prefs = s.prefs
    BY <1>2
  <2>2. CASE "zone" \in failed
    BY <2>1, <2>2
  <2>3. CASE "zone" \notin failed
    <3>1. PICK t \in seen : cache.zone = ZoneOf(t)
      BY <1>1, <2>3 DEF DeliveryInv, CacheInv
    <3>2. Loud(s, t)
      BY <1>1, <2>1, <3>1, QuietSeen DEF DeliveryInv
    <3> QED
      BY <2>1, <3>2
  <2> QED
    BY <2>2, <2>3
<1>3. CASE cache.prefs = Defaults /\ "prefs" \in failed
  BY <1>3 DEF Defaults
<1> QED
  BY <1>1, <1>2, <1>3 DEF DeliveryInv, CacheInv

(* Without a failed read, what it keeps is some setting the user had. *)
LEMMA Known ==
  ASSUME DeliveryInv, failed = {}, cache.prefs # Unset
  PROVE  \E s \in seen : cache.prefs = s.prefs
  BY DEF DeliveryInv, CacheInv

(* One more message, and more failures *)
LEMMA SendAllowed ==
  ASSUME NothingUnwanted, hour' = hour, seen \subseteq seen', failed \subseteq failed',
         NEW c, NEW x, sent' \subseteq sent \cup {<<c, x>>},
         \E s \in seen : x \in Targets(c, s),
         \/ c = "push" /\ "prefs" \in failed
         \/ \E s, t \in seen : s.prefs[c] /\ (Loud(s, t) \/ "zone" \in failed)
  PROVE  NothingUnwanted'
<1>1. \A s, t : Loud(s, t)' <=> Loud(s, t)
  BY DEF Loud, Quiet
<1>2. \A d, s : Targets(d, s)' = Targets(d, s)
  BY DEF Targets
<1> SUFFICES ASSUME NEW m \in sent'
             PROVE  /\ \E s \in seen : m[2] \in Targets(m[1], s)
                    /\ \/ m[1] = "push" /\ "prefs" \in failed
                       \/ \E s, t \in seen : s.prefs[m[1]] /\ (Loud(s, t) \/ "zone" \in failed)
  BY <1>1, <1>2 DEF NothingUnwanted
<1>3. CASE m \in sent
  BY <1>3 DEF NothingUnwanted
<1>4. CASE m = <<c, x>>
  BY <1>4
<1> QED
  BY <1>3, <1>4

LEMMA SendNothing ==
  ASSUME NothingUnwanted, hour' = hour, seen \subseteq seen', failed \subseteq failed',
         sent' \subseteq sent
  PROVE  NothingUnwanted'
<1>1. \A s, t : Loud(s, t)' <=> Loud(s, t)
  BY DEF Loud, Quiet
<1>2. \A d, s : Targets(d, s)' = Targets(d, s)
  BY DEF Targets
<1> QED
  BY <1>1, <1>2 DEF NothingUnwanted

LEMMA WantedStays ==
  ASSUME hour' = hour, seen' = seen, NEW c
  PROVE  Wanted(c)' = Wanted(c)
<1>1. \A s, t : Loud(s, t)' <=> Loud(s, t)
  BY DEF Loud, Quiet
<1>2. \A s : Targets(c, s)' = Targets(c, s)
  BY DEF Targets
<1> QED
  BY <1>1, <1>2 DEF Wanted

-----------------------------------------------------------------------------
(* The steps of a tick                                                     *)

LEMMA ClaimKeeps ==
  ASSUME DeliveryInv, NEW h \in Hour, NEW n, ClaimReminders(h, n)
  PROVE  DeliveryInv'
<1> USE DEF ClaimReminders, settings
<1>1. cache = Uncached /\ toPush = {} /\ sent = {} /\ failed = {}
  BY DEF DeliveryInv, IdleInv
<1>2. DeliveryTypeOK'
  BY SettingsTyped DEF DeliveryInv, DeliveryTypeOK, GetNotificationPrefs
<1>3. IdleInv' /\ CacheInv' /\ StageInv' /\ NothingUnwanted'
  BY <1>1 DEF IdleInv, CacheInv, StageInv, NothingUnwanted, Settings, Uncached
<1>4. SentInv'
  BY DEF SentInv, Passed
<1> QED
  BY <1>2, <1>3, <1>4 DEF DeliveryInv

LEMMA UserPrefsKeeps == DeliveryInv /\ UserPrefs => DeliveryInv'
<1> SUFFICES ASSUME DeliveryInv, UserPrefs PROVE DeliveryInv'
  OBVIOUS
<1> USE DEF UserPrefs, settings
<1>0. GetNotificationPrefs \in Preferences /\ Settings' = Settings /\ failed \subseteq failed'
  BY PreferencesTyped DEF DeliveryInv, Settings, Fail
<1>1. DeliveryTypeOK'
  BY <1>0, DefaultsTyped DEF DeliveryInv, DeliveryTypeOK, GetNotificationPrefs
<1>2. cache'.prefs # Unset
  BY <1>0, DefaultsTyped DEF DeliveryInv, DeliveryTypeOK
<1>3. IdleInv' /\ StageInv'
  BY <1>2 DEF IdleInv, StageInv
<1>4. CacheInv'
  <2>1. Settings \in seen /\ Settings.prefs = GetNotificationPrefs
    BY DEF DeliveryInv, DeliveryTypeOK, CacheInv, Settings
  <2>2. \/ \E s \in seen' : cache'.prefs = s.prefs
        \/ cache'.prefs = Defaults /\ "prefs" \in failed'
    BY <1>0, <2>1, <1>2 DEF DeliveryInv, DeliveryTypeOK, CacheInv, Fail
  <2>3. cache'.zone = cache.zone /\ cache'.address = cache.address
          /\ cache'.devices = cache.devices
    BY DEF DeliveryInv, DeliveryTypeOK
  <2> QED
    BY <1>0, <2>1, <2>2, <2>3 DEF DeliveryInv, CacheInv, ZoneOf
<1>5. NothingUnwanted'
  BY <1>0, SendNothing DEF DeliveryInv
<1>6. SentInv'
  BY DEF SentInv, Passed
<1> QED
  BY <1>1, <1>3, <1>4, <1>5, <1>6 DEF DeliveryInv

LEMMA UserTimezoneKeeps == DeliveryInv /\ UserTimezone => DeliveryInv'
<1> SUFFICES ASSUME DeliveryInv, UserTimezone PROVE DeliveryInv'
  OBVIOUS
<1> USE DEF UserTimezone, settings
<1>0. /\ GetUserPrefs \in Zone /\ Settings' = Settings /\ failed \subseteq failed'
      /\ GetNotificationPrefs' = GetNotificationPrefs
  BY DEF DeliveryInv, DeliveryTypeOK, GetUserPrefs, GetNotificationPrefs, Settings, Fail
<1>1. DeliveryTypeOK'
  BY <1>0 DEF DeliveryInv, DeliveryTypeOK
<1>2. /\ cache'.prefs = cache.prefs /\ cache'.address = cache.address
      /\ cache'.devices = cache.devices
  BY DEF DeliveryInv, DeliveryTypeOK
<1>3. cache.prefs # Unset /\ cache'.zone # Unset
  BY <1>0 DEF DeliveryInv, DeliveryTypeOK, StageInv
<1>4. IdleInv' /\ StageInv'
  BY <1>2, <1>3 DEF IdleInv, StageInv, InQuietHours
<1>5. CacheInv'
  <2>1. Settings \in seen /\ ZoneOf(Settings) = GetUserPrefs
    BY DEF DeliveryInv, CacheInv, Settings, ZoneOf, GetUserPrefs
  <2>2. \/ \E s \in seen' : cache'.zone = ZoneOf(s)
        \/ cache'.zone = 0 /\ "zone" \in failed'
    BY <1>0, <1>3, <2>1 DEF DeliveryInv, DeliveryTypeOK, CacheInv, Fail
  <2> QED
    BY <1>0, <1>2, <2>1, <2>2 DEF DeliveryInv, CacheInv, ZoneOf
<1>6. NothingUnwanted'
  BY <1>0, SendNothing DEF DeliveryInv
<1>7. SentInv'
  <2> SUFFICES ASSUME failed' = {}, pc' = "delivered", NEW c \in Configured, NEW x \in Wanted(c)'
               PROVE  FALSE
    BY DEF SentInv, Passed
  <2>1. x \in Wanted(c)
    BY WantedStays
  <2>2. failed = {} /\ InQuietHours(cache'.prefs, cache'.zone)
    BY <1>0
  <2>3. PICK s \in seen : cache.prefs = s.prefs
    BY <1>3, <2>2, Known
  <2>4. PICK t \in seen : cache'.zone = ZoneOf(t)
    BY <1>3, <1>5, <2>2 DEF CacheInv, ZoneOf
  <2>5. ~Loud(s, t)
    BY <1>2, <2>2, <2>3, <2>4, QuietSeen DEF DeliveryInv
  <2> QED
    BY <2>1, <2>5 DEF Wanted
<1> QED
  BY <1>1, <1>4, <1>5, <1>6, <1>7 DEF DeliveryInv

LEMMA SendAppriseKeeps == DeliveryInv /\ SendApprise => DeliveryInv'
<1> SUFFICES ASSUME DeliveryInv, SendApprise PROVE DeliveryInv'
  OBVIOUS
<1> USE DEF SendApprise, settings
<1>0. /\ Settings' = Settings /\ failed \subseteq failed'
      /\ GetNotificationPrefs' = GetNotificationPrefs
  BY DEF GetNotificationPrefs, Settings, Fail
<1>1. DeliveryTypeOK' /\ IdleInv' /\ StageInv'
  BY <1>0 DEF DeliveryInv, DeliveryTypeOK, IdleInv, StageInv, InQuietHours
<1>2. CacheInv'
  BY <1>0 DEF DeliveryInv, CacheInv, ZoneOf
<1>3. cache.prefs # Unset
  BY DEF DeliveryInv, StageInv
<1>4. NothingUnwanted'
  <2>1. CASE sent' = sent
    BY <1>0, <2>1, SendNothing DEF DeliveryInv
  <2>2. CASE sent' # sent
    <3>1. cache.prefs.apprise /\ cache.prefs.url # Unset
            /\ sent' = sent \cup {<<"apprise", cache.prefs.url>>}
      BY <2>2
    <3>2. \E s \in seen : cache.prefs.url \in Targets("apprise", s)
      BY <1>3, <3>1 DEF DeliveryInv, CacheInv, Defaults, Targets
    <3>3. \E s, t \in seen : s.prefs["apprise"] /\ (Loud(s, t) \/ "zone" \in failed)
      BY <3>1, Allowed
    <3> QED
      BY <1>0, <3>1, <3>2, <3>3, SendAllowed DEF DeliveryInv
  <2> QED
    BY <2>1, <2>2
<1>5. SentInv'
  <2> SUFFICES ASSUME failed' = {}, "apprise" \in Configured, NEW x \in Wanted("apprise")'
               PROVE  <<"apprise", x>> \in sent'
    BY DEF SentInv, Passed
  <2>1. x \in Wanted("apprise")
    BY WantedStays
  <2>2. PICK s \in seen : cache.prefs = s.prefs
    BY <1>0, <1>3, Known
  <2>3. s.prefs.apprise /\ x = s.prefs.url /\ x # Unset
    BY <2>1 DEF Wanted, Targets
  <2> QED
    BY <2>2, <2>3 DEF Fail
<1> QED
  BY <1>1, <1>2, <1>4, <1>5 DEF DeliveryInv

LEMMA SendEmailKeeps == DeliveryInv /\ SendEmail => DeliveryInv'
<1> SUFFICES ASSUME DeliveryInv, SendEmail PROVE DeliveryInv'
  OBVIOUS
<1> USE DEF SendEmail, settings
<1>0. /\ Settings' = Settings /\ failed \subseteq failed'
      /\ GetNotificationPrefs' = GetNotificationPrefs
  BY DEF GetNotificationPrefs, Settings, Fail
<1>1. UserEmail \in Address \cup {Unset} /\ \E s \in seen : UserEmail = s.address
  BY DEF DeliveryInv, DeliveryTypeOK, CacheInv, UserEmail, Settings
<1>2. cache' = [cache EXCEPT !.address = cache'.address]
        /\ cache'.address \in {cache.address, UserEmail}
  BY DEF DeliveryInv, DeliveryTypeOK
<1>3. /\ cache'.prefs = cache.prefs /\ cache'.zone = cache.zone
      /\ cache'.devices = cache.devices
  BY <1>2 DEF DeliveryInv, DeliveryTypeOK
<1>4. DeliveryTypeOK'
  BY <1>0, <1>1, <1>2 DEF DeliveryInv, DeliveryTypeOK
<1>5. IdleInv' /\ StageInv'
  BY <1>0, <1>3 DEF DeliveryInv, IdleInv, StageInv, InQuietHours
<1>6. CacheInv'
  BY <1>0, <1>1, <1>2, <1>3 DEF DeliveryInv, CacheInv, ZoneOf
<1>7. cache.prefs # Unset
  BY DEF DeliveryInv, StageInv
<1>8. NothingUnwanted'
  <2>1. CASE sent' = sent
    BY <1>0, <2>1, SendNothing DEF DeliveryInv
  <2>2. CASE sent' # sent
    <3>1. cache.prefs.email /\ UserEmail # Unset /\ sent' = sent \cup {<<"email", UserEmail>>}
      BY <2>2
    <3>2. \E s \in seen : UserEmail \in Targets("email", s)
      BY <1>1, <3>1 DEF Targets
    <3>3. \E s, t \in seen : s.prefs["email"] /\ (Loud(s, t) \/ "zone" \in failed)
      BY <3>1, Allowed
    <3> QED
      BY <1>0, <3>1, <3>2, <3>3, SendAllowed DEF DeliveryInv
  <2> QED
    BY <2>1, <2>2
<1>9. SentInv'
  <2> SUFFICES ASSUME failed' = {}, NEW c \in Configured, NEW x \in Wanted(c)', Passed(c)'
               PROVE  <<c, x>> \in sent'
    BY DEF SentInv, Passed
  <2>1. x \in Wanted(c) /\ failed = {}
    BY <1>0, WantedStays
  <2>2. CASE c = "email"
    <3>1. PICK s \in seen : cache.prefs = s.prefs
      BY <1>7, <2>1, Known
    <3>2. s.prefs.email
      BY <2>1, <2>2 DEF Wanted
    <3>3. x = UserEmail /\ x # Unset
      BY <1>1, <2>1, <2>2 DEF Wanted, Targets
    <3> QED
      BY <2>2, <3>1, <3>2, <3>3 DEF Fail
  <2>3. CASE c # "email"
    BY <2>1, <2>3 DEF DeliveryInv, SentInv, Passed
  <2> QED
    BY <2>2, <2>3
<1> QED
  BY <1>4, <1>5, <1>6, <1>8, <1>9 DEF DeliveryInv

LEMMA UserDevicesKeeps == DeliveryInv /\ UserDevices => DeliveryInv'
<1> SUFFICES ASSUME DeliveryInv, UserDevices PROVE DeliveryInv'
  OBVIOUS
<1> USE DEF UserDevices, settings
<1>0. /\ Settings' = Settings /\ failed \subseteq failed'
      /\ GetNotificationPrefs' = GetNotificationPrefs
  BY DEF GetNotificationPrefs, Settings, Fail
<1>1. ListPushDevices \subseteq Token /\ \E s \in seen : ListPushDevices = s.devices
  BY DEF DeliveryInv, DeliveryTypeOK, CacheInv, ListPushDevices, Settings
<1>2. cache' = [cache EXCEPT !.devices = cache'.devices]
        /\ cache'.devices \in {cache.devices, ListPushDevices}
  BY DEF DeliveryInv, DeliveryTypeOK
<1>3. /\ cache'.prefs = cache.prefs /\ cache'.zone = cache.zone
      /\ cache'.address = cache.address
  BY <1>2 DEF DeliveryInv, DeliveryTypeOK
<1>4. DeliveryTypeOK'
  BY <1>0, <1>1, <1>2 DEF DeliveryInv, DeliveryTypeOK
<1>5. IdleInv' /\ StageInv'
  BY <1>0, <1>1, <1>3 DEF DeliveryInv, IdleInv, StageInv, InQuietHours
<1>6. CacheInv'
  BY <1>0, <1>1, <1>2, <1>3 DEF DeliveryInv, CacheInv, ZoneOf
<1>7. cache.prefs # Unset
  BY DEF DeliveryInv, StageInv
<1>8. NothingUnwanted'
  BY <1>0, SendNothing DEF DeliveryInv
<1>9. SentInv'
  <2> SUFFICES ASSUME failed' = {}, NEW c \in Configured, NEW x \in Wanted(c)'
               PROVE  /\ Passed(c)' => <<c, x>> \in sent'
                      /\ c = "push" /\ pc' = "push" => x \in toPush' \/ <<c, x>> \in sent'
    BY DEF SentInv
  <2>1. x \in Wanted(c) /\ failed = {}
    BY <1>0, WantedStays
  <2>2. CASE c = "push"
    <3>1. PICK s \in seen : cache.prefs = s.prefs
      BY <1>7, <2>1, Known
    <3>2. s.prefs.push
      BY <2>1, <2>2 DEF Wanted
    <3>3. x \in ListPushDevices
      BY <1>1, <2>1, <2>2 DEF Wanted, Targets
    <3> QED
      BY <2>2, <3>1, <3>2, <3>3 DEF Fail, Passed
  <2>3. CASE c # "push"
    <3>1. c \in {"apprise", "email"}
      BY <2>3
    <3> QED
      BY <2>1, <3>1 DEF DeliveryInv, SentInv, Passed
  <2> QED
    BY <2>2, <2>3
<1> QED
  BY <1>4, <1>5, <1>6, <1>8, <1>9 DEF DeliveryInv

LEMMA SendPushKeeps ==
  ASSUME DeliveryInv, NEW t \in Token, SendPush(t)
  PROVE  DeliveryInv'
<1> USE DEF SendPush
<1>0. /\ UNCHANGED <<pc, hour, cache, failed>> /\ toPush' = toPush \ {t}
      /\ seen' = seen \cup {Settings'} /\ GetNotificationPrefs' = GetNotificationPrefs
      /\ sent' = sent \cup {<<"push", t>>} /\ pc = "push" /\ t \in toPush
  BY DEF Watch, GetNotificationPrefs
<1>1. devices' \subseteq Token
  BY DEF DeliveryInv, DeliveryTypeOK, DeletePushDevice
<1>2. DeliveryTypeOK'
  <2>1. Settings' \in [prefs : Preferences, zone : Zone \cup {Unset},
                       address : Address \cup {Unset}, devices : SUBSET Token]
    BY <1>0, <1>1, PreferencesTyped DEF DeliveryInv, DeliveryTypeOK, Settings
  <2> QED
    BY <1>0, <1>1, <2>1 DEF DeliveryInv, DeliveryTypeOK
<1>3. IdleInv' /\ CacheInv'
  BY <1>0 DEF DeliveryInv, IdleInv, CacheInv, ZoneOf
<1>4. StageInv'
  BY <1>0 DEF DeliveryInv, StageInv, InQuietHours
<1>5. NothingUnwanted'
  <2>1. \E s \in seen : t \in Targets("push", s)
    BY <1>0 DEF DeliveryInv, StageInv, Targets
  <2>2. cache.prefs["push"]
    BY <1>0 DEF DeliveryInv, StageInv
  <2>3. \/ "prefs" \in failed
        \/ \E s, r \in seen : s.prefs["push"] /\ (Loud(s, r) \/ "zone" \in failed)
    BY <1>0, <2>2, Allowed
  <2> QED
    BY <1>0, <2>1, <2>3, SendAllowed DEF DeliveryInv
<1>6. SentInv'
  <2> SUFFICES ASSUME failed' = {}, NEW c \in Configured, NEW x \in Wanted(c)'
               PROVE  /\ Passed(c)' => <<c, x>> \in sent'
                      /\ c = "push" /\ pc' = "push" => x \in toPush' \/ <<c, x>> \in sent'
    BY DEF SentInv
  <2>1. x \in Wanted(c)
    BY <1>0, WantedShrinks DEF DeliveryInv, CacheInv
  <2> QED
    BY <1>0, <2>1 DEF DeliveryInv, SentInv, Passed
<1> QED
  BY <1>2, <1>3, <1>4, <1>5, <1>6 DEF DeliveryInv

LEMMA TickEndsKeeps == DeliveryInv /\ TickEnds => DeliveryInv'
<1> SUFFICES ASSUME DeliveryInv, TickEnds PROVE DeliveryInv'
  OBVIOUS
<1> USE DEF TickEnds, settings
<1>1. DeliveryTypeOK'
  BY DEF DeliveryInv, DeliveryTypeOK, GetNotificationPrefs, Uncached, Hour
<1>2. IdleInv' /\ CacheInv' /\ StageInv' /\ NothingUnwanted'
  BY DEF IdleInv, CacheInv, StageInv, NothingUnwanted, Uncached
<1>3. SentInv'
  BY DEF SentInv, Passed
<1> QED
  BY <1>1, <1>2, <1>3 DEF DeliveryInv

LEMMA NextReminderKeeps == DeliveryInv /\ NextReminder => DeliveryInv'
<1> SUFFICES ASSUME DeliveryInv, NextReminder, due > 1 /\ ~TickEnds PROVE DeliveryInv'
  BY TickEndsKeeps DEF NextReminder
<1> USE DEF NextReminder, settings
<1>1. DeliveryTypeOK' /\ IdleInv' /\ StageInv'
  BY DEF DeliveryInv, DeliveryTypeOK, GetNotificationPrefs, IdleInv, StageInv
<1>2. CacheInv'
  BY DEF DeliveryInv, CacheInv, Delivered, Settings, ZoneOf
<1>3. NothingUnwanted' /\ SentInv'
  BY DEF NothingUnwanted, SentInv, Passed
<1> QED
  BY <1>1, <1>2, <1>3 DEF DeliveryInv

-----------------------------------------------------------------------------
(* The theorems                                                            *)

LEMMA DeliveryStart == DeliveryInit => DeliveryInv
<1> SUFFICES ASSUME DeliveryInit PROVE DeliveryInv
  OBVIOUS
<1> USE DEF DeliveryInit
<1>1. DeliveryTypeOK
  BY DefaultsTyped DEF DeliveryTypeOK, GetNotificationPrefs, Uncached, Hour
<1>2. IdleInv /\ CacheInv /\ StageInv /\ NothingUnwanted
  BY DEF IdleInv, CacheInv, StageInv, NothingUnwanted, Uncached
<1>3. SentInv
  BY DEF SentInv, Passed
<1> QED
  BY <1>1, <1>2, <1>3 DEF DeliveryInv

LEMMA DeliveryStep == DeliveryInv /\ [DeliveryNext]_deliveryVars => DeliveryInv'
<1> SUFFICES ASSUME DeliveryInv, [DeliveryNext]_deliveryVars PROVE DeliveryInv'
  OBVIOUS
<1>1. CASE UserStep
  <2>1. DeliveryTypeOK' /\ Overlaps
    BY <1>1, UserType DEF DeliveryInv
  <2> QED
    BY <2>1, OverlapKeeps DEF DeliveryInv
<1>2. CASE TickStep
  BY <1>2, ClaimKeeps, UserPrefsKeeps, UserTimezoneKeeps, SendAppriseKeeps, SendEmailKeeps,
     UserDevicesKeeps, SendPushKeeps, NextReminderKeeps, TickEndsKeeps DEF TickStep, TickCut
<1>3. CASE UNCHANGED deliveryVars
  <2>1. DeliveryTypeOK' /\ Overlaps
    BY <1>3 DEF deliveryVars, settings, tick, DeliveryInv, DeliveryTypeOK, GetNotificationPrefs,
                IdleInv, CacheInv, Settings, Overlaps
  <2> QED
    BY <2>1, OverlapKeeps DEF DeliveryInv
<1> QED
  BY <1>1, <1>2, <1>3 DEF DeliveryNext

(* Every reachable state of settings and ticks satisfies the inductive      *)
(* invariant.                                                              *)
THEOREM DeliveryInvariance == DeliverySpec => []DeliveryInv
  BY DeliveryStart, DeliveryStep, PTL DEF DeliverySpec

(* A tick sends nothing that the user had switched off before it began.    *)
THEOREM Unwanted == DeliverySpec => []NothingUnwanted
<1>1. DeliveryInv => NothingUnwanted
  BY DEF DeliveryInv
<1> QED
  BY <1>1, DeliveryInvariance, PTL

(* A tick whose reads succeed sends all that the user wanted throughout.   *)
THEOREM Missed == DeliverySpec => []NothingMissed
<1>1. DeliveryInv => NothingMissed
  BY DEF DeliveryInv, SentInv, NothingMissed, Delivered, Passed, DeliveryAssumption
<1> QED
  BY <1>1, DeliveryInvariance, PTL

=============================================================================
