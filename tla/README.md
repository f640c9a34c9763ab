# Zymo in TLA+

Zymo is a self-hosted brewing log: a Go server over PostgreSQL, with River as
its job queue inside the same process and a local or S3 store for files. This
directory models the parts of it whose correctness depends on what runs at the
same time or breaks half-way. TLC checks the models on small instances; TLAPS
proves their main invariants for all values of the constants.

    tlc -workers 4 -config MCExports.cfg MCExports     # a run
    tlapm Exports_proofs.tla                           # the proofs of a module

## 1. The system

Every HTTP request runs in a goroutine of its own (`internal/server`), every
job in a goroutine of River (`internal/jobs`). They share the database and the
file stores, and nothing else: there is no in-memory state besides the rate
limiter. What a request reads may therefore be out of date in its next
statement. Most handlers run several statements without a transaction, each
committed on its own; the recipe handlers, registration and account deletion
use one. Transactions run at READ COMMITTED, except for registration.

| Component | State | Operations | What makes it correct |
|---|---|---|---|
| User exports (`server/exports.go`, `jobs/user_export.go`) | `user_exports`, archives in the export store | trigger, claim, build and store, complete, fail, download and retire, prune after 1 h | built once; offered only with its whole archive; retired only after use; one deleter; ends in the end; no archive left behind |
| Admin backups (`jobs/admin_backup.go`) | `admin_backups`, dumps in the backup store | schedule daily or trigger, claim, `pg_dump` through a pipe into the store, complete, fail, prune, download | complete means the whole dump; the two ends of the pipe never wait for each other for ever |
| Reminders and templates (`server/reminders.go`, `reminder_templates.go`, `batches.go`) | `reminders`, `recipe_reminder_templates`, `batches.started_at` and `stage` | CRUD, materialize and re-anchor from a batch's start or an event, advance the stage | follow the anchor; no duplicates; a fired one is not moved; stage only forward |
| Reminder dispatcher (`jobs/reminder_dispatcher.go`) | `reminders.status`, `notifications` | claim what is due, insert a notification, deliver | one notification per scheduling, and none lost |
| Recipes (`server/recipes.go`) | `recipes`, `recipe_ingredients`, `recipe_revisions` | create, update (a new revision each), fork, delete; batches pin a revision | revisions numbered without gap; the newest shows the recipe; `fork_count` exact; forks keep their source |
| Accounts (`server/auth.go`, `profile.go`, `account/account.go`, `cmd/zymo`) | `users`, `sessions`, deletion requests | register, login, change password, delete and anonymize, reprocess after a restore | one first administrator; old sessions end with the old password; deleted stays deleted |
| E-mail change (`server/email_change.go`) | `email_change_requests` | initiate, confirm, cancel | one request active; a cancelled one has no effect |
| Delivery of reminders (`jobs/reminder_dispatcher.go`, `server/reminders.go`, `preferences.go`, `push.go`) | `notification_prefs`, `user_prefs`, `push_devices`, the caches of a tick | patch preferences and time zone, subscribe, unsubscribe; Apprise, mail, push | nothing goes out against the settings, nothing wanted is missed |
| Lists (`server/pagination.go`) | cursor in the client | page through one of seven lists by (sort key, id) | no unchanged row is skipped or repeated |
| Rate limiter (`ratelimit`) | buckets in memory | allow, evict | eviction forgets nothing that matters |
| Readings, comments | a table each | single statements, shown as lists | see lists |
| Tasting notes, likes, inventory | a table each | single statements | (no interplay) |
| Stores (`storage`) | files or objects | put, open, delete, presign | see exports and backups |
| Calculators, Apprise validation, real IP, configuration, migrations, web client | none, or external | | |

How they interact:

- Triggers insert `pending` rows that River's ticks claim. The dispatchers for
  exports, backups and reminders are inserted every minute into one queue of 5
  workers (`jobs.go:71-111`). Nothing makes them unique, so a tick that takes
  more than a minute overlaps with the next one. River gives a job 1 minute by
  default and then cancels its context, including the queries that would record
  the failure. A long `pg_dump` or archive meets this.
- Creating or patching a batch, and writing an event, materializes the reminder
  templates of the batch's recipe.
- `account.Anonymize` deletes the user's rows in most tables while other
  requests of that user, which passed authentication before, go on and may
  write again, and while export ticks build. `zymo reprocess-deletions` calls
  it after a backup was restored.
- Reminder ticks read preferences, address and devices that requests change, and
  keep what they read for the rest of the tick.
- Forks and batches reference recipe revisions, and so keep recipes undeletable.

What is hard: ticks that overlap; rows claimed and committed before the work is
done; files and rows that change one after the other; the synchronous pipe
between `pg_dump` and the store; reads before a transaction that it then relies
on; `INSERT ... SELECT ... WHERE NOT EXISTS`, which does not see uncommitted
rows; checks of a password or an address in one statement and the write that
relies on them in another; settings cached while they change; pages of a list
that moves; crashes and cancelled jobs. PROJECT.json lists these hazards by
line.

## 2. The modules

| Module | Content |
|---|---|
| `Artifacts` | abstract: what exports and backups both promise a client |
| `Exports`, `MCExports`, `Exports_proofs` | the export pipeline; implements `Artifacts` |
| `Backups`, `MCBackups`, `Backups_proofs` | admin backups; implement `Artifacts` |
| `Reminders`, `MCReminders`, `Reminders_proofs` | one batch, its reminders and their templates, the dispatcher |
| `Histories` | abstract: what recipes promise to forks and batches |
| `Recipes`, `MCRecipes`, `Recipes_proofs` | recipes, revisions, forks; implement `Histories` |
| `Accounts`, `MCAccounts`, `Accounts_proofs` | registration, sessions, passwords, deletion, restore and reprocessing |
| `EmailChange`, `MCEmailChange`, `EmailChange_proofs` | the verified change of an address |
| `Lists` | a client that pages through a list while others write |
| `TokenBucket` | abstract: a rate limiter that forgets nothing |
| `RateLimit` | the limiter with its eviction; implements `TokenBucket` |
| `Delivery`, `Delivery_proofs` | the user's settings and the messages of a tick |
| `Standalone_proofs` | the proofs of `Lists` and `RateLimit` |
| `MCStandalone` | the instances of `Lists`, `RateLimit` and `Delivery` |

In all of them a variable ending in `pc` says where a request or tick stands,
an autocommitted SQL statement or a call of the store is one action, and
between two of these everybody else may act. A row is a value of `status`, with
`"absent"` before its INSERT and `"gone"` after its DELETE; the set of ids
bounds how many rows are ever created (where ids are free again after a DELETE,
the module says so). An operator named like a query of `internal/queries` is
what that query reads or does to the rows. A boolean `Faults` (`faults` in
Backups) allows crashes, timeouts and failing calls. Operators whose name
starts with `Mut` are wrong versions of the definition after them; no action
uses them, and each property is known to fail with one of them in place.

**Artifacts.** A job is absent, queued, working, offered, over, in that order
(`phase`), and its artifact whole in the store or not (`whole`). It is offered
only while whole, and never again once it is over. Requests, claims and the
completion move one phase each; anything may withdraw a job. As one step of an
implementation may move several rows (a claim of up to five, a DELETE of all),
a step is the conjunction of one step of each job.

**Exports.** `user_exports` is `status`, `owner`, `hasPath`, `ttl` (expires_at
has passed); the archive of a row is `blob`, none, partial or whole. A tick
claims (`Claim`), then for each row builds, opens the file and fills it
(`Build`, `PutBegin`, `PutEnd`), completes or fails the row (`Complete`,
`Fail`), and prunes (`Prune`, `PruneUnlink`). `Timeout` is the end of a tick
whose context was cancelled: the failure is not recorded either. A trigger is
`TriggerCheck` and `TriggerCreate`; a download is `DownloadRead`,
`DownloadOpen`, `DownloadStream`, `DownloadRetire`, `DownloadUnlink`.
Anonymization lists paths, deletes the rows under lock, commits and then
deletes files (`AnonList` to `AnonDone`).

**Backups.** A tick backs up one row per pass with two goroutines:
`DumpDone`, `DumpBreaks`, `DumpDies` are the ends of `pg_dump` and what they
do to the pipe (`pipe`: eof, or broken with the error), `PutBegin`, `Copy`,
`CopyFails`, `PutEnd` the store reading from it, `ClosePipe` and `Join` the
code after Put. A chunk passes only when both sides are there; `stored` counts
the chunks in the file. The local store shows a growing file, S3 an object that
appears at the end; `Init` leaves the choice open.

**Reminders.** The recipe's templates (`anchor`, `offset`), the batch
(`batch`, `stage`, `started`) and the reminders (`status`, `tmpl`, `fireAt`).
A request that materializes does `Reanchor` (the UPDATE of what is scheduled),
`Select` and `Insert` (the two halves of INSERT ... SELECT), and an event then
`AdvanceStage` with the stage it read when it began. A tick claims what is due
(`due`) and writes one notification per step. `episode` is history: it counts
how often a reminder has become scheduled, to tell a second notification of one
scheduling from the first of the next.

**Recipes.** The columns of a recipe other than its counters are one value
(`Meta`), its ingredient list another (`Ings`); a NULL in a patch is `None`. An
update is `UpdateRead`, `UpdateMeta` (which takes the row lock and returns the
row as it is now), `UpdateIngredients`, `Revise` (insert the revision, set it,
commit). A fork is `ForkRead` and `ForkList` before the transaction,
`IncrementForkCount` (the lock) and `Fork` (insert and commit). What a
transaction writes shows on commit; `Abort` rolls back.

**Histories.** A recipe is the list of its revisions (`history`), which only
grows at its end; a fork starts as a revision of its source and keeps it
(`source`); a recipe that batches or forks refer to is not removed, and a
removed one never comes back. In Recipes `history` is
`recipe_revisions` up to `revision_count`, so an UPDATE that has not committed,
the counters and the locks are not seen.

**Accounts.** `users` is `acct`, `admin`, `password`, `personal`; `sessions` is
`owner` and `expired`; `requests` the deletion requests. A password is the
number of the change that set it. A request is its statements: `RegisterOpen`
or `RegisterCount` and `RegisterCommit` (a commit makes every count before it
stale, as SERIALIZABLE does; `RegisterClosed` is its 40001), `LoginVerify`,
`LoginFetch`, `IssueSession`; `ChangeUpdate`, `ChangeRotate`, `IssueSession`;
`WriteProfile`; `CreateAccountDeletionRequest`, then `AnonymizeDelete` (the
DELETEs, which hold what they found) and `AnonymizeCommit`. The last two are
also what `List` and `Reprocess` of the command lead to. An operator may take a
dump (`TakeDump`) and restore it with the server down (`Restore`). History:
`cred` is the password a session was issued on, `late` says that it was no
longer the user's then, `kept` whose change of the password broke off between
its statements.

**EmailChange.** The rows are `owner`, `new`, `expired`, in the order of their
ids; `links` and `notices` are the rows whose confirm or cancel link is out.
Initiating is `Initiate`, `Clear`, `Create` and `SendLinks`, or `SendFails` and
`Rollback` (a relay that reports an error may have taken the mail). Confirming
is `ConfirmRead`, `UpdateUserEmail`, `Cleanup`; cancelling `CancelRead`,
`Cancel`. `Anonymize` takes the user's rows except one inserted after its
DELETE; `DeleteExpiredEmailChangeRequests` is the hourly job.

**Lists.** One behaviour is about one of the seven lists that share
`parseListPagination` and `nextCursor`. A row is its sort key, 0 where there is
none. `FirstOfRest` is the SELECT of a page, `Serve` what the handler answers
and the client keeps; every handler that adds, moves or removes a row of a list
is an action: those of batches, readings, events, recipes (with their
publication and withdrawal), comments and notifications, and the cascade from
the batch or recipe above.

**RateLimit.** `Allow` is one step, under the mutex: it evicts idle buckets when
that is due, makes a bucket for a new key, and takes a token if there is one.
`Level` is the bucket of `golang.org/x/time/rate`. `TokenBucket` has a full
bucket for every key from the start; a key without a bucket is mapped to a full
one.

**Delivery.** One user, as everything is kept per user. `PatchRead` and
`PatchWrite` are the read and the write of a PATCH, which merges in between;
`UpdateUserPrefs`, `SubscribePush`, `UnsubscribePush`, `ChangeAddress` and
`DeleteSettings` (from Anonymize) are one statement each. A tick reads into its
caches (`UserPrefs`, `UserTimezone`, `UserEmail`, `UserDevices`), checks the
quiet hours, and sends by Apprise, mail and push; a push service that answers
404 or 410 has the device removed. History: `wish` is what the user asked for,
apart from the row; `seen` the settings there were since the tick began.

## 3. The runs

| Run | States | What it asks |
|---|---|---|
| `exports_safety` | 1.6 M | 2 ticks, 2 requests and the account's deletion over 2 exports, everything may fail: `ClaimedByOne`, `CompleteHasArchive`, `RetiredOnlyAfterUse`, `OneUnlinker`, `ImplementsArtifacts` |
| `exports_live` | 161 k | without faults and with one request at a time: `RequestedEnds`, `ArchiveIsRemoved`, `NoArchiveLeaks`, `OneInFlightPerUser` |
| `backups` | 76 k | 2 rows, 2 ticks, a dump of 2 chunks, both stores, with and without failing queries: `CompleteIsWhole`, `ServedIsWhole`, `NoDumpLeaks`, `ImplementsArtifacts`, `BackupEnds`, `DumpIsRemoved` |
| `reminders_safety` | 254 k | 2 ticks and 2 requests over a reminder that may become scheduled 3 times, with faults: `NotifiedOncePerSchedule`, `FiredWasDue` |
| `reminders_serial` | 3.2 M | requests one after the other, in every order, with a tick: `RemindersFollowStart`, `NoDuplicateReminders` |
| `reminders_live` | 325 k | no faults, 2 reminders and a claim of one at a time: `ScheduledIsNotified` |
| `recipes` | 2.5 M | 2 requests over 2 recipes, 2 contents of each kind, 3 revisions: `RevisionsNumbered`, `SnapshotIsCurrent`, `ForkCountExact`, `ForkFollowsPin`, `ImplementsHistories` |
| `accounts` | 2.1 M | 2 requests and the command over 2 accounts and 2 sessions, both modes, a dump and its restore, everything may fail: `OneFirstAdmin`, `DeletedIsErased`, `OldSessionsEnd`, `ReprocessedAll` |
| `email_change` | 638 k | 2 requests of 2 users over 3 addresses, mails that fail, expiry, deletion: `OnlyNewestLinkWorks`, `StaysForgotten`, `AddressesForgotten` |
| `standalone` | 1.45 M | three parts without shared state, each behaviour moving one: `PagesComplete`, `ImplementsTokenBucket`, `NothingUnwanted`, `NothingMissed` |
| `exports_stuck_running`, `accounts_restore` | | violations, see section 6 |

Bounds. Every hazard is between two actors over one row, or about a second row
in the same tick, and two of each reach it: two ticks that claim at once, two
downloads that end at once, a claim limit smaller than the number of rows. The
code's limits (5 exports, 100 reminders, one backup) become 1 or 2, so that the
limit is met. `Chunks = 2` is the least with a file that is there and not
whole. `MaxEpisode = 3` lets a firing that a tick still holds meet two later
ones of the same reminder. `MaxRevision = 3` lets two updates overlap after
the first revision. The clock of Reminders stops at `MaxTime`, with anchors and
offsets on both sides of it. With 2 recipes in `recipes`, two forks of one
recipe cannot both complete; the proof of `ForkCountExact` covers that, and so
did one check of 3 recipes with 2 revisions (6.4 M states, not kept as a run).
In `accounts` two sessions and two passwords (`MaxPassword = 2`) let a login on
the old password overlap a change, and two handlers with the command let two
deletions of one user wait for each other's rows; mode open creates one user
only, mode single_user has an id for each of two overlapping registrations. In
`email_change` the third address is free, so that both users may ask for it and
one is refused. In `standalone` three rows with two times and pages of one or
two are enough for a tie in the key at the end of a page; a bucket of 2 tokens
at 2 units each refills within `IdleTTL = 4`, exactly as long as an idle bucket
is kept, and `MaxNow = 14` covers several evictions; 3 hours are the least in
which quiet hours can wrap over midnight and leave an hour outside on their
other side. In Delivery a user makes 2 changes (`MaxAsk`) and one read fails
(`MaxFail`); a PATCH names one field, or two that belong together (`Named`), so
that quiet hours can be set in one request; the proofs let it name any set of
fields. The deadlock check is on in every run.

Fairness. River starts each dispatcher every minute and runs it, so a tick's
next step is weakly fair; a request that was started goes on, as a goroutine
does; a `pg_dump` that is not blocked makes progress; time passes. No fairness
is assumed of clients (nobody has to trigger or download anything), of faults,
or of a transaction that somebody else has to end. In Exports an anonymization
that has begun goes on. In EmailChange a request that was started goes on or
breaks off, a row expires in the end, and the hourly job (`jobs.go:77-83`) runs
again and again. Liveness of exports, backups and reminders is claimed without
faults, since a crash does break it (section 6); `AddressesForgotten` is
checked with them.

Only while requests of one user do not overlap do `OneInFlightPerUser`,
`RemindersFollowStart` and `NoDuplicateReminders` hold: the check and the insert
of a trigger are two statements; NOT EXISTS does not see another
materialization's uncommitted rows; a re-anchoring may use an anchor that
another request has replaced. Each states that condition (`Serial`), and
`RemindersFollowStart` also that nothing fails: a request that breaks off after
its batch has changed leaves the reminders where they were. Three more properties name in their text
what they do not promise: `OldSessionsEnd` the session of a login that had read
the old password and those of a change that broke off, `OnlyNewestLinkWorks` a
confirmation that read its row before the newer one came and requests that
overlap, `NothingUnwanted` a push after the preferences could not be read and
settings changed during the tick.

## 4. The proofs

| Module | Proved for every value of the constants |
|---|---|
| `Exports_proofs` | `IInv`, hence `TypeOK`, `ClaimedByOne`, `CompleteHasArchive`, `RetiredOnlyAfterUse`, `OneUnlinker`; `LeakInv`, hence `NoArchiveLeaks`; `InFlightInv`, hence `OneInFlightPerUser`; `NeverGoesBack`; `Spec => Abstract!Spec` |
| `Backups_proofs` | `IInv`, hence `TypeOK`, `CompleteIsWhole`, `ServedIsWhole`; `LeakInv`, hence `NoDumpLeaks`; `Spec => Abstract!Spec` |
| `Reminders_proofs` | `IInv`, hence `TypeOK`, `NotifiedOncePerSchedule`, `FiredWasDue`; `TemplateInv`, `SnapshotInv` and `StartInv`, hence `NoDuplicateReminders` and `RemindersFollowStart` |
| `Recipes_proofs` | `IInv`, hence `TypeOK`, `RevisionsNumbered`, `SnapshotIsCurrent`, `ForkCountExact`, `ForkFollowsPin`, and `NumberIsFree` (the unique constraint never fires); `Spec => Abstract!Spec` |
| `Accounts_proofs` | `IInv`, hence `TypeOK`, `OneFirstAdmin`, `DeletedIsErased`, `OldSessionsEnd`, `ReprocessedAll` |
| `EmailChange_proofs` | `IInv`, hence `TypeOK`, `OnlyNewestLinkWorks`; `StaysForgotten` |
| `Delivery_proofs` | `DeliveryInv`, hence `NothingUnwanted`, `NothingMissed`; `QuietHours` |
| `Standalone_proofs` | `PageInv`, hence `PagesComplete`; `LimiterSpec => Unevicted!Spec` |

The only assumptions are those on the constants: each module names its own
(`ExportsAssumption`, ...), and TLC evaluates them in every run. They say that
`None` is none of the other values, that limits and bounds are numbers, and
that what is counted is finite; RateLimit's also says that a bucket refills
within `IdleTTL` (`Every * Burst <= IdleTTL`: 20 s, 60 s and 10 min against 30
min in `server.New`).

- *Exports.* That a complete row has its archive is not inductive: it needs
  that the tick about to complete a row has written all of it (`HoldInv`), that
  nobody deletes the archive of a row that is or may become complete
  (`TrashInv`), and that requests retire only what they streamed
  (`RequestInv`). `TrashInv` is where the order "flip the row, then delete the
  file" is used, and the lock that Anonymize holds on the rows it listed. `LeakInv`,
  kept together with `IInv`: without faults a row that a tick fails is still
  running, so a file without a complete row is in the hands of who makes it or
  deletes it. `InFlightInv`: with one request at a time, a trigger that found
  nothing in flight still finds nothing when it inserts.
- *Backups.* `HoldInv` follows a dump through the pipe: eof is written only
  after the last chunk, so a Put without error stored all of them; `FileInv`
  says that a file being deleted belongs to no row. `LeakInv`: with eof
  written `pg_dump` is done, so Put and Join without error lead to a row that
  names the file.
- *Reminders.* `EpisodeInv`: a firing some tick holds, or that was notified,
  is of an episode that has begun, and of the current one only once the row has
  left `scheduled`. So a reminder patched back to `scheduled` opens a new
  episode, and the claim takes what nobody holds. The serial properties have
  invariants of their own: `SnapshotInv`, what INSERT ... SELECT has selected is
  still right when it inserts; `StartInv`, reminders stand at the start of the
  batch except while the request that moved it has yet to re-anchor them.
- *Recipes.* `LockInv`: of the transactions past the lock of a recipe there is
  one, and its copy of the row's counter stays true; `ForkInv`: what a fork
  read stays a revision of the source, and its ingredients those of that one or
  a later one; `ParentInv`: a source outlives its forks. The fork count is a
  cardinality, which needs the set of recipes to be finite.
- *Accounts.* `RegisterInv`: while a registration's count is not outdated by a
  commit there is still no user. `OldInv` says `OldSessionsEnd` of expired
  sessions too, and `DumpInv` that a dump is a good state with no request under
  way, so that a restore keeps the invariant. `CommandInv`: what the command
  listed is deleted, still to do, in hand, or it has noted a failure.
- *EmailChange.* `RequestInv`: what a request holds of its row stays true of
  the row while it is there; `RowInv`: no later row of the same user was asked
  for after a row that is still there; `ClearedInv`: a request about to create
  its row has cleared those it saw. `StaysForgotten` is the safety half of
  `AddressesForgotten`: `StepForgets` goes through `Next` once more and finds no
  step that writes an address or a row of a forgotten account.
- *Lists.* `PageInv`: of the rows that did not move, the client has exactly
  those up to its cursor. Position is a strict total order, and this is where
  the id in the cursor is needed.
- *RateLimit.* `SeenInv`: `last <= lastSeen <= now`; hence a bucket idle for
  more than `IdleTTL` is full, and dropping it changes no level.
- *Delivery.* `CacheInv`: what a tick keeps was in force at some time since it
  began, or is the default after a failed read; `StageInv`: past the check of
  the quiet hours it was outside those it keeps; `SentInv`: what all settings
  allow is sent once the channel is passed. The row always shows what the user
  asked for (`wish`), which is where the merge of a PATCH counts. `QuietHours`
  proves the comparison of `isInQuietHours` equal to `Quiet`, which walks from
  start to end, for a day of any length.
- *Refinement*. For Exports and Backups, `Allowed` lists what a step may do to one
  row and its file, `AllowedMaps` shows that each such change is a step of
  `Artifacts` or a stutter, and one more lemma goes through the actions of
  `Next` with `IInv` in hand. For Recipes, `ListInv` reads `IInv` as a client
  does (the list of revisions is whole, and empty unless the recipe is there),
  `OneMore` shows that a new revision leaves the others alone, and `StepMaps`
  takes each action to one of `Histories`. `ForkInv` and `ParentInv` are what
  Fork and Remove need.

The runs of Accounts, Backups, Exports and Reminders check `TypeOK` too; those
of Recipes and EmailChange leave it to the proof. Only checked by TLC: liveness (`RequestedEnds`, `ArchiveIsRemoved`,
`BackupEnds`, `DumpIsRemoved`, `ScheduledIsNotified`, `AddressesForgotten`), as
the prover has no means for fairness.

## 5. What the models leave out

- The bytes of an archive or dump, names, texts and other columns that no
  property tells apart.
- Authorization: a request for what is not the user's is refused before it
  changes anything.
- Tasting notes, likes, inventory and the read marks of notifications: single
  statements on rows that nothing else depends on. The inventory match and the
  calculators are formulas without state.
- Text: the validation of an Apprise URL (that it may be refused on a later
  check is in Delivery), the X-Forwarded-For header, the encoding of a cursor,
  SMTP and push messages.
- Registration in mode closed, which is refused.
- S3 itself, PostgreSQL, River and `pg_dump`: modelled from how the code uses
  them. A partial write, a lost connection and a cancelled context are failing
  calls.
- The components marked `not_modelled` in PROJECT.json, with the reason:
  configuration, routing, migrations and the web client are wiring or I/O.

## 6. What the code does not do as documented

| Where | Said | Shown by |
|---|---|---|
| `jobs/user_export.go:44` | 409 "Export already in progress" (`openapi.yaml:3315`), also when a crash or a timeout left the row running and nobody works on it: the user is locked out of exports | `exports_stuck_running` |
| `cmd/zymo/main.go:132` | the deletion request "Survives the anonymization itself so that if an admin restores a pre-deletion backup" it is found again (`migrations/0005_account_deletions.sql:3-6`), but its table is restored with the rest, and the command finds nothing to do | `accounts_restore` |

Seen while modelling, without a run of their own. Against something the code or
its documentation says:

- "export rows + blobs are deleted" with the account (`openapi.yaml:1045`), but
  not the archive a tick is just writing (`account.go:37`).
- "Always create the in-app notification" (`reminder_dispatcher.go:98`), but a
  crash after the claim loses it.
- A template can be deleted and batches keep their reminders
  (`ReminderTemplatesSection.tsx:206`), but the foreign key refuses
  (`reminder_templates.go:294`, `migrations/0001_init.sql:289`).
- A snoozed reminder has a wake time (`BatchDetail.tsx:359`), but is never
  claimed again (`queries/sql/reminders.sql:33`).
- "Set both quiet-hour times, or clear both" (`NotificationPrefsSection.tsx`),
  but the client leaves empty fields out, the PATCH keeps what is not named
  (`server/reminders.go:481-496`) and refuses an empty time: quiet hours cannot
  be cleared.
- "No prefs row = defaults" (`reminder_dispatcher.go:270`), but any error
  counts as no row, and the defaults push at any hour.
- "One active change at a time" (`email_change.go:122`), but two initiations
  that overlap both stay active.
- "forks of deleted recipes survive as orphans"
  (`docs/design-reference.md:251`), but a recipe with forks or batches cannot
  be deleted (500), because `parent_revision_id` and `recipe_revision_id` have
  no ON DELETE. An archive lives 1 hour where that document says 7 days.

And otherwise: a login that read the old password may issue its session after
the password was changed, and it stays (`auth.go:287`); overlapping PATCHes of
the preferences lose fields; an event that overlaps a patch of the stage may
move it back; the stuck `running` row exists for backups as well, and the 1
minute a job is given makes it likely there; of two concurrent downloads of an
export, one may find the archive gone and answer 500; a fork made during an
update may hold the ingredients of a later revision than the one it is pinned
to (`ForkFollowsPin` states what is left); `fork_count` is not decremented when
a fork is deleted.

## 7. Plan

Done, in this order: `Exports` with `Artifacts`, `Reminders`, `Backups`,
`Recipes` with `Histories`; then `Accounts`, `EmailChange`, `Lists`, `RateLimit` with
`TokenBucket`, and `Delivery`, each with its proofs. Next:

1. An abstract specification for reminders.
2. Pure operators for the inventory match and the walk over X-Forwarded-For,
   against reference definitions.
