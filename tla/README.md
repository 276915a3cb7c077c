# AOSA: a verification project

AOSA keeps one-time-password accounts on a Flutter app and syncs them, encrypted, through a self-hosted
ASP.NET backend. This directory holds TLA+ modules that model the sync of accounts from the user's tap to
the database row, the server's management of users, tokens, repos and memberships, and the app's lock and
its list of codes; the TLC runs that check them on small instances; and TLAPS proofs, for instances of any size,
of every invariant but one and every action property that passing runs check, and of the server's refinement.

Paths below are relative to the repository (`src/`).

## 1. Inventory

| Component | State | Operations | Talks to |
|---|---|---|---|
| Sync endpoints (`backend/Aosa.Api/Endpoints/SyncEndpoints.cs`, `EndpointHelpers.cs`) | none of their own; a `DbContext` per request | `GET status`, `GET pull`, `POST push` | the database |
| OTP endpoints (`OtpEndpoints.cs`) | likewise | list, create, update, delete (tombstone) | the database |
| Repo endpoints (`RepoEndpoints.cs`) | likewise | list, create, rename, delete, share, unshare, members | the database |
| Auth endpoints (`AuthEndpoints.cs`) | likewise | sign-up, log-in, me, refresh | users, refresh tokens |
| Razor pages (`Pages/`) | cookie session | the same tables through a browser | the database |
| Database (`AosaDbContext.cs`, `Domain/Entities`) | `OtpRecords`, `RepoVersions`, `Repos`, `RepoMemberships`, `Users`, `RefreshTokens`, `SyncMetadatas` | EF Core on SQLite; unique indexes, no concurrency token | |
| Sync service (`app/lib/data/services/sync_service.dart`) | the locals of one `fullSync` | push, resolve conflicts, pull | the server, the app database |
| App database and OTP repository (`app_database.dart`, `otp_repository_impl.dart`) | `otp_accounts`, `sync_queue`, `app_settings` (cursor, active repo) | save, delete, queue, clear | |
| Screens and providers (`presentation/`) | open edit screen, list of codes, active repo, lock state | user actions, timers | the repository, the sync service |
| App lock, PIN, key (`app_lock_provider`, `lock_screen`, `pin_setup_dialog`, `crypto_service`) | lock status, attempts, salt, token | verify, set, change, remove | secure storage |
| OTP list and TOTP (`otp_list_provider`, `totp_engine`, `otpauth_parser`) | codes shown, refresh flag | poll, regenerate, parse | the repository |
| Middleware, host, theme, widgets, vendored SDK (`flutter/`) | none that matters here | | |

What is hard in it:

- the server runs handlers concurrently, reads before it writes and has no transaction around the two;
- the device works while it waits: the user edits during a sync, replies are lost, requests arrive after the
  client gave up, the app is killed between any two awaits;
- three counters (the record's version, the repo's `GlobalVersion`, the device's cursor) are compared with
  one another;
- several offline changes of one record share the version they expect;
- uniqueness, limits and rotation of tokens are checked by a read and enforced, if at all, by an index;
- the PIN is two writes in the secure storage, its switch a third, and the key of the accounts depends on it;
- the list of codes is replaced by a poll and by a refresh, each over many awaits, with one flag between them.

What makes each part correct: the server must not lose, mix or revive contents and must announce every
change; the device must not hold content under a version that is not that version's, must not push an edit
twice, must not drop a change the server never took, and must end every sync. Accounts must stay whole and
memberships sound; the lock must neither be passed nor lock its owner out; the codes shown must become
current. PROJECT.json lists the hazards
at their lines, with the properties that watch them.

## 2. The modules

```
SyncTypes          records, changes, access, what a handler does to one record
  SyncPush         POST /sync/push as a function of the database
    SyncPush_proofs
    SyncStore      the atomic server: every request in one step (abstract)
    SyncSystem     devices x atomic server           <- MCSyncSystem
      SyncSystem_proofs
  SyncServer       the handlers, one action per await, and their refinement of SyncStore
                                                     <- MCSyncServer
    SyncServer_proofs
      SyncServer_serial_proofs
Subsequences       filtering a sequence (used by SyncSystem and OtpList)
  Subsequences_proofs
Accounts           users, tokens, repos, memberships <- MCAccounts
  Accounts_proofs
AppLock            the app's lock, PIN and key       <- MCAppLock
  AppLock_proofs
OtpList            the list of codes, at any speed
  OtpList_proofs
  OtpCodes         the same, by an app that may keep up with the clock
                                                     <- MCOtpCodes
```

Accounts and SyncServer model disjoint handlers of one server but for `DELETE /repos/{id}`, whose memberships
are in both and whose records are in SyncServer.

### SyncServer: the handlers

State: the four tables (`records`, `repoVersion`, `repos`, `members`) and for each slot of `Requests` its
position `pc` and its context `ctx`. The context is the handler's `DbContext`: which rows it tracks, as they
were read (`orig`) and as they are in memory (`curr`), which counters it will write (`vers`), which rows it will
remove (`gone`, `left`), and the reply.

| Code | Actions |
|---|---|
| `POST push` 58-120 | `ReceivePush`, then per change `PushAccess`, `PushChange`; `IncrementRepoVersion` per repo; `Save` or `SaveFails`; `Respond` |
| `POST`, `PUT`, `DELETE /otp` | `ReceiveCreate`, `CreateRecord`; `ReceiveUpdate`, `ReceiveRemove`, `FindRecord`, `ChangeRecord`; then as above |
| `DELETE /repos/{id}` 88-111 | `ReadRepo`, `ReadMembers`, `ReadRows`, `Save` |
| share, unshare | `Share`, `Unshare`, each at its save |
| shutdown, abandoned request | `Abort` anywhere before the save; after the save the reply may be lost by the client |

Of EF Core the model keeps what the handlers depend on: `FindAsync` prefers the tracked entity (`Found`); a save
is one transaction; an insert of an existing key, or an update or delete of a missing row, fails it
(`CanSave`); an update writes the columns whose value changed and no others (`Column`, `Merged`).

Simplifications: `HasRepoAccess` reads the repo and then the membership and is one read, at the second; a blob
and a time are members of small sets; `DeletedAt` is a Boolean; a membership is its repo and user (Accounts
also lets a deletion fail because a membership it read was replaced); share and unshare are at their save only,
and Accounts has their reads.

### SyncStore: what the server promises

Each request is one step, and its reply says what it did. `ImplementsStore` (in SyncServer, with the refinement
mapping: the tables are themselves, the reply is that of a handler that is done) says that SyncServer with one slot
implements it: the request takes effect at its save, the reply is the one SyncStore gives, and a refusal is for
a reason that is true at that moment. This is what entitles SyncSystem to an atomic server; with two slots it
is false, and the findings say how.

### SyncSystem: devices and server

State per device: the `accounts` table, the `queue` in the order `getQueuedItems` reads it, the `cursor`, the
`active` repo, the `draft` of an open edit screen, and each `fullSync` (`sync`). The server is `records` and
`repoVersion`. `late` holds pushes whose sender timed out. `log` is history: the changes the server accepted, in order.

| Code | Actions |
|---|---|
| add sheet 206-218, `save` 40-71 | `Add` |
| edit screen (built with an account, rebuilt from the polled list, saved later) | `OpenEdit`, `RefreshEdit`, `SaveEdit` |
| `delete` 73-98 | `Delete` |
| `setActiveRepoId` | `SwitchRepo` |
| the app is killed, or the edit screen is left | `Crash` |
| `fullSync` 18-26, `_pushChanges` 28-106 | `Start`, `ServePush`, `OnPushed`, `ServePull`, `OnResolved`, `ServePush`, `OnRetried` |
| `_pullChanges` 108-166 | `ServePull` (status, records, counter), `OnStatus`, `OnPulled`, `StoreRow` |
| a timeout or an error, caught at 23 or at 101 | `Fail`; a push given up on may arrive later: `ServeLate` |
| `DELETE /otp/{id}` by another client | `Tombstone` |

A change's number is at once its time and the content it gives: content made later is greater. Everything the app
does between two awaits is one step.

Until its user has signed in, a device has no `active` repo. What is changed by then is queued for 'default', which
is no repo (`otp_repository_impl.dart` 85, 102); it is the item's repo `None`, and `Start` waits for a repo
(`sync_provider.dart` 21-22) and sends the items of that repo only.

Zones: the app stamps its changes in UTC, and reads the server's times, which come without a zone, as local ones
(`sync_api.dart` 83-92). `Seen(d, t)` is such a time as device `d` understands it; `Offset[d]` is how far its zone is
ahead of UTC, in the unit of the changes' numbers, negative behind it. The instances are `OneBehind` (one device
keeps UTC, one is behind) and `Behind`. Ahead of UTC TLC has no instance: there a change whose clearing was lost looks
newer than what the server made of it, is pushed and taken again, and so on without end, whatever bounds the changes.
The proofs hold there as well, and `EditsTakenOnce` says what does.

Simplifications: all devices hold the same key and reach all repos (a row never fails to decrypt, no change is
skipped for access); the two writes of `save` and of `delete` cannot be torn by a kill; the two copies of the
active repo (secure storage and settings table) are one, and signing out, which removes one of them, is left out; the
client never sees a reply after it gave up; other errors of the server are `Fail`.

Two syncs of one device may overlap: the button that starts one is disabled only three awaits later, and
connecting in the settings starts one without looking. They share the accounts, the queue and the cursor.

### Accounts: users, tokens, repos and memberships

State: the tables `users`, `repos`, `members`, `meta` (the DeviceIds of `SyncMetadatas`) and `tokens`, and as in
SyncServer a `pc` and a `ctx` for each slot of `Requests`. `unused`, `torn`, a token's `from` and a context's
`disturbed` are history.

| Code | Actions |
|---|---|
| `POST /auth/signup` 21-63, the sign-up page | `ReceiveName`, `CheckName`, `SaveUser` |
| `POST /auth/login` 65-85 | `ReceiveName`, `FindUser`, `SaveLogin` |
| `POST /auth/refresh` 107-123; thirty days | `ReceiveRefresh`, `FindToken`, `SaveRefresh`; `Expire` |
| `POST /repos` 39-68, the create page | `ReceiveCreate`, `CountRepos`, `SaveRepo` |
| `PUT`, `DELETE /repos/{id}` 70-111 | `ReceiveRepo`, `FindRepo`, `ReadMembers`, `SaveName`, `DeleteRepo` |
| `POST /repos/{id}/share` 113-161 | `ReceiveShare`, `FindRepo`, `FindTarget`, `SaveShare`, `ReadMeta`, `SaveMeta` |
| the share page 83-107 | the same reads, then `SavePageShare`, one save |
| `DELETE /repos/{id}/share/{userId}`, the revoke page | `ReceiveUnshare`, `FindRepo`, `FindMembership`, `SaveUnshare` |
| an index, a foreign key or a vanished row refuses the save | `SaveFails`, answered 500 by the middleware |
| the process stops | `Abort` |

Simplifications: share's reads of the user and of the membership are one step, at the second; a page's error
page is the endpoint's refusal; passwords, names of repos, roles and the time of log-in are left out; the ids
`Guid.NewGuid` draws are taken in order, a deleted repo's is never used again, and when the instance has no more
of them the save waits.

### AppLock: the lock, the PIN and the key

State: what is on disk (`salt`, `token`, `pinSaved`, the keys that encrypt `accounts`) survives a `Kill`; what is
in memory does not: `life`, `pinEnabled`, the `AppLockState` (`status`, `attempts`, `cooling`), the `key`, the lock
`timer`, the numpad (`disabled`), the verifications under way (`checks`) and the PIN dialog (`sheet`). `proved` is
history: no check was passed since the start or since `lock()` ("no"), one was ("yes"), or one was in the 900 ms
before `lock()` and is about to unlock ("stale").

| Code | Actions |
|---|---|
| `main` 27-43, `initialize` 58-81 | `Start` |
| `didChangeAppLifecycleState` 77-97 | `Pause` (locks, or starts the timer), `Resume`, `TimerFires` |
| lock screen 195-224, `verifyStoredPin` 125-134 | `TypePin`, `ReadToken`, `ReadSalt`, `Verify`, then `RecordFailedAttempt` or, 900 ms later, `Unlock` |
| a lock screen is built (41, 52-63) | `Greeting` in `Start`, `Lock` and `Done`, then `InitBiometric`, cool-down or not |
| biometric 114-125, 226-239 | `StartBiometric`, `BiometricPasses`, `BiometricFails`, `Unlock` |
| `AnimatedSwitcher` (`main.dart` 126-157) fades a screen out for 500 ms | `FadedOut` in `Unlock` and `Done`, `Dispose`; for the settings, `SectionDisposed` |
| cool-down | `RecordFailedAttempt`, `CooldownEnds` |
| PIN dialog 186-225 | `OpenSheet`, `ConfirmCreate`, `WriteSalt`, `WriteToken`; `VerifyOld`, `ConfirmRemove`, `DeleteToken`, `DeleteSalt`; `Done`, `Dismiss` |
| `_persist` 21-28, not awaited | `Persist` |
| an account is saved | `AddAccount` |

A lock screen that is being faded out is still mounted: its checks go on, and one that passes unlocks the app even
if a new lock screen is up by then (`old` in a check). Likewise the settings under an open PIN dialog
are told of its end until they are disposed of (`section` of the sheet).

Time is left out: a timer may fire and a cool-down may end at any moment, which covers every timeout of the
settings. Simplifications: one PIN dialog at a time, also of those that still write after they were dismissed;
one account; a switch that was changed is persisted before a new PIN has been typed twice; the secure storage
does not fail; mode `change` of the dialog, which nothing opens, is left out. `AppLockState.pinEnabled` is
never set by the app, so the home screen's own `lock()` on pause (`home_screen.dart` 120) never happens and is no
action.

### OtpList: the codes on the home screen

State: `stored` (what the repository holds, by revision), the clock `now`, and the notifier: the list on screen
(`state`), `isRefreshing`, the poll's answer on its way (`polled`), each `loadAccounts` that still computes
(`loads`) and the refresh with its copy of the list (`regen`). A code is the TOTP window it was computed for.

| Code | Actions |
|---|---|
| `watchAll` 25-30, the listener 32-38 | `Poll`; `Drop` or `Load` |
| `_generateAllCodes` 74-101 | `Generate` per code, `StoreCodes` |
| `checkTokenRotation` 103-122, each second | `CheckTokenRotation` |
| `_regenerateAndUpdate` 124-156 | `Regenerate` per code, `StoreRegenerated` |
| `startAutoRefresh`, `stopAutoRefresh` | `SetAutoRefresh` |
| accounts saved, deleted, pulled | `Change` |

Simplifications: the notifier is never disposed (the provider lives as long as the app); the HMAC is not
computed, an account whose secret gives no code is in `Broken` (none in the run; the proofs are for any); the
period is positive.

### OtpCodes: how old a code may be

OtpList lets the app take any time for anything, so it cannot say that a code is current: a load may take longer than
a window. In OtpCodes an app may be `prompt`, which adds what it does in practice: the repository is polled in every
second (`Stream.periodic`), its answer is decrypted and the codes computed before the next poll, and a refresh takes
less than a second (`docs/01-requirements.md` 91: a code takes less than 50 ms). Each may still straddle one turn of
the clock, which is also where windows end. `asked` (polled since the clock went on) and `carried` (what was under way
then and still is) hold the clock back, in `TimedTick`. The timer of the refresh is left free: late, stopped, or never
started. An app that is not prompt does what OtpList allows. Windows have two seconds or more (`LongPeriodAssumption`).

## 3. The runs

| Run | Instance | Shows |
|---|---|---|
| `server_overlap` | 2 slots, 2 users, 2 repos, 1 record, counters to 2; 866 thousand states | `RecordHasRepoVersion`, `TombstonesAreFinal` under any interleaving |
| `server_serial` | 1 slot, 2 records, counters to 3; pushes of two records, twice the same record, two repos; 67 thousand | `VersionsGuardContent`, `ChangesRaiseVersion`, and the refinement `ImplementsStore` |
| `server_lost_update` | as `server_overlap` | finding: two overlapping writes accepted under one version |
| `system_devices` | 2 devices (UTC and behind), 1 repo, 1 record, 3 changes; 2.10 million | `VersionVouchesForContent`, `EditsTakenOnce` |
| `system_one_device` | 1 device behind UTC, 2 syncs at a time, 2 repos, 1 record, 2 changes, 1 late push; 85 thousand, with fairness | the same, and `SyncTerminates` |
| `system_queue_cleared` | 1 device, 1 record, 3 changes | finding: a queued change cleared with another's acceptance |
| `system_cursor` | 1 device, 2 records, 2 changes | finding: a record below the cursor is never pulled |
| `accounts_overlap` | 2 slots, 2 users, 4 repos, 4 tokens, limit 1; 1.57 million | what indexes and keys keep, and how far checks made before a save can be exceeded: one repo above the limit, two successors of a token |
| `app_lock` | 2 PINs, 2 salts, 2 checks, cool-down after 2; 2.27 million | `NobodyIsLockedOut`, `ShownAfterCheck`, `RightPinOpens` |
| `app_lock_late` | as `app_lock`, 1 check | finding: a check passed before the lock of a pause undoes it |
| `app_lock_key` | as `app_lock`, 1 check | finding: accounts that cannot be decrypted after a PIN was set or removed |
| `otp_list` | 2 accounts of periods 2 and 4, 2 loads, 1 change; 8 seconds of a prompt app, 4 of another; 225 thousand, with fairness | `RefreshEnds`, `ListCatchesUp`, `CodesAreFresh` |

Why the bounds suffice for what they look for. Server: an overlap needs two requests, and every pair of handlers is
there, on the same record and the same counter, with the first, the second and a stale version expected. Counters up
to 2 let a record be created, changed and tombstoned, and its repo deleted. Two users (one the owner, one shared)
decide access both ways. Devices: three changes are enough to add, edit and delete, or to edit on both sides of a
conflict (two with overlapping syncs, which already are an add and an edit or a delete around two pushes); one record
because the code handles records one by one, except in the pull's loop and the cursor, for which `system_cursor` has
two. Only the sign of an offset against the distance of two changes matters to a comparison of times: -1 makes what
the server wrote look later by one change. Bounds are in guards only (`MaxVersion` before a request starts, `MaxOps`
before a user's change, `MaxLate` before a push is given up late), so what is under way always finishes. Accounts:
`Mixes` bounds which kinds of requests a behaviour has, so that every two kinds that touch the same tables meet
without all ten meeting at once, and how many repos; a limit of one custom repo can be exceeded by one with two slots,
and the fourth id would exceed it by two. Four tokens are one to exchange, its two successors by overlapping
exchanges, and one more for a third. The limit, the rotation and the failures concern two overlapping requests each,
and the proofs are for any number. AppLock: two salts are a PIN before and after, two checks overlap, two attempts let
a cool-down start between checks; every bound is a number of slots or values, none a length of behaviours, but for
`MaxAccounts`, how many keys the accounts were saved with. OtpList: two accounts let a load shrink, grow or change the
list under a refresh that holds an index, and one change during a load is what makes it stale. The clock of a prompt
app goes through eight seconds (`MaxTime`): four windows of one account and two of the other, with boundaries that
coincide and ones that do not. That of another app goes through four (`SlowTime`), as its loads may overlap in every
one of them.

Deadlock is checked in every run: a crash, a sync, a request, a start of the app or a poll is always possible, so
the systems never stop.

Fairness. SyncSystem's `FairSpec` gives each `fullSync` weak fairness on its own next step (`Progress`): Dio's timeouts
(`api_client.dart` 13-17) end a call that is not answered, with `Fail`, and the event loop runs an async function
whose await is over. Users, crashes and late pushes have no fairness: nobody has to use the app.
OtpCodes' `TimedFairness` gives it to the poll (`Stream.periodic` never stops), to its delivery, to each
load and to a refresh under way; the clock, the rotation timer (it may be stopped, or late) and changes have none.
When the clock has reached its bound the list still has to catch up with what was stored last.

Symmetry is used for slots, devices and values, only in runs without liveness.

Three disagreements with the docs are modelled but have no run, because a line or two of the code shows each. A queued
delete is pushed without its action (`sync_service.dart` 42-47), so the server takes the delete of a synced account as
one more version of the live record, where `docs/01-requirements.md` 82 promises a tombstone. What was queued for
'default' before the first sign-in is never pushed unless it is changed again. And a device ahead of UTC lets a change
win that is not newer, against `docs/06-sync-protocol.md` 132.

### Properties worth a word

- `VersionsGuardContent`: content never changes under an unchanged version. True of serial requests, false of
  overlapping ones (`server_lost_update`): the check of `expected_version` and the save are not one
  transaction, and there is no concurrency token.
- `TombstonesAreFinal` holds in spite of that, because an update saves only the columns it changed and
  `DeletedAt` is not one of them. It would fail if the entity were saved whole, which is what its mutant does.
- `VersionVouchesForContent`: if a device's version of an account is the server's, the contents are the same
  or the difference is queued under that very version. This is why conflict detection on the next push works;
  clearing too much of the queue breaks it.
- `EditsTakenOnce` says two things. In any zones the server takes a change again only under a version newer than the
  one it took it under: a request that merely arrives twice, or late, is refused. And where no device is ahead of UTC,
  no add and no edit is taken twice at all: these are sent with the account's `created_at` and lose a conflict with
  their own acceptance. Deletes are the exception there: a delete is pushed with the old content and a new time, so if
  its clearing is lost (a crash after the server took it), the next sync sends it again, finds a conflict with itself
  or with another device's edit, is newer, and is taken a second time. On a device ahead of UTC adds and edits can do
  the same.
- `LimitUnlessOverlap` and `RotationUnlessOverlap` say exactly how much the missing transaction costs: each
  further request under way may add one repo above ten, or one more successor of a refresh token. With one
  slot they are the limit and the rotation themselves.
- `FailuresHaveACause`: a save is refused only if another request saved since this one came, so a client that is
  alone never gets a 500. The share page is the exception it names: it inserts metadata with the repo's id as
  DeviceId at every share (`Share.cshtml.cs` 95), and the unique index refuses the second share of a repo.
- `MembersHaveMetadata`: share saves twice, and only a stop of the process between the two leaves a member
  without metadata; that this share was never answered is why it is no finding.
- `NobodyIsLockedOut` holds although salt and token are written one after the other: the switch that asks for
  the PIN is told last, by "Done", and only if the settings are still there, so a torn pair is never asked for.
  Its mutant tells it one write too early.
- `ShownAfterLock` is what the docs promise of the lock on pause, and is false: the delayed `unlock()` does not look
  whether the app was locked in between (`app_lock_late`). `ShownAfterCheck` is what is left: only a check passed in
  those 900 ms before `lock()` can undo it, and no older one, although lock screens that are being faded out
  still run their checks.
- `RightPinOpens`: two verifications may overlap, as digits can be deleted and typed while one awaits. A check of the
  right PIN stays on its way to the unlock at every step of anybody, whatever the other says, even though its failure
  may start a cool-down meanwhile, until the app is shown or killed. Its mutant lets a wrong PIN end the other checks.
- `RefreshEnds` and `ListCatchesUp` share one exception, `StuckByOverlap`: a load that began while
  another still computed its codes (more than the second between two polls) can shorten the list under a refresh,
  whose index then throws outside its `try`; `_isRefreshing` stays set and no poll is listened to again until the
  app restarts. `RefreshEnds` shows that nothing else gets it stuck.
- `CodesAreFresh` bounds by two seconds how long a code may outlive its window on screen: a load that straddles the
  boundary stores codes of the old window, a refresh may store an older copy over it and makes the listener drop a
  poll. One second would be violated. The two seconds do not need the refresh: a poll alone brings new codes.

## 4. What is proved

### SyncServer_proofs

It proves, for every value of the constants (any number of users, repos, records, bodies and
overlapping requests; `MaxVersion` any natural number):

| Theorem | States |
|---|---|
| `TypeCorrect` | `Spec => []TypeOK` |
| `RecordsAreAnnounced` | `Spec => []RecordHasRepoVersion` |
| `DeletionIsFinal` | `Spec => TombstonesAreFinal` |

Assumed are only the typing assumptions of the constants (owners are users, default repos are repos, null is neither
a row nor a reply, bodies are changes, the bound is a number), which TLC evaluates in the runs.

The argument. `RecordHasRepoVersion` is not inductive: it talks about the tables, and a save brings in what a
handler decided steps before. `IInv` adds what each context must satisfy (`Sound`): a handler that has changes in
memory and reached its save has a positive counter for the repo of each (`Counted`, with the repos still in
`touched` before that), only contexts at those steps hold changes (`HasChange`), and a tracked row differs
from the one read only in content, version, time and, towards TRUE, deletion, while its repo is unchanged
(`Faithful`). The last also gives `DeletionIsFinal`: a column that goes from TRUE to FALSE is never a changed one.
`IInv` was checked by TLC on the instance of `server_overlap` before it was proved. The proof that it is
inductive has one lemma per action; the actions that do not save leave the tables alone, so only the handler's
own context has to be looked at, and `Save` is where the tables meet the context.

### SyncServer_serial_proofs

What expected_version and GlobalVersion promise, for any users, repos, records and pushes, when requests do not
overlap: `SerialVersionsGuardContent` (`VersionsGuardContent`) and `SerialChangesRaiseVersion`
(`ChangesRaiseVersion`). Assumed, in each theorem: `OneAtATime`, there is at most one slot. It cannot be dropped:
`server_lost_update` shows `VersionsGuardContent` false of two requests that overlap.

The argument. `SInv` adds to `IInv` that what a lone handler holds is `Current`: a row it tracks is still the stored
one, its copy of it is newer where it differs in content (`RowsCurrent`), a counter it read is still the stored
one (`CountersCurrent`), and whoever changes a record has a repo to increment (`Announced`). `Unstaged` is needed by
PUT and DELETE, which look the record up first and check access and version after: until then the copy is the row. A
save then merges a copy into the very row it was taken from (`SerialSave`). TLC checked `SInv` on the instance of
`server_serial` before it was proved.

The refinement. `SerialImplementsStore` (`ImplementsStore`), assuming `OneSlot` (exactly one slot; the mapping needs
it to exist): every step of a handler is a step of SyncStore or leaves its variables alone. Steps before the save
change neither a table nor the reply, so the work is at the save, where the context must hold what the store computes
in one go from the tables. `AllWork` says how far each kind of request has come: a push with n changes of its batch
behind it tracks, has touched and has answered what `Pushing(...)[n]` says (`PushedSoFar`), at every await; PUT and
DELETE hold the stored row until they are allowed to change it, and from then on, as POST, the row the store would put
there, with exactly that row's repo to increment (`Staged`); the deletion of a repo holds the records of its
repo (`DeleteWorks`). `JudgeAsPushOne` is the heart of it: looking at the tracked copy before the database
makes of a record that occurs twice in a batch what the store makes of it. At the save `SaveStaged` shows that
merging columns into the row that was read is replacing it, and `CanSaveCurrent` that only POST of an id that exists
can fail. The refusals are steps of SyncStore because access and version, read earlier, are still what they were
(`AccessReach`). `RInv`, this invariant together with `SInv`, was checked by TLC on the instance of `server_serial`
before it was proved.

### Accounts_proofs

Every property of `accounts_overlap`, for any number of users, names, repos, tokens and overlapping requests and any
limit: `TypeCorrect`, `WholeAccounts` (`AccountsAreWhole`), `SoundMemberships` (`MembershipsAreSound`), `LimitHolds`
(`LimitUnlessOverlap`), `RotationHolds` (`RotationUnlessOverlap`), `ExplainedFailures` (`FailuresHaveACause`) and
`MetadataOfMembers` (`MembersHaveMetadata`). Assumed: requests, repos and tokens are finite and there is at least one
request slot; the limit is positive; None is no id and no row (`NoneAssumption`, `RowAssumption`); ids of users and of
repos differ (`DeviceIdAssumption`: both are drawn by `Guid.NewGuid`, and both occur as a DeviceId).

The argument. `IInv` joins the properties about tables with what each request has read (`Sound`): what it was asked
about exists or did, what it read and nobody can change still holds (a repo's owner, a user's id), and as long as
`disturbed` is FALSE, the rest holds as well (the name is free, the repo is there, the memberships are those
read). The last part is why `FailuresHaveACause` holds: a save refused while undisturbed would contradict it. The
limit and the rotation are not inductive: a request that has passed the check will add one, so `Limited` and
`Rotated` count the repos (successors) together with the requests at their save, `Creating(u)` (`Exchanging(t)`). A
request that passes the check finds fewer repos than the limit, and there are at most as many requests as slots; a
save moves one from the second set to the first. `Revocation` and `Allocated` say that an exchanged token stays
revoked and that a new id is nobody's. There is one lemma per action; those that save use the lemmas on `Saving`
(what another's save may do to a context) and cite the cardinalities of FiniteSetTheorems.

### AppLock_proofs

For any PINs, salts, number of checks and of free attempts: `TypeCorrect`, `NoLockOut` (`NobodyIsLockedOut`),
`ShownOnlyAfterCheck` (`ShownAfterCheck`) and `RightPinIsKept` (`RightPinOpens`). Assumed: None is no salt or PIN, and
the number of free attempts is positive.

The argument. `Flow` follows the PIN dialog: one that creates a PIN was opened with the switch off, which stays off
(and, from the confirmation on, off on disk) until "Done", by when salt and token agree. `Gate` says what `proved`
remembers: where a check of any lock screen has passed, or the app is unlocked, it is not "no"; `lock()`, which
resets it, takes those 900 ms into account and locks. TLC checked this `IInv` on the instance of `app_lock` before it
was proved. `RightPinIsKept` goes through the actions: a check's own steps lead to its next await, another's leave it
alone (`Waits`) or show the app, what it will read may be removed meanwhile but not replaced, as a PIN is created with
the switch off (`Flow`), where the app is shown anyway.

### Subsequences_proofs and SyncPush_proofs

The queue is filtered and a batch is gone through at any length, so the proofs about devices need facts by induction.
The library's induction rules take a predicate as a parameter, which the provers cannot instantiate; `SetInduction`
takes a set of numbers instead (a property is the set of the numbers that have it) and follows from the least element
of its complement (`WFMin`). By it the recursive functions of the model have their solutions (`OnlyToDefined`,
`PushingDefined`) and:

- `OnlyElements`: filtering a sequence gives a sequence, no longer, of exactly the elements in the set;
- `PushInduction`: what holds of a push before its first change and is kept by each (`J`, the set of the states of a
  push that have the property) holds of the whole push;
- `PushGrows`: a push takes no record away, revives none and moves none, gives each record it changes a higher
  version, and names in its reply only records it was asked about, at versions they have reached.

### SyncSystem_proofs

For any number of devices, overlapping syncs on each, repos, accounts, changes and late pushes: `SystemTypeOK`
(`TypeOK`), `VersionVouches` (`VersionVouchesForContent`) and `EditsOnce` (`EditsTakenOnce`), in any zones. Assumed: the
numbers of changes are contents, and times are integers (`OpsAssumption`); an offset is an integer
(`OffsetAssumption`); None is no account (`NullAssumption`).

The argument is in three layers, each inductive given those before it.

- `TInv` (`SystemTypes`): types, and `Shape`: what each await of `fullSync` finds when it is over. A conflict that
  is being resolved is about an item that was sent, so `firstWhere` finds it; a row being stored is there.
- `VInv` (`SystemFollows`): nothing a device holds of a record (an account, a draft, a row that was pulled, a verdict)
  is ahead of the server (`Follows`), and an account at the server's version has its content or a queued change that
  expects this version (`Vouched`). The server's records only grow (`PushGrows`, `Tombstone`), so what was pulled or
  answered long ago still follows; this is why late replies and overlapping syncs do no harm here.
- `EInv` has a part for any zones. Changes with one number are of one record (`Numbered`), before the server has a
  record all changes of it expect version 0 (`Unversioned`), and what was taken expects a version below the record's
  (`Settled`), so a repeated or late push of it is refused and taking it again needs a newer version (`Once`). The
  other part, `InTime`, holds where no device is ahead of UTC. There an edit has a number that nothing else has
  (`Named`); no timestamp is later than now, and no row was updated before it was created (`Dated`); an edit is stamped
  no later than its own device sees the record's creation (`Bounded`, in `Traced`), so it never wins a conflict and is
  never pushed again under another version; and before the server has a record, one device has the account and its
  changes are queued in order (`Unsent`), so the first push makes the record from them. `EditsTakenOnce` follows.

TLC checked each layer on the instances of `system_devices` and `system_one_device` before it was proved.

### OtpList_proofs

For any accounts, periods, secrets and number of loads: `ListTypes` (`TypeOK`) and `RefreshesEnd` (`RefreshEnds`). Assumed:
the bounds are numbers, periods are positive and None is no load (`BoundsAssumption`, `PeriodAssumption`,
`NullAssumption`). `IInv` adds to the types that a load never has more rows than there can be accounts (`Fitting`) and
`Flagged`: a refresh under way has set the flag, a flag without a refresh was left behind after loads overlapped, and
until they do (`OneLoad`) there is one load, as long as the list, and the indices of the refresh are in the list.

### Only model-checked

Liveness: `SyncTerminates` and `ListCatchesUp` hold under fairness, which is out of the prover's reach.
`CodesAreFresh` is left to TLC. Every other invariant, action property and refinement that a passing run checks is a
theorem. The
findings are counterexamples, and stay with TLC.

## 5. Not modelled

- The vendored Flutter SDK under `flutter/`: third-party code, with almost all of the repository's lines and all of
  its C++ but the generated runner of `app/linux`. AOSA's own program is about 11 thousand lines of C# and Dart, and
  what of it keeps state is in the modules above; no definition stands for a line of the vendored code.
- Rate limits, logging, health, configuration, cryptography, parsing of otpauth URIs, scanning, layout and theme:
  pure functions, I/O or presentation.
- The app's tokens: stored at log-in, sent with each request, never refreshed; a refused request is a failed one.
- The PIN dialog's mode `change`, which nothing opens; the web pages' cookies.
- A kill between the two synchronous writes of `save` or `delete`, the two copies of the active repo, and the purge
  of queue items whose id is no UUID.
- What the docs describe and the code does not have: retries with back-off, garbage collection of tombstones. A row
  that cannot be decrypted is swallowed by the pull.

## 6. Plan

Done: the server's handlers and the atomic store; devices and sync, with overlapping syncs; accounts, tokens, repos
and memberships; the app's lock; the list of codes; proofs of all their invariants and action properties, and of the
refinement of the atomic store.

Next: a bound on what overlapping requests may do to the refinement (which refusals and which saves of two handlers
are still the store's); tearing `save` and `delete` of the app between their two writes, with what a kill then loses.

## 7. Running it

`tlc -config SyncServer_overlap.cfg MCSyncServer` and likewise for the other configurations (the module of each is
in PROJECT.json); `tlapm SyncServer_proofs.tla`, and likewise
`SyncServer_serial_proofs`, `Subsequences_proofs`, `SyncPush_proofs`, `SyncSystem_proofs`, `Accounts_proofs`,
`AppLock_proofs` and `OtpList_proofs`, for the proofs (about half an hour together).
