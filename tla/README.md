# Ephemeral Link in TLA+

Ephemeral Link lets a signed in user hand a text secret or a file to somebody
through a link that works once. The server is a Go program; its state lives in
Redis and, for files, in a storage directory (or an S3 bucket). The properties
worth having are about *orders of calls*: every handler is a sequence of calls to
Redis and to the disk, two of those calls are never one transaction, and between
any two of them another request, the expiry of a key, the cleanup goroutine or a
crash of the server may come. Tests of the repository run each handler alone.

All paths below are relative to `src/`.

## 1. Inventory

| component | state it keeps | operations | module |
|---|---|---|---|
| Single-use links | `el:item:<id>` hashes with a TTL; `<id>.bin` files | `createText`, `createFile`, `revealText`, `downloadFile`, `serveClaimedFile`, `adminBurnLink` (`internal/web`), `Create`, `Get`, `Claim`, `BurnItem` (`internal/redisstore`) | `ItemLinks`, abstractly `OneTimeLink` |
| Cleanup | a goroutine per server; its copy of the active paths | `cleanup.Start`, `ActiveStorageObjectPaths`, `CleanupOlderThan`, `CleanupOrphans` | `ItemLinks` |
| Upload requests | `el:upload_request:<id>` hashes with a TTL; the item a submission creates | `createUploadRequest`, `submitUploadRequest`, `uploadRequestStatus`, `downloadUploadRequestFile`, `adminBurnUploadRequest` | `UploadRequests` |
| Failure throttle | `el:throttle:*` counters with a TTL | `FailureLimitExceeded`, `RegisterFailure`, `ResetFailures`, called by `loginPost`, `adPost`, `revealText`, `downloadFile` | `FailureThrottle` |
| Initial setup | `el:setup:admin_lock`, the first administrator | `setupPost`, `HasAdmin`, `CreateInitialAdmin` | `WorkspaceAccess` |
| Users, sessions, workspaces, invitations | `el:user:*`, `el:session:*`, `el:session_workspace:*`, `el:membership:*`, `el:workspace_invitation:*` | `loginPost`, `adPost`, `microsoftPost`, `logout`, `authenticatedUser`, `switchWorkspace`, invitations, `adminSaveUser`, `adminDeleteUser` | `WorkspaceAccess` |
| API keys | `el:api_key:*`, found by a scan | `adminCreateAPIKey`, `adminRevokeAPIKey`, `AuthenticateAPIKey`, `RevokeAPIKeyInWorkspace` | `Reporting` |
| Audit log | a capped index and events with a TTL | `AddAuditEvent`, `ListAuditEventsInWorkspace`, read by `apiAudit`, `adminPage`, `adminAuditCSV`; `buildAuditPage` | `Reporting`, `AuditPages` |
| Rate limiter | a map of fixed windows under a mutex | `Middleware`, `cleanupExpiredLocked` | `RateLimiter` |
| Integration settings | the hash `el:integration` with three sealed secrets | `adminSaveIntegrations`, `getIntegrationConfig`, `saveIntegrationConfig`, `sendEmailContent`, `authenticateAD` | `Settings` |
| Workspace migration | rewrites keys with a scan | `cmd/migrate-workspaces`, `MigrateWorkspace` | `WorkspaceMigration` |
| Storage migration, S3 | copies objects and updates paths | `cmd/migrate-storage`, `internal/storage/s3.go` | `StorageMigration` |
| Time to live of a request | none | `ttl()`, the bounds of `Load` | `RequestTtl` |
| Encryption | none | `EncryptReader`, `DecryptReader` of `internal/crypto` | framing in `ChunkedStream`; ciphers are out of a model checker's reach |
| E-mail, legal documents, branding | single writes | | not modelled (see section 8) |
| Configuration, start-up | read once | | constants of the models; the TTL bounds in `RequestTtl` |
| Browser pages | the history of a session | `app.js` | only the creator's burn button |

How they interact. Handlers share nothing in memory except the rate limiter; they
meet in Redis and in the directory. A claim of an item is one Lua script (read
the hash, test the status, delete the secret fields, set one hour to live), and
so is a claim of an upload request; everything else is separate calls. The
cleanup goroutine reads Redis, then the directory, then deletes, with no lock
against the handlers. A submission to an upload request creates an item and then
refers to it from the request; downloading it claims the item. Opening a link
that has a passphrase, and signing in, pass the failure throttle first, and every
request passes the rate limiter before anything else. A directory sign-in and every
mail read the integration settings. Administrators' operations and the handlers of
links append to the audit log, which the admin page, its CSV export and the bearer
of an API key read. The two migration tools are programs of their own that meet a
server only in Redis and in the storage.

What is hard, and what each component owes:

* **Links.** Two requests race for one claim; a burn, an expiry or a crash comes
  after a request has read the record and before it acts on it; an answer of
  Redis is lost after the call was executed. Owed: at most one delivery, no
  second holder of the wrapped key, nothing opened after a burn or past the
  `ExpiresAt` that was shown.
* **Cleanup.** It acts on a copy of the active paths that is stale when used, and
  cannot see a file whose item is about to be stored or was just claimed. Owed:
  spent files go, needed files stay.
* **Upload requests.** Claim, file, item, mark: four stores, and on an error three
  calls that undo them, each of which may fail too. The request may be burned or
  expire meanwhile, and `HSET` on an expired key creates a partial hash without a
  TTL. Owed: one submission at a time, one accepted, and of failed ones nothing left but
  what a failing call left.
* **Users and workspaces.** Every request first reads session, record, chosen
  workspace and membership in four calls, and may write a membership; an
  administrator's edit is up to four calls, and nothing locks one against the
  other. Owed: a role is used only in the workspace it was given for, one
  administrator from setup, no membership left behind by a deletion, and a removal
  that lasts.
* **API keys and the log.** An operation and its event are separate calls, an event
  gets its time before Redis adds it, events expire one by one under an index that
  is trimmed by number. Owed: no gap in what a report lists, a revocation that works
  at once and can be found in the log.
* **Rate limiter.** The clock is read before the mutex is taken; a fixed window lets
  two bursts meet at its end. Owed: a bound on what is admitted, no refusal without
  cause, a map that does not grow for ever.
* **Settings.** A save reads the whole hash, ignores the error of that read, and
  writes the whole hash back. Owed: a secret is lost only to a cause that can be
  named, and is never stored or sent sealed twice.
* **Migrations.** Each tool lists, then acts on what it listed record by record, while
  a server may create, open, save and remove the same records, and either may stop
  between any two calls. Owed: no link is lost or opened again, nobody is left
  between two workspaces.
* **Throttle.** Check, verify and count are separate, and so are `INCR` and the
  `EXPIRE` that makes the counter temporary. Owed: a bound on the guesses that get
  through, and that a block ends.

`PROJECT.json` lists every hazard found, at its line, with the properties that
watch over it or the reason why none does yet.

## 2. Modules

```
OneTimeLink              what a link promises (abstract)
  ^ implemented by (Promise == INSTANCE OneTimeLink WITH phase <- ..., opened <- ...)
ItemLinks                handlers, Redis, directory, cleanup, clock, crashes
  MCItemLinks            the bound on links, for TLC
  ItemLinks_proofs       types, the inductive invariant and what follows from it,
                         who may take a needed file
  ItemLinksRefinement    the refinement of OneTimeLink
OneTimeLink_proofs       the abstract promise is single use

MCServer                 what the running server does besides links
  UploadRequests           UploadRequests_proofs
  Reporting                API keys and the audit log; Server_proofs
  AuditPages               the log read page by page; Server_proofs
  RequestTtl               ttl(); Server_proofs
MCSignIn                 what a sign-in passes; SignIn_proofs
  RateLimiter
  FailureThrottle
  Settings
MCMigrations             what an operator runs beside the server; Migrations_proofs
  StorageMigration
  WorkspaceMigration
  ChunkedStream            what becomes of an object on its way
MCWorkspaceAccess        symmetry for TLC
  WorkspaceAccess          WorkspaceAccess_proofs
```

`MCServer`, `MCSignIn` and `MCMigrations` each hold components that share no state.
They are checked one at a time: a variable chooses the part that moves, the others
stay where they start. Interleaving them would multiply the states and add no
behaviour. Where two components do share state they are in one module: links, cleanup
and storage; submissions and the items they create; keys, log and reports; sessions,
records, memberships and setup.

### ItemLinks

State: `db[l]` is the hash of the link with the fields handlers branch on
(`secret` stands for `wrapped_key`, `payload` and the other fields the claim
script deletes, `path` for `storage_object_path`, `deadline` for the TTL of the
key); `expires` is the `ExpiresAt` fixed by `newBaseItem`; `disk[l]` is the file
under its temporary or final name with its modification time; `req`, `adm` and
`make` hold the program counters and the local variables of the handlers;
`cleaner`, `active`, `pending` those of the cleanup goroutine. `deliveries`,
`burned`, `raced` and `confirmed` are history: no action reads them.

| code | actions |
|---|---|
| `createFile` with `WriteStream` | `BeginFile`, `WriteFile`, `WriteFails`, `StoreFile`, `StoreFileFails`, `AnswerCreator` |
| `createText` | `StoreText`, `AnswerCreator` |
| `revealText`, `downloadFile`, `serveClaimedFile` | `Look`, `TurnAway`, `Claim`, `ClaimGone`, then `RevealText`, or `OpenFile`, `OpenMissing`, `EndDownload` |
| `adminBurnLink` | `BurnLook`, `BurnItem`, `BurnFails`, `BurnDelete` |
| the burn dialog of `created.html`, `app.js` | `ConfirmBurn` |
| `cleanup.Start` and what it calls | `CleanupOlderThan`, `LookupActive`, `LookupFails`, `ListFiles`, `VisitFile`, `EndWalk` |
| TTLs of Redis, the clock | `Tick` |
| the process dies and is started again | `Crash` |

Each action is one call to Redis or to the disk together with the code up to the
next one. Choices that need a word:

* A call to Redis may fail without being executed, or be executed and its answer
  lost (`answered`, `executed`); what the client library retries is one of these.
* The gate between the read and the claim (`TurnAway`) stands for the passphrase
  check; the counter behind it is `FailureThrottle`.
* One unit of time is the hour of the claim script, of `BurnItem` and of the
  cutoff in `Start`. Expiry of a key is exact: Redis never returns an expired key.
* Storage is the local backend: a file that is open survives its removal, so a
  download that has started is not broken by the cleanup. The walk reads the
  directory when it starts and then visits the entries one by one.
* `ActiveStorageObjectPaths` is one step, except that keys whose `HGETALL` fails
  are missing from the copy (`MaxUnread`).
* A crash loses the handlers and the cleanup cycle; Redis and the directory keep
  what they had. Loss of Redis data, and a server started with another master
  key, are left out.

### UploadRequests

`rq[k]` is the hash of a request, with `full` (it has the fields of
`CreateUploadRequest`) and `ttl` (its key has a TTL) apart, because an `HSET`
after the expiry makes a hash that has neither. The claim script tests the status
alone, so such a hash can be claimed; the handler then takes the ID from the hash,
which has none: `EmptyID` stands for the empty string, and is a key like the
others. The item a submission creates is only `live` or `spent` here; its own
life is `ItemLinks`. `file` is the set of submissions whose `.bin` file, or object,
exists, `temp` the set of those whose `.bin.tmp` file does. A submission is written with
`Local.Write`, which unlike the `WriteStream` of `createFile` does not remove its temporary
file when `os.WriteFile` fails; and the `Delete` calls of the undoing, of `StoreItemFails`
and of a download drop their errors. A call to the disk that leaves something behind is
noted in `unclean` (`Leaves`), an item that the undoing could not burn in `unburned`, and
each such failure counts against `MaxFaults` as a crash does. `atBurn` is who held a
request when it was burned, `reopened` the requests that one of these released afterwards.

| code | actions |
|---|---|
| `createUploadRequest` | `CreateRequest` |
| `submitUploadRequest`, `newUploadedFileItem` | `Look`, `Refuse`, `Claim`, `ClaimGone`, `WriteFile`, `StoreItem`, `StoreItemFails`, `Mark`, `MarkFails` |
| its error paths | `Release`, `BurnItem`, `DeleteFile` |
| `downloadUploadRequestFile` | `Download` |
| `adminBurnUploadRequest` | `BurnLook`, `BurnRequest`, `BurnFails` |
| TTLs; the item's own end; the process dies | `Expire`; `ItemEnds`; `Crash` |

### FailureThrottle

One counter, the attempts that share it, and each call of the protocol as an
action. A directory or a user that cannot be reached counts as a wrong answer, as
in the code. `unbounded` is history: a counter may have been left without its TTL.

### Reporting and AuditPages

`logged` holds the events in the order Redis added them, `dead` how many of the
oldest hashes have expired, `index` the ids of `el:audit:index`. An event is
numbered by the clock when it is stamped, so two events may be added in the other
order. `keys`, `op` and `reader` are the API keys and the requests under way;
`untold` is history. A listing takes the newest `limit` ids of all workspaces and then
drops those of others, as the code does: `ReportHasNoGap` counts what stood in the way of
an event that is missing, of whatever workspaces.

In `AuditPages` the events that match the filter are numbered in the order of the index;
`oldest..total` are those that are still listed. The list loses its oldest when the index
is full (`LogEvent`), and when they expire or are crowded out by events that do not match
(`DropOldest`). Every page reads the list anew and may pass over any event of it, one that
cannot be read or that is not added yet; `blurred` notes these.

| code | actions |
|---|---|
| `adminCreateAPIKey` | `CreateKey` |
| `adminRevokeAPIKey`, `RevokeAPIKeyInWorkspace` | `RevokeLook`, `Revoke`, `RevokeFails` |
| every other audited operation | `Operate` |
| `AddAuditEvent` | `StampEvent`, `AddEvent`, `AddFails` |
| `apiAudit`, `AuthenticateAPIKey` | `ArriveWithKey`, `Authenticate` |
| `adminPage`, `adminAuditCSV` | `OpenAdminPage` |
| `ListAuditEventsInWorkspace` | `ReadIndex`, `ReadEvents`, `EndReport` |
| TTLs of events and keys | `EventExpires`, `KeyExpires` |
| `buildAuditPage` and the links between pages | `OpenPage`, `FollowNext` (`ShowPage`; `Pages`, `Shown`, `Place`, `EventsOn`), while `LogEvent`, `DropOldest` |

`serves` stands for the scope `reports:read` with an expiry that is 0 or to come; an
event that was written for an anonymous opening of a link is one of the default
workspace, as in the code.

### RequestTtl

`ttl` is one step from the number in the form to the TTL that is granted, in signed
integers from `-Half` to `Half - 1` (`Half` is 2^63 in the code) that wrap: `ParseInt` (whose error is ignored, so that a
number out of range is the nearest one), `Seconds` (the multiplication),
`Clamped`. `TtlInit` is what `Load` accepts.

### RateLimiter

`Pass` is the section the mutex guards: `Cleaned`, `Counted`, `Allowed`. The clock is
read before, so a request enters with a time up to `MaxWait` older than `now`, and
the next may enter with an older one still. A wait shorter than a minute is assumed
(`LimiterAssumption`): the section it waits for does a few map operations.

### Settings

`config` is the hash with its three secrets, each a text and the keys it is sealed
with. A save of one section is two steps, because another save, a changed master key
or a failing Redis may come in between.

| code | definitions |
|---|---|
| `adminSaveIntegrations` | `ReadConfig`, `SaveConfig`, `SaveFails`; `Filled` |
| `encryptIntegrationSecret`, `decryptIntegrationSecret` | `Sealed`; `CanOpen`, `Open` |
| `getIntegrationConfig` | `OpenedConfig`, `AllOpen` |
| `sendEmailContent`, `authenticateAD` | `SendEmail`, `AuthenticateAD` |
| a restart, maybe with another `ENCRYPTION_MASTER_KEY` | `Restart` |

### StorageMigration

`db[i]` is the status of an item and the backend its path names, `objects` what each
backend holds. `maintenance` says whether the operator follows `README.md` (server
down before the tool starts, and on S3 after a run that completed); the program does
not enforce it, so both are in `Init`. That a server claims and delivers a link is
one step here, and so is a walk of the cleanup; `ItemLinks` has both call by call.

| code | actions |
|---|---|
| `cmd/migrate-storage` | `RunTool`, `OpenSource`, `Upload`, `Point`, `Finish`, `ToolStops` |
| a server on either backend | `CreateItem`, `OpenItem`, `ExpireItem` |
| `cleanup.Start`, `CleanupOrphans` of the backend | `CopyActive` (`Clean` is `filepath.Clean`), `Sweep` |
| the operator | `StopServer`, `StartServer` |

### WorkspaceMigration

`home[r]` is the `workspace_id` of a record; of a record nothing else is kept, and
the handlers that `WorkspaceAccess` has call by call are single steps. `husk` holds
the records that an `HSET` of the tool created after they were gone.

| code | actions |
|---|---|
| `MigrateWorkspace` | `StartRun`, `ScanKeys`, `NextPattern`, `ReadWorkspace`, `WriteWorkspace`, `ReadName`, `AddWorkspaceMembership`, `StopTool` |
| the server | `CreateRecord`, `ExpireRecord`, `AdminSaveUser`, `MicrosoftPost`, `Request`, `AdminDeleteUser` |

### ChunkedStream

`EncryptReader` is the frames of a file, `Objects` what may become of them in a
storage (lost, repeated, out of order, damaged), `DecryptReader` the reader that
writes what it has opened before it reads on, and `Complete` what a client takes for
a complete download: `Content-Length` is the `FileSize` of the item. A frame opens only
under its own number; that is what the cipher promises, and all that is assumed of it.

### WorkspaceAccess

The stores are functions: `user` (role, home workspace, whether the record has a
password; role `none` when there is no record), `member` (the role in each
workspace), `session`, `active` (the workspace a session has switched to),
`invite`, and `lock`. A request carries in `req[r]` what its handler has read and
still uses; it is served once, and every token names one session or invitation.
`admitted` (who was given which role where), `withdrawn` (memberships removed and
not given again), `missed` (memberships that outlive the record of their user, because
they were added behind its deletion, its scan passed over them, or the user moved to
another name), `setups`, `lapsed`, `overlooked` and `vacant` are history: no guard reads
them.

| code | actions |
|---|---|
| `requireAuth`, `authenticatedUser` | `Arrive`, `ReadActive`, `ReadHome`, `Join` |
| `switchWorkspace` | `SwitchLook`, `SwitchSet` |
| `adminCreateWorkspaceInvitation`, `acceptWorkspaceInvitation` | `Invite`; `AcceptLook`, `AcceptSpend`, `AcceptAdmit`, `SwitchSet`; `InvitationExpires` |
| `adminSaveUser` | `SaveLook`, `SaveCheck`, `Save`, `SaveAdd` |
| `adminDeleteUser` | `DeleteLook`, `DeleteCheck`, `Remove`, `List`, `Erase` |
| `loginPost`, `adPost`, `logout`, TTL of a session | `Login`, `DirectoryLogin`, `CreateSession`; `EndSession` |
| `microsoftPost`, `migrateLegacyMicrosoftUser` | `Microsoft`, `FindLegacy`, `MoveLegacy`, `ForgetLegacy`, `SaveEntra`, `CreateSession` |
| `setupPost`, `CreateInitialAdmin` | `Setup`, `Lock`, `CheckAgain`, `CreateAdmin`, `Unlock`, `CreateSession`; `LockExpires` |
| a failing call, a lost answer, a crash | `Abort` |

* A handler that gets an error stops (`Abort`), except where the code goes on: the
  membership reads and the write in `authenticatedUser`, and the reads of the record
  in `adminSaveUser` and `microsoftPost`, which count as "no record" when they fail.
* A scan (`HasAdmin` of setup, `ListWorkspaceMemberships`) is one step that may pass over
  any record, because the code skips a record whose `HGETALL` fails, and reads one after
  the other while they change. `Setup` therefore has no guard: its scan may see no
  administrator whatever there is; `CheckAgain` notes in `overlooked` when the scan under
  the lock does; `List` notes the memberships it passed over in `missed`. In `requireAuth`
  a scan that passes over the administrators refuses the request, which is `Abort`.
* `adminSaveUser` takes a user whose record it cannot read for a new one and checks no
  membership: `SaveLook` goes to `savenew` instead of `savecheck`.
* Passwords, group tokens and directory answers are the choice whether the action
  happens and which role it yields. An e-mail address is the set of users it belongs
  to (`Addressed`). The older record of a Microsoft user is `LegacyOf`.
* Workspaces are never created by a handler: a second one comes from
  `cmd/migrate-workspaces` or a changed `DEFAULT_WORKSPACE_ID`. So `Init` is either a
  server nobody has set up (`Fresh`) or one in use with local users in both
  workspaces (`Running`).

## 3. Runs

| run | bounds | shows |
|---|---|---|
| `item_links` | a text and a file link of which one is created, two recipients, one administrator, `MaxTTL` 3, clock to 5, one crash, one unread key | type invariant; `SingleDelivery`, `SecretHasOneHolder`, `NoLiveRecordOutlivesExpiry`, `OnlyTheOrphanSweepLosesFiles`; `BurnIsFinal`; the refinement `KeepsPromise`; `SpentFilesReclaimed` under fairness |
| `server` | one upload request, three submissions, one administrator, one fault (a crash, or a disk call that leaves something); two workspaces, one key, two audited operations, one reader, an index of 2, 3 events, one unread; pages of 1 to 3, a list of 4, 6 events; durations of 5 bits | `ExclusiveUpload`, `UploadingHasUploader`, `OneAcceptedUpload`, `AcceptedStaysAttached`, `BurnedStaysClosed`, `FailedUploadIsUndone`; `ReportHasNoGap`, `EndedKeysReportNothing`, `RevocationsAccounted`; `PagesMissNoEvent`; `TtlInRangeAsAsked` |
| `sign_in` | two addresses, two requests a minute, a minute of 2 ticks, waits up to 1, clock to 5; three attempts, limit 2, two faults; two administrators, one secret text, two master keys | `AdmissionsBounded`, `RefusedForCause`, `EndedWindowsForgotten`; `GuessesBounded`, `BlockedUntilWindowEnds` under fairness; `SecretsSealedOnce`, `SecretsLostForCause` |
| `migrations` | two items, two runs, one unread; one link, one event, one local and one Microsoft user, one key, two workspaces, two runs, `MaxWork` 3; chunks of 2, files up to 6 | `MaintainedMigrationLosesNothing`, `PathsFollowObjects`, `MigrationReopensNothing`, `RollbackCopiesStay`; `MovedUsersAreMembers`, `CompletedMovesAll`; `DamageIsNoticed` |
| `workspace_access` | three requests; two local users, one Microsoft user with an older record, one directory user; two workspaces, two sessions, one invitation | `RolesWereAssigned`, `SetupOnce`, `NoRecordNoMembership` |
| `cleanup_race` | one file link | violated: `ReferencedFilesKept` |
| `creator_burn` | one text link | violated: `ConfirmedBurnEndsLink` |
| `burned_request_listed` | one request, two submissions | violated: `BurnedIsNotListed` |
| `throttle_lost_window` | as in `sign_in` | violated: `BlockEnds` |
| `removed_member_returns` | as `workspace_access`, two requests | violated: `RemovedStaysOut` |
| `s3_cleanup` | one item | violated: `S3CleanupSparesReferenced` |
| `workspace_migration_stops` | one user, one event | violated: `WorkspaceMigrationCompletes` |

Why the bounds are enough to be interesting.

* *One link at a time.* Links do not interact: no step reads one link to change
  another; time, a crash and the cleanup touch all of them. What is checked of one
  link is proved of any number (section 5), for all of it but liveness.
* *Two recipients, one administrator.* The race for a claim needs two, and a third
  party that changes the record behind both.
* *`MaxTTL` 3, clock to 5.* The cutoff of the cleanup is `MaxTTL + Hour` = 4, so a
  file can become old enough to be removed by its age (at 5), a link can outlive the
  hour of the cutoff, which a shorter TTL would hide; a link can expire
  while it is read, and an upload can outlast its own TTL.
* *Three submissions.* One that claimed the request before it was released, one
  after, and one that still holds an old look at it.
* *An index of 2, three events.* The third event trims the first, two concurrent
  operations add theirs in the other order, and a limit of 1 cuts a listing short of
  the index.
* *A list of 4, six events, pages of 1 to 3.* A last page that is full and one that is
  not, enough events logged between two pages to move others over a boundary, and two more
  than the list keeps.
* *`InTurn` in `MCServer`.* Of two submissions that have done the same up to reading their
  forms, the first in turn goes on and the last is refused. Exchanging two submissions that
  are in the same state changes nothing, so this leaves out only copies of behaviours.
* *`Loggable` in `MCServer`.* No operation is begun that could not be stamped within
  `MaxEvents`: it could only wait and fail, as it can with an event to spare.
* *`fresh` in `MCWorkspaceAccess`.* A setup whose scans pass over administrators is explored
  on servers that began fresh: there a first setup makes the administrator that the second
  one passes over. On a server in use it is left out, to keep the run within its time; the
  theorem `SetupOnceHolds` has it everywhere.
* *`savenew` in `MCWorkspaceAccess`.* The names an administrator saves as new are those of
  local users and the older names of Microsoft users; the theorems have all of them.
* *Five bits* (`Half` 16). With a second of 3 the largest duration is 15, and products of numbers
  of the form wrap several times, to both signs. The arithmetic is the same for 64.
* *Two requests a minute, a minute of 2, clock to 5.* Three windows one after the
  other, so that two full bursts meet at an end and a third comes; a wait of 1 makes a
  request enter with a time from before the window it is counted in, and two requests
  fill a window in which one of them waited. With one request a minute the bound held
  without the allowance for the wait; the proof for every limit showed that it does not.
* *Three attempts, limit 2.* The overshoot (`Limit + N - 1` = 4) is reached.
* *Two master keys, two administrators.* A key that changes and comes back, and a
  save between the two steps of another.
* *Two items, two runs of the tool.* A run that stops with one item moved and the
  other in its hands, and a second one that meets both.
* *`MaxWork` 3.* Two runs of the workspace tool with a record besides the users, or
  one run with two; the two users are there in all of them.
* *Files of up to three chunks.* Empty, a multiple of the chunk size, with a rest; a
  frame can be lost at the end, before it, or exchanged with another.
* *Three requests, two workspaces.* An administrator's edit, the user it is about and
  a third request between their calls; three setups at once, one to lose its lock and
  two to use it. A user that signs in and then sends a request takes two of them.
* *One crash, two faults.* One is enough to stop any handler between any two calls;
  the throttle needs one to lose the `EXPIRE` and a second for what comes after.

Deadlock is checked in `item_links` and in the runs of that module, where the
cleanup goroutine always has a next step. The others say `CHECK_DEADLOCK FALSE`,
because what they model really ends or the bounds end it: submissions have all been
made, requests have all been served, the clock of the rate limiter is at its horizon,
a tool has used its runs and every record is gone, a stream has been read. The
throttle stops when the counter has no TTL and is over its limit, which is the
finding of `throttle_lost_window`.

Every property of the passing runs has a mutant in `PROJECT.json`: a definition of
the model changed as a plausible bug in that code would change it (the script
reads the fields after deleting them, the cutoff forgets `MAX_TTL`, the release is
forgotten, a key is authenticated from a cache, the tool looks at no upload error),
which the run then refutes.

## 4. Fairness

`SpentFilesReclaimed` assumes only that the cleanup goroutine runs: `Start` is a
loop over a ticker that nothing stops (weak fairness of its steps), and Redis does
not refuse its lookup for ever (strong fairness of `LookupActive`, because a
refused lookup ends the cycle and the next cycle tries again). Nothing is assumed
of recipients, administrators, or the clock: a download that never ends keeps its
file only as an open descriptor.

`BlockedUntilWindowEnds` (run `sign_in`) assumes that a handler that has started runs
to its end and that windows lapse. No attempt is ever obliged to start, and nothing is assumed of
the other parts of that run: while one of them moves, no handler of the throttle is
under way.

## 5. Proofs

TLAPS checks the following for all values of the constants, under the named
assumptions only:

| assumption | says |
|---|---|
| `LinksAssumption`, `TimeAssumption` | text and file links are disjoint; the bounds are naturals, a TTL and the hour are positive |
| `IDAssumption` | the empty ID is no ID of a request, and the marker for "none" no submission |
| `NamesAssumption` | the markers for "none" are no users or workspaces; `LegacyOf` maps Microsoft users to older ones |
| `ThrottleAssumption` | finitely many attempts, a positive limit |
| `LimiterAssumption` | a positive limit and minute, and a wait shorter than the minute |
| `SettingsAssumption` | the empty string is no secret, and there is a master key |
| `ReportingAssumption`, `PagesAssumption` | a positive index, list and pages, limits of a listing within the index |
| `TtlAssumption` | `Half` and the second are positive; the bounds of a TTL are those `TtlInit` accepts |
| `StorageAssumption`, `MigrationAssumption` | the markers for "none" are no items, records or workspaces; `el:audit:index` is no record |
| `ChunkAssumption` | a chunk has a byte |

The bounds `Horizon`, `MaxUnread`, `MaxCrashes`, `MaxFaults`, `MaxEvents`, `MaxTotal`,
`MaxRefused`, `MaxRuns` and `MaxStarts` are arbitrary naturals, so no finite behaviour is
excluded. The runs `server`, `sign_in` and `migrations` check several components under one
specification: `EachOnItsOwn` in the three proof modules says that its behaviours are
behaviours of each component, so what is proved of a component holds of the run.

* Types: `TypeCorrect` in `ItemLinks_proofs`, `UploadRequests_proofs` and
  `WorkspaceAccess_proofs`, `ThrottleTypeCorrect` in `SignIn_proofs`, `TypesCorrect` in
  `Server_proofs` and `Migrations_proofs`. The types of the other components are parts of
  their invariants.
* `ItemLinks_proofs`: `SingleDelivery`, `SecretHasOneHolder`,
  `NoLiveRecordOutlivesExpiry` and `BurnIsFinal`.

  None of them is inductive. `SingleDelivery` alone does not exclude a request
  that holds a claim of a link that was delivered before. The invariant `Inv` says
  what makes that impossible: a record that can be claimed is untouched
  (`LiveIsUntouched`: all secrets there, no delivery, not burned, nobody served,
  and its TTL ends at `ExpiresAt`); the winner of a claim has the secrets and Redis
  has not (`HoldersHaveSecrets`); one request at most is being served
  (`OneServed`). To keep it, no step may make a record live again: a burn that
  re-creates an expired record makes it `consumed`, and a record is created once
  (`DraftsAreFresh`), before anybody knows its link (`RequestsNameKnownLinks`).
  Each action preserves `Inv`; those that touch none of its variables share the
  lemma `Frame`. `BurnIsFinal` follows because a claim needs a live record, and a
  live record is not burned.
* `ItemLinksRefinement!KeepsPromiseHolds`: `Spec => KeepsPromise`. `Phase` maps a
  live record to `open`, a claim not answered yet to `taken`, a link not stored yet
  to `draft` and everything else to `gone`. The step that needs `Inv` is the
  delivery: `taken -> gone` with the count raised by one is a move of the abstract
  link only if no other request still holds the claim.
* `OneTimeLink_proofs!PromiseIsSingleUse`: what is refined implies single use.
* `SignIn_proofs!GuessesStayBounded`: the count plus the attempts that
  passed the check and are not counted yet stays below `Limit + N`; the inductive
  part counts those attempts (`Unchecked`).
* `ItemLinks_proofs!OnlyTheOrphanSweepLosesFilesHolds`. The proof goes by what a
  step may change, not by actions: `DiskMoves` says that a file goes only in one of six
  ways (`Lost`), `LiveByStore` and `AwaitedByClaim` that a link comes to need its file
  only by the storing of its item or by a claim. The invariant `FilesInv` then keeps,
  for each file, that its age fits its link (`Dated`), that no one names it before it
  is stored (`NotYetNamed`), that a needed file is there unless the removal was noted
  (`NeededIsThere`), and that a file somebody is about to delete is needed by nobody
  else (`DoomedIsUnneeded`).
* `UploadRequests_proofs`: `ExclusiveUpload`, `OneAcceptedUpload`, `AcceptedStaysAttached`,
  `UploadingHasUploader`, `BurnedStaysClosed`, `FailedUploadIsUndone`, from one
  invariant. The core is that a submission *holds* a request from its claim to its last
  call, and for ever once it is accepted: two holders never write to one hash
  (`HoldersApart`), and a hash somebody holds cannot be claimed (`HeldIsClosed`). A
  partial hash breaks that link, since its submission writes to the hash of the empty
  ID; so the invariant says that a partial hash never becomes a full one
  (`PartialStaysPartial`), and that a submission knows only its own request or the empty
  ID (`LinksWereSent`). What failed submissions leave is `Leftovers`: a file belongs to a
  submission that is at work or was accepted, or a call to the disk left it
  (`FilesHaveItems`); a request names an item only once it was marked, and after the
  burn of the undoing that item is spent or could not be burned (`ItemsWereMarked`).
  `BurnedStaysClosed` does not say that a burn stops the submission that holds the request:
  the code does not (`server.go:530` marks whatever the status). It says that this one is
  all a burn leaves, until its release opens the request (which is finding 3).
* `WorkspaceAccess_proofs`, by an invariant for each theorem over the common `TypeInv`
  (each handler has the variables its next call needs, `Keeps`):
  `RolesWereAssignedHolds` because every role in a membership, in the record of a user,
  in an invitation, or in the hands of a request was assigned before (`Granted`,
  `Entitled`); `SetupOnceHolds` because one request at most is behind the lock until the
  lock lapses (`LockIsHeld`), and an administrator that was created is still there for
  the check under the lock, which finds it unless its scan passes over it (`AdminStays`);
  `NoRecordNoMembershipHolds` because a deletion erases the record only when the
  memberships of its user are gone, or are noted as those its scan passed over or that came
  behind it (`Deleting`). It is about all users, those an Entra sign-in moves to another
  name included, and assumes nothing of the names.

* `SignIn_proofs`, the rate limiter: `AdmissionsBounded`, `RefusedForCause`,
  `EndedWindowsForgotten`. `LimiterInv` relates the last admissions of an address to its
  window, which is one of three things (`Fits`): it is running, and the admissions counted
  in it are the last ones and lie within the minute it ends with (`Running`); it has ended,
  or was dropped by the cleanup, and all but `PerMinute` of the admissions are more than a
  minute old, less the wait (`Ended`). A request that reads the clock, waits, and then
  begins a window with its old time is the case that needs `MaxWait`.
* `SignIn_proofs`, the settings: `SecretsSealedOnce`, `SecretsLostForCause`. The copy a save
  holds between its two steps is as tidy as the hash (`Tidy`), and a copy that is sound
  still has what is expected; a save that comes between makes the other copies unsound.
* `Server_proofs`, the log: `ReportHasNoGap`, `EndedKeysReportNothing`,
  `RevocationsAccounted`. The index holds the newest `Cap` of all the events that were
  ever added (`LogInv`), whatever order their transactions came in; the lemma behind it is
  that dropping the oldest again and again keeps the newest of all (`NewestAgain`). So an
  event of those that were logged is not among the ids a reader holds only when `limit` of
  them are newer (`NewestMissed`, `ReaderInv`). A key that has ended never works again, so what a
  reader found of it stays true while it waits for the log (`KeyInv`).
* `Server_proofs!PagesShowAll`: what one has not seen of the list as it was at page 1, and
  was not passed over with or before a newer event, lies behind the page shown, while the
  list grows in front of it and ends earlier (`PagesInv`); `PagesIs` and `ShownIs` are the
  arithmetic of the pages for every page size.
* `Server_proofs!TtlIsGranted`: for integers of every width; a product that wraps is in
  the range of the integers (`WrappedInRange`), which is all the clamp needs.
* `Migrations_proofs`, the storage: `MaintainedMigrationLosesNothing`, `PathsFollowObjects`,
  `MigrationReopensNothing`, `RollbackCopiesStay`, from one invariant. None of them says
  enough of the tool and the cleanup to be inductive: what the cleanup copied still lists
  all that is on local storage (`CopiesList`); the object of a link that can be opened is
  where its path says, or the cleanup had a reason (`ObjectsStay`), because a path is
  written behind the upload (`UploadedFirst`); in maintenance no server on local storage
  runs once the tool was started (`Beforehand`, `Afterwards`), and what is left on local
  storage is before the tool or could not be read (`LeftBehind`).
* `Migrations_proofs`, the workspaces: `MovedUsersAreMembers` and the action property
  `CompletedMovesAll`. A record that is still in the workspace to be emptied, of a pattern
  that was scanned, is before the tool or was saved since (`LeftAreFresh`); the membership
  that is added is that of the workspace the user was moved to (`MovingHere`).
* `Migrations_proofs!DamageNoticed`: the bytes written are those of the file up to the frame
  that was read last (`StreamInv`), because a frame that opens is the one that is due
  (`OpenedIsDue`); `ChunksHold`, `ChunkBegins` and `FramesAre` are the arithmetic of the
  chunks for every size of a chunk.

Only model-checked: the liveness properties `SpentFilesReclaimed` and
`BlockedUntilWindowEnds`, since the prover has no rules for `ENABLED` here. Every other
property of the passing runs is a theorem.

## 6. Where the code and its documentation disagree

1. **The cleanup may delete the file of a live link** (`cleanup_race`). It copies
   the active paths, then removes every `.bin` that is not in the copy. An item
   that is stored in between, its file already renamed, loses the file; the link is
   available and ends at `/expired`. `docs/production-configuration.md:140` says
   the cleanup removes expired and unreferenced objects.
   `OnlyTheOrphanSweepLosesFiles` shows this window (and the same one around a
   claim) to be the only way, next to a claim that is kept waiting for more than the
   hour the cutoff leaves.
2. **"Burn this link" burns nothing** (`creator_burn`). The dialog of the page that
   shows a new link promises that recipients can no longer open it
   (`locales/en.json:155`); the script only forgets the link in the browser.
3. **A burned upload request comes back** (`burned_request_listed`). The release of
   a submission that fails sets `available` whatever the status is.
4. **A block without an end** (`throttle_lost_window`). When the `EXPIRE` of the
   first failure is lost, the counter never gets a TTL.
5. **A removed member returns** (`removed_member_returns`). `adminDeleteUser` removes
   the membership but not the workspace from the user's record, and
   `authenticatedUser` adds the membership of that workspace when it does not find
   it. So a user who keeps another membership is back with the next request; and a
   request under way during the removal puts a membership back even when the record
   is deleted. `internal/web/legal/terms.md:60` says access is limited by the
   memberships the operator assigned.
6. **The cleanup empties the S3 bucket** (`s3_cleanup`). `cleanup.Start` applies
   `filepath.Clean` to every active path (`internal/cleanup/cleanup.go:35`), which turns
   `s3://bucket/key` into `s3:/bucket/key`; `CleanupOrphans` of S3 looks the first form
   up, finds nothing, and removes every object, those of available links included, each
   half hour. `docs/production-deployment-checklist.md:160` says the cleanup removes
   expired and unreferenced objects. The properties of a maintained migration carry the
   exception `swept` for this.
7. **The workspace migration cannot complete** (`workspace_migration_stops`). The pattern
   `el:audit:*` matches the sorted set `el:audit:index` as well; `HGET` of it answers
   `WRONGTYPE` and the tool ends before it comes to users and API keys. `README.md:196`
   gives the command to reassign existing records.

Also met while modelling, without a property that is violated:

* An administrator whose record cannot be read is none to `HasAdmin`
  (`internal/redisstore/store.go:309`): when that happens to the only one, at both checks,
  setup creates another. A membership that cannot be read is none to
  `ListWorkspaceMemberships` (`internal/redisstore/store.go:424`), so a deletion may leave it
  without the record of its user, against the comment at `internal/web/auth.go:1060`.
  `SetupOnce` and `NoRecordNoMembership` name both as exceptions and show that there are no
  others than the ones they name.
* A failing upload to an upload request may leave its temporary file, its file, or an item
  that can be downloaded, each when the call that should remove it fails too
  (`FailedUploadIsUndone`); the cleanup takes the files later.
* An invitation that two requests accept at once is spent by both; the memberships
  of an older Microsoft record are not moved to the new one; a Microsoft sign-in saves
  the user without a workspace, so that a user who was moved by `cmd/migrate-workspaces`
  is back in the default workspace.
* The audit list takes the newest entries of all workspaces and filters afterwards, so a
  busy workspace empties the list of a quiet one; openings by anonymous recipients are
  logged in the default workspace; pages are cut by place, so an event may be shown on
  two pages while the log grows. It is shown on none only when it left the list meanwhile, or
  a request passed over it or a newer one (`PagesMissNoEvent`): an event that cannot be read
  once moves all the older ones up a place.
* A save of one section of the settings writes the other sections back from a read whose
  error is ignored: when Redis does not answer, the master key has changed, or another
  save comes in between, what was entered is lost, although the form says "Leave this field blank to keep it"
  (`locales/en.json:132`). A changed master key also breaks the admin page.
  `SecretsLostForCause` shows that nothing else loses one.
* After a migration to S3 a server that is started on the local backend cannot open the
  migrated links; one that runs on the local backend during it takes their sources for
  orphans; a second run of the tool stops at an item the first one has moved. A `HGET`
  of the name that fails during the workspace migration is passed over, and the user has
  no membership there until the next request.

## 7. Plan

Done, in this order: `OneTimeLink`, `ItemLinks` with its proofs and refinement,
`UploadRequests` and its proofs, `FailureThrottle`, `WorkspaceAccess` and its proofs,
`Reporting`, `AuditPages`, `RateLimiter`, `RequestTtl`, `ChunkedStream`, `Settings`,
`StorageMigration`, `WorkspaceMigration`, the files of `ItemLinks`, the proofs of all the
components that had none. Next:

1. `AccessRules`, an abstract specification that `WorkspaceAccess` implements: a set
   of grants (user, workspace, role) that only assignments enlarge, and requests that
   act with a grant. `GrantInv` is what its refinement needs.
2. The receipt a creator asks for, with the mail that may fail after the opening.

## 8. Not modelled, and why

* Ciphers and hashes: `internal/crypto` beyond its framing is arithmetic on bytes,
  taken for what it promises in `ChunkedStream`.
* Mail, legal documents, branding: composition of text and one write each, which
  nothing else reads in an order that matters; a mail that fails is an outcome in
  `ItemLinks` and `UploadRequests`. That `CleanupOlderThan` removes an old logo, which is
  stored under the same path, is left out with it.
* Configuration and start-up other than the bounds of a TTL: read once; the models
  take the values as constants.
* Templates, translations and scripts of the pages, except the burn dialog; the text
  filters of the audit page (`AuditPages` speaks of the events that match).
* The receipt of a created link, and the audit events of the link handlers: written
  last and read by none of them. `Reporting` has the log itself.
* A server that runs `ItemLinks` on S3: there a missing object is noticed while reading
  instead of when opening. `StorageMigration` has the S3 backend with whole openings.
* A change of the master key for links: their data cannot be opened any more, as one
  would expect. `Settings` has it for what the key is used again and again.
* Hazards of small reach: the session of a directory user, who has no record
  (`internal/web/auth.go:358`); a retry of go-redis that executes an `HSET` a second time,
  behind a claim that came after the first; the rounding of a TTL below a second by `EXPIRE`;
  a secret entered in the settings that begins with `enc:v1:`, which is stored as it is.
