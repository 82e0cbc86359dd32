# Spraywall in TLA+

Spraywall lets a climbing gym photograph a wall, detects the holds on the photo,
and lets climbers draw routes on them. When a wall is partly reset, a new photo
is uploaded, its holds are matched to the old ones, a setter reviews the
matches, and the reset is applied: routes whose holds all survive move to the
new photo, the others stay behind.

This directory holds models of the parts of the program where steps of several
actors interleave, the runs that check them on small instances, and proofs of
what matters most for every size. Everything here follows the source under
`server/`, `worker/` and `web/`; `PROJECT.json` names for each definition the
lines it stands for.

## 1. The system

### Processes and stores

- **Server** (Go, `server/`): stateless HTTP handlers over one PostgreSQL
  database and one MinIO bucket. A handler reads, validates, sometimes talks to
  the object store, and then runs one transaction. Handlers run concurrently;
  several servers may run.
- **Workers** (Python, `worker/main.py`): any number of processes that poll the
  table `detection_jobs`. Each has a main thread and, per job, a heartbeat thread
  with a connection of its own.
- **Web client** (React, `web/`): several tabs share a token pair in local storage and a
  lock in IndexedDB. In a tab, one page at a time is mounted; pages share a cache of
  queries, and keep filters in session storage and what they hand over in the address.
- **PostgreSQL** is the only place where the processes meet: row locks
  (`FOR UPDATE`), guarded updates, foreign keys and unique keys are the only
  synchronisation.

### Components

| Component | State | Operations | Hard behaviour | What makes it correct |
|---|---|---|---|---|
| Detection jobs (`worker/main.py`, migrations 0010, 0021) | `detection_jobs` rows: status, attempts, lease, back-off; per worker the claimed job, token, heartbeat | insert with the upload, claim, renew, store results, record failure, discard, cascade | slow or dead workers, expired leases, commits of unknown outcome, images deleted under a worker | results stored once; a live lease is exclusive; no attempt is lost; every job settles |
| Wall images, resets (`wall/handler.go`, `wall/reset.go`, `wall/reset_mapper.go`) | `wall_images` (active, review state, parent), `holds`, `hold_matches` | full upload, reset upload, hold edits, review, apply, discard, delete wall | the active image is read before a slow upload; the worker writes to a reset under review | one active image; at most one pending reset and it is current; matches stay one to one |
| Routes (`route/handler.go`, `route/hold_roles.go`) | `routes` (image, holds and their roles, draft, status) | create, edit, publish, set status, delete | edits validated against an image that a reset replaces | a route's holds are on its image; a remap is complete or does not happen |
| Hold matching (`worker/detection/match.py`) | none (pure) | match old to new holds | ties and thresholds | one to one |
| Storage and deletion queue (`wall/handler.go`, `storage/minio.go`, migration 0023) | objects, `storage_deletions` rows | put, delete, enqueue, drain with back-off | crash between object and row, ambiguous commit, two drainers | no row without its object; what is queued is deleted |
| Accounts, sessions (`user/`) | users (role, password, session version), refresh tokens | register, login, refresh, logout, change password | stale snapshots against a concurrent password or role change; lost answers | a consumed token is never good again; a password change ends every older session |
| OIDC (`oidc/`) | identities, state cookies | sign in, link, unlink, sync role and picture | first sign-in twice at once, unlink of the last method | an account keeps a way in; an identity belongs to one account |
| Invites (`invite/`) | invites | create, accept, revoke | two acceptances at once | single use; a role never drops |
| Avatars (`user/avatar.go`, `web/src/pages/Profile.tsx`) | `avatar_key` and its source, objects | upload, remove, copy the provider's picture | rows and objects are written apart, by several devices | the row's object exists; nothing is left behind |
| Circuits (`route/circuits.go`) | ordered routes of a circuit | create, reorder, append, delete | routes a viewer does not see | hidden routes survive a reordering |
| Climb logs (`route/logs.go`) | logs, ratings | log, edit, delete | an entry's place is fixed before its turn at the lock | at most one flash, and first |
| Activity (`route/activity.go`, `web/src/components/ActivityFeed.tsx`) | none at the server; pages of the feed at the client | read a page from a cursor, load more, read all again | entries come, go and move between two pages | an unchanged entry is shown once |
| Client: session (`web/src/lib/api`, `lib/store`) | token pair, lock, a copy of both per tab | call, renew, sign in, log out | two tabs, one single-use token; tabs closed or suspended | a tab signs itself out only of a dead session; a logout stands |
| Client: query cache (`lib/hooks`) | an entry per query, fetches, optimistic changes | fetch, poll, write, invalidate, navigate | a write during a fetch, a failed poll | own writes show; the end of a detection is noticed |
| Client: drawing a climb (`WallDetail`, `RouteCreate`, `RouteDetail`) | selection, tool, address | pick, erase, hand over, save | back and forth between pages, lost answers | what is saved is what was drawn, once |
| Client: list of climbs (`RouteList`, `routeFilters.ts`) | filters in the address and in session storage | filter, sort, restore, correct | effects of one render that each replace the address | filters settle, canonical and stored |
| Client: camera (`WallCamera`) | streams, lens, captures | open, switch, capture, upload, leave | what was awaited goes on after the page has changed | no camera runs unseen; buttons come back |
| Client: review of a reset (`ResetReview`) | diff, selection, requests | match, restore, delete, apply, discard | edits, fetches and the worker cross | a settled page shows the reset as it is |
| Client: log drawer (`RouteDetail`, `ClimbLogForm`, `FilterDrawer`) | form, dialog | add, edit, close | closed, animated away and opened again | a new entry overwrites none |
| Client: circuits (`Circuits`, `RouteDetail`) | a draft list, saves, refetches | move, add, remove, toggle | a save sends a whole list, maybe an old one | no own change is taken back |
| Client: statistics (`stats.ts`, `Stats`) | none (pure) | filter, count, group | ungraded climbs, empty weeks, window edges | equals its definition |
| Legacy remap (`route/legacy_remap.go`) | none (pure) | match old routes by geometry | ties | equals its definition |
| Rate limiter (`middleware/ratelimit.go`) | counters per address | admit, expire | window boundary | bounded admission |
| Beta videos, reads, vision code, other pages, wiring | – | – | – | see section 7 |

### How they interact

An upload inserts the image and its job in one transaction (`UploadImage`), so
the queue needs no message broker; a worker's transaction inserts holds, matches
and alignment and finishes the job. Deleting an image (a discarded or superseded
reset, a deleted wall) deletes its job by cascade while a worker may be busy with
it. Applying a reset reads the job's outcome and moves routes. Routes reference
images and list holds by id; nothing in the schema ties those ids to the image,
so it is the handlers that must.

A photo is an object of the store and a row, and no transaction spans both: an upload
stores the object first and takes it back if no row comes to name it, and whoever
removes a row deletes its object after the commit; what could not be deleted is queued.

The client meets the server only by requests. A page renders what the cache of queries
has, which is as old as its last fetch; a write invalidates the entries it touches, and
each page adds state of its own (a draft, a selection, a form, an open camera) on top of
data that may be replaced under it at any await.

## 2. Modules

| Module | Models |
|---|---|
| `DetectionSpec` | what detection promises: a job is delivered once, in one step, or given up; removing the image ends it |
| `DetectionJobs` | the queue, the workers and their heartbeats; refines `DetectionSpec` |
| `DetectionJobs_proofs` | its proofs |
| `MCDetectionJobs` | instances for TLC |
| `WallResets` | one wall: images, holds, matches, routes, requests in flight, and detection as `DetectionSpec` describes it |
| `WallResets_proofs` | its proofs |
| `MCWallResets` | instances for TLC |
| `Accounts` | accounts, ways to sign in, sessions, roles and invites, with several requests in flight |
| `Accounts_proofs` | its proofs |
| `MCAccounts` | instances for TLC |
| `Circuits` | the ordered routes of one circuit, replaced statement by statement while routes come and go |
| `Circuits_proofs` | its proofs |
| `MCCircuits` | instances for TLC |
| `WallPhotos` | the stored photos of a wall: uploads, discards, deletions, and the queue of deletions |
| `Avatars` | the picture of an account: row, object, and the profile page |
| `ClimbLogs` | the log drawer of a climb and the transactions that write the entries |
| `ActivityFeed` | the feed of a wall or a climb, page by page, while entries change |
| `ClientSession` | the tabs of a browser: token pair, lock, calls, sign-ins and logouts |
| `ClientSession_proofs` | its proofs |
| `MCClientSession` | instance for TLC |
| `ClientQueries` | what every query reads, which pages observe it, what every write changes, invalidates and removes |
| `QueryCache` | one entry of the query cache, over the tables of `ClientQueries` |
| `RouteEditor` | drawing a climb, from the wall page to the form and back |
| `RouteList` | the filters of a wall's list of climbs |
| `WallCamera` | the page that photographs a wall |
| `MCWallCamera` | instance for TLC |
| `ResetReview` | the page that reviews a reset, with the requests it makes |
| `CircuitEditor` | the pages that edit a circuit, with their query |
| `Statistics` | what the statistics pages compute |
| `Arrays` | sorting and filtering of an array, for `RouteList` and `Statistics` |
| `MCClientPages` | the client's pages and `WallPhotos`, `Avatars`, `ClimbLogs`, `ActivityFeed`, side by side; instances for TLC |
| `ClientPages_proofs` | proofs about drawing, listing, logging and ordering climbs, the feed and the query cache |
| `PhotoPages_proofs` | proofs about the camera, the review of a reset, the stored photos and the picture of an account |
| `Views_proofs` | proofs that the pages' state keeps its types, and that their lists and statistics are right |

Operators marked `\* mutant` are altered copies of a definition. They model a
plausible mistake, no action uses them, and each is there to show that a property
would notice it. `PROJECT.json` lists one for each property of a run; where a property
has several parts, the others break the other parts and can be tried in the same way.

### DetectionJobs

An action is one transaction or one step between two transactions.

| Code | Model |
|---|---|
| `claim_job` | `ClaimJob`, `FailOrphan`, `ClaimNothing`, each with the sweep of exhausted jobs that opens the transaction |
| `LeaseHeartbeat` | `beat` and `lost`; `RenewLease`, `HeartbeatError`; `Raise` and `Forget` stop the thread as `__exit__` does |
| `process_job` | `StartProcessing`, `Infer` |
| `write_results` | `BeginWrite` (locks and checks), then `CommitResults` or `AbortResults`; between them the row is `Locked` |
| `record_failure`, `mark_discarded` | `RecordFailure`, `MarkDiscarded` (fenced updates that may themselves fail) |
| `UploadImage`, cascades | `CreateDetectionJob`, `DeleteImage` |
| the clock | `Tick` counts leases and back-offs down |

Time is what remains: `lease[j]` ticks until `lease_expires_at`, `wait[j]` ticks
until `next_attempt_at`. A fresh uuid token is the number of the attempt. `ORDER
BY next_attempt_at` is left open: any eligible row may be first, so the
properties do not depend on the order. The wall's row lock in `write_results`
only delays and is left out. `Uncascaded` rows stand for databases that the
comment at `main.py:131` speaks of, in which a job outlived its image. A commit whose
outcome the worker does not learn is a `CommitResults` that goes on to the
failure handler. A heartbeat thread that does not end within the time `__exit__`
waits for it is not modelled.

### WallResets

An action is one transaction. A handler that reads the active image first and
writes later keeps what it read in `req`; between the two, anything may happen.

| Code | Model |
|---|---|
| `CreateRoute`, `UpdateRoute` | `GetActiveWallImage`, `ValidateHolds`, then the write |
| `CreateHold`, `DeleteHold` | `GetActiveWallImage`, then the write |
| `UploadImage` | `UploadFull`; for a reset `GetActiveWallImage`, then `UploadPartial` with the check for 409; `ReplaceImages` drops the pending reset |
| `UpdateResetMatch`, `DeleteResetHold`, `RestoreResetHold`, `DiscardReset` | the same names, under `Reviewable` (`lockPendingReset`) |
| `ApplyReset`, `remapRouteHolds` | `Applicable`, `Kept`, `Remap`, `ApplyReset` |
| `_load_partial_parent`, `write_results` | `LoadPartialParent` reads the old holds into `seen`; `WriteResults` stores new holds and a one-to-one set of matches |

`fate[i]` is the state of the image's job and also says whether the row exists,
because job and image come and go together. A row is a reset iff `review[i]` is
not null. The alignment is stored iff the reset's detection is done. `Home[h]` is
the image a hold's id is used for; ids are never reused. A match's
`wall_image_id` is that of its new hold. `validateHoldRoles` makes the roles of a
route a labelling of its hold ids, so the ids stand for both; they are a sequence
and may repeat. There is one wall: no transaction touches two. A transaction that
fails leaves everything as it was and is a stutter or a `Refuse`. One `seen` per
image is enough although an image may be processed by several workers in turn:
only the fenced one writes, and the old holds an earlier one read differ from its
own only in holds that are gone, which the foreign key refuses.

### Accounts

An action is one transaction, or the part of a handler up to what it keeps in
memory. A request in flight is a record of what it read: the account's row, the
credential that opened its session, or the account an identity was linked to.

| Code | Model |
|---|---|
| `Register` | `StartRegister` (looks for the address without case), `CreateUser` (the unique key on the exact spelling), then the tokens |
| `Login`, `IssueTokens` | `StartLogin` keeps the row; `DemoteOnLogin` and `IssueOnLogin` write from that copy |
| `Refresh`, `Logout` | one action each; a refresh locks the account, deletes the row of the old token and issues the next pair of the session |
| `ChangePassword` | `StartChange` (session, current password), then `ChangePassword` (locks, compares version and password again, revokes) |
| `UnlinkIdentity`, `linkIdentity` | `StartWithSession`, then `UnlinkIdentity` or `LinkIdentity` under the lock |
| `Callback`, `loginIdentity`, `resolveUser` | `StartSSO` looks the identity up; then `SignInLinked`, `TakeOver` or `SignUp`, all ending in `SignIn` |
| `CreateInvite`, `AcceptInvite` | `CreateInvite`; `StartAccept` reads the invite, `AcceptInvite` marks and promotes |
| a failed request, a closed browser, a restarted server | `Abandon` |

A user is one spelling of an e-mail address, and `Mailbox` maps it to the address
without case; `ByEmail` is the query that prefers the exact spelling. `Person`
says who knows a password or owns an identity: it is not state of the program and
only says who can take a step (whoever opened a session acts in it) and what the
properties mean. Two more variables are history: `claimed` (who last took the
account over or signed it up by verified e-mail) and `member` (whether the last
synchronised sign-in was one of the group). A pair of tokens has a `proof` (the
credential at the start of its session, or the password it was changed to) and a
`session` (its first pair), both history too. An access token that expired, or an
expired refresh token, is one that nobody uses, so expiry needs no step. `Active`
are the identities of the configured issuer, the others are left from an earlier
one. `Founders` are accounts from before: the operator made them admins, so their
role was never synchronised, and there may be invites from then. One `Tick` is a
unit of `OIDC_ADMIN_MAX_AGE`.

### Circuits

Replacing and appending lock the circuit's row, so there is at most one such
transaction; but it runs at read committed, so what its statements see may change
between them, and an action is one statement (the writes at the end are one: from the
shift on the transaction holds the locks of all rows they touch). `tx` is the
transaction: the request, what it read, and the rows as it has left them;
`position` is what is committed.

| Code | Model |
|---|---|
| `CreateCircuit` | `Init` |
| `writeCircuitRoutes`, replacing | `BeginReplace` (lock, `HiddenRoutes`, the limit), `CheckRoutes`, `ShiftPositions`, `DeleteVisible`, `WriteRows`; `Rollback` at any step. The loop that merges requested and hidden routes is `Place`, the position it gives each of them |
| `writeCircuitRoutes`, appending | `AppendCircuitRoute` |
| `RemoveCircuitRoute`, the cascade of a deleted route | `DeleteCircuitRoute`, `DeleteRoute`, which wait for the row locks |
| `PublishRoute`, the status in `UpdateRoute` | `UpdateRouteStatus` |

A route is visible to the owner when it is published or their own; `Own` are
theirs. `Taken` and `MayCollide` are the unique key on positions, which Postgres
checks at each row because it is not deferrable. In which order an update visits the
rows is not defined, so a shift that may collide may also succeed.


### WallPhotos and Avatars

An action is a call to the store, a transaction, or a statement outside one. A
transaction on the wall's row is one step; one whose answer is lost is `open`, keeps the
wall's lock, and ends or not at any later time (`CommitEnds`).

| Code | Model |
|---|---|
| `UploadImage` | `UploadImage` (the active image is read), `Store` or `StoreFails`, then `Save`, `Rollback`, or `CommitLost` and `CheckOutcome` |
| `deleteStorageObjectBestEffort` | `CleanUp`, one key at a time: deleted, queued, or given up |
| `DiscardReset`, `ApplyReset`, `DeleteWall` | the same names, and `DeleteDiscarded`; holds and routes are in `WallResets` |
| `deleteNextStoredImage`, `RunStorageDeleteQueue` | `TakeNext` (`SKIP LOCKED`), `DeleteStored`; `MinutePasses` is the back-off |
| a server that stops | `Restart` |
| `SetAvatar`, `ClearAvatar`, `syncPicture` | `Store`, `UpdateUserAvatar`, `UpdateFails`, `DeleteOld`, each on what the request read first |
| `AvatarSection`, `prepareImageForUpload` | `ChooseFile`, `Prepared`, `RemovePicture`, `Answer` |

`left` is history: objects the code gives up (it could neither delete nor queue them, the
server stopped with them in hand, a discarded reset's delete failed, the outcome of a
commit stayed unknown). `NothingIsForgotten` says that there are no others. Which due row
is taken first is left open.

### ClimbLogs and ActivityFeed

| Code | Model |
|---|---|
| `writeLog` | `Request` (the transaction starts, which fixes `logged_at`), `LockUser`, `Write` under `ValidFlash`, `Commit` or `RollBack` |
| `LegacyLogSend`, other devices | `Elsewhere` |
| the drawer (`FilterDrawer`), its form (`ClimbLogForm`), `submitLog`, `removeLog` | `SetOpen`, `RequestClose`, `FinishClose`, `Close`; `LogClimb`, `Edit`, `Choose`, `SubmitLog`, `Cancel`, `RemoveLog`; `Succeed`, `Fail`, `Refetch` |
| `queryActivity` | `ReadPage`: the rows after the cursor, each by how many come before it (`Ahead`), at most a page of them, and the cursor of the last that is kept |
| `useActivity`, "Load more" | `FetchAll` (as many pages as are shown, each from the one just read), `LoadMore`, `ServerReads`, `Arrives`, `Fails` |

`touched` is history: entries that changed since the first page on the screen was read.
An entry that is moved to another day between two pages may be shown twice or not at all.

### ClientSession

An action runs from one await to the next, or is one transaction of IndexedDB or of the
server. Pairs are numbered as the server issues them; `live` are those whose refresh token
is good, `fresh` those whose access token is. `store` is local storage, `mem` what each
tab has of it, `told` the tabs a storage event is on its way to.

| Code | Model |
|---|---|
| `apiFetch` | `Send`, `Answered`, `Rejected`, `RejectedAgain`; `Wait` joins the one refresh of a tab (`createSingleFlight`) |
| `withIndexedDBLock` | `Acquire`, `Renew`, `Release`; `LeaseRunsOut` when nobody renews it, `LeaseOverrun` under a tab that is suspended |
| `refreshSessionWithLock`, `refreshSession`, `classifyRefreshResponse` | `EnterRefresh`, then `ServerRefreshes`, `ServerFails` or `AnswerIsLost`, then `StoreTokens`, `KeepOther` or `SignOut`, and `LeaveRefresh` |
| `handleLogin`, `OidcCallbackPage`, `useChangePassword` | `SignIn`, `TakeGrant`, `ChangePassword` |
| `logout` | `Logout`, `EnterLogout`, `LeaveLogout` |
| a closed or reloaded tab | `CloseTab` |

`mishaps` counts what the lock cannot help: a lease that runs out under a tab that goes on
later, and an answer of the server that nobody receives. The server's side is one action,
whose details are in `Accounts`.

### ClientQueries and QueryCache

`ClientQueries` is a table: `Queries` (what an entry reads), `Observes` (which page shows
it) and `Writes` (from which page, of what, what is invalidated, what is removed, and where
the page goes). `QueryCache` follows one entry through fetches, polls, failures, writes and
navigation; `log` are the writes the server has made, and an entry's data is known by how
many it includes (`seen`). What the query library does when a page mounts, invalidates or
joins a fetch is modelled as this code uses it. The three shapes of mutation are
`Invalidated` (an `onSuccess` that invalidates), `Refreshed` (the same, awaited) and the
optimistic `Begin` and `Fail` of `deleteHold`.

### The pages

| Module | Correspondence |
|---|---|
| `RouteEditor` | `Pick`, `Place`, `Erase` are `handleCreateHold`; `Encode` and `Decode` are the two ends of the address (`goToCreateRoute`, `initialSelections`, `backParams`); `GoToForm`, `BackToWall`, `Save`, `Accept`, `LoseAnswer`, `SaveDone`; `HoldVanishes` is another user, `UploadPhoto` a new image |
| `RouteList` | `Render` runs the effects of one render in their order (`SaveState`, `Restore`, `Canonicalise`, `DropCircuit`, `PruneHolds`): all start from the address it drew (`shown`) and each replaces the whole of it; the other actions are its buttons. `Matches`, `ApplyCircuit` and `SortRoutes` are the list itself |
| `WallCamera` | `Open` and `Granted`, `Playing` are the two awaits of `openStream`; `gen` is its generation; `StartFails`, `SwitchFails`, `BackFails` its error paths; `Raise`, `DrawFrame`, `Restore` are a capture at full size; `LeavePage` runs the cleanup and leaves what is awaited to go on |
| `ResetReview` | `Fetch`, `ReadMatches`, `ReadHolds`, `ReadStatus` are the statements of `GetReset`, which no transaction holds together; `SelectHold`, `Pair`, `MarkChanged`, `RestoreHold`, `DiscardSelectedHold`, `Apply`, `Discard` the page; `Serve` and `Refuse` what the server does with a request |
| `CircuitEditor` | `PersistRoutes` saves the list on the screen with one change (`Move`, `RemoveRoute`, `AddRoute`); `pending` is the draft; `Refresh`, `ServerReads`, `Arrives` the query; `Toggle` the switch on a climb's page |
| `Statistics` | each operator is a part of `personalStats`, `heatColor` or a chart; `Log` and `SelectWall` make the logbooks it is asked about. The properties restate what a pyramid, a month, a streak and a colour are. The loop that counts the current streak goes back to the first week without an entry, and `Current` is how far away that is. |

`MCClientPages` puts them side by side. The router mounts one page at a time and they share
nothing but the server, so a behaviour follows one of them, `screen`, and the others stay as
they begin; a state is a state of that page. The properties of a page hold where it is
followed, and one property of a run may name the parts of several.

## 3. Runs

| Run | Instance | Shows |
|---|---|---|
| `detection_safety` | 2 workers, 2 jobs (one uncascaded), 2 attempts, 2-tick leases | results once iff done, tokens not shared, no premature failure; `DetectionJobs` implements `DetectionSpec` |
| `detection_retries` | 2 workers, 1 job, 3 attempts, back-offs 1, 2 and 3 (capped) | a live lease is exclusive, claims wait their turn, every job settles |
| `reset_review` | 2 images with 2 holds each, a route of 2 holds, 1 request | matches follow the reset, remaps are hold by hold |
| `reset_races` | 3 images, two with a hold, 2 requests | one active image, the pending reset is current, only a detected reset is applied, a route keeps to one image |
| `account_claims` | 1 account, 2 people with an identity each, 2 passwords of the one and 1 of the other, 4 token pairs, 2 requests | after a takeover nothing of the earlier registrant works; sessions follow the password and do not split |
| `account_roles` | 2 accounts, the group decides, an admin and an invite from before, one identity of a retired issuer, 2 ticks | admins are vouched for; invites are used once; no last way to sign in is lost, and a retired identity is none |
| `circuit_order` | 1 route of the owner, 3 of others, at most 3 in a circuit, positions up to 4 before a change | types, no two routes in one place, and what a replacement writes finds room (`CircuitOK`); the result is what was asked for; hidden routes keep their place |
| `client_session` | 2 tabs with a call each, 2 token pairs, 1 mishap, 1 failure | the lock is exclusive; sign-outs are warranted; logouts are final; every call ends |
| `client_pages` | every page and the stored photos, one at a time, with the bounds below | eleven properties, each the conjunction of what the modules state of one subject |
| `client_waits` | the pages that wait for something, smaller | the end of a detection is noticed; buttons and drawers come back; filters, saves and the queue of deletions come to rest |
| `circuit_shift`, `camera_release` | the least instance of each | the code does not do what it should (section 6) |

The properties of `client_pages` and their parts:

| Property | Parts |
|---|---|
| `ClimbsAreAsDrawn` | `EndpointsAreLimited`, `HandOverIsFaithful`, `OneClimbPerVisit` of `RouteEditor` |
| `CacheIsTruthful` | `OwnWritesShow`, `RemovalIsUndone`; `FeedIsWhole` of `ActivityFeed`, the one query that is read in pages |
| `CameraIsTended` | `NoCameraIsLost`, `ReadyShowsTheStream`, `PreviewIsRestored` |
| `ListIsAsAsked`, `VisitKeepsStored` | `SettledIsCanonical`, `RangeIsInOrder`; a visit does not forget what it restores |
| `ReviewIsTruthful` | `RequestsPairOldAndNew`, `SettledPageIsUpToDate`, `DecisionsStand` |
| `LogsAreSound` | `FlashIsFirst`, `NewEntryNeverOverwrites` |
| `CircuitListIsWhole` | `NoRouteTwice`, `DraftHasOwnWrites` |
| `PicturesAreKept` | `PictureIsStored`, `NothingIsLeft` of `Avatars`; `PhotoIsStored`, `NothingIsForgotten` of `WallPhotos` |
| `ViewsMatchTheData` | `ListIsInOrder`, `EmptyListCanBeCleared` of `RouteList`; `PyramidCountsClimbs`, `MonthsShowHardest`, `StreaksAreRuns`, `ColoursShowEntries` of `Statistics` |
| `PagesTypeOK` | the type invariants |

and of `client_waits`: `DetectionIsNoticed` (`QueryCache`), `ControlsComeBack`
(`WallCamera`, and `DrawerCloses` of `ClimbLogs`), `PagesComeToRest` (`EffectsSettle` of
`RouteList`, `SavesEnd` of `CircuitEditor`, `QueueDrains` of `WallPhotos`).

**Why the bounds are enough: server.** Two workers suffice for every race on one row: a
statement is fenced by the row alone, so all other workers look alike to it; the
second job is there for sweeps that touch several rows and for the legacy row.
Two attempts give a claim, a retry and exhaustion, three reach the back-off's cap.
A 2-tick lease can be renewed, run down and expire between any two steps. A reset
concerns two images; the third one makes a chain (a reset of a reset) and a
full upload that supersedes it. Two holds a side are needed to swap a match and
to steal one; one hold a side is enough for races
of whole images. Two requests in flight make the one stale that the other overtakes. Two people are
enough for a takeover, because a person only matters as the claimant or as somebody
else; four pairs are two sessions that each refresh once; `MaxVersion` 2 allows a
request that is two versions behind; `MaxAge` is chosen so that the last tick exceeds it.
Four routes with three places make a circuit with two hidden routes around a visible
one, one route to put in, and the limit; a route withdrawn during a replacement stays at
its shifted position, so positions grow from one replacement to the next and are
bounded by `MaxPosition` where a change begins.

**Client.** Two tabs are the holder of the lock and one that waits for it, and two pairs
the one that is spent and the one that replaces it; a third tab can only wait as well. One
mishap is what the properties except, so that the run also shows what holds after it.
Of the pages: three holds are two starts and a foot, which reaches both limits and every
re-assignment, and `MaxVisits` and `MaxLost` 1 a climb saved again after a lost answer;
`MaxWrites` 1 (and the worker's) lets a write fall before, into and after a fetch, of every
entry and every write; two lenses, two `Shots` and `MaxOpens` 4 are a start that asks again,
a switch, and the way back when it fails, with a capture in each; the four climbs of
`SomeClimbs` make every filter, a grade that is missing and a circuit with a climb of
another wall; `MaxSteps` 5 taps follow a visit that restores. One old and two new holds
are a match that can be moved, with two requests that cross; two entries and two dates
make a flash that another entry would precede; two routes and two own writes are a save
that starts from a list before the other; three requests are a picture replaced twice;
two uploads with two faults are a reset that supersedes another, with a failure and a
failure to clean up; pages of two entries, five entries and four fetches are three pages,
changed twice and read again; three entries of a logbook on days in two months and three
weeks make a gap, a run and a month of ungraded climbs.
`client_waits` halves what does not matter to waiting (one shot, one date, four steps, one fault of the store).

Deadlock checking is off where a bound or a user may end everything: the reset runs (a
deleted wall with no request in flight), the account runs (pairs and versions run out)
and the client's runs. In `DetectionJobs` the workers poll forever and deadlock is checked,
as it is in `Circuits`. The safety runs use symmetry of workers, holds of one image,
requests or tokens; the circuit runs of the routes of others; runs with a liveness
property use none.

## 4. Fairness

`EveryJobSettles` assumes only that time passes (`WF(Tick)`) and that every
worker process keeps running its loop (`WF(Run(w))`: `main` polls forever and
a supervisor restarts it after a crash, which is how `Crash` returns to `idle`).
Nothing is assumed of uploads, deletions, heartbeats or crashes. Crashes need no
bound: each costs an attempt, and the sweep fails a job that has none left.

`ClientSession` assumes that code that can go on does (`RefreshStep`, `LogoutStep`,
`CallStep`: awaits resume, `fetch` settles because the browser gives up in the end) and
that a lease that nobody renews runs out, as it carries the time. Acquiring is part of
`RefreshStep`, so a tab that waits is assumed to try again, which its loop does, but not to
be first. Nothing is assumed of users, storage events, or a tab that is closed: its lease
is what `EveryCallEnds` waits for.

The pages assume what the browser and the server owe: a fetch is answered, with success or
failure (`ServerReads`, `Arrives`), the timer of a poll fires (`Poll`), the camera answers a
request, with a stream or an error (`Answer`), a capture goes on (`Develop`), React runs the
effects of a render (`Render`), an animation ends and its dialog closes (`FinishClose`,
`Close`), a write is served and its callbacks run (`Serve`, `Succeed`, `Settle`). The queue
of deletions assumes its loop and the clock (`TakeNext`, `DrainQueue`, `MinutePasses`);
`QueueDrains` holds because faults are bounded, that is, once the store works again.
Users owe nothing, and may leave at any time.
`WallResets`, `Accounts` and `Circuits` have safety properties only; requests may stop at any step.

## 5. Proofs

`DetectionJobs_proofs` proves, for any number of workers, jobs, attempts and
ticks, type correctness, `ResultsOnceIffDone`, `TokensNotShared`,
`NoPrematureFailure`, and that the protocol implements `DetectionSpec`.

The invariant `IInv` is their conjunction with two parts about rows and workers.
That results are stored once is not inductive alone: a worker whose lease ran out
must not commit, which needs that its token differs from the row's; two tokens
differ because a held token is the number of an attempt the row has counted
(`WorkersOK`), the row's own token is that of its latest attempt (`RowsOK`), and
a claim counts one more. Refinement uses the invariant for `CommitResults` (the
row is processing, so nothing was delivered) and for a sweep, which may give up
several jobs and one orphan in a single step. `OwnStep` collects what all the
steps of a worker's control have in common so that each is proved once.

The assumptions are those of the module: leases and attempts are positive, the
cap is not below the base, and powers of two are natural numbers (`PowersAreNat`,
true in arithmetic, stated because the provers have no theory of powers).

`WallResets_proofs` proves every property of `WallResets` for any number of images,
holds, routes and requests, from `ConstantsOK` alone. Its `IInv` has a part for each
table. `ImagesOK` carries the history of an image: what was active is never pending
again, and an applied reset has archived its parent for good (`Archived`). That is
what makes `MatchesFollowTheReset` inductive: all matches of a hold of the active
image belong to the one pending reset (`OldHoldIsFree`), so neither a correction nor
a late worker can match it a second time; and a reset has no holds before its
results are stored (`HoldsOK`), so the worker's matches are the first. `RequestsOK`
says what a request may still rely on after others have run: its image exists as long
as the wall does and is not under review. `Lasting` collects what requests and routes
rely on; each action is shown to keep it. `RoutesMoveHoldByHold` is the action
property, by cases of `Next` from the same invariant.

`Accounts_proofs` proves every property of the two account runs for any
number of accounts, people, credentials, pairs and requests, from `ConstantsOK`
alone. What the properties say of sessions is not inductive: a request in flight may
turn a row it read long ago into a session. `IInv` says of every pair and request
what it may rely on, `Good` and `GoodPassword`: the version it carries is not newer
than the account's, and as long as it is the current one, the password and the owner
are the ones it knew. `Evolves` is the other half: a step gives an account a new
version or leaves its password and owner alone. `GoodLasts`, `PairLasts` and
`RequestLasts` say that nothing is lost in an evolving step; `RoleStep` and `BumpStep`
are its two kinds; each action is then a short lemma about the one row, pair and
request that it changes. An identity can be linked or unlinked without a new version
because `IdentitiesOK` ties it to the claimant directly. `LoginMethodRemains` is an
action property by cases of `Next`; it needs of the invariant that a request that
signs in holds an identity of the configured issuer.

`ClientSession_proofs` proves type correctness, `LockIsExclusive`, `SignOutsAreWarranted` and
`LogoutIsFinal` for any number of tabs, calls, pairs, mishaps and failures. `TInv` adds to
the types that every pair which may yet be renewed has a number left (`Bounded`), which
`Room` promises when one is issued. `BInv` is the lock: whoever is inside holds it
(`Turns`), and while a renewal is, nobody empties the storage (`SessionKept`). `CInv` is about
sessions: a pair is `Good` while its refresh token works or its whole session is `Dead`, and
without mishaps the stored pair, and the one that a renewal is about, are good
(`PairsGood`); a granted pair is known to one tab alone (`GrantsOK`). So a renewal that the
server refuses has asked with a pair of a dead session, unless the store has another
one by then. The two action properties follow by cases of `Next`.

`Circuits_proofs` proves every property of `circuit_order` for any routes, owner, limit and bound.
The merge of the requested routes and the hidden ones is written as the position that it gives
each route (`Place`), so that nothing has to be said about a loop. `CircuitInv` adds to
`CircuitOK` what a replacement relies on while others change the circuit: the numbers it took
down of the hidden routes order them without gaps (`InOrder`), as the rows that are left still
do (`AsPlaced`), and from the shift on its rows are the committed ones moved by more than
there are places (`RowsAreShifted`). So `Place` is injective and below every shifted row,
which is `WritesFindRoom`. That nothing is below a hidden route that was not before counts
routes, by bijections with intervals.

`ClientPages_proofs` is about the pages. Each of them has an invariant of its own, which the
steps of the others leave alone (`PageSteps`).

- Drawing: for any finite photo and any climbs on it. `EditorInv`: nothing is to be added, since
  `EndpointsAreLimited` and `HandOverIsFaithful` keep each other, once it is known that decoding an
  encoded selection gives it back and that dropping a hold from both keeps them equal, which
  are lemmas. `SavesInv` counts the saves of a visit by what its request has come to.
- The list, for any holds, circuits and grades: `ListInv` says that an address which a render has
  left alone needs no correction. `LastWins` and `EffectsSet` say what a chain of effects leaves,
  each of which replaces the whole address.
- The log drawer: `LogsInv`. Who is inside a transaction holds the climber's row (`LockIsHeld`), and
  what has passed its check is valid until it is committed (`WritesStayValid`), whichever
  requests started before it.
- Circuits, for any routes of a wall: `CircuitsInv`. What this device has written is in the answer
  to a fetch under way, or shown when there is none (`OwnIsFetched`); moving, appending and
  removing keep a list injective.
- The query cache: `WritesAreSound` checks the tables of `ClientQueries` once, by groups of
  writes: what a write changes, and its page observes, it invalidates. `CacheInv` follows one
  entry: a fetch that is awaited will bring what is owed to the page (`OwedIsComing`).
- The feed, for any length of a page and any number of entries, changes and pages:
  `FeedInv` says of the pages that are shown, and of those that a fetch has so far, that each begins
  where the one before it ends and holds all that has not changed in between (`ChainIsRead`).
  `PageReads` shows it of one page: the entries of a finite set are numbered by how many come before
  (`FeedRanks`).

`PhotoPages_proofs` proves `CameraIsTended` for any lenses and captures, and `ReviewIsTruthful` for
any holds and requests. `LensInv`: while the latest request waits for the device, no camera runs
(`AskingIsAlone`), and while the page is shown no request is superseded (`PageIsInStep`);
`ShotsInv`: a stream at full size has a capture that will give it its size back. `ReviewInv`: what has
been read of a diff is what the server has, unless an answer is still to come that drops it
(`ReadIsFresh`); so is what is shown, unless it is to be fetched again or the detection runs
(`ShownIsFresh`); and an answer to come says what was decided (`DecisionsHold`).

It also proves `PicturesAreKept` for any number of requests, images and faults.
`PictureInv`: the key of a request that has not updated the row is known to nobody else
(`KeysAreFresh`), and what a request is about to delete is named no more (`OldIsReplaced`).
`PhotosInv`: an object is named by a row, queued, given up or in the hands of a request
(`ObjectsAreHeld`); a new upload is in no row and no queue (`UploadsAreFresh`); what is to be
deleted is in no row (`DoomedAreUnnamed`).

`Views_proofs` puts the invariants of all pages together (`PagesIInv`) and draws two theorems from
them. `PagesTyped` is `PagesTypeOK`, with the bounds: a page's counters stay within theirs, and what
is numbered by a counter stays below it (`CacheBounded`, `FeedBounded`, `CircuitsBounded`,
`EntriesAreNumbered`). `ViewsMatch` is `ViewsMatchTheData`, for any climbs, circuits, logbook and
today:

- `Ranked` says that the elements of a finite set in a strict order are numbered by how many come
  before them. So an arrangement has each of them once and in order (`ArrangedIs`), what is kept
  of a list stays in order (`KeptIs`), and a set of numbers has a greatest and a least (`GreatestIs`).
- Three numbers are folds over a list: the climbs that were sent, the hardest of a month, the longest
  streak. The first two are compared with a closed form on every set of places (`RoutesOf`,
  `Hardest`); two folds that agree on each part if they agree on it without one element agree
  (`FoldsAgree`, by the least part on which they differ). The third has a state, and `Counted` says
  what that state is after some of the weeks.
- Weeks that differ are seven days apart (`WeeksAre`), so a run of weeks is one of neighbours in
  their order (`RunsAre`). A logbook cannot fill all the weeks up to its size and this one as well,
  so the current streak ends (`GapIs`).
- The list: no climb is in it twice, from the wall or from a circuit (`PlainListIs`), so the
  place of each is where the sorting took it from (`SortedIs`).

`DetectionJobs_proofs` has the two action properties as well, by cases of `Next` from `IInv`:
`TakenByOwner` and `CountedInTurn` are what each step does to one job.

The assumptions are those the modules state of their constants. Bounds are natural numbers, the
photo and the routes of a wall are finite, a page of the feed has an entry, the listed wall a climb
(one without any has a message of its own), ids are unique, a circuit has no climb twice (the
primary key of its table), the links to a list are addresses, grades are ranks or missing, days are numbers, the climbs that exist are within the limits.
The others say that `None` is none of the values it is told apart from (`NoneIsNoNumber`,
`NoneIsNoSource`, `NoneIsNoDiff`, `NoneIsNoAnswer`, `NoneIsNoWrite`, `NoneIsNoCursor`,
`NoneIsNoCircuit`): TLC takes it for a model value, and the code compares `null` or a missing row.

Model-checked only:

- Liveness and fairness: `EveryJobSettles`, `EveryCallEnds` and the properties of `client_waits`
  (fairness is stated with ENABLED, out of the prover's reach).
- The two properties that a run finds violated.

Every safety property of the passing runs is stated by a theorem.

The type invariants of `DetectionJobs`, `WallResets`, `Accounts` and `ClientSession` are proved and
no longer run.

## 6. What the models show

Server:

- The fence (`lease_token` and expiry in every `WHERE`) is sufficient for
  results to be stored once; the heartbeat is an optimisation for safety and is
  not needed for any property here.
- A route can be created on, or an edit can bring it back to, the image that was
  active when the request began, after a reset was applied in between
  (`CreateRoute`, `UpdateRoute` do not lock the wall). The route is then
  consistent but archived. No document claims otherwise, so no property does.
- Comparing the version again under the account's lock is what keeps a claimed account
  its owner's: without it (`UnchangedUnchecked`) the run finds a password of the earlier
  registrant. It also matters that a login issues tokens for the version it read, not for
  the current one (`NewPairFresh`).
- Three more things are in `Accounts`, against which the documents say otherwise, and that no
  run states. Two registrations for one address in different case can both succeed:
  `Register` checks before it inserts, and no unique index ignores case
  (`user/handler.go:122`, `0001_init.sql:6`; the repository's `README.md:65` matches without case). A password
  login decides the demotion of an admin on the row it read first and writes it without a
  condition, so it can undo what an SSO sign-in confirmed in between (`user/handler.go:350`).
  An admin invite from before `OIDC_ADMIN_GROUP` was set still promotes its user
  (`invite/handler.go:140`). `AdminsAreMembersOrInvited` is what does hold.
- Replacing the routes of a circuit by a shorter list may fail: the shift that is to make
  room is as long as the new list, so it can move a row onto one that has not moved
  yet. Clearing a circuit of two routes fails so (`circuit_shift`). Once the shift has
  succeeded, nothing is in the way of the rows written after it (`WritesFindRoom`).
- A route that is withdrawn while a replacement runs stays in the circuit although it was
  counted as visible, so a circuit can come to hold more than 100 routes; a hidden one
  that is published meanwhile is dropped with the visible ones. `openapi.yaml` says the
  limit includes hidden routes.
- A setter who deletes an old hold while the worker matches against it makes the
  worker's whole transaction fail on the foreign key and costs an attempt; the
  retry reads the holds again.
- An upload whose commit is still open in the database when it looks the row up finds it
  absent, deletes the object, and the row may come after that (`late`). Without that,
  photos and rows stay together whatever fails.
- The photo of a discarded reset is deleted once; if the store refuses, nothing queues it,
  although the queue is there (`left`). The same holds of the photos of pending resets
  that an upload removes whose commit got no answer.
- `SetAvatar` deletes the new object when its update reports an error, also if the update
  was done; then the row names nothing (`unknown`). `syncPicture` decides on the row it read
  at first, so it overwrites a picture uploaded while it fetches the provider's
  (`oidc/handler.go:570`). Requests that overlap may leave an object behind.

Client:

- `startCamera` opens a camera after its page has been left (`camera_release`).
- The reset's diff can be torn: its status is read last and outside a transaction, so it may
  say "done" without the holds (`torn`, `reset.go:149-304`), and polling ends. A reset can be
  applied while an edit is still on its way; a double tap on "Still there" restores
  two new holds; "Changed" may act on a selection made on an older diff.
- After a failed refetch or a lost answer a circuit's list can be edited although it is old,
  and the next save takes back what the other had saved (`Circuits.tsx:59`).
- "Load more" is offered while the whole feed is read again, and cancels that: the page
  is added to the old pages, the feed counts as fresh, and an own entry stays missing until
  the next fetch (`ActivityFeed.tsx:90` looks only at `isFetchingNextPage`). `FeedIsWhole`
  is about the pages as old as the first of them.
- The tab that finds its lease gone goes on with its renewal (`LeaseOverrun`); two renewals
  of one token sign the browser out, which the properties except as a mishap.
- The persisted entry of a query that is keyed by the user may be filled by an answer that
  was asked for before another account signed in.
- An entry that is edited again before the refetch shows its old values; a save that ends
  closes the form of another entry that was opened since.
- A filter by circuit or hold is dropped when the circuits or holds come from an old
  persisted entry (`RouteList.tsx:117-134`). The question whether to delete a hold survives
  a new photo of the wall (`WallDetail.tsx:67`).

## 7. Not modelled

- The statistics of a wall, summaries and tags: single queries without effects. The legacy
  remap is a read of geometry. Vision code (alignment, inference, segmentation) is
  numerical; the models use only that it returns or raises. The greedy assignment of
  `match.py` is modelled by the shape of its result.
- The rate limiter: a counter that nothing else depends on. The connection pool
  (`RestoreResetHold` takes a second connection while its transaction holds one) and the
  order of row locks between the worker and `DiscardReset`: Postgres and the timeouts
  resolve both, which the models allow as an aborted transaction.
- Beta videos call an external album; what the client's writes do to the cache is in
  `ClientQueries`. Generated queries, start-up, the site and scripts hold no protocol.
- Permissions are checked by each handler before it acts and are left out; every
  action is available to whoever may perform it. The HTTP layer of OIDC (state cookies, the
  exchange with the provider) is left out too.
- Of the client: layout, gestures, wording, the forms' fields beside those named above,
  the logbook, invite, sign-up and settings pages (their writes are in `ClientQueries`);
  creating and deleting circuits; how the order of a list is kept in the address; what is
  persisted of the query cache; races of the query `me` with a write of the profile, a
  write whose page is left before it is answered and then navigates, and an in-flight fetch
  that a mounting page joins with older data than it would read.
- In `ClimbLogs` two entries never have the same time; in `ActivityFeed` the ids order
  entries of one day.

## 8. Plan

Done: detection, wall resets, accounts, circuits; the client's session, cache, feed and pages; the
stored photos; theorems of eight modules, which state every safety property of the passing runs.

Open:

1. `LegacyRemap` and `GreedyMatch`: pure algorithms against reference definitions.
2. `LockOrder`: row locks of the worker, `DiscardReset` and the wall, and the connection
   pool in `RestoreResetHold`.
