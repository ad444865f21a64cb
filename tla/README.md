# Gouda in TLA+

Gouda (RA341/gouda) takes a request for a book, gives its torrent to a torrent
client, watches the download and hard links the result into a library. It also
spends the bonus points of a MyAnonaMouse (MAM) account on a timer, keeps user
sessions and a configuration file. This directory holds TLA+ modules of the
parts where goroutines, failures and restarts meet, the TLC configurations that
check them on small instances, and TLAPS proofs of theorems about them.

`PROJECT.json` lists every component, run, mutant, hazard and theorem, and maps
each definition to the lines of the source that it models.

## Inventory

All paths are below `src/`; Go code is below `src/core`.

| component | state | operations | talks to |
|---|---|---|---|
| downloads service `internal/downloads/service.go` | `torrentClient`, `workerChan` (capacity 1), goroutines in `startMonitor` and `checkDownload`; rows through its store | `NewService`, `DownloadMedia`, `startMonitor`, `monitorDownloads`, `checkDownload`, `finalizeDownload`, `ValidateClient` | media table, torrent client, file utilities, configuration (read through closures) |
| media manager `internal/media_manager` | none | RPCs `AddMedia`, `AddMediaWithFreeleech`, `Retry`, `Delete`, `Edit`, `List`, `Search`, `Exists` | downloads service, media table, mam service |
| media table `internal/database/db_downloads.go`, `db_media_manager.go` | table `media_requests` (unique `mam_book_id`, AUTOINCREMENT id) | `Save`, `Edit`, `Get`, `DeleteMedia`, `GetDownloadingMedia`, queries | SQLite through gorm |
| torrent clients `internal/downloads/clients` | the client's own torrents | add a torrent, read the state of some torrents | transmission, qBittorrent (external) |
| file utilities `pkg/file_utils` | files below the download and library directories | `HardLinkFolder`, `CopyFolder`, `RecursiveChown`, `ResolvePaths` | the file system |
| scheduler `pkg/schd` | `cancelChan`, `manualChan` (capacity 1), one ticker per loop | `NewScheduler`, `Manual`, `Stop`, `Restart`, `loop` | mam service (its task) |
| mam service `internal/mam` | none of its own; the MAM account has the points | `autoBuy`, `BuyVIP`, `BuyBonus`, `UseFreeleech`, searches | MAM (external), configuration |
| sessions `internal/auth`, `internal/database/db_auth_session.go` | table `sessions` | `Login`, `SessionVerifyToken`, `SessionRefresh`, `Logout`, rotation at the limit | users |
| user accounts `internal/auth/service_user.go`, `internal/user`, `db_auth_user.go` | table `users` | `CreateInitialAdmin`, `Register`, `UserEdit`, `UserDelete`, role and limit updates | sessions |
| configuration `internal/server_config`, `pkg/argos` | `GoudaConfig` in memory behind an RWMutex, `config/gouda.yml` | `LoadConf`, `argos.Scan`, `DumpToYaml`, the setters behind the settings RPCs | every service reads it through `conf.Load()` |
| torrent files `downloadTorrentFile`, `pkg/magnet` | the files below `TorrentDir` | download, `TorrentFileToMagnet`, `DecodeMagnetURL` | MAM, the torrent client |
| categories `internal/category` | table `categories` | create, delete, list | browser extension, user interface |
| parmesan `src/parmesan` | `cachedSettings`, `transport` of the background page | messages of the content script | the RPCs |
| wiring, tray, logger, litany, info, notifications, sync map, commands | none that outlives a call | | |
| brie `src/brie`, website, protocol definitions, generated code | user interface, documentation, schemas | | the RPCs |

### How the parts interact

`AddMedia` and `Retry` run `DownloadMedia` in the goroutine of their RPC. It
fetches the torrent file, adds it to the torrent client, saves the row as
`Downloading` and starts a goroutine in `startMonitor`. The first goroutine
there takes the slot of `workerChan` and loops in `monitorDownloads`: read the
downloading rows, ask the client for their state, start one `checkDownload`
per torrent in the answer, wait for all, wait for the ticker. A check
finalizes, fails or leaves the row, and saves the struct it was given in a
deferred call. Nothing but `workerChan`, the database and the configuration's
mutex orders these goroutines. All of them are lost at a crash; the table, the
torrents and the files stay.

### What is hard, and what has to hold

* **Downloads.** Late Saves, retries and deletes while checks run, lost
  wake-ups of the monitor, crashes between the client and the table, a client
  whose state or numbering changes by itself. Correct when: one monitor at a
  time; no row in two checks; a settled row moves only by a Retry; `Completed`
  means the book's own files are in the library; a watched download settles; a
  crash loses no download; a failed request leaves a trace.
* **Files.** A folder is linked or copied file by file; any step can fail or be
  the last before a crash; two downloads may share a destination; a link leads
  to the torrent client's own file. Correct when a success leaves every file,
  and what was downloaded stays as it was.
* **Scheduler.** Channels of capacity one, loops started while others stop.
  Correct when triggers are served, a stop ends a loop however busy it is, and
  restarts never leave the scheduler without one.
* **Points.** Reads and purchases are separate requests, and any may fail.
  Correct when automatic purchases leave the configured minimum and buy what the
  surplus allows.
* **Sessions and accounts.** Several devices refresh, log in and out at once;
  rotation at the limit. Correct when the limit holds, no device is logged out
  for one session less than it allows, and the program starts.
* **Configuration.** Concurrent setters, a crash while writing, values that are
  zero, validators that never answer under the lock. Correct when what was
  accepted is in memory and file, is there after a restart, and requests end.
  The first is kept of the file only up to the setters that share a read lock.
* **Torrent files.** Requests write and read files of one name at once, over
  what earlier ones left. Correct when the id in the row is that of the torrent
  the client was sent.
* **Time.** The age by which a download is given up is set anew by each check.
  Correct when nothing is given up early and a limit ends what it should end.

The full list, each with its line, is under `hazards` in `PROJECT.json`.

## Plan

| order | module | role |
|---|---|---|
| 1 | `Catalogue`, `MediaStore`, `TorrentClient` | shared constants; the table; the external client as the two adapters show it |
| 2 | `Downloads` | the service and its callers, composed over 1 |
| 3 | `MediaLifecycle` | what a row promises; `Downloads` refines it |
| 4 | `DownloadsInv`, `DownloadsProofs`, `LifecycleProofs` | inductive invariant, proofs |
| 5 | `Finalize`, `FinalizeProofs` | `finalizeDownload` over inodes and directory entries |
| | `Placement` | what a finalization promises of the library; `Finalize` refines it |
| 6 | `Auth`, `AuthProofs` | users and sessions: rotation, expiry, the initial admin |
| 7 | `Scheduler`, `BonusBuyer`, `BuyerProofs` | loops and channels; `autoBuy` as their task, with purchases by hand |
| 8 | `ConfigStore`, `ConfigProofs` | setters, lock, file, restart, precedence of values |
| 9 | `DownloadClock`, `ClockProofs` | check interval and time limit |
| 10 | `TorrentFile`, `TorrentFileProofs` | torrent files on their way from MAM to the client |

All ten are done. `MCDownloads`, `MCFinalize`, `MCAuth`, `MCScheduler`,
`MCBonusBuyer`, `MCConfigStore`, `MCDownloadClock` and `MCTorrentFile` give the
specifications their small instances.

Abstract specifications: the life cycle of a row (`MediaLifecycle`, above
`Downloads`) and what a finalization promises of the library (`Placement`, above
`Finalize`), both refined and proved. Not stated as one yet: the configuration as
a register that a restart keeps, which is what `SettingsKept` and
`SettingsSurvive` say of `ConfigStore`.

Every safety property that a passing run checks, invariant or action property, is
a theorem, and so are both refinements. What is left to prove
follows from new specifications, not from the properties there are.

## The core: Downloads

`Downloads` composes `MediaStore` (the table) and `TorrentClient` (the client)
with the service. A struct of Go (`downloads.Media`) is a record of the fields
the life cycle depends on: `id`, `book`, `status`, `tid`. `id = 0` is a struct
gorm has not stored yet.

| variable | in the code |
|---|---|
| `rows`, `lastId` | table `media_requests` and its AUTOINCREMENT counter |
| `torrents`, `lastTid` | what the torrent client has; `tid` is the id Gouda stores: transmission's number, qBittorrent's hash |
| `sid` | the client accepts what Gouda logged in with: `QbitClient.cookie`, fetched once |
| `up`, `connected` | the process runs; `d.torrentClient` is set |
| `slot` | items in `workerChan` |
| `req` | each RPC handler inside `DownloadMedia`: where it is and its struct |
| `mon` | each goroutine inside `startMonitor`: where it is and the map it loaded |
| `checks` | each `checkDownload` goroutine with its copy of the struct and the state it was given |
| `library` | which torrent's files were placed under which book |

| action | in the code |
|---|---|
| `Boot`, `Crash` | `NewService` with `TestAndUpdateClient` and its first `go startMonitor()`; the end of the process |
| `AddMedia`, `Retry`, `DeleteMedia`, `EditMedia` | the RPC handlers up to their first call that can block |
| `Prepare`, `Send`, `SaveMedia`, `EditFailed` | `DownloadMedia` in the steps between which others run, and the `Edit` of a failed `AddMedia`; a `Send` may fail before or after the client has the torrent |
| `StartMonitor`, `Release` | the `select` on `workerChan`, and the receive after the monitor ended |
| `VerifyClient`, `Load`, `PollOk`, `PollFails`, `Wait` | one round of `monitorDownloads` |
| `FinalizeOk`, `FinalizeFails`, `GiveUp`, `StillDownloading`, `SaveChecked` | `checkDownload`: its four outcomes, then its deferred `Save` and `wg.Done` |
| `Connect`, `ConnectFails` | `verifyClient`; `Login` when there was no client |
| `Environment` | the client: complete, pause, resume, break, remove, restart, end the session |

An action boundary stands wherever the code calls the database, the client or a
channel; code between two such calls is one action. gorm's `Save` is modelled
by what it does: insert for id 0, update by id otherwise, and insert with that
id when no row was updated, which is how a late `Save` brings a deleted row
back. `DownloadingMedia` keeps the last row per torrent id, as the Go map does.

`MediaLifecycle` is the abstract specification: per id, which status may follow
which, and that ids are handed out once. `Downloads!Lifecycle` instantiates it
with the status of each id read off the table.

### Abstractions

* Time: the ticker is `Wait`, and `GiveUp` may time out any incomplete
  download unless `IgnoreTimeout` is set. The clock is the module
  `DownloadClock`.
* Files: a finalization succeeds or fails as a whole; its steps are the module
  `Finalize`.
* A book's metadata and messages are left out. `LinkOf` says which torrent a
  book's url delivers; two books may share one. Its file is the module
  `TorrentFile`.
* Bounds: `MaxId`, `MaxTid`, `MaxCalls`, `MaxCrashes` and the number of
  `Requests` and `Workers` cap what the code leaves open. A handler that would
  start a goroutine waits until a worker is free: in the runs two workers are
  enough for a monitor and one that gives up. Each run also says which calls
  may fail (`Faults`) and what the client does (`ClientEvents`).

### Runs

| run | what it asks | bounds | result |
|---|---|---|---|
| `downloads_safety` | `CompletedIsPlaced`, `IdNamesOneBook`, `SettledStays`, and that `Downloads` refines `MediaLifecycle` | two books with their own torrents, one handler at a time, three RPCs (add, retry, delete), one crash and start, links, starts and additions fail (also after the client has the torrent), torrents complete and are removed | 651 738 states, holds |
| `downloads_monitor` | `TypeOK`, `OneMonitor`, `OneCheckPerRow` | two handlers at once, two RPCs, one crash, every call fails at will, transmission renumbers | 391 418 states, holds |
| `downloads_live` | `InViewSettles`, `ResumedAfterCrash`, `MonitorEnds`, `AddLeavesRow` | qBittorrent, two books of one torrent, three RPCs (add, retry, edit), failing torrent files and polls, any number of ended sessions, one crash, no time limit | 185 275 states, holds |

Two rows, two torrents and two handlers are what the hazards need: each is
about one row seen by two goroutines, or two rows that share a torrent or an
id. Deadlock is not checked: after the last RPC of a run the system rests.

`CompletedIsPlaced` has a condition, which its comment and its theorem name: the
client does not number its torrents anew. `downloads_safety` has transmission
without such a restart of its own, but with restarts of Gouda; with the restart
(`ClientEvents` with "restart") TLC finds the property violated.

One run of `Downloads` ends in a violation, a difference between the code and
what its comments say.

| run | what happens |
|---|---|
| `lost_wakeup` | A row is saved after the monitor read an empty table and before it empties `workerChan`. The new goroutine finds the channel full and gives up, the monitor ends, and nobody watches the row. |

More gaps are in the model and kept out of the passing runs by `ClientEvents`,
`Faults` and the choice of RPCs:

* a check's deferred `Save` writes back the torrent id that a `Retry` has
  replaced, when the client gave the new torrent another id;
* transmission restarts and numbers its torrents anew, and a row can then be
  completed with another book's files, so `CompletedIsPlaced` is then false
  (`downloads_monitor` has these restarts and shows that they leave the monitor
  and the checks in order);
* a torrent removed in the client gets no check, so its row stays
  `Downloading` for ever;
* qBittorrent's paused form of a finished torrent counts as downloading,
  transmission's as an error;
* `torrentClient` is set once: after the client's settings were changed, rows
  are still sent to and asked of the old one until a restart;
* qBittorrent's cookie is fetched once: when the session has ended, every poll
  fails and is repeated without a pause, and every `AddMedia` ends in an error.
  Only a new start logs in again, so `InViewSettles` and `MonitorEnds` hold up
  to `LoggedOut` (without that, TLC finds both violated), while
  `ResumedAfterCrash` shows that a start does repair it and `AddLeavesRow` that
  the failed requests are kept;
* a crash or a refused `Save` between `Send` and `SaveMedia` leaves a torrent in
  the client that no row names;
* a client that does not answer while Gouda starts leaves downloads waiting for
  the next `AddMedia` or `Retry`.

### Fairness

Liveness is checked under `FairSpec`: goroutines that can run do run (weak
fairness of handlers, monitors and checks), the process is started again, a
poll that the client can answer again and again is answered at some time (strong
fairness of `PollOk`: the loop has no other exit; a client whose session ended
cannot answer), and a torrent left in the client completes. RPCs, faults,
crashes and what users do in the client are never forced. `lost_wakeup` assumes
the same.

### Proofs of Downloads

`DownloadsProofs` proves for all constants that satisfy the assumptions:
`TypeCorrect`, `OneMonitorAtATime` and `OneCheckAtATime`. None of the three is
inductive. The invariant is `MonitorInv` in `DownloadsInv`:

* `OneMonitor`: the token is in `workerChan` exactly while one goroutine is in
  the loop, so a goroutine that sends finds nobody inside, and `slot - 1` in
  `Release` stays in its type.
* `SnapOnlyToPoll`, `ChecksAwaited`: loaded rows exist only between `Load` and
  the poll, checks only while their monitor waits. So when a poll starts checks
  there are none (`PollFindsNoChecks`): a second monitor would contradict
  `OneMonitor`.
* `SnapIds`, `RowIds`, `ClientIds`: ids are unique in what was loaded, in the
  table and in the client, so one poll makes at most one check per row.
* `HandlersHoldMedia`, `CheckMedia`: what handlers and checks hold fits the
  table, which `TypeOK` needs for the rows they save.

`LifecycleProofs` builds on it in four steps, each with a stronger invariant of
`DownloadsInv`.

1. `SettledRowsStay`, from `LifecycleInv`: the row of a struct that the monitor
   or a check holds is still `Downloading` (`StillInProgress`). Every change of
   the table is one of five kinds (`RowStep`): an insert, a retry's save, a
   check's save, a delete, or none. Of these only a check's save could move a
   settled row behind a user's back, and `StillInProgress` excludes it.
2. `IdsNameBooks`, from `BooksInv`. Structs are copied between the table, the
   handlers, the monitor's map and the checks, so the lemma behind it says where
   every struct of the next state comes from (`StructChange`): it is a copy of one
   there was, a new one without ids, one that was just sent to the client, or a
   row with the next id. A handler that is done must hold nothing
   (`IdleHoldsNothing`): what it held would name a book whose row is gone.
3. `CompletedRowsArePlaced`, from `PlacedInv`: a torrent id names, as long as the
   client has the torrent, the torrent of its struct's book (`TorrentOfBook`); a
   check therefore finds the torrent of its own book (`CheckedIsPlaced`); and the
   library only grows. The theorem assumes `NoRenumbering`: the client is
   qBittorrent, whose ids are hashes, or transmission does not restart. Without
   it the theorem is false, which is the second gap listed above.
4. `RowsFollowLifecycle`: `Downloads` implements `MediaLifecycle`. `RowStatus`
   reads the status of an id off its one row; then each of the five kinds of
   `RowStep` is a step of `MediaLifecycle`, or changes no status.

The assumptions are those the modules name (`CatalogueAssumption`,
`StoreAssumption`, `ClientAssumption`, `DownloadsAssumption`): types of the
constants, and that qBittorrent's hashes are among the torrent ids. The first,
second and fourth step need no more, so they hold whatever the client does and
whatever calls fail. Liveness is model-checked only.

## Files: Finalize

`checkDownload` calls `finalizeDownload` when a torrent is complete. `Downloads`
has that as one step; `Finalize` has it file by file. A file is a name with an
inode, because what can go wrong is about two names of one inode.

| variable | in the code |
|---|---|
| `present` | torrents whose data is below the download directory |
| `library` | directory entries below `CompleteDir`, each with its inode |
| `content` | what an inode holds: which file of which torrent, whole or in part |
| `owned` | the inodes that were given to the configured user |
| `copied` | the torrents that were copied instead, which only the properties read |
| `fin` | each `finalizeDownload`: where it is, the files left to walk, its open file, what `RecursiveChown` has listed |

| action | in the code |
|---|---|
| `Start` | `finalizeDownload` enters `HardLinkFolder`, for the first time, after a crash or after a `Retry` |
| `RemoveOld`, `Link`, `Chmod`, `LinkFails` | `hardlinkFile` for the next name of the walk, and its failures |
| `BeginCopies`, `Open`, `OpenFails`, `Fill`, `FillFails` | `CopyFolder`, which starts over with the first file; `os.OpenFile` with `O_TRUNC`, `io.Copy`, and their failures |
| `List`, `Chown`, `ChownFails` | `RecursiveChown` of the category |
| `Crash`, `RemoveData` | the end of the process; a torrent removed with its data |

A name that is a hard link shares its inode with the torrent client's file:
`Chown` and `Open` act on inodes, so what they do to the library they do to the
download location. Directories are left out: `MkdirAll` has no state the
properties see. All downloads are of one category, since `RecursiveChown` meets
only those; that of several folders it reads all names at once is a
simplification. Bounds: `MaxRuns` finalizations and `MaxMishaps` crashes and
removals in a behaviour.

| run | what it asks | bounds | result |
|---|---|---|---|
| `finalize_files` | `TypeOK`, `PlacedWhole`, `SourceKept`, and that `Finalize` refines `Placement` | two torrents of one author and title, each with a file of its own and one whose name both have; one can be linked, the other only copied; three finalizations in all; links fail half way, so do modes and copies; one crash or data removed | 785 473 states, holds |

Two files are what a folder half done needs, two torrents are what a shared
folder and a shared name need, and of three finalizations of one torrent each
meets what the last one left. A finalization may come before, after or during
that of the other torrent, file by file.

What the documentation says of this is more than the code does, and the
properties say what is left of it:

* `website/docs/users/faq.md:9` says that Gouda "will NEVER modify, delete or
  otherwise touch the file at the download location". Every file that is linked
  is given another owner there, because `RecursiveChown` changes the inode
  (`hardlink.go:36`). And when a link or its chmod fails half way, `CopyFolder`
  opens the files linked so far with `O_TRUNC` (`service.go:272`) and copies each
  from itself: it is empty then. A rival that is copied does the same to a file
  of the same name. `SourceKept` is the rest: a torrent on another device keeps
  its owner; the data of a torrent stay if it is on another device, or as long as
  neither it nor a download with that file name was copied. Without the first
  condition or the second, TLC finds the run violated.
* `readme.md:150` says of a file path that already exists that Gouda "will not do
  anything (only display an error)". `hardlinkFile` removes what has the name
  (`hardlink.go:171`), also when it is another download's. So `PlacedWhole` and
  `Placement` promise nothing of a name that two downloads share: the last one
  to come has it. Of a name that only one download has they promise that no
  other finalization touches it.

A `RecursiveChown` that meets a name which another download is replacing marks
its row as an error although its files are placed (`ChownFails`); a `Retry`
repairs it.

`FinalizeProofs` proves four theorems for all downloads, names, devices, faults
and bounds; they assume nothing of names or faults.

* `FinalizeTypeCorrect`: the types.
* `DownloadsUntouched` (`SourceKept`) and `SuccessIsPlaced` (`PlacedWhole`) from the
  invariant `PlaceInv`. A name leads to an inode that was made for a download
  with that name, and to the torrent client's only if that can be linked
  (`NamesTrue`); so only such inodes change their owner (`OwnersTrue`) or are
  opened by a copy, their own or a rival's (`DataTrue`); and a finalization has
  placed every file of its own that its walk has passed, and owns what its
  `RecursiveChown` has passed (`Placing`).
* `FinalizePlaces`: `Finalize` implements `Placement`, which knows only which of a
  download's own names lead to what its download location has (`Placed`) and how
  its last finalization ended (`Outcome`). Each step starts a finalization, works
  on names and inodes of its own download, succeeds or fails. So what a success
  has placed stays until the same download is finalized again, which
  `PlacedWhole` alone does not say.

## Users and sessions: Auth

`Auth` joins `internal/auth` and `internal/user`, because the rotation of
sessions, the initial admin and deleted users meet in the same two tables.

| variable | in the code |
|---|---|
| `run` | the process: down, up, or ended by `log.Fatal` in `NewService` |
| `users`, `lastUser` | table `users` with its unique names, and its AUTOINCREMENT counter |
| `session`, `lastSession` | table `sessions`; rows that were deleted stay with what became of them |
| `req` | each RPC between two transactions: what it does next, the user and the session it read |

| action | in the code |
|---|---|
| `Boot`, `Stop` | `NewService` with `CreateInitialAdmin`; the end of the process |
| `Login`, `Refresh`, `Logout` | the RPCs up to what they read |
| `Create` | `sessionCreate`: the transaction of `NewSessionAutoRotating` |
| `Drop` | `SessionDelete`, of a logout or as the second half of a refresh |
| `Fails` | the transaction is refused; what was done before stays |
| `Expire` | time: first the session token, then the refresh token |
| `AdminCheck`, `UserAdd`, `UserEdit`, `UserDelete` | the two interceptors, then the handlers behind them |

An action boundary stands wherever another request's transaction can come
between. A session stands for its two random tokens. Passwords are left out: a
`Login` is one whose password was right. `max_sessions` is the same for all
users, since no RPC changes the column's default. SQLite is opened without its
foreign keys, so the sessions of a deleted user stay and continue with the
empty user, 0 in the model, whose limit of 0 means none. The oldest session is
that with the lowest id; the code goes by `created_at` (`db_auth_session.go:36`),
which is the same as long as the clock is not set back. `Faults` has "rotate"
for the deletion inside the rotation, whose error the code drops.

| run | what it asks | bounds | result |
|---|---|---|---|
| `auth_sessions` | `TypeOK`, `SessionLimit`, `KeepsRecent` | a limit of two, three sessions, two users, two requests at once, refused transactions, one restart | 1 771 412 states, holds |

A limit of two and a third session are what the rotation needs: the third is
created at the limit, by a login or by a refresh, while another request holds
one of the first two. The default limit of three would only add sessions.

`AuthProofs` proves three theorems for all numbers of users, sessions and
requests and every limit.

* `AuthTypeCorrect`: the types, with the fact that a request that deletes a
  session names one that was made.
* `AuthSessionLimit` assumes that "rotate" does not fail: the code removes one
  session whatever the excess, so the limit is kept only because it is never
  exceeded. Invariant `LimitInv`: the limit for every id, whether or not its
  user exists. `OldestIs` shows that a full table has exactly one oldest row.
* `AuthKeepsRecent` needs no such assumption. Every step but `Create` keeps the
  sessions after any other (`KeepsRows`); the row that `Create` rotates is the
  oldest of a full table, so the rest of the table and the new row follow it.

Liveness is not claimed here: nothing in these packages runs by itself.

Gaps the model has and no property forbids. `CreateInitialAdmin` is to create an
admin "if there are no previous users" (`service_user.go:42`), but looks for the
user with id 1 and registers the name "admin": after a second admin has deleted
user 1, the next start registers "admin" under another id, and the start after
that fails on the unique name and ends in `log.Fatal` (`run = "failed"`, which
three users and two stops reach). `AdminCheck` comes before the deletion: two
admins may both pass it and delete each other. A refresh at the limit rotates
the oldest session away although the number of sessions stays the same.

## Points and the scheduler: Scheduler, BonusBuyer

`Scheduler` is `pkg/schd` for any caller. `BonusBuyer` extends it with the one
task the program gives it, `autoBuy` of the mam service, and with the account
at MAM that `autoBuy` shares with purchases by hand.

| variable | in the code |
|---|---|
| `manual`, `cancel` | items in `manualChan` and `cancelChan` |
| `loop`, `tick` | each goroutine in `loop`: not started, at its `select`, in the task, ended; items in its ticker's channel |
| `starting`, `stops`, `calls` | `Restart`s between `Stop` and `start`; what the properties and the bound count |
| `points` | the account at MAM |
| `buyer` | `autoBuy`: its next request, the blocks it still has to buy, the minimum it read |
| `others`, `hand` | points spent by hand since `autoBuy` learnt how many there are; what the bound counts |

| action | in the code |
|---|---|
| `Tick`, `OnTick`, `OnManual`, `OnCancel`, `TaskDone` | `loop`: the ticker, the three cases of the `select`, the return of the task |
| `Manual`, `Stop`, `Restart`, `Start` | the methods of the same names; `Restart` is `Stop` followed by `Start` |
| `StartTask`, `NoVip`, `BuysVip`, `Profile`, `BuysMax`, `BuysBlock` | `autoBuy` request by request: VIP, the profile when no points are known, then `BuyBonus` with 0 for the maximum or block by block |
| `BuysByHand`, `Earns` | the RPCs that spend points; seeding |

The mam service calls `NewScheduler` once and `Manual` once after it, and never
`Stop` or `Restart`, so `BonusBuyer` takes the loop and the ticker from
`Scheduler` and leaves those calls out. The interval, gigabyte prices and the
block size of `divideIntoMamGBAmounts` are numbers; the runs use small ones.
The points are integers, since fractions only matter through the division that
rounds down. A request that is made can be refused, or be carried out and not
answered.

| run | what it asks | bounds | result |
|---|---|---|---|
| `scheduler_loops` | `TypeOK`, `ALoopStays`, `TriggerServed`, `StopTaken` | three loops, two calls of `Stop` or `Restart` at any moment, any number of triggers and ticks | 1 664 states, holds |
| `bonus_buyer` | `BuyTypeOK`, `SurplusOnly` | 2 points per GB, blocks of 2 GB, up to 14 points, a minimum below zero, zero, below and above a block's price, two purchases by hand, every kind of fault | 22 164 states, holds |

Two overlapping restarts are what a shared cancel needs: three loops are alive
then, and either of the older ones or the new one may take it. Fourteen points
pay for three blocks, so a plan has a first, a middle and a last request.

`FairSpec` of `Scheduler` assumes that tasks end and that a loop is not passed
over: a `select` of Go with several cases ready takes one at random, so a case
that is ready again and again is taken at some time (strong fairness of
`OnManual` and `OnCancel`). That tasks end is an assumption about the task: the
HTTP client of the mam service has no time limit, and a request that is never
answered would keep the loop for ever.

`BuyerProofs` proves of `Scheduler`, for all numbers of loops and calls:
`SchedulerTypeCorrect`, and `RestartKeepsALoop` from `LoopInv`, which counts: the
loops alive and the restarts that have yet to start one exceed the items in
`cancelChan`, unless `Stop` was called alone.

It proves of `BonusBuyer`, for all prices, block sizes, minima and faults:
`BuyerTypeCorrect`, which carries that `autoBuy` is between two requests only
while a loop is in the task, and `BlocksFromSurplus` from `PaidInv` and
`PlannedPaid`, a lemma about the arithmetic of `Planned`: the blocks it plans
cost no more than what exceeds the minimum. Neither needs that there is one
loop.

A surplus below the price of a gigabyte is rounded down to 0, which `BuyBonus`
takes for "as much as possible" (`BuysMax`), so the "mimimum points to leave
alone" (`server_config/model.go:34`) are then spent as well: `SurplusOnly` is
about purchases by the block only. It also counts what was bought by hand since
`autoBuy` read its points as still there: the code does not read them again.

Left out: a `Restart` during a task starts a loop that may run the task beside
the first, which nobody does today; and `BuyBonus` returns neither a response
nor an error between 1 and 99 GB, which is one call's arithmetic.

## Configuration: ConfigStore

`ConfigStore` is `internal/server_config` with `argos.Scan`: one `GoudaConfig`
behind an RWMutex and its file. Four settings stand for all: `token`, `dir` (the
folders), `limit` (the downloader's time limit) and `interval` (its check
interval, which no message carries). They differ in which RPC writes them:
`UpdateSettings` all that its message has, `UpdateMam` the token, `UpdateDir` the
folders, `UpdateDownloader` the limit.

| variable | in the code |
|---|---|
| `pc`, `kind`, `sent` | each goroutine: its next step, its request and the fields it assigns; `Main` is the one in `LoadConf` |
| `announced`, `readers` | the RWMutex: the writer that has it or waits for it, and the readers |
| `mem`, `text`, `file` | the `GoudaConfig`; the YAML a save has made; the keys in `gouda.yml` |
| `known` | what clients may expect of a setting: the last accepted value, and those of later requests that failed, were cut short or met it |
| `last`, `mixed`, `lost` | whose value a setting has; the requests that met another under the read lock; a save was cut short or met another and none that was alone was completed since |

| action | in the code |
|---|---|
| `Read`, `Scan`, `ResolvePaths` | `LoadConf`: `LoadFromYaml`; `argos.Scan`: flag or variable, else the file, else the default; the folders made, by their absolute paths. The last two may end the start |
| `Begin`, `Lock`, `RLock`, `Enter`, `Release` | a handler, its lock and its deferred unlock; `Unlock` lets in the readers that wait |
| `Validate` | the calls to MAM and to the torrent client, under the lock |
| `Assign` | the assignments; those of several requests may overlap, and what overlaps may be torn |
| `Create`, `Marshal`, `Open`, `Write` | `DumpToYaml`: `os.Create`, the YAML, and `os.WriteFile` in its two calls |
| `Crash` | the process stops anywhere |

| run | what it asks | bounds | result |
|---|---|---|---|
| `config_store` | `TypeOK`, `SettingsKept`, `SettingsSurvive`, `RequestsEnd` | one handler sends `UpdateDir`, the other `UpdateSettings` (with and without folders and downloader), `UpdateDownloader`, `UpdateDir` or a read; every call of a save or a start fails at will; any number of crashes | 551 905 states, holds |

Two handlers are a setter under the read lock and whoever it meets: a writer, a
setter of another field, one of the same field, a reader. `FairSpec` lets every
goroutine run and, since Go's mutexes starve no writer, a `Lock` that is possible
again and again is taken (strong fairness). That a validator answers is not
assumed: `RequestsEnd` says that nothing else keeps a request waiting.

`UpdateMam`, `UpdateDownloader` and `UpdateDir` take the read lock only
(`service.go:57`, 71, 86), so they do meet, in the model and in the run. What
the code then keeps is what `SettingsKept` says:

* in memory no accepted setting is lost, whoever meets: they assign different
  fields, and two that assign one field leave either value or a torn one;
* in the file one's setting may be missing, or the file broken, though both
  requests were answered with success, until the next save that is alone
  (`UpdateSettings` always is) completes and mends it.

So the file may lose an accepted setting if the process stops before that. No
document says more of the file; leaving out the exception (`lost` set in `Meets`),
TLC finds `SettingsKept` and `SettingsSurvive` violated.

`ConfigProofs` proves for all settings, values, overrides, faults and any number
of handlers, with no assumption on what they serve, `ConfigTypeCorrect`,
`AcceptedSettingsKept` and `SettingsSurviveRestarts`. Neither of the last two is
inductive: the invariant `ConfigInv` adds to the types `LockOK` (a writer is alone
inside), `MixOK` (two requests inside a change at once have both taken the read
lock and are in `mixed`), `LastOK` (whose value the memory has) and `DataOK` (what
the memory, a marshalled text and the file hold at each step of a save that is
alone, against `known`).

More gaps, all in the model:

* A stop between `os.Create` and the end of the write loses every setting; the
  next start goes on with the defaults and writes those (`lost`).
* A save that fails is answered with an error, and the new values are in use.
* A value that is Go's zero value, such as `false`, is its default again after a
  restart (`OrDefault` in `SettingsSurvive`).
* `UpdateDownloader`, and `UpdateSettings` with a downloader, clear the check
  interval, which their messages do not carry (`Assigned`); it is its default, or
  that of its flag, after the next start. The properties speak of the settings
  that messages carry.
* Flags and variables are written to the file at each start and stay there.
* An `UpdateSettings` without a torrent client panics in its validation, where
  nothing is changed; with a client it keeps the folders or the downloader it has
  no values for (`Parts`).

Left out: `conf.Load()` returns pointers that its callers read after the unlock.

## Time: DownloadClock

`DownloadClock` is `monitorDownloads` with time in units and without the client.
A row has two ages: `age`, the time since its `UpdatedAt`, and `life`, the time
since its `AddMedia` or last `Retry`. Only the first is in the code.

| variable | in the code |
|---|---|
| `conf` | `Downloader`: the limit, the interval, whether the limit is ignored |
| `up`, `status` | the process runs; the status of each row, `late` being the error of the time limit |
| `mon`, `left`, `ticked` | the monitor with the settings it has read; its `time.Ticker` and a tick in its channel |
| `held`, `stale` | the ages of the structs that the monitor and its checks hold; those that were loaded before a `Retry` |

| action | in the code |
|---|---|
| `Elapse`, `Configure`, `Stop`, `Boot` | a unit of time, with the ticker; new settings; the process |
| `Request`, `Delete` | the `Save` at the end of `DownloadMedia`; `DeleteMedia` |
| `StartMonitor` | `setupTimeoutFunc` and `time.NewTicker`, which panics when the interval is not positive |
| `Load`, `LoadFails`, `PollOk`, `PollFails`, `EndRound`, `Wait` | a round of the loop |
| `Check` | `checkDownload` with the time limit and its deferred `Save`, which sets `UpdatedAt` |

| run | what it asks | bounds | result |
|---|---|---|---|
| `download_clock` | `TypeOK`, `GivenUpLate`, `ShortLimitEnds` | two rows, a limit of one unit or none, an interval of two units or of zero, ages up to three units, any number of requests, stops and failed polls | 294 256 states, holds |
| `time_limit` | `TimeLimitEnds` | one row, a limit of two intervals | violated: each check's `Save` makes the row young again, so the limit, here and for every limit above the interval (15 minutes and 1 minute by default), is never reached, though `intro.md:36` promises monitoring "with optional timeout" |

A state in which the monitor is off satisfies `TimeLimitEnds`, so that neither
stops nor starts refute it: the trace is of a monitor that runs all the time and
checks the row in every round. With a `Saves` that leaves the age alone TLC finds
no violation in that run.

`MaxAge` is one unit above the longest limit; all ages above it are alike to the
code. Fairness: time passes, goroutines run, the process is started again and a
poll is answered at some time with every torrent that is in the client; that
downloads complete is not assumed. An answered poll needs the client's session
to last, which is a matter of `Downloads`.

`ClockProofs` proves `ClockTypeCorrect` and `GivenUpLateAlways` for all rows,
limits and intervals, also negative ones. The invariant `Younger` says that a row
is never older than its request, and that no copy loaded since is.

Gaps: an interval of zero ends the process with a panic, at each start that
finds the setting; a failed poll is repeated at once, although the log says
"retrying in minute" (`PollFails` goes to `load`); the settings are read when a
monitor starts, and a monitor that is never without a download keeps them.

## Torrent files: TorrentFile

Each `AddMedia` or `Retry` writes the answer of MAM to `TorrentDir`, under the
name in `Content-Disposition`, and gives the path to the client. The file is
opened without `O_TRUNC`, written piece by piece and never removed.

| variable | in the code |
|---|---|
| `client` | transmission or qBittorrent |
| `published` | what MAM has under each name |
| `file` | the pieces in each file, of the torrents they were taken from |
| `held` | the torrents the client has |
| `req` | each request: where it is, its torrent, the pieces written or read, the id it returns |

| action | in the code |
|---|---|
| `Download`, `Open`, `Write` | `downloadTorrent` and `downloadTorrentFile`, a piece of `io.Copy` at a time |
| `ReadPiece`, `Upload` | the client's code reads the file and adds it; for qBittorrent an answer below 400 is a success, also its "Fails." (`Declines`), after which it may not have the torrent |
| `ReadHash` | qBittorrent: the file is read again for `TorrentFileToMagnet` and `DecodeMagnetURL` |
| `Restart`, `Update` | the process; MAM changes what it has under a name |

| run | what it asks | bounds | result |
|---|---|---|---|
| `torrent_file` | `TypeOK`, `IdOfRequest`, `FileWhole` | three requests at once, two names, a longer and a shorter torrent under one of them, both clients, every call failing, any number of restarts | 225 830 states, holds |

Three requests are a writer, a reader and one that left half a file. That the
file is not emptied is what makes overlapping requests for one torrent harmless:
they write the same bytes, and a reader never meets a shorter file; with
`O_TRUNC` a `Retry` would make qBittorrent refuse a file whose id is then stored
all the same. The decoders stop at the end of the first value, so the end of an
older, longer file does no harm; of the clients' decoders this is assumed.

The gaps: two torrents of one name in use at once. `UpdatesAnytime = FALSE` keeps
them out; with `TRUE`, TLC finds `IdOfRequest` and `FileWhole` violated. The code
takes the name as it comes and has nothing that keeps two requests apart. And
after qBittorrent's "Fails." a row follows a torrent that qBittorrent may not
have: `IdOfRequest` promises the torrent of transmission only.

`TorrentFileProofs` proves all three properties, for all requests, names, torrents,
sizes and faults.

* `TorrentFileTypeCorrect` says that no file outgrows the longest torrent of its
  name, also when MAM changes a torrent under way. A request's position is below
  the size of its torrent while it writes (`Known`).
* `StoredIdsAreSent` and `NoFileRefused` assume `Quiet`, which is
  `UpdatesAnytime = FALSE`. Their invariant is `Right`, of each request: it works
  for what MAM still has under its name; it has written the start of its file, or
  finds all of it; and what it has read so far is of its torrent. Other requests
  of that name write the same pieces, so what was right in a file stays
  (`PutStarts`, `RightKept`): this is where a file that others write to is as good
  as one of its own. A file read to its end is then one torrent (`DecodedWhole`).

Left out: the bytes of a torrent, what re-encoding an `info` dictionary with
unsorted keys would change, and torrents removed from the client.

## Not modelled

Routing, middleware and protocol conversion (stateless), searches and lists
(they only read), categories (one table, single statements), the freeleech
purchase before an `AddMediaWithFreeleech` (one more spending by hand for
`BonusBuyer`; its failure ends the request before `DownloadMedia`), magnet links
sent to a client (no caller), `BuyVault` (no caller), the deluge client (commented
out), the tray and desktop commands (processes of the operating system), the
user interface and the browser extension (no state shared with the server but
what the RPCs change), generated code (nearly half of the Go lines), and
formatting of logs and banners. Of the Go lines written by hand, the map covers
about 30%; most of the rest only reads, converts or prints.

Only model-checked: liveness under fairness (`InViewSettles`, `ResumedAfterCrash`,
`MonitorEnds`, `AddLeavesRow`, `TriggerServed`, `StopTaken`, `RequestsEnd`,
`ShortLimitEnds`) and the two runs that end in a violation. The provers at hand
do not reason about `ENABLED`, which fairness is defined with.
