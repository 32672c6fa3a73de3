# OmniSteam in TLA+

OmniSteam is two programs. The **core** is a library loaded into the Steam client: it hooks
client functions, reads Lua unlock scripts and makes the client treat the games they name as owned.
The **manager** is a process of its own (command line, web UI, background daemon): it writes those
scripts, installs the core and backs up save games. They share a file system and nothing else.

This directory holds TLA+ modules for the parts where several threads or processes meet, the TLC
configurations that check small instances, and TLAPS proofs of the invariants that matter most.

## How to run

    tlc -workers 2 -config MCLuaConfig.cfg MCLuaConfig      # any cfg with its MC module
    tlapm LuaConfigProofs.tla                               # any *Proofs module

`PROJECT.json` names the runs, what each is expected to show, the source lines behind every
definition (`map`), the hazards the properties are for, and for every property a mutant of a mapped
definition that breaks it.

## Inventory of the system

| Component (source) | State | Operations | Hard behaviour | What makes it correct |
|---|---|---|---|---|
| `LuaConfig` (`src/Utils/Config/LuaConfig.cpp`) | two `LuaData` slots, active index, reload lock | parse at start, reload, ~20 Lua API calls, getters, in-place setters | reload against readers, setters and file edits; scripts that fail half-way; directory iteration that throws | readers see one whole build; the last build reflects the disk; reloads end |
| `Hooks_Package` (`src/Hook/Hooks_Package.cpp`), callback queue (`Hooks_CallBack.cpp`) | Package 0's vectors, injected sets, captured pointers, pending flag, queue | `CheckAppOwnership`, `GetPackageInfo`, `GetOrAddAppData` hooks, `SyncInjectedLicenses` | several client threads and the watcher; appends that fail; Steam rewriting the package; re-entry from inside the client's refresh | no duplicate, nothing unaccounted for, package follows the configuration, no self-deadlock |
| Directory watch (`src/Platform/*/DirectoryWatch.cpp`, `WindowsUtils.cpp`) | watch handles, event queue | wait, drain, call back per file | three back ends that report different operations; events during a reload | no notified change is lost |
| `ScriptManager`, `DepotKeyStore` (manager) | script files, a listing cached per process by the directory's time; key records, `depotkeys.bin`, background update | save, toggle, delete, list, generate; look up, update | not atomic against the core's reads; listings made while another request changes a script; a cache file that is shared, replaced and cut short | a listing is the directory; a script has the keys of one whole database |
| `DlcStore` | base -> DLC ids, cache file, attempted set | register, fetch in a detached thread, save | concurrent saves through one temporary file, late answers | known DLCs belong to configured bases |
| `Hooks_NetPacket`, `ManifestClient`, `Hooks_Manifest` | job tables, queues of answers, 32-slot buffer pool, positive and negative cache, presence | send hook, receive hook, fetch | bounded wait, late answer, negative cache, reused buffers, answers that wait for a packet to carry them, presence built under a lock | every answer goes to its job; frames are read intact; the network thread never blocks |
| `StatsClient` | donor cache in memory and on disk, failures, apps in flight | look up, fetch, append | a fetch that ends between a look-up and the mark in flight | one question per unknown donor; a donor's values are not shown as one's own |
| Cloud saves (`CloudSaveManager`, `DaemonService`, `WebDavClient`, `SavePathResolver`) | lock file per app, status file, local and remote snapshots, exit event files | backup, restore, daemon poll, API and CLI calls, retention | daemon, web thread and CLI at once, crashes, partial transfers | one operation per app, retention keeps the newest, every exit is backed up, statuses settle |
| Web server, API router | client count, listening socket | accept, serve, stop | admission limit, shutdown while clients are served | `Stop` returns |
| `ConfigManager` | `omnisteam.toml` and one temporary file | load, change, save | shared temporary name, kill between steps, requests that overlap | acknowledged settings are in the file, in full |
| `CoreInstaller`, core's `UpdateCoreStatus` | library, signature files, `core_status.json` | download, unpack, remove; write, check, remove a stale status | a new status removed for a dead process's | the status is true, a dead one goes |
| `HookManager`, `Detour`, `PatternLoader` | the transaction, hook status; addresses, their cache file | prepare, commit, remove; resolve from cache, documents, symbols, patterns, database | a hook that fails to attach; an update of Steam; a cache file cut short; a library unloaded while it starts | a hook is where its function is; the status shows hooks in place |
| Game lifecycle (`Hooks_Misc`), `ProcessInjector`, `Hooks_IPC`, decryption hooks, tickets | active app, claimed pids, event files, imported tickets, captured store | watch a launch, inject, report the exit, answer identity and ticket requests | threads that find one process, reused pids, a watcher that clears another game's app, stores asked at different times | one injection per process, one exit event per game, one identity per session |
| `PicsTokenInjector`, `ProtoFields`, `AntiCheatGuard`, `Hooks_SteamUI`, `SteamApi`, `Doctor`, `DenuvoImporter`, assets, platform layer | none, or data loaded once | conversions and I/O | - | functional |

Interactions: the manager's file operations are the core's input (watch, reload); a reload ends in
`SyncInjectedLicenses`; `Hooks_Package` reads `LuaConfig` and `DlcStore` through their getters, each under
its own lock, and `Hooks_NetPacket` and the ticket hooks read `LuaConfig` too; the client calls back into the hooks from inside the refresh the core asks for; a game's exit in
the core becomes a file in the daemon's spool and a `backup` command; the core's status file is what the manager's page shows. Inside the manager
the request threads of the daemon and a command line share the script directory, the settings and the depot key cache.

## Modules

| Module | Models | State and actions |
|---|---|---|
| `LuaScripts` | what a script does to one slot | a script is a sequence of API calls; `Apply` is one call |
| `SnapshotStore` | abstract: what readers are promised | a snapshot replaced in one step by a complete build, plus setters |
| `LuaConfig` | `LuaConfig.cpp` with the init thread and any number of reloaders | one action per `g_luaMutex` section: `BeginReload`, `LoadScript`, `RunCall`, `EndScript`, `ScanFails`, `Publish`, `FinishInitialParse`, `SetAccessToken`; `EditScript` is the disk |
| `LicensePackage` | `Hooks_Package.cpp`, the callback queue | a program counter per thread; a step ends at each lock, each atomic another thread tests and each call into the client |
| `HotReload` | manager's file operations, watch thread on three platforms, reload, sync | composes what `LuaConfig` and `LicensePackage` implement: a snapshot read file by file and published at once, a package made equal to its unlocks |
| `CloudSave` | `CloudSaveManager.cpp`, `DaemonService.cpp` and the exit trigger in `Hooks_Misc.cpp` | the save, the event files, a lock file per app, the local and the server's snapshots; a worker is the daemon's poll thread, a web thread or a command line, and takes one step per file it copies or fetches and per lock operation; `Crash` kills a process |
| `SaveVault` | abstract: what is promised of save and snapshots | one operation at a time per app, which adds to the latest snapshot, drops the oldest or puts back files of the server's latest |
| `ManifestCodes` | the manifest part of `Hooks_NetPacket.cpp`, `ManifestClient.cpp` | the job tables and their list, the client's cache and its file; the send hook and a fetch thread per request, one receive hook that takes the server's answers in any order; the end of the process |
| `CodeService` | abstract: what the client may rely on for manifest codes | codes found and kept, the requests that are owed one, one answer each |
| `StatsDonors` | `StatsClient.cpp` | donors known, failed, in flight and recorded; a thread that asks, stores and appends |
| `NetFrames` | the rest of `Hooks_NetPacket.cpp`; extends `StatsDonors` | the ring of buffers, the queues of answers made here, the noted jobs; the send hook of any number of threads, and one receive hook that lends the packet it has to a queued answer and then rewrites it |
| `RichPresence` | presence in `Hooks_NetPacket.cpp` | `g_RPMutex`, template, injected state; both hooks |
| `Signatures` | `PatternLoader.cpp` | addresses, a cache file per client version, deployed documents; one operator per source of addresses |
| `CoreProcess` | a life of the core: `main.cpp`, `HookManager.cpp`, `Detour.cpp`, `CoreInstaller.cpp`; extends `Signatures` | the init thread (wait, resolve, save, look up, attach, commit, report), the destructor, the manager's installation and its three-step look at the status; `Boot`, `Die` |
| `Tickets` | `AppTicket.cpp`, the store hook of `Hooks_Decryption.cpp` | imported tickets, the account signed in, the store captured |
| `GameLifecycle` | `Hooks_Misc.cpp`, `ProcessInjector.cpp`, `Hooks_IPC.cpp`; extends `Tickets` | a watch thread per launch (poll, inject, wait, clear, report), the client's processes, identity and ticket requests |
| `ScriptLists` | `ScriptManager.cpp` | script files, the directory's time, the listing each process keeps |
| `DepotKeys` | `DepotKeyStore.cpp` | the cache file, each process's records, its start and its update thread |
| `ConfigFile` | `ConfigManager.cpp` and the route that changes settings | `omnisteam.toml`, its temporary, what a thread has read |
| `ManagerService` | the routes of `ApiRouter.cpp` and the commands of `main.cpp` that change something; composes `ScriptLists`, `DepotKeys` and `ConfigFile` | a program counter per request thread or command; a step ends at each file operation and lock; `Exit` ends a process anywhere |
| `*Proofs` | | TLAPS theorems about the module of that name; `CoreThreadsProofs` is about `HotReload` and `GameLifecycle`, whose threads share no state |
| `MC*` | | values of the constants for TLC |

Abstractions. Ids, keys, tokens and script contents are values of small sets; token stands for each of
the per-id string maps. Package vectors are bags: no code reads positions. `ret` in `LicensePackage` is the
return address of the one helper that is called from two places. Ghost variables (`source`, `dirty`,
`stale`, `overridden` in `LuaConfig`; `unannounced`, `intact` in `LicensePackage`; `missed` in `HotReload`; `unpruned`, `excused` in
`CloudSave`; `resolved`, `saved`, `known`, `expired` in `ManifestCodes`; `built`, `stamp`, `recvStamp`, `torn`, `forgotten` in
`NetFrames`; `offline`, `booted`, `stolen` in `CoreProcess`; `shown`, `met`, `cleared`, `reported`, `unheard` in `GameLifecycle`;
`promised`, `crossed`, `hurt` in `ManagerService`) only record history for the properties and guard
no action. Two more say where a value is left open: `crossed` in `NetFrames` marks the slots that a late copy can
spoil, and `sure` in `ScriptLists` the listings that need not be the directory.

`CloudSave`. All save locations of an app count as one directory. `RecordSyncStatus` is left out because no operation
reads `cloud_status.json` back. The clock never goes back. The timestamp is taken when the save has been located. Retention
may fail as the code lets it: a listing that throws skips it, a removal that fails leaves some or all of a snapshot unnoticed.

`ManifestCodes`. A manifest stands for its request code: the providers answer the same code for the same manifest,
so which one answers, and in what order they are asked, is left out. A fetch ends before its job's 120 s are over (three
providers with 6 s each). Every frame fits a slot of the buffer pool.

`NetFrames`. A packet is its kind and its job: what the field readers get out of its bytes. Packets are well formed and
fit their slots. The statistics service is enabled and the donor cache below its 16384 entries. `AcquireSlot` is what is done under
`g_PoolMutex`; the copy into the slot (`FillRequest`, `FillRecv`) is a step of its own, and one that was taken over in between leaves a `Mixture`.
Whether the donor file exists is one step and the write another, which may fail; as the cache is walked without its mutex
(`StatsClient.cpp:86`), what is written of it is any part.

`CoreProcess`. Process ids are not used again and the cache directory can be written. An address is the version of the binary
it was found in; it is right if that version is loaded.

`GameLifecycle`. The client launches one game at a time and each has one process, which may start late. The ids of ended
processes are used again. Of a ticket only the account in it matters, which may be none (the SteamID 0). `recent` is what `loginusers.vdf` names,
which need not be the account signed in. On Windows the watch thread may fail to open its process (`OpenFails`); on Linux a name is
compared with the 15 characters the system keeps of it (`Comm`).

`ManagerService`. A listing reads the directory in one step, and no two changes of the directory share a time. A change below the
directory (`Nested`) leaves that time alone, and what a listing has that was cut, or made during such a change or a save, is left open. The text
of a script reaches its file in one write; that of the settings does too, or is cut, unnoticed. A failed `rename`, which is that of POSIX otherwise, is
followed by a copy, which is no single step. Writes of `depotkeys.bin` by two processes do not mix within one write. Requests that change nothing or are refused, the
range-scan fallback of `FindDepotKeysForApp` and listings on the command line are left out.

## Runs

| Run | Bounds | Shows |
|---|---|---|
| `luaconfig` | 2 reload threads, 2 files, 3 scripts (one fails half-way, two rival tokens), 2 edits | `ReadersNeverSeeStaging`, `UnlocksAreOneBuild`, `SettledSnapshotIsDisk`; reloads end; the store refines `SnapshotStore` |
| `license` | 1 client thread, the watcher, 4 ids, 2 configurations, queue of 1, failed appends, rewrites | `EntriesAreAccountedFor`; every hook returns; a deferred injection is made up for |
| `license_race` | 2 client threads and the watcher, no DLC | `NoDuplicateEntries`, `PackageFollowsConfig` |
| `hotreload` | 3 platforms, 3 files that come and go (one nested), 2 versions, 2 manager operations | `QuietMeansCurrent`; notified edits take effect |
| `cloud` | daemon and 1 command line, 1 game that runs twice, 1 request of a user, 1 crash, failing transfers, listings and removals, 1 snapshot kept | `RepositoryBounded`, `SuccessIsKept`, `ExitIsBackedUp`, `BackupSeesStillSave`; all comes to rest; it refines `SaveVault` |
| `cloud_retention` | daemon alone, 2 snapshots kept, 3 exits | finding: backups that copied nothing push out the usable ones |
| `manifest` | 3 requests for 2 manifests (the first and the third want the same), 1 end of the process | `JobsAreTracked`, `AnswersConverge`; the receive hook always returns; it refines `CodeService` |
| `net` | 2 requests for 2 apps (one has a donor of its own; the first asks for statistics, cloud or product information), a pool of 2 slots, queues and notes of 1, 1 reload, 1 kick; 958,677 states | `OneAnswerEach`, `FramesSurvive`, `DonorStatsAreStripped`, `AsksOnceForUnknown`; answers arrive |
| `presence` | 2 games, one of them configured, 2 versions of the texts | finding: the injected presence is never shown, because it is built under a mutex its builder locks again |
| `core` | 2 starts of Steam, 2 versions of each binary, 3 functions (one without a pattern, one in steamui), 1 installation; 390,719 states | `AddressesAreRight`, `UnknownIsNowhere`, `StatusIsTrue`; a dead process's status goes |
| `game` | 2 games with one file name, 2 pids, 2 accounts; 2 launches, or one and 2 changes of account or `loginusers.vdf`; 428,084 states | `NoDoubleInjection`, `ActiveFollowsGames`, `OneIdentity`; exits are reported |
| `manager` | daemon with 2 request threads, a command line with a database beside it, 2 games (one script nested), 2 databases, 2 starts, 2 directory changes, 2 requests; 846,215 states | `ListIsCurrent`, `SettingsStay`, `ScriptKeysAreWhole` |

Why the bounds are enough. Two reloaders are the least that can overlap, and a third waits for the same
mutex. Two edits change a file before and after it is read in one build. Three scripts
cover overwriting, a half-run script and an absent file. In `LicensePackage` one id each plays the game, its DLC, an id
Steam owns and a redistributable, the four cases the code distinguishes; two client threads are the least that can
both pass the unlocked `g_licenseInitialized` test. The queue bound (256 in the code) is 1 or 0: only full and
not full matter. `MaxEdits` limits environment steps, never steps of the code.
In `CloudSave` two workers of different processes are the least that can meet at a lock file and the crash may hit either; one snapshot
kept makes every second backup prune. A spawned command line and one a user starts do the same, so `cloud` lets the user start
it (`ManagerKnown = FALSE`). In `ManifestCodes` the third request repeats the first so that it can meet a cached answer, a
fetch that is running and a failed one; the second may be for the same or another manifest; requests are numbered
in the order of their sending, which loses no behaviour.
In `NetFrames` two requests for one app are what it takes for a second look-up to meet a fetch of the first; a pool of two wraps around with
the third frame, and a queue or a table of notes for one is full with its first. In `CoreProcess` a second start is needed to read what the first
has left, with the same or a new version of either binary, and the one installation can replace the documents in between. In `GameLifecycle` two
games with one file name are the hardest case for the search by name, and with two pids the second launch can get either. In
`ManagerService` two threads of the daemon are the least that can overlap, and the command line is the other process; the two
databases differ in the depots of the game, so a part of one would show, and one nested script is enough to outdate a listing whose time stays. What the
models show for these bounds is proved for all in their `*Proofs`, except liveness and the findings.

### Disagreements to be reproduced by hand

The findings of `cloud_retention` and `presence` have runs. Five more come from the same models; their configurations
are kept, and TLC reports a violation for each:

| Configuration, module | Property | Disagreement |
|---|---|---|
| `MCLicensePackageRefresh.cfg`, `MCLicensePackage` | `RefreshReachesClient` | `Hooks_Package.cpp:134` clears the pending flag after the client was told; a flag that another thread raised meanwhile is lost, and so is the refresh `docs/ARCHITECTURE.md:65` describes |
| `MCLicensePackageZombie.cfg`, `MCLicensePackage` | `NoZombieDlc` | the ownership hook (`Hooks_Package.cpp:354`) grants any known DLC; only the injection is scoped against the "zombie DLCs" of the comment at line 142 |
| `MCHotReloadOutage.cfg`, `MCHotReload` | `NoOwnershipOutage` | saving truncates the live script (`ScriptManager.cpp:324`), and a reload in between drops the game, against `README.md:31` |
| `MCCloudSaveSafeguard.cfg`, `MCCloudSave` | `UploadHasLocalCopy` | an upload calls the local backup while it holds the app's lock file (`CloudSaveManager.cpp:386`), so the "local snapshot first" of the comment above it is skipped |
| `MCManifestCodesBlocked.cfg`, `MCManifestCodes` | `ReceiveIsBounded` | after the wait of at most 2.5 s the last reference to the future is dropped (`Hooks_NetPacket.cpp:616`), which joins the fetch |

## Fairness

`LuaConfig`: weak fairness of each thread's own steps (a thread that is between two files or inside one goes on;
nobody is obliged to begin a reload). `LicensePackage`: strong fairness of each thread's steps, because
`Acquire` and `LookUp` wait for `g_injectMutex`, which is free infinitely often but not always: `std::mutex` is assumed
not to starve a waiter; and weak fairness of `CheckAppOwnership`, which the client calls all the time. `HotReload`: weak
fairness of the watch thread and of `FinishSave`, which is the end of a function already entered. `CloudSave`: weak fairness of each worker's
steps (locks are tried, never waited for, and libcurl gets timeouts, `WebDavClient.cpp:219-220`), of the exit hooks and of the daemon's poll; a crashed
process comes back, since the daemon restarts. `ManifestCodes`: weak fairness of the sending, fetching and receiving steps; HTTP requests have
timeouts, Steam's replies are not owed. `NetFrames`: weak
fairness of each step of the receive hook (`RecvStep`) and of the arrival of some packet: the connection
stays up. No sender is obliged to go on. `RichPresence`: weak fairness of building and receiving, but not of the library's choice to throw at the second lock. `CoreProcess`: weak fairness
of the manager's look at the status, which its page repeats. `GameLifecycle`: weak fairness of each watch thread, which polls. `ManagerService`: none,
as its properties are safety. No event of the
environment (edits, rewrites, answers of the store) is fair.

## Proofs

Each `*Proofs` module proves an inductive invariant `IInv` (checked with TLC before it was proved), one lemma per action,
and derives the properties from it. Every safety property of a passing run is stated by a theorem.

* `LuaConfigProofs`: for any files, scripts, ids and reloaders. `IInv` adds to the properties who may hold
  `g_reloadMutex`, that a thread inside a build has a target other than the active slot, and that the target slot
  holds exactly what the calls made so far put there (`UnlockedIn` over the prefix that ran). `SettledIsDisk`
  needs in addition that a build not marked dirty has read what is on disk. That a build misses no script is not stated: an iteration
  that throws ends it early (`ScanFails`), and a directory in `[lua] paths` is watched (`src/src/main.cpp:204`) though the parse at
  `LuaConfig.cpp:23` is of the default directory only (`InitialFiles`).
  `Refinement` proves that the store implements `SnapshotStore`: a publication is one `Replace` by what the scripts read would
  produce, every other step a `Set` or a stutter. Its invariant `TokenInv` says for each token of a slot who gave it last: a call of the prefix
  that ran, with no later call for that id, or a setter.
* `LicensePackageProofs`: for any number of client threads, configurations and DLCs. `IInv` adds mutual
  exclusion, where the watcher can be, that a client's `want` is collected under the mutex from a configuration
  that the watcher has either not replaced yet or will sync again (`ClientWants`), and that the watcher's is from the
  present one (`WatcherWants`).
* `CoreThreadsProofs`, about `HotReload`: for any files, versions and platforms. On macOS and Windows the watch thread calls back
  per script it finds, so with no script left it does not reload; `missed` has the files whose change was not followed by a reload for that reason,
  or raised no notification, and both properties are about the others.
  `ReloadInv` says that a file not yet visited by the scan, or covered by a queued event or a batch, may differ from the build, and
  no other may.
* `CoreThreadsProofs`, about `GameLifecycle`: for any launches, games, process ids and accounts. `GameInv` says that a thread that has a
  process has claimed it, and no two the same (`ClaimInv`); that a launch has one process at most and gets its thread when the hook
  comes back (`LaunchInv`); that a thread which claimed the process of its own launch notices the exit of that one (`MetInv`); that
  the active app is that of the last launch until a thread of the same app, or one that looked before the launch, clears it (`ActiveInv`);
  and that an app is shown the owner of its imported ticket or else the account that `loginusers.vdf` names (`IdentityInv`), for which a lemma goes through
  the sources a ticket is forged from (`ForgedForUser`). A thread that could not wait for its process clears the app of a game that runs; `cleared` has it.
* `CloudSaveProofs`: for any apps, files, workers, crashes and times. `IInv` adds that a lock is held by the worker that works on its app
  (`LockIsHolders`), that a local copy goes to the newest snapshot (`SnapshotIsNewest`) and a file copied is in it (`CopiedIsStored`), that a
  restore fetches what it listed (`FetchIsListed`), and that the retention is exceeded at most while a local backup copies
  (`BoundedUnlessCopied`), or for an app in `unpruned`: its last local backup was cut short, could not list the snapshots, or could not remove one; a lemma shows by well-foundedness that keeping the last names bounds their number. A second invariant, `EInv`, says who owes
  the backup of the last run: a hook that has not written its event, an event the daemon has not removed, the daemon at work with copies that match the save,
  or nobody because a snapshot equals the save. `ExitsAreBackedUp` follows; the excuses are those of `ExitIsBackedUp`.
  `VaultRefinement` proves that the workers implement `SaveVault`, where the operation on an app is that of the worker which holds its lock: each copied
  or uploaded file is a `Copy` into the latest snapshot, retention a `Trim` to the newest `Keep` and whatever could not be removed, each downloaded file a `Fetch`, the death of a
  process an `End` of all its operations. The invariant `VInv` it needs says that what is uploaded or fetched is still the server's newest snapshot.
* `ManifestCodesProofs`: for any requests and manifests. `IInv` adds to the properties what is stored for a job at each
  place of its send hook and its fetch (`JobsConsistent`), that only jobs sent are listed for pruning (`OrderIsSent`), that a code
  a fetch returned is in the cache or in the file not yet read (`ResolvedIsCached`), that the receive hook waits for a job
  that has no code and no answer (`HandledIsOpen`), and that a request for a known manifest is on its way to an answer from the
  cache (`KnownIsServed`). `JobTablesArePrunable` and `LookupsConverge` follow.
  `ServiceRefinement` proves that hooks, fetch threads and files implement `CodeService`: a code counts as found when it is in the cache or in its file, and a job
  is owed one from the moment the send hook has seen it in the cache. So a request is answered once, whichever of cache, fetch, wait and server is first,
  and one for a known manifest with its code.
* `NetFramesProofs`: for any number of requests, apps and donors and any bounds of pool, queues and notes. The ring's lemma says that a
  slot is taken anew only `PoolSize` frames later, by the distance between it and the next one, so that within these only a taker from an earlier round
  can still write to it, and then the slot is in `crossed`; `IInv` keeps that for what each
  sender and the receive hook hold. It adds that the mark in flight is a lock on the app (`DonorsConsistent`), that only jobs answered here are
  queued, and that, as long as no overwritten buffer was read, a request sent in a donor's name is noted until its response is rewritten
  (`JobsRemembered`). `OneAnswer` holds even when buffers are read overwritten: `SidesInv` says that a buffer with a request is of a job
  whose request is sent, and that no job the server was asked for was suppressed. So whatever frame is sent out of a reused buffer, it asks for no job that is answered here.
* `CoreProcessProofs`: for any functions, versions, documents and starts. `IInv` adds that what every cache file has is right for its client and
  a steamui that client met (`CacheIsRight`), what is left of a dead process (`DeadIsGone`), that process ids grow (`PidsGrow`), and that
  a hook counts as active only if it is in the transaction (`ActiveIsPrepared`). That the database is asked unless the functions without a
  pattern make up the number is an argument about cardinalities (`EnoughIsFromExtra`).
* `ManagerServiceProofs`: for any processes, threads, games, depots and settings. The invariant has a part for each thing that is
  shared: a process's records along its start (`StoreHolds`); the one thread at the settings while requests do not overlap (`OneAtATime`), which the properties need only as long as no write fails and no copy is cut (`hurt`); the keys
  a script may have (`Proper`), in the files and in the hands of a thread; and listings: while any script is being written every listing is
  unsure or about to be dropped (`ListsHold`), and so is one that a change below the directory has outdated. Each part is preserved by every action given the parts before it.

`TypeOK` of `LuaConfig`, `CloudSave`, `ManifestCodes`, `NetFrames`, `CoreProcess` and `ManagerService` and `GameTypeOK` are proved and were checked with TLC, but stand
in no configuration; for the first three a refinement in the same run says more.

Only model-checked: liveness (`ReloadCompletes`, `HooksReturn`, `DeferredInjectionHappens`, `EditsTakeEffect`, `ComesToRest`,
`ReceiveReturns`, `AnswersArrive`, `StaleStatusGoes`, `ExitsAreReported`), because the prover has no fairness.

## Plan

Done, in the order of importance: configuration (`LuaConfig`), licences (`LicensePackage`), the path from the manager's files to
the licences (`HotReload`), cloud saves (`CloudSave`), manifest codes (`ManifestCodes`), packets and donors (`NetFrames`), presence
(`RichPresence`), the core's start and installation (`CoreProcess`), games and identities (`GameLifecycle`), the manager's shared files
(`ManagerService`).

Left, for whoever goes on:

| Module | Source | Abstract specification, properties | Theorems |
|---|---|---|---|
| `DlcCache` | `DlcStore.cpp` | the cache file as an atomic register that several threads save | a saved file is one of the states of the store |
| `WebServer` | `WebServer.cpp` | `Stop` returns while clients are served | the limit of admission |
| a status file for `CloudSave` | `cloud_status.json` | readers find one whole status per app | as for `ConfigFile` |

## Not modelled

PROJECT.json lists every component with its status. Conversions, byte layouts, signature scanning, HTTP, web
assets and wording are left out, and so are the components of the plan that are still to be modelled. Hazards that
are left to reviews and tests, as none of the models has the state they are about:

* a directory iteration that ends early drops scripts silently (`LuaConfig.cpp:297`), and directories of `[lua] paths` are watched but
  not parsed at start (`main.cpp:204`): the models contain both, no property is about them;
* without the client's refresh functions the pending flag is never cleared (`Hooks_Package.cpp:120`), and an id Package 0 had before counts as injected (line 107);
* watch back ends: deleting the last file of a directory, which reloads nothing (`Darwin/DirectoryWatch.cpp:64`; `missed` in `HotReload`), a directory whose handle cannot be opened (`WindowsUtils.cpp:129`);
* two saves of `dlc_cache.bin` through one temporary file (`DlcStore.cpp:181`);
* snapshots named in local time (`CloudSaveManager.cpp:34`), two operations that replace `cloud_status.json` (line 244), a
  restore from the newest remote copy although its upload was cut short (line 481);
* an archive unpacked while the stream that wrote it is open (`CoreInstaller.cpp:247`).
