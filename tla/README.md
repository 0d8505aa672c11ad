# A TLA+ development of mihombreng

mihombreng is a controller for the *mihomo* proxy core on routers: a Go backend with a REST API and a
React interface. It spawns and kills the core, installs and removes the kernel's routing rules, keeps
subscriptions, takes backups and streams logs. This directory holds TLA+ modules translated from its
source, TLC runs that check them on small instances, and TLAPS proofs of the properties that matter most.

Line numbers are those of the source next to this directory; `mihomo_service.go` is
`src/backend/internal/service/mihomo_service.go`.

## 1. The system

| Part | State | Operations | Interacts with |
|---|---|---|---|
| Core lifecycle, `MihomoService` | `mihomo.pid`, `isStopping`, `cmd`, `startTime`, `routingCheckStop`, health result, date of the last scheduled restart | Start, Stop, Restart, RestartWithPreviousRouting, GetStatus, UpdateAppConfig, RestoreState; one waiting goroutine per core; watchdog; health check | processes, pid file, kernel rules, configuration |
| Controller, `main` | the process itself | boot cleanup, RestoreState, serve, signal, Stop(false), last cleanup, Shutdown | all of them |
| Configuration file, `config.Config` | one shared struct in memory, `mihombreng.yaml` | Load, Save; assigned by handlers and by Start/Stop | every handler holds the same pointer |
| Routing rules, `NftablesService` | nftables tables, policy rules, routes, sysctls; saved sysctl values, `useOpenWrtFw` in memory | SetupRouting, CleanupAllRouting, ValidateRouting | lifecycle, `main`, recovery handler |
| Subscriptions | `subscriptions.json`, one provider file each, a mutex | List, Get, Create, Update, Delete, Refresh; scheduler once a minute | the network, the file system |
| Backups | archives, status, targets, a mutex *per handler* | create, retention, restore, sync and upload to WebDAV | configuration and working directory |
| File manager | files of the working directory, active configuration path | create, update, rename, delete, set active | configuration, Restart |
| Streams | an offset per connection | tail a log; relay the core's streams | log files, the core's API |
| Rate limiter, auth, CORS, router | visitor table | one check per request | every request |
| Converter (Go and Rust) | none | parse subscription links | subscriptions |
| Unlock test | last results, a mutex | list the targets, probe one or all of them | the network through the core |
| DNS, GeoIP, diagnostics | none | requests to outside services | - |
| Config page | tabs with drafts, what validation said, active config | open, edit, validate, auto-fix, save, save all, activate, create, delete | file API, Restart |
| Profiles, Providers, Backup pages | rows, selection, dialogs, busy flags | create, edit, refresh, rename, upload, sync, restore, delete | subscriptions, file API, backups |
| Settings page, dashboard | the settings in two spellings, mark of unsaved changes | edit, raw edit, validate, save, switch of the routing mode | UpdateConfig, ValidateRouting |
| Logs page, status polling | sockets and timers; polls of every hook | connect, reconnect, switch source; poll, Start, Stop, Restart | streams, GetStatus, lifecycle |
| Connections page, unlock test page | rows, selection, dialog, busy flags; results on show | refresh, close; test all, test one | the core's API, unlock test |
| Other pages | what one call answered | - | REST API |

**What is hard here.**

- *Nothing serialises the lifecycle.* `MihomoService.mu` protects single assignments. Two Starts, a Stop and
  the watchdog's Restart interleave at every file, process and kernel operation. Each core has a goroutine
  waiting for it, and that goroutine later removes a pid file that may name another core.
- *Errors leave things half done.* Start has nine ways to fail, SetupRouting undoes nothing, and a restart
  has to put the previous routing back.
- *State outlives the controller.* Cores, pid file, rules and files survive a crash; goroutines and flags do not.
- *Work goes on behind the requests:* the scheduler, the watchdog, the health check.
- *Files are truncated before they are written.*
- *The interface awaits.* A handler of a page goes on after each await with the values it captured; answers
  overtake each other, the user types and clicks in between, dialogs and pages are left, calls fail before or
  after they acted, and other windows change what was read.
- *Sockets close late.* `onclose` comes after the code that called `close()` has gone on.

**What makes each part correct.** Lifecycle: one core, which the pid file names and somebody waits for; a Stop that
answers "ok" has ended it and removed its rules; a failed change is rolled back. Controller: a boot comes to serve, an
exit leaves no rules. Subscriptions: distinct names and files, files that match the list, refreshes that never undo
an update, due subscriptions that get refreshed. Routing: what is set up is cleaned up, whatever failed in between.
Backups: a restore is preceded by a usable backup, retention keeps the newest, no operation waits for itself. Health:
no result outlives the core it is about. Pages: what is shown as saved is saved, what was typed for one thing is stored
in that thing, no answer takes a draft away, a switch changes only what it switches, rows are what there is, and
whatever fails no page is stuck. Live parts: LIVE means an open socket, everything comes back after an outage.
The code does not keep to all of this. Section 3 says which of it is checked, with which exceptions, and what the
code does where no property could be stated.
The hazards behind these, each at its line, are listed in `PROJECT.json`.

## 2. Modules

| Module | What it is |
|---|---|
| `Lifecycle` | `MihomoService`, step by step, with any number of callers and processes |
| `Controller` | extends `Lifecycle` with `main`: boot, signals, exit, crash |
| `MCController` | `Controller` with a bounded number of external events |
| `Subscription` | the subscription store and its scheduler |
| `MCSubscription` | its symmetry |
| `SubscriptionStore` | what the subscription service promises: a list changed by one operation at a time. `Subscription` implements it, `Profiles` is written against it |
| `ConfigEditor` | the Config page and the part of the file API it calls |
| `Profiles` | extends `SubscriptionStore` with the Profiles page |
| `Settings` | the Settings page, the dashboard's switch, the spellings of the keys, UpdateConfig |
| `Providers` | the Providers page over the provider files |
| `Backup` | local backups: service, handlers and page |
| `RemoteSync` | remote targets: the service's mutex and the page |
| `Connections` | the Connections page over the connections of the core |
| `UnlockTest` | the unlock test page and the service behind it |
| `MCWeb` | these seven pages, one mounted at a time |
| `LogStream` | the hook of the Logs page over its sockets and timers |
| `CoreStatus` | status polls, the frame around all pages, the core's buttons |
| `MCWebLive` | the two of them, one open at a time |
| `Lifecycle_proofs`, `Controller_proofs` | proofs about the core's life, and about it under `main` |
| `Subscription_proofs`, `Subscription_refinement` | proofs about the service; that it implements the store |
| `Editing_proofs` | proofs about the pages that edit: profiles, editor, settings |
| `Lists_proofs` | proofs about the pages that list: providers, unlock test, backups, connections |
| `MCWeb_proofs`, `MCWebLive_proofs` | the pages together; the log stream, the status polling, and both together |

### Lifecycle

The *threads* are the goroutines of callers and, for every process name, the goroutine `go func(c)
{ c.Wait(); ... }` (mihomo_service.go:184). A thread has a label (`pc`) and local variables (`frame`).
The labels follow the code:

| Code | Actions |
|---|---|
| `stopWithRoutingCleanup` | `Mark`, `StopStatus`, `StopKill`, `StopUnlink`, `StopRoute`, `StopSave` |
| `Start` | `KillPid`, `KillAll`, `Spawn` / `SpawnFails`, `Register`, `WritePid` / `WritePidFails`, `Ready` / `NotReady`, `Route` / `RouteFails`, `StartSave`, `Health` |
| `RestartWithPreviousRouting` | stages `stop1 start1`, and after a failure `stop2 start2`; between them `Recheck` and `Rollback` |
| the waiting goroutine, `handleUnexpectedExit` | `Reap`, `Exited`, `UnlinkPid`, `GiveUp`, `CrashRestart` |
| `UpdateConfig` | `CallChange`, `Change` |
| `GetStatus` | `Status`; `PidFileRunning` and `DropStalePid` inside the steps that call it |

Abstractions, all of which keep the order of the effects:

- One step holds the statements between two effects on shared state. `GetStatus` (read the pid file, signal
  0, remove a stale file) and `UpdateConfig`'s assignments with its save are single steps. `isStopping = true`
  and the end of the health check are one.
- A routing setting is the *set of mechanisms* its TCP and UDP modes name. `kernel` is a set of marks: a mechanism stands for
  its own table, `"policy"` for TPROXY's policy routing, `"fw4"` for the rules TUN puts into OpenWrt's table, `"sysctl"` for the
  bridge settings TPROXY overwrites, `"partial"` for the ip rule of a TUN setup that failed midway. `undo` is what the
  service remembers in memory of the last two: `useOpenWrtFw` and the values of the sysctls before it. `Platform` says which of
  the two the router has. What is kept of the code: SetupRouting answers ok although addPolicyRouting, or a call it makes,
  failed (nftables.go:126, tproxy.go:76, 87, 99, 110), so any part of the policy routing may be missing (`RulesOf`); it stops at
  its first error and undoes nothing (`RouteFails`); its own cleanup leaves an old REDIRECT table, since nftables.go:101 passes a
  nil connection, and the sysctls (`NotCleaned`); a second applyBridgeSysctl saves the value of the first (`Remembered`);
  fw4 rules are deleted only by the process that made them, and in one transaction with TUN's table, so not if that is gone
  (tun.go:748, `StuckFw4`). It is assumed that the bridge settings are not "0" before the service sets them, that
  reads and writes of them succeed, that the table of a mechanism is installed as a whole, and that a UDP mode
  "redirect", for which no rules exist, comes with another mechanism.
- `Faults` names the calls of the system that may fail: `"kill"` (Process.Kill and killall), `"remove"` (os.Remove of
  mihomo.pid), `"save"` (Config.Save), `"nft"` (the connection of CleanupAllRouting). Where the code ignores the error, so does the
  model. A Stop whose kill or removal fails answers an error, and a restart then rechecks the status and returns that error
  without a rollback if the core still counts as running (mihomo_service.go:317-320, `Recheck`).
- A killed process is a zombie at once and answers signal 0 until it is reaped. The system's reuse of a process id while
  the pid file still names it is not modelled.
- `cmd` and `startTime` are only read for display and are left out; so are the YAML and log files of the core,
  whose failures are `SpawnFails`.
- `auto_restart` with `on_crash` is the constant `OnCrash`.

### Controller

`phase` says how far `main` has come; `Main` is one of the callers. `Boot` is the cleanup before MihomoService
exists (main.go:90-94), `RestoreNothing` / `RestoreStart` are RestoreState, `Sigterm` and `MainReturns` are main.go:160-170,
`CleanAndDrain` is main.go:172-178. The cleanup at boot is that of a process that remembers nothing, so it
leaves the fw4 rules and the sysctls of one that crashed; its errors are only logged. Requests are accepted from `serving` to `cleaning`, because `server.Shutdown` comes
last; requests that are under way go on while it drains, and after five seconds `main` exits whatever they do (`Exit`).
`Crash` may come at any point. Both lose the memory (`LoseMemory`) and leave processes, pid file, rules and the saved
configuration; a core without its controller is reaped by init (`ReapOrphan`).

### Subscription

`subs` is the parsed `subscriptions.json`, a function from the listed ids; `files` is the directory of provider
files. A request brings its input to the mutex (`Call...`), is refused or loads (`Refuse`, `Load...`), and then takes
one step per file operation: `Unlink`, `WriteFile`, `Open` (which truncates) and `Write`, `Remove`; `FetchSucceeds` and
`FetchFails` stand for the download in between. Every write may fail and the controller may crash anywhere; each such
*mishap* is counted. The scheduler is a thread like the others, except that it works off the list it read
before it released the mutex. An operation reads the list once and writes the record it has computed into what it
read (`loaded`); while it holds the mutex that is the list. Others do write these files without the mutex: the file API and
SyncProvider write provider files (handler/mihomo/files.go:939-958), and the restore of a backup writes them and
subscriptions.json (service/backup/service.go:459-508). They are not in the model, and what is said below of the files is
about the service alone.

Names and filenames are compared up to case, as `validate` does with `EqualFold`, so they are values here. An
empty filename is one value more: `normalizeFilename("")` is `"..yaml"` (Go's `filepath.Base("")` is `"."`), so the
code's branches for an empty normalized filename never run. Times are reduced to what the scheduler asks of them:
never, recent or old success. Time passes (`Expire`) only while the mutex is free; inside, nothing compares times.

`SubscriptionStore` has one action per operation (`StoreCreate`, `StoreUpdate`, `StoreDelete`, `StoreRefresh`) and
`StoreLose` for a list that is lost while it is being written. The refinement mapping shows its records as what the
file says, id by id, and `readable` as whether the file parses. Only `Write`, `Open` (while the file is cut short,
its content is lost until it is written) and a crash change them; everything else stutters.

### The pages

All page modules are built alike. The page's state has the names of its `useState` variables. A handler runs from
one await to the next in one step, so that an input is an action (`HandleSave`, `OpenEdit`, ...), the server's work
another (`Serve...`), and the answer a third (`...Answered`). What the handler captured and what the answer carries travel
in the call's record, since nothing orders answers; a page has `Slots` calls under way at most. A call that fails
(`...CallFails`) does so before or after the server acted. Another window is one action (`OtherWindow`, `Elsewhere...`).
Inputs and mishaps (failures and other windows) are counted up to a bound.

| Module | What is kept | What is left out |
|---|---|---|
| `ConfigEditor` | tabs (file, text, saved text, mark), active tab, what validation last said of a name, active config of the page and of the server, the core's need of a restart, dialogs | the lists of files: a file may be clicked that the server no longer has; the diff view |
| `Profiles` | rows, selected row, editor and whose settings filled it, busy flags, the store | the search, the proxy counts |
| `Settings` | for each of three settings its value under either spelling: in the page, in the saved text, in the raw text, in every call; what Go decodes of it | all settings that behave like one of the three |
| `Providers` | files, rows, preview, dialog, the one busyAction, two loading flags | texts of files, the list of failures of a sync |
| `Backup` | working files, numbered archives, rows, dialog, four loading flags; packing and restoring file by file, the mutex, a first backup that fails or whose archive loses what was buffered (the errors of closing it are ignored, backup/service.go:105-107) | the figures of the status, two backups within one second |
| `RemoteSync` | the mutex, the targets pressed last | what the server of a target answers |
| `Connections` | the core's connections by id, those closed from here, rows, selection, dialog, three busy flags | search, filter, sums, traffic |
| `UnlockTest` | of each target whether it is shown as PROBING, loading flags; the probes of a call still to be made | verdict, region, what a probe asks; the branches for answers that the service does not give (unlock-test/page.tsx:85-87, :113): it answers a run of all targets with an array and one of a target with an object |
| `LogStream` | every socket and every timer with its source, the two references, mountedRef, the state shown | lines, backoff times |
| `CoreStatus` | what each hook shows, polls under way, the last good status, the button held; a Start or Restart kills in one step and starts in another, so that polls see the core stopped in between, or stopped for good | uptime and the rest of the status |

The spellings of the keys of the Settings page deserve a word. The page works on Pascal keys, Go's tags are snake keys, Go's decoder
ignores letter case but not underscores. `Normalize` (what a load makes of an answer), `Serialize` (what a save
makes of the page's object) and `Decode` (what Go finds in a body) are translated separately, and
`HandleRawSave` lets the user type either.

`MCWeb` and `MCWebLive` are disjunctions: `App.tsx` mounts one page at a time, and a page that is not mounted has no state. The
pages share one run so that each has its own inputs and one set of bounds; nothing passes from one page to another but
through the server, whose state is arbitrary when a page is opened (`OtherWindow` and the initial states).

## 3. Runs

| Run | Instance | Shows |
|---|---|---|
| `lifecycle_single` | 1 client, 2 process names, modes none / TPROXY, sysctls, no watchdog; the pid file may resist its removal | what answers promise: `StopEndsTheCore`, `FailedChangeIsRolledBack`; `ZombiesAreReaped` |
| `lifecycle_windows` | 1 client and the watchdog, 2 process names, mode none, the same fault; every interleaving | `EveryCoreIsWatched`, `CoresNeedOpenWindows`, `PidFileFollowsCore` |
| `lifecycle_rollback` | 1 client, modes none / TUN | **violated**: `FailedChangeLeavesNoRules` |
| `controller_shutdown` | `main` and 1 client, modes none / TUN, OpenWrt's fw4, 3 external events | `SerialStartsKeepOneCore`, `QuietExitIsClean`, `BootServes` |
| `controller_exit` | the same, mode TPROXY, neither fw4 nor sysctls | **violated**: `CleanExit` |
| `subscription_store` | 1 client and the scheduler, 2 of each of ids, names, URLs, files; 1 mishap | `UniqueNamesAndFiles`, `OnlyUpdatesChangeSettings`, `HealthyMeansFile`, and the refinement `ImplementsStore` |
| `subscription_scheduler` | the same with 1 URL, no mishaps, fairness | `DueIsFetched` |
| `web_pages` | each page with 2 calls under way, 3 to 5 inputs, 1 mishap | `CleanIsStored` (editor, settings); `SavesAreApplied`, `NoNewInvalidConfig`, `AnswersKeepDrafts` (editor); `RestoreCanBeUndone` (backup); `PagesComeToRest` (the pages that list) |
| `web_live` | 2 sockets or timers, 1 switch, 2 outages; 2 hooks with 2 polls each, 1 button pressed, the page left at any time, 1 mishap | `LiveMeansOpen`, `NothingOpensAfterUnmount`, `StreamComesBack`; `ShellShowsTheCore`, `StatusCatchesUp` |
| `backup_sync` | 2 targets, 2 presses | **violated**: `SyncIsAnswered` |
| `logs_cleanup` | 2 sockets, 1 switch, 1 outage | **violated**: `CleanupClosesSockets` |
| `settings_gate` | 2 inputs, nothing fails | **violated**: `SavedBypassIsValid` |

**Why the bounds are enough.** A second process name lets a core be started while the old one is a zombie or
its goroutine is still about to remove the pid file, and lets two cores run at once; a third would only repeat that. One client
with the watchdog and the waiters already gives three threads at work, two of them in a Start. Without the watchdog a client is
alone with the waiters, so what it is answered must hold; with several clients the answers of one are no longer about the state the
other left, which is why those properties are checked there. TPROXY is the mode with the most marks. Three events at the
controller suffice for a crash during a Start, a reboot onto the orphan and a shutdown. A clash of names, a rename into a file
just freed, and an update under the scheduler's feet each need two subscriptions. One mishap is enough because
after a mishap the store is in a state that requests also meet without it, except for torn and lost files,
which one mishap produces.

For the pages: two calls under way are what it takes for one answer to overtake another. Five inputs in
the editor are: open, open, edit, save, and one more in between; three in Profiles are: refresh, edit, submit. Two configs let a
tab be switched under an answer. Two texts that differ in whether validation accepts them, and the empty text of a
new file, are all the code tells apart. Three inputs on the tests are one test of each target and TEST ALL. Two backups are kept
of four that may be made, so that retention deletes, and five inputs let a restore run while backups are made and deleted.
One switch gives the log page two sockets at once, which is as many as share a reference; two
outages let the backend go and come back.

**What the properties except.** No run and no theorem about the pages assumes anything of the user: people type during a save, press
while other calls are under way, leave pages, and have other windows. Where the code does not keep a promise in some
case, the property names that case and holds of all the others:

- `CoresNeedOpenWindows`. Nothing keeps two Starts apart, so two cores may run, although a single core is the purpose that
  mihomo_service.go:98-99 gives killall ("to prevent socket/port 9090 binding conflicts"): both call killall, then
  both spawn. `lifecycle_windows` reaches this with the client's Start and the watchdog's. What holds is that one core more takes
  one Start more between its killall and its spawn, however many operations overlap, and where kills do not fail.
- `PidFileFollowsCore`, `SerialStartsKeepOneCore`: while no two Starts have overlapped, the pid file names no process but the
  core that runs. It may name none: a waiter of an older core removes the file whichever process it names
  (mihomo_service.go:115), and a core killed by a Stop counts as crashed when it is reaped after the next Start (:106). Both
  are in the model, and no property excludes them.
- `StopEndsTheCore`: sysctls may stay, since of two Starts without a Stop the second remembers what the first has set
  (nftables.go:27).
- `FailedChangeIsRolledBack`: a change whose Stop fails and leaves a process that answers signal 0 returns without a rollback
  (mihomo_service.go:317-320), and keeps the new routing.
- `QuietExitIsClean`: fw4 rules and sysctls of a process that crashed, or forgot them, may stay (tun.go:748).
- `CleanIsStored`, `NoNewInvalidConfig`: the answer of a put marks the tab clean with whatever it holds by then
  (config/page.tsx:425), and since the validity remembered for the tab is that of the text that was checked, a second Ctrl+S puts a
  text typed in between without a check, against config/page.tsx:860, "Config saves are guarded by validation". The history variable
  `unsent` collects just these texts. `settingsUnsent` does the same for an edit of the settings during their save
  (settings/page.tsx:365).
- `RestoreCanBeUndone` speaks of what the backup before a restore has packed: the handlers ignore that it failed
  (handler/backup/backup.go:163), and the service that closing the archive did. It is taken away by the user, who may delete it
  while the restore is under way (backup/page.tsx:232-243), by its age, or by `MaxBackups` later ones.

**What the code does and no property states.** The editor of a profile sends its form to the row that is selected when it is submitted,
and the answer of a refresh selects another one under the open editor (profiles/page.tsx:284). The dashboard's switch writes
back the whole configuration that was read when the page was opened, and so undoes what another window or a save still under way has
stored since (page.tsx:123). Rows of the Providers and Connections pages, and results of the unlock test, may be those of an
older answer that came last (connections/page.tsx:151, unlock-test/page.tsx:155): a closed connection may be listed again, its
Close button included. A Start may answer ok without TPROXY's policy routing (nftables.go:126). All of it is in the models; the
repository does not say otherwise, and what could be stated would hold only of people who wait.

**Deadlock** is checked except where the number of events is bounded, so that the system may come to
rest: the two controller runs, the pages, the live parts and the three violated runs of the interface.

**Fairness.** `Lifecycle`: a goroutine that can take a step does (`WF` of its steps and of each waiter's). Calls and
deaths of cores are not fair. `Controller`: the same for `main`'s own steps; signals and crashes are not fair. `Subscription`:
`WF` of the steps under the mutex, since each is a bounded system call or a download limited to 30 s; `SF` of taking
the mutex and of the scheduler's tick, since Go's `sync.Mutex` hands over to a waiter after a millisecond
(starvation mode), so a goroutine is not passed over for ever. Fetches are free to fail every time. `LogStream`: timers run off, and a
socket that can open, be served or close does so; the backend's outages and the user are not fair. `CoreStatus`: the
interval ticks, calls are served and answered; failures are not fair. `RemoteSync`: strong fairness of the mutex again, which is
what makes the counterexample a deadlock and not an unlucky schedule. `web_pages` checks safety only: that a
page comes to rest is stated as what holds when its calls are over.

**Disagreements found.**

1. `lifecycle_rollback`: a change from no routing to TUN whose SetupRouting fails midway is answered as rolled
   back, but the rules it had installed stay. The rollback's Stop returns early because Start has removed the pid
   file (mihomo_service.go:208-212, 237-240); the cleanup at :291 is never reached. CHANGELOG.md:117 announces
   transactional routing with post-failure rollbacks.
2. `controller_exit`: the last CleanupAllRouting (main.go:173) comes before `server.Shutdown` (main.go:180). A Start
   under way, or one requested in between, installs rules after it. README.md:46 promises clean tables on exit.
   `QuietExitIsClean` shows how far the promise holds: without a Start in that window, and if the cleanup reaches the kernel,
   none of the service's own tables is left. fw4 rules are left after a crash, and forgotten sysctls are.
3. `backup_sync`: SyncToRemote holds the service's mutex and calls ListBackups, which locks it (service.go:581, :135). A
   sync without a filename, the only one the page sends, is never answered, and no backup of that handler
   is answered after it.
4. `logs_cleanup`: after a switch of the source the old socket's `onclose` takes itself for a lost connection
   (use-logs.ts:89) and connects again; the page's cleanup closes one of the two sockets. hooks/codemap.md:15 says that it
   closes the socket. What is true: no *new* socket is opened after the page is left (`NothingOpensAfterUnmount`).
5. `settings_gate`: the Settings page sends the routing for validation under keys that Go does not find for the bypass
   lists, so that check 0 of ValidateRouting sees empty lists, and the malformed list is saved. The constant `Unhurried`
   keeps the run to a user who waits for that validation, so that the gate is not merely passed early; `web_pages` does not
   assume it.

The overlapping Starts and the unchecked second save, described above, are disagreements with comments of the source as well. They
have no violated run of their own, since the properties that name them as exceptions already reach them. Also seen: after a crash
of the controller the boot removes the rules of a core that survived, and RestoreState does not install them again
(main.go:92, mihomo_service.go:359).

## 4. Proofs

TLAPS checks every theorem below for any sets of callers, processes, routing modes, ids, names, files, texts, sockets, hooks,
connections and targets, and any number of calls, mishaps and inputs, from the named assumptions on the constants and the
hypotheses given. Every invariant and every action property of the passing runs is stated by one of them.

| Theorem | Statement | Hypothesis |
|---|---|---|
| `TypeCorrect`, `CoresAreWatched` | `Spec => []TypeOK`, `[]EveryCoreIsWatched` (Lifecycle) | |
| `CoresAreBounded`, `PidFileIsTheCore` | `Spec => CoresNeedOpenWindows`, `PidFileFollowsCore` | kills do not fail |
| `StopsEndTheCore`, `FailedChangesAreRolledBack` | `[]StopEndsTheCore`, `[]FailedChangeIsRolledBack` | `[]SerialOperations` |
| `LoneClientIsSerial` | `Spec => []SerialOperations` | one caller, `~OnCrash` |
| `ControllerTypes` | `CSpec => []CTypeOK` | |
| `OneCoreAcrossBoots` | `CSpec => SerialStartsKeepOneCore` | kills and removals of the pid file do not fail |
| `QuietExitsAreClean` | `CSpec => QuietExitIsClean` | in the property |
| `BoundedIsController` | `MCSpec => CSpec` | |
| `SubscriptionTypes`, `NamesAndFilesStayUnique` | `[]TypeOK`, `[]UniqueNamesAndFiles` (Subscription) | |
| `SettingsAreTheUsers`, `HealthyHasItsFile` | `OnlyUpdatesChangeSettings`, `HealthyMeansFile` | |
| `ServiceImplementsStore` | `Spec => ImplementsStore`, that is `Store!StoreSpec` under the refinement mapping | |
| `SavesReachTheCore`, `DraftsAreKept` | `EditorSpec => []SavesAreApplied`, `AnswersKeepDrafts` | |
| `CleanTabsAreStored`, `SavesAreChecked` | `EditorSpec => []CleanMeansStored`, `NoNewInvalidConfig` | |
| `CleanSettingsAreStored` | `SettingsSpec => []CleanSettingsStored` | |
| `RestoresCanBeUndone` | `BackupSpec => []RestoreCanBeUndone` | |
| `ProfilesAreReleased`, `ProvidersAreReleased`, `TestsAreReleased`, `BackupsAreReleased`, `ConnectionsAreReleased` | what each page contributes to `[]PagesComeToRest` | |
| `ProfilesTypes`, `EditorTypes`, `SettingsTypes`, `ProvidersTypes`, `UnlockTestTypes`, `BackupTypes`, `ConnectionsTypes` | the types of each page | |
| `WebRunsThePages` | `WebSpec` implies the specification of each page that has its list from the beginning | |
| `WebTypes`, `WebCleanIsStored`, `PagesAreReleased`, `WebRestoresCanBeUndone`, `WebSavesReachTheCore`, `WebSavesAreChecked`, `WebDraftsAreKept` | `WebSpec` has `[]WebTypeOK`, `[]CleanIsStored`, `[]PagesComeToRest`, `[]RestoreCanBeUndone`, `[]SavesAreApplied`, `NoNewInvalidConfig`, `AnswersKeepDrafts` | |
| `LogTypes`, `LiveIsOpen`, `LeftPageIsQuiet` | `LogSpec` has `[]LogTypeOK`, `[]LiveMeansOpen`, `NothingOpensAfterUnmount` | |
| `StatusTypes`, `TheFrameShowsTheCore` | `StatusSpec` has `[]StatusTypeOK`, `[]ShellShowsTheCore` | |
| `WebLiveTypes`, `WebLiveShowsWhatIs`, `WebLiveLeftPageIsQuiet` | the same of `WebLiveSpec` | |

**Hypotheses.** "Kills do not fail" is `"kill" \notin Faults`, and so on: `Faults` is a constant, and every theorem without such a
hypothesis holds whatever fails. `SerialOperations` is about behaviours: no two operations overlap. Status polls, cores that die and
the goroutines that wait for them overlap everything all the same. The premises `[]SerialStarts`, of `PidFileFollowsCore` and
`SerialStartsKeepOneCore`, and `[]QuietDrain`, of `QuietExitIsClean`, are part of the properties. The theorems about pages have no
hypothesis.

The named assumptions on constants say that things are of their kind and that names are not confused: `NoProc` is no process and callers are no
processes, callers and process names are finitely many, `{}` is among the routing modes, the bounds are numbers, the store starts with
records of its type, an empty text is not a valid one, at least one backup is kept and one may be made.

*Cores are watched.* `IWatched` adds what a thread between spawning and registering knows: its process has no
waiter yet and belongs to no other thread. A step either leaves this alone (`WatchedNeutral`), spawns into a free
name, hands the process over, or reaps it. There is no assumption on how operations overlap.

*Cores need windows.* For each n, `Bounded(n)` says that the cores that are alive and the Starts in the window between killall and
spawn are n at most, together. A step takes from both (`WindowStays`), kills every core (`WindowOpens`: killall, when a Start enters the
window), or turns a Start in the window into a core (`WindowCloses`). With at most n Starts in the window ever, the sum stays within n:
killall leaves nothing of it but the Starts. No assumption on how Starts overlap is needed; that killall kills is.

*One core.* `AtMostOneCore` is not inductive: that killall leaves no core matters only together with who may spawn.
`IOneCore` says that while a Start is between its killall and its spawn nothing is alive, that whoever has
spawned and not returned owns what is alive, and what the pid file names meanwhile. It is inductive under `SerialStarts`.

*Answers.* An answer is about steps long past, so `ISerial` says at every label what the operation knows by then (`Knows`, of a
label, a frame and the state): after the kill of a Stop nothing is alive; before its cleanup its frame has the routing that is
configured, and after it the kernel holds nothing but sysctls; after the rollback of a change the previous routing is configured
again, in memory and on disk. That the kill reaches the core is `IOneCore`, that the goroutine a Start leaves behind is another thread
is `IWatched`, and that the cleanup reaches the fw4 rules is `IKernel`: within the life of one controller they are never there without
TUN's table and the flag. A thread that is under way excludes every other one by `SerialOperations`, so that the rest is
`Quiet`: it changes neither configuration nor kernel, makes no core alive and at most removes the pid file, and what is known survives this.

*Controller.* `ControllerSteps` sorts its steps: most are steps of the service, the others lose the memory or leave every
thread where it is. Types and `IOneCore` survive both, since a thread that is gone is not in a Start, and neither main nor the
system makes a core. For the exit `IExit` says that the kernel holds no more than what the platform has outside the tables once main
drains, and that nothing runs once it has exited: of all steps only those of a Start install rules, and `QuietDrain` excludes these.

*Subscriptions.* `Inv` states what a goroutine knows: whoever is past the lock holds it (`Holds`), the record it is about to write
still fits the list (`Fits`), an id it looked up is still listed (`Listed`), a refresh carries the settings of
the list (`KeepsSettings`), and the id of a new subscription is not listed and not another creator's (`Creates`,
`CreatorsDiffer`); the list it has read is still the list (`Reads`). `Bystander` shows once that a step of the holder disturbs nobody else; then one lemma per
group of steps shows what the one who moves knows afterwards.

*Healthy.* An earlier failure may have lost the file of a subscription, but whoever records `healthy` has just written it (`Wrote`).

*Refinement.* A step of the service changes the records only when it writes the list. `SInv` adds to `Inv` what the abstract
operation needs and the concrete one no longer looks at when it writes: the list still parses while an operation is
under way, a created subscription is a draft, an update keeps the status, a refresh brings `healthy` or `error`.
`WriteOperates` then shows, operation by operation, that a write is the abstract action, `LosingLoses` that a cut or
crashed list is `StoreLose`, and `SameRecords` that the rest stutters.

*Editor.* Several tabs may show one file, and a file may be saved, checked, reloaded, edited and closed at once. A tab is sound
(`CleanTab`) if its saved text, and its text while it has no mark, are among those the server was read or stored with or those an answer
marked (`Marked`), and a call is sound (`SoundCall`) if what it carries is, and if what it is about to put was accepted or had
been read (`GuardedPut`). `Marked` only grows, so that a tab and a call stay sound while others move (`MarkedGrows`). The answer of a put
marks every tab of the name with what it shows by then: either the text that was put, or one that this step adds to `unsent`. Closing
tabs renumbers them, which is why `Kept`, the filter of the tabs, is defined by places and has lemmas of its own (`Rank`, `Place` and
after). `SavesAreApplied` is simpler: whatever sets `unapplied` has the restart still due (`Restarts`), and no answer, refused or
failed, loses it.

*Settings.* Between the page, a call and the file an object changes its spelling three times. What is kept is what the object shows in each
spelling (`Displayed`), with lemmas that normalizing, serializing and decoding preserve it; `CleanIsSeen` is
the property for the page on show, and `SettingsCallsSound` that what a call carries has been seen.

*Pages that list.* A flag has a call under way whose handler takes it down (`...FlagsHeld`), hence nothing is held when no call is
under way.

*Backups.* That the backup of a restore is kept (`KeepsUndos`) is inductive with two facts: one backup is made at a time
(`PackingAlone`, the mutex), so its number is free, and the number of every call is of a backup already made (`BackupCallsSound`). The
retention takes the oldest, so it reaches the backup of the restore only when `MaxBackups` later ones have been made. Restores,
backups and deletions may run beside each other as they like.

*Log stream.* `LiveMeansOpen` is inductive with the type invariant: `connected` is only set by the socket that is then
open, and a socket leaves `open` or `live` only in a step that sets another state. That holds with any number of
forgotten sockets, because every `onclose` sets the state, whichever socket the page now counts as its own.
`LeftPageIsQuiet` needs no invariant: each step that gives a stream a socket is guarded by `streamMounted`.

*Status.* The frame shows `lastGoodStatus` as soon as there is one. `ShellInv` says that as long as the core has not
changed since the page was opened, every answer under way, everything a hook shows without an error, and the last good
status are what the core is. A failed poll breaks none of this, because it comes with an error.

*The pages together.* A step of `MCWeb` is, of each page, a step or none (`StepsOfThePages`), and being unmounted is one of the
initial states or a state the invariant admits: so what is proved of a page holds of it in the whole. `MCWebLive_proofs` does the same.

Only model-checked: liveness (`ZombiesAreReaped`, `BootServes`, `DueIsFetched`, `StreamComesBack`, `StatusCatchesUp`), which
TLAPS cannot prove, and the five violated properties, which are no theorems. The two promises of an answer are false
without `SerialOperations`: with two clients one undoes what the other is being told.

## 5. Not modelled, and the plan

Proofs to come, in this order:

1. An abstract specification of the lifecycle (a core that runs or does not, with the rules of a routing) and, under
   `SerialOperations`, the refinement of it, of which the two theorems about answers are consequences.
2. The same two promises across a crash of the controller: a boot removes the rules, so what an answer said before is over.
3. The provider pages and the service together: `Profiles` over the store of `Subscription`, through the refinement.

Modules to come:

1. `RoutingHealth` - the health check and scheduled restart (mihomo_service.go:642-748): a result that arrives after
   a stop and a start is kept, against the comment at :723.
2. `Routing` - SetupRouting and CleanupAllRouting address family by address family, with `withConn`'s shared connection
   (nftables.go:87) and a failure at each netlink call; `Lifecycle`'s set of marks is its abstract specification, to be
   connected by a refinement mapping.
3. The CIDR merge (tproxy.go:704-782) as a recursive function against the union of intervals.
4. The file manager with auto_restart on, and two windows renaming the active configuration.
5. The offsets of a log that grows and is truncated while it is tailed.
6. A torn configuration file in `Controller`.
7. The writers of the subscriptions' files that do not take their mutex: the file API, SyncProvider, a restore.

Not modelled, and not planned: the converter, DNS lookup, diagnostics, middleware, logger and
packaging, and the pages that show what one call answered. They keep no state over time that a model would say more
about than their tests do; `PROJECT.json` gives the reason for each.
