# A TLA+ verification of feathers

feathers is the Windows port of Pterodactyl Wings, the daemon that runs game
servers on a node for a panel.  This directory holds TLA+ modules that model
parts of it, the TLC runs that check them on small instances, and theorems that
TLAPS proves for every value of the constants.  Paths below are relative to
`src/feathers/`.  `PROJECT.json` lists the components, the runs, the hazards, the
theorems and, under `map`, the source lines each definition stands for.

    tlc -workers 2 -config PowerSafety.cfg MCServerPower
    tlapm ServerPowerProofs.tla

## 1. The system

### Components

| component | state | operations | speaks to |
|---|---|---|---|
| power actions (`server/power.go`) | the power lock of a server | `HandlePowerAction`: start, stop, restart, kill; `onBeforeStart` | environment, panel client, filesystem |
| Windows environment (`environment/winproc`) | `st`, `job`, `cmd`, `procHandle`, `stdin`, `lastExit` | `Start`, `Stop`, `WaitForStop`, `Terminate`, `wait`, `SendCommand`, `Destroy`, `Attach` | Windows (processes, Job Objects), event bus |
| state events and console scanner (`server/server.go`, `server/listeners.go`) | `resources.State`, the disk limiter | `OnStateChange`, `onConsoleOutput` | event bus, environment, crash handler |
| crash handler (`server/crash.go`) | time of the last crash | `handleServerCrash` | power actions |
| configuration sync (`server/update.go`) | the server's configuration | `Sync`, `SyncWithEnvironment` | panel client, environment |
| disk quota (`internal/ufs/fs_quota.go`, `server/filesystem/disk_space.go`, `quota_file.go`) | `usage`, `limit`, `fs.mu`, `lookupInProgress`, `lastLookupTime` | `Add`, `CanFit`, `reserveDisk`, `adjustDisk`, `DiskUsage`, `updateCachedDiskUsage` | file operations |
| file operations, archives (`server/filesystem`) | the files | `Touch`, `Write`, `Copy`, `Delete`, `CompressFiles` | disk quota |
| SFTP (`sftp`) | sessions, permissions, open handles | authenticate, `Filewrite`, `WriteAt`, `Close`, ... | file operations, context bag |
| power lock (`system/locker.go`) | a channel of capacity one | `Acquire`, `TryAcquire`, `Release`, `Destroy` | |
| event bus, sinks (`events`, `system/sink_pool.go`) | a list of channels | `On`, `Off`, `Push`, `Destroy` | every listener |
| rate limits (`system/rate.go`, `server/console.go`) | count and time | `Try`, `Reset` | console, websockets |
| context bag, websockets (`system/context_bag.go`, `router/websocket`, `router/tokens`) | contexts, connections, the denylist | open, cancel, authenticate, push | event bus |
| manager, persisted states, recovery at boot (`server/manager.go`, `cmd/root.go`) | the list of servers, `states.json` | `Add`, `Remove`, `PersistStates`, boot | everything |
| deletion (`router/router_server.go`) | | `deleteServer`, `CleanupForDestroy` | power lock, environment, files |
| installation (`server/install*.go`) | `installing` | `Install`, `Reinstall` | panel client |
| backups (`server/backup*`) | `restoring`, `suspended` | create, restore, delete | files, panel client |
| transfers (`server/transfer`, `router/router_transfer.go`) | `transferring`, the status of a transfer | push, receive, cancel | two nodes and the panel |
| panel client (`remote`) | | requests with retries | the panel |
| cron jobs, activity (`internal/cron`) | the table of activities | collect, send, delete | panel client |
| daemon configuration (`config`) | the global object, its file, the signing key | read, update, write, set | the panel |
| downloads (`router/downloader`) | downloads by id and by server | start, cancel, progress | file operations |
| sandboxed file system (`internal/ufs`) | directories, links, descriptors | resolve a path, open, rename, remove, walk | file operations, archives, SFTP |
| accounts (`environment/winproc/account.go`, `impersonate.go`) | password and token of each server's account | provision, impersonate | Windows |
| docker environment (`environment/docker`) | as the Windows one | the same interface | docker |

### What is hard

* Power requests come from the API, websockets, schedules, the crash handler and
  the configuration sync.  Starts, stops and restarts take the power lock; a kill
  goes on without it, and the disk limiter and a suspension call `WaitForStop`
  without it.
* The environment changes its state and publishes it; the listener handles every
  event in a goroutine of its own, which reads the *current* state, not the one
  that was published.
* `wait()` notices the end of a process some time after Windows does, while
  `IsRunning` asks Windows at once.
* The usage of the disk is an atomic counter that SFTP handles reserve from under
  a lock, that uploads, copies, archives and deletions change without it, and
  that a lookup overwrites with what it found on the disk.
* Everything a server says goes through pools of channels: a push starts a goroutine
  for each channel, listeners come and go, and a deletion closes the channels.
  Connections are opened and authenticated while others cancel them.
* Install, restore, transfer and suspension are flags that handlers test and set,
  that goroutines clear on many error paths, and that power actions read before
  they wait for the lock.  A deletion takes the lock and the context away from all.
* The panel believes what it was told.  A report may be lost, or only its answer; a
  node may die between the work and the report, and between the report and what
  follows it (the deletion of files, of rows, of an archive).
* A server's process works in the directories the daemon works in: between any two
  system calls of an operation it may put a link in place of a directory.

### What makes each component correct

Power: one action at a time, at most one process, a kill reaches it, every
action ends, every end is noticed.  Disk: the accounted usage stays within the
limit, covers what the files take, is exact at rest, and is set right by a lookup
after anything else.  Events and websockets: a push ends and panics on no closed
channel, messages arrive in order, a suspended or deleted server serves nobody, a
denied token stays in use nowhere.  A server's life: one installation at a time,
flags that stand exactly as long as the work, no error path that leaves the server
locked, no launch of a server the start was told is suspended unless somebody else
lifted the suspension, a deletion that ends everything.
Transfers: the ordinary files are where the panel believes the server to be, and a
failed or cancelled transfer gives the server back.  Backups: disk and panel part
only by a failed removal or a lost answer, an upload is the archive.  Activity: no entry is lost, every entry is sent in the end.
Daemon: a reboot brings servers back as they were; it runs what is on disk.
Docker: one reader of the console, a restart that restarts.  Files: nothing
outside the server's directory is read or changed, and the descriptors that are left
open are known.  SFTP and
downloads: every session can be ended, every slot is given back.

## 2. The modules

| module | models |
|---|---|
| `WinProc` | the Windows environment: the steps of `Start`, `Stop`, `WaitForStop`, `Terminate`, `SendCommand`, `wait` |
| `ServerPower` | extends it with the server layer: lock, `HandlePowerAction`, `onBeforeStart`, state events, crash handler, console scanner, stops outside the lock; states the properties |
| `PowerContract` | the abstract specification of the power actions |
| `ServerPowerProofs` | theorems about `ServerPower` |
| `QuotaMath` | `Quota.Add`, `Quota.CanFit`, `HasSpaceAvailable` and `quotaWriteEnd` on wrapping integers, against exact arithmetic |
| `DiskQuota` | the file operations of one server, the lookups and the usage they share |
| `QuotaMathProofs`, `DiskQuotaProofs` | theorems about the two |
| `SinkPool` | `system.SinkPool`, which the event bus and the sinks are: `On`, `Off`, `Destroy` and the goroutines of `Push` |
| `Websocket` | extends it with the connections of a server: `getServerWebsocket`, the auth message of `HandleInbound`, `listenForServerEvents`, `WebsocketBag`, and what suspends, deauthorizes and deletes |
| `WebsocketProofs` | theorems about both |
| `Lifecycle` | what happens to one server besides its power actions: creation, installation, restoration, sync, deletion, with the flags, the context and the channel of `system.Locker` they share |
| `LifecycleProofs` | theorems about it |
| `Transfer` | a transfer: `postServerTransfer` and `PushArchiveToTarget` on the source, `postTransfers` on the target, the panel |
| `Activity` | the activity log, its two cron jobs and the panel client's retries |
| `DeliveryProofs` | theorems about `Transfer` and `Activity` |
| `Backups` | one backup: `Server.Backup`, the local and the S3 adapter, the upload in parts, its report and its deletion |
| `Daemon` | boot, `PersistStates`, `ReadStates`, crashes of the daemon |
| `NodeConfig` | the daemon's configuration in memory and on disk, `postUpdateConfiguration` |
| `Docker` | the Docker environment: container, stream, reader, power actions |
| `FileTree` | the Unix build's sandboxed file system, and every request of the API, of SFTP and of archives on it |
| `FileTreeProofs` | theorems about it |
| `Sftp` | sessions, their permissions and the context bag |
| `Downloads` | remote downloads: the two caches, the limit, cancellation |
| `NodeProofs` | theorems about `Sftp`, `Downloads`, `NodeConfig`, `Docker`, `Backups` and `Daemon` |
| `MCServerPower`, `MCDiskQuota`, `MCWebsocket`, `MCLifecycle` | symmetry, which goroutine works on which file, which message belongs to which connection, buffers |
| `MCEnds`, `MCNode` | compositions of components that share no state |

### Power

A goroutine is an element of `Users`, `Stoppers`, `Handlers` or `Consoles`, and
`pc` says which step it takes next.  A label stands where another goroutine may
run: what lies between two labels holds `e.mu` or touches one shared word.
`SetState` (compare, store, publish) is one step, in which an event finds an idle
element of `Handlers`; that element becomes the goroutine of the event, and of the
crash handler and its start when it comes to that.  With `Handlers = {}` nobody
listens.  With two handlers two events can be handled in either order; a third
event waits for one of them, which bounds the model and not the code.

`Procs` and `Jobs` are recycled as Windows recycles process ids and handles: a
handle that `Terminate` copied may be closed when it is used, or name the next job.
A process is `alive`, `asked` (the stop command was written), `exited` or `killed`,
then `reaped` by `wait()`, which sets the state to offline in a later step.
`Failures` names the calls that may fail in an instance: the pre-boot checks,
`Create`, the launch, `OpenProcess`, the assignment to the job, the write to
stdin, `TerminateJobObject`; `"exit"` lets a process end by itself.  A local
variable that is not read again is set back to its first value.  The deadline of
`WaitForStop` may pass at any poll, and `TryAcquire` may give up at any time.

### Disk quota

A goroutine works on the file `Target` gives it and repeats its operation: an
SFTP handle (`Filewrite`, any number of `WriteAt`, `Close`), `Write`, `Copy`,
`CompressFiles`, `Delete`, or a background lookup.  A file that does not exist has
size 0.  The system is the Windows build: a file with an open handle cannot be
removed, and an archive is still open when `CompressFiles` tries to remove it.
The many writes of one copy or archive are one step that may be cut short; the
writes of an SFTP handle are separate, at any offset, and may be short too.
`reserveDisk` takes `fs.mu` for its check and its addition, which are two steps,
because uploads, copies, archives and deletions change the counter without the
lock.  A walk visits the entries one at a time; one that vanished ends it, and the
partial sum is stored as fresh, as in `updateCachedDiskUsage`.  `Checking` is a
`disk_check_interval` other than 0, without which there are no lookups; `Expiring` lets
the cached usage get old, `Playing` is a game server that writes its files itself and
may stop.
The limit is constant and the volume's own headroom is a possible refusal.
`MaxInt` stands for `math.MaxInt64`; every sum and negation wraps around.
`Total`, what the files take, is the number of their bytes, the pairs of a file and
a position below its size: a sum that needs no recursion.

### Events and websockets

The pool's lock is shared by pushes and exclusive for the rest: `pushing` is the set
of readers, and `On`, `Off` and `Destroy` need it empty.  `flying` holds the goroutines
of the pushes under way, each at its first send, at the drop after the 10 ms, or at
its last attempt.  A channel without a buffer hands a message from a sender to the
listener, or to another goroutine that makes room.  A closed channel yields at once,
which makes the listener of a deleted server spin until its context is done, as the
code does.

A connection is `track`ed in the bag before the suspension is `check`ed, `serve`d
until a read fails, then removed (`untrack`) and its context cancelled (`cancel`).  An
auth message and the listener that becomes of it go by one name, an element of
`Chans`; messages of one connection are handled concurrently, as in the code.  A
connection that is over is opened again under the same name when nothing of it is
left.  The token is `old` or `new` by whether it was issued before the
deauthorization; only the latest of the user's denials matters.  Messages other than
`auth`, the limiters, the expiry of tokens and their permissions are left out; what
they keep back counts as sent.  One pool stands for the bus and the two sinks.
`Environment.Destroy` may fail, and the deletion be asked for again.

### The life of a server

`Lifecycle` has a goroutine per request (`Powers`, `Installs`, `Restores`, `Deletes`,
`Syncs`).  A sync asks the panel in one step and replaces the configuration in
another, and the panel suspends and un-suspends the server meanwhile, so that an
older answer may replace a newer one.  An
install becomes, by its first step, `POST /install`, `/reinstall` or the creation of
a server; a restoration runs in its handler up to `Locate` and in its goroutine
from there.  The lock is the channel of `system.Locker`: `None`, the goroutine that
filled it, or closed; `panicked` says that a goroutine sent on the closed channel,
which ends the daemon.  `answer` is the suspension a start's own `Sync` was told, and
`overruled` the starts for which somebody lifted it before they looked, so that
`SuspendedNotLaunched` can compare both with what the code then reads.  An
installation ends in two steps: PowerShell ends or is killed (`ScriptEnds`), then its
output does (`StreamEnds`), which waits for every process that inherited the pipe.  The
inside of a start is that of `WinProc`, and the goroutine that stops a suspended server
is one of the ways in which `ProcessExits`.  Calls of the panel may fail, wherever the
code has an error path.

### Transfers, activity, backups

`wire` is how much of the multipart body has been sent (archive, checksum), or
broken; the target takes parts as they come and reports to the panel before it
answers.  Either node may be cancelled or die.  The panel is external: it may ask for
another attempt (`MaxAttempts`) while it knows no outcome, takes the
first report, and removes the server from the side that lost it.  A second request that
finds the transfer of the first on the target works on that one, as `postTransfers`
does.  The data of a server is ordinary files, files of the deny list, which
the extraction skips, and what no archive holds (empty directories, sockets, links that
cannot be read); the checksum is that of the stream and says nothing of these.  `stuck`
is the streaming goroutine that waits for ever to pass its error to a reader that left.

In `Activity` an entry is a row number; `Key` says which SFTP rows are merged.  A
job fetches at most `SendCount` rows a query, sends, then deletes in chunks; a query
may fail and the daemon die between any two of these (`MaxFaults`).  A request may be
taken and its answer lost: the rows stay and are sent again.

In `Backups` the archive is its number of bytes and a part the range of bytes the
endpoint took.  The body of a request is a reader on the file, and what a failed
attempt has read is gone: `left` is what a repeated request would still find.  Reading
the details of an archive and removing it may fail, whether the code looks at the
error or not (`kept`), and the answer to a report may be lost (`lost`).

### Boot and configuration

`Daemon` reads the servers page by page, skips those that cannot be set up, reads the
states file and brings the servers back one by one.  A save of the states reads them
one after the other and then writes; a crash or an error may leave the file empty, and
after an error the ticker goes on.  `expect` records, at a crash, what a server has to
come back as, from its process and its state at that moment; only whether it is as the
last written save had it is taken from the saves (`fresh`).

`NodeConfig` distinguishes the token of the file (`auth`) from the one requests are
checked against (`live`), as the code does (`Token` is not part of the panel's JSON).
`config.Get` copies the struct and not what its maps and slices refer to: `shared` is
what all copies have in common, and a request decodes into it before it writes.

### Docker

Every call of the Docker API is one step and may fail.  A reader of the stream sets
the state to offline and then clears the stream, in two steps, as the deferred
function does.  `ViaStops` is the stop configurations an instance has.  A stop looks at
the stream, stops the container and clears the stream in three steps.  Besides the
requests there are stops without the lock (`halt`), which the disk limiter, a suspension,
a reinstallation, a restoration and a transfer make; `missed` says that one of the stops
has cleared the stream of a live reader.

### The file tree

A directory is an object with named entries, a descriptor is the object it refers
to, and every system call is a step.  A path is resolved one component a step, by
the kernel (`openat2` with `RESOLVE_BENEATH`) or, without it, by following links and
asking afterwards where the descriptor leads, as `openat` does.  A request is a
sequence of operations (`Ask`): the handlers of `router_server_files.go`, SFTP, the
archives and the ownership and size walks are built of the same operations.
Between two steps the server's process may rename a directory or put a link in its
place (`MaxMoves`).  What an operation reads, lists, creates, moves or removes outside,
and the directory outside in which it does so, goes to `touched`; a directory outside
that is only opened, and the daemon's working directory when an archive reads a link
there, to `strayed`.  `fds` counts the open descriptors of directories and files, `leaked`
those of them that no code closes any more.

### Sessions and downloads

A session authenticates, takes its user's context from the bag and serves until its
client leaves or the context is done; a cancellation empties the bag.  A connection
whose channel has ended may open another one with the permissions it has, until it
disconnects.  `Downloads`
has both caches of the downloader and the two steps of a cancellation; the list of a
server's downloads is how often it names each, since nothing reads its order.

### Compositions

Components that share no state are checked by one run: in `MCEnds` and `MCNode` the
variable `focus`, chosen by `Init`, says which of them a behaviour is about, and the
others stand still.  The reachable states are the union, not the product, of those
of the components; each is explored as fully as it would be alone.

### The contract

`PowerContract` has two variables: whose start, stop or restart is carried out,
and whether the process exists.  It says that the actions are serial, that only
they launch the process, and only when there is none.  `ServerPower` maps
`current` to the holder of the lock, unless it is a kill, which may hold it too,
and `live` to the existence of a live process.

## 3. The runs

### Passing

| run | instance | states | shows |
|---|---|---|---|
| `power_safety` | 2 users, all four actions, 2 processes, 2 job handles, every failure but those of `OpenProcess` and of the assignment | 323 000 | `SingleInstance`, `RegisteredInJob`, the contract |
| `power_events` | 1 user who starts, 2 handlers, 1 console, processes that crash or exit cleanly | 2 590 000 | the lock and the single instance survive events, console lines and crash restarts in any order |
| `power_liveness` | 1 user who restarts and kills, 1 stop outside the lock, processes that may ignore the stop | 137 000 | `ActionsComplete`, `ExitNoticed` |
| `quota_reserve` | 2 SFTP handles and a deletion, 3 files of at most 2 units, limit 4 | 23 800 | `UsageWithinLimit`, `UsageCovers`; the arithmetic on all 4-bit integers |
| `quota_exact` | an SFTP handle, an upload, a copy and a deletion on 4 files, limit 3 | 289 000 | `UsageExact` |
| `quota_converges` | an SFTP handle, archives, a deletion, lookups and the game server, which may stop, on 2 shared files | 389 000 | `UsageConverges` |
| `websocket` | 1 connection with 2 auth messages, 1 buffered and 1 unbuffered channel, 1 pusher with 2 messages; suspension, deauthorization, deletion | 4 380 000 | `NoPanic`, `InOrder`, `SuspensionDisconnects`, `DeauthDisconnects` |
| `ends` | websockets: 1 connection, an unbuffered channel, 2 pushers; a transfer; 5 entries, 1 row a query and a deletion, 1 fault | 112 000 | `PushCompletes`, `DeletionDisconnects`, `CancelFrees`, `NoActivityLost`, `ActivityDrains` |
| `lifecycle` | 1 power action, 2 installs, 2 restorations, 1 deletion, 1 sync, of which 3 are made; suspensions by the panel | 685 000 | `InstallExclusive`, `NothingLeftLocked`, `RestoreHeld`, `SuspendedNotLaunched`, `DeletionEndsWork` |
| `node` | archives of 1 to 5 bytes in parts of 1 to 3; 2 servers on 2 pages and 2 crashes; 2 updates; 2 docker actions, 2 readers, a container found at boot and one created; a tree of 3 levels with a link, 1 move, both ways of resolving; 2 sessions of one user; 3 downloads; a transfer asked for twice | 2 620 000 | `UploadExact`, `DiskAgrees`, `PowerSurvivesReboot`, `RunsWhatWasWritten`, `OneReader`, `RestartIsFresh`, `Confined`, `DescriptorsClosed`, `SessionsReachable`, `SlotsFreed`, `NoDataLoss`, `FailureFreesSource` |

Why the bounds are enough: the lock and the registration are each disturbed by two
actors (one inside, one that kills, reaps or requests), and a third one repeats
what the second does; two processes are the one a restart ends and the one it
launches; two job handles let a copied handle be stale, one lets it be re-used.
Files of 2 units have a first and a second write, an overwritten and a fresh byte,
and a short write; the limit lies below what the files could take together, so
that refusals happen.  Two auth messages are what it takes to set a token over another
and to have two listeners; two messages can overtake each other, and two pushers
meet on a channel without a buffer.  Connections share only the bag, which the
theorems treat for any number.  Two installs and two restorations are what it takes
to overlap, and a third request of any kind what it takes to meet them.  Five
entries at one row a query have a merged pair on two pages, a single one, a plain
one and one with an unusable address.  Archives of up to 5 bytes in parts of up to
3 have whole, short and single parts, repeated or not.  One move of the server's
process is what it takes to replace a component between two system calls; a tree of
three levels has a component before, at and after the link.  Two crashes are a boot
that is cut short and the one after it.  Two attempts are what it takes for a transfer to
meet the rest of an earlier one.  In `node` the two docker actions are interchangeable
(`Alike`); no other set is, because servers are on different pages and names differ.

Deadlock is checked in the runs of power and disk, where a request may come at any
time, so that the system never has to stop.  In the others everything ends: with a
deleted server, a transfer or a backup that is over, or requests that are used up.

### Fairness

`power_liveness` assumes that each goroutine that has begun runs on, that `wait()`
runs when its process has ended, and, through the poll, that time passes.  The Go
scheduler, the operating system and the clock provide this.  Nothing is assumed
of users, of processes (which may ignore the stop for ever) or of the crash
timeout.  `quota_converges` assumes the same of goroutines, that the cached usage
gets old, and that somebody asks for it again while the server's process runs, since
its statistics do; nobody asks for the usage of a stopped server.  It assumes nothing
of users and of the game server: the property speaks of behaviours in which the server
runs on and writes come to rest.  `ends` assumes of the websockets that goroutines run;
that a waiting writer of a `sync.RWMutex` gets in before new readers, which is strong
fairness of `On`, `Off` and `Destroy`; that a `select` chooses at random among what is
ready, so that a cancelled context is noticed; and that a closed connection ends the
calls that read and write it.  It assumes nothing of clients: a write to a live
connection may block for ever, and pushes end nevertheless.  Of a transfer it
assumes that both nodes go on and that the panel removes what has moved, never that
somebody cancels; of the cron jobs that the scheduler runs them again and again,
that a job goes on, and that a panel that is asked for ever answers in the end
(strong fairness of the acknowledgement).  Faults are finitely many.  `lifecycle`
assumes that goroutines run, and that a cancelled context ends what waits for it (the
script's PowerShell, a remote archive, the files of a backup); nothing of users, of the
panel, of processes, or of the output of a script, which its children may hold open for
ever.  A behaviour in which a goroutine panics on the destroyed lock is excluded.

### Disagreements

Two runs show a statement of the repository's comments that the code does not
keep; each is a finding in `PROJECT.json` with the quotation.

| run | statement | what happens |
|---|---|---|
| `late_wait` | `environment/winproc/environment.go:88` | a restart polls `IsRunning`, which asks Windows, and registers the next process before `wait()` of the previous one ran; that `wait()` clears the new registration |
| `stop_misread` | `environment/winproc/console.go:108` | both handlers of a stop run after the process is gone, and see running -> offline |

### Known disagreements

These were found with the same models, or while they were written, and are not kept
as runs.

Power and events:

* A kill between `Start`'s first state change and the registration of the process
  finds none, sets offline and returns; `Start` goes on to launch it
  (`environment/winproc/power.go:343`, against line 334).
* A failed boot may be taken for a crash, for the reason of `stop_misread`, although
  `environment/winproc/power.go:66` sets stopping first to prevent it.
* A console line that equals the stop command sets offline, not stopping as
  `server/listeners.go:187` says.
* `Terminate` may set stopping after `wait()` has set offline (`power.go:353`); the
  server then stays stopping.
* The process may end between the console handler's check (`server/listeners.go:162`)
  and its `SetState`: the server is marked running with no process, against the
  comment at line 180, and later starts are refused.
* A lookup stores the sizes it found while an SFTP handle has truncated its file and
  counts on the size it had: the handle's writes then pass the limit, against
  `sftp/handler.go:123`.
* Two auth messages at once may both find no token (`websocket.go:318`): the connection
  gets two listeners, although `router/websocket/listeners.go:18` says that only the
  first authentication sets them up.
* `sink_pool.go:85` says that the oldest message goes and the new one is pushed; when
  another goroutine takes the room, or the listener has just emptied the channel, the
  new one is lost instead.
* The check of 30 connections (`router_server_ws.go:41`) and the tracking are two steps:
  more may be open.
* Two uploads pass the check of `filesystem.go:175` together.
* An archive that fails, or that does not fit, stays on the disk uncounted
  (`compress.go:48`) until the next lookup.
* A lookup that waited for `fs.mu` walks the directory again, where
  `disk_space.go:138` says that it reads the cache.

The life of a server:

* A power action or crash restart that waits for the lock when the server is deleted
  sends on a closed channel and panics (`system/locker.go:81`).
* A sync that asked before the panel suspended the server may replace the configuration
  after the sync of a start did: the start is carried out, although `server/power.go:177`
  has the check after a sync "to ensure that we have the most up-to-date information".
* The deletion of a server kills the installer's PowerShell, not what it has started:
  the installation then waits for the end of an output that those processes hold open
  (`install_windows.go:141`).
* A start may go on during a deletion: the suspension that `deleteServer` sets
  (`router_server.go:195`) is overwritten by the start's own sync.
* Two restorations at once share one flag, and the first to end clears it;
  `RestoreBackup` clears a suspension of the panel with its own (`server/backup.go:127`).
* The creation of a server answers before it is installed, and an error is only logged
  (`router_system.go:86`).

Transfers and backups:

* `PushArchiveToTarget` reads `errChan` only after an accepted request: when the request
  fails, the streaming goroutine waits for ever.
* When the answer to the report of a success is lost, the target keeps its
  transferring flag, and panel and source have moved on.
* A transfer that succeeded has lost the files of the egg's deny list
  (`server/filesystem/compress.go:277`), empty directories, sockets and links that cannot be read
  (`server/filesystem/archive.go:208,274,285`): the checksum is that of the stream.
* A second attempt that begins before the target is done with the first may work on the
  first one's transfer and be undone by its end: files may be lost and the
  transferring flag stay (`router_transfer.go:88`), which the comment at line 109 means to
  prevent.
* `installer.New`'s error path uses a transfer without a server (`router_transfer.go:75`);
  a success event is published after a failed transfer (line 126).
* A part that is sent again is not rewound (`backup_s3.go:211`): after an attempt that
  read the body the repetition sends fewer bytes than it announces, and fails.
* `server/backup.go:94` removes the archive when the panel cannot be notified, and
  returns nil where its comment says that the error is returned.  When only the
  answer was lost the panel believes in the archive that was removed.

The daemon:

* A save of the states during the boot writes offline for the servers not brought
  back yet, and a crash then forgets them; a torn file forgets all.
* A container that cannot be inspected within 30 seconds counts as offline.
* A configuration update replaces the token in the file, not the one in use, until the
  daemon starts again; two updates at once may leave file and memory different; a
  crash during the write leaves no usable file.
* Maps and slices of the running configuration are changed by a request before anything is
  written, and stay changed when the request fails (`router_system.go:132`), although
  `config/config.go:432` says that modifying the copy does not modify the configuration.
* The key and the certificate that a request keeps are read by two calls of `config.Get`
  (`router_system.go:142`), between which another update may replace both: the pair
  then does not match.
* An SFTP entry with an unusable address ends every run of the SFTP job.

Docker:

* Docker's own stop clears the stream when it finds no container
  (`environment/docker/power.go:196`).  A stop without the lock may by then clear the stream
  that a start has just attached, and its reader goes on without one; a reader that has not
  begun dereferences nil.  `OneReader` holds until then (`missed`).
* A start whose stream breaks before the container runs ends with a running container
  and no reader.

Files, SFTP, downloads:

* Without `openat2`, `openat` returns the descriptor that failed its check, and nobody
  closes it but `walkDir`.  The file of `archiverFileSystem` (`compress.go:56`) and the target of
  a copy (`filesystem.go:364`) are closed by the garbage collector only.
* On Windows a rename replaces an existing target, where the API says that the
  destination exists.
* An archive reads the target of a link relative to the daemon's working directory
  (`server/filesystem/archive.go:285`).
* A session that authenticated before a deauthorization and takes its context after it
  keeps its old permissions; so does a connection of a deauthorized user that opens
  another channel (`sftp/server.go:128,151`).
* The limit of three downloads is a check before the download is tracked: more may
  run (`router_server_files.go:315`).  A download that is cancelled before `Execute` sets
  its `cancelFunc` runs on untracked.

### Mutants

Every property of a passing run has a mutant in `PROJECT.json`: a definition that
stands for code is replaced by one with a plausible mistake (the definitions that
a comment introduces as such), and TLC finds the property violated.

## 4. The theorems

| theorem | states | proviso |
|---|---|---|
| `TypeCorrect` | `TypeOK` of `ServerPower` | none |
| `PowerActionsExclude` | `MutualExclusion` | none |
| `OneInstance` | `SingleInstance` | processes can be opened and assigned |
| `KillReachesRegistered` | `RegisteredInJob` | the same |
| `ContractHolds` | `ImplementsContract` | the same |
| `AddIsExact`, `CanFitIsExact`, `WriteEndIsExact` | `AddSaturates`, `FitIsExact`, `WriteEndExact` | none, at every width |
| `ReservationsBound` | `UsageWithinLimit` | `OnlySftp`, below |
| `PoolNeverPanics` | `NoPanic` | none |
| `SuspensionHolds`, `DeauthHolds` | `SuspensionDisconnects`, `DeauthDisconnects` | none |
| `MessagesInOrder` | `InOrder` | none |
| `UsageIsExact` | `UsageExact` | `OneWriterEach`, below |
| `UsageCoversFiles` | `UsageCovers` | the same, without uploads and copies |
| `OneInstaller`, `NobodyLocksForEver` | `InstallExclusive`, `NothingLeftLocked` | none |
| `RestorationsHold`, `SuspensionStopsStarts` | `RestoreHeld`, `SuspendedNotLaunched` | none |
| `LifecycleTyped`, `TransferTyped` | the types of `Lifecycle` and `Transfer` | none |
| `TransferKeepsFiles`, `TransferFailureIsHarmless` | `NoDataLoss`, `FailureFreesSource` | none; both are about attempts that do not cross |
| `ActivityIsDelivered` | `NoActivityLost` | none |
| `UploadsAreExact`, `BackupsAgreeWithPanel` | `UploadExact`, `DiskAgrees` | none |
| `RebootRestoresPower` | `PowerSurvivesReboot` | none |
| `ConfigIsWrittenFirst` | `RunsWhatWasWritten` | none |
| `ConsoleHasOneReader` | `OneReader` | none; until a stop has `missed` |
| `RestartsAreFresh` | `RestartIsFresh` | none |
| `EverySessionCanBeEnded` | `SessionsReachable` | none |
| `DownloadsGiveBack` | `SlotsFreed` | none |
| `SandboxInvariant`, `SandboxHolds` | `SandboxInv`, `Confined` | none |
| `DescriptorsAreClosed` | `DescriptorsClosed` | none |

They hold for any sets of goroutines, processes, job handles and files, from the
named assumptions of the modules, which TLC evaluates on every run: most say that a
value like `None` is not an element of the set it stands apart from
(`NoConfigIsNone`, `NoFileIsNone`, `NoneIsNoTask`), that bounds are numbers, that a
server has finitely many files (`FilesAssumption`), that there is a last page
(`ThereIsALastPage`), and that a tree's roots are objects (`ObjectsAssumption`).

### Power, disk, websockets

*Mutual exclusion* is not inductive: a goroutine could be inside without holding
the lock.  `IInv` adds that whoever is inside holds it, that only starts and
restarts are at the labels of `Start`, that a `Terminate` that returns to the
pre-boot checks belongs to a restart, that the return label is reset outside, and
that the lock is held only by a goroutine inside.

*A single instance* is inductive only relative to `IInv`: `ProcInv` says that
nothing is alive between `closeJob` and the launch, that the process being
launched is the only live one until it is registered, and that every live process
is in the current job.  `closeJob` therefore ends whatever a restart left behind.
The proviso is real: when `OpenProcess` or the assignment fails, `Start` only logs
it, and the process is in no job.

*The contract* follows from both: each step begins, ends or launches, ends the
process, or leaves `current` and `live` as they are.

*`ReservationsBound`* is about SFTP handles and deletions under a positive limit
while the cached usage is fresh, with handles on different files (a deletion may
share its file with a handle).  `ResInv` says that the size of an open file is at
most what its handle counts on, so that no settlement or close raises the usage,
and that a growth that passed the check still fits while the lock is held.
Uploads, copies, archives and lookups are excluded because they break it (known
disagreements).

*`UsageIsExact`* and *`UsageCoversFiles`* are about SFTP handles, uploads, copies and
deletions, each file written by one goroutine or only removed (`OneWriterEach`: no
lookup, no archive, no game server, and all files at their largest stay below
`MaxInt`).  The usage is then no function of the files while somebody works, so
`AccInv` says that there are shares `h`, one number for each file, whose sum is the
usage: a file that nobody is engaged with has its size as its share, and `Owes` says
for each label how far the share of the goroutine's file is from its size (a handle's
share is what it counts on, an upload's the size the file had until the difference is
added, a deletion's what it has yet to give back).  Every step changes one file and one share, and a
share at most by what `Quota.Add` was called with.  That the sum follows is
`BytesMove`: the bytes of all files are a disjoint union of the bytes of one and
those of the others, and cardinality does the rest, so that no induction over the
files is needed.  The provisos are real: two writers of one file count its bytes
twice, and the game server, a lookup during a write and a failed archive are known to
put the usage wrong until the next lookup (`UsageConverges`).

*`PoolNeverPanics`* rests on `PoolInv`: a goroutine of `Push` belongs to a pusher that
holds the read lock and sends to a channel of the pool, and no channel of the pool
is closed.  It holds because `Push` waits for its goroutines before it gives the lock
back.

*`SuspensionHolds`* needs that a connection past its tracking is in the bag or
cancelled: one that comes too late for `CancelAll` sees the suspension.  *`DeauthHolds`*
uses the same fact and follows a token from its check to its use: once the
deauthorization is over, an old token that is still on its way belongs to a
connection that is cancelled, because connections authenticate only after they are
tracked.

*`MessagesInOrder`* follows a message from `Push` to the listener.  `OrderInv` says that
of one pusher's messages a channel's buffer is ascending and lies between the last one
the listener has seen and the last one pushed, and that every goroutine of `Push`
carries the last one: `Push` waits for them, so the next message cannot overtake.  A
goroutine that drops the oldest message or loses its own only removes.

### The life of a server

`LifeInv` has one part per property.  *`OneInstaller`*: the flag is up if and only if
some goroutine prepares or runs the script, which makes the compare-and-swap of the
flag a lock.  *`RestorationsHold`*: only restorations are at the labels of a restoration,
and the flag is up only while there is one.  *`NobodyLocksForEver`* follows from the two
and from `LockInv`, by which the holder of the channel is between taking it and leaving
it; a deleted server's channel is closed and has no holder.  *`SuspensionStopsStarts`*
needs the state between the replacement of the configuration and the check
(`SuspensionInv`): what the start was told still stands, or somebody who lifted it has
made the start `overruled`.

### Transfers, activity, backups, boot

*`TransferKeepsFiles`* ties the panel's belief to both nodes.  `HandlerInv`: only a verified
archive becomes a success, and a good hash was computed by a request that is at work.
`SourceInv`: the source has its data until the panel has moved the server, and one
request under way.  `AloneInv`: when no attempt began too early, the target works on that
request only, a good hash means that the ordinary files are there, and the panel's
verdict is that of this request.  A failure known to the panel came from a source that
is done or from a target that did not succeed, which is *`TransferFailureIsHarmless`*.

*`ActivityIsDelivered`*: the rows a job is about to delete are among those its request
held, and the panel has received them, at any cap of a query and any chunk of the
deletion.

*`UploadsAreExact`*: the parts the endpoint took join without a gap and end where the
parts before the current one end (`EndOf`, the multiple of the part size or the end of
the archive), and a body that was read in part has moved on by as much as it has
lost, so that only an attempt nothing was read of can be repeated with success.  It
needs products of part numbers and sizes, which the lemmas isolate.
*`BackupsAgreeWithPanel`* follows the file instead (`FileInv`): a local archive is whole
from the details on unless it was deleted, one that failed is not unless it could not be
read or removed, and an upload has left no copy once `Generate` returned, with the same
exception.

*`RebootRestoresPower`* compares two things that are read apart (`RebootInv`): what a server
is at the crash, and what the file says.  A server that is `fresh` is in the file as it
is, because a save that was written while it changed does not make it so; until its task
of the pool is over, the file and then its copy in memory keep saying it; and a server
whose environment is offline has no process once it is settled.  A server that can be set
up is tracked before the first is brought back, because all pages up to the last one
were read.

### Configuration, Docker, sessions, downloads

*`ConfigIsWrittenFirst`*: of its fields held by value, the running configuration is one the
file has held, and an update sets what it has just written; key and certificate may come
from two running configurations, and are written together before they are set.
*`ConsoleHasOneReader`*: a reader belongs to the stream that is set until it has cleared
it, and whoever clears the stream of another sets `missed`.  *`RestartsAreFresh`*: between
the end of the stop and the start of a restart the container that was to be stopped
does not run, because whoever could start another one needs the lock that the restart
holds.  *`EverySessionCanBeEnded`*: a context that is in use and that nobody has cancelled
is the one in the bag.  *`DownloadsGiveBack`*: what is tracked is under way, and the list
of a server names each of its tracked downloads exactly once.

### The file tree

`SandboxInv` is the largest invariant.  `TreeInv`: no directory inside has an entry
outside, whatever is moved, and only the target of a link leads out.  `Typed` and
`Placed`: the descriptors an operation works on are inside, and so is every frame of a
walk; only a descriptor that was opened by following links and not yet checked may
be outside, and with `openat2` not even that one (`Beneath`).  `FdInv`: the open
descriptors that are not leaked are those the deferred calls will close, directories and
files (`Holds`), and those of the resolution, the directories and the file at hand, which
`Open` counts by label.  Every system call is a lemma of its own, and every operation of
a request is a case of these.

### Only model-checked

The eight liveness properties, since fairness is out of TLAPS's reach: `ActionsComplete`,
`ExitNoticed`, `UsageConverges`, `PushCompletes`, `DeletionDisconnects`, `CancelFrees`,
`ActivityDrains` and `DeletionEndsWork`.  Every safety property of the runs has a theorem.

## 5. What a reader should keep in mind

* No install, transfer or restore is in progress in `ServerPower`; `Lifecycle` has the
  check at `server/power.go:57` and the flags, and a start in few steps.
* In `ServerPower` the event bus delivers every event; `SinkPool` models the messages a
  full channel loses, and the two are not composed.
* `DiskQuota` is the Windows build, `FileTree` the Unix build: sizes matter to the one,
  paths to the other.
* The panel, Docker, the S3 endpoint and the database are modelled by what the daemon
  can observe of them.
* A copied file's handle stays open until the collector closes it
  (`filesystem.go:364`); `FileTree` counts it in `leaked`, `DiskQuota` closes it when the copy
  ends.
* Five properties name an exception that the code really has, and that the model reaches:
  `SuspendedNotLaunched` (`overruled`), `NoDataLoss` and `FailureFreesSource` (`crossed`),
  `OneReader` (`missed`), `DiskAgrees` (`kept`, `lost`).  The variables are histories, which no
  guard reads.

## 6. What is not modelled

The parser of configuration files and the formats of archives are text processing
or third-party code without shared state.  Rate limits and the console throttle are
a counter under one mutex, where a module would restate the code.  The isolation
accounts are calls of the Windows account API.  Modes, owners and times of files
are data that no property tells apart.  The service wrapper and the interactive
commands are not part of the running daemon.  Image pulls, statistics and the
translation of limits and mounts are data.

## 7. What is left

1. `Docker` as another implementation of `PowerContract`: the contract would have to begin
   with a process that may exist already, and to launch and end an action in one step,
   as a start that adopts a container or returns at once does.
2. Weaker provisos: `ReservationsBound` with uploads that stay below the limit, and
   `UsageIsExact` with lookups while nobody writes.
3. The types of the modules whose inductive invariants carry only the part they need.
4. The disk limiter's `Once`, the expiry of tokens, the permissions of websocket
   messages.
