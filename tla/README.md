# A verification development for ZipMania

ZipMania is a Windows archiver: a Rust library that reads and writes archives
(`crates/zipmania-archive`), a Tauri application around it (`src-tauri`) and a
Svelte user interface (`src/`, in its `lib/` and `components/`). This directory holds TLA+ modules that
model the parts of it in which several actors share state, the configurations
with which TLC checks them, and proofs checked by TLAPS. Paths below are those of
the repository.

Contents: [the system](#1-the-system), [the modules](#2-the-modules),
[what is checked](#3-what-is-checked), [fairness](#4-fairness),
[what is proved](#5-what-is-proved), [where the code departs from what it says](#6-where-the-code-departs-from-what-it-says),
[what is left out](#7-what-is-left-out), [plan](#8-plan).

## 1. The system

### 1.1 Components

**Job registry** - `src-tauri/src/jobs.rs`, the job commands of
`commands.rs`, the exit of `main.rs`.
*State*: one mutex over the active jobs (id, cancel flag, kind, owner), the
tombstones of retired window sessions and the flag `closing`; one condition
variable `idle`; the counter of ids.
*Operations*: `start`, `cancel`, `finish` (called by `JobGuard`, once by hand and
once by its drop), `retire_session`, `begin_shutdown`, `wait_session_retired`,
`wait_retired`.
*Hard*: a command resolves its session token before it registers the job, and its
window may die in between; `finish` notifies after it has released the mutex;
`finish` runs twice; the worker may panic or not even be spawned; three kinds of
waiters share one condition variable.
*Correct when*: one job at a time; a job whose window is gone is cancelled however
late it was registered; the shutdown misses no job; nobody sleeps through the
wakeup; the slot always comes back.

**Queue of compress requests and life of the compress window** - `commands.rs`
(`PendingCompress`, `open_compress_window_inner`, `on_job_window_destroyed`,
`reopen_compress_after_retire`) and `WindowSessions`.
*State*: a queue of requests whose front may be leased to a session under a
generation, with the mark "dispatched"; the last 32 acknowledgements; the flag
`ready`; the session of the window that is open; the mutex `create`.
*Operations*: `push`, `lease`, `dispatch`, `ack`, `release_session`, opening,
destruction and reopening of the window.
*Hard*: every call from the window crosses a process boundary, its answer can be
lost and it is then repeated; the window can die between any two calls; threads of
the command line, of the reopening and of the main window open it at once.
*Correct when*: a request is carried out at most once and in order, never by a
window that does not hold it, and none is left behind.

**Compress window** - `src/lib/compressCoordinator.js`,
`compressPlan.js`, `src/components/CompressWindow.svelte`. *State*: the request
in hand, its phase, an epoch, the form, the batch. *Operations*: look for a
request, apply it, acknowledge it, start and cancel jobs, react to the signal and
to the end of a job. *Hard*: every await lets a signal or an event in.
*Correct when*: no signal is missed, a request is carried out once, success is said only
of work that is done, and the end of a job reaches the window.

**Parallel zip pipeline** - `backend/unzip/parallel.rs` and `do_create` of
`create.rs`. *State*: the index of the next item, the budget of bytes, the map of
finished entries, the number of living workers, two flags. *Operations*: claim,
acquire, deliver, take, release, stop. *Hard*: three resources (index, budget, map)
that are taken one after the other; panics; cancellation at every point. *Correct
when*: the archive is the one that a single thread would make; memory is bounded;
it comes to an end.

**Chunk-parallel compression of a big file** - `backend/unzip/bigfile.rs`. *State*:
slots, a bounded channel of chunks, an unbounded one of results, the collector's
map of chunks that wait for their turn. *Hard*: three kinds of threads, two
channels whose ends are dropped in different orders, blocking and polling waits.
*Correct when*: only a complete and ordered file is used; memory is bounded; it
ends.

**Output place** - `outfile.rs`, `volumes.rs`. *State*: temporary files, the list
of those that are alive, for a split archive the volumes and a position. *Operations*: write,
seek, set the size, commit, rollback, drop. *Hard*: every call may fail, and a
commit of several volumes is several renames. *Correct when*: the writer cannot
tell a split archive from a file; what is left is a whole archive or nothing.

**Extraction** - `extract_all` of `backend/unzip/extract.rs` and `backend/unegg/extract.rs`, the callbacks
`GetStream`/`SetOperationResult` and `do_extract` of `backend/sevenzip`, `StagedFile` of `outfile.rs`. *State*: the
file that is being written beside its target, the list of missing items, the answers of the user to the conflicts.
*Operations*: look for conflicts, stage, write, check the size, rename, skip, cancel. *Hard*: any item may fail
and the next goes on; 7z.dll says what became of an item only when it is done with it, and the
file is settled when the next one begins; two items may come to one path; other programs write
there too. *Correct when*: a name has its old content or the whole of an item; "ok" means all; nothing is overwritten unasked; it ends.

**The engines, for everything else** - `backend/mod.rs` (`Router`), `backend/sevenzip`, `backend/unzip`, `backend/unegg`. *State*:
none between two operations; in one, the list of items with their sizes, the callback's results, the temporary file.
*Operations*: list, test, report, scan, one entry to memory, to a file or to a writer, create, edit. *Hard*:
7z.dll calls back or stops where it likes, sizes in the directory may lie, passwords may
be wrong for the directory or for the data, inputs vanish and appear. *Correct when*: a
report says neither too much nor too little, an entry is handed out whole, an edit keeps what it is not told to remove.

**Command line** - `cmdline.rs`, `crates/zm`: arguments, one command that calls the engines several times, an exit code. *Hard*:
`-delsrc` deletes what it believes to be in the archive. *Correct when*: it is.

**Single instance and aggregation** - `cli.rs`: the explorer starts one process for each selected file; `Aggregator` gathers their calls by a
debounce over generations. **Extract window** - `ExtractWindow.svelte`, `PendingExtractContext` and
`open_extract_window` of `commands.rs`: one place for the request of the window, a signal, a form, batches, conflicts, passwords. *Hard*:
every await lets a new request in. *Correct when*: a request is gathered whole, taken, checked before it writes, and its end is reported as it was.

**Main and viewer windows** - `lib/stores.js`, `App.svelte`: the list, one password dialog for four flows, the dialogs of test and scan, edits. *Hard*:
answers and events come in no order to each other, and those of other windows' jobs come too. *Correct when*: what is shown belongs to what it is shown for.

**What windows share** - `commands.rs` (`ViewerWindows`, `PendingStartupOpen`, `SessionPassword`, `open_entry`), `shelldrag.rs`: which window has
which archive, what is left for a window to take, items unpacked into the temporary folder. *Correct when*: an archive
that was asked for comes to one window, and an item that is run or dropped is a whole one.

**Settings and registration** - `settings.rs`, `file_assoc.rs`, `shell_reg.rs`, `msix.rs`, `maintenance.rs`, `SettingsWindow.svelte`,
`AssocBanner.svelte`: a file that several windows read, merge and write, and the registry keys that are made to follow it at each
start. *Hard*: several keys for one registration, each may fail; crashes; other programs and the
user change the same keys; the file may be damaged; the program may be moved. *Correct when*: the keys are whole or
repaired, other programs get back what was theirs, the user keeps what he chose.

**Display functions, translations, skins** - pure. **Update, crash report, icons, themes** - wrappers of services of the operating system.

### 1.2 How they interact

- A window calls a *command* (Tauri IPC) and waits for its answer; a command that
  starts a job returns the id and leaves the work to a thread, which *emits events*
  (`job:progress`, `job:done`, `job:error`) to the windows.
- A job's thread shares one `AtomicBool` with its registry entry. Cancelling is
  setting it; every backend polls it, and so do the workers of the pipeline and of
  the big file.
- A job window is known by a *session* ("compress#3"), issued when it is
  opened and never reused. Its death is the event `Destroyed`: the session becomes a
  tombstone of the registry, its jobs are cancelled, its lease goes back to the
  queue, and a thread that first waits for the jobs opens the next window.
- The explorer starts processes; the single instance hands their arguments to the first one, where `cli.rs` gathers them and opens
  windows. A window that is opened does not get its request with the call: it is *left* in a place of the process and
  *taken* when the window mounts or hears a signal, whichever is later.
- Every operation on an archive goes through `Router`, which picks the engine by the extension and capability.
- Settings are a file; who saves it also makes the registry follow (`sync`), and so does every start.
- `do_create` owns one pipeline, calls `bigfile::compress` for an item that is
  large enough, and writes to an `OutSink` which `commit` gives its name.
- Synchronous commands and window events run on the main thread, asynchronous
  commands, the reopening and the command line beside it. The modules do not rely on
  that: where the code takes no lock, the models let every other step in.

## 2. The modules

| module | what it models | lines of code it stands for |
|---|---|---|
| `JobManager` | the registry, the commands, the workers, the windows, the shutdown | `jobs.rs`, parts of `commands.rs`, `main.rs` |
| `RequestHandoff` | *abstract*: what becomes of each request | - |
| `CompressQueue` | the queue, the window and its calls, the openers | `commands.rs`, `compressCoordinator.js` |
| `CompressWindow` | the coordinator, form, batch and jobs of a window | `compressCoordinator.js`, `compressPlan.js`, `CompressWindow.svelte` |
| `ArchiveCreation` | *abstract*: an archive made item by item | - |
| `Pipeline` | workers, budget, map and the loop of `do_create` | `parallel.rs`, `create.rs` |
| `BigFile` | reader, workers, collector | `bigfile.rs` |
| `FlatFile` | *abstract*: one growing file with a position | - |
| `VolumeSet` | temporary files, volumes, commit and rollback | `outfile.rs`, `volumes.rs` |
| `Extraction` | one extraction by each engine, from the conflicts to the result | `unzip/extract.rs`, `unegg`, `sevenzip`, `outfile.rs` |
| `Backends` | the router and the other operations of the engines | `backend/mod.rs`, `sevenzip`, `unzip/mod.rs`, `unegg/mod.rs`, `inputs.rs` |
| `CommandLine` | `zm.exe` and the verbs of `ZipMania.exe` (EXTENDS `Backends`) | `cmdline.rs`, `zm/src/main.rs` |
| `ExtractWindow` | aggregation of shell calls, the place of the request, the window | `cli.rs`, `commands.rs`, `ExtractWindow.svelte` |
| `MainWindow` | the window that shows an archive, its dialogs and its jobs | `stores.js`, `commands.rs` |
| `Session` | what the windows that show archives share | `commands.rs`, `shelldrag.rs`, `App.svelte` |
| `Registration` | settings file and registry | `settings.rs`, `file_assoc.rs`, `shell_reg.rs`, `msix.rs`, `maintenance.rs` |
| `JobProofs` (of `JobManager` and of `MainWindow`), `HostProofs` (of `CompressQueue` and of `Registration`), `PipelineProofs`, `BigFileProofs`, `VolumeSetProofs`, `ExtractionProofs` (of `Extraction` and of `ExtractWindow`), `CompressWindowProofs`, `SessionProofs` | theorems about eleven of them, and their proofs | - |
| `MCJobManager`, `MCCompressWindow`, `MCPipeline`, `MCBigFile`, `MCVolumeSet`, `MCExtraction`, `MCExtractWindow`, `MCMainWindow`, `MCSession`, `MCCommandLine`, `MCRegistration` | instances for TLC | - |

In every module an action is one critical section of the code, or one step between two of
them; an action that the code performs under one lock is never split, and what it
does without a lock is. Each module has *mutants* beside the definitions they vary,
each with a comment: plausible mistakes in that code, which are not part of the
specification. They serve to see that each property can fail.

### 2.1 `JobManager`

| variable | code |
|---|---|
| `counter` | `JobManager.counter` |
| `active`, `cancel`, `owner` | `JobState.active`, the flag and `JobInfo.owner` of an entry |
| `retired`, `closing` | the tombstones and the flag of `JobState` |
| `current` | the sessions of `WindowSessions` |
| `thread` | the program counter of the command and then of the worker of each job |
| `wait` | the program counter of each thread in one of the two waits |
| `running` | what `begin_shutdown` returned, later the shutdown note |
| `exited` | the event loop has returned |

`Resolve` is `resolve_owner`, `Start` the critical section of `start`, `Finish` and
`Notify` the two halves of `finish` (the notification is outside of the lock),
`RetireSession` the registry's part of `on_job_window_destroyed`, `Check` and
`Timeout` the loop of `wait_timeout_while`. A
condition variable is a wait set: `Check` goes to sleep in the step that releases the
mutex; `NotifyAll` moves the sleepers back to `checking`. The model lets a window die
between `Resolve` and `Start`; in the code both run on the main thread when the command is
synchronous, so the model has more behaviours than the build has, never fewer.

### 2.2 `CompressQueue` and `RequestHandoff`

Requests are numbered in the order of their arrival, so that the queue is a set whose
least element is the front. `lease[r]` is the generation, session and mark
of a request, `recent` the acknowledgements that are remembered, `opener` the holder of the mutex
`create` and how far it is, `reopening` the threads that wait for a dead window to
leave, `window` whether the window manager knows the label (`dying`: `Destroyed` has
been handled, the label is still there).

The window is `look` (it is going to ask), `held` (the pair it holds), `stage`, and
`pause`: why it does not go on at the moment, because a call or the start of a job has
*failed*, or because it is *kept* by a job that runs or by a form with inputs of its own. A poke ends either,
the signal of a new request ends the first. A
call is made and answered in one step, or answered and the answer lost (`Lost`: the window waits), or (`Delay`,
`Late`) carried out later, again, or not at all - also after the death of the window that
made it. This covers every order in which calls of one window can be carried out relative to the
calls of the next.

`RequestHandoff` says what becomes of a request: unborn, waiting, offered, handed over, closed.
`StateOf` is the refinement mapping.

### 2.3 `Pipeline` and `ArchiveCreation`

`unclaimed` is `next`, `used` the budget, `ready` the map `Done`, `alive` the counter which
`take` reads to find out that nobody is left. A worker is idle, has *claimed* an item (and waits for
budget), is *working*, or has left. The main thread's steps are those of `do_create`
and of `take`; `mourn` is the instant between `take`'s look at the flags and its look at the
counter, with the lock of the map held. The waits poll every 50 ms; so a wait is a
step that is not enabled.

`ArchiveCreation` is a creation without threads: items are added in order; "ok" comes after all of
them; "canceled" only to a user who asked. "died" (the error for a
panic) is a failure there.

### 2.4 `BigFile`

The reader (`read`, `acquire`, `send`, `drop`, `join`, `judge`), the workers and
the collector, each with its program counter. The channel to the workers is a sequence bounded by the number of
workers; the channel to the collector is a set, for the collector sorts what it receives. `jtx`
says whether the sending end exists, which is what makes `recv` fail; the receiving end lives
as long as `compress`, which is why `send` never fails.

### 2.5 `VolumeSet` and `FlatFile`

`vols` are the bytes of the temporary files, `pos` the position, `disk` what each name stands for,
`moved` the renames done so far, `tmp` and `live` which temporary files exist and which are listed in
`LIVE_TMP`. One call of the file system is one step, with a branch in which it
fails. `TmpPath::drop` takes a file off the list whether it could be removed or not (`GiveUp`); `litter` is history and holds the
files that stayed so. The mapping to `FlatFile` concatenates the volumes.

### 2.6 `CompressWindow`

The other view of the hand-over: `CompressQueue` has windows that live and die and calls that are late, `CompressWindow` one
window that stays, in detail. `co` is the coordinator: the call it is waiting for (`at`), the two epochs, the request in hand and its
stage, `blocked` and `failed`. `win` is what the coordinator and the jobs see of the window: phase, inputs, batch, the call of
`createArchive`, the job whose events it listens to and the events it keeps for later. An input is the request it came with, or `User`.

JavaScript runs from one await, event or click to the next without interruption. One action is one such stretch; the functions that it
goes through (`doPump`, `planLaunch`, `runPlan`, `drainPendingEvents`...) are operators from state to state. `React` is the reactive
statement that pokes the coordinator when the window becomes busy or idle, or its form filled or empty; `Become` ends `onMount` in the
stretch in which the first request is dealt with. The registry is `slot`: a job of this window, of another one, or none. A job's thread ends with
a result that is emitted (`JobEnds`) or panics, and then `JobGuard` frees the registry and nothing is emitted (`JobPanics`); `silent` and `dropped` are history, the jobs
that told nobody and those whose event found the window's memory full. `ExtractWindow` and `MainWindow` have `JobPanics` too.

### 2.7 `Extraction`

One module for three engines, which share the temporary file beside the target (`Created`, `Renamed`, `Removed` of `fs`) and the list of
missing items. `zip` and `egg` are loops of our own: `Turn` takes the next item, `StageItem`, `WriteChunk`, `EndOfItem` or one of the ways
out follow. `7z` is driven by the DLL: `GetStream` settles the item before (`Settled`) and opens the next, `SetOperationResult` and
`SetCompleted` are the other callbacks, `EngineReturns` is the DLL coming back for any reason, `Conclude` is the end of `do_extract`. `CheckConflicts` is
the command the window called before, with the user's answers; between the two, and between any two steps, `AlienWrites` puts
files into the folder. The DLL may pass an item over, open it and give no result for it (`PassOver`, `NoResult`), and still return `S_OK`; the number of items may be unreadable,
which `collect_meta` takes for none (`StartUncounted`). `sz.passed` is history, the items passed over so. A file is known by whose content it has: `Old`, `Alien`, the number of an item, or `Torn`.

### 2.8 `Backends` and `CommandLine`

`op` is the operation that runs: its kind, engine, password and position; `answer` what the last one returned, with the report and the items it was
about. 7z.dll is the environment: `GetStream` and `SetOperationResult` for the next item, `PassOver` when it leaves one out (the operations
that count results notice, `do_test` does not), or `EngineFails`. An archive has a lock (`none`, `data`,
`names`, or `junk` for a file that is none), an item a size, the size its directory *tells* (which may be absent or lie) and whether its data
is sound. `SourceMoves` takes inputs away or adds them while they are compressed; `WornItem` lets the disk lose what was written.

`CommandLine` EXTENDS it: `ParseArgs` is `parse_args` argument by argument, `Run`, `Check`, `Target`, `Write`, `Written`, `Tested`, `Sources`, `Extract`,
`Listed`, `Look`, `Looked` are the stretches of `execute` between two calls of an engine, `LaunchGui` what `ZipMania.exe` does with the same line, `Ask`
the jobs the windows start. `disk` holds under a name an archive as one file and as a set of volumes, since both can be there.

### 2.9 `ExtractWindow`

`agg` and `timers` are `Aggregator`: each call of the shell starts a timer with the generation of the buffer, and only the timer of the
latest generation sends it off. `openers` are the runs of `open_extract_window` (store the request, then look for the window, then build it), `slot` is
`PendingExtractContext`. `w` is the script of the window, again one action for each stretch between two awaits, with the reactive statement
(`React`) after each; `calls` are the calls whose answer it awaits, `events` what was emitted. `generation` is the variable of the same name. What is kept of events before the number of the job is known
is bounded by 64 in the code, progress of any job included: `Unmatched` keeps an end or drops it. History: `overwritten`, the archives of requests that were overwritten in their place, `silent` and `dropped`.

### 2.10 `MainWindow`

`path` and `list` are what the window shows, `pw` and `pend` the dialog and the four variables that say what a password is for, `dlg` the dialogs
of test and scan, `known`, `awaiting`, `activeJob` (`jobRunning`), `editId` and `ext` the variables by which events are told apart. Events come in order, answers to calls
in none. The history variables are `ver` (the version of each archive), `asker` (the archive the call or the event was about whose error opened the dialog, whatever the flow's own variable says), `silent` (the jobs that panicked) and `lapses`: each element of `lapses` is a thing that went unnoticed in the code
and that a property names as its exception (section 6 lists them).

### 2.11 `Session`

`startup`, `pending`, `opened`, `next` and `pw` are the states of the process with the names of the code; `reqs` are runs of
`open_from_shell`, each with the label it has found; `cache` is the file in the temporary folder, with the version of the archive it is of; `tasks` are
`open_entry` and the drags that wait for an unpacking.

### 2.12 `Registration`

`work` is what the main thread has to do, key by key: `Register` and `Unregister` are the orders of the keys in `register` and `unregister`, and
`WriteExt` writes one, or fails. `SyncAssoc` and `SyncMenu` put the keys of a whole sync in front of the rest. A process may die
between any two. `win` are the flows that write the settings (settings window, banner, options of the compress window): read, change, save, sync, each at its await. `World` is
everybody else: another program takes a class, the user picks a default app, removes or damages a file, carries the folder elsewhere. `past` is history: who
had the class before us, what the user wants, and the exceptions (section 6).

## 3. What is checked

A property of a run is a conjunction of parts with names of their own; one part of each module's is its type
invariant `TypeOK` (`RegTypeOK` in `Registration`). The number of distinct states is in brackets; the parts and what they say follow.

| run | properties | parts |
|---|---|---|
| `jobs` (388 375) | `OneAfterAnother`, `NoneEscapes`, `WaitersTold`; live: `AllLeave` | `OneJob`, `ReleasedBeforeReport`; `NoOrphan`, `ShutdownCovers`; `NoLostWakeup`, `RetiredForGood`; `CancelledLeaves`, `WaitersReturn` |
| `queue` (27 199) | `CarriedOutOnce`, `LeasesOwned`, the refinement `Handoff`; live: `EveryoneServed` | `AtMostOnce`; `NoStrandedLease`, `MarkedByHolder`; `WindowServes`, `ReopenServes` |
| `window` (3 663 029) | `RequestsKept`, `HonestResult`, `HearsEnd` | `NoneForgotten` |
| `pipeline` (70 859) | `MemoryBounded`, the refinement `Creation`; live: `AllEnd` | `BudgetExact`, `BudgetHolds`, `OneEntryEach`; `CancelEnds`, `EndsOrStarves` |
| `bigfile` (679 394) | `ChunksCounted`, `WholeFile`; live: `AllEnd` | `SlotsExact`, `OnePlace`; `Ends`, `CancelEnds` |
| `volumes` (1 156 570) | `CutWhole`, `NothingLeft`, the refinement `SameAsFile` | `CutEvenly`, `WholeSet`; `TempsListed`, `EndsClean`, `LitterOfGivenUp` |
| `extraction` (664 010) | `FilesWhole`, `OkMeansAll`, step: `AnswersKept`; live: `EndsOrRetries` | `WholeFiles` |
| `extract_window` (440 730) | `FromShellToJob`, `HonestEnd`; live: `RequestTaken`, `RunningEnds` | `Gathered`, `CheckedFirst` |
| `main_window` (3 441 796) | `ListRight`, `ReportIsOwn`, `DialogSettles`, step: `PasswordForAsker` | `ListIsShown`, `NewListShown` |
| `session` (1 649 271) | `OpenedOnce`, `ItemIsRight` | `TakenOnce`, `OneWindowEach` |
| `console` (127 832) | `Honest`, `ContentsRight`, `SourcesSafe` | `ReportsHonest`, `ExitHonest`; `EntryWhole`, `EditKeeps` |
| `registration` (2 671 129) | `KeysRight`, `SyncDone`, step: `NobodyLoses` | `BackupRight`, `NeverBroken`; `SyncExact`, `MenuWhole`; `OthersKept`, `WishKept` |

What they say in a sentence each:

- `OneJob`: two registered jobs are the same job. `NoOrphan`: a registered job of a window that has
  died is cancelled. `ShutdownCovers`: once the shutdown has begun every registered job is cancelled
  and in the list for the note. `ReleasedBeforeReport`: who hears of a result may start the next job.
  `NoLostWakeup`: a waiter sleeps only while it has a reason to or a notification is due.
  `RetiredForGood`: what a waiter was told stays true. `CancelledLeaves`, `WaitersReturn`: the slot
  comes back, and waiters return without the help of the clock.
- `AtMostOnce`: whatever is lost, repeated or late. `NoStrandedLease`: a lease belongs to the session
  that is open. `MarkedByHolder`: the mark that decides between giving back and giving up was set by
  a call about this very lease. `Handoff`: order, no second offer, no request closed that was not handed over.
  `WindowServes`: a window that stays open serves everything in the queue, unless it is kept or a call has failed. `ReopenServes`: what
  a dead window leaves gets another one.
- `BudgetExact`: the counter is the sum over the items that are in memory. `BudgetHolds`: it stays within `BUDGET`.
  `OneEntryEach`: no item is worked on twice or after the main thread has passed it. `Creation`: as without threads.
  `EndsOrStarves`: starvation for budget (finding 2) is the only way not to end.
- `NoneForgotten`: a coordinator that rests without a reason (a blocked form, a failed call, a job, a signal that is due)
  has emptied the queue. `HonestResult`: "ok" on the screen means that each item of the batch on the screen
  was made and checked. `HearsEnd`: a window that shows a running job still has its end to come, unless the job panicked or its end found the memory for early events full.
- `SlotsExact`: the slots count the chunks in memory. `WholeFile`: a result is used only if every chunk
  was written, in order. `OnePlace`: a chunk is in one place. `Ends`, `CancelEnds`: `compress` returns.
- `CutEvenly`: each volume but the last is full. `WholeSet`: after "ok" the names stand for the volumes,
  all of them, in order. `TempsListed`: a temporary file that exists and was not given up is listed for the cleanup at exit. `LitterOfGivenUp`: one that lies there unlisted is one whose removal failed.
  `EndsClean`: after a failure none of our volumes has a name, but one that could not be renamed back. `SameAsFile`: as a plain file.
- `WholeFiles`: a name has its old content, another program's, or the whole of an item, and no temporary file outlives the job unless it cannot be removed.
  `OkMeansAll`: after "ok" every item asked for is in its place, was skipped by the user, was replaced by a later item of the same path, or was passed over by 7z.dll (finding 13). `AnswersKept`: a file that was there is replaced
  only by an item the user answered "overwrite" for. `EndsOrRetries`: the job ends, except for one loop (finding 7).
- `Gathered`: no path is left in the buffer without a timer, none is in a request twice, verbs are not mixed. `CheckedFirst`: what is extracted is what was checked for conflicts. `HonestEnd`: "ok" only if each archive of
  the request was extracted completely, and only those are deleted. `RequestTaken`: each archive of a request that has its place gets to a window, unless a later request overwrites it there or the window it was told to was on its way out (finding 16). `RunningEnds`: what was started ends or asks,
  unless its job panicked or its end was dropped.
- `ListIsShown`, `NewListShown`: the list is of the archive on the title, and in the end of its latest version. `ReportIsOwn`: the dialog shows the report of the archive it was opened for. `DialogSettles`: no dialog runs for ever but that of a job that panicked.
  `PasswordForAsker`: a password is tried on the archive whose error opened the dialog, unless another flow has turned it (*late*, *behind*) or the error was taken for one's own while the id was awaited (*blind*).
- `TakenOnce`: an archive left for a window is taken by it, once. `OneWindowEach`: the shell opens an archive that has a window by bringing that one to the front. `ItemIsRight`: no half-written item is run or dropped.
- `ReportsHonest`: a test that passes has read everything but what 7z.dll passes over (finding 13); a report calls good exactly what is; a scan has one verdict on each file. `ExitHonest`: code 0 and 2 are true. `EntryWhole`: an entry is handed out whole or
  not at all. `EditKeeps`: an edit leaves what it was not told to remove. `SourcesSafe`: `-delsrc` deletes only what the archive was given and, with `-testdst`, what can be read from it.
- `BackupRight`: what is kept for an extension is the program that had it last before us. `NeverBroken`: the default app is never a key that is gone. `SyncExact`, `MenuWhole`: a sync without an error has done everything, whatever it found.
  `OthersKept`: unregistering gives back. `WishKept`: an extension is let go only if the user does not want it.

### Bounds, and why they are enough

- `MaxJobs = 2`, two sessions and the main window. One job can be refused because of the other, follow it, or
  arrive after its window has died; two waiters and the shutdown can sleep at once, which tells
  `notify_all` from `notify_one`. A third job repeats one of those situations.
- `MaxRequests = 3`, `MaxWindows = 3`, `Keep = 1` (32 in the code): a pair can be remembered, forgotten,
  and asked about after that; there is a window before, the window, and a window after. Request 2 is empty,
  so that it is in front, behind and between others.
- `window`: one request of each kind that does something, in the order in which each can find what the one before
  has left; a batch of two items, so that there is one after the first and a last; three jobs, which is one too few for everything that is asked;
  one addition by the user, one foreign job, memory for one event (64 in the code), so that it can be full.
- `NItems = 6`, two workers, `Budget = 16`, `MaxEntry = 8`, `MinItems = 5` stand for 128 MB, 32 MB and 8 items.
  The first item is larger than `MaxEntry` and streamed by the main thread, so that the workers run ahead;
  item 4 has grown since it was collected; two entries fill the budget, and item 5, of size 0, is charged nothing.
- `Declared = 5` chunks, two workers, two slots each: the slots run out before the channel is full. With three slots (the code's number)
  the channel fills first, which is the situation of finding 4; `bigfile` has the other one.
- Volumes of two bytes, at most three of them, buffers that are shorter than a volume, fill it, and cross its end; any set of
  old files beside the target.
- `MaxPanics = 1` in `pipeline` and `bigfile`: a second panic leaves nobody of two workers, which the counting of `take` treats alike.

- `extraction`: three archives of two or three items: one name twice and the very name that a renamed file gets; two names that come to one path; a folder, an unsafe name and a file. One file was there, `AlienWrites`
  puts others anywhere; an item is one chunk that is written and can break before, in and after it.
- `extract_window`: three archives, of which two have one verb, so that a batch of two, two single requests and a form come about in every order; two jobs, or one job and one closing by the user, before or after it (`MaxJobs` bounds both together; a window
  closes by itself after each success). A job that fails is followed by one that does not. `Crossing = FALSE`: what follows after `crossed` is not explored.
- `main_window`: two archives, the integrity test as the dialog (the scan has the same code with names of its own), three acts of the user and two jobs: one job can follow another, one of another window can come between. A fourth act allows one more situation, a test started behind the password dialog of another (*behind*, section 6), which the proof covers.
- `session`: an archive on disk that holds another, one that needs a password; the main window and two viewers (a third repeats the second), three acts, one edit.
- `console`: eleven archives, one of each kind the engines tell apart, under three extensions; eighteen command lines, one or more of each verb, and every operation of the windows with the right, a wrong and no password. Items have one or two units, the largest
  item of the scan has one. `Inside` is a bound: that the archive itself lies in a folder that is compressed is left out (section 6).
- `registration`: two extensions, since a sync is a loop and can fail in the middle; another program; two places; each thing the environment does once, edits and installations twice, at most four things in all (`any`): the shortest
  way into the situations of the properties takes three.

`registration` uses symmetry between extensions, programs and places: nothing in the module tells them apart, and the run checks no liveness. The other runs use none.

Deadlock is checked for `jobs`, whose specification has an explicit last
step (`Terminated`); the other systems come to rest by themselves (an archive is finished, nobody issues a request).

## 4. Fairness

- A thread that can go on does (`WF`). Where the step is one of several that
  contend for a lock or for budget (`Acquire`, `Deliver`), it is `SF`: the waits poll
  every 50 ms for as long as they last, and nobody holds the lock for more than an instant.
- A job's backend need only return *once it is cancelled*: every backend polls the flag.
  Before that an extraction may take as long as it likes.
- Nothing is assumed of users: nobody need issue a request, close a window or cancel.
- Nothing is assumed of `Timeout`. `WaitersReturn` therefore rests on notifications, not on the clock.
- A compress window that is open and has no reason to pause goes on (`WF(Client)`). A call whose answer is lost is *not*
  repeated by itself: `compressCoordinator.js` sets `failed` and waits for a poke or a signal, and neither is assumed to come.
  The opening threads and the window manager get on with what they have begun (`WF` of `Open`, `Enter(FALSE)`, `Forget`).
- An extraction is a thread that waits for nobody (`WF(Worker)`); nothing is assumed of the user's cancellation or of other programs.
- In the extract window timers run out, calls are answered, jobs end, events arrive (`WF(Deliver)`) and a script that was
  called goes on to its next await (`WF(Script \/ Answer)`). Nothing is assumed of the user and of the shell.
- `CompressWindow`, `VolumeSet`, `MainWindow`, `Session`, `CommandLine` and `Registration` state no fairness: what they promise of the end is said
  of the states in which nothing is on its way (`Quiet`) or a step is done, without assuming that those come.

## 5. What is proved

The theorems hold for every value of the constants under the assumption of the module, which TLC evaluates on the run's instance:

| module | assumption | what it asks for |
|---|---|---|
| `JobManager` | `JobAssumption` | the bound on jobs is a number, the main window is not a session |
| `CompressQueue` | `QueueAssumption` | the bounds and the length of the memory are numbers |
| `Pipeline` | `PipelineAssumption` | sizes are numbers; one entry fits the budget (`MAX_ENTRY <= BUDGET`: 32 MB and 128 MB); finitely many workers |
| `BigFile` | `BigFileAssumption` | at least one worker, finitely many, at least one slot for each |
| `VolumeSet` | `VolumeAssumption` | a volume holds at least a byte; a buffer is not empty (`write` returns at once for an empty one, `outfile.rs:376`) |
| `Extraction` | `ArchivesAssumption` | an archive is a sequence of items with a kind and a path; `NewNames` gives the names tried for each path |
| `ExtractWindow` | `ShellAssumption` | the shell names finitely many archives and at least one, each with a verb; the bounds are numbers |
| `CompressWindow` | `WindowAssumption` | the bounds, the last index of a batch and the memory for events are numbers; each request has one of the four kinds |
| `MainWindow` | `WindowAssumption` | the first archive is one of them, `Nothing` (`null` in the code) is none, a dialog is of a test or a scan, other windows start jobs of the kinds there are, the bounds are numbers |
| `Session` | `SessionAssumption` | the locked archives are archives, an item is an archive or a plain file, `Nothing` (`None` in the code) is neither an archive nor a window, the bounds are numbers |
| `Registration` | `RegistrationAssumption` | we, nobody, no backup and no place are none of the other programs and of the places; a missing and an unreadable file are not settings; the bounds are numbers; finitely many extensions and handlers (both are lists in the code) |

Each proof has one lemma for each action, lemmas about the operators the actions share, and combines them with a temporal step at the
end. TLC checked each inductive invariant on the instance of the run before it was proved.

`JobProofs`, first part: the registry (`JobManager`). *Invariance* shows an inductive invariant. `OneJob` needs only that `start` tests for
an empty map. `NoOrphan` and `ShutdownCovers` need in addition that an id is issued once and that a job is in
`active` exactly as long as its thread holds the registration. `NoLostWakeup` is inductive with
the program counters: `Finish`, which may make `Busy` false, leaves its thread at
`releasing` or `dropping`, and only `Notify` leaves those. `RetiredForGood` needs that a waiter waits only for
a session that is retired, or after `closing`: `Refuses` then keeps every late registration out. From it follow
`TypeCorrect`, `OneJobAtATime`, `NoOrphanJob`, `ShutdownIsComplete`, `ReleaseFirst`, `WakeupsArrive`, `RetirementLasts`,
and for the properties of the run `JobsInTurn`, `NobodyEscapes`, `WaitersAreTold`.

`HostProofs`, first part: the queue (`CompressQueue`). The invariant `IInv` adds to the properties: only the front is leased (`FrontOnly`), a session
exists exactly while the window is open and is the last one issued (`SessionOfWindow`, `RoomForLaunch`), generations are
issued once (`GensIssued`: this is what makes a late call harmless), what the
window holds is the lease it was given unless it has been closed (`HeldIsLeased`), a lease that the window has not heard of has
no mark and no call (`UnheardIsFresh`), and
`OnceIsEnough`: a request that has been applied is marked, held by the window that did it or closed. `AtMostOnce` follows from the last
one, since a marked request is never given back. Theorems: `TypeCorrect`, `NeverTwice`, `LeaseOfTheLiving`,
`MarksAreOwn`, for the run `OnlyOnce` and `LeasesHaveOwners`, and `QueueImplementsHandoff`: under `StateOf` the initial states map to initial states and each step to a step of
`RequestHandoff` or to a stutter.

`BigFileProofs` (`MemoryIsCounted`, `OnlyWholeFiles`). The slots count the chunks that were sent and not written (`SlotsExact`), but they know nothing of where these are.
`Apart` says that the chunks in the channel to the workers, in the workers' hands (`Holding`), on their way to the collector and in its map are
different and lie between `next` and `seq`; a worker that leaves before the channel is closed takes its chunk with it, which is why `Holding` counts it. `JobsInOrder` makes the
channel strictly increasing, so that a new chunk is none of those it holds. `WholeFile` alone is not inductive: the reader may have
read the whole file while the collector has come to its end without it. `GapIsSeen` says that this is noticed: a
collector that is over or done while something is still sent, or was cut off, has missed a chunk, and then `judge` does not accept.

`PipelineProofs` (`MemoryIsBounded`, `PipelineCreates`). `BudgetExact` is a sum over a set, a recursive fold. `SumIsWeight` shows that it is the number of
bytes, told apart by their item and their place in it; from there on the library's facts about the `Cardinality` of unions and differences do. `Apart` (an item is
unclaimed, in one hand, finished or lost) and `PassedIsGone` (nobody has to do with an item the main thread has passed) make the sum change by
exactly what `acquire` and `release` add and take. `InOrder` relates the archive to the item the main thread is at; with it each step of the pipeline is a step of
`ArchiveCreation` or a stutter. `AliveCounted` ties the counter that `take` looks at to the workers that are there.

`VolumeSetProofs` (`CutIsWhole`, `NothingIsLeft`, `SeenAsFile`). The mapping to `FlatFile` concatenates the volumes, again a recursive function. Because all volumes but the last have
the same length (`Full`), the concatenation has a closed form (`BytesOf`: byte `p` of the whole is byte `(p - 1) % Size + 1` of volume `(p - 1) \div Size + 1`), and `FlattenIs`
shows that it is that. What a write, a seek and a change of length do to the volumes is then compared with what they do to a file byte for byte. For the
commit the invariant has a part for each phase (`WritingWhere`, `MovingWhere`, `UndoingWhere`, `DroppingWhere`): how far the renames have come says which names stand
for new volumes, which are as they were, and which temporary files are there. `NothingIsLeft` keeps the file whose removal failed apart from the others: it is off the list (`litter`), and the
theorem says that there is no other way off it, and that a single file that was completed leaves none.

The library's induction theorems take an operator as a parameter and cannot be used with these provers. Where an argument needs induction it is made with a *set* instead
(`FiniteInduction`, `NumberInduction`, `LeastIs`), from the library's theorem that a well-founded relation has minimal elements.

`ExtractionProofs`, first part: one extraction (`NamesAreWhole`, `OkIsComplete`, `OldFilesKept`, `OnlyOverwritten`). `Ledger` relates the disk, the staged item and those that wait: at most
one item is staged, its temporary file is the only one that exists and is not stuck, everything that had its turn has a smaller number than what waits, and
the staged item aims at its own path or at a name no item has (`Aimed`). The order is what makes `OkMeansAll` true: an item can lose its
place only to the staged one, which is later and has the same path (`Shared`). `Accounted` says of each item that had its turn what became of it; it holds as long as 7z.dll has reported
nothing bad (`Clean`), since an item whose result was bad is removed without being listed as missing, and the result then is no "ok". An item 7z.dll passes over is the third case, `sz.passed`: it is written down when the DLL leaves it out, opens it and gives no result,
or is told of no items, and `OkMeansAll` is about all the others. For the engines of Rust the set is empty. `OldAsked` says that
the user was asked about every old file, because nothing makes an old file come back. `OldFilesKept` holds without any further condition: an old file goes only for an item answered "overwrite", or
"rename" when all the names of `unique_path` are taken, where the code returns the path itself (`formats.rs:48`, "practically unreachable, then the same as overwriting"). `AnswersKept` has no such exception,
and so `OnlyOverwritten` states it under `[]NamesLeft`: while an item is written, `unique_path` would find a name. `NamesLeft` is an invariant of the instance TLC explores, where four names are tried and three items
and one foreign file can take them; the code tries 9998.

`ExtractionProofs`, second part: the window that starts it (`ExtractWindow`; `ShellReachesJob`, `EndIsHonest`). The invariant `ExtractInv` has two halves, as the script has. What holds whatever the user does is `Gathering` (the buffer has a timer as
long as it holds a path; its generation counts the calls, which is why a timer that finds its own generation sends off everything), `Issued` and `EndsOnce` (the number of a job is issued once, and its end is on its way or kept, never both), and `Places` (a window that is not up has no calls; there is one call that takes a request).
What holds until [OK] is pressed while a request is being taken is `Safe`. Its core is `Exclusive`: of checking, starting, asking, the password, the end of a job and the taking of a request one at most goes on, and `Reasons` that there is one call at a time, and why. So an answer that arrives is about the archive whose turn it is: its generation is the current one and
its archive `Target(w)`. Without that, the comparison of generations alone would not do, since [OK] does not start a new one. `Checked` carries the archive of the list of conflicts to the job; `Followed` that the number the window waits for is that of a job on its archive (`OfJob`) until it has heard of its end, and afterwards of nothing; an end that came
before the number counts, because it is kept. `SoFar` is the loop invariant of the batch: without an issue everything before `idx` is extracted. `crossed` is the exception of both properties and is put in by the code, not by the proof: the button looks at `checking` and `starting` and not at `restarting`.

`CompressWindowProofs` (`RequestsAreKept`, `ResultIsHonest`, `EndIsHeard`). The functions of the window and the coordinator are operators, so the proof goes
function by function, as the code does: what `Conclude`, `Hear`, `Started`, `NotStarted` and `RunPlan` make of a window (`GoesOn`, `Begun`, `Filled`), what `Look`, `Plan`, `Apply`
and `Pump` make of both (`Settled`), and then one short lemma for each action. `NoneForgotten` needs `Remembers`: what is in the queue is held, or the coordinator has
`more` to fetch, or an epoch it has not seen, or a signal is on its way; with `Asks`, which says the same of the answer of a call under way with the epoch taken *before* the call,
this survives every interleaving of arrivals with calls and every lost answer. `Rested` is the other half: a coordinator that could go on has nothing to do, because each stretch ends in `Pump`
and each change of `Busy` or `Dirty` is told. `HonestResult` needs `Checked`: a batch without an issue has made and checked exactly the items before `index`, so no item can be counted twice or left out
when a job does not start. `HearsEnd` needs `EachOnce` (a result is on its way or kept, never both, and its job is no longer in the registry) and `Hears`: between the answer of
`createArchive` and its arrival the result is already kept, or still to come, or the job is one of `silent` or `dropped`. A panic can come in any of these moments, and `EachOnce` gives a job that panicked no
result; so `EndIsHeard` says which ends are missed, and that no order of number, result and drained events loses another one.

`SessionProofs` (`ArchivesOpenOnce`, `ItemsAreRight`). `Counted` says what `owed` is: the number of windows that live and have the archive in their place. `TakenOnce` then is a matter of who still looks:
`OnTheWay` (a viewer's place is filled only before it is up) and `Announced` (what lies in the place of the main window is met by its mount, a signal, or a request that is about to signal). The signal is lost if nobody listens, and this is harmless just because the window looks again when it comes up.
`LeftOnce` is what makes one place enough: only one request of the start leaves an archive there, and it has not signalled before. `OneWindowEach` is not inductive, since a window has an archive from the moment it lies in
its place, and is in the record only when it has taken it. So the invariant speaks of what a window *claims* (`Claim`): `Apart` says that no two claim the same archive of the disk, that a request which found no window will still find none when it is served, and that the second archive of the start
is claimed by nobody. The password dialog opens an archive again, which is why `OwnArchive` has to say that it is the one the window is recorded for. All of this holds only as long as no lapse happened (`Clean`); the rest of the invariant always. For `ItemIsRight`, `Fresh` compares the version that was read with the one that was due:
an edit only raises the version, and a part of an item is never in the cache because it is written beside it and renamed.

`JobProofs`, second part: the window that follows its jobs (`MainWindow`; `ListStaysRight`, `ReportsAreOwn`, `DialogsSettle`, `PasswordGoesToAsker`). Nothing ties the window to the registry but
calls that are answered and events that arrive, so the invariant is about what is on its way. `Told` says that of each job: its start is heard before its end, it has one end, and one kind. From there
`PanelEnds` and `DialogsWait` say that what the window waits for still comes: the panel of a running job has that job's end before it, and a dialog that runs has a call to be answered or knows a job that is
`Due`, or a job that is `silent`, of which nothing will come. `Own` is what makes a report the right one: as long as nothing happened blindly there is one call of a kind, and what is awaited, known and reported is about the archive of the dialog. `Lists` says that an edit whose
end is not heard yet is tied to the window (`Tied`: by `editId` or by the answer that brings it), and that a list older than its archive has such an end, or a call that reads it again, before it (`Latest`).
`Asked` ties the dialog to the place its flow continues from. `asker` is not taken from there: it is the archive of the answer or of the job's error that opened the dialog. That `pend` holds the same archive is what has to be shown, and is so except where a flow has come late or behind, or the
error was that of a job that was taken for one's own (*blind*). All are invariant with the exceptions in `lapses`, each of which names a step that makes it false; none is put in by the proof.
`PasswordForAsker` also needs that nobody picks files with a password (`PickedPlain`). The proof showed that the property as first stated does not hold: a test that is started while the password
dialog of another test is open turns `pendingTestArchive` to the new archive (`stores.js:682`, `433`), and what is typed is tried there. It takes four acts of the user, one more than the run's bound. This is the exception *behind*.

`HostProofs`, second part: the settings and the registry (`Registration`; `RegKeysRight`, `RegSyncDone`, `RegNobodyLoses`). A property of the keys at the end of a sync can only be proved from what is true between two of them, so the
invariant `RegInv` says of each step of `work` what it will find, and of each promise that it has been kept or that its step is still ahead. `Agenda` is about the order alone: the menu first, then a save, then the keys, each key of an extension after
the one before it (`InOrder`), a list cut only at its front (`Follow`: whoever gives the class back will also remove the ProgID), every step of a sync before the end that says what it is for (`EndComes`), and no save that the sync behind it contradicts (`Saving`).
`Keys` says that the operation whose turn it is finds what the ones before it wrote (`Begun`, `Found`), that what a sync is to do has been done or is ahead (`Progress`), and that an extension is consistent at every moment (`Clear`): what is not held is not ours at all, what is ours has its owner
as the backup, what is offered or chosen can be opened. `Consistent` has to be stronger than `BackupRight` and `NeverBroken`: a sync only looks at what is wanted and what is held, so nothing but "not held, not ours" says that an extension that is neither has no key that names us. Everything that interferes (another program, the user,
a failed key, a death, a move of the folder) keeps it for the extensions that are not excused. `Menu` is the same for the menu.
`Wish` follows what the user wants through the places where it is copied: the file (`FileWish`), the copy of a window that has read it (`ReadWish`), that of a window that has saved and not synced (`WinWish`), and the work (`WorkWish`). It is claimed only as long as `past.lost` is false.
The lemmas on sequences (`OrderLeft`, `AgendaSync`, `MenuWork` and the ones before them) say what is left of the order when steps are taken from its front or put there; the loops over the extensions are a function of the index (`Each`), since nothing can be proved of a recursion.
Proving `WishKept` showed two exceptions that no run within its bounds had: two windows that both have read the file and save one after the other, and a process that dies with a window between reading and saving. Both are in the code (`SettingsWindow.svelte:104`: the file is read, then all of it is written)
and both now set `past.lost`.

Only model-checked: all liveness properties (they depend on fairness and `ENABLED`, which are out of the prover's reach), and
everything about `CommandLine` with `Backends`. Its properties speak of one command from its start to its end, so there is a program counter in each of its loops to write an invariant for; that has not been done.

## 6. Where the code departs from what it says

Each of these was met while modelling. The definition named states what the code, a comment or a message says; it is no property of a run,
since it does not hold. Added to the configuration named (in place of its properties, as INVARIANT or PROPERTY, with the constants given here) it makes TLC show the behaviour.

1. `Served` (`CompressQueue.cfg`, PROPERTY). A request that arrives after the `Destroyed` handler has looked at
   the queue and before the window manager forgets the label is appended for a window that is gone (`commands.rs:1360`), and stays
   there until another one comes. The reopening thread waits for that reason (`commands.rs:1499`); the opening command does not.
2. `Ends` (`MCPipeline.cfg`, PROPERTY). A worker claims an item (`parallel.rs:235`) before it has budget for it; later items
   may take all the budget, which only the main thread gives back (`create.rs:253`), and it waits for the earlier
   item. Nobody gets on until the user cancels.
3. `DeathIsReal` (`MCPipeline.cfg` with `MaxPanics = 0`, INVARIANT). A cancellation between the two looks of `take` (`parallel.rs:277`, `281`) makes it report a
   panic that did not happen: the job ends as failed, not as cancelled.
4. `CancelReturns` (`MCBigFile.cfg` with `Declared = 6`, `SlotsPerWorker = 3`, `MaxPanics = 0`, PROPERTY). When the collector fails while the channel is full, the workers leave and the reader blocks
   in `send` (`bigfile.rs:344`) for good: the receiver is kept alive by `compress` itself (`bigfile.rs:272`).
5. `KeepsOld` (`MCVolumeSet.cfg`, INVARIANT). The error of a failed commit says that the existing files are as they were (`outfile.rs:169`); the rename of the first volumes has
   replaced the old ones by then.
   `ListIsLeft` (same). `TmpPath::drop` ignores a `remove_file` that fails and takes the path off the list (`outfile.rs:126`): the file lies there, and the note of the shutdown, which says that
   the list is what is left (`main.rs:215`), does not name it.
6. `MadeOnce` (`MCCompressWindow.cfg`, INVARIANT). When the job of an automatic request is refused (another job runs), the request stays in hand and its form on the
   screen. The user starts it; when that job ends, the coordinator tries again (`compressCoordinator.js:186`), and the archive is made a second time over the first.
7. `CancelEnds` (`MCExtraction.cfg` with `Backends = {"egg"}`, PROPERTY). `CancelWriter` of the EGG engine reports a cancellation as `Interrupted` (`unegg/extract.rs:34`), which
   `write_all` (`unegg/mod.rs:277`) takes for a reason to try again: it tries for ever. The comment at `unegg/extract.rs:143` says that [Cancel] works at once.
8. `BackToForm` (`MCExtractWindow.cfg`, INVARIANT). When the password was asked for before the conflicts and the user cancels the conflicts, the window stays on the
   progress page with nothing behind it; the comment at `ExtractWindow.svelte:586` says that it goes back to the form.
9. `CheckedAlways` (`MCExtractWindow.cfg`, INVARIANT). [OK] is not disabled while a new request is being taken: the check of the old one can let the new one overwrite unasked.
   `DeletedAsked` (same): the tick "delete the archive" of a form is not reset for the next request (`doRestartFromContext`).
10. `EditIdClears`, `CloseCancels` (`MCMainWindow.cfg`, INVARIANT). The id of an edit is not forgotten at `job:error`, nor when the end comes before the answer
    (`stores.js:814` says it is that of the edit in progress), nor after a panic; a test dialog that is closed before it knows its job leaves it running (`stores.js:728`).
11. `FocusedShows` (`MCSession.cfg`, PROPERTY). A window is recorded as having an archive open even if opening it failed, and is then brought to the front for it (`commands.rs:517`).
12. `NoneLost` (`MCCommandLine.cfg`, INVARIANT). `-delsrc` removes a folder with everything in it: a file that appeared there after the inputs were collected is deleted without being in the archive (comment at `cmdline.rs:621`).
    `SourcesSafe` with `Inside = TRUE`: an archive that is made inside a folder that is compressed is deleted with it.
    `VerifiesMade` (same). `-testdst` verifies the archive after creation (`cmdline.rs:59`); with `-v`, `produced_files` (`cmdline.rs:484`) finds an old archive of one file of that name first and tests it.
13. An engine that passes items over. `TestReadsAll`, `ReportComplete` (`MCCommandLine.cfg`, INVARIANT), `OkMeansDone` (`MCExtraction.cfg` with `Backends = {"7z"}`, INVARIANT). The detailed report and the scan compare the number of results with that of
    the items, since 7z.dll may return `S_OK` with results missing (`sevenzip/mod.rs:1003`, `1144`, the test at `1052`). `do_test` (`mod.rs:886`) and `do_extract` (`mod.rs:434`) do not, and an extraction is then "ok", on which the window deletes the archive
    (`mod.rs:513` says that "ok" is not said if an item is missing). When the number of items cannot be read, `collect_meta` (`mod.rs:239`) returns none, and the report has nothing to compare with either.
14. A panic of a backend. `PanicIsHeard` (`MCCompressWindow.cfg`, INVARIANT; `MCMainWindow.cfg`, INVARIANT; `MCExtractWindow.cfg` with `Chosen = {a}`, `MaxJobs = 1`, PROPERTY). The result is emitted after the backend returns; a panic unwinds past that
    (`commands.rs:575`, `659`, `762`, `950`), `JobGuard` frees the registry, and no event is sent: the window shows a running job until it is closed.
15. `KeptUntilKnown` (`MCCompressWindow.cfg`, INVARIANT). Events before the number of the job is known are kept up to 64, progress of other jobs included (`CompressWindow.svelte:364`, `ExtractWindow.svelte:203`): the end of the own job can be dropped.
16. `NeverOverwritten`, `NeverStranded` (`MCExtractWindow.cfg` with `Chosen = {a, c}`, `MaxJobs = 1`, INVARIANT). There is one place for the context of the extract window, and a second request overwrites one the busy window has not taken (`commands.rs:1718`); a window that is closing after its
    success is told of a request (`commands.rs:1729`) and does not take it, though the comment at `commands.rs:1728` means to keep it from being thrown away.
17. `ListAlwaysShown`, `ReportAlwaysOwn` (`MCMainWindow.cfg`, INVARIANT), `AskerAlways` (same, PROPERTY). `reloadEntries` writes the list it has awaited without looking whether another archive is shown by now (`stores.js:863`); any `job:started` while an id is awaited is taken for one's own
    (`stores.js:692`); the one password dialog sends what is typed to another archive than the one that asked (`stores.js:433`).
18. `AskedAlways` (`MCExtraction.cfg`, PROPERTY). A file that another program puts there after the conflicts were looked for (`commands.rs:805`) is replaced by the default policy, without the question `README.md:99` speaks of.
19. `CacheIsSound` (`MCSession.cfg`, PROPERTY). The place of an unpacked item depends on the paths alone; after an edit of the archive the old item is run (`commands.rs:2030`; `2054` calls it a sound cache).
20. `UneditedKept` (`MCRegistration.cfg`, PROPERTY). `persist` reads the file again and then writes the list of extensions as the window holds it, edited or not (`SettingsWindow.svelte:113`; `98` says that fields that were not edited are protected): what the banner has added is gone.

The properties that hold name these exceptions where they must: `Starved`, `CollectorFailed`, `crossed`, `LeftRunning`, the elements of `lapses`, `past.excused` and `past.lost`, and the history variables `silent`, `dropped`, `overwritten`, `litter` and `passed`, into which only the code's own step writes. The exceptions of the modules are:

- `MainWindow`: *overtaken*, the list read again belongs to another archive by the time it comes; *blind*, the id of the job was not known when the dialog was closed, or another window's job was taken for one's own, its error and its request for a password included; *late*, a password arrives after another flow
  has taken the dialog; *behind*, a test was started while the dialog asked for another one; *early*, the end of an edit came before its id; *unread*, the list could not be read again; *left*, the password dialog was cancelled beside a dialog that runs.
- `Session`: *overlap*, two openings of one archive at once each find no window; *moved*, a window was used for another archive. A main window that was closed keeps its entry in the record.
- `Registration`: `past.excused`, a key that could not be given back: `unregister` ignores that and forgets the backup, and the extension is never unregistered again; or another program writes the very key in the same moment. `past.lost`: a window saves what it
  has read before somebody else saved, two windows have read at the same time, the process dies while a window has read and not saved, or what it got as defaults for a file it could not read (the comments at `ExtractWindow.svelte:849` and `CompressWindow.svelte:562` say that nothing is saved then); or `/inst` moves an unreadable file away and dies, so that the next start finds no
  file and unregisters everything.
- `Extraction`: a file that another program puts in place after the user was asked is overwritten; two items of one job with one path: the later one replaces the earlier one and the result is "ok" (`unzip/extract.rs:53`); an item 7z.dll passed over (`sz.passed`).
- `VolumeSet`: `litter`, a temporary file whose removal failed. `CompressWindow`, `ExtractWindow`, `MainWindow`: `silent`, a job that panicked. `CompressWindow`, `ExtractWindow`: `dropped`, an end that found the memory for events full.
  `ExtractWindow`: `overwritten`, and `Stranded`, a request told to a window that goes or whose window went before it took it.
- `Backends`: when the number of items cannot be read, `collect_meta` returns no items (`sevenzip/mod.rs:239`): extraction is "ok" with nothing, an edit drops the old items (`Uncounted`). What 7z.dll passes over in a test is not read (`passed`), and is no sounder in the archive `-testdst` has tested (`Untested`). With `-v`, `produced_files` finds an old archive of one file first and tests that (`OldTested`). A vanished
  source is reported as a wrong password when one was given, and so is a damaged encrypted archive.

## 7. What is left out

- Bytes: compression, CRC, encryption, the formats of headers, the parsers of ALZ and EGG. Their outcome is a choice of success or failure.
- COM: vtables, reference counts, PROPVARIANT. 7z.dll, the shell, the window manager, the registry and the file system are external and modelled by what the code relies on.
- In `JobManager`: the kinds and targets of jobs, and `ProgressGate`, which paces progress events.
- In `CompressQueue`: the 3 s after which a reopening gives up waiting for the label, the
  exit of a process started from the command line. That the close handler is attached after the window was built (`commands.rs:1435`) is one step with it.
- In `CompressWindow`: the closing of the window after success, options that cannot be carried out (`canRun`), a lost answer of
  `create_archive` (also for want of a thread: its spawn can fail after the registration), the cancel button (a job may end as canceled at any time). `NoneForgotten` accepts a blocked coordinator. It can
  stay blocked with an empty form: `doLease` sets `blocked` after the await of `peekStandalone` without
  looking at the form again (`compressCoordinator.js:108`), which the user may have cleared meanwhile; the next change of the window or signal
  releases it.
- In `BigFile`: the kind of I/O error. In `VolumeSet`: `VolumeReader`; another program that puts the next volume number beside the target while the files are renamed (`outfile.rs:329`), and the death of the process between two renames (`outfile.rs:339`), from
  which no code recovers.
- In `Backends`: that `UpdateItems` of 7z.dll leaves out an item it was given; its result is an error or the whole update.
- In `Extraction`: an item whose size the list does not give is not compared with what was written (`settle_pending` skips it likewise).
- In `ExtractWindow`: progress, log, the saving of options, opening of the target folder. In `MainWindow`: sorting, selection, preview. In `Session`: the removal of the temporary folder at the end.
- In `Registration`: icons, the name of the program in the registry, the picker, notification of the shell; the list of recent programs of the explorer is a free choice. One settings window edits one value at a time; overlapping writes come from two windows.
- Translations, skins, display functions, update, crash report, `spike-7zdll`: pure, wrappers, or not part of the program.

## 8. Plan

Done, in this order: `JobManager` (everything else is started and cancelled through it), `CompressQueue`,
`Pipeline`, `BigFile`, `VolumeSet`, the proofs of the first two, `CompressWindow`; then `Extraction`, `ExtractWindow`, `MainWindow`, `Session`, `Backends`,
`CommandLine`, `Registration`; then the proofs of `BigFile`, `Pipeline`, `VolumeSet`, `Extraction`, `CompressWindow`, `Session`, `MainWindow`, `Registration` and `ExtractWindow`.

Open, proofs: `CommandLine`, whose safety is model-checked only. For the model: `VolumeReader`, the options of the windows, the other fields of the settings.
