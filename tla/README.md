# Wairz: a TLA+ verification project

Wairz takes firmware images in, unpacks them, and analyses what is inside. A
FastAPI backend answers requests, an arq worker runs long jobs, PostgreSQL holds
every piece of state that clients look at, Docker runs emulators and fuzzers, and
bridge programs on the user's host read partitions and serial ports of attached
devices. Almost every long operation has the
same shape: a request changes a status column, answers 202, and a background
task moves the column on while a client polls it. What can go wrong is therefore
mostly about *who writes a status column, from what it read how long ago, and
who is left to write it when a process dies*. Where something outside the database
stands behind the column (a container, a serial port, a project on disk), it is
also about what becomes of that. These modules model both.

Paths below are relative to `src/backend/app/` unless they start with `src/`.

## 1. Inventory

| Part | State | Operations | What is hard |
|---|---|---|---|
| Firmware upload: `services/firmware_service.py`, `routers/firmware.py` | a firmware row with `upload_stage`, the file at `storage_path`, `extracted_path` | upload, post-processing task, delete, startup reaper | dedup check before insert; task dies with the process; file removed before the commit that replaces it |
| Firmware unpacking: `routers/firmware.py`, `workers/arq_worker.py` | `projects.status`, `extracted_path`, `unpack_stage` of each firmware | unpack, delete, upload-rootfs, import, task (two implementations) with a `finally` block | one status column for all images; task started before the request commits; reads and writes of the clean-up are apart; redelivery |
| Device acquisition: `services/device_service.py`, `routers/device.py` | a dump-session row with status and JSON list of partitions | start, cancel, import, task, reaper | a session that never re-reads; aliasing of a JSON value; overlapping requests; late answers |
| Device bridge: `src/scripts/wairz-device-bridge.py` | current dump, cancel event, image files | dump_partition, dump_cancel | one shared cancel event; check before an await |
| Analysis runs: `routers/sbom.py`, `routers/hardware_firmware.py`, `services/dotnet_decompile_service.py`, `workers/walker_registry.py`, `main.py` | status, error and result column per analysis | request, run, automatic follow-up, reaper | check before commit; follow-ups that only log failures; a reaper in one process for runs of another |
| Emulation sessions: `services/emulation/service.py`, `routers/emulation.py`, `workers/arq_worker.py` | session rows, containers | start, boot job, stop, status, exec, delete, expiry job | limit counted before the insert; stop while booting; the container is on record only at the end; two processes boot |
| Fuzzing campaigns: `services/fuzzing_service.py`, `routers/fuzzing.py` | campaign rows, containers | create, start, spawn task, stop, status, orphan clean-up | a clean-up that reads, lists and writes at different times meets live tasks |
| Ghidra analysis: `services/ghidra_service.py`, `ai/tools/ghidra_research.py`, `workers/run_ghidra_analysis.py` | table of leaders per process, lock files, projects on disk, revision counters, cached analyses | ensure analysis, run a script, detached analysis, eviction | nested locks; a leader that fails; a project evicted or renamed under somebody |
| UART sessions: `services/uart_service.py`, `src/scripts/wairz-uart-bridge.py` | session rows; one port and one reader task in the bridge | connect, disconnect | check, call and insert are apart; the bridge is not told which session |
| YAML caches: `utils/yaml_cache.py` | cached value, modification time, warning | get, clear | stat and read are apart; equal times |
| Everything else | | | see section 8 and `PROJECT.json` |

How the parts interact: an upload creates the firmware row that unpacking works
on; an import turns the image files of a dump into a firmware row and starts an
unpack task for it; analyses run on an unpacked firmware; at startup the backend
runs the reapers of uploads, dumps and analyses before it serves requests. No
reaper covers `projects.status`.

`PROJECT.json` lists the hazards at the lines where they bite, and the
properties that would notice each one going wrong.

## 2. Modules

| Module | Models | Checked by | Proofs |
|---|---|---|---|
| `Upload` | uploads of one project | `Upload.cfg` | `Upload_proofs` |
| `Unpack` | unpacking, import, rootfs upload and deletion in one project | `Unpack.cfg` | `Unpack_proofs` |
| `DeviceDump` | dump sessions of one project and the bridge | `MCDeviceDump` | `DeviceDump_proofs` |
| `ScanJobs` | the analyses of one firmware | `ScanJobs.cfg` | `ScanJobs_proofs` |
| `Lifecycle` | abstract: an outcome stays | as a property of `Upload`, `DeviceDump` and `Emulation` | the refinements in their `_proofs` |
| `Emulation` | emulation sessions of one project, boot jobs, containers, expiry | `MCEmulation` | `Emulation_proofs` |
| `Fuzzing` | fuzzing campaigns, spawns, containers, orphan clean-up | `Fuzzing.cfg` | `Fuzzing_proofs` |
| `Ghidra` | Ghidra runs of several processes on shared projects and cache | `MCGhidra` | `Caches_proofs` |
| `Uart` | UART sessions of several projects and the bridge with its one port | `MCUart` | `Uart_proofs` |
| `YamlCache` | one configuration cache and the file an operator edits | `YamlCache.cfg` | `Caches_proofs` |

The `MC` modules give constants that are functions or sets of pairs, and in
`MCDeviceDump` a symmetry set; the other modules are checked as they are.
Definitions whose names start with `Mut` are mutated forms of the definition
that follows them (a dropped guard, a missing case, an off-by-one). They are used
by no specification: each shows, put in its place, that the property it is
listed with in `PROJECT.json` notices that mistake.

### The database in the models

The modules of database state follow SQLAlchemy sessions on PostgreSQL at READ COMMITTED, with
`expire_on_commit=False` (`database.py`):

* a request handler commits when the request ends (`get_db`) or where it says so;
  what it read before is what it decides on, so a check and the commit that
  follows it are separate actions;
* a column is written only if its new value differs from the one the session
  read (`SetStatus` in `Unpack`, `saw` and `View` in `ScanJobs`, `LoadedItems` in
  `DeviceDump`);
* `SELECT ... FOR UPDATE` makes the writers of that row wait (`Locked`);
* an UPDATE of a row that was deleted raises, and the transaction is rolled back.

### Upload

`UploadBegin` is the request up to the dedup query, `UploadCommit` the insert,
its commit and the start of the task, `UploadFails` a refusal (the unique
constraint, or a 7z archive that needs a password), after which the bytes stay on
disk. The task goes `spawned`, `detect`, `extract`, `analyze`; each arrow is a
commit of `upload_stage`. `RemoveArchive` is the `os.remove` of a rootfs ZIP,
which happens in the middle of `extract`. `RunnerRaises` is the failure handler
with its fresh session, `RunnerLost` the outer guard that only logs. Delete
removes the files at once (`DeleteFiles`) and the row at commit. `Restart` runs
the reaper before requests are served; `old` holds the rows that are older than
the grace window, and `spared` the ones a restart left alone.

What an archive contains is a choice (`found`); the many formats that lead there
are one action because they make the same writes. Time is only the passing of
each row's own grace window; the order in which the windows of different uploads
pass is not kept. Rows added by an import do not take part: they are born without an
upload stage in progress.

### Unpack

`UnpackBegin`, `UnpackEnqueue`, `UnpackCommit` are the three parts of the request:
lock and checks, start of the task, commit by `get_db`. `UnpackAbort` is the 410
answer or a queue that refuses the job. A task (`pc`) reads its row (`Start`),
reports progress in sessions of its own (`Progress`), returns or raises, reads
project and firmware in a last session (`RunReturns`), writes (`FinishCommit`,
`FinishMissing`), and goes through its `finally` block in two steps, its reads
(`FinallyRead`) and its writes (`FinallyWrite`). `job[t].via` tells the three
implementations apart: the arq job, the in-process task and the task of an
import, which has no `finally`. They differ in `FinishMissing`, `Verdict` and
`AfterBody`.

An unpack has one of three results: a failure, a file system, or an RTOS image
that was recognised (`workers/unpack.py:213-222`), which is a success without an
`extracted_path`. `Outcome` is the project status each result gives and `Recorded`
what it does to the path. `author` is the firmware whose request or task wrote
"ready", `rtos` holds the images that were recognised; both are history.

`lapsed` is a history variable. It records the two ways the clean-up misses a
stuck status although nothing crashed: the task's last look at the project came
before its own request committed, or its firmware was deleted between the
clean-up's reads and writes.

Reads of project and firmware in one session are one step. A commit that writes
a result is assumed to update the firmware row (it always sets log and progress
columns), so that it notices a deletion. `ImportCommit` may come after the
import's task has already run. The end of an arq job and arq's acknowledgement are
one step here and in `ScanJobs`; `Emulation` keeps them apart.

### DeviceDump

Action names follow `DeviceService`. A dump's task keeps one session: `view` is
the status of the row object in that session, `mem` the list of partition states
it works on. `_persist_partitions` writes the column only if the new value
differs from `LoadedItems`, and the loaded value contains the very list that was
just changed, so it never does. `status` and `items` are what is committed.

The bridge side keeps `phase` for each `dump_partition` call, the one `current`
dump and the one `cancel` event. A call passes the `is_dumping` check
(`BridgeAccept`), asks the device for the partition's size, and only then becomes
current (`BridgeOpen`), so two calls can pass. The task may stop waiting at any time
(`CallFails`) while the bridge goes on; `Waiting` says whether an answer is still
wanted. `disk` is "part" while an image is being read or after its read stopped,
"read" once the stream ended. The bridge does not look at adb's exit status, so
"read" is all that either side knows.

### ScanJobs

One status column per analysis (`sbom`, `vuln`, `cve`, `dotnet`), an `error` and a
`result` set. Every session reads the row in one step and commits in another: `saw`
is what the latest session of a request or run has read (`View`), and a commit
leaves out the columns whose new value is the one it holds.

`Post` is the request's check, `PostCommit` its commit and the start of the run. A
requested run selects its row (`RunOpens`), commits "running" and clears the previous
outcome (`RunBegin`), works, and ends in `RunCompletes`, `SbomEmpty` or `SbomChain`. If it
raises (`RunRaises`, `OpenRaises`), its handler selects the row on a fresh session and
commits "failed" (`FailCommit`). `RunLost` is a failure of the bookkeeping itself and
`JobTimeout` the cancellation of the worker's job by arq. The .NET trigger enqueues its
job before it commits; the worker may have read the row by then, which is `early` in
`PostCommit`, and its first write waits for that commit. `same` says that a
result or an error text equals the one the session holds.

A finished SBOM with components starts two follow-ups (`SbomChain`); these are the
`Auto*` actions, which set neither error nor result. Three history variables name what the
properties except: `dropped` (analyses whose latest run ended without a verdict), `bare`
(whose "completed" a follow-up wrote), `blind` (whose latest commit changed an
outcome unawares, because it left out a column another session had changed). A
later commit of the column removes an analysis from `bare` and `blind`.

The members of `Run` are slots: a run that is over frees its own, and `MaxPosts`
bounds the requests. The commits of a run's results and of its final status are one
step.

### Emulation

`Count` and `Submit` are the two halves of a start request: the count of active
sessions, and the insert that follows. `counted` is the number of requests
between the two. The job (`job`) goes `queued`, `booting`, `setup`, `probe`:
`SpawnBegin` loads the row and commits "booting", `CreateContainer` and
`SetupDone` work on a container that only the job knows (`mem`), and the last commit
(`Ready`, `ProbeFails`, `SetupFails`) writes status and container id over whatever the
row says by then. Qiling sessions have no container and end in `QilingEnds`. `Via`
says whether the arq worker or the backend boots a session: a crash loses the
jobs of the backend and has those of the worker delivered again. A job of the worker
that has made its last commit waits for arq's acknowledgement (`ack`,
`Acknowledge`); a crash before that has it run once more on a row that has its
outcome, and `again` records such sessions.

A stop request acts on Docker first (`StopBegin`) and marks the row later
(`StopCommit`). The expiry job loads its sessions, stops them one after another
and commits once (`ExpireBegin`, `ExpireStop`, `ExpireCommit`), so rows it has
flushed are `Locked`. Which sessions are overdue is a choice. A container may exit
or its emulator may die inside it (`hollow`). `raced` records the
sessions that were stopped while their job was at work.

The Docker calls of a stop are synchronous and block the event loop of the process
that makes them. The model lets every other actor act in between: a stop in
the backend meets a boot in the worker, which is the case that matters, and a few
interleavings that one process could not produce.

### Lifecycle

The promise that uploads, dumps and emulation sessions make their clients, in the
abstract: a unit of work is opened, gets one outcome (a member of `Result`), keeps it,
and may be discarded. Each of the three modules maps its rows to it with `PhaseOf` and
states the refinement as a property:

* `Upload` (`FinalStageIsFinal`): the outcome is the stage, "ready" or "failed".
* `DeviceDump` and `Emulation` (`OutcomeIsFinal`): the one outcome is "over", a row with
  a final status *and* no task or job left to write it.

The weaker reading in these two is what the code keeps. Until its task has
ended, the task of a dump overwrites a cancellation, and a boot overwrites a stop; and
a cancel request that was under way may still mark a completed dump cancelled.
`ScanJobs` and `Fuzzing` make no such promise, since an analysis or a campaign can be
started again.

### Fuzzing

The same pattern with a restart: a campaign that was stopped can be started
again, keeps the id of its old container until the new one is recorded, and may
have two tasks, since `StartCheck` and `StartCommit` are apart. Containers bear the
name of the task that creates them. `Create` with "queued" is the MCP tool. The
cron job is `ReapLoad` (all rows), `ReapList` (list containers, decide, remove) and
`ReapCommit`; `Vanished`, `Unrecorded` and `Doomed` are its three decisions, taken
from `seen`, the rows as it loaded them. `reaped` records the containers it removed.

### Ghidra

A caller (`pc`) is a coroutine of a process (`ProcOf`). `ensure_analysis` is
`EnsureMiss`, `Lead` or follow, `AcquireOuter`, the second look (`RecheckHit`),
`Analyse`; `Return` is the `finally` block, which also ends the followers. `PrepareFails`
is a leader that raises before its `try`. A plain binary goes on through `AcquireInner`,
which is how every script on one runs: import or reuse of the project, the marker, the
eviction (`Evicted`). The lock file is opened anew each time, so the two
acquisitions of one caller are distinct and the second waits for the first.

An archive (GZF) has a project that its first script restores, under a lock file
of its own: `AcquireGate`, `RestoreBegins` (Ghidra makes the directory), `RestoreEnds` or
`RestoreStops`. All that any caller looks at afterwards is whether the directory is there,
complete or not (`Restored`). `ensure_analysis` looks once, at its start (`routed`), a
detached worker when it runs (`InProcessMode`); an archive without a project goes the
way of a plain binary. Scripts change the project: `names` is its version, `rev` the
counter beside it, and the cached analysis carries both what it saw and the counter it
was stamped with (`RunEnds`, `Commit`). `GzfSaves`, `GzfBump`, `GzfClear` are the three
effects of a script that changes names; one that fails or is killed may have saved as
well, without the increment (`GzfFails`). `raced` records archives with such a
script, or where `Unnoticed` held at an increment; `lost` the entries of the leader
tables whose leader raised outside its `try`, until their process dies.

Not modelled: a caller that is cancelled while a thread acquires the lock for it
(`ghidra_service.py:246`), which leaves the lock held until the process ends; the
read-only decompilation of archives (1875-2000), which changes none of this state; a
Ghidra process that survives the process that started it; the Redis lock of the cloud
backend.

### Uart

Each request has a place in the backend (`pc`) and one in the bridge (`phase`). The
bridge awaits the opening of a port, the end of a cancelled reader and the closing
of a port, so its calls interleave there. `serial` is the port it holds, `shut` the
ports that a thread closes, `task` the reader on record, `readers` those that
run. A reader reads whatever port the bridge holds. `DeleteFirmware` and
`DeleteProject` take session rows away by the cascade of their foreign keys
(`models/uart_session.py:18-26`); nobody tells the bridge. `overlapped`, `crossed` and
`unplugged` are history: the properties hold as long as those things did not
happen, and the README lists what follows when they do.

### YamlCache

`get` is `Hit`, or `Stat` followed by `Accept`, `Reject`, `ReadFails` or `Undecodable`;
a missing file is `HandleMissing`, one that cannot be stat'ed `StatFails`. It holds
its lock throughout, so one call at a time is modelled. The operator writes
versions, complete or not (`Save`), with a new time or within the same tick, and
moves versions away and back (`Move`), also between stat and read. `smeared` records
the times under which something else was read.

## 3. Common assumptions

* One backend process and one worker process, as `src/docker-compose.yml` deploys
  them; MCP servers are further processes where they matter (`Fuzzing`, `Ghidra`).
  Projects share no rows, so one project (or one firmware) is modelled, except in
  `Uart`, where projects share the port.
* arq delivers a job again when its worker died; this is external and modelled
  from how the code relies on it.
* The startup reapers succeed. In the code a failing reaper is logged and startup
  goes on.
* Docker lists and removes containers as asked, or the call fails; an id is never
  used twice. `flock` is released when its holder's process dies.
* Crashes, restarts and failed calls are bounded (`MaxCrash`, `MaxRestart`,
  `MaxFault`, `MaxIOError`), in the guards of the actions. The proofs hold for every
  value of the bound.

## 4. Runs

Deadlock is checked in `YamlCache`, whose loader can always be called. In the other
modules the number of uploads, tasks, sessions or requests is finite, so the
system may be done, and the runs do not check it; waiting for ever is what the
liveness properties are about.

### Runs that pass

| Run | Instance | States | Shows |
|---|---|---|---|
| `Upload` | 2 uploads, 2 contents, failing database, 2 crashes | 127k | `InProgressIsLive`; `OneRowPerImage`; `FinalStageIsFinal`; `UploadEnds` |
| `Unpack` | 1 firmware, 2 tasks, every request, 1 crash | 1.13M | `TypeOK`; `StuckOnlyByRaceOrCrash`; `NoStaleProgress`; `ReadyIsBacked`; `UnpackingEnds` |
| `MCDeviceDump` | 2 dumps of 2 partitions, 1 crash | 1.7M | `NoPhantom`; `OutcomeIsTrue` |
| `MCDeviceDumpLive` | 2 dumps of 1 partition, 1 crash | 65k | `OutcomeIsFinal`; `DumpEnds` |
| `ScanJobs` | 3 requests, 3 requests and runs at a time, 4 analyses, failing database, 1 restart | 569k | `NoOrphan`; `FailedIsExplained`; `CompletedHasResult`; `SbomEnds`; `ChainFires` |
| `MCEmulation` | 2 sessions (one in the worker, one Qiling run in the backend), 2 containers, limit 1, 2 overlapping starts, 1 fault | 429k | `BootingIsWorked`; `LimitHolds`; `LeakHasCause`; `BootEnds`; `ReadyExpires`; `OutcomeIsFinal` |
| `Fuzzing` | 1 campaign, 2 spawns, 2 faults | 79k | `TypeOK`; `RunningIsServed`; `OrphansReaped`; `VanishedIsNoticed`; `FirstStartEnds` |
| `MCGhidra` | 3 callers in 2 processes, 2 plain binaries, 1 archive, room for 1 project, 1 rename, 1 fault | 241k | `WaitHasHolder`; `OneHeadless`; `ScriptHasProject`; `FreshUnlessRaced`; `CallEnds` |
| `MCUart` | 3 connects and 2 disconnects of 2 projects and 3 firmware images, their deletion, 1 fault | 908k | `PortHasSession`; `SessionHasPort`; `OneReader` |
| `YamlCache` | 3 versions, 1 fault | 45k | `YamlTypeOK`; `FreshWithinOneCall`; `FallbackIsReported` |

The type invariant of every module is proved (section 6); only the runs of `Unpack`, `Fuzzing` and
`YamlCache` check it too.

What they say in words:

* `InProgressIsLive`: while requests are served, a row that shows an upload in
  progress has a task, or is one of two named losses: spared by the grace
  window, or dropped by a database that failed the failure handler.
* `OneRowPerImage`: equal images get one row, however their uploads overlap. The
  query alone does not give this; the unique constraint does.
* `FinalStageIsFinal`: `Upload` implements `Lifecycle`. "ready" and "failed" stay until
  the row is deleted; the reaper and a task never overwrite one another.
* `StuckOnlyByRaceOrCrash`: "unpacking" always waits for a task that will still
  look at it. It names exactly the cases in which that fails.
* `NoStaleProgress`: progress shown for an image that is not unpacked belongs to a task
  that runs. It is about behaviours without a crash, and RTOS images are exempt.
* `ReadyIsBacked`: while a project is "ready", the firmware that made it so has a file
  system, was recognised as an RTOS image, or has been deleted since. No late commit
  of another task or request takes its tree away, and no failure counts as a success.
* `NoPhantom`: a dump row that blocks new dumps has a task.
* `OutcomeIsTrue`: "completed" and "partial" agree with the image files, whatever
  was cancelled, answered late or overlapped.
* `NoOrphan`: a column in flight has a run that will still write it.
* `FailedIsExplained`: a failed analysis has an error to show, unless its latest commit
  changed the outcome unawares (`blind`). That takes a commit that leaves out its status
  or its error text because of a stale read; every other overlap keeps error and
  status together.
* `CompletedHasResult`: a completed SBOM, CVE match or decompilation has its
  result, with the same exception and that of the CVE match that a finished SBOM
  starts, which sets no result (`bare`, until the column is next written).
* `LimitHolds`: start requests that overlap exceed the limit by at most one each. Two
  kinds of session come back and are not counted: those stopped while they
  booted, and those whose job a crash had run again after its end.
* `LeakHasCause`: a container that runs and serves nobody was left by a
  session in error, by a stop that met a boot, or by a fault. It names the leaks
  the code has and excludes all others.
* `BootEnds`, `ReadyExpires`: a boot ends unless its job was lost, and no session
  stays "ready" for ever.
* `BootingIsWorked`: a session shown as pending or booting has a job that will
  still write its row, or one that a fault lost. The limit counts such rows, so
  one without a job would hold its slot for ever.
* `OutcomeIsFinal`: `DeviceDump` and `Emulation` implement `Lifecycle`.
* `RunningIsServed`: "running" means that the container on record exists, apart from
  three named windows.
* `OrphansReaped`, `VanishedIsNoticed`, `FirstStartEnds`: the cron job brings rows and
  containers together again after any sequence of starts, stops and faults.
* `WaitHasHolder`: whoever waits for a leader or a lock file waits for a call that is
  under way; failures and crashes leave no lock behind, and only a leader
  that raises before its `try` leaves its followers.
* `OneHeadless`: "a local Ghidra project allows only one headless process at a
  time" holds of the projects of plain binaries, whichever processes the callers are
  in. On the project of an archive it does not: scripts run beside scripts and beside
  an analysis, and an analysis beside a restore. The property lists these pairs
  (`Together`) and excludes all others: two restores, a restore beside a script,
  two analyses.
* `ScriptHasProject`: whoever works on a project has it, and on a plain binary's a
  complete one; no eviction, failure or crash of another caller takes it away.
* `FreshUnlessRaced`: an analysis that counts as current shows the current
  names, apart from two races the code has.
* `CallEnds`: every call returns, except behind an analysis that waits for its own
  lock or a leader that left its entry behind.
* `PortHasSession`: without faults, an open port belongs to a session on record, or to
  one that was deleted with its firmware or project. Disconnecting never closes the
  session and leaves its port open. It does not say that a client can disconnect: with
  two "connected" rows of one project, no disconnect gets as far as the bridge.
* `SessionHasPort`: without overlaps, a "connected" session has the port.
* `OneReader`: disconnecting ends the reader task.
* `FreshWithinOneCall`: after any history of edits, a call returns the valid file
  that is there, provided no other content ever had its modification time.
* `FallbackIsReported`: whoever is served something else can see a warning.
* `UploadEnds`, `UnpackingEnds`, `DumpEnds`, `SbomEnds`, `ChainFires`: what clients
  poll for happens, apart from the losses each of them names.

Some properties except what a history variable records, and so say nothing about what
follows it: `NoStaleProgress` after a crash, `LeakHasCause` of sessions in `raced`,
`FreshUnlessRaced` of archives in `raced`, `SessionHasPort` after an overlap or a broken
port, `OneReader` once a port was opened during another call. They show that nothing
else causes the trouble; the trouble itself is in the list of divergences below.

### Runs that end in a violation

Each checks one sentence of the repository against what the code does;
`PROJECT.json` quotes the sentence and the lines.

| Run | Property | What TLC finds |
|---|---|---|
| `MCDeviceDumpCancel` | `CancelledIsFinal` | the task does not see the cancellation and overwrites it |
| `MCGhidraHang` | `EnsureReturns` | the analysis of a plain binary holds its lock file and acquires it again: it waits for itself, and others wait behind it |

### Divergences without a run

The modules keep these behaviours because the code has them; a reader of the
comments would not expect them:

Uploads and unpacking:

* A restart within 15 minutes of an upload spares its row, whose task is gone, and
  the row stays in progress until another restart (`main.py:236-240`; the docstring
  at `routers/firmware.py:158` has clients poll until the stage is final).
* A rootfs ZIP is removed before the tree that replaces it is committed
  (`services/firmware_service.py:896` and `:981`): a failure in between leaves
  neither, against the comment at 893-894.
* An unpack task that ends before its request commits leaves "unpacking" behind,
  which the comment at `routers/firmware.py:617` rules out.
* A recognised RTOS image makes its project "ready" although it has no file system
  (`workers/unpack.py:213-222`, `routers/firmware.py:517-556`).
* Deleting a firmware resets an "unpacking" project whatever firmware is being unpacked
  (`routers/firmware.py:373-377`): with two images the status that is reset may be
  that of the other one, whose task goes on.

Dumps and analyses:

* The `partitions` column of a dump is never updated
  (`services/device_service.py:448`, docstring at 269-270).
* An automatic scan that raises leaves its column "running" until a restart
  (`routers/sbom.py:527-530`).
* Two start requests both pass the active-dump check (`routers/device.py:117`), and
  two analysis requests the 409 check (`routers/sbom.py:637`), before either
  commits: "second concurrent runner" and "second run" do happen.
  `OutcomeIsTrue`, `NoOrphan` and the others hold in spite of it.
* The clean-up of a finished unpack task takes the status of the next one for its
  own and resets it (`routers/firmware.py:629-640`), so that a third request starts
  a second extraction.
* The worker stamps "error" on the project of a deleted firmware
  (`workers/arq_worker.py:231-232`), where the comment in the delete handler says the
  task does not re-stamp the status; the in-process task does not.
* Import takes the image files of reads that stopped half way
  (`services/device_service.py:281`).
* A restart of the backend declares a decompilation failed that is alive in the
  worker (`workers/walker_registry.py:353`).
* An automatic CVE match completes without a result (`routers/sbom.py:564`), see
  `CompletedHasResult`.
* With three overlapping runs of one analysis, the opening commit of one that has read
  "running" clears the error or the result of a verdict given since, and leaves the
  verdict (`routers/sbom.py:430-444`, `902-916`): "failed" without an error, "completed"
  without a result.
* A decompilation that is requested again, whose worker reads the row before the
  tool's commit clears the result, and which computes the same aggregate, completes
  without a result. Likewise an error text that equals the one a run has read is
  not written, though another run has cleared it since.

Emulation and fuzzing:

* A stop during a boot is overwritten by "ready", or its container is left behind;
  sessions in error keep their container (`services/emulation/service.py:280`,
  docstring at 683).
* A worker that dies between the last commit of a boot and arq's acknowledgement boots
  the session again: its row leaves its outcome, the limit is not looked at, and the first
  container stays.
* The MCP tool that starts emulation (`ai/tools/emulation.py:1278`) passes arguments
  that `start_session` (`services/emulation/service.py:421`) does not accept, so it
  is not modelled.
* The orphan clean-up removes a container that its task is still setting up
  (`services/fuzzing_service.py:1226-1232`, `1299-1306`).
* The MCP tool that starts fuzzing marks the campaign "queued", schedules no spawn
  and answers that it started (`ai/tools/fuzzing.py:902-911`).
* A campaign that is started again and whose backend dies stays "queued": its old
  container id hides it from the clean-up (comment at
  `services/fuzzing_service.py:1247-1249`). `FirstStartEnds` is about first starts
  for that reason. Starting again does not count the limit, and
  `cleanup_expired` (1196-1218) is called by nobody.

Ghidra, all in `services/ghidra_service.py`:

* An analysis that runs while a script saves is stamped with the new revision and
  passes for current (comment at 355-359); the increment is a read and a write,
  though described as atomic (376).
* A leader that raises at 1466 leaves its entry in the table, and later callers of
  that process wait for ever; followers of a leader that fails later return as if
  it had succeeded.
* "only one Ghidra process runs per binary" (1404) and the sentence at 1035 do not hold of
  archives, where scripts run outside the lock
  (`ai/tools/ghidra_research.py:1054-1056`, `1114`, which says they may) and so
  beside each other and beside an analysis; an analysis also runs beside a restore.
* A restore that is killed or fails half way leaves a directory that counts as a
  restored project from then on.
* An analysis of an archive that is not restored yet waits for its own lock, like that
  of a plain binary.
* A script on an archive that is killed after Ghidra saved has changed the names without
  an increment of the counter (`ai/tools/ghidra_research.py:1158-1163`, `1198-1202`).
* Renewal of the Redis lock stops at its first error (259-261).

UART:

* Overlapping connects of one project give two "connected" rows, after which
  `_get_active_session` raises on every request; a disconnect of one project closes
  the port of another.
* A restart of the bridge or a broken port leaves rows "connected"; a transcript
  that cannot be created leaves a port open without a row.
* Deleting a firmware or a project deletes its "connected" session and leaves the port
  open, with no session to disconnect (`routers/firmware.py:356-380`,
  `routers/projects.py:143-148`).

YAML caches:

* A file whose first load fails is parsed on every access, where the docstring
  (`utils/yaml_cache.py:13-17`) says once.
* After a failed read the warning and the old value stay until the file is saved
  again; a file that was away keeps its warning when it comes back with the same
  time. Bytes that are not UTF-8 make `get` raise (219-222).

### Why the bounds are enough

Two actors suffice for each race in these modules: two uploads of one image, two
tasks on one status column, two bridge calls, two runs of one analysis, two start
requests at the limit, two spawns of one campaign. Two partitions let a late answer
meet the next call. Three requests are three overlapping runs of one analysis, which
is what it takes to lose the outcome of a verdict, or an SBOM, whose place its
follow-ups take, and requests that meet these. Three callers are a leader, a
follower and a caller of another process; with room for one project every import
evicts. Three connects are two that overlap, for two firmware images, and one of
another project. Three versions of a file are the one that is served, the one that
was stat'ed and the one that was read. One crash reaches every recovery path;
uploads and campaigns have two faults, so that what one restart spares meets
another. The one firmware of the `Unpack` run leaves out that several images share
the status column, and the one campaign of `Fuzzing` that campaigns compete for the
limit; the theorems hold for any number of both. Every invariant of the runs, and
every refinement, is proved without bounds.

Symmetry is used in `MCDeviceDump` only, a safety run.

## 5. Fairness

* Background tasks are asyncio tasks or arq jobs and get scheduled: weak fairness
  of the task's steps. A task waits for the bridge at most 31 minutes and for an
  extraction at most its timeout, so these waits end as well.
* Requests that were accepted end (`HandlerEnds`, `RequestEnds`): the server runs
  a handler to its end.
* Time passes (`GracePasses`), and a backend that went down comes up
  (`Restart`): compose restarts it.
* The cron jobs of the worker run every half hour: the orphan clean-up is weakly
  fair, and a session that stays up is overdue from some time on (`Overdue`).
* A lock file that is free again and again is handed to each caller that waits: strong
  fairness of `Acquire`. Ghidra ends or is killed by its timeout: weak fairness
  of the other steps of a call.
* Nothing is assumed of users, of the bridge answering, or of crashes happening.

`Uart` and `YamlCache` have safety properties only and assume no fairness.

In `UploadEnds`, `DumpEnds` and the `ScanJobs` properties the fair step may be the
failing one; the properties name that case instead of assuming it away.

## 6. Proofs

All theorems hold for every value of the constants that satisfies the module's
`ConstAssumption` (`YamlAssumption` in `YamlCache`: naturals for the bounds, at
least one partition, limits of at least one, a finite set of sessions, `None`
distinct from the other values).

| Module | Theorem | Inductive invariant |
|---|---|---|
| `Upload_proofs` | `TypeCorrect` | `TypeOK` |
| | `NoStuckUpload` (`InProgressIsLive`) | `LiveInv /\ FinalInv`: tasks live only while the backend is up, a request that is not over has neither row nor task, a final stage has no task left |
| | `RowsAreUnique` (`OneRowPerImage`) | `OneRowPerImage` with `LiveInv`: a hash is only changed while its upload has no row |
| | `FinalStagesStay` (`FinalStageIsFinal`) | the refinement of `Lifecycle` under the same invariant: `Moves` lists the changes a step can make to the phase of an upload, each an abstract step or a stutter |
| `Unpack_proofs` | `TypeCorrect` | `TypeOK` |
| | `OnlyRaceOrCrashSticks` (`StuckOnlyByRaceOrCrash`) | `SettleInv`: adds that the task of a request that has not committed yet has not had its last look |
| | `NoProgressLeft` (`NoStaleProgress`) | `ClearInv`: the task that still runs is one that *will clear*, so a task in its last step counts only if it read what it has to clear |
| | `ReadyBacked` (`ReadyIsBacked`) | `ReadyInv`: what made a project "ready" is backed (`BackedKept`: nothing but deletion takes that back), and a task about to commit that read a path has one |
| `DeviceDump_proofs` | `TypeCorrect` | `TypeOK` |
| | `PhantomFree` (`NoPhantom`) | `NoPhantom` with `TypeOK` |
| | `OutcomeTrue` (`OutcomeIsTrue`) | `ImageInv`: the bridge serves no call whose partition counts as complete, and a terminal outcome belongs to a task that has left, so the list it came from is final |
| | `OutcomesStay` (`OutcomeIsFinal`) | the refinement of `Lifecycle` with `OpenInv`, which says that requests under way act on rows as they found them: a start on none, a cancellation on one that is there; `Moves` maps every step to an abstract step or a stutter |
| `ScanJobs_proofs` | `TypeCorrect` | `TypeOK` |
| | `NoOrphans` (`NoOrphan`) | `OwnInv`: the run that owns a column is one that is sure to write it, its failure handler not having read "failed" already |
| | `FailuresExplained` (`FailedIsExplained`), `ResultsThere` (`CompletedHasResult`) | each with `TypeOK`: a step changes the columns of one analysis (`LocalStep`), and leaves it explained and backed or marks it `blind` or `bare` (`OwnVerdict`) |
| `Emulation_proofs` | `TypeCorrect` | `TypeInv`: a job has a container exactly in its last two stages, and only created containers are referred to |
| | `LimitKept` (`LimitHolds`) | `LimitHolds` with `WorkInv`, which says that a job at work on a session with an outcome was overtaken by a stop or is being run again, and `Moves`, the changes of status that steps can make |
| | `OutcomesStay` (`OutcomeIsFinal`) | the refinement of `Lifecycle`: `Moves` maps every step to an abstract step or a stutter |
| | `LeaksHaveCauses` (`LeakHasCause`) | `LeakInv`: while nothing has failed, containers exist only from a job's creation on, a stop that met no job at work has left none behind, and the expiry job will remove what is on record |
| | `BootsAreWorked` (`BootingIsWorked`) | `LostInv` (a job is lost only by a fault) with `WorkInv` |
| `Fuzzing_proofs` | `TypeCorrect` | `TypeInv`: a task that has begun has its campaign |
| | `RunningServed` (`RunningIsServed`) | `ServedInv`: a container on record belongs to an ended spawn of the same campaign, and before a spawn ends only the clean-up removes its container |
| `Caches_proofs` | `TypeCorrect` | `TypeInv`: the stage of a caller decides the kind of its binary; a counter never runs ahead of the scripts |
| | `MutualExclusion` (`OneHeadless`) | `LockInv` (whoever is past an acquisition holds the lock) with `GateInv`: whoever restores holds the gate, and no script runs on a project that is being restored |
| | `ProjectsStay` (`ScriptHasProject`) | `ProjectInv` with `LockInv`: eviction skips projects whose lock is held, and a project that `ensure_analysis` found stays |
| | `CurrentIsFresh` (`FreshUnlessRaced`) | `FreshInv`: relates what running analyses have seen and will be stamped with to counter and names |
| | `WaitersHaveHolders` (`WaitHasHolder`) | `WaitInv`: the holder of a lock is a call between its acquisition and its return, on that binary; an entry in a leader table is that of a call that leads, or is left behind |
| | `YamlTypes` (`YamlTypeOK`) | `YamlTypeInv`: `YamlTypeOK`, every time on record is that of some save, and a reload is under way exactly when a time was seen |
| | `YamlFresh`, `YamlReported` (`FreshWithinOneCall`, `FallbackIsReported`) | `YamlInv`: if the time of the latest reload is that of a version and of nothing else, then that version is served, or it is broken and the warning is up (`CursorInv`) |
| `Uart_proofs` | `TypeCorrect` | `TypeOK` |
| | `PortsHaveSessions` (`PortHasSession`) | `PortInv`: a disconnect that is about to commit has seen the port of its session closed, a port still to be opened belongs to no session, and only deletion takes a row from a port |
| | `ReadersEnd` (`OneReader`) | `ReaderInv` with `HeldInv`: ports held or being closed were opened by calls that are done |
| | `SessionsHavePorts` (`SessionHasPort`) | `OrderInv`: with requests one at a time, at most one is under way and what it has loaded is the session that holds the port |

Each step lemma has one case per action or per group of actions that change the
same variables. Frame lemmas (`SettleFrame`, `ClearFrame`, `RowFrame`,
`OwnerFrame`) say once what a step that leaves an actor alone preserves.

`StuckOnlyByRaceOrCrash` needs its strengthening because `UnpackCommit` writes
"unpacking" whatever has become of the task it started: only the recorded
history excludes a task that is already past its last look. `OutcomeIsTrue` needs
its own because the bridge reopens, and so truncates, an image whenever it serves
a call for it.

`WaitHasHolder` needs `WaitInv` because a follower says nothing of its leader: the entry
in the table, the leader's stage and the lock are changed by three different actions.

`Caches_proofs` extends both `Ghidra` and `YamlCache`, the two caches that notice changes
by themselves; the specification of the second is called `YamlSpec`, and its other
common names begin with `Yaml` too, so that the two do not clash.

Only model-checked: the liveness properties (`UploadEnds`, `UnpackingEnds`,
`DumpEnds`, `SbomEnds`, `ChainFires`, `BootEnds`, `ReadyExpires`, `OrphansReaped`,
`VanishedIsNoticed`, `FirstStartEnds`, `CallEnds`), which are outside the prover's
reach. No invariant of a run is left unproved.

## 7. Plan

Done: the lifecycle modules, `Lifecycle` with its three refinements, the Ghidra locks,
UART sessions and the YAML cache. What is left, in this order:

1. `Acquisition`, composing `DeviceDump` and `Unpack` through import; and the
   refinement of what `Unpack` sees of an upload (`Upload`, `PostProcess`) by
   `Upload`.
2. Manual overrides as request actions of `Unpack`; `dump_all` of the device bridge.
3. The Redis lock of the cloud backend with its expiry.
4. Algorithms against reference definitions: version ranges in vulnerability
   matching, and the choice of a root file system in an archive.

Theorems to add: the refinements above, and what each of the passing liveness
properties rests on as an invariant where it is not stated yet.

## 8. Not modelled

Extractors and walkers parse file formats with external programs; the lifecycle
modules see success or failure. Findings, reports, compliance, comparison, export
and import are single transactions. Events over Redis are best effort beside the
polled columns. Authentication, rate limits, the terminal, the MCP dispatch and
the frontend keep no protocol state of their own. The authenticode and
Windows-update runs use the machine that `ScanJobs` models for others. `PROJECT.json`
lists each of these with its reason.
