# A verification model of xlurm

xlurm is a single-host job scheduler for accelerators. Users submit commands over a Unix
socket; a single-threaded daemon queues them, gives each one devices of one vendor and
starts a worker process per job. The daemon may die at any time and a new one takes over
the running jobs. The TLA+ modules in this directory model that core and what surrounds it:
the monitoring of the devices, the commands that start and stop the daemon, and `xrun`, which
follows a job. TLC checks them on small instances, and TLAPS proves every safety property that
these runs confirm, for every instance.

Line numbers refer to the files under `src/src/` unless another path is given.

## 1. The system

| Component | State | Operations | Talks to |
| --- | --- | --- | --- |
| scheduler (`scheduler.rs`) | `store` (jobs, `next_id`), mirrored in `state.json`; `inventory`; `excluded_devices`; `max_running` | `submit`, `cancel`, `get`, `info`, `tick`, `cleanup`, `exclude_devices` | executor (trait `Executor`), storage, inventory |
| device allocation (`allocate`, `matching_kinds`) | none | which devices a submission gets | called by `submit` and `tick` |
| process executor (`executor.rs`) | children of this daemon; per-job files `{id}.json/.lock/.result/.cancel/.log` | `start`, `poll`, `cancel` | forks workers, which inherit the job's lock |
| worker (`executor.rs`) | one payload process group, the termination reason, the interrupted flag | `worker`, `execute`, `Drop for Running` | payload (signals), job files |
| daemon (`daemon.rs`) | `daemon.lock`, the socket, refresh and cleanup timers | `serve`, `handle` | clients, scheduler |
| device monitoring (`device/mod.rs`) | `devices`, `status`, `monitoring_errors`, the loaded drivers | `discover`, `refresh`, `output` | vendor tools and libraries |
| vendor drivers (`device/*.rs`) | library handles | load, discovery, status | FFI |
| storage (`storage.rs`) | files | `write_json` (atomic replacement), `try_lock` | everything |
| command line (`cli.rs`) | none across calls | `start`, `stop`, `restart`, `clean`, `xrun` (`follow`), `xqueue`, ... | daemon through the socket |
| authentication (`auth.rs`) | none | peer credentials, ownership | daemon |

What makes it hard:

* **Crash and takeover.** The daemon persists RUNNING, then forks. It may die in between,
  or after the fork and before the first poll. The next daemon knows a worker only by the
  lock it holds.
* **Two copies of the truth.** Memory and `state.json` differ after a failed save, in three
  different ways (submit, cancel, cleanup).
* **Workers run concurrently** with the daemon and with each other; their result is visible
  before they have finished.
* **Exclusive devices** across daemons whose inventories, exclusions and limits differ.
* **Payloads** that ignore SIGTERM, fork, and leave children behind; a cancellation, a time
  limit, a signal and a normal end that race.
* **One pass over a sorted queue** that must not leave anything placeable behind.
* **Vendor libraries and utilities** that fail, lie, leave buffers untouched or hang, on cards
  that other people use, that break, and that change places: nothing of that may make a card
  look idle.
* **A stream of output** that must be complete when the job's exit code is returned, read
  through a daemon that may go away in between.

`PROJECT.json` lists each hazard at its line with the properties that cover it.

## 2. The modules

| Module | Models | Kind |
| --- | --- | --- |
| `Allocation` | the submission made of a command line, the checks of `submit`, `matching_kinds`, `allocate` | operators |
| `Environment` | the device variables of a payload, and what the vendors' runtimes make of them | operators |
| `Placement` | submissions against an inventory whose devices are reserved and released | composition of `Allocation` and `Environment` |
| `Scheduler` | `Scheduler`, driven by `serve`/`handle`; workers as the `Executor` trait shows them; crashes | state machine |
| `Clients` | `Scheduler` and what clients were shown of a job's end | composition |
| `Worker` | one worker and its payload's process group | state machine |
| `WorkerContract` | what executor and worker promise each other about one job | abstract specification |
| `JobLifecycle` | what the owner of one job is promised | abstract specification |
| `SchedulerRefinement` | `Scheduler` implements `JobLifecycle` and `WorkerContract` for each job | refinement |
| `Lifecycle` | daemons and administrators on one state directory: `daemon.lock`, the socket, `start`, `stop`, `restart`, `clean` | state machine |
| `Drivers` | what each vendor's driver concludes from the replies of its library or utility | operators |
| `Probe` | `output`: a vendor utility under a deadline, and the processes it leaves behind | state machine |
| `Monitor` | `Inventory::discover` and `Inventory::refresh`, on a host that changes | composition of `Drivers` and `Probe` |
| `Follow` | `xrun` in the foreground (`follow`, `print_log_chunk`), the job it follows, and daemons that come and go | state machine |
| `*Proofs` | theorems (section 4) | proofs |
| `SmallHost`, `MC*` | values of the constants for TLC | instances |

`Scheduler` and `Worker` are two sides of `WorkerContract`. `Scheduler` lets workers
write any result and release their lock at any time; `Worker` shows that the real worker
writes one result, while it holds the lock, and never comes back. `Scheduler` in
turn starts one worker per job and deletes a result only when the lock is free.

`Scheduler` has one daemon at a time, as a variable. `Lifecycle` shows why that is so: there
daemons are processes, and any number may be started, refused, stopped and killed at once.

`Scheduler` takes any set of devices as the result of a probe, so its safety does not depend on
monitoring at all. `Monitor` says what that set is worth. `Placement` composes `Allocation`
with `Environment`: the devices that a payload's runtime shows it are those its user typed.
`Follow` uses of a job only what `JobLifecycle`, `WorkerContract` and `StopEnds` of `Worker` promise.

### Scheduler

| Model | Code |
| --- | --- |
| `mem`, `disk` | `Scheduler.store`, `state.json` |
| `daemon` | where the thread of `serve` is: `down`, `boot`, `place`/`spawn` (in the loop of `tick`), `tidy` (before `cleanup`), `serve` (requests, refresh) |
| `todo`, `cur` | the rest of `pending`; the job whose intent is saved and whose worker is not yet forked |
| `limit`, `pool`, `idle`, `excluded` | `max_running`, `inventory.devices`, the devices whose status is `"idle"`, `excluded_devices` |
| `worker`, `spool`, `result`, `marker` | the lock, `{id}.json`, `{id}.result`, `{id}.cancel` of each job |
| `launched`, `acked`, `forgotten` | observations for the properties; no action reads them |
| `Poll`, `Skip`, `Place`, `Spawn`, `StartFails`, `EndTick` | `tick`, cut where a crash or a worker can make a difference |
| `Clean`, `CleanFails` | `cleanup` after a tick; which finished jobs are seven days old is left open |
| `Submit`, `CancelPending`, `CancelRunning`, `Exclude`, `Include`, `Stop`, `Restart` | `handle` |
| `SubmitFails`, `CancelPendingFails` | the same requests when `save` fails, before or after its rename |
| `Boot` | `serve` up to the first tick |
| `Crash` | SIGKILL, power loss, or an error that `serve` returns: a failed save inside `tick` is a crash before or after the step that saves |
| `Report`, `Exit` | a worker writes its result, releases its lock |

Cuts: a step is atomic where nothing else can observe its middle. `tick`'s scan of polls is
one step, because a worker that exits during the scan commutes with the polls before it.
`write_json` replaces its file atomically (temporary file, fsync, rename).

### Worker

`pc` follows `worker` and `execute`: `boot`, `check` (the marker before the spawn),
`spawn`, `wait`/`look` (the loop), `drop`/`reap` (`Drop for Running`), `write`, `done`.
Releasing the lock is exiting. The payload is a leader and the other `Member`s of its process
group; they fork and end freely until `doomed` (SIGKILL was sent to the group). `KillWorker`
is SIGKILL to the worker: the lock is free and `PR_SET_PDEATHSIG` takes the leader only.
SIGKILL to the group and the death of its processes are two steps, but no process of a doomed
group forks.

### Lifecycle

| Model | Code |
| --- | --- |
| `proc` | each daemon process: `boot` (before `try_lock`), `locked` (discovery), `adopted` (first tick done), `bind` (stale socket removed), `serve` (the loop), `closing` (the loop has ended), `unlinked` (`SocketCleanup` dropped), `dead` |
| `lock`, `path` | who holds `daemon.lock`; whose listener `xlurm.sock` names, possibly a dead daemon's |
| `recorded`, `live` | `state.json` has a RUNNING job; its worker is alive |
| `admin`, `cmd`, `child`, `late`, `said` | each administrator's command: how far it is, which one, the `Child` of `start`, its deadline, what it reported |
| `stuck`, `doomed` | the daemons inside a driver call that does not return for now; those of them that were sent SIGKILL and die when it returns |
| `pred`, `blocker` | observations: who accepted the last stop or restart, who held the lock when a daemon gave up |
| `Lock` ... `Bind`, `Interrupt`, `Unlink`, `Release`, `Die` | `serve` from top to bottom, the drop of its locals in reverse order, SIGKILL |
| `Stick`, `Unstick` | external: a vendor's driver keeps discovery, a refresh or the shutdown of a library waiting, and lets it go |
| `Start`, `Welcome`, `Spawn`, `SpawnFails`, `Unanswered`, `Look`, `Kill`, `Reap` | `start`, whose loop asks, looks at the child and at the clock as separate steps; `child.kill()?` returns at once, `child.wait()?` when the child is dead |
| `Restart`, `Await`, `Probed`, then as `start` | `restart`: request, wait for the lock, release it, `start` |
| `CleanLock`, `CleanCheck`, `Swept` | `clean` |
| `Stop`, `Deadline`, `Abandon` | the request; 45 seconds pass; a command is interrupted (its daemon has its own session) |

An `Info` request is one step and may fail at any time (a full minute may pass). `request` has a
timeout for what it sends and receives, none for `connect`: a command whose request waits for a daemon
that a driver holds does not go on (`Blocked`). `kill` and `wait` return an error only for a child that is
not there any more, so their `?` has no action of its own. Requests
that fail change nothing and have no action. One job stands for all of them: the commands ask
only whether some job is RUNNING.

### Allocation and Environment

Devices are numbers in inventory order; `KindOf` and `IdOf` give vendor and logical ID, so
IDs may overlap between vendors as they do on a real host. A Rust `Option` is a set with at
most one member. `Requested` is the submission that `-g`, `-i`, `-x` and `--device` make.

In `Environment` a variable is the set of what it lists, `{}` the `"-1"` that hides every device.
`Variables` is `executor.rs`; `Sees` is external: how each vendor's runtime reads the
variables. HCUs are filtered twice, ROCR by physical number and HIP and CUDA by the place in
what ROCR left. Mixed jobs cannot arise (`AllocateSound`).

`Placement` poses one submission after another (`Ask`, what any client may send; `Type`, what a user
types) while devices are reserved and released. Its properties compare the answer with every
answer that would be legal, and look at every inventory a later daemon may have.

### Drivers, Probe and Monitor

| Model | Code |
| --- | --- |
| `Error`, `Unset`, `Garbled` | a reply that is a failure, a success that leaves the caller's buffer as it was, and text that the driver refuses |
| `Load`, `DcmiLoad`, `Enumerate`, `ApiDiscover`, `LegacyDiscover`, `ParseNvidia`, `Validate` | `load` and discovery of each driver, with the order of its checks where that matters |
| `HealthSettles`, `ApiOccupancy` ... `ListedOccupancy`, `ReasonSettles`, `HcuCount`, `HcuProcesses`, `HcuGpus` | what one reply settles, or leaves to the next call |
| `HealthStatus`, `NvidiaStatus`, `HcuStatus` | the status concluded from the output of a utility and from the busy HCUs |
| `probe` (`stage`, `leader`, `stray`, `text`, `verdict`) | the local state of `output` and the utility's process: `wait` is the loop with the deadline, `reap` is `child.wait()`, `join` the reader threads |
| `pc`, `turn`, `n`, `apps`, `busy`, `health` | how far `discover` and `refresh` are and what they have read |
| `query` | the local variables of `busy_devices` and of each `status`: the next call, the handle, the processes left to look up and the HCUs found |
| `devices`, `drivers`, `status`, `errors` | the `Inventory` |
| `Skip`, `DiscoverAscend`, `DiscoverLibrary`, `Discovered` | one round of the loop of `discover` |
| `Begin`, `NoUtility`, `ScanNvidia`, `ScanHcu`, `EndRefresh` | `refresh`, one device at a time |
| `CountHcus`, `ListProcesses`, `LookUp`, `LookedUp` | `busy_devices` of `hcu.rs`, one call at a time: the number of HCUs, the processes, the HCUs of each |
| `TakeHandle`, `AskUuid`, `AskAvailability`, `AskProcesses` | `query_status` of MTML, MXSML and HGML, one call at a time; only MetaX asks for availability, by index |
| `AskHealth`, `AskOccupancy`, `Logged` | `status` of both DCMI APIs, one call at a time, and what `refresh` does with its error |
| `Spawn`, `AwaitStep`, `Collect`, `SpawnFails` | a call of `output` |
| `at`, `used`, `broken`, `faulty` and `Use` ... `Fault` | the host (external): which card is at which index, what is used and unhealthy, and whether calls may go wrong |
| `free`, `well`, `apart`, `moved`, `concealed` | observations: what was free and healthy at some instant of this refresh, which process was off which HCU, which vendors' cards changed places, which used cards a successful call left out |

Every call of a library in a refresh is a step, and the cards may be used, break, recover and change
places between any two calls; a utility takes several steps. (In discovery, which reads no use and
no health, the calls of one vendor are one step.) One assumption is needed to say what a handle
means: it keeps naming the card that had the index when it was taken, even if a reset gives the card
another index. What a library or utility may answer is external, but not arbitrary: without a fault
it tells the truth, with one it may fail at any call, leave buffers untouched, report more than
fits, list a card twice, print nothing, half a list or rubbish. It does not invent a plausible wrong
answer otherwise: no driver could tell. A positive number of processes is 1, since drivers compare
it with 0 and with the size of their buffer only.

Three windows are open in the code, and the model shows each of them; `IdleIsProven` names what it
does not claim:

* **HCU hand-over.** `busy_devices` lists the processes and then looks each of them up
  (`hcu.rs:154-183`). A process listed on two HCUs may leave the second before its lookup, while a
  process that started after the listing uses it already: the HCU looks idle although it was never
  free. What holds, and is checked, is that every process was off the HCU at some instant of the
  refresh (`apart`), not all at one. A process that has left every HCU before its lookup makes the
  whole reading fail, as the comment says.
* **MetaX availability.** The UUID is checked through a handle, the availability is then asked by index
  (`metax.rs:201`). After a reset in between it is another card's. The property asks for a healthy
  card at the index then (`moved`), and for this very card otherwise. The processes are always this card's.
* **Calls that succeed and say too little.** `nvidia-smi` may exit with 0 and print no process, and MTML's call
  may succeed without writing the count, which its driver starts from 0 (the others start from a value they
  refuse). The code believes both; the property excepts the cards that such an answer left out
  (`concealed`), and no others.

HCU and Ascend queries check no identity, so for them everything is about the index.

When the v2 symbols of DCMI are missing, `Dcmi::load` (`ascend.rs`) falls back to the older `dcmi_*`
functions, as src/README.md:107 says, although the same paragraph and line 156 also call the v2
symbols required. Of two lines of `hy-smi` about one card the last one counts.

### Follow

`behind` is how many chunks of the log `xrun` has not printed, `due` how many of these
were written before the job ended, `Drain` the 16 reads of one round. `ended` and `drained` are the
locals on which `follow` decides; that the first is read before the second is the point. The
job may expire, its log may be removed and the daemon may go away between any two requests;
an unanswered request ends `xrun` with an error. The job's processes may outlive their worker
(`WorkerLost`) and then still write.

## 3. What TLC checks

| Run | Bounds | Properties | States |
| --- | --- | --- | --- |
| `allocation` | 5 devices, 2 vendors, IDs 0..2 in both, counts 0..3, lists up to 2 IDs, every inventory and reservation, every vendor as the runtime | `FirstLegalChoice`, `ExactIdsHonoured`, `VendorPinned`, `SeesWhatWasTyped` | 85 thousand |
| `scheduler_faults` | 2 jobs (IDs run out), 2 devices, failing writes, 2 inventories, every probe result, exclusion of the first device | `IndInv`, `AtMostOnce`, `ExclusiveUse`, `LiveIsRecorded`, `AckDurable`, `OutcomeTruthful`, `FinalIsFinal` | 0.95 million |
| `scheduler_queue` | 3 jobs of four shapes (one needs no device), 2 devices, 2 slots | `MaxRunningRespected`, `BiggestFirst`, `WorkConserving` | 3.4 million |
| `promises` | 2 jobs, 2 devices, 2 inventories, every probe result, no failing writes | `OneFinalState`, `NeverStartsOnceShown`, `ImplementsLifecycle`, `KeepsContract`, `OrphansResolved`, `CancelledJobsEnd`, `PlaceableJobsStart` | 233 thousand |
| `worker` | leader and 2 members, a time limit, a worker that may be killed | `QuietWhenReported`, `OutcomeJustified`, `GraceFirst`, `MarkedNeverRuns`, `StopEnds`, `LeaderEndEnds`, `ImplementsContract` | 4 thousand |
| `lifecycle` | 2 administrators, 2 daemons, everything may die, daemons may hang in a driver | `IndInv`, `SocketReachable`, `CleanSparesWorkers`, `RestartIsIdle`, `RestartHandsOver`, `NoUnannouncedDaemon`, `CommandsEnd` | 388 thousand |
| `follow` | a payload up to 3 chunks ahead, rounds of 2 chunks | `ExitIsComplete`, `InterruptEnds` | 10 thousand |
| `monitor` | two cards of each vendor, one mixed host, automatic, named and missing backends; 2 processes; lists of 2 devices and 2 processes | `IdleIsProven`, `InventoryWhole`, `Recovers` | 315 thousand |
| `scheduler_limit` | 2 jobs, limits 1 and 2 | violates `MaxRunningRespected` | |
| `clients_faults` | 2 jobs, failing writes | violates `NeverStartsOnceShown` | |
| `lifecycle_stop` | 1 administrator, 2 daemons, nothing dies | violates `StopHandsOver` | |
| `monitor_utility` | as `monitor` | violates `ProbeEnds` | |

Why these bounds are enough to be interesting: two jobs and two devices are the smallest instance in
which a device can be shared, a job can overtake another, a start can fail while another job waits,
and an ID can be handed out after a failed submission and run out. Three jobs are needed for the
order of the queue: one that runs, one that is skipped and one that is placed after it. Two
inventories let a daemon lose a device that a running job uses. Two members besides the leader let a
group outlive its leader and a fork follow a death. Two daemons let one start while the other
closes, and two administrators let `clean`, `start` and `restart` compete for the lock. Three chunks
and rounds of two let `xrun` leave a round with output still to print, before and after the job
ends. Two cards of a vendor are what it takes to swap them, list one twice, and report a list that
is half complete; a device list of two makes three cards too many, and a process list of two makes
three processes too many. Two processes, of which one uses both HCUs and the other one of them, let
one end or move between the listing and the lookups, before or after the other is looked up.
`MCFragile` and `MCShared` let one card of two break and let each card have a user, but not both for
the same HCU: this keeps the run within minutes, and `MonitorProofs` has no such limit. Safety for
larger instances is what the proofs are for.

No run restricts the length of a behaviour. The bounds are `MaxId` (in the program u64::MAX,
where `submit` refuses too), `Ahead`, and the sizes above.

`MaxRunningRespected` is checked with one limit for all daemons; with two it fails, which is
the first finding. `ImplementsLifecycle` is checked without failing writes: with them a
submission answered with an error may be on disk, and its job may run although its owner was
told no ID. `promises` therefore has a disk that never fails, and a failed save of a
cancellation is met only in `clients_faults`, by a violation; likewise a lower `--max-running` is met only in
`scheduler_limit`. The code prevents neither.

### Fairness

`serve` loops for ever and handles at most 16 requests between two ticks (`daemon.rs:101`), so the
daemon's own steps are weakly fair while it is up. A worker asked to stop releases its lock: this is
`WF(i \in marker /\ Exit(i))` in `Scheduler` and `StopEnds` in `Worker`, where it follows from the
worker being scheduled, time passing, and SIGKILL killing. Requests, probes, crashes and the
programs that jobs run are never fair. Each liveness property of the scheduler assumes what it needs
in its own premise: a daemon that stays up, and for `PlaceableJobsStart` also that the job's devices
stay idle, enabled and unreserved and a slot stays free. Nothing more is promised to a pending job:
`tick` passes over a job that does not fit and reserves nothing for it (`scheduler.rs:297`;
README.md:153 says that smaller tasks may run meanwhile), so an endless stream of overlapping small
jobs may starve a large one. That the daemon's steps are weakly fair assumes that `refresh` returns,
which the fourth finding shows it may not.

Commands (`CommandsEnd`) are scheduled and their clocks run, except while one waits for a daemon
that a driver holds: in `connect`, which has no timeout, or in `child.wait()` after its SIGKILL,
which such a daemon does not act on before its call returns (README.md:161 grants that library calls
have no timeout). `CommandsEnd` therefore speaks of the behaviours in which from some time on no
daemon hangs in a driver. Otherwise daemons need make no progress.

In `Follow`, `xrun` is scheduled, a serving daemon collects the result of a worker that is gone, and a
marked worker ends (`StopEnds`). `InterruptEnds` assumes that from some time on a daemon answers and
that nobody writes to the log of a job whose worker is gone: a process that has left its group
may keep `xrun` printing for ever, because a round without the end of the log does not end it.

In `Monitor` only the daemon is scheduled. `Recovers` assumes of a device that it stays free,
healthy and at its place, that nothing is faulty and that no utility hangs.

### Findings

1. **A limit that adopted jobs exceed** (`scheduler_limit`). README.md:153 says "At most 32
   tasks run at once, configurable with `--max-running`". The limit is checked only when a
   job is placed (`scheduler.rs:293`); jobs adopted from a daemon with a higher limit run on.
2. **A cancellation that does not last** (`clients_faults`). `cancel` changes memory, then
   `save()?` fails and nothing is undone (`scheduler.rs:226-236`; `submit` does undo). Clients
   see CANCELLED. After a crash the job is PENDING again and runs, which is what
   `tests/e2e.rs:453-472` asserts never happens to a job seen CANCELLED.
3. **A stop that is not over** (`lifecycle_stop`). README.md:101 says "`restart` is equivalent
   to `stop` followed by `start`". A stop is answered (`daemon.rs:127`) before the daemon has
   dropped the scheduler and `daemon.lock`. `restart` waits for the lock
   (`cli.rs:478-489`), `start` does not: its daemon may find that "xlurm daemon is already
   running", and `start` fails.
4. **A deadline that does not end the call** (`monitor_utility`). "Driver utilities must not be able
   to hang the scheduler indefinitely" (`device/mod.rs:279`), and README.md:161 says that they are
   waited for at most three seconds. Only the polling loop has the deadline. The `child.wait()` after
   SIGKILL (`device/mod.rs:313`) waits for a utility stuck in the kernel, and the joins of the
   reader threads (lines 314-321) for any process that still holds the pipes. `refresh` runs in
   the daemon's only thread.

## 4. What is proved

Every theorem holds for every value of the constants: any number of jobs, devices, vendors,
daemons, administrators, processes and cards.

| Module | Theorems | They state |
| --- | --- | --- |
| `AllocationProofs` | `AllocateSound`, `AllocateMonotone`, `RuntimeSeesItsDevices` | what `allocate` may hand out; reserving more never makes a request satisfiable; a runtime sees exactly the devices of its job |
| `PlacementProofs` | `TypeCorrect`, `ChoiceIsFirstLegal`, `ExactIdsAreHonoured`, `VendorIsPinned`, `PayloadSeesWhatWasTyped` | every property of `allocation` |
| `SchedulerProofs` | `Invariance`, `StartsAtMostOnce`, `WorkersAreRecorded`, `DevicesAreExclusive`, `FinalStatesAreFinal`, `AcknowledgedIsDurable`, `HistoryIsTruthful` | every property of `scheduler_faults` |
| | `TicksConserveWork`, `LargestGoesFirst`, `LimitHolds` | every property of `scheduler_queue`; the last for one limit |
| `RefinementProofs` | `SchedulerKeepsContract`, `SchedulerImplementsLifecycle`, `OneOutcomeIsShown`, `ShownJobsStayOver` | the safety properties of `promises`; all but the first without failing writes (`~SaveFails`) |
| `WorkerProofs` | `Invariance`, `ReportedIsQuiet`, `RecordedIsJustified`, `GraceComesFirst`, `MarkedWorkersIdle`, `WorkerKeepsContract` | the safety properties of `worker` and the refinement |
| `LifecycleProofs` | `Invariance`, `SocketIsReachable`, `CleanIsSafe`, `RestartFindsNoWorker`, `RestartSucceeds`, `FailureLeavesNothing` | the safety properties of `lifecycle` |
| `FollowProofs` | `ResultIsComplete` | `ExitIsComplete` |
| `MonitorProofs` | `Invariance`, `IdleDevicesAreProven`, `VendorsAreWhole`, `InventoriesAreWhole` | `IdleIsProven`, `InventoryWhole` |

The assumptions are named in the modules that declare the constants, and TLC evaluates them in each
run: `DeviceAssumption` (a finite set of devices with a vendor and an ID each), `PriorityAssumption`
(the vendor priority is a strict order with a first member in each set of vendors),
`PlacementAssumption` (an optional list or number is there at most once, and there are finitely many
vendors, at least one: an enum of six), `CardAssumption` (two cards that one vendor's runtime can
use differ in index and identifier: that is how the runtime tells them apart), `SchedulerAssumption`
and `WorkerAssumption` (the types of the constants), `LifecycleAssumption` (a daemon is not an
administrator), `FollowAssumption` (the bounds are positive), `DriverAssumption` (lists have room,
and the three kinds of bad reply are no numbers and no identifiers) and `MonitorAssumption` (each
vendor's cards have identifiers, and the processes that use them have positive numbers). Theorems
that need more say so in an `ASSUME` of their own.

**Placement.** The work is in what `Lowest` does: the numbers of smaller members of a finite set of
numbers form a bijection from the set to 0 .. n - 1 (`FirstNumbers`, `PlacesAreAll`), so the first n
devices are n devices (`LowestSize`), and come before any other n (`LowestIsFirst`, by the smallest
place where two choices differ). This needs no induction. `LowestIsLegal` and `FirstPrecedes` then
make the answer of `allocate` the first legal one, and an answer exists when a legal one does
(`LegalFits`). For exact IDs, `AcceptedExact` says what the checks of `submit` leave (one vendor, as
many different IDs as the count), and `ExactAnswer` that what is found later is one device for each
of them (`NamedOnce`, `NamedAll`). `RequestedType` and `AllocationProofs` carry this from the
command line to the runtime.

**Scheduler.** Exclusive use is not inductive: it speaks of workers, while placement looks
at memory. `IndInv` connects them. `StoresAgree` says exactly how memory may differ
from disk while a daemon is up (the three kinds of failed save). Hence whatever runs on disk
runs in memory (`RunningAgree`), so the devices `tick` reserves cover every live worker.
`IdsInOrder` makes the next ID fresh, `LaunchRecorded` says that a PENDING record was never
launched, `InFlight` that the job between intent and fork was not launched either, and
`DevicesDisjoint` is preserved because `allocate` avoids what is reserved. `LiveIsRecorded`
and `DevicesDisjoint(disk)` give `ExclusiveUse`. `FinalStatesAreFinal`, `AcknowledgedIsDurable`
and `HistoryIsTruthful` use `DiskStep`, a classification of the ways one record of
`state.json` may change.

**Queue.** `PassedOver` says that no pending job behind the loop fits, also if the start under
way fails and returns its devices. It holds because what is reserved only grows during a tick, except for
what was taken for the job whose start fails (`AllocateMonotone`). Then the end of the loop is
the end of everything that fits, and the head of the queue is the largest of it. For the limit, `FewerRun`
says that only `Place` adds a running job, on disk too, where the next daemon finds it.

**Refinement.** `Started` (a job had a worker exactly if one was launched) gives the contract.
Without failing writes memory and disk are equal while a daemon is up (`Exact`), and each action is
a step, or nothing, in the life of each job (`LifeStep`). That life has no way back from a final
state, so nothing that clients were shown is ever revoked (`ShownIsFinal`).

**Worker.** `Stages` ties what is left of the payload to how far the worker is, `Reasons` ties
the signal, the verdict and the record to what was asked for.

**Lifecycle.** What clients and administrators see follows from who holds the lock.
`Ownership` ties the lock to how far its holder is, so that at most one process is anywhere
between `try_lock` and its end; hence nobody else touches the path of a serving daemon, and
nobody starts a job between the check and the sweep of `clean` (`Recording`). For `restart`,
`Succession` says that once it has seen the lock free, its predecessor is dead and stays so
(`DeadStays`), and a dead process blocks nobody. `CommandChange`, `WaitEnds` and `FailureStep`
say how one command may change in a step.

**Follow.** `Settled`: once an answer said that the job has ended, nothing more becomes due, so an
empty answer after it means that everything due is printed.

**Monitor.** `IdleIsProven` is about the end of a query; the invariant carries what each call
established to the next. For each call one lemma says which replies let the driver go on or say
idle, and that the host gives them only for a card that is free, or healthy, at that moment.
`Listed` is for `busy_devices`: in between two lookups, a process that is not left to look up was
off every HCU that was not found so far, at some instant of this refresh. A process that the list
does not have was off all of them when it was listed; one that is looked up is off the others then.
`Called` is for the other libraries: the handle names a card of the host, that of the index unless
cards of the kind changed places in this refresh; from the check of the UUID on it names the
device's own card; and before the processes are asked for the health was good (`Handled`,
`Healthy`). Interleaved steps of the host only add instants (`MoreIsKnown`), so nothing that was
justified stops being so. `Inventoried` says that every device is on the host and listed once,
`Readings` that what was read earlier in this refresh was true in it, `Asked` that a utility's
output belongs to the caller that waits for it, `Scanned` where the loop is. `InventoryWhole` counts
cards, which no step preserves by itself: `Whole` says that the devices of a vendor lie side by side
in the inventory, as many as it has cards, so that their keys are as many, too (`WholeCounts`, by a
bijection), and that a vendor is passed with its devices, without any, or not at all when the
backend asks for it.

Only model-checked is liveness: `OrphansResolved`, `CancelledJobsEnd`, `PlaceableJobsStart`, `StopEnds`,
`LeaderEndEnds`, `CommandsEnd`, `InterruptEnds` and `Recovers` (fairness and `ENABLED` are out of the
prover's reach), and the four violations.

## 5. What is not modelled

* Authentication (`auth.rs`, and the owner checks of `handle`): single comparisons without state.
* The framing of requests and answers, the parsing of options, tables and time formatting, JSON:
  presentation and pure conversions. `xqueue --log` (`cli.rs:613`) reads chunks until an answer is
  empty: the inner loop of `Follow` without its limit of 16, which nothing ends while a job keeps writing.
* Dropping privileges before the payload starts, and `initialize` of `storage.rs`: pure system calls.
* Wrong answers of a library or utility that look right, but for those section 2 names: a wrong count
  of cards at discovery, a wrong identifier or a process that a library hides.
* The FFI layouts and symbol names of the vendor libraries: a symbol is there or not.
* Which finished job is seven days old: `Clean` may forget any finished job, so that no property
  depends on the clock.
* `daemon.log`, which a `clean` may remove between its opening by `start` and the moment the new
  daemon takes the lock.
* Several writers that race inside one `write_json`: every file of the state directory has one
  writer at a time, by the lock of the daemon or of the job.

What could be added: `cleanup` file by file with its clock and a crash between two unlinks; the
queue view with its owner filter (`daemon.rs:16-62`); one job's `Worker` joined with `Scheduler` in a
single specification, for what holds from the spool to the payload (`WorkerContract` is what they agree on
so far); and a composition of `Monitor` with `Scheduler`, in
which `idle` is what the last refresh left instead of any set.
