# Cortex Forge driver: TLA+ models, checks and proofs

This directory is a formal model of the Cortex Forge kernel module: the driver
that takes inference tasks from user space through `/dev/cortex-forge0` and has
three accelerators (two NVDLA, one PVA) execute them. Paths below are relative
to the repository root (`src/...` is its source directory).

Contents: [inventory](#1-inventory), [modules](#2-the-modules-and-the-code),
[runs](#3-runs-bounds-and-fairness), [proofs](#4-proofs),
[disagreements found](#5-where-the-code-and-its-documents-disagree),
[not modelled](#6-what-is-not-modelled), [plan](#7-plan).

## 1. Inventory

`Kbuild` links four files into the module; everything else under `src/` is not
built: `cortex_forge_main.c`, the same driver in one file, which is modelled as a
whole, and the stubs of section 6.

| component | state it keeps | operations | who calls it |
|---|---|---|---|
| task manager (`src/task_manager.c`, `include/cortex_forge_task.h`) | `tasks[MAX_TASKS]` (each with an id, a state, an error code, two time stamps, a completion and **one** list node), the free list under the spinlock `task_lock`, the 32-bit atomic `next_task_id` | `task_pool_init`, `task_alloc`, `task_free`, `task_submit`, `task_query`, `task_cancel` | ioctls; the workers write the tasks' fields |
| accelerator manager (`src/accel_manager.c`, `include/cortex_forge_accel.h`) | per accelerator: pending list and active list under the mutex `accel->lock`, `load_percent`, the atomic `running`, the worker thread | `accel_init`, `accel_worker_thread`, `accel_start_workers`, `accel_stop_workers`, `accel_get_info` | probe, remove, ioctls |
| character device (`src/chardev.c`, `include/cortex_forge_uapi.h`) | `private_data` of each open file | open, release, eight ioctls | any number of user threads at once: no lock is held around an ioctl |
| module glue (`src/main.c`, `include/cortex_forge_dev.h`) | the device structure (devm memory), class, chrdev region, cdev, node | init, exit, probe, remove | module loader, driver core |
| single-file driver (`src/cortex_forge_main.c`) | all of the above in one structure | all of the above; its own loops that start and stop the workers | module loader, driver core, user threads |
| user-space library (`lib/`) | a handle: fd and a pthread mutex | open, close, one wrapper per ioctl, `strerror` | applications |

How they interact. An ioctl runs in the caller's thread. SUBMIT takes a slot
from the free list (`task_lock`), fills it with no lock held, appends its node to
the pending list of its accelerator (`accel->lock`) and wakes that worker. The
worker moves the node from the pending to the active list (`accel->lock`), then
executes the task **with no lock held**, writing the task's state, time stamp and
error code, and finally unlinks the node (`accel->lock`). QUERY and CANCEL scan
the whole array and read or write the same fields, again with no lock. Removal
stops the workers one after another while files may still be open.

Hard behaviours, each in `PROJECT.json` under `hazards` with its line:

* one list node shared by three lists under two locks;
* `state`, `error_code` and `complete_jiffies` written by the worker and by any
  number of cancels, and read by queries, as plain unordered accesses;
* scans that run into slots another thread is filling;
* failures half way: `copy_to_user` after the task was queued, `kthread_run` for
  the second of three workers, each step of probe;
* a pool of fixed size; a deadline of up to 49 days;
* a stop protocol with two flags (`running` and `kthread_should_stop`) that the
  worker looks at in different places, and a worker that may be gone before
  `kthread_stop` is called;
* open files that outlive the device;
* in the single-file driver, ioctls and tasks in flight while a late step of probe
  fails, and an error path that takes every non-NULL `worker_thread` for a thread;
* two headers that declare the same structures differently, and two enumerations
  of a task's status;
* in the library, a descriptor number that is free for reuse before the handle is.

What makes each component correct:

* task manager: a node is on at most one list and a slot has at most one owner;
  an id handed out names one task for ever; a task that was executed is over for
  every observer.
* accelerator manager: each queued task is executed exactly once, in order, one
  at a time; the load returns to zero; a stopped accelerator has no thread left;
  cancels and stops cut a long execution short; stopping never waits for ever.
* character device: no descriptor with a bad accelerator gets through; a query
  reports only real tasks.
* module glue: whatever fails, nothing is left behind; `kthread_stop` only ever
  gets a thread; a node in `/dev` is served.
* single-file driver: whatever step of probe fails and whenever removal comes, no
  worker outlives the device structure, no task is left half executed, and probe or
  remove does not wait for a task's deadline.
* user-space library: a descriptor has one owner at any time; a thread in an ioctl is
  alone on an open descriptor of its own handle; a wrapper reports the answer to its own
  ioctl; the mutex is given back on every path.

## 2. The modules and the code

`PROJECT.json` maps every definition to its lines.

### TaskEngine

The built task path after a successful probe. Its variables carry the names of
the structure members: `tasks`, `free_tasks`, `next_task_id`, and for each
accelerator `task_queue`, `active_tasks`, `load_percent`, `running`. Threads are
control points: `pc`, `op`, `slot` for a user thread in an ioctl, `wpc`, `cur`
for a worker, `spc`, `sidx` for `accel_stop_workers`.

| code | actions |
|---|---|
| `cortex_forge_ioctl` SUBMIT, `task_alloc`, `task_submit`, `task_free` | `IoctlFault`, `SubmitRejected`, `SubmitNoMemory`, `SubmitAlloc`, `IdVisible`, `TaskSubmit`, `TaskEnqueue`, `SubmitCopyOut` |
| QUERY, `task_query` | `Query`, `QueryRead`, `QueryCopyOut` |
| CANCEL, `task_cancel` | `Cancel`, `CancelStore`, `CancelDone` |
| GET_ACCEL_INFO, `accel_get_info` | `GetInfo` |
| `accel_worker_thread` | `WorkerCheck`, `WorkerTake`, `WorkerStart`, `WorkerExpire`, `WorkerPoll`, `WorkerStore`, `WorkerFinish`, `WorkerRetire` |
| `accel_stop_workers`, called by remove | `StopBegin`, `StopFlag`, `StopRequest`, `StopGone`, `StopJoin` |

Choices a reader should know:

* **Granularity.** A critical section is one step. Outside the locks each access
  to a task field is a step. Between two full or release barriers plain stores
  may become visible in any order and loads may be satisfied in any order (the
  target is arm64): `todo` and `wtodo` are the accesses a thread has still to
  make, and any of them may come next. `complete_all` and the unlocks close such
  a group: what comes before an unlock is visible after it, but later stores may
  still overtake it. So the store of an id (in `task_alloc`, under `task_lock`) and the
  later store of PENDING are unordered: `numbered` says that the id is visible, and
  `IdVisible` makes it so before or after `TaskSubmit`, at the latest before the unlock
  of `accel->lock`.
* **The scan is one step.** What a scan tests of a slot, its id and that it is not FREE,
  is written once each, and no slot is ever reused (`task_free` is never reached).
  Until its id is visible a slot reads as id 0, which is never handed out. So for an id
  that was handed out one slot matches, from before SUBMIT returns and for ever, and a
  scan of many steps answers as if it were made at the moment it looks at that slot; for
  any other id it answers as if made when it looks at the slot it stops at.
  `IssuedFindable` states the fact the argument rests on.
* **Stopping a worker that has gone.** `running` is cleared before `kthread_stop` is
  called, and a worker that sees it returns. What `kthread_stop` does with the memory of
  a thread that has returned is undefined, and a choice of two outcomes: the memory
  still holds the old thread (`StopRequest`), or removal dies or hangs there
  (`StopGone`, `spc = "oops"`).
* **Time.** There are no clock values. `WorkerExpire` is the passing of the
  deadline (or of the 10 ms of a task without a timeout) and may come at any
  moment; `complete` records whether `complete_jiffies` was written. The wait of
  an idle worker ends after 100 ms in any case, so `WorkerCheck` is always
  possible in `"loop"`, and a lost wake-up could only cost time.
* **Ids.** `IdModulus` stands for 2^32. The counter wraps in `NextId`; that it
  cannot wrap while ids are in use is the assumption `MaxTasks < IdModulus`
  (256 < 2^32 in the code) together with the fact that slots are not reused.
* **Unreachable branch.** `TaskSubmit` keeps the range check inside
  `task_submit` and the `task_free` of its failure, although the ioctl has made
  the same check before; nothing reaches it.
* **Data left out.** Buffer addresses and sizes after validation, submission
  time, the error code in the answer to a QUERY, names, frequencies and versions: nothing
  decides on them.
* `Calls` says which ioctls each thread of an instance makes, `Removable` whether the
  device may be removed. `issued` is a history variable: the ids user space was given.

### AccelFifo

The promise of the accelerators without threads, locks or lists: accept an item,
begin the oldest, end it. `TaskEngine!FifoService` says TaskEngine implements it,
with the pending lists as `waiting`, the workers' local `task` as `executing`, and
the slots that are on no list and in nobody's hands (`Retired`) as `finished`.

### DriverLifecycle

`main.c`: module init and exit, each step of probe with its failure branch, the
loops that start and stop the workers, remove, and the release of the devm
resources by the driver core (external, modelled from how `main.c` relies on it).
Files are opened and closed at any time the character device exists. A worker is
here `null`, an error pointer, or live, and stopping one is one step: what goes on
inside `kthread_stop` is followed in TaskEngine (`RemovalTerminates`, `CleanRemoval`). One device is modelled: a second
one would fail in `device_create`, whose node name is the constant
`cortex-forge0`.

### SingleFileDriver

`cortex_forge_main.c` from module init to module exit, with user threads, workers and
the thread that probes and removes all running: the composition of the two modules
above. The file's task path (`task_alloc` to `accel_worker_thread`, lines 111-245, and
the ioctls, 258-381) is the code of the built files again, so a step of a user thread
(`SubmitIoctl`, `QueueTask`, `SubmitAnswer`, `QueryIoctl`, `QueryRest`, `CancelIoctl`, `CancelRest`, `InfoIoctl`,
`FaultIoctl`, `ReturnIoctl`) or of a worker (`WorkerThread`) is TaskEngine's step with
the lifecycle unchanged, guarded by the file being open. A step of module init and
exit, of the acquisition of resources and of their registration is DriverLifecycle's with the
task path unchanged. `sidx` is the loop index `i` of probe and remove in both.

Written out is what this file does differently:

* probe starts the workers itself (`ProbeWorker`) and on a failure goes to
  `err_stop_workers` with the error pointer stored in `worker_thread`;
* that loop and remove's (`StopNext`, `StopOne`, `StopBadPtr`, `StopJoined`) take every
  non-NULL `worker_thread` for a thread and never reset it. `kthread_stop` is here
  TaskEngine's protocol (flag, request, wait for the exit) and not one step;
* the structure is made anew by each probe (`FreshDevice`) and goes with
  `ReleaseDevice`. What a call in progress then does in freed memory is not followed
  (that there are such calls is `stale_file`): its thread is `"lost"` and does not come
  back to the next device. Threads outside the driver keep their stale files.

`kthread_stop` of an error pointer, or of a worker that has returned and whose memory has
been reused, ends the thread that runs probe or remove, with what it holds (`StopBadPtr`,
`ppc = "oops"`). `dev->class` is never set in this file,
so `device_create` and `device_destroy` get NULL; the model keeps both outcomes of
`device_create`, so its results also hold of a kernel that refuses a NULL class, where
every probe ends in the failure path.

### IoctlAbi

The structures as sequences of member sizes, once as the kernel header and once as
the library header declares them, `sizeof` on a 64-bit target, the ioctl numbers
built from direction, ordinal and size, and the dispatch of `cortex_forge_ioctl`
over all eight commands. What SUBMIT, QUERY, CANCEL and GET_ACCEL_INFO answer
depends on TaskEngine's state and is a choice here; SET_POWER and SET_ACCEL check
the value they are given.

### LibClient

`lib/src/libcortex-forge.c` in an application with several threads:
`cortex_forge_open` (`OpenNull`, `OpenDevice`, `OpenAlloc`), `cortex_forge_close`
(`Close`, `CloseFd`, `CloseFree`), and the six wrappers, which share one shape
(`CallInvalid`, `Call`, `Lock`, `DoIoctl`, `Unlock`, `CallEnd`). `fds` is the
process's descriptor table, from which `open` takes the lowest free number. The
ioctl is one step that asks IoctlAbi: no ioctl of the driver waits for anything but a
short critical section. `RawIoctl` (external) is an application that uses the kernel
header directly.
The one assumption on the application is that it closes a handle when no other
thread is using it and then forgets it. `Owners` says who is to close a descriptor: the
handle that wraps it, or the thread that has just got it from `open`.

### MCTaskEngine, MCSingleFileDriver

The small instances of TaskEngine: sets of descriptors (sizes in units of 32 MiB, so that 2
is the largest accepted and 3 the smallest refused), and which thread makes which calls.
The small instance of SingleFileDriver: one descriptor for each of two accelerators and
one for an accelerator that does not exist.

### The proof modules

The theorems of section 4, each module extending the one it is about:
`TaskEngineProofs` (types, lists), `TaskEngineWorkerProofs` (what workers leave behind,
removal), `TaskEngineLookupProofs` (the scans of QUERY and CANCEL), `TaskEngineFifoProofs`
(refinement of AccelFifo), `DriverLifecycleProofs`, `LibClientProofs` and
`SingleFileDriverProofs`, which builds on `TaskEngineWorkerProofs`.

## 3. Runs, bounds and fairness

All of `TaskEngine`'s instances have `MaxSize = 2` and more ids than slots, as the code.

| run | instance | shows |
|---|---|---|
| `ioctls` | 2 slots, 1 accelerator, 2 threads, one with SUBMIT and CANCEL, the other with SUBMIT, QUERY and GET_INFO; a task with a timeout and each kind of rejected descriptor | `TypeOK`, `ListIntegrity`, `IssuedFindable`, `RetiredIsTerminal`, `LoadTracksWorker`, `QueryReportsTask` |
| `removal` | 2 slots, 2 accelerators, 1 thread with SUBMIT and CANCEL, removal at any time, `FairSpec` | `NoWorkerAfterStop`, `FifoService` (refinement of AccelFifo), `QueuedTaskEnds`, `CancelInterrupts`, `RemovalTerminates` |
| `lifecycle` | 3 accelerators, 2 files, `FairSpec` | `LifecycleTypeOK`, `NothingLeftBehind`, `StopsOnlyThreads`, `NodeIsServed`, `TransitionsEnd` |
| `single_file` | 1 slot, 3 accelerators, 1 thread with a file, `DriverFairSpec`; all ioctls, tasks with and without timeout, every failure of probe, any number of rebinds | `WorkersHaveDevice`, `TornDownClean`, `TransitionEnds` |
| `library` | 2 threads, 2 handles, 2 descriptors, `FairSpec` | `LibTypeOK`, `FdsOwned`, `OwnAnswer`, `CallsOwnDevice`, `MutexReleased` |
| the other seven | see section 5 | each a sentence of the repository that the code does not live up to |

Why the bounds suffice to meet the interesting cases. Two slots are the least for
which one task can wait while another runs, and for which the pool runs empty
while a task is in flight. Two user threads are the least for two submissions, or a
submission and a query or cancel of the same task, to race; the worker is the third
party. Each thread has its own calls, which keeps `ioctls` small enough to explore in
full: cancels and queries only meet through the fields of a task, and there every
cancel meets every query. A task with a timeout can end in all the ways one
without can (`WorkerExpire`), and in two more (`WorkerPoll`), so it stands for both
where no short sleep has to end. Two accelerators, in `removal`, are the least for which
the stop loop has a next round; the tasks there go to the first one, and the second
is stopped idle. That two accelerators never get each other's node is proved
(`ListsIntact`). Every id of the instance may be queried and cancelled, also 0 and ids
not yet handed out. Three accelerators in the lifecycle are the real number, so the
first, a middle and the last `kthread_run` can fail. Two threads, handles and
descriptors are the least for sharing a handle while another is opened or closed, and
for a descriptor number to be taken again. In `single_file` the
three workers are the real number, so that a worker can fail to start after others and
before others; one task is enough for a worker to be anywhere in it when it is stopped.

Deadlock is checked in every run but those of the single-file driver, where the system
really stops: after a `kthread_stop` that went wrong the thread that probes or removes
is dead, the threads that were in a call when a device went are lost, and nothing is
left to do. No run uses symmetry or a constraint.

Fairness. In TaskEngine, `ThreadFairness` is weak fairness of each thread that is
inside the kernel, and of the 10 ms sleep of a task without a timeout: the scheduler
runs every runnable thread and short sleeps end. A mutex needs no stronger assumption,
because its critical sections are single steps that are always possible at their
turn. Nothing is assumed of user space: no thread has to enter the driver, nobody has
to remove the device. No deadline is assumed to pass either, since `timeout_ms` may be 49
days: that a cancel cuts an execution short and that removal does not wait for ever
is shown without it. Only `QueuedTaskEnds` says `DeadlinesPass => ...`.
In `DriverLifecycle` and `SingleFileDriver`, what the
kernel has begun goes on (in the latter, with the workers as in TaskEngine and again
without any deadline passing); loading, binding, unbinding, opening and closing are never
forced. In `LibClient` the threads inside the library are run, the application never has
to call, and the mutex is not assumed fair, so the property is that it is released and
not that every waiter gets it.

Each property of a passing run has a mutant in `PROJECT.json`: a small change of one
definition, the sort of slip the code could have had, under which TLC finds the
property violated.

## 4. Proofs

Every safety invariant and the refinement that a passing run checks is also a theorem,
proved with TLAPS for every value of the constants. TLC checked the inductive
invariants below on the runs' instances before they were proved.

### The task path

For every number of slots, accelerators and user threads, every set of descriptors
and whatever each thread calls:

* **`TypeCorrect`**: `Spec => []TypeOK`. `TypeOK` alone is not inductive: a step that
  writes `tasks[slot[c]]` or `tasks[cur[a]]` needs the pointer to be a slot and not
  `NULL`. `PointersOK` adds that (a thread in the middle of a call that uses its task,
  and a worker between take and retire, have one). `TypeInv` is the conjunction. All
  ways an ioctl can be entered are brought to four forms first (`EnterStep`,
  `EnterCases`), the commonest being the call that is over at once (`Dismiss`).
* **`ListsIntact`**: `Spec => []ListIntegrity`: however many threads submit, cancel and
  query while the workers run, a list node is never linked twice and a slot being
  filled has one owner. The inductive invariant `ListInv` adds `IdleWorkers`: a worker
  outside its task holds none, so that taking one makes the active list exactly that
  one. The steps that move a node have a lemma each (`ListAlloc`, `ListEnqueue`,
  `ListTake`, `ListRetire`), resting on two facts about sequences
  (`TailOfInjective`, `AppendToInjective`); every other step leaves the lists alone
  (`ListFrame`). The same lemmas say what each step does to `Retired`.
* **`LoadExact`**, **`RetiredTasksEnded`**: `[]LoadTracksWorker` and
  `[]RetiredIsTerminal`. What a retired task looks like is decided by the unordered
  stores its worker made before, so the inductive invariant `ExecInv` follows them:
  `StoresMade` (a store no longer in `wtodo` has been made, and has not been undone) and
  `RunningServed` (a task in state RUNNING has its worker at it). Two lemmas say who
  writes what: an ioctl writes only to a free slot, to the one its thread is filling, or
  to cancel (`ClientWrites`); a worker only to its own task (`WorkerWrites`), which no
  other worker has (`OwnTask`). So a cancel can put CANCELLED where COMPLETE was, and
  that is all.
* **`RemovalLeavesNoWorker`**: `[]NoWorkerAfterStop`, from `StoppedSoFar`: the workers
  before the index have exited, and an exited worker takes no step.
* **`IssuedIdsFound`**: `[]IssuedFindable`. `IdsInOrder` is the reason the lock-free
  scans work: slots are handed out once each, in array order, so slot `s` gets id `s`, the
  counter never wraps, and the free slots are the ones above it. `InUse` adds that a
  task user space knows of has left FREE and that its id is visible. `LookupInv` is their conjunction with `ListInv`.
* **`QueriesReportTasks`**: `[]QueryReportsTask`, from `LookupInv` and `QueryRuns`: whichever
  load comes first, the state a query has read was not FREE.
* **`ServesInOrder`**: `Spec => FifoService`, TaskEngine implements AccelFifo. The initial
  states correspond (`FifoInitial`); `TaskEnqueue` is an accept (`EnqueueAccepts`),
  `WorkerTake` of a task a begin (`TakeBegins`), `WorkerRetire` an end (`RetireEnds`), and
  every other step a stutter (`FifoStep`). `ListInv` is needed so that the item that is
  accepted, begun or ended is where AccelFifo has it, and nowhere else.

Assumptions, all in TaskEngine and evaluated by TLC on every instance:
`PoolAssumption` (at least one slot and one accelerator, more ids than slots,
as 256 < 2^32), `DescsAssumption` (descriptor fields are natural numbers) and
`CallsAssumption` (each thread makes some of the four calls; `Removable` is a Boolean).

### The lifecycle

For every number of accelerators and of open files:

* **`LifecycleTypes`**, **`UnwindsCompletely`**, **`StopsThreads`**, **`NodesAreServed`**:
  `Spec` implies `[]LifecycleTypeOK`, `[]NothingLeftBehind`, `[]StopsOnlyThreads` and
  `[]NodeIsServed`. None of the last three is inductive: that nothing is left at the end
  depends on what was held and running all along the unwinding. The inductive invariant
  `LifecycleInv` says it for each control point of probe and remove: `HeldInv` bounds what
  is held there, `WorkerInv` says which workers live (in the start loop exactly those
  before the index; in the stop loop exactly those from the index up to `num`, so the
  failed one, whose pointer is an error, is never reached). Each group of steps has a
  lemma (`ManagedKeeps`, `StartKeeps`, `RegisterKeeps`, `UnregisterKeeps`, `StopKeeps`,
  `ReleaseKeeps`). The only assumption is `AccelsAssumption` (at least one accelerator).

### The single-file driver

For every number of slots, accelerators and user threads:

* **`WorkersNeedDevice`**, **`TeardownIsClean`**, **`ListsOutliveDevices`**: `DriverSpec`
  implies `[]WorkersHaveDevice`, `[]TornDownClean` and `[]ListIntegrity`. The inductive
  invariant `DriverInv` is the task path's `ExecInv` and, for each control point of probe
  and remove, `LifeInv`: what is held (`HeldOK`), which workers can be running
  (`ThreadsOK`: only one whose pointer is stored; none from the index on while they are
  started, none before it while they are stopped), and that no thread is inside an ioctl
  on the new device before `cdev_add` (`FilesOK`: `Away` are the threads in user space,
  about to return, or lost with an earlier device). The
  steps of ioctls and workers are TaskEngine's (`IoctlCases`), so its lemmas carry them;
  a new structure (`PathFresh`), a new thread (`PathStart`) and the end of a structure with
  calls in progress (`PathAbandoned`) have lemmas of their own. The assumptions are
  TaskEngine's.

### The library

For every number of threads and descriptors and every set of handles:

* **`LibTypeCorrect`**, **`AnswersOwn`**, **`DescriptorsOwned`**, **`CallsSerial`**:
  `Spec` implies `[]LibTypeOK`, `[]OwnAnswer`, `[]FdsOwned` and `[]CallsOwnDevice`. The inductive
  invariant `LibInv` has `ControlOK` (what a thread has in hand at each point),
  `AnswerKept` (from the ioctl on, `r` and `errno` hold the answer: no other thread writes
  them, and neither does the unlock), `CloserAlone` (a thread that closes a handle is
  alone with it until the memory is free: this is where the rule the application keeps
  is used), `CallersOK` (a thread inside a wrapper has a live handle, and from the lock to
  the unlock its mutex) and `OneOwner`, which is `FdsOwned` without counting. Each way a descriptor
  changes hands has a lemma (`OwnersOpened`, `OwnersWrapped`, `OwnersGivenBack`,
  `OwnersClosed`, `OwnersKept`). That the descriptor of a
  call is open follows from the last two: the handle is live, nobody is closing it,
  and so it owns its descriptor. Assumptions: `FdsAssumption` (at least one descriptor) and
  `NobodyAssumption`.

### Only model-checked

* Liveness under fairness, which the prover does not handle: `QueuedTaskEnds`,
  `CancelInterrupts`, `RemovalTerminates`, `TransitionsEnd`,
  `TransitionEnds`, `MutexReleased`.
* The sizes themselves, a fold over the members of a structure: which commands have
  different sizes on the two sides is TLC's result (`library_abi`).

## 5. Where the code and its documents disagree

Each is a run that expects a violation; the finding in `PROJECT.json` quotes the lines.

| run | property | what happens |
|---|---|---|
| `cancel_lost` | `CancelStops` | CANCEL of a pending task returns 0, then the worker overwrites CANCELLED with RUNNING and executes it |
| `pool_leak` | `OutOfMemoryMeansInUse` | finished tasks never return to the free list: after `MAX_TASKS` submissions every SUBMIT fails |
| `urgent_first` | `MoreUrgentFirst` | a task of priority 0 is executed although one of priority 255 waits for the same accelerator: the priority is stored (`chardev.c:60`) and never read, service is FIFO (`FifoService`), as the comment at `accel_manager.c:48` says and three headers do not |
| `exited_worker` | `CleanRemoval` | removal clears `running`, the worker sees it and returns, and `kthread_stop` is then given a thread that nothing keeps alive |
| `failed_start` | `FailedStartCleansUp` | in the single-file driver, when `kthread_run` fails, the failure path hands the error pointer to `kthread_stop`: the probe does not return and releases nothing. The built driver stops only the workers before the failed one (`StopsOnlyThreads`) |
| `stale_file` | `NoStaleFile` | an open file outlives the devm memory its `private_data` points to |
| `library_abi` | `LibraryIsUnderstood` | three of the six library calls have other ioctl numbers than the driver, because the library's structures lack the reserved members: they return `-ENOTTY` |

Further consequences of the code as modelled, without a run of their own:

* a SUBMIT whose `copy_to_user` fails returns `-EFAULT` with the task queued
  (`chardev.c:75`): it keeps its slot and is executed, and nobody knows its id, while
  `test/test_edge_cases.cpp:97` speaks of resources "cleaned up on submission failure";
* a task that SUBMIT accepts after the workers were stopped, through a file that was
  open, stays queued for ever;
* QUERY hands out the internal enumeration (`task_manager.c:125`, `cortex_forge_task.h:24-32`),
  in which RUNNING is 2 and COMPLETE 3, while `cortex_forge_uapi.h:33` defines COMPLETE as 2:
  a running task looks complete to user space, with an execution time computed from a
  `complete_jiffies` never written;
* even with matching status codes a QUERY could pair COMPLETE with the initial
  `complete_jiffies`: neither the two stores (`accel_manager.c:95-96`) nor the two
  loads (`task_manager.c:125-126`) are ordered;
* a task whose deadline passes is reported COMPLETE with error 0 like any other: FAILED
  is never stored;
* the stores of a cancel and of the finishing worker (`task_manager.c:152-153`,
  `accel_manager.c:96-97`) can interleave so that a finished task is COMPLETE with
  `-ECANCELED`, or CANCELLED with 0, for good;
* until its id is visible, a task that is already PENDING can be found, queried and
  cancelled as task 0.

## 6. What is not modelled

* Unfinished files that are not built and that nobody calls. None of them keeps state
  that another part of the driver reads, so there is no behaviour to check:
  `cortex_forge_irq.c` does not compile against `cortex_forge_dev.h` (it uses members
  `soc` and `pending_events`, which the structure lacks), and the only `irq_ack` there
  is returns 0, so its handler returns `IRQ_NONE` before it touches anything;
  `cortex_forge_platform.c` is a constant table of operations that return constants over
  placeholder register offsets (`cortex_forge_regs.h`);
  `cortex_forge_sysfs.c` and `cortex_forge_debugfs.c` print constants;
  `cortex_forge_chardev.c` has a read, write and poll that return 0. Once the hardware parts are
  written, `cortex_forge_irq.c:38` deserves a model: it overwrites `pending_events`, so
  an interrupt that arrives before the threaded handler has read the mask of the one
  before replaces it.
* The constants that GET_VERSION and GET_PROFILE report, and the wording of
  `cortex_forge_strerror`.
* Power, clocks, reset and registers: the driver only gets hold of them.
* Applications that close a handle another thread is using.

## 7. Plan

Done: `TaskEngine`, `AccelFifo`, `DriverLifecycle`, `SingleFileDriver`, `IoctlAbi`, `LibClient`,
their runs, and the theorems of section 4: every invariant of a passing run and the
refinement are proved.

Next: that what the single-file driver does to the lists is again AccelFifo's service
between a probe and the next release; a run for the two enumerations of a task's status;
and, once the interrupt handling is written, a model of it.
