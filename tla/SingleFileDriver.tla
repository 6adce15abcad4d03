-------------------------- MODULE SingleFileDriver --------------------------
(***************************************************************************)
(* The driver in one file (cortex_forge_main.c), as a whole: the device is *)
(* probed and removed while user threads open it and run ioctls and while  *)
(* the workers execute their tasks.                                        *)
(*                                                                         *)
(* Its task path is, statement for statement, the one TaskEngine models,   *)
(* and most of its probe the one DriverLifecycle models, so the module     *)
(* composes the two: a step of a user thread or a worker is TaskEngine's   *)
(* and leaves the lifecycle alone, a step of probe or remove is            *)
(* DriverLifecycle's and leaves the task path alone.  What the file does   *)
(* differently is written out: starting the workers, the two loops that    *)
(* stop them, where kthread_stop is no longer one step, and the device     *)
(* structure that comes and goes.  `sidx` is the loop index `i` of probe   *)
(* and remove; every client has one file.                                  *)
(***************************************************************************)
EXTENDS TaskEngine

VARIABLES class_reg, driver_reg, mpc, ppc, held, worker, num, file \* as in DriverLifecycle

Life == INSTANCE DriverLifecycle WITH Files <- Clients, idx <- sidx

lifeVars == <<class_reg, driver_reg, mpc, ppc, held, worker, num, file>>
pathVars == <<poolVars, accelVars, flagVars, workerVars, callVars>>
allVars  == <<vars, lifeVars>>

\* Nothing is loaded and no thread exists ("exited").  What is in the memory of
\* a device that is not there does not matter.
DriverInit ==
  /\ PoolInit
  /\ AccelInit
  /\ should_stop = [a \in Accels |-> FALSE]
  /\ wpc = [a \in Accels |-> "exited"]
  /\ cur = [a \in Accels |-> NULL]
  /\ wtodo = [a \in Accels |-> {}]
  /\ pc = [c \in Clients |-> "idle"]
  /\ op = [c \in Clients |-> "none"]
  /\ slot = [c \in Clients |-> NULL]
  /\ todo = [c \in Clients |-> {}]
  /\ reply = [c \in Clients |-> ZeroReply]
  /\ ret = [c \in Clients |-> "0"]
  /\ issued = {}
  /\ spc = "idle"
  /\ Life!Init

-----------------------------------------------------------------------------
(***************************************************************************)
(* The ioctls of an open file, and the workers.                            *)
(***************************************************************************)
InFile(c) == file[c] = "open" /\ UNCHANGED lifeVars

\* task_alloc
TakeSlot(c, d) == SubmitNoMemory(c, d) \/ SubmitAlloc(c, d)

\* The descriptor is checked, a slot is taken and filled.
SubmitIoctl(c) == InFile(c) /\ \E d \in Descs : SubmitRejected(c, d) \/ TakeSlot(c, d)

\* task_submit
QueueTask(c) == InFile(c) /\ (TaskSubmit(c) \/ IdVisible(c) \/ TaskEnqueue(c))

SubmitAnswer(c) == InFile(c) /\ SubmitCopyOut(c)

QueryIoctl(c) == InFile(c) /\ \E i \in Ids : Query(c, i)

\* task_query once it has found the task.
QueryRest(c) == InFile(c) /\ (QueryRead(c) \/ QueryCopyOut(c))

CancelIoctl(c) == InFile(c) /\ \E i \in Ids : Cancel(c, i)

\* task_cancel once it has found the task.
CancelRest(c) == InFile(c) /\ (CancelStore(c) \/ CancelDone(c))

InfoIoctl(c) == InFile(c) /\ \E t \in 0..NumAccels : GetInfo(c, t)

FaultIoctl(c) == InFile(c) /\ IoctlFault(c)

\* SET_POWER, GET_VERSION, GET_PROFILE, SET_ACCEL and unknown commands: nothing
\* but an answer.
StatelessIoctl(c) ==
  /\ InFile(c)
  /\ pc[c] = "idle"
  /\ \E r \in {"0", "EFAULT", "EINVAL", "ENOTTY"} : Finish(c, "none", NULL, r)
  /\ UNCHANGED <<engineVars, todo, reply, issued>>

\* A call that is over needs no device to return.
ReturnIoctl(c) == file[c] # "closed" /\ Return(c) /\ UNCHANGED lifeVars

WorkerThread(a) == (Worker(a) \/ WorkerExpire(a)) /\ UNCHANGED lifeVars

OpenFile(c) == Life!Open(c) /\ UNCHANGED <<pathVars, spc>>

\* A call in progress holds on to its file.
ReleaseFile(c) == pc[c] = "idle" /\ Life!Close(c) /\ UNCHANGED <<pathVars, spc>>

-----------------------------------------------------------------------------
(***************************************************************************)
(* Module init and exit, probe.                                            *)
(***************************************************************************)
ModuleInit == (Life!InitClass \/ Life!InitDriver) /\ UNCHANGED <<pathVars, spc>>

ModuleExit == (Life!ExitUnregister \/ Life!ExitClass) /\ UNCHANGED <<pathVars, spc>>

\* The zeroed structure with its pool, and accel_init.
FreshDevice ==
  /\ tasks' = [s \in Slots |-> ZeroTask]
  /\ free_tasks' = [i \in 1..MaxTasks |-> i]
  /\ next_task_id' = 0
  /\ task_queue' = [a \in Accels |-> <<>>]
  /\ active_tasks' = [a \in Accels |-> {}]
  /\ load_percent' = [a \in Accels |-> 0]
  /\ running' = [a \in Accels |-> TRUE]
  /\ issued' = {}

ProbeAlloc ==
  /\ ppc = "mem"
  /\ Life!ProbeManaged
  /\ IF "mem" \in held' THEN FreshDevice
                        ELSE UNCHANGED <<poolVars, accelVars, running, issued>>
  /\ UNCHANGED <<should_stop, workerVars, pc, op, slot, todo, reply, ret, spc>>

ProbeHardware ==
  /\ Life!ProbeBegin \/ (ppc # "mem" /\ Life!ProbeManaged)
  /\ UNCHANGED <<pathVars, spc>>

\* One round of the loop that starts the workers.  A failure goes to
\* err_stop_workers with the error pointer stored.
ProbeWorker ==
  /\ ppc = "workers"
  /\ \/ /\ worker' = [worker EXCEPT ![sidx] = "live"]
        /\ wpc' = [wpc EXCEPT ![sidx] = "loop"]
        /\ should_stop' = [should_stop EXCEPT ![sidx] = FALSE]
        /\ sidx' = sidx + 1
        /\ ppc' = IF sidx + 1 < NumAccels THEN "workers" ELSE "region"
        /\ UNCHANGED num
     \/ /\ worker' = [worker EXCEPT ![sidx] = "err"]
        /\ Life!StopWorkers
        /\ UNCHANGED <<wpc, should_stop>>
  /\ UNCHANGED <<poolVars, accelVars, running, cur, wtodo, callVars, spc,
                 class_reg, driver_reg, mpc, held, file>>

\* device_create gets a class pointer nobody has set; whether it fails for that
\* is the kernel's business, and both outcomes are kept.
ProbeRegister ==
  /\ Life!ProbeRegion \/ Life!ProbeCdev \/ Life!ProbeNode
  /\ UNCHANGED <<pathVars, spc>>

-----------------------------------------------------------------------------
(***************************************************************************)
(* err_stop_workers, remove, and what the driver core does after either.   *)
(***************************************************************************)
RemoveUnregister ==
  /\ Life!RemoveBegin \/ Life!RemoveCdev \/ Life!RemoveRegion
  /\ UNCHANGED <<pathVars, spc>>

StopAllButLast(a) == worker[a] # "null" /\ a + 1 < NumAccels \* mutant of ToStop

\* Both loops stop what is not NULL: the one of remove makes no check, but runs
\* only when all workers were started.
ToStop(a) == worker[a] # "null"

StopNext ==
  /\ ppc = "stop"
  /\ spc = "idle"
  /\ \/ /\ sidx < num /\ ToStop(sidx)
        /\ spc' = "flag"
        /\ UNCHANGED <<sidx, ppc>>
     \/ /\ sidx < num /\ ~ToStop(sidx)
        /\ sidx' = sidx + 1
        /\ UNCHANGED <<spc, ppc>>
     \/ /\ sidx >= num
        /\ ppc' = "release"
        /\ UNCHANGED <<spc, sidx>>
  /\ UNCHANGED <<pathVars, class_reg, driver_reg, mpc, held, worker, num, file>>

\* The running flag, then kthread_stop.  As in TaskEngine, this is the harmless
\* outcome where the worker has returned by then.
StopOne ==
  \/ StopFlag /\ UNCHANGED lifeVars
  \/ StopRequest /\ worker[sidx] = "live" /\ UNCHANGED lifeVars

\* kthread_stop of an error pointer, or of a worker that has returned: the thread
\* that runs probe or remove dies there, with all it holds.
StopBadPtr ==
  /\ spc = "stop"
  /\ worker[sidx] = "err" \/ Exited(sidx)
  /\ ppc' = "oops"
  /\ spc' = "idle"
  /\ UNCHANGED <<pathVars, sidx, class_reg, driver_reg, mpc, held, worker, num, file>>

\* kthread_stop returns; worker_thread keeps its value.
StopJoined ==
  /\ spc = "join"
  /\ Exited(sidx)
  /\ spc' = "idle"
  /\ sidx' = sidx + 1
  /\ UNCHANGED <<pathVars, lifeVars>>

\* The managed memory goes.  A call still in progress goes on in freed memory
\* (see NoStaleFile of DriverLifecycle): its thread is lost, and never comes back
\* to the next device.  The threads in user space keep their files.
ReleaseDevice ==
  /\ ppc = "release"
  /\ held' = held \ Life!Managed
  /\ worker' = [a \in Accels |-> "null"]
  /\ file' = [c \in Clients |-> IF file[c] = "open" THEN "stale" ELSE file[c]]
  /\ ppc' = "unbound"
  /\ sidx' = 0 /\ num' = 0
  /\ pc' = [c \in Clients |-> IF pc[c] \in {"idle", "ret"} THEN pc[c] ELSE "lost"]
  /\ slot' = [c \in Clients |-> NULL]
  /\ todo' = [c \in Clients |-> {}]
  /\ UNCHANGED <<poolVars, accelVars, flagVars, workerVars, op, reply, ret, issued,
                 spc, class_reg, driver_reg, mpc>>

-----------------------------------------------------------------------------
Ioctl(c) ==
  \/ SubmitIoctl(c) \/ QueryIoctl(c) \/ CancelIoctl(c) \/ InfoIoctl(c)
  \/ FaultIoctl(c) \/ StatelessIoctl(c)

IoctlStep(c) ==
  \/ QueueTask(c) \/ SubmitAnswer(c) \/ QueryRest(c) \/ CancelRest(c)
  \/ ReturnIoctl(c)

Stopping == StopNext \/ StopOne \/ StopBadPtr \/ StopJoined

DriverNext ==
  \/ ModuleInit \/ ModuleExit
  \/ ProbeHardware \/ ProbeAlloc \/ ProbeWorker \/ ProbeRegister
  \/ RemoveUnregister \/ Stopping \/ ReleaseDevice
  \/ \E c \in Clients : Ioctl(c) \/ IoctlStep(c) \/ OpenFile(c) \/ ReleaseFile(c)
  \/ \E a \in Accels : WorkerThread(a)

DriverSpec == DriverInit /\ [][DriverNext]_allVars

\* Probe and remove, once begun, go on.
Transition ==
  \/ ProbeAlloc \/ ProbeWorker \/ ProbeRegister \/ Stopping \/ ReleaseDevice
  \/ ppc # "unbound" /\ ProbeHardware
  \/ ppc # "bound" /\ RemoveUnregister

\* Threads in the kernel run and the 10 ms sleeps end; no deadline has to pass.
DriverFairSpec ==
  /\ DriverSpec
  /\ WF_allVars(Transition)
  /\ \A a \in Accels : /\ WF_allVars(Worker(a) /\ UNCHANGED lifeVars)
                       /\ WF_allVars(ShortSleep(a) /\ UNCHANGED lifeVars)

-----------------------------------------------------------------------------
\* No worker runs on the memory of a device that is gone, and a device is gone as
\* a whole: once a failed probe or a removal has come to its end, nothing stays
\* registered or held.  (Not every one does: see FailedStartCleansUp.)
WorkersHaveDevice ==
  /\ \A a \in Accels : wpc[a] # "exited" => "mem" \in held
  /\ ppc = "unbound" => held = {}

\* When the loop that stops the workers is through, no task is half executed:
\* every task that was taken has been brought to its end, however long its
\* deadline and whatever cancels came in between.
TornDownClean ==
  ppc = "release" =>
    /\ \A a \in Accels : active_tasks[a] = {} /\ load_percent[a] = 0
    /\ \A s \in Slots : tasks[s].state # "RUNNING"

\* A probe or a removal never waits for ever on a worker: it gets through, with
\* tasks in flight and without waiting for their deadlines, or dies in a
\* kthread_stop.
TransitionEnds ==
  ppc \notin {"unbound", "bound"} ~> ppc \in {"unbound", "bound", "oops"}

\* docs/ERROR_HANDLING.md: "Resources are cleaned up on failure".  A probe that
\* could not start a worker gives back all it holds.  The code does not: checked
\* by a run that expects the violation.
FailedStartCleansUp == (\E a \in Accels : worker[a] = "err") ~> held = {}

=============================================================================
