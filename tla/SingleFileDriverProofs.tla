------------------------ MODULE SingleFileDriverProofs ------------------------
(***************************************************************************)
(* The driver in one file, for every number of slots, accelerators and     *)
(* user threads: what the task path guarantees (TaskEngineWorkerProofs)    *)
(* outlives any number of probes and removals, and at no time does a       *)
(* worker run without its device.                                          *)
(***************************************************************************)
EXTENDS SingleFileDriver, TaskEngineWorkerProofs

\* Before the first kthread_run, and from the last kthread_stop on.
NoThread == {"unbound", "mem", "mmio", "clks", "rst", "irq", "release"}

\* Before cdev_add nobody can open the device.
Unopened == {"unbound", "mem", "mmio", "clks", "rst", "irq", "workers", "region", "cdev"}

LifeTypeOK ==
  /\ ppc \in Life!ProbePC \cup {"oops"}
  /\ held \subseteq Life!Resources
  /\ worker \in [Accels -> {"null", "err", "live"}]
  /\ sidx \in 0..NumAccels /\ num \in 0..NumAccels
  /\ file \in [Clients -> {"closed", "open", "stale"}]
  /\ spc \in {"idle", "flag", "stop", "join"}

\* What is held at each point of probe and remove.
HeldOK ==
  /\ ppc = "unbound" => held = {}
  /\ ppc \in NoThread \cup {"workers", "region", "stop"} => held \subseteq Life!Managed
  /\ ppc \in {"cdev", "rm_region"} => held \subseteq Life!Managed \cup {"region"}
  /\ ppc \in {"node", "rm_cdev"} => held \subseteq Life!Managed \cup {"region", "cdev"}
  /\ ppc \notin {"unbound", "mem", "release"} => "mem" \in held

\* Which workers may run at each point: a thread that runs has its pointer
\* stored, the loop that starts the workers has not yet started the rest, the
\* one that stops them leaves none running behind it.
ThreadsOK ==
  /\ \A a \in Accels : worker[a] # "live" => wpc[a] = "exited"
  /\ ppc \in NoThread => \A a \in Accels : wpc[a] = "exited"
  /\ ppc = "workers" => /\ sidx < NumAccels
                        /\ \A a \in Accels : a >= sidx => wpc[a] = "exited"
  /\ ppc = "stop" => /\ num = NumAccels
                     /\ \A a \in Accels : a < sidx => wpc[a] = "exited"
  /\ spc # "idle" => ppc = "stop" /\ sidx < num

\* A thread that is not inside the driver, or has been lost in a device that is gone.
Away == {"idle", "ret", "lost"}

\* Whoever is inside an ioctl came through an open file.
FilesOK == ppc \in Unopened => \A c \in Clients : pc[c] \in Away /\ file[c] # "open"

LifeInv == LifeTypeOK /\ HeldOK /\ ThreadsOK /\ FilesOK

DriverInv == ExecInv /\ LifeInv

-----------------------------------------------------------------------------
(***************************************************************************)
(* The task path.                                                          *)
(***************************************************************************)

\* Every step of an ioctl of an open file is one of TaskEngine's, and so is the
\* return from one.
LEMMA IoctlCases ==
  ASSUME NEW c \in Clients, Ioctl(c) \/ IoctlStep(c)
  PROVE  /\ EnterStep(c) \/ Proceed(c)
         /\ UNCHANGED lifeVars
         /\ file[c] = "open" \/ Return(c)
<1> USE DEF InFile
<1>1. CASE StatelessIoctl(c)
  <2>1. "none" \in Ops /\ {"0", "EFAULT", "EINVAL", "ENOTTY"} \subseteq Errno
    BY DEF Ops, Errno
  <2> QED BY <1>1, <2>1 DEF StatelessIoctl, EnterStep, Dismiss
<1>2. CASE SubmitIoctl(c) \/ FaultIoctl(c)
  BY <1>2, EnterCases DEF SubmitIoctl, TakeSlot, FaultIoctl, EnterStep
<1>3. CASE QueryIoctl(c) \/ CancelIoctl(c) \/ InfoIoctl(c)
  BY <1>3, EnterCases DEF QueryIoctl, CancelIoctl, InfoIoctl, Query, Cancel, EnterStep
<1>4. CASE IoctlStep(c)
  BY <1>4 DEF IoctlStep, QueueTask, SubmitAnswer, QueryRest, CancelRest, ReturnIoctl, Proceed
<1> QED BY <1>1, <1>2, <1>3, <1>4 DEF Ioctl

\* Registering, starting to stop and the like do not touch the tasks.
LEMMA PathKept ==
  ASSUME ExecInv,
         UNCHANGED <<poolVars, accelVars, cur, wtodo, wpc, callVars>>,
         running' \in [Accels -> BOOLEAN], should_stop' \in [Accels -> BOOLEAN]
  PROVE  ExecInv'
<1>1. TypeInv'
  BY DEF ExecInv, ListInv, TypeInv, PathTypeOK, PointersOK, poolVars, accelVars, callVars
<1>2. ListInv'
  BY <1>1, ListStutter DEF ExecInv, poolVars, accelVars, callVars
<1> QED BY <1>2, ExecStutter DEF poolVars, accelVars

\* kthread_run: the new thread starts at the top of its loop, without a task.
LEMMA PathStart ==
  ASSUME ExecInv, NEW a \in Accels, wpc[a] = "exited", wpc' = [wpc EXCEPT ![a] = "loop"],
         should_stop' = [should_stop EXCEPT ![a] = FALSE],
         UNCHANGED <<poolVars, accelVars, running, cur, wtodo, callVars>>
  PROVE  ExecInv'
<1>1. TypeInv /\ ListIntegrity /\ IdleWorkers
  BY DEF ExecInv, ListInv
<1>2. PathTypeOK'
  BY <1>1 DEF TypeInv, PathTypeOK, WorkerPC, poolVars, accelVars, callVars
<1>3. wpc'[a] = "loop" /\ \A b \in Accels : b # a => wpc'[b] = wpc[b]
  BY <1>1 DEF TypeInv, PathTypeOK
<1>4. PointersOK'
  BY <1>1, <1>3 DEF TypeInv, PointersOK, callVars
<1>5. ListIntegrity'
  BY <1>1, ListFrame DEF poolVars, accelVars, callVars
<1>6. IdleWorkers'
  BY <1>1, <1>3 DEF IdleWorkers
<1>7. ListInv'
  BY <1>2, <1>4, <1>5, <1>6 DEF ListInv, TypeInv
<1>8. LoadTracksWorker' /\ StoresMade'
  BY <1>3 DEF ExecInv, LoadTracksWorker, StoresMade, Final, poolVars, accelVars
<1>9. RunningServed'
  BY <1>3 DEF ExecInv, RunningServed, poolVars
<1> QED BY <1>7, <1>8, <1>9 DEF ExecInv

\* A new device structure: whatever the last one held is forgotten.
LEMMA PathFresh ==
  ASSUME ExecInv, FreshDevice, \A a \in Accels : wpc[a] = "exited",
         \A c \in Clients : pc[c] \in Away,
         UNCHANGED <<should_stop, workerVars, pc, op, slot, todo, reply, ret>>
  PROVE  TypeInv' /\ Fresh'
<1>1. TypeInv /\ IdleWorkers
  BY DEF ExecInv, ListInv
<1>2. ZeroTask \in Task
  BY PoolAssumption DEF ZeroTask, Task, Ids, Accels, States, ErrorCodes
<1>3. free_tasks' \in Seq(Slots)
  BY PoolAssumption DEF FreshDevice, Slots
<1>4. PathTypeOK'
  BY <1>1, <1>2, <1>3, PoolAssumption DEF FreshDevice, TypeInv, PathTypeOK, Ids, workerVars
<1>5. PointersOK'
  BY DEF PointersOK, Away, workerVars
<1>6. Fresh'
  BY <1>1 DEF Away, IdleWorkers, FreshDevice, Fresh, PoolInit, AccelInit, workerVars
<1> QED BY <1>4, <1>5, <1>6 DEF TypeInv

\* FreshExec, of the state after a step.
LEMMA FreshExecNext == TypeInv' /\ Fresh' => ExecInv'
BY FreshExec, PTL

\* The threads in a call are lost; the slots they held are on no list.
LEMMA PathAbandoned ==
  ASSUME ExecInv, ReleaseDevice PROVE ExecInv'
<1> USE DEF ReleaseDevice, poolVars, accelVars, flagVars, workerVars
<1>1. TypeInv /\ ListIntegrity /\ IdleWorkers
  BY DEF ExecInv, ListInv
<1>2. TypeInv'
  BY <1>1 DEF TypeInv, PathTypeOK, PointersOK, ClientPC
<1>3. Holders' = {} /\ Held' = {}
  BY DEF Holders, Held
<1>4. ListIntegrity'
  BY <1>1, <1>3 DEF ListIntegrity, InFree, InQueue, InActive
<1>5. ListInv'
  BY <1>1, <1>2, <1>4 DEF ListInv, IdleWorkers
<1> QED BY <1>5, ExecStutter

-----------------------------------------------------------------------------
(***************************************************************************)
(* The lifecycle.                                                          *)
(***************************************************************************)

\* Nothing is loaded at first.
LEMMA DriverInitInv == DriverInit => DriverInv
<1> SUFFICES ASSUME DriverInit PROVE DriverInv
  OBVIOUS
<1>1. ZeroTask \in Task /\ ZeroReply \in Reply
  BY PoolAssumption DEF ZeroTask, Task, ZeroReply, Reply, Ids, Accels, States, ErrorCodes
<1>2. free_tasks \in Seq(Slots)
  BY PoolAssumption DEF DriverInit, PoolInit, Slots
<1>3. PathTypeOK
  BY <1>1, <1>2, PoolAssumption
  DEF DriverInit, PoolInit, AccelInit, PathTypeOK, Ids, WorkerPC, ClientPC, Ops, Errno, NULL
<1>4. PointersOK /\ Fresh
  BY DEF DriverInit, PointersOK, Fresh
<1>5. LifeTypeOK
  <2>1. worker \in [Accels -> {"null", "err", "live"}] /\ sidx = 0 /\ num = 0
    BY DEF DriverInit, Life!Init, Life!Accels, Accels
  <2> QED BY <2>1, PoolAssumption DEF DriverInit, Life!Init, LifeTypeOK, Life!ProbePC
<1>6. HeldOK /\ ThreadsOK /\ FilesOK
  BY DEF DriverInit, Life!Init, HeldOK, ThreadsOK, FilesOK, NoThread, Unopened, Away
<1> QED BY <1>3, <1>4, <1>5, <1>6, FreshExec DEF DriverInv, LifeInv, TypeInv

\* A step that leaves the lifecycle alone, starts no worker and enters no ioctl
\* but through an open file.
LEMMA LifeKept ==
  ASSUME LifeInv, UNCHANGED <<lifeVars, stopVars>>,
         \A a \in Accels : wpc[a] = "exited" => wpc'[a] = "exited",
         ppc \in Unopened => \A c \in Clients : pc'[c] \in {"idle", pc[c]}
  PROVE  LifeInv'
<1> USE DEF LifeInv, lifeVars, stopVars
<1>1. LifeTypeOK'
  BY DEF LifeTypeOK
<1>2. HeldOK'
  BY DEF HeldOK
<1>3. ThreadsOK'
  BY DEF ThreadsOK
<1>4. FilesOK'
  BY DEF FilesOK, Away
<1> QED BY <1>1, <1>2, <1>3, <1>4

\* The ioctls.
LEMMA DriverIoctl ==
  ASSUME DriverInv, NEW c \in Clients, Ioctl(c) \/ IoctlStep(c) PROVE DriverInv'
<1>1. /\ EnterStep(c) \/ Proceed(c)
      /\ UNCHANGED lifeVars
      /\ file[c] = "open" \/ Return(c)
  BY IoctlCases
<1>2. ExecInv'
  BY <1>1, ExecClient DEF DriverInv
<1>3. UNCHANGED <<lifeVars, stopVars, wpc>>
  BY <1>1, ClientFrame DEF workerVars
<1>4. ppc \in Unopened => \A d \in Clients : pc'[d] \in {"idle", pc[d]}
  BY <1>1 DEF Return, DriverInv, LifeInv, FilesOK, ExecInv, ListInv, TypeInv, PathTypeOK
<1>5. LifeInv'
  BY <1>3, <1>4, LifeKept DEF DriverInv
<1> QED BY <1>2, <1>5 DEF DriverInv

\* The workers.
LEMMA DriverWorker ==
  ASSUME DriverInv, NEW a \in Accels, WorkerThread(a) PROVE DriverInv'
<1>1. (Worker(a) \/ WorkerExpire(a)) /\ UNCHANGED lifeVars
  BY DEF WorkerThread
<1>2. ExecInv'
  BY <1>1, ExecWorker DEF DriverInv
<1>3. UNCHANGED <<stopVars, pc>>
  BY <1>1, WorkerFrame DEF callVars
<1>4. wpc[a] # "exited"
  BY <1>1 DEF Worker, WorkerExpire, WorkerPoll, WorkerCheck, WorkerTake, WorkerStart,
     WorkerStore, WorkerFinish, WorkerRetire
<1>5. \A b \in Accels : b # a => wpc'[b] = wpc[b]
  BY <1>1, WorkerWrites DEF DriverInv, ExecInv
<1>6. LifeInv'
  BY <1>1, <1>3, <1>4, <1>5, LifeKept DEF DriverInv
<1> QED BY <1>2, <1>6 DEF DriverInv

\* module_init, module_exit and the files.
LEMMA DriverModule ==
  ASSUME DriverInv,
         \/ ModuleInit \/ ModuleExit
         \/ \E c \in Clients : OpenFile(c) \/ ReleaseFile(c)
  PROVE  DriverInv'
<1>1. UNCHANGED <<pathVars, spc, ppc, held, worker, sidx, num>>
  BY DEF ModuleInit, ModuleExit, OpenFile, ReleaseFile, Life!InitClass, Life!InitDriver,
     Life!ExitUnregister, Life!ExitClass, Life!Open, Life!Close
<1>2. ExecInv'
  BY <1>1, PathKept DEF DriverInv, ExecInv, ListInv, TypeInv, PathTypeOK, pathVars, flagVars,
     workerVars
<1>3. file' \in [Clients -> {"closed", "open", "stale"}]
  BY DEF DriverInv, LifeInv, LifeTypeOK, ModuleInit, ModuleExit, OpenFile, ReleaseFile,
     Life!InitClass, Life!InitDriver, Life!ExitUnregister, Life!ExitClass, Life!Open, Life!Close
<1>4. \A c \in Clients : ppc \in Unopened /\ file[c] # "open" => file'[c] # "open"
  <2>1. ppc \in Unopened => "cdev" \notin held
    BY DEF DriverInv, LifeInv, HeldOK, Unopened, NoThread, Life!Managed
  <2> QED BY <2>1 DEF DriverInv, LifeInv, LifeTypeOK, ModuleInit, ModuleExit, OpenFile,
        ReleaseFile, Life!InitClass, Life!InitDriver, Life!ExitUnregister, Life!ExitClass,
        Life!Open, Life!Close
<1>5. LifeTypeOK' /\ HeldOK' /\ ThreadsOK' /\ FilesOK'
  BY <1>1, <1>3, <1>4 DEF DriverInv, LifeInv, LifeTypeOK, HeldOK, ThreadsOK, FilesOK, pathVars,
     workerVars, callVars
<1> QED BY <1>2, <1>5 DEF DriverInv, LifeInv

\* What a step of probe or remove that runs no loop does to the lifecycle: the
\* invariant needs only what is held and how the program counter moves.
LEMMA LifeMoves ==
  ASSUME LifeInv, ppc' \in Life!ProbePC, held' \subseteq Life!Resources, HeldOK',
         UNCHANGED <<worker, file, spc, wpc, pc>>,
         ppc # "stop", sidx' \in {0, sidx}, num' \in 0..NumAccels,
         ppc' \in NoThread => ppc \in NoThread,
         ppc' = "workers" => ppc \in NoThread /\ sidx' = 0,
         ppc' = "stop" => sidx' = 0 /\ num' = NumAccels,
         ppc' \in Unopened => ppc \in Unopened
  PROVE  LifeInv'
<1>1. LifeTypeOK'
  BY PoolAssumption DEF LifeInv, LifeTypeOK
<1>2. ThreadsOK'
  BY PoolAssumption DEF LifeInv, ThreadsOK, Accels
<1>3. FilesOK'
  BY DEF LifeInv, FilesOK
<1> QED BY <1>1, <1>2, <1>3 DEF LifeInv

\* Up to the interrupt number.
LEMMA LifeProbe ==
  ASSUME LifeInv, Life!ProbeBegin \/ Life!ProbeManaged, UNCHANGED <<spc, wpc, pc>>
  PROVE  LifeInv'
<1>1. CASE Life!ProbeBegin
  <2>1. HeldOK'
    BY <1>1 DEF Life!ProbeBegin, LifeInv, HeldOK, NoThread
  <2> QED BY <1>1, <2>1, LifeMoves DEF Life!ProbeBegin, LifeInv, LifeTypeOK, Life!ProbePC,
        NoThread, Unopened
<1>2. CASE Life!ProbeManaged
  <2>1. /\ ppc \in {"mem", "mmio", "clks", "rst", "irq"}
        /\ ppc' \in {"mmio", "clks", "rst", "irq", "workers", "release"}
        /\ held \subseteq Life!Managed /\ held' \subseteq Life!Managed
        /\ ppc' # "release" => "mem" \in held'
    <3>1. /\ ppc \in {"mem", "mmio", "clks", "rst", "irq"}
          /\ ppc' \in {"mmio", "clks", "rst", "irq", "workers", "release"}
      BY <1>2 DEF Life!ProbeManaged, Life!After
    <3>2. held \subseteq Life!Managed /\ (ppc # "mem" => "mem" \in held)
      BY <3>1 DEF LifeInv, HeldOK, NoThread
    <3>3. ppc' # "release" => held' = held \cup ({ppc} \cap Life!Managed)
      BY <1>2 DEF Life!ProbeManaged
    <3>4. ppc' = "release" => held' \subseteq held \cup ({ppc} \cap Life!Managed)
      BY <1>2 DEF Life!ProbeManaged
    <3> QED BY <3>1, <3>2, <3>3, <3>4 DEF Life!Managed
  <2>2. HeldOK'
    BY <2>1 DEF HeldOK, Life!Managed
  <2> QED BY <1>2, <2>1, <2>2, LifeMoves DEF Life!ProbeManaged, LifeInv, LifeTypeOK,
        Life!ProbePC, NoThread, Unopened, Life!Resources
<1> QED BY <1>1, <1>2

\* The registrations of probe, with the failure path of each, and remove.
LEMMA LifeRegister ==
  ASSUME LifeInv, UNCHANGED <<spc, wpc, pc>>,
         \/ Life!ProbeRegion \/ Life!ProbeCdev \/ Life!ProbeNode
         \/ Life!RemoveBegin \/ Life!RemoveCdev \/ Life!RemoveRegion
  PROVE  LifeInv'
<1> USE DEF Life!ProbeRegion, Life!ProbeCdev, Life!ProbeNode, Life!RemoveBegin,
            Life!RemoveCdev, Life!RemoveRegion, Life!StopWorkers, Life!UndoNode, Life!Destroy
<1>1. /\ held' \subseteq Life!Resources
      /\ ppc \in {"region", "cdev", "node", "bound", "rm_cdev", "rm_region"}
      /\ ppc' \in {"cdev", "node", "bound", "rm_cdev", "rm_region", "stop"}
  BY DEF LifeInv, LifeTypeOK, Life!Resources
<1>2. HeldOK'
  BY DEF LifeInv, LifeTypeOK, HeldOK, NoThread, Life!Managed, Life!Resources
<1>3. /\ UNCHANGED <<worker, file>> /\ sidx' \in {0, sidx} /\ num' \in 0..NumAccels
      /\ ppc' = "stop" => sidx' = 0 /\ num' = NumAccels
      /\ ppc' \in Unopened => ppc \in Unopened
  BY PoolAssumption DEF LifeInv, LifeTypeOK, Unopened
<1> QED BY <1>1, <1>2, <1>3, LifeMoves DEF Life!ProbePC, NoThread

\* Probe and remove outside the loops.
LEMMA DriverProbe ==
  ASSUME DriverInv, ProbeHardware \/ ProbeAlloc \/ ProbeRegister \/ RemoveUnregister
  PROVE  DriverInv'
<1>1. CASE ProbeHardware \/ ProbeRegister \/ RemoveUnregister
  <2>1. UNCHANGED <<pathVars, spc>>
    BY <1>1 DEF ProbeHardware, ProbeRegister, RemoveUnregister
  <2>2. ExecInv'
    BY <2>1, PathKept DEF DriverInv, ExecInv, ListInv, TypeInv, PathTypeOK, pathVars, flagVars,
       workerVars
  <2>3. LifeInv'
    BY <1>1, <2>1, LifeProbe, LifeRegister DEF DriverInv, ProbeHardware, ProbeRegister,
       RemoveUnregister, pathVars, workerVars, callVars
  <2> QED BY <2>2, <2>3 DEF DriverInv
<1>2. CASE ProbeAlloc
  <2>1. LifeInv'
    BY <1>2, LifeProbe DEF DriverInv, ProbeAlloc, workerVars
  <2>2. /\ \A a \in Accels : wpc[a] = "exited"
        /\ \A c \in Clients : pc[c] \in Away
    BY <1>2 DEF ProbeAlloc, DriverInv, LifeInv, ThreadsOK, FilesOK, NoThread, Unopened
  <2>3. CASE FreshDevice
    <3>1. TypeInv' /\ Fresh'
      BY <1>2, <2>2, <2>3, PathFresh DEF DriverInv, ProbeAlloc
    <3> QED BY <2>1, <3>1, FreshExecNext DEF DriverInv
  <2>4. CASE UNCHANGED <<poolVars, accelVars, running, issued>>
    <3>1. ExecInv'
      BY <1>2, <2>4, PathKept DEF DriverInv, ExecInv, ListInv, TypeInv, PathTypeOK, ProbeAlloc,
         workerVars, callVars
    <3> QED BY <2>1, <3>1 DEF DriverInv
  <2> QED BY <1>2, <2>3, <2>4 DEF ProbeAlloc
<1> QED BY <1>1, <1>2

\* A round of the loop that starts the workers.
LEMMA DriverStart ==
  ASSUME DriverInv, ProbeWorker PROVE DriverInv'
<1>1. /\ ppc = "workers" /\ sidx \in Accels /\ wpc[sidx] = "exited"
      /\ wpc \in [Accels -> WorkerPC]
      /\ \A a \in Accels : a >= sidx => wpc[a] = "exited"
  BY PoolAssumption DEF ProbeWorker, DriverInv, LifeInv, LifeTypeOK, ThreadsOK, Accels, ExecInv,
     ListInv, TypeInv, PathTypeOK
<1>2. UNCHANGED <<held, file, spc, pc>>
  BY DEF ProbeWorker, callVars
<1>3. spc = "idle"
  BY <1>1 DEF DriverInv, LifeInv, ThreadsOK
<1>4. CASE wpc' = [wpc EXCEPT ![sidx] = "loop"] /\ UNCHANGED num
  <2>1. /\ worker' = [worker EXCEPT ![sidx] = "live"]
        /\ should_stop' = [should_stop EXCEPT ![sidx] = FALSE]
        /\ sidx' = sidx + 1
        /\ ppc' = IF sidx + 1 < NumAccels THEN "workers" ELSE "region"
    BY <1>1, <1>4 DEF ProbeWorker
  <2>2. ExecInv'
    BY <1>1, <1>4, <2>1, PathStart DEF DriverInv, ProbeWorker
  <2>3. LifeTypeOK'
    BY <1>1, <1>2, <1>4, <2>1, PoolAssumption DEF DriverInv, LifeInv, LifeTypeOK, Life!ProbePC,
       Accels
  <2>4. HeldOK'
    BY <1>1, <1>2, <2>1 DEF DriverInv, LifeInv, HeldOK, NoThread
  <2>5. ThreadsOK'
    BY <1>1, <1>2, <1>3, <1>4, <2>1, PoolAssumption
       DEF DriverInv, LifeInv, LifeTypeOK, ThreadsOK, NoThread, Accels
  <2>6. FilesOK'
    BY <1>1, <1>2 DEF DriverInv, LifeInv, FilesOK, Unopened
  <2> QED BY <2>2, <2>3, <2>4, <2>5, <2>6 DEF DriverInv, LifeInv
<1>5. CASE Life!StopWorkers /\ UNCHANGED <<wpc, should_stop>>
  <2>1. /\ ppc' = "stop" /\ sidx' = 0 /\ num' = NumAccels
        /\ worker' \in [Accels -> {"null", "err", "live"}]
        /\ \A a \in Accels : worker'[a] # "live" => wpc'[a] = "exited"
    BY <1>1, <1>5 DEF ProbeWorker, Life!StopWorkers, DriverInv, LifeInv, LifeTypeOK, ThreadsOK
  <2>2. ExecInv'
    BY <1>5, PathKept DEF DriverInv, ExecInv, ListInv, TypeInv, PathTypeOK, ProbeWorker
  <2>3. LifeTypeOK' /\ HeldOK' /\ FilesOK'
    BY <1>1, <1>2, <2>1, PoolAssumption DEF DriverInv, LifeInv, LifeTypeOK, Life!ProbePC, HeldOK,
       FilesOK, NoThread, Unopened
  <2>4. ThreadsOK'
    BY <1>2, <1>3, <2>1 DEF ThreadsOK, NoThread, Accels
  <2> QED BY <2>2, <2>3, <2>4 DEF DriverInv, LifeInv
<1> QED BY <1>4, <1>5 DEF ProbeWorker

\* The loops that stop the workers: each is joined before the next one's turn,
\* and one that has no thread is passed over.
LEMMA DriverStop ==
  ASSUME DriverInv, Stopping PROVE DriverInv'
<1>1. LifeTypeOK /\ HeldOK /\ ThreadsOK /\ FilesOK
  BY DEF DriverInv, LifeInv
<1>2. /\ running' \in [Accels -> BOOLEAN] /\ should_stop' \in [Accels -> BOOLEAN]
      /\ UNCHANGED <<poolVars, accelVars, workerVars, callVars>>
  BY DEF Stopping, StopNext, StopOne, StopBadPtr, StopJoined, StopFlag, StopRequest, pathVars,
     flagVars, DriverInv, ExecInv, ListInv, TypeInv, PathTypeOK
<1>3. ExecInv'
  BY <1>2, PathKept DEF DriverInv, workerVars
<1>4. /\ ppc = "stop" /\ num = NumAccels
      /\ UNCHANGED <<held, worker, num, file, wpc, pc>>
      /\ ppc' \in {"stop", "release", "oops"}
      /\ spc' \in {"idle", "flag", "stop", "join"}
  BY <1>1, <1>2 DEF Stopping, StopNext, StopOne, StopBadPtr, StopJoined, StopFlag, StopRequest,
     lifeVars, workerVars, callVars, ThreadsOK
<1>5. /\ sidx' \in {sidx, sidx + 1}
      /\ sidx' = sidx + 1 => sidx < num /\ wpc[sidx] = "exited" /\ spc' = "idle" /\ ppc' = "stop"
      /\ spc' # "idle" => sidx < num /\ ppc' = "stop" /\ sidx' = sidx
      /\ ppc' = "release" => sidx >= num /\ sidx' = sidx
  <2>1. \A a \in Accels : worker[a] # "live" => wpc[a] = "exited"
    BY <1>1 DEF ThreadsOK
  <2>2. sidx \in 0..NumAccels /\ (sidx < num => sidx \in Accels)
    BY <1>1, <1>4, PoolAssumption DEF LifeTypeOK, Accels
  <2>3. CASE StopNext
    BY <1>4, <2>1, <2>2, <2>3 DEF StopNext, ToStop
  <2>4. CASE StopOne \/ StopBadPtr \/ StopJoined
    <3>1. spc # "idle" /\ sidx < num
      BY <1>1, <2>4 DEF StopOne, StopBadPtr, StopJoined, StopFlag, StopRequest, ThreadsOK
    <3> QED BY <1>4, <2>2, <2>4, <3>1 DEF StopOne, StopBadPtr, StopJoined, StopFlag, StopRequest,
          Exited, lifeVars
  <2> QED BY <2>3, <2>4 DEF Stopping
<1>6. LifeTypeOK'
  BY <1>1, <1>4, <1>5, PoolAssumption DEF LifeTypeOK, Life!ProbePC
<1>7. HeldOK' /\ FilesOK'
  BY <1>1, <1>4 DEF HeldOK, FilesOK, NoThread, Unopened
<1>8. ThreadsOK'
  <2>1. \A a \in Accels : a < sidx => wpc[a] = "exited"
    BY <1>1, <1>4 DEF ThreadsOK
  <2>2. \A a \in Accels : a < sidx' => wpc'[a] = "exited"
    BY <1>1, <1>4, <1>5, <2>1, PoolAssumption DEF LifeTypeOK, Accels
  <2>3. ppc' = "release" => \A a \in Accels : wpc'[a] = "exited"
    BY <1>1, <1>4, <1>5, <2>1, PoolAssumption DEF LifeTypeOK, Accels
  <2> QED BY <1>1, <1>4, <1>5, <2>2, <2>3 DEF ThreadsOK, NoThread
<1> QED BY <1>3, <1>6, <1>7, <1>8 DEF DriverInv, LifeInv

\* The device structure goes.
LEMMA DriverRelease ==
  ASSUME DriverInv, ReleaseDevice PROVE DriverInv'
<1>1. ExecInv'
  BY PathAbandoned DEF DriverInv
<1>2. LifeTypeOK /\ HeldOK /\ ThreadsOK
  BY DEF DriverInv, LifeInv
<1>3. /\ ppc = "release" /\ ppc' = "unbound" /\ held' = {} /\ sidx' = 0 /\ num' = 0
      /\ UNCHANGED <<spc, wpc>>
  BY <1>2 DEF ReleaseDevice, HeldOK, NoThread, workerVars
<1>4. /\ worker' \in [Accels -> {"null", "err", "live"}]
      /\ file' \in [Clients -> {"closed", "open", "stale"}]
      /\ \A c \in Clients : pc'[c] \in Away /\ file'[c] # "open"
  BY <1>2 DEF ReleaseDevice, LifeTypeOK, Away
<1>5. LifeTypeOK' /\ HeldOK' /\ FilesOK'
  BY <1>2, <1>3, <1>4, PoolAssumption DEF LifeTypeOK, Life!ProbePC, HeldOK, FilesOK
<1>6. ThreadsOK'
  BY <1>2, <1>3 DEF ThreadsOK, NoThread
<1> QED BY <1>1, <1>5, <1>6 DEF DriverInv, LifeInv

\* DriverInv is inductive.
LEMMA DriverStep == DriverInv /\ [DriverNext]_allVars => DriverInv'
<1> SUFFICES ASSUME DriverInv, [DriverNext]_allVars PROVE DriverInv'
  OBVIOUS
<1>1. CASE UNCHANGED allVars
  <2>1. UNCHANGED <<pathVars, lifeVars, stopVars>>
    BY <1>1 DEF allVars, vars, engineVars, pathVars
  <2>2. ExecInv'
    BY <2>1, PathKept DEF DriverInv, ExecInv, ListInv, TypeInv, PathTypeOK, pathVars, flagVars,
       workerVars
  <2>3. LifeInv'
    BY <2>1, LifeKept DEF DriverInv, pathVars, workerVars, callVars
  <2> QED BY <2>2, <2>3 DEF DriverInv
<1>2. CASE DriverNext
  BY <1>2, DriverModule, DriverProbe, DriverStart, DriverStop, DriverRelease, DriverIoctl,
     DriverWorker DEF DriverNext
<1> QED BY <1>1, <1>2

\* It holds of everything the single-file driver does.
LEMMA DriverInvariant == DriverSpec => []DriverInv
BY DriverInitInv, DriverStep, PTL DEF DriverSpec

-----------------------------------------------------------------------------
\* However probes fail and removals meet the workers, a worker runs only on the
\* memory of a device that is there, and an unbound device holds nothing.
THEOREM WorkersNeedDevice == DriverSpec => []WorkersHaveDevice
<1>1. DriverInv => WorkersHaveDevice
  BY DEF DriverInv, LifeInv, HeldOK, ThreadsOK, NoThread, WorkersHaveDevice
<1> QED BY <1>1, DriverInvariant, PTL

\* When the loop that stops the workers is through, every task that was taken
\* has been brought to its end.
THEOREM TeardownIsClean == DriverSpec => []TornDownClean
<1>1. DriverInv => TornDownClean
  <2> SUFFICES ASSUME DriverInv, ppc = "release" PROVE TornDownClean
    BY DEF TornDownClean
  <2>1. \A a \in Accels : wpc[a] = "exited"
    BY DEF DriverInv, LifeInv, ThreadsOK, NoThread
  <2>2. \A a \in Accels : active_tasks[a] = {} /\ load_percent[a] = 0
    BY <2>1 DEF DriverInv, ExecInv, ListInv, IdleWorkers, ListIntegrity, LoadTracksWorker
  <2>3. \A s \in Slots : tasks[s].state # "RUNNING"
    BY <2>1 DEF DriverInv, ExecInv, RunningServed
  <2> QED BY <2>2, <2>3 DEF TornDownClean
<1> QED BY <1>1, DriverInvariant, PTL

\* The lists of slots stay intact across any number of probes and removals,
\* with ioctls and workers running in between.
THEOREM ListsOutliveDevices == DriverSpec => []ListIntegrity
<1>1. DriverInv => ListIntegrity
  BY DEF DriverInv, ExecInv, ListInv
<1> QED BY <1>1, DriverInvariant, PTL

=============================================================================
