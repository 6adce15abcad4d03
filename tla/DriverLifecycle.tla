--------------------------- MODULE DriverLifecycle ---------------------------
(***************************************************************************)
(* Loading, probing, removing and unloading the driver (main.c), with      *)
(* every way each of these can fail, while user space opens and closes the *)
(* device node.  What one worker does between its start and its stop is    *)
(* TaskEngine's, and so is the wait in kthread_stop; here a worker is      *)
(* alive or not, and stopping one is one step.                             *)
(***************************************************************************)
EXTENDS Naturals, FiniteSets

CONSTANTS
  NumAccels,   \* NUM_ACCELERATORS
  Files        \* open files user space may have

ASSUME AccelsAssumption == NumAccels \in Nat \ {0}

Accels == 0..(NumAccels - 1)

\* What probe gets hold of.  The first four belong to the device's managed
\* (devm) resources; the device structure itself is "mem".
Managed   == {"mem", "mmio", "clks", "rst"}
Resources == Managed \cup {"region", "cdev", "node"}

VARIABLES
  class_reg,   \* the device class is registered
  driver_reg,  \* the platform driver is registered
  mpc,         \* where module_init or module_exit is
  ppc,         \* where probe or remove is
  held,        \* resources held on behalf of the device
  worker,      \* worker_thread: "null", "err" (an ERR_PTR) or "live"
  idx,         \* loop index of the worker start and stop loops
  num,         \* how many workers the stop loop is to visit
  file         \* files: "closed", "open", or "stale" once their device is freed

moduleVars == <<class_reg, driver_reg, mpc>>
vars == <<moduleVars, ppc, held, worker, idx, num, file>>

ModulePC == {"unloaded", "init_driver", "loaded", "exit_class"}
ProbePC  == {"unbound", "mem", "mmio", "clks", "rst", "irq", "workers", "region",
             "cdev", "node", "bound", "stop", "rm_cdev", "rm_region", "release"}

Init ==
  /\ class_reg = FALSE /\ driver_reg = FALSE /\ mpc = "unloaded"
  /\ ppc = "unbound"
  /\ held = {}
  /\ worker = [a \in Accels |-> "null"]
  /\ idx = 0 /\ num = 0
  /\ file = [f \in Files |-> "closed"]

-----------------------------------------------------------------------------
(***************************************************************************)
(* module_init and module_exit.                                            *)
(***************************************************************************)
InitClass ==
  /\ mpc = "unloaded"
  /\ \/ class_reg' = TRUE /\ mpc' = "init_driver"
     \/ UNCHANGED <<class_reg, mpc>>            \* class_register fails
  /\ UNCHANGED <<driver_reg, ppc, held, worker, idx, num, file>>

InitDriver ==
  /\ mpc = "init_driver"
  /\ \/ driver_reg' = TRUE /\ mpc' = "loaded" /\ UNCHANGED class_reg
     \/ class_reg' = FALSE /\ mpc' = "unloaded" /\ UNCHANGED driver_reg
  /\ UNCHANGED <<ppc, held, worker, idx, num, file>>

\* The module cannot be unloaded while a file pins it (fops.owner).
\* platform_driver_unregister has the device removed (RemoveBegin) and returns
\* when it is unbound.
ExitUnregister ==
  /\ mpc = "loaded"
  /\ \A f \in Files : file[f] = "closed"
  /\ ppc = "unbound"
  /\ driver_reg' = FALSE
  /\ mpc' = "exit_class"
  /\ UNCHANGED <<class_reg, ppc, held, worker, idx, num, file>>

ExitClass ==
  /\ mpc = "exit_class"
  /\ class_reg' = FALSE
  /\ mpc' = "unloaded"
  /\ UNCHANGED <<driver_reg, ppc, held, worker, idx, num, file>>

-----------------------------------------------------------------------------
(***************************************************************************)
(* cortex_forge_probe.                                                     *)
(***************************************************************************)
ProbeBegin ==
  /\ driver_reg
  /\ ppc = "unbound"
  /\ ppc' = "mem"
  /\ UNCHANGED <<moduleVars, held, worker, idx, num, file>>

\* A failure before the workers start returns at once: all that is held is
\* managed.
After == [mem |-> "mmio", mmio |-> "clks", clks |-> "rst", rst |-> "irq", irq |-> "workers"]

ProbeManaged ==
  /\ ppc \in DOMAIN After
  /\ \/ /\ held' = held \cup ({ppc} \cap Managed)
        /\ ppc' = After[ppc]
     \/ /\ ppc' = "release"
        /\ UNCHANGED held
  /\ idx' = 0
  /\ UNCHANGED <<moduleVars, worker, num, file>>

StopAll(i) == NumAccels                        \* mutant of StartedBefore

\* accel_start_workers asks for the workers before the failed one to be stopped.
StartedBefore(i) == i

OneMore(i) == i < NumAccels                    \* mutant of MoreWorkers

MoreWorkers(i) == i + 1 < NumAccels

\* One round of accel_start_workers; the result of kthread_run is stored
\* before it is looked at.
StartWorker ==
  /\ ppc = "workers"
  /\ \/ /\ worker' = [worker EXCEPT ![idx] = "live"]
        /\ idx' = idx + 1
        /\ ppc' = IF MoreWorkers(idx) THEN "workers" ELSE "region"
        /\ UNCHANGED num
     \/ /\ worker' = [worker EXCEPT ![idx] = "err"]
        /\ ppc' = "stop"
        /\ idx' = 0
        /\ num' = StartedBefore(idx)
  /\ UNCHANGED <<moduleVars, held, file>>

\* accel_stop_workers(accelerators, NUM_ACCELERATORS) is what is left to do.
StopWorkers ==
  /\ ppc' = "stop"
  /\ idx' = 0
  /\ num' = NumAccels

\* alloc_chrdev_region
ProbeRegion ==
  /\ ppc = "region"
  /\ \/ /\ held' = held \cup {"region"}
        /\ ppc' = "cdev"
        /\ UNCHANGED <<idx, num>>
     \/ StopWorkers /\ UNCHANGED held
  /\ UNCHANGED <<moduleVars, worker, file>>

\* cdev_add: from here on the device can be opened.
ProbeCdev ==
  /\ ppc = "cdev"
  /\ \/ /\ held' = held \cup {"cdev"}
        /\ ppc' = "node"
        /\ UNCHANGED <<idx, num>>
     \/ StopWorkers /\ held' = held \ {"region"}
  /\ UNCHANGED <<moduleVars, worker, file>>

UndoRegionOnly == held \ {"region"}            \* mutant of UndoNode

\* What the failure path of device_create undoes.
UndoNode == held \ {"cdev", "region"}

\* device_create
ProbeNode ==
  /\ ppc = "node"
  /\ \/ /\ held' = held \cup {"node"}
        /\ ppc' = "bound"
        /\ UNCHANGED <<idx, num>>
     \/ StopWorkers /\ held' = UndoNode
  /\ UNCHANGED <<moduleVars, worker, file>>

-----------------------------------------------------------------------------
(***************************************************************************)
(* cortex_forge_remove (on unbind, or from platform_driver_unregister) and *)
(* the end of every failed probe.                                          *)
(***************************************************************************)
StopEarly == ppc' = "stop" /\ idx' = 0 /\ num' = NumAccels /\ UNCHANGED held \* mutant of Destroy

\* device_destroy
Destroy == ppc' = "rm_cdev" /\ held' = held \ {"node"} /\ UNCHANGED <<idx, num>>

RemoveBegin ==
  /\ ppc = "bound"
  /\ Destroy
  /\ UNCHANGED <<moduleVars, worker, file>>

\* cdev_del: no new opens; files already open are not affected.
RemoveCdev ==
  /\ ppc = "rm_cdev"
  /\ held' = held \ {"cdev"}
  /\ ppc' = "rm_region"
  /\ UNCHANGED <<moduleVars, worker, idx, num, file>>

RemoveRegion ==
  /\ ppc = "rm_region"
  /\ held' = held \ {"region"}
  /\ StopWorkers
  /\ UNCHANGED <<moduleVars, worker, file>>

SameWorker(i) == i                             \* mutant of NextWorker

NextWorker(i) == i + 1

\* One round of accel_stop_workers, and its end.
StopWorker ==
  /\ ppc = "stop"
  /\ \/ /\ idx < num
        /\ worker' = [worker EXCEPT ![idx] = "null"]
        /\ idx' = NextWorker(idx)
        /\ UNCHANGED ppc
     \/ /\ idx >= num
        /\ ppc' = "release"
        /\ UNCHANGED <<worker, idx>>
  /\ UNCHANGED <<moduleVars, held, num, file>>

\* The driver core frees the managed resources when probe fails and after
\* remove; the pointers in the device structure go with it.
Release ==
  /\ ppc = "release"
  /\ held' = held \ Managed
  /\ worker' = [a \in Accels |-> IF worker[a] = "live" THEN "live" ELSE "null"]
  /\ file' = [f \in Files |-> IF file[f] = "open" THEN "stale" ELSE file[f]]
  /\ ppc' = "unbound"
  /\ idx' = 0 /\ num' = 0
  /\ UNCHANGED moduleVars

-----------------------------------------------------------------------------
(***************************************************************************)
(* User space.                                                             *)
(***************************************************************************)
Open(f) ==
  /\ "cdev" \in held
  /\ file[f] = "closed"
  /\ file' = [file EXCEPT ![f] = "open"]
  /\ UNCHANGED <<moduleVars, ppc, held, worker, idx, num>>

Close(f) ==
  /\ file[f] # "closed"
  /\ file' = [file EXCEPT ![f] = "closed"]
  /\ UNCHANGED <<moduleVars, ppc, held, worker, idx, num>>

-----------------------------------------------------------------------------
ModuleStep == InitDriver \/ ExitClass

DriverStep ==
  \/ ProbeManaged
  \/ StartWorker
  \/ ProbeRegion
  \/ ProbeCdev
  \/ ProbeNode
  \/ RemoveCdev
  \/ RemoveRegion
  \/ StopWorker
  \/ Release

Next ==
  \/ InitClass
  \/ ModuleStep
  \/ ExitUnregister
  \/ ProbeBegin
  \/ RemoveBegin
  \/ DriverStep
  \/ \E f \in Files : Open(f) \/ Close(f)

Spec == Init /\ [][Next]_vars

\* What has begun in the kernel goes on; nothing has to be loaded, bound,
\* unbound, opened or closed.
FairSpec == Spec /\ WF_vars(DriverStep) /\ WF_vars(ModuleStep)

-----------------------------------------------------------------------------
\* Every variable stays within its set of values; the worker loops stay within
\* the array.
LifecycleTypeOK ==
  /\ class_reg \in BOOLEAN /\ driver_reg \in BOOLEAN
  /\ mpc \in ModulePC /\ ppc \in ProbePC
  /\ held \subseteq Resources
  /\ worker \in [Accels -> {"null", "err", "live"}]
  /\ idx \in 0..NumAccels /\ num \in 0..NumAccels
  /\ file \in [Files -> {"closed", "open", "stale"}]

\* Whatever step of probe failed, or when remove is through, nothing is left
\* behind: no registration, no managed resource, and no worker running on the
\* memory of a device that is gone.
NothingLeftBehind ==
  ppc = "unbound" => held = {} /\ \A a \in Accels : worker[a] = "null"

\* kthread_stop is never handed the error pointer of a worker that could not
\* be started.
StopsOnlyThreads == ppc = "stop" /\ idx < num => worker[idx] = "live"

\* While the node is there, whoever opens it finds the character device and
\* every accelerator served.
NodeIsServed ==
  "node" \in held => "cdev" \in held /\ \A a \in Accels : worker[a] = "live"

\* A probe or a removal that has begun comes to its end, whatever fails on the
\* way: its loops are bounded and no error path leads back into them.  (What
\* stopping one worker may do is TaskEngine's RemovalTerminates and CleanRemoval.)
TransitionsEnd == (ppc # "unbound" /\ ppc # "bound") ~> (ppc \in {"unbound", "bound"})

\* README.md: "ensure clean driver removal".  No file outlives the device
\* structure its private_data points to.
NoStaleFile == \A f \in Files : file[f] # "stale"

=============================================================================
