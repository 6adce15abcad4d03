------------------------ MODULE DriverLifecycleProofs ------------------------
(***************************************************************************)
(* Safety of DriverLifecycle for every number of accelerators and files,   *)
(* from one invariant that says, for each control point of probe and       *)
(* remove, what is held and which workers live.                            *)
(***************************************************************************)
EXTENDS DriverLifecycle, TLAPS

\* What is held at each point of probe and remove.
HeldInv ==
  /\ ppc = "unbound" => held = {}
  /\ ppc \in {"mem", "mmio", "clks", "rst", "irq", "workers", "region", "stop",
              "release"} => held \subseteq Managed
  /\ ppc \in {"cdev", "rm_region"} => held \subseteq Managed \cup {"region"}
  /\ ppc \in {"node", "rm_cdev"} => held \subseteq Managed \cup {"region", "cdev"}
  /\ ppc \in {"node", "bound"} => "cdev" \in held

\* Which workers live at each point of probe and remove.
WorkerInv ==
  /\ ppc \in {"unbound", "mem", "mmio", "clks", "rst", "irq"} =>
       \A a \in Accels : worker[a] = "null"
  /\ ppc = "workers" =>
       /\ idx < NumAccels
       /\ \A a \in Accels : worker[a] = IF a < idx THEN "live" ELSE "null"
  /\ ppc \in {"region", "cdev", "node", "bound", "rm_cdev", "rm_region"} =>
       \A a \in Accels : worker[a] = "live"
  /\ ppc = "stop" =>
       /\ idx <= num
       /\ \A a \in Accels :
            IF a < idx \/ a >= num THEN worker[a] # "live" ELSE worker[a] = "live"
  /\ ppc = "release" => \A a \in Accels : worker[a] # "live"

LifecycleInv == LifecycleTypeOK /\ HeldInv /\ WorkerInv

\* Nothing is loaded at first.
LEMMA LifecycleInit == Init => LifecycleInv
<1> SUFFICES ASSUME Init PROVE LifecycleInv
    OBVIOUS
<1> USE AccelsAssumption DEF Init
<1>1. LifecycleTypeOK
  <2>1. class_reg \in BOOLEAN /\ driver_reg \in BOOLEAN
    BY Zenon
  <2>2. idx \in 0..NumAccels /\ num \in 0..NumAccels
    BY SMT
  <2>3. /\ worker \in [Accels -> {"null", "err", "live"}]
        /\ file \in [Files -> {"closed", "open", "stale"}]
    BY Zenon
  <2> QED  BY <2>1, <2>2, <2>3 DEF LifecycleTypeOK, ModulePC, ProbePC
<1>2. HeldInv
  BY DEF HeldInv
<1>3. WorkerInv
  BY DEF WorkerInv
<1> QED  BY <1>1, <1>2, <1>3 DEF LifecycleInv

\* module_init and module_exit do not touch the device.
LEMMA ModuleKeeps ==
  LifecycleInv /\ (InitClass \/ InitDriver \/ ExitUnregister \/ ExitClass) => LifecycleInv'
<1> SUFFICES ASSUME LifecycleInv, InitClass \/ InitDriver \/ ExitUnregister \/ ExitClass
             PROVE  LifecycleInv'
    OBVIOUS
<1> USE DEF InitClass, InitDriver, ExitUnregister, ExitClass, LifecycleInv
<1>1. class_reg' \in BOOLEAN /\ driver_reg' \in BOOLEAN /\ mpc' \in ModulePC
  BY DEF LifecycleTypeOK, ModulePC
<1>2. UNCHANGED <<ppc, held, worker, idx, num, file>>
  OBVIOUS
<1>3. LifecycleTypeOK'
  BY <1>1, <1>2 DEF LifecycleTypeOK
<1>4. HeldInv' /\ WorkerInv'
  BY <1>2 DEF HeldInv, WorkerInv
<1> QED  BY <1>3, <1>4

\* Opening and closing files does not touch the device either.
LEMMA FilesKeep ==
  LifecycleInv /\ (\E f \in Files : Open(f) \/ Close(f)) => LifecycleInv'
<1> SUFFICES ASSUME LifecycleInv, NEW f \in Files, Open(f) \/ Close(f)
             PROVE  LifecycleInv'
    OBVIOUS
<1> USE DEF Open, Close, moduleVars, LifecycleInv
<1>1. LifecycleTypeOK'
  BY DEF LifecycleTypeOK
<1>2. HeldInv' /\ WorkerInv'
  BY DEF HeldInv, WorkerInv
<1> QED  BY <1>1, <1>2

\* Up to the interrupt number all that probe holds is managed.
LEMMA ManagedKeeps ==
  LifecycleInv /\ (ProbeBegin \/ ProbeManaged) => LifecycleInv'
<1> SUFFICES ASSUME LifecycleInv, ProbeBegin \/ ProbeManaged PROVE LifecycleInv'
    OBVIOUS
<1>1. CASE ProbeBegin
  BY <1>1, AccelsAssumption
     DEF LifecycleInv, LifecycleTypeOK, HeldInv, WorkerInv, ProbePC, ProbeBegin, moduleVars,
         Managed
<1>2. CASE ProbeManaged
  <2> USE AccelsAssumption DEF LifecycleInv
  <2>1. /\ ppc \in {"mem", "mmio", "clks", "rst", "irq"}
        /\ ppc' \in {"mmio", "clks", "rst", "irq", "workers", "release"}
        /\ held \subseteq Managed /\ held' \subseteq Managed
        /\ idx' = 0
        /\ UNCHANGED <<moduleVars, worker, num, file>>
    BY <1>2 DEF ProbeManaged, After, HeldInv
  <2>2. LifecycleTypeOK'
    BY <2>1 DEF LifecycleTypeOK, ProbePC, Managed, Resources, moduleVars
  <2>3. HeldInv'
    BY <2>1 DEF HeldInv, Managed
  <2>4. WorkerInv'
    BY <2>1 DEF WorkerInv, LifecycleTypeOK, Accels
  <2> QED  BY <2>2, <2>3, <2>4
<1> QED  BY <1>1, <1>2

\* A round of the loop that starts the workers leaves exactly the ones before
\* the index alive; a failure leaves exactly those for the loop that stops them.
LEMMA StartKeeps == LifecycleInv /\ StartWorker => LifecycleInv'
<1> SUFFICES ASSUME LifecycleInv, StartWorker PROVE LifecycleInv'
    OBVIOUS
<1> USE AccelsAssumption DEF LifecycleInv, StartWorker, moduleVars, MoreWorkers, StartedBefore
<1>1. idx \in Accels
  BY DEF LifecycleTypeOK, WorkerInv, Accels
<1>2. LifecycleTypeOK'
  BY <1>1 DEF LifecycleTypeOK, WorkerInv, ProbePC, Accels
<1>3. HeldInv'
  BY DEF HeldInv
<1>4. WorkerInv'
  BY <1>1 DEF WorkerInv, LifecycleTypeOK, Accels
<1> QED  BY <1>2, <1>3, <1>4

\* The registrations, with the failure path of each.
LEMMA RegisterKeeps ==
  LifecycleInv /\ (ProbeRegion \/ ProbeCdev \/ ProbeNode) => LifecycleInv'
<1> SUFFICES ASSUME LifecycleInv, ProbeRegion \/ ProbeCdev \/ ProbeNode
             PROVE  LifecycleInv'
    OBVIOUS
<1> USE AccelsAssumption
    DEF LifecycleInv, ProbeRegion, ProbeCdev, ProbeNode, StopWorkers, UndoNode, moduleVars
<1>1. LifecycleTypeOK'
  BY DEF LifecycleTypeOK, ProbePC, Resources
<1>2. HeldInv'
  BY DEF HeldInv, Managed
<1>3. WorkerInv'
  BY DEF WorkerInv, LifecycleTypeOK, Accels
<1> QED  BY <1>1, <1>2, <1>3

\* remove takes back the registrations in reverse order, all workers alive.
LEMMA UnregisterKeeps ==
  LifecycleInv /\ (RemoveBegin \/ RemoveCdev \/ RemoveRegion) => LifecycleInv'
<1> SUFFICES ASSUME LifecycleInv, RemoveBegin \/ RemoveCdev \/ RemoveRegion
             PROVE  LifecycleInv'
    OBVIOUS
<1> USE AccelsAssumption
    DEF LifecycleInv, RemoveBegin, RemoveCdev, RemoveRegion, Destroy, StopWorkers, moduleVars
<1>1. LifecycleTypeOK'
  BY DEF LifecycleTypeOK, ProbePC, Resources
<1>2. HeldInv'
  BY DEF HeldInv, Managed, LifecycleTypeOK, Resources
<1>3. WorkerInv'
  BY DEF WorkerInv, LifecycleTypeOK, Accels
<1> QED  BY <1>1, <1>2, <1>3

\* A round of the loop that stops the workers, and its end.
LEMMA StopKeeps == LifecycleInv /\ StopWorker => LifecycleInv'
<1> SUFFICES ASSUME LifecycleInv, StopWorker PROVE LifecycleInv'
    OBVIOUS
<1> USE AccelsAssumption DEF LifecycleInv, StopWorker, moduleVars, NextWorker
<1>1. LifecycleTypeOK'
  BY DEF LifecycleTypeOK, ProbePC, Accels
<1>2. HeldInv'
  BY DEF HeldInv
<1>3. WorkerInv'
  BY DEF WorkerInv, LifecycleTypeOK, Accels
<1> QED  BY <1>1, <1>2, <1>3

\* The managed resources go, and with them the device structure.
LEMMA ReleaseKeeps == LifecycleInv /\ Release => LifecycleInv'
<1> SUFFICES ASSUME LifecycleInv, Release PROVE LifecycleInv'
    OBVIOUS
<1> USE AccelsAssumption DEF LifecycleInv, Release, moduleVars
<1>1. LifecycleTypeOK'
  BY DEF LifecycleTypeOK, ProbePC
<1>2. HeldInv'
  BY DEF HeldInv
<1>3. WorkerInv'
  BY DEF WorkerInv
<1> QED  BY <1>1, <1>2, <1>3

\* The invariant is inductive.
LEMMA LifecycleStep == LifecycleInv /\ [Next]_vars => LifecycleInv'
<1> SUFFICES ASSUME LifecycleInv, [Next]_vars PROVE LifecycleInv'
    OBVIOUS
<1>1. CASE Next
  BY <1>1, ModuleKeeps, FilesKeep, ManagedKeeps, StartKeeps, RegisterKeeps,
     UnregisterKeeps, StopKeeps, ReleaseKeeps
     DEF Next, ModuleStep, DriverStep
<1>2. CASE UNCHANGED vars
  BY <1>2 DEF vars, moduleVars, LifecycleInv, LifecycleTypeOK, HeldInv, WorkerInv
<1> QED  BY <1>1, <1>2

\* It holds of every state the module can get the device into.
LEMMA LifecycleInvariant == Spec => []LifecycleInv
BY LifecycleInit, LifecycleStep, PTL DEF Spec

\* Every variable keeps its type: the loops of accel_start_workers and
\* accel_stop_workers stay within the array.
THEOREM LifecycleTypes == Spec => []LifecycleTypeOK
BY LifecycleInvariant, PTL DEF LifecycleInv

\* Whichever step of cortex_forge_probe fails, and after every
\* cortex_forge_remove, no registration, managed resource or worker is left.
THEOREM UnwindsCompletely == Spec => []NothingLeftBehind
<1>1. LifecycleInv => NothingLeftBehind
  BY DEF LifecycleInv, HeldInv, WorkerInv, NothingLeftBehind
<1> QED  BY <1>1, LifecycleInvariant, PTL

\* accel_stop_workers gives kthread_stop only threads that were started, also
\* when accel_start_workers failed halfway and left an error pointer behind.
THEOREM StopsThreads == Spec => []StopsOnlyThreads
<1>1. LifecycleInv => StopsOnlyThreads
  BY AccelsAssumption
     DEF LifecycleInv, LifecycleTypeOK, WorkerInv, StopsOnlyThreads, Accels
<1> QED  BY <1>1, LifecycleInvariant, PTL

\* From device_create to device_destroy the character device is registered and
\* every worker alive, so a file opened through the node finds its workers.
THEOREM NodesAreServed == Spec => []NodeIsServed
<1>1. LifecycleInv => NodeIsServed
  BY DEF LifecycleInv, LifecycleTypeOK, HeldInv, WorkerInv, NodeIsServed, ProbePC, Managed
<1> QED  BY <1>1, LifecycleInvariant, PTL

=============================================================================
