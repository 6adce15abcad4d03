------------------------ MODULE TaskEngineWorkerProofs ------------------------
(***************************************************************************)
(* What the workers leave behind, for every number of slots, accelerators  *)
(* and user threads: tasks that are over, a load of zero and, after the    *)
(* removal, no thread.                                                     *)
(***************************************************************************)
EXTENDS TaskEngineProofs

\* A state no worker will change.
Final(s) == tasks[s].state \in {"COMPLETE", "CANCELLED"}

\* How far a worker has got with the stores that end its task.
StoresMade ==
  \A a \in Accels :
    /\ wpc[a] = "finish" /\ "state" \notin wtodo[a] => Final(cur[a])
    /\ wpc[a] = "finish" /\ "complete" \notin wtodo[a] => tasks[cur[a]].complete = TRUE
    /\ wpc[a] = "retire" => /\ Final(cur[a])
                            /\ tasks[cur[a]].complete = TRUE
                            /\ tasks[cur[a]].done = TRUE

\* A task in state RUNNING has its worker at work on it.
RunningServed ==
  \A s \in Slots : tasks[s].state = "RUNNING" =>
    \E a \in Accels : cur[a] = s /\ wpc[a] \in {"run", "finish"}

ExecInv == ListInv /\ LoadTracksWorker /\ StoresMade /\ RunningServed

-----------------------------------------------------------------------------
(***************************************************************************)
(* Who writes what.                                                        *)
(***************************************************************************)

\* An ioctl writes to a slot that is free or being filled, or cancels a task.
LEMMA ClientWrites ==
  ASSUME ListInv, NEW c \in Clients, EnterStep(c) \/ Proceed(c), NEW s \in Slots
  PROVE  /\ tasks'[s].state \in {tasks[s].state, "FREE", "PENDING", "CANCELLED"}
         /\ s \notin InFree =>
              /\ tasks'[s].state \in {tasks[s].state, "PENDING", "CANCELLED"}
              /\ tasks'[s].id = tasks[s].id
              /\ tasks'[s].numbered \in {tasks[s].numbered, TRUE}
         /\ s \notin InFree \cup Held =>
              /\ tasks'[s].state \in {tasks[s].state, "CANCELLED"}
              /\ tasks'[s].complete = tasks[s].complete
              /\ tasks'[s].done \in {tasks[s].done, TRUE}
<1>1. /\ tasks \in [Slots -> Task] /\ free_tasks \in Seq(Slots) /\ tasks[s] \in Task
      /\ slot \in [Clients -> Slots \cup {NULL}]
  BY DEF ListInv, TypeInv, PathTypeOK
<1>2. CASE UNCHANGED tasks
  BY <1>2
<1>3. ASSUME NEW d \in Descs, SubmitAlloc(c, d)
      PROVE  /\ Head(free_tasks) \in InFree
             /\ s # Head(free_tasks) => tasks'[s] = tasks[s]
             /\ s = Head(free_tasks) => tasks'[s].state = "FREE"
  <2>1. Head(free_tasks) \in InFree
    BY <1>1, <1>3 DEF SubmitAlloc, InFree, Range
  <2> QED BY <1>1, <1>3, <2>1 DEF SubmitAlloc, ZeroTask
<1>4. ASSUME TaskSubmit(c)
      PROVE  /\ slot[c] \in Held
             /\ s # slot[c] => tasks'[s] = tasks[s]
             /\ s = slot[c] => /\ tasks'[s].state = "PENDING"
                               /\ tasks'[s].id = tasks[s].id
                               /\ tasks'[s].numbered = tasks[s].numbered
  <2>1. tasks' = [tasks EXCEPT ![slot[c]].state = "PENDING"]
    BY <1>4, NoLateReject DEF TaskSubmit, ListInv
  <2>2. slot[c] \in Held
    BY <1>4 DEF TaskSubmit, Held, Holders
  <2> QED BY <1>1, <2>1, <2>2 DEF Task
<1>5. ASSUME CancelStore(c) \/ CancelDone(c)
      PROVE  /\ tasks'[s].state \in {tasks[s].state, "CANCELLED"}
             /\ tasks'[s].id = tasks[s].id
             /\ tasks'[s].numbered = tasks[s].numbered
             /\ tasks'[s].complete = tasks[s].complete
             /\ tasks'[s].done \in {tasks[s].done, TRUE}
  <2>1. tasks[s].complete \in BOOLEAN /\ tasks[s].done \in BOOLEAN
    BY <1>1 DEF Task
  <2>2. CASE s # slot[c]
    BY <1>1, <1>5, <2>2 DEF CancelStore, CancelDone
  <2>3. CASE s = slot[c]
    <3>1. tasks'[s] \in {[tasks[s] EXCEPT !.state = "CANCELLED"],
                        [tasks[s] EXCEPT !.error_code = "ECANCELED"],
                        [tasks[s] EXCEPT !.done = TRUE]}
      BY <1>1, <1>5, <2>3 DEF CancelStore, CancelDone
    <3> QED BY <1>1, <2>1, <3>1 DEF Task
  <2> QED BY <2>2, <2>3
<1>6. CASE EnterStep(c)
  BY <1>2, <1>3, <1>6 DEF EnterStep, Dismiss, Found, GetInfo, engineVars, poolVars
<1>7. ASSUME IdVisible(c)
      PROVE  /\ slot[c] \in Held
             /\ s # slot[c] => tasks'[s] = tasks[s]
             /\ s = slot[c] => /\ tasks'[s].state = tasks[s].state
                               /\ tasks'[s].id = tasks[s].id
                               /\ tasks'[s].numbered = TRUE
  <2>1. slot[c] \in Held
    BY <1>7 DEF IdVisible, Held, Holders
  <2> QED BY <1>1, <1>7, <2>1 DEF IdVisible, Task
<1>8. CASE Proceed(c)
  BY <1>2, <1>4, <1>5, <1>7, <1>8 DEF Proceed, TaskEnqueue, SubmitCopyOut, QueryRead,
     QueryCopyOut, Return, engineVars, poolVars
<1> QED BY <1>6, <1>8

\* A worker writes to its own task only.
LEMMA WorkerWrites ==
  ASSUME ListInv, NEW a \in Accels, Worker(a) \/ WorkerExpire(a)
  PROVE  /\ \A s \in Slots : s # cur[a] => tasks'[s] = tasks[s]
         /\ \A b \in Accels : b # a => /\ wpc'[b] = wpc[b] /\ cur'[b] = cur[b]
                                       /\ wtodo'[b] = wtodo[b]
                                       /\ load_percent'[b] = load_percent[b]
<1>1. /\ tasks \in [Slots -> Task] /\ wpc \in [Accels -> WorkerPC]
      /\ cur \in [Accels -> Slots \cup {NULL}] /\ wtodo \in [Accels -> SUBSET Fields]
      /\ load_percent \in [Accels -> 0..100]
  BY DEF ListInv, TypeInv, PathTypeOK
<1> USE DEF poolVars, accelVars
<1>2. CASE WorkerCheck(a) \/ WorkerTake(a) \/ EndRun(a) \/ WorkerRetire(a)
  BY <1>1, <1>2 DEF WorkerCheck, WorkerTake, TakeFirst, TakeFrom, EndRun, WorkerRetire
<1>3. CASE WorkerStart(a)
  BY <1>1, <1>3 DEF WorkerStart
<1>4. CASE WorkerStore(a)
  BY <1>1, <1>4 DEF WorkerStore
<1>5. CASE WorkerFinish(a)
  BY <1>1, <1>5 DEF WorkerFinish
<1> QED BY <1>2, <1>3, <1>4, <1>5 DEF Worker, WorkerExpire, WorkerPoll

\* Two workers are never at the same task, and no task a worker is at is free
\* or being filled.
LEMMA OwnTask ==
  ASSUME ListInv, NEW a \in Accels, wpc[a] \notin {"loop", "lock", "exited"}
  PROVE  /\ cur[a] \in Slots
         /\ cur[a] \in InActive /\ cur[a] \notin InFree \cup Held
         /\ \A b \in Accels : b # a => cur[b] # cur[a]
<1>1. cur[a] \in Slots /\ cur[a] # NULL
  BY DEF ListInv, TypeInv, PathTypeOK, PointersOK
<1>2. cur[a] \in active_tasks[a]
  BY <1>1 DEF ListInv, ListIntegrity
<1>3. cur[a] \in InActive
  BY <1>2 DEF InActive
<1> QED BY <1>1, <1>3 DEF ListInv, ListIntegrity

-----------------------------------------------------------------------------
(***************************************************************************)
(* The execution invariant.                                                *)
(***************************************************************************)

\* At first no worker has a task.
LEMMA FreshExec == TypeInv /\ Fresh => ExecInv
<1> SUFFICES ASSUME TypeInv, Fresh PROVE ExecInv
  OBVIOUS
<1>1. LoadTracksWorker /\ StoresMade
  BY DEF Fresh, AccelInit, LoadTracksWorker, StoresMade
<1>2. RunningServed
  BY DEF Fresh, PoolInit, ZeroTask, RunningServed
<1> QED BY <1>1, <1>2, FreshLists DEF ExecInv

\* So the invariant holds initially.
LEMMA ExecInit == Init => ExecInv
BY ListInit, FreshExec DEF ListInv

\* A cancel that comes at any point of the execution does not undo it.
LEMMA ExecClient ==
  ASSUME ExecInv, NEW c \in Clients, EnterStep(c) \/ Proceed(c)
  PROVE  ExecInv'
<1>1. ListInv /\ ListInv'
  BY ListClient DEF ExecInv
<1>2. UNCHANGED <<wpc, cur, wtodo, load_percent>>
  BY ClientFrame DEF workerVars
<1>3. LoadTracksWorker'
  BY <1>2 DEF ExecInv, LoadTracksWorker
<1>4. StoresMade'
  <2> SUFFICES ASSUME NEW a \in Accels, wpc[a] \in {"finish", "retire"}
               PROVE  /\ Final(cur[a]) => Final(cur[a])'
                      /\ tasks[cur[a]].complete = TRUE => tasks'[cur[a]].complete = TRUE
                      /\ tasks[cur[a]].done = TRUE => tasks'[cur[a]].done = TRUE
    BY <1>2 DEF ExecInv, StoresMade
  <2>1. cur[a] \in Slots /\ cur[a] \notin InFree \cup Held
    BY <1>1, OwnTask
  <2> QED BY <1>1, <1>2, <2>1, ClientWrites DEF Final
<1>5. RunningServed'
  BY <1>1, <1>2, ClientWrites DEF ExecInv, RunningServed
<1> QED BY <1>1, <1>3, <1>4, <1>5 DEF ExecInv

\* A worker's own stores bring its task to the end.
LEMMA ExecWorker ==
  ASSUME ExecInv, NEW a \in Accels, Worker(a) \/ WorkerExpire(a)
  PROVE  ExecInv'
<1>1. ListInv /\ ListInv'
  BY ListWorker DEF ExecInv
<1>2. /\ tasks \in [Slots -> Task] /\ wpc \in [Accels -> WorkerPC]
      /\ cur \in [Accels -> Slots \cup {NULL}] /\ wtodo \in [Accels -> SUBSET Fields]
      /\ load_percent \in [Accels -> 0..100]
  BY <1>1 DEF ListInv, TypeInv, PathTypeOK
<1> USE DEF poolVars, accelVars
<1>3. LoadTracksWorker'
  <2>1. load_percent'[a] = IF wpc'[a] \in {"run", "finish"} THEN 10 ELSE 0
    BY <1>2 DEF ExecInv, LoadTracksWorker, Worker, WorkerExpire, WorkerPoll, EndRun,
       WorkerCheck, WorkerTake, WorkerStart, WorkerStore, WorkerFinish, WorkerRetire,
       LoadUp, LoadDown
  <2> QED BY <1>1, <2>1, WorkerWrites DEF ExecInv, LoadTracksWorker
<1>4. StoresMade'
  <2>1. ASSUME NEW b \in Accels, b # a, wpc[b] \in {"finish", "retire"}
        PROVE  tasks'[cur[b]] = tasks[cur[b]]
    BY <1>1, <2>1, OwnTask, WorkerWrites
  <2>2. /\ wpc'[a] = "finish" /\ "state" \notin wtodo'[a] => Final(cur[a])'
        /\ wpc'[a] = "finish" /\ "complete" \notin wtodo'[a] => tasks'[cur'[a]].complete = TRUE
        /\ wpc'[a] = "retire" => /\ Final(cur[a])'
                                 /\ tasks'[cur'[a]].complete = TRUE
                                 /\ tasks'[cur'[a]].done = TRUE
    <3>1. CASE WorkerCheck(a) \/ WorkerTake(a) \/ WorkerStart(a) \/ WorkerRetire(a)
      BY <1>2, <3>1 DEF WorkerCheck, WorkerTake, WorkerStart, WorkerRetire
    <3>2. CASE EndRun(a)
      BY <1>2, <3>2 DEF EndRun, FinishStores
    <3>3. CASE WorkerStore(a)
      <4>1. cur[a] \in Slots /\ cur'[a] = cur[a] /\ wpc'[a] = wpc[a] /\ wpc[a] = "finish"
        BY <1>1, <3>3, OwnTask DEF WorkerStore
      <4>2. tasks[cur[a]] \in Task
        BY <1>2, <4>1
      <4> QED BY <1>2, <3>3, <4>1, <4>2 DEF WorkerStore, ExecInv, StoresMade, Final, Task
    <3>4. CASE WorkerFinish(a)
      <4>1. cur[a] \in Slots /\ cur'[a] = cur[a] /\ wpc'[a] = "retire" /\ wtodo[a] = {}
        BY <1>1, <1>2, <3>4, OwnTask DEF WorkerFinish
      <4>2. tasks[cur[a]] \in Task
        BY <1>2, <4>1
      <4> QED BY <1>2, <3>4, <4>1, <4>2 DEF WorkerFinish, ExecInv, StoresMade, Final, Task
    <3> QED BY <3>1, <3>2, <3>3, <3>4 DEF Worker, WorkerExpire, WorkerPoll
  <2> QED BY <1>1, <2>1, <2>2, WorkerWrites DEF ExecInv, StoresMade, Final
<1>5. RunningServed'
  <2> SUFFICES ASSUME NEW s \in Slots, tasks'[s].state = "RUNNING"
               PROVE  \E b \in Accels : cur'[b] = s /\ wpc'[b] \in {"run", "finish"}
    BY DEF RunningServed
  <2>1. CASE s # cur[a]
    <3>1. tasks[s].state = "RUNNING"
      BY <1>1, <2>1, WorkerWrites
    <3>2. PICK b \in Accels : cur[b] = s /\ wpc[b] \in {"run", "finish"}
      BY <3>1 DEF ExecInv, RunningServed
    <3> QED BY <1>1, <2>1, <3>2, WorkerWrites
  <2>2. CASE s = cur[a]
    <3>1. wpc[a] \notin {"loop", "lock", "exited"}
      <4>1. s # NULL
        BY PoolAssumption DEF Slots, NULL
      <4> QED BY <1>1, <2>2, <4>1 DEF ListInv, IdleWorkers
    <3>2. \A b \in Accels : b # a => cur[b] # s
      BY <1>1, <2>2, <3>1, OwnTask
    <3>3. tasks[s].state = "RUNNING" => wpc[a] \in {"run", "finish"}
      BY <3>2 DEF ExecInv, RunningServed
    <3>4. CASE EndRun(a)
      BY <1>2, <2>2, <3>4 DEF EndRun
    <3>5. CASE WorkerStart(a)
      BY <1>2, <2>2, <3>5 DEF WorkerStart
    <3>6. CASE WorkerStore(a)
      BY <1>2, <2>2, <3>6 DEF WorkerStore
    <3>7. CASE WorkerFinish(a)
      <4>1. tasks'[s].state = tasks[s].state
        BY <1>2, <2>2, <3>7 DEF WorkerFinish, Task
      <4>2. Final(s)
        BY <1>2, <2>2, <3>7 DEF WorkerFinish, ExecInv, StoresMade
      <4> QED BY <4>1, <4>2 DEF Final
    <3>8. CASE WorkerRetire(a)
      <4>1. Final(s) /\ UNCHANGED tasks
        BY <2>2, <3>8 DEF WorkerRetire, ExecInv, StoresMade
      <4> QED BY <4>1 DEF Final
    <3>9. CASE WorkerCheck(a) \/ WorkerTake(a)
      BY <3>1, <3>9 DEF WorkerCheck, WorkerTake
    <3> QED BY <3>4, <3>5, <3>6, <3>7, <3>8, <3>9 DEF Worker, WorkerExpire, WorkerPoll
  <2> QED BY <2>1, <2>2
<1> QED BY <1>1, <1>3, <1>4, <1>5 DEF ExecInv

\* A step that leaves the tasks and the workers alone.
LEMMA ExecStutter ==
  ASSUME ExecInv, ListInv', UNCHANGED <<tasks, load_percent, wpc, cur, wtodo>>
  PROVE  ExecInv'
BY DEF ExecInv, LoadTracksWorker, StoresMade, RunningServed, Final

\* ExecInv is inductive.
LEMMA ExecStep == ExecInv /\ [Next]_vars => ExecInv'
<1> SUFFICES ASSUME ExecInv, [Next]_vars PROVE ExecInv'
  OBVIOUS
<1>1. ListInv'
  BY ListStep DEF ExecInv
<1>2. CASE UNCHANGED vars
  BY <1>1, <1>2, ExecStutter DEF vars, engineVars, poolVars, accelVars, workerVars
<1>3. CASE StopBegin \/ Stopper
  BY <1>1, <1>3, StopFrame, ExecStutter DEF poolVars, accelVars, workerVars
<1> QED BY <1>2, <1>3, EnterCases, ExecClient, ExecWorker DEF Next

\* The load never drifts, however many tasks end in whichever way: it is 10
\* exactly while the worker of the accelerator executes a task.
THEOREM LoadExact == Spec => []LoadTracksWorker
<1>1. ExecInv => LoadTracksWorker
  BY DEF ExecInv
<1> QED BY <1>1, ExecInit, ExecStep, PTL DEF Spec

-----------------------------------------------------------------------------
(***************************************************************************)
(* Retired tasks.                                                          *)
(***************************************************************************)

\* A slot nobody has taken yet is not retired.
LEMMA RetiredInit == Init => Retired = {}
<1> SUFFICES ASSUME Init PROVE Retired = {}
  OBVIOUS
<1>1. free_tasks \in Seq(Slots) /\ DOMAIN free_tasks = 1..MaxTasks
  BY TypeInit DEF Init, PoolInit, TypeInv, PathTypeOK
<1>2. Slots \subseteq Range(free_tasks)
  BY <1>1 DEF Init, PoolInit, Range, Slots
<1> QED BY <1>2 DEF Retired, InFree

\* Only its worker retires a task, and only when it is over; after that only
\* cancels write to it.
LEMMA RetiredStep ==
  ASSUME ExecInv, RetiredIsTerminal, [Next]_vars PROVE RetiredIsTerminal'
<1>1. ListInv
  BY DEF ExecInv
<1>2. ASSUME NEW s \in Retired,
             \/ tasks'[s] = tasks[s]
             \/ /\ tasks'[s].state \in {tasks[s].state, "CANCELLED"}
                /\ tasks'[s].complete = tasks[s].complete
                /\ tasks'[s].done \in {tasks[s].done, TRUE}
      PROVE  /\ tasks'[s].state \in {"COMPLETE", "CANCELLED"}
             /\ tasks'[s].complete
             /\ tasks'[s].done
  BY <1>2 DEF RetiredIsTerminal
<1>3. CASE UNCHANGED tasks /\ Retired' = Retired
  BY <1>3 DEF RetiredIsTerminal
<1>4. CASE UNCHANGED vars
  <2>1. Retired' = Retired
    BY <1>1, <1>4, TypeStep, ListStutter
       DEF ListInv, vars, engineVars, poolVars, accelVars, workerVars, callVars
  <2> QED BY <1>3, <1>4, <2>1 DEF vars, engineVars, poolVars
<1>5. CASE StopBegin \/ Stopper
  <2>1. Retired' = Retired
    BY <1>1, <1>5, StopFrame, TypeStep, ListStutter
       DEF ListInv, poolVars, accelVars, workerVars, callVars
  <2> QED BY <1>3, <1>5, <2>1, StopFrame DEF poolVars
<1>6. ASSUME NEW c \in Clients, EnterStep(c) \/ Proceed(c) PROVE RetiredIsTerminal'
  <2>1. Retired' = Retired
    BY <1>1, <1>6, ListClient
  <2>2. \A s \in Retired : s \in Slots /\ s \notin InFree \cup Held
    BY DEF Retired
  <2> QED BY <1>1, <1>2, <1>6, <2>1, <2>2, ClientWrites DEF RetiredIsTerminal
<1>7. ASSUME NEW a \in Accels, Worker(a) \/ WorkerExpire(a) PROVE RetiredIsTerminal'
  <2>1. \A s \in Retired : tasks'[s] = tasks[s]
    <3> SUFFICES ASSUME NEW s \in Retired PROVE tasks'[s] = tasks[s]
      OBVIOUS
    <3>1. s \in Slots /\ s \notin InActive /\ s # NULL
      BY PoolAssumption DEF Retired, Slots, NULL
    <3>2. s # cur[a]
      BY <1>1, <3>1 DEF ListInv, ListIntegrity, InActive
    <3> QED BY <1>1, <1>7, <3>1, <3>2, WorkerWrites
  <2>2. CASE ~WorkerRetire(a)
    BY <1>1, <1>7, <2>1, <2>2, ListWorker DEF RetiredIsTerminal
  <2>3. CASE WorkerRetire(a)
    <3>1. Retired' = Retired \cup {cur[a]} /\ UNCHANGED tasks
      BY <1>1, <2>3, ListRetire DEF WorkerRetire, poolVars
    <3>2. Final(cur[a]) /\ tasks[cur[a]].complete = TRUE /\ tasks[cur[a]].done = TRUE
      BY <2>3 DEF WorkerRetire, ExecInv, StoresMade
    <3> QED BY <3>1, <3>2 DEF RetiredIsTerminal, Final
  <2> QED BY <2>2, <2>3
<1> QED BY <1>4, <1>5, <1>6, <1>7, EnterCases DEF Next

\* Whatever cancels race with a worker's unlocked stores, a task that has left
\* the active list is in a final state, has its end time and has woken its
\* waiters, and it stays so.
THEOREM RetiredTasksEnded == Spec => []RetiredIsTerminal
<1>1. Init => RetiredIsTerminal
  BY RetiredInit DEF RetiredIsTerminal
<1> QED BY <1>1, ExecInit, ExecStep, RetiredStep, PTL DEF Spec

-----------------------------------------------------------------------------
(***************************************************************************)
(* Removal.                                                                *)
(***************************************************************************)

\* accel_stop_workers has waited for the exit of every worker it is past.
StoppedSoFar ==
  /\ \A a \in Accels : a < sidx => wpc[a] = "exited"
  /\ spc = "done" => sidx = NumAccels - 1 /\ wpc[sidx] = "exited"

\* A worker that has exited does not come back.
LEMMA StoppedStep ==
  ASSUME ListInv, StopTypeOK, StoppedSoFar, [Next]_vars PROVE StoppedSoFar'
<1>1. ASSUME \A a \in Accels : wpc[a] = "exited" => wpc'[a] = "exited", UNCHANGED stopVars
      PROVE  StoppedSoFar'
  BY <1>1 DEF StoppedSoFar, StopTypeOK, stopVars
<1>2. CASE UNCHANGED vars
  BY <1>1, <1>2 DEF vars, engineVars, workerVars
<1>3. ASSUME NEW c \in Clients, Enter(c) \/ Proceed(c) PROVE StoppedSoFar'
  BY <1>1, <1>3, EnterCases, ClientFrame DEF workerVars
<1>4. ASSUME NEW a \in Accels, Worker(a) \/ WorkerExpire(a) PROVE StoppedSoFar'
  <2>1. wpc[a] # "exited"
    BY <1>4 DEF Worker, WorkerExpire, WorkerPoll, WorkerCheck, WorkerTake, WorkerStart,
       WorkerStore, WorkerFinish, WorkerRetire
  <2> QED BY <1>1, <1>4, <2>1, WorkerWrites, WorkerFrame
<1>5. CASE StopBegin \/ StopFlag \/ StopRequest \/ StopGone
  BY <1>5 DEF StopBegin, StopFlag, StopRequest, StopGone, StoppedSoFar, workerVars
<1>6. CASE StopJoin
  BY <1>6, PoolAssumption DEF StopJoin, Exited, StoppedSoFar, StopTypeOK, Accels, workerVars
<1> QED BY <1>2, <1>3, <1>4, <1>5, <1>6 DEF Next, Stopper

\* When accel_stop_workers returns, every worker has left its thread function
\* and no task is half executed, whatever was in the queues.
THEOREM RemovalLeavesNoWorker == Spec => []NoWorkerAfterStop
<1>1. Init => StopTypeOK /\ StoppedSoFar
  BY PoolAssumption DEF Init, StopTypeOK, StopPC, StoppedSoFar, Accels
<1>2. ListInv /\ StoppedSoFar => NoWorkerAfterStop
  <2> SUFFICES ASSUME ListInv, StoppedSoFar, spc = "done", NEW a \in Accels
               PROVE  wpc[a] = "exited" /\ active_tasks[a] = {}
    BY DEF NoWorkerAfterStop
  <2>1. wpc[a] = "exited"
    BY PoolAssumption DEF StoppedSoFar, Accels
  <2>2. cur[a] = NULL
    BY <2>1 DEF ListInv, IdleWorkers
  <2> QED BY <2>1, <2>2 DEF ListInv, ListIntegrity
<1> QED BY <1>1, <1>2, ListInit, ListStep, StopTypeStep, StoppedStep, PTL DEF Spec

=============================================================================
