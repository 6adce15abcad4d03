--------------------------- MODULE TaskEngineProofs ---------------------------
(***************************************************************************)
(* Theorems about TaskEngine, for every number of slots, accelerators and  *)
(* user threads and every set of descriptors.                              *)
(***************************************************************************)
EXTENDS TaskEngine, TLAPS

-----------------------------------------------------------------------------
(***************************************************************************)
(* Type correctness.                                                       *)
(***************************************************************************)

\* A thread at work on a task has a slot: the pointer `task` it dereferences
\* is not NULL.
PointersOK ==
  /\ \A c \in Clients : pc[c] \notin {"idle", "ret", "lost"} => slot[c] # NULL
  /\ \A a \in Accels : wpc[a] \notin {"loop", "lock", "exited"} => cur[a] # NULL

\* The types alone are not inductive: appending the slot a thread holds to a list
\* keeps the list's type only if the thread does hold one.
TypeInv == PathTypeOK /\ PointersOK

\* The id counter stays within its width.
LEMMA NextIdType == ASSUME PathTypeOK PROVE NextId \in Ids
  BY PoolAssumption DEF PathTypeOK, NextId, Ids

\* What every way out of an ioctl does to the caller's state.
LEMMA FinishType ==
  ASSUME PathTypeOK, NEW c \in Clients, NEW o \in Ops,
         NEW s \in Slots \cup {NULL}, NEW r \in Errno, Finish(c, o, s, r)
  PROVE  /\ pc' \in [Clients -> ClientPC]
         /\ op' \in [Clients -> Ops]
         /\ slot' \in [Clients -> Slots \cup {NULL}]
         /\ ret' \in [Clients -> Errno]
         /\ pc'[c] = "ret"
         /\ \A d \in Clients : d # c => pc'[d] = pc[d] /\ slot'[d] = slot[d]
  BY DEF PathTypeOK, Finish, ClientPC

\* A validated descriptor names an existing accelerator.
LEMMA ValidDesc ==
  ASSUME NEW d \in Descs
  PROVE  /\ ValidateDesc(d) \in Errno
         /\ ValidateDesc(d) = "0" => d.accel_type \in Accels
         /\ d.priority \in Nat
         /\ d.timeout_ms \in Nat
  BY DescsAssumption, PoolAssumption
  DEF ValidateDesc, InvalidAccel, Errno, Accels

\* The initial state is well typed.
LEMMA TypeInit == Init => TypeInv
<1> SUFFICES ASSUME Init PROVE TypeInv
  OBVIOUS
<1>1. ZeroTask \in Task /\ ZeroReply \in Reply
  BY PoolAssumption DEF ZeroTask, Task, ZeroReply, Reply, Ids, Accels, States, ErrorCodes
<1>2. free_tasks \in Seq(Slots)
  BY PoolAssumption DEF Init, PoolInit, AccelInit, WorkerInit, Slots
<1>3. PathTypeOK
  BY <1>1, <1>2, PoolAssumption
  DEF Init, PoolInit, AccelInit, WorkerInit, PathTypeOK, Ids, Accels, WorkerPC,
      ClientPC, StopPC, Ops, Errno, NULL
<1>4. PointersOK
  BY DEF Init, PoolInit, AccelInit, WorkerInit, PointersOK
<1> QED BY <1>3, <1>4 DEF TypeInv

\* An ioctl that is over at once, without a look at the tasks.
Dismiss(c) ==
  /\ pc[c] = "idle"
  /\ \E o \in Ops, r \in Errno : Finish(c, o, NULL, r)
  /\ UNCHANGED <<engineVars, todo, reply, issued>>

\* What a thread does that enters an ioctl, whichever it is.
EnterStep(c) ==
  \/ Dismiss(c)
  \/ \E d \in Descs : SubmitAlloc(c, d)
  \/ \E i \in Ids : \/ Found(c, "QUERY", i, "query_read", QueryLoads)
                    \/ Found(c, "CANCEL", i, "cancel_store", {"state", "error_code"})
  \/ \E t \in 0..NumAccels : GetInfo(c, t)

\* The ioctls that fail early are dismissed.
LEMMA EnterCases ==
  ASSUME NEW c \in Clients
  PROVE  /\ Enter(c) => EnterStep(c)
         /\ IoctlFault(c) => Dismiss(c)
         /\ \A d \in Descs : SubmitRejected(c, d) \/ SubmitNoMemory(c, d) => Dismiss(c)
         /\ \A i \in Ids, o \in {"QUERY", "CANCEL"} : NotFound(c, o, i) => Dismiss(c)
<1>1. IoctlFault(c) => Dismiss(c)
  <2>1. Calls[c] \subseteq Ops /\ "EFAULT" \in Errno
    BY CallsAssumption DEF Ops, Errno
  <2> QED BY <2>1 DEF IoctlFault, Dismiss
<1>2. ASSUME NEW d \in Descs, SubmitRejected(c, d) \/ SubmitNoMemory(c, d) PROVE Dismiss(c)
  <2>1. "SUBMIT" \in Ops /\ ValidateDesc(d) \in Errno /\ "ENOMEM" \in Errno
    BY ValidDesc DEF Ops, Errno
  <2> QED BY <1>2, <2>1 DEF SubmitRejected, SubmitNoMemory, Dismiss
<1>3. ASSUME NEW i \in Ids, NEW o \in {"QUERY", "CANCEL"}, NotFound(c, o, i) PROVE Dismiss(c)
  <2>1. o \in Ops /\ "ENOENT" \in Errno
    BY DEF Ops, Errno
  <2> QED BY <1>3, <2>1 DEF NotFound, Dismiss
<1>4. Enter(c) => EnterStep(c)
  BY <1>1, <1>2, <1>3 DEF Enter, EnterStep, Submit, Query, Cancel
<1> QED BY <1>1, <1>2, <1>3, <1>4

\* Every step of a thread that enters an ioctl keeps the types.
LEMMA TypeEnter ==
  ASSUME TypeInv, NEW c \in Clients, EnterStep(c) PROVE TypeInv'
<1> USE DEF TypeInv
<1> NULL \in Slots \cup {NULL} /\ NULL \notin Slots
  BY PoolAssumption DEF NULL, Slots
<1>1. CASE Dismiss(c)
  <2>1. PICK o \in Ops, r \in Errno : Finish(c, o, NULL, r)
    BY <1>1 DEF Dismiss
  <2> QED BY <1>1, <2>1, FinishType DEF Dismiss, PathTypeOK, PointersOK,
        engineVars, poolVars, accelVars, flagVars, workerVars, stopVars
<1>4. ASSUME NEW d \in Descs, SubmitAlloc(c, d) PROVE TypeInv'
  <2>1. Head(free_tasks) \in Slots /\ Tail(free_tasks) \in Seq(Slots)
    BY <1>4 DEF SubmitAlloc, PathTypeOK
  <2>2. [ZeroTask EXCEPT !.id = NextId, !.accel_type = d.accel_type,
           !.priority = d.priority, !.timeout_ms = d.timeout_ms] \in Task
    BY <1>4, NextIdType, ValidDesc DEF SubmitAlloc, ZeroTask, Task, States, ErrorCodes
  <2>3. tasks' \in [Slots -> Task] /\ free_tasks' \in Seq(Slots) /\ next_task_id' \in Ids
    BY <1>4, <2>1, <2>2, NextIdType DEF SubmitAlloc, PathTypeOK
  <2>4. /\ pc' \in [Clients -> ClientPC] /\ op' \in [Clients -> Ops]
        /\ slot' \in [Clients -> Slots \cup {NULL}]
    BY <1>4, <2>1 DEF SubmitAlloc, PathTypeOK, ClientPC, Ops
  <2> QED BY <1>4, <2>1, <2>3, <2>4 DEF SubmitAlloc, PathTypeOK, PointersOK,
        accelVars, flagVars, workerVars, stopVars
<1>6. ASSUME NEW i \in Ids, NEW o \in {"QUERY", "CANCEL"},
             NEW where \in {"query_read", "cancel_store"}, NEW fs \in SUBSET Fields,
             Found(c, o, i, where, fs)
      PROVE TypeInv'
  BY <1>6 DEF Found, PathTypeOK, PointersOK, ClientPC, Ops,
     engineVars, poolVars, accelVars, flagVars, workerVars, stopVars
<1>7. ASSUME NEW t \in 0..NumAccels, GetInfo(c, t) PROVE TypeInv'
  <2>1. {"EINVAL", "0", "EFAULT"} \subseteq Errno /\ "GET_INFO" \in Ops
    BY DEF Errno, Ops
  <2>2. reply' \in [Clients -> Reply]
    <3>1. CASE t >= NumAccels
      BY <3>1, <1>7, PoolAssumption DEF GetInfo, PathTypeOK
    <3>2. CASE t < NumAccels
      <4>1. t \in Accels
        BY <3>2, PoolAssumption DEF Accels
      <4>2. [reply[c] EXCEPT !.load = load_percent[t]] \in Reply
        <5>1. reply[c] \in Reply /\ load_percent[t] \in 0..100
          BY <4>1 DEF PathTypeOK
        <5> QED BY <5>1 DEF Reply
      <4>3. reply' = [reply EXCEPT ![c].load = load_percent[t]]
        BY <3>2, <4>1, <1>7, PoolAssumption DEF GetInfo, AccelGetInfo, Accels
      <4> QED BY <4>2, <4>3 DEF PathTypeOK
    <3> QED BY <3>1, <3>2, PoolAssumption
  <2>3. PICK r \in Errno : Finish(c, "GET_INFO", NULL, r)
    BY <1>7, <2>1 DEF GetInfo
  <2> QED BY <1>7, <2>1, <2>2, <2>3, FinishType DEF GetInfo, PathTypeOK, PointersOK,
        engineVars, poolVars, accelVars, flagVars, workerVars, stopVars
<1>8. {"state", "error_code"} \in SUBSET Fields /\ QueryLoads \in SUBSET Fields
  BY DEF Fields, QueryLoads
<1> QED BY <1>1, <1>4, <1>6, <1>7, <1>8 DEF EnterStep

\* A task whose unlocked fields are overwritten is still a task.
LEMMA TaskUpdate ==
  ASSUME PathTypeOK, NEW s \in Slots, NEW st \in States, NEW e \in ErrorCodes
  PROVE  /\ [tasks EXCEPT ![s].state = st] \in [Slots -> Task]
         /\ [tasks EXCEPT ![s].error_code = e] \in [Slots -> Task]
         /\ [tasks EXCEPT ![s].complete = TRUE] \in [Slots -> Task]
         /\ [tasks EXCEPT ![s].done = TRUE] \in [Slots -> Task]
         /\ [tasks EXCEPT ![s].numbered = TRUE] \in [Slots -> Task]
<1> tasks \in [Slots -> Task]
  BY DEF PathTypeOK
<1>1. /\ [tasks[s] EXCEPT !.state = st] \in Task
      /\ [tasks[s] EXCEPT !.error_code = e] \in Task
      /\ [tasks[s] EXCEPT !.complete = TRUE] \in Task
      /\ [tasks[s] EXCEPT !.done = TRUE] \in Task
      /\ [tasks[s] EXCEPT !.numbered = TRUE] \in Task
  BY DEF Task
<1> QED BY <1>1

\* Every step of a thread inside an ioctl keeps the types.
LEMMA TypeProceed ==
  ASSUME TypeInv, NEW c \in Clients, Proceed(c) PROVE TypeInv'
<1> USE DEF TypeInv
<1> NULL \in Slots \cup {NULL} /\ NULL \notin Slots
  BY PoolAssumption DEF NULL, Slots
<1>0. /\ pc[c] \notin {"idle", "ret", "lost"} => slot[c] \in Slots
      /\ {"PENDING", "FREE", "CANCELLED"} \subseteq States
      /\ "ECANCELED" \in ErrorCodes /\ "0" \in ErrorCodes
      /\ {"0", "EINVAL", "EFAULT"} \subseteq Errno
      /\ {"SUBMIT", "QUERY", "CANCEL"} \subseteq Ops
  BY DEF PathTypeOK, PointersOK, States, ErrorCodes, Errno, Ops
<1>1. CASE TaskSubmit(c)
  <2>1. slot[c] \in Slots
    BY <1>0, <1>1 DEF TaskSubmit
  <2>2. tasks' \in [Slots -> Task] /\ free_tasks' \in Seq(Slots)
    <3>1. /\ [tasks EXCEPT ![slot[c]].state = "FREE"] \in [Slots -> Task]
          /\ [tasks EXCEPT ![slot[c]].state = "PENDING"] \in [Slots -> Task]
      BY <1>0, <2>1, TaskUpdate
    <3>2. free_tasks \in Seq(Slots) /\ Append(free_tasks, slot[c]) \in Seq(Slots)
      BY <2>1 DEF PathTypeOK
    <3> QED BY <1>1, <3>1, <3>2 DEF TaskSubmit, TaskFree
  <2>3. CASE tasks[slot[c]].accel_type >= NumAccels
    BY <1>0, <1>1, <2>1, <2>2, <2>3, FinishType DEF TaskSubmit, PathTypeOK, PointersOK,
       accelVars, flagVars, workerVars, stopVars
  <2>4. CASE ~(tasks[slot[c]].accel_type >= NumAccels)
    BY <1>1, <2>1, <2>2, <2>4 DEF TaskSubmit, PathTypeOK, PointersOK, ClientPC,
       accelVars, flagVars, workerVars, stopVars
  <2> QED BY <2>3, <2>4
<1>2. CASE TaskEnqueue(c)
  <2>1. slot[c] \in Slots
    BY <1>0, <1>2 DEF TaskEnqueue
  <2>2. tasks[slot[c]].accel_type \in Accels
    BY <2>1 DEF PathTypeOK, Task
  <2>3. task_queue' \in [Accels -> Seq(Slots)]
    BY <1>2, <2>1, <2>2 DEF TaskEnqueue, PathTypeOK
  <2> QED BY <1>2, <2>1, <2>3 DEF TaskEnqueue, PathTypeOK, PointersOK, ClientPC,
        poolVars, flagVars, workerVars, stopVars
<1>3. CASE SubmitCopyOut(c)
  <2>1. slot[c] \in Slots
    BY <1>0, <1>3 DEF SubmitCopyOut
  <2>2. issued' \subseteq Ids
    BY <1>3, <2>1 DEF SubmitCopyOut, PathTypeOK, Task
  <2>3. PICK r \in Errno : Finish(c, "SUBMIT", slot[c], r)
    BY <1>0, <1>3 DEF SubmitCopyOut
  <2> QED BY <1>0, <1>3, <2>1, <2>2, <2>3, FinishType DEF SubmitCopyOut, PathTypeOK, PointersOK,
        engineVars, poolVars, accelVars, flagVars, workerVars, stopVars
<1>4. CASE QueryRead(c)
  <2>1. slot[c] \in Slots
    BY <1>0, <1>4 DEF QueryRead
  <2>2. /\ [reply[c] EXCEPT !.status = TaskState[tasks[slot[c]].state]] \in Reply
        /\ [reply[c] EXCEPT !.complete = tasks[slot[c]].complete] \in Reply
    <3>1. reply[c] \in Reply /\ tasks[slot[c]] \in Task
      BY <2>1 DEF PathTypeOK
    <3>2. TaskState[tasks[slot[c]].state] \in 0..5
      BY <3>1 DEF Task, States, TaskState
    <3> QED BY <3>1, <3>2 DEF Task, Reply
  <2>3. reply' \in [Clients -> Reply] /\ todo' \in [Clients -> SUBSET Fields]
    <3>1. reply \in [Clients -> Reply] /\ todo \in [Clients -> SUBSET Fields]
      BY DEF PathTypeOK
    <3>2. reply' \in [Clients -> Reply]
      BY <1>4, <2>2, <3>1 DEF QueryRead
    <3>3. todo' \in [Clients -> SUBSET Fields]
      BY <1>4, <3>1 DEF QueryRead
    <3> QED BY <3>2, <3>3
  <2> QED BY <1>4, <2>3 DEF QueryRead, PathTypeOK, PointersOK,
        engineVars, poolVars, accelVars, flagVars, workerVars, stopVars
<1>5. CASE QueryCopyOut(c)
  <2>1. PICK r \in Errno : Finish(c, "QUERY", NULL, r)
    BY <1>0, <1>5 DEF QueryCopyOut
  <2> QED BY <1>0, <1>5, <2>1, FinishType DEF QueryCopyOut, PathTypeOK, PointersOK,
        engineVars, poolVars, accelVars, flagVars, workerVars, stopVars
<1>6. CASE CancelStore(c)
  <2>1. slot[c] \in Slots
    BY <1>0, <1>6 DEF CancelStore
  <2>2. tasks' \in [Slots -> Task] /\ todo' \in [Clients -> SUBSET Fields]
    <3>1. /\ [tasks EXCEPT ![slot[c]].state = "CANCELLED"] \in [Slots -> Task]
          /\ [tasks EXCEPT ![slot[c]].error_code = "ECANCELED"] \in [Slots -> Task]
      BY <1>0, <2>1, TaskUpdate
    <3>2. todo \in [Clients -> SUBSET Fields]
      BY DEF PathTypeOK
    <3>3. todo' \in [Clients -> SUBSET Fields]
      BY <1>6, <3>2 DEF CancelStore
    <3> QED BY <1>6, <3>1, <3>3 DEF CancelStore
  <2> QED BY <1>6, <2>2 DEF CancelStore, PathTypeOK, PointersOK,
        accelVars, flagVars, workerVars, stopVars
<1>7. CASE CancelDone(c)
  <2>1. slot[c] \in Slots
    BY <1>0, <1>7 DEF CancelDone
  <2>2. tasks' \in [Slots -> Task]
    BY <1>0, <1>7, <2>1, TaskUpdate DEF CancelDone, PathTypeOK
  <2> QED BY <1>0, <1>7, <2>1, <2>2, FinishType DEF CancelDone, PathTypeOK, PointersOK,
        accelVars, flagVars, workerVars, stopVars
<1>8. CASE Return(c)
  <2>1. ZeroReply \in Reply
    BY DEF ZeroReply, Reply, States, ErrorCodes
  <2> QED BY <1>0, <1>8, <2>1 DEF Return, PathTypeOK, PointersOK, ClientPC, Ops,
        engineVars, poolVars, accelVars, flagVars, workerVars, stopVars
<1>9. CASE IdVisible(c)
  <2>1. tasks' \in [Slots -> Task]
    BY <1>0, <1>9, TaskUpdate DEF IdVisible
  <2> QED BY <1>9, <2>1 DEF IdVisible, PathTypeOK, PointersOK,
        accelVars, flagVars, workerVars, stopVars, callVars
<1> QED BY <1>1, <1>2, <1>3, <1>4, <1>5, <1>6, <1>7, <1>8, <1>9 DEF Proceed

\* The saturating load arithmetic stays within a percentage.
LEMMA LoadType ==
  \A l \in 0..100 : LoadUp(l) \in 0..100 /\ LoadDown(l) \in 0..100
  BY DEF LoadUp, LoadDown

\* Every step of a worker keeps the types.
LEMMA TypeWorker ==
  ASSUME TypeInv, NEW a \in Accels, Worker(a) \/ WorkerExpire(a) PROVE TypeInv'
<1> USE DEF TypeInv
<1> NULL \in Slots \cup {NULL} /\ NULL \notin Slots
  BY PoolAssumption DEF NULL, Slots
<1>0. /\ wpc[a] \notin {"loop", "lock", "exited"} => cur[a] \in Slots
      /\ {"RUNNING", "COMPLETE"} \subseteq States
      /\ "0" \in ErrorCodes
      /\ {"loop", "lock", "start", "run", "finish", "retire", "exited"} \subseteq WorkerPC
  BY DEF PathTypeOK, PointersOK, States, ErrorCodes, WorkerPC
<1>1. CASE WorkerCheck(a)
  BY <1>0, <1>1 DEF WorkerCheck, PathTypeOK, PointersOK,
     poolVars, accelVars, flagVars, callVars, stopVars
<1>2. CASE WorkerTake(a)
  <2>1. CASE task_queue[a] = <<>>
    BY <1>0, <1>2, <2>1 DEF WorkerTake, PathTypeOK, PointersOK,
       poolVars, flagVars, callVars, stopVars
  <2>2. CASE task_queue[a] # <<>>
    <3>1. Head(task_queue[a]) \in Slots /\ Tail(task_queue[a]) \in Seq(Slots)
      BY <2>2 DEF PathTypeOK
    <3>2. /\ task_queue' \in [Accels -> Seq(Slots)]
          /\ active_tasks' \in [Accels -> SUBSET Slots]
          /\ cur' = [cur EXCEPT ![a] = Head(task_queue[a])]
      <4>1. TakeFrom(a, Head(task_queue[a]), Tail(task_queue[a]))
        BY <1>2, <2>2 DEF WorkerTake, TakeFirst
      <4>2. /\ task_queue \in [Accels -> Seq(Slots)]
            /\ active_tasks \in [Accels -> SUBSET Slots]
        BY DEF PathTypeOK
      <4>3. active_tasks[a] \cup {Head(task_queue[a])} \in SUBSET Slots
        BY <3>1, <4>2
      <4> QED BY <3>1, <4>1, <4>2, <4>3 DEF TakeFrom
    <3> QED BY <1>0, <1>2, <2>2, <3>1, <3>2 DEF WorkerTake, PathTypeOK, PointersOK,
          poolVars, flagVars, callVars, stopVars
  <2> QED BY <2>1, <2>2
<1>3. CASE WorkerStart(a)
  <2>1. tasks' \in [Slots -> Task]
    BY <1>0, <1>3, TaskUpdate DEF WorkerStart
  <2>2. load_percent' \in [Accels -> 0..100]
    <3>1. load_percent \in [Accels -> 0..100] /\ LoadUp(load_percent[a]) \in 0..100
      BY LoadType DEF PathTypeOK
    <3> QED BY <1>3, <3>1 DEF WorkerStart
  <2> QED BY <1>0, <1>3, <2>1, <2>2 DEF WorkerStart, PathTypeOK, PointersOK,
        flagVars, callVars, stopVars
<1>4. CASE EndRun(a) /\ wpc[a] = "run"
  <2>1. FinishStores \in SUBSET Fields
    BY DEF FinishStores, Fields
  <2> QED BY <1>0, <1>4, <2>1 DEF EndRun, PathTypeOK, PointersOK,
        poolVars, accelVars, flagVars, callVars, stopVars
<1>5. CASE WorkerStore(a)
  <2>1. tasks' \in [Slots -> Task] /\ wtodo' \in [Accels -> SUBSET Fields]
    <3>1. cur[a] \in Slots
      BY <1>0, <1>5 DEF WorkerStore
    <3>2. /\ [tasks EXCEPT ![cur[a]].complete = TRUE] \in [Slots -> Task]
          /\ [tasks EXCEPT ![cur[a]].state = "COMPLETE"] \in [Slots -> Task]
          /\ [tasks EXCEPT ![cur[a]].error_code = "0"] \in [Slots -> Task]
      BY <1>0, <3>1, TaskUpdate
    <3>3. wtodo \in [Accels -> SUBSET Fields]
      BY DEF PathTypeOK
    <3>4. wtodo' \in [Accels -> SUBSET Fields]
      BY <1>5, <3>3 DEF WorkerStore
    <3> QED BY <1>5, <3>2, <3>4 DEF WorkerStore
  <2> QED BY <1>5, <2>1 DEF WorkerStore, PathTypeOK, PointersOK,
        accelVars, flagVars, callVars, stopVars
<1>6. CASE WorkerFinish(a)
  <2>1. tasks' \in [Slots -> Task]
    BY <1>0, <1>6, TaskUpdate DEF WorkerFinish
  <2>2. load_percent' \in [Accels -> 0..100]
    <3>1. load_percent \in [Accels -> 0..100] /\ LoadDown(load_percent[a]) \in 0..100
      BY LoadType DEF PathTypeOK
    <3> QED BY <1>6, <3>1 DEF WorkerFinish
  <2> QED BY <1>0, <1>6, <2>1, <2>2 DEF WorkerFinish, PathTypeOK, PointersOK,
        flagVars, callVars, stopVars
<1>7. CASE WorkerRetire(a)
  BY <1>0, <1>7 DEF WorkerRetire, PathTypeOK, PointersOK,
     poolVars, flagVars, callVars, stopVars
<1> QED BY <1>1, <1>2, <1>3, <1>4, <1>5, <1>6, <1>7 DEF Worker, WorkerExpire, WorkerPoll

\* The removal leaves the task path alone, but for the flags of the workers.
LEMMA TypeStop ==
  ASSUME TypeInv, StopBegin \/ Stopper PROVE TypeInv'
<1> USE DEF TypeInv, PathTypeOK, PointersOK,
            poolVars, accelVars, flagVars, workerVars, callVars
<1>1. CASE StopBegin
  BY <1>1 DEF StopBegin
<1>2. CASE StopFlag
  BY <1>2 DEF StopFlag
<1>3. CASE StopRequest
  BY <1>3 DEF StopRequest
<1>4. CASE StopJoin
  BY <1>4 DEF StopJoin
<1>5. CASE StopGone
  BY <1>5 DEF StopGone
<1> QED BY <1>1, <1>2, <1>3, <1>4, <1>5 DEF Stopper

\* TypeInv is inductive.
LEMMA TypeStep == TypeInv /\ [Next]_vars => TypeInv'
<1> SUFFICES ASSUME TypeInv, [Next]_vars PROVE TypeInv'
  OBVIOUS
<1>1. CASE UNCHANGED vars
  BY <1>1 DEF TypeInv, PathTypeOK, PointersOK, vars, engineVars,
     poolVars, accelVars, flagVars, workerVars, callVars, stopVars
<1>2. CASE Next
  BY <1>2, EnterCases, TypeEnter, TypeProceed, TypeWorker, TypeStop DEF Next
<1> QED BY <1>1, <1>2

\* The index of the loop that stops the workers stays within the array.
StopTypeOK == spc \in StopPC /\ sidx \in Accels

\* Only the removal moves it.
LEMMA StopTypeStep == StopTypeOK /\ [Next]_vars => StopTypeOK'
<1> SUFFICES ASSUME StopTypeOK, [Next]_vars PROVE StopTypeOK'
  OBVIOUS
<1> USE DEF StopTypeOK
<1>1. CASE UNCHANGED stopVars
  BY <1>1 DEF stopVars
<1>2. CASE StopBegin \/ StopFlag \/ StopRequest \/ StopGone
  BY <1>2 DEF StopBegin, StopFlag, StopRequest, StopGone, StopPC
<1>3. CASE StopJoin
  BY <1>3, PoolAssumption DEF StopJoin, StopPC, Accels
<1>4. CASE UNCHANGED vars
  BY <1>1, <1>4 DEF vars, engineVars
<1>5. ASSUME NEW c \in Clients, Enter(c) PROVE UNCHANGED stopVars
  BY <1>5 DEF Enter, IoctlFault, Submit, SubmitRejected, SubmitNoMemory, SubmitAlloc,
     Query, Cancel, NotFound, Found, GetInfo, engineVars
<1>6. ASSUME NEW c \in Clients, Proceed(c) PROVE UNCHANGED stopVars
  BY <1>6 DEF Proceed, TaskSubmit, TaskEnqueue, IdVisible, SubmitCopyOut, QueryRead,
     QueryCopyOut, CancelStore, CancelDone, Return, engineVars
<1>7. ASSUME NEW a \in Accels, Worker(a) \/ WorkerExpire(a) PROVE UNCHANGED stopVars
  BY <1>7 DEF Worker, WorkerExpire, WorkerPoll, EndRun, WorkerCheck, WorkerTake,
     WorkerStart, WorkerStore, WorkerFinish, WorkerRetire
<1> QED BY <1>1, <1>2, <1>3, <1>4, <1>5, <1>6, <1>7 DEF Next, Stopper

\* Whatever the threads do, every variable keeps its type: in particular no
\* list ever holds a NULL task, the load stays within 0..100, and a task that
\* reaches an accelerator names an existing one.
THEOREM TypeCorrect == Spec => []TypeOK
<1>1. Init => StopTypeOK
  BY PoolAssumption DEF Init, StopTypeOK, StopPC, Accels
<1>2. TypeInv /\ StopTypeOK => TypeOK
  BY DEF TypeInv, TypeOK, StopTypeOK
<1> QED BY <1>1, <1>2, TypeInit, TypeStep, StopTypeStep, PTL DEF Spec

-----------------------------------------------------------------------------
(***************************************************************************)
(* The lists share one node per task and stay consistent.                  *)
(***************************************************************************)

\* Removing the first entry of a list without repetitions.
LEMMA TailOfInjective ==
  ASSUME NEW S, NEW s \in Seq(S), s # <<>>, IsInjective(s)
  PROVE  /\ IsInjective(Tail(s))
         /\ Range(Tail(s)) = Range(s) \ {Head(s)}
         /\ Head(s) \in Range(s)
<1>1. /\ Len(s) \in Nat \ {0} /\ DOMAIN s = 1..Len(s) /\ Head(s) = s[1]
      /\ Tail(s) \in Seq(S) /\ Len(Tail(s)) = Len(s) - 1
      /\ DOMAIN Tail(s) = 1..(Len(s) - 1)
      /\ \A i \in 1..(Len(s) - 1) : Tail(s)[i] = s[i + 1]
  OBVIOUS
<1>2. IsInjective(Tail(s))
  BY <1>1 DEF IsInjective
<1>3. Range(Tail(s)) \subseteq Range(s) \ {Head(s)}
  BY <1>1 DEF Range, IsInjective
<1>4. ASSUME NEW x \in Range(s) \ {Head(s)} PROVE x \in Range(Tail(s))
  <2>1. PICK i \in 1..Len(s) : x = s[i]
    BY <1>1, <1>4 DEF Range
  <2>2. i # 1 /\ i - 1 \in 1..(Len(s) - 1) /\ (i - 1) + 1 = i
    BY <1>1, <1>4, <2>1
  <2> QED BY <1>1, <2>1, <2>2 DEF Range
<1>5. Head(s) \in Range(s)
  BY <1>1 DEF Range
<1> QED BY <1>2, <1>3, <1>4, <1>5

\* Adding an entry that is not yet on a list without repetitions.
LEMMA AppendToInjective ==
  ASSUME NEW S, NEW s \in Seq(S), NEW e \in S, IsInjective(s), e \notin Range(s)
  PROVE  /\ IsInjective(Append(s, e))
         /\ Range(Append(s, e)) = Range(s) \cup {e}
<1>1. /\ Len(s) \in Nat /\ DOMAIN s = 1..Len(s)
      /\ Append(s, e) \in Seq(S) /\ DOMAIN Append(s, e) = 1..(Len(s) + 1)
      /\ \A i \in 1..Len(s) : Append(s, e)[i] = s[i]
      /\ Append(s, e)[Len(s) + 1] = e
  OBVIOUS
<1>2. \A i \in 1..(Len(s) + 1) : i \in 1..Len(s) \/ i = Len(s) + 1
  BY <1>1
<1>3. IsInjective(Append(s, e))
  BY <1>1, <1>2 DEF IsInjective, Range
<1>4. Range(Append(s, e)) \subseteq Range(s) \cup {e}
  BY <1>1, <1>2 DEF Range
<1>5. Range(s) \cup {e} \subseteq Range(Append(s, e))
  BY <1>1 DEF Range
<1> QED BY <1>3, <1>4, <1>5

\* A worker holds a task exactly while it is between its critical sections.
IdleWorkers == \A a \in Accels : wpc[a] \in {"loop", "lock", "exited"} => cur[a] = NULL

ListInv == TypeInv /\ ListIntegrity /\ IdleWorkers

\* The second range check of task_submit never fails: the first one has passed.
LEMMA NoLateReject ==
  ASSUME TypeInv, NEW c \in Clients, TaskSubmit(c)
  PROVE  ~(tasks[slot[c]].accel_type >= NumAccels)
<1>1. slot[c] \in Slots
  BY DEF TypeInv, PathTypeOK, PointersOK, TaskSubmit
<1>2. tasks[slot[c]].accel_type \in Accels
  BY <1>1 DEF TypeInv, PathTypeOK, Task
<1> QED BY <1>2, PoolAssumption DEF Accels

\* Every step that moves no slot keeps the lists as they are.
LEMMA ListFrame ==
  ASSUME ListIntegrity, UNCHANGED <<free_tasks, task_queue, active_tasks, cur>>,
         \A c \in Clients : /\ pc'[c] \in {"submit_state", "submit_queue"}
                               <=> pc[c] \in {"submit_state", "submit_queue"}
                            /\ pc[c] \in {"submit_state", "submit_queue"} => slot'[c] = slot[c]
  PROVE  ListIntegrity' /\ Retired' = Retired
<1>1. Holders' = Holders /\ \A c \in Holders : slot'[c] = slot[c]
  BY DEF Holders
<1>2. Held' = Held
  BY <1>1 DEF Held
<1>3. InFree' = InFree /\ InQueue' = InQueue /\ InActive' = InActive
  BY DEF InFree, InQueue, InActive
<1>4. Retired' = Retired
  BY <1>2, <1>3 DEF Retired
<1> QED BY <1>1, <1>2, <1>3, <1>4 DEF ListIntegrity

\* task_alloc moves the first free slot into the hands of its caller.
LEMMA ListAlloc ==
  ASSUME ListInv, NEW c \in Clients, NEW d \in Descs, SubmitAlloc(c, d)
  PROVE  ListIntegrity' /\ Retired' = Retired
<1> DEFINE h == Head(free_tasks)
<1>1. free_tasks \in Seq(Slots) /\ free_tasks # <<>> /\ IsInjective(free_tasks)
  BY DEF ListInv, TypeInv, PathTypeOK, ListIntegrity, SubmitAlloc
<1>2. h \in InFree /\ InFree' = InFree \ {h} /\ IsInjective(free_tasks')
  BY <1>1, TailOfInjective DEF InFree, SubmitAlloc
<1>3. UNCHANGED <<task_queue, active_tasks, cur>>
  BY DEF SubmitAlloc, accelVars, workerVars
<1>4. InQueue' = InQueue /\ InActive' = InActive
  BY <1>3 DEF InQueue, InActive
<1>5. pc \in [Clients -> ClientPC] /\ slot \in [Clients -> Slots \cup {NULL}]
  BY DEF ListInv, TypeInv, PathTypeOK
<1>6. /\ Holders' = Holders \cup {c} /\ c \notin Holders /\ slot'[c] = h
      /\ \A b \in Holders : slot'[b] = slot[b]
  BY <1>5 DEF Holders, SubmitAlloc
<1>7. Held' = Held \cup {h}
  BY <1>6 DEF Held
<1>8. h \notin Held
  BY <1>2 DEF ListInv, ListIntegrity
<1>9. \A b \in Holders : slot[b] # h
  BY <1>8 DEF Held
<1>10. \A b, e \in Holders' : slot'[b] = slot'[e] => b = e
  BY <1>6, <1>9 DEF ListInv, ListIntegrity
<1>11. h \notin InQueue /\ h \notin InActive
  BY <1>2 DEF ListInv, ListIntegrity
<1>12. Retired' = Retired
  BY <1>2, <1>4, <1>7 DEF Retired
<1> QED BY <1>2, <1>3, <1>4, <1>7, <1>10, <1>11, <1>12 DEF ListInv, ListIntegrity

\* task_submit moves the slot its caller holds to the end of a pending list.
LEMMA ListEnqueue ==
  ASSUME ListInv, NEW c \in Clients, TaskEnqueue(c)
  PROVE  ListIntegrity' /\ Retired' = Retired
<1> DEFINE s == slot[c]
           a == tasks[slot[c]].accel_type
<1>1. /\ pc \in [Clients -> ClientPC] /\ slot \in [Clients -> Slots \cup {NULL}]
      /\ task_queue \in [Accels -> Seq(Slots)]
      /\ s \in Slots /\ a \in Accels
  BY DEF ListInv, TypeInv, PathTypeOK, PointersOK, TaskEnqueue, Task
<1>2. UNCHANGED <<free_tasks, active_tasks, cur, slot>>
  BY DEF TaskEnqueue, poolVars, workerVars
<1>3. InFree' = InFree /\ InActive' = InActive
  BY <1>2 DEF InFree, InActive
<1>4. c \in Holders /\ Holders' = Holders \ {c}
  BY <1>1 DEF Holders, TaskEnqueue
<1>5. s \in Held /\ Held' = Held \ {s}
  <2>1. s \in Held
    BY <1>4 DEF Held
  <2>2. \A b \in Holders : b # c => slot[b] # s
    BY <1>4 DEF ListInv, ListIntegrity
  <2>3. Held' = {slot[b] : b \in Holders \ {c}}
    BY <1>2, <1>4 DEF Held
  <2> QED BY <1>4, <2>1, <2>2, <2>3 DEF Held
<1>6. s \notin InFree /\ s \notin InQueue /\ s \notin InActive
  BY <1>5 DEF ListInv, ListIntegrity
<1>7. \A b \in Accels : s \notin Range(task_queue[b])
  BY <1>6 DEF InQueue
<1>8. /\ task_queue'[a] = Append(task_queue[a], s)
      /\ \A b \in Accels : b # a => task_queue'[b] = task_queue[b]
  BY <1>1 DEF TaskEnqueue
<1>9. IsInjective(task_queue'[a]) /\ Range(task_queue'[a]) = Range(task_queue[a]) \cup {s}
  BY <1>1, <1>7, <1>8, AppendToInjective DEF ListInv, ListIntegrity
<1>10. \A b \in Accels : IsInjective(task_queue'[b])
  BY <1>8, <1>9 DEF ListInv, ListIntegrity
<1>11. \A b, e \in Accels :
         b # e => Range(task_queue'[b]) \cap Range(task_queue'[e]) = {}
  <2> HIDE DEF s, a
  <2>1. \A b, e \in Accels : b # e => Range(task_queue[b]) \cap Range(task_queue[e]) = {}
    BY DEF ListInv, ListIntegrity
  <2>2. \A b \in Accels : b # a => Range(task_queue'[b]) = Range(task_queue[b])
    BY <1>8
  <2> QED BY <1>7, <1>9, <2>1, <2>2
<1>12. InQueue' = InQueue \cup {s}
  <2> HIDE DEF s, a
  <2>1. InQueue' \subseteq InQueue \cup {s}
    BY <1>8, <1>9 DEF InQueue
  <2>2. InQueue \subseteq InQueue' /\ s \in InQueue'
    BY <1>1, <1>8, <1>9 DEF InQueue
  <2> QED BY <2>1, <2>2
<1>13. \A b, e \in Holders' : slot'[b] = slot'[e] => b = e
  BY <1>2, <1>4 DEF ListInv, ListIntegrity
<1>14. Retired' = Retired
  BY <1>3, <1>5, <1>12 DEF Retired
<1> QED BY <1>2, <1>3, <1>5, <1>6, <1>10, <1>11, <1>12, <1>13, <1>14 DEF ListInv, ListIntegrity

\* The worker moves the first pending task to its active list.
LEMMA ListTake ==
  ASSUME ListInv, NEW a \in Accels, wpc[a] = "lock", task_queue[a] # <<>>, WorkerTake(a)
  PROVE  ListIntegrity' /\ Retired' = Retired
<1> DEFINE h == Head(task_queue[a])
<1>1. /\ task_queue \in [Accels -> Seq(Slots)] /\ cur \in [Accels -> Slots \cup {NULL}]
      /\ active_tasks \in [Accels -> SUBSET Slots]
      /\ cur[a] = NULL /\ IsInjective(task_queue[a])
  BY DEF ListInv, TypeInv, PathTypeOK, IdleWorkers, ListIntegrity
<1>2. /\ h \in Slots /\ h \in Range(task_queue[a]) /\ IsInjective(Tail(task_queue[a]))
      /\ Range(Tail(task_queue[a])) = Range(task_queue[a]) \ {h}
  BY <1>1, TailOfInjective
<1>3. h # NULL
  BY <1>2, PoolAssumption DEF Slots, NULL
<1>4. TakeFrom(a, h, Tail(task_queue[a]))
  BY DEF WorkerTake, TakeFirst
<1>5. UNCHANGED <<free_tasks, pc, slot>>
  BY DEF WorkerTake, poolVars, callVars
<1>6. InFree' = InFree /\ Holders' = Holders /\ Held' = Held
  BY <1>5 DEF InFree, Holders, Held
<1>7. /\ task_queue'[a] = Tail(task_queue[a]) /\ cur'[a] = h
      /\ active_tasks'[a] = active_tasks[a] \cup {h}
      /\ \A b \in Accels : b # a => /\ task_queue'[b] = task_queue[b]
                                    /\ active_tasks'[b] = active_tasks[b]
                                    /\ cur'[b] = cur[b]
  BY <1>1, <1>4 DEF TakeFrom
<1>8. h \in InQueue /\ h \notin InFree /\ h \notin InActive /\ h \notin Held
  <2>1. h \in InQueue
    BY <1>2 DEF InQueue
  <2> QED BY <2>1 DEF ListInv, ListIntegrity
<1>9. \A b \in Accels : b # a => h \notin Range(task_queue[b])
  BY <1>2 DEF ListInv, ListIntegrity
<1>10. InQueue' = InQueue \ {h}
  BY <1>2, <1>7, <1>9 DEF InQueue
<1>11. InActive' = InActive \cup {h}
  BY <1>7 DEF InActive
<1>12. \A b \in Accels : IsInjective(task_queue'[b])
  BY <1>2, <1>7 DEF ListInv, ListIntegrity
<1>13. \A b, e \in Accels :
         b # e => Range(task_queue'[b]) \cap Range(task_queue'[e]) = {}
  BY <1>2, <1>7 DEF ListInv, ListIntegrity
<1>14. active_tasks[a] = {}
  BY <1>1 DEF ListInv, ListIntegrity
<1>15. \A b \in Accels : active_tasks'[b] = {cur'[b]} \ {NULL}
  BY <1>3, <1>7, <1>14 DEF ListInv, ListIntegrity
<1>16. \A b \in Accels : cur[b] # h
  BY <1>3, <1>8 DEF ListInv, ListIntegrity, InActive
<1>17. \A b, e \in Accels : cur'[b] = cur'[e] /\ cur'[b] # NULL => b = e
  BY <1>7, <1>16 DEF ListInv, ListIntegrity
<1>18. Retired' = Retired
  BY <1>6, <1>8, <1>10, <1>11 DEF Retired
<1> QED BY <1>5, <1>6, <1>8, <1>10, <1>11, <1>12, <1>13, <1>15, <1>17, <1>18
        DEF ListInv, ListIntegrity

\* The worker unlinks the task it has executed.
LEMMA ListRetire ==
  ASSUME ListInv, NEW a \in Accels, WorkerRetire(a)
  PROVE  ListIntegrity' /\ Retired' = Retired \cup {cur[a]}
<1>1. /\ cur \in [Accels -> Slots \cup {NULL}]
      /\ active_tasks \in [Accels -> SUBSET Slots]
  BY DEF ListInv, TypeInv, PathTypeOK
<1>2. UNCHANGED <<free_tasks, task_queue, pc, slot>>
  BY DEF WorkerRetire, poolVars, callVars
<1>3. InFree' = InFree /\ InQueue' = InQueue /\ Holders' = Holders /\ Held' = Held
  BY <1>2 DEF InFree, InQueue, Holders, Held
<1>4. /\ active_tasks'[a] = active_tasks[a] \ {cur[a]} /\ cur'[a] = NULL
      /\ \A b \in Accels : b # a => active_tasks'[b] = active_tasks[b] /\ cur'[b] = cur[b]
  BY <1>1 DEF WorkerRetire
<1>5. \A b \in Accels : active_tasks'[b] = {cur'[b]} \ {NULL}
  BY <1>4 DEF ListInv, ListIntegrity
<1>6. cur[a] \in Slots /\ cur[a] \in InActive
  <2>1. cur[a] # NULL
    BY DEF ListInv, TypeInv, PointersOK, WorkerRetire
  <2>2. cur[a] \in active_tasks[a]
    BY <2>1 DEF ListInv, ListIntegrity
  <2> QED BY <1>1, <2>1, <2>2 DEF InActive
<1>7. InActive' = InActive \ {cur[a]}
  <2>1. \A b \in Accels : b # a => cur[a] \notin active_tasks[b]
    BY <1>1, <1>6 DEF ListInv, ListIntegrity
  <2> QED BY <1>4, <2>1 DEF InActive
<1>8. \A b, e \in Accels : cur'[b] = cur'[e] /\ cur'[b] # NULL => b = e
  BY <1>4 DEF ListInv, ListIntegrity
<1>9. Retired' = Retired \cup {cur[a]}
  <2>1. cur[a] \notin InFree /\ cur[a] \notin InQueue /\ cur[a] \notin Held
    BY <1>6 DEF ListInv, ListIntegrity
  <2> QED BY <1>3, <1>6, <1>7, <2>1 DEF Retired
<1> QED BY <1>2, <1>3, <1>5, <1>7, <1>8, <1>9 DEF ListInv, ListIntegrity

\* No step of an ioctl reaches into a worker.
LEMMA ClientFrame ==
  ASSUME NEW c \in Clients, EnterStep(c) \/ Proceed(c)
  PROVE  UNCHANGED <<active_tasks, load_percent, flagVars, workerVars, stopVars>>
BY DEF EnterStep, Proceed, Dismiss, SubmitAlloc, Found, GetInfo, TaskSubmit, TaskEnqueue,
   IdVisible, SubmitCopyOut, QueryRead, QueryCopyOut, CancelStore, CancelDone, Return, callVars,
   engineVars, accelVars

\* No step of a worker reaches into an ioctl, the free pool or the removal.
LEMMA WorkerFrame ==
  ASSUME NEW a \in Accels, Worker(a) \/ WorkerExpire(a)
  PROVE  UNCHANGED <<free_tasks, next_task_id, flagVars, callVars, stopVars>>
BY DEF Worker, WorkerExpire, WorkerPoll, EndRun, WorkerCheck, WorkerTake, WorkerStart,
   WorkerStore, WorkerFinish, WorkerRetire, poolVars

\* The removal changes the flags of the workers and nothing else.
LEMMA StopFrame ==
  ASSUME StopBegin \/ Stopper
  PROVE  UNCHANGED <<poolVars, accelVars, workerVars, callVars>>
BY DEF StopBegin, Stopper, StopFlag, StopRequest, StopGone, StopJoin

\* The steps of the ioctls: only an allocation and an enqueue move a slot, and
\* neither gives one up.
LEMMA ListClient ==
  ASSUME ListInv, NEW c \in Clients, EnterStep(c) \/ Proceed(c)
  PROVE  ListInv' /\ Retired' = Retired
<1> DEFINE Holding == {"submit_state", "submit_queue"}
           Goal == ListIntegrity' /\ Retired' = Retired
<1>1. pc \in [Clients -> ClientPC] /\ slot \in [Clients -> Slots \cup {NULL}] /\ ListIntegrity
  BY DEF ListInv, TypeInv, PathTypeOK
<1>2. ASSUME NEW o, NEW s, NEW r, Finish(c, o, s, r), pc[c] \notin Holding,
             UNCHANGED <<free_tasks, task_queue, active_tasks, cur>>
      PROVE  Goal
  BY <1>1, <1>2, ListFrame DEF Finish
<1>3. ASSUME EnterStep(c) PROVE Goal
  <2> USE DEF engineVars, poolVars, accelVars, workerVars
  <2>1. ASSUME Dismiss(c) PROVE Goal
    BY <1>2, <2>1 DEF Dismiss
  <2>2. ASSUME NEW d \in Descs, SubmitAlloc(c, d) PROVE Goal
    BY <2>2, ListAlloc
  <2>3. ASSUME NEW i \in Ids, NEW o, NEW where \in {"query_read", "cancel_store"},
               NEW fs, Found(c, o, i, where, fs)
        PROVE  Goal
    BY <1>1, <2>3, ListFrame DEF Found
  <2>4. ASSUME NEW t \in 0..NumAccels, GetInfo(c, t) PROVE Goal
    BY <1>2, <2>4 DEF GetInfo
  <2> QED BY <1>3, <2>1, <2>2, <2>3, <2>4 DEF EnterStep
<1>4. ASSUME Proceed(c) PROVE Goal
  <2> USE DEF engineVars, poolVars, accelVars, workerVars
  <2>1. ASSUME TaskSubmit(c) PROVE Goal
    <3>1. ~(tasks[slot[c]].accel_type >= NumAccels)
      BY <2>1, NoLateReject DEF ListInv
    <3> QED BY <1>1, <2>1, <3>1, ListFrame DEF TaskSubmit
  <2>2. ASSUME TaskEnqueue(c) PROVE Goal
    BY <2>2, ListEnqueue
  <2>3. ASSUME SubmitCopyOut(c) PROVE Goal
    BY <1>2, <2>3 DEF SubmitCopyOut
  <2>4. ASSUME QueryRead(c) PROVE Goal
    BY <1>1, <2>4, ListFrame DEF QueryRead
  <2>5. ASSUME QueryCopyOut(c) PROVE Goal
    BY <1>2, <2>5 DEF QueryCopyOut
  <2>6. ASSUME CancelStore(c) PROVE Goal
    BY <1>1, <2>6, ListFrame DEF CancelStore
  <2>7. ASSUME CancelDone(c) PROVE Goal
    BY <1>2, <2>7 DEF CancelDone
  <2>8. ASSUME Return(c) PROVE Goal
    BY <1>1, <2>8, ListFrame DEF Return
  <2>9. ASSUME IdVisible(c) PROVE Goal
    BY <1>1, <2>9, ListFrame DEF IdVisible, callVars
  <2> QED BY <1>4, <2>1, <2>2, <2>3, <2>4, <2>5, <2>6, <2>7, <2>8, <2>9 DEF Proceed
<1>5. TypeInv'
  BY TypeEnter, TypeProceed DEF ListInv
<1>6. IdleWorkers'
  BY ClientFrame DEF ListInv, IdleWorkers, workerVars
<1> QED BY <1>3, <1>4, <1>5, <1>6 DEF ListInv

\* The steps of the workers: only their two critical sections move a slot, and
\* the second gives it up.
LEMMA ListWorker ==
  ASSUME ListInv, NEW a \in Accels, Worker(a) \/ WorkerExpire(a)
  PROVE  /\ ListInv'
         /\ ~WorkerRetire(a) => Retired' = Retired
<1> DEFINE Goal == ListIntegrity' /\ (~WorkerRetire(a) => Retired' = Retired)
<1>1. ASSUME UNCHANGED <<free_tasks, task_queue, active_tasks, cur, pc, slot>>
      PROVE  Goal
  BY <1>1, ListFrame DEF ListInv
<1>2. ASSUME WorkerTake(a) PROVE Goal
  <2>1. CASE task_queue[a] = <<>>
    BY <1>1, <1>2, <2>1 DEF WorkerTake, poolVars, callVars
  <2>2. CASE task_queue[a] # <<>>
    BY <1>2, <2>2, ListTake DEF WorkerTake
  <2> QED BY <2>1, <2>2
<1>3. ASSUME WorkerRetire(a) PROVE Goal
  BY <1>3, ListRetire
<1>4. ASSUME WorkerCheck(a) \/ WorkerStart(a) \/ EndRun(a) \/ WorkerStore(a) \/ WorkerFinish(a)
      PROVE  Goal
  BY <1>1, <1>4 DEF WorkerCheck, WorkerStart, EndRun, WorkerStore, WorkerFinish,
     poolVars, accelVars, callVars
<1>5. Goal
  BY <1>2, <1>3, <1>4 DEF Worker, WorkerExpire, WorkerPoll
<1>6. IdleWorkers'
  <2>1. /\ wpc \in [Accels -> WorkerPC] /\ cur \in [Accels -> Slots \cup {NULL}]
        /\ IdleWorkers
    BY DEF ListInv, TypeInv, PathTypeOK
  <2> QED BY <2>1 DEF IdleWorkers, Worker, WorkerExpire, WorkerPoll, EndRun, WorkerCheck,
     WorkerTake, TakeFirst, TakeFrom, WorkerStart, WorkerStore, WorkerFinish, WorkerRetire
<1>7. TypeInv'
  BY TypeWorker DEF ListInv
<1> QED BY <1>5, <1>6, <1>7 DEF ListInv

\* A step that leaves the slots and the lists alone.
LEMMA ListStutter ==
  ASSUME ListInv, TypeInv', UNCHANGED <<free_tasks, task_queue, active_tasks, cur, wpc, pc, slot>>
  PROVE  ListInv' /\ Retired' = Retired
<1>1. IdleWorkers'
  BY DEF ListInv, IdleWorkers
<1> QED BY <1>1, ListFrame DEF ListInv

\* ListInv is inductive, and a task is retired by its worker's second critical
\* section alone.
LEMMA ListStep ==
  ListInv /\ [Next]_vars =>
    /\ ListInv'
    /\ (~\E a \in Accels : WorkerRetire(a)) => Retired' = Retired
<1> SUFFICES ASSUME ListInv, [Next]_vars
             PROVE  /\ ListInv'
                    /\ (~\E a \in Accels : WorkerRetire(a)) => Retired' = Retired
  OBVIOUS
<1>1. TypeInv'
  BY TypeStep DEF ListInv
<1>2. CASE UNCHANGED vars
  BY <1>1, <1>2, ListStutter
     DEF vars, engineVars, poolVars, accelVars, workerVars, callVars
<1>3. CASE StopBegin \/ Stopper
  BY <1>1, <1>3, StopFrame, ListStutter DEF poolVars, accelVars, workerVars, callVars
<1>4. ASSUME NEW c \in Clients, Enter(c) \/ Proceed(c)
      PROVE  ListInv' /\ Retired' = Retired
  BY <1>4, EnterCases, ListClient
<1>5. ASSUME NEW a \in Accels, Worker(a) \/ WorkerExpire(a)
      PROVE  ListInv' /\ (~WorkerRetire(a) => Retired' = Retired)
  BY <1>5, ListWorker
<1> QED BY <1>2, <1>3, <1>4, <1>5 DEF Next

\* The device has just been set up: no worker has a task, no thread is inside an
\* ioctl on it.
Fresh ==
  /\ PoolInit /\ AccelInit
  /\ \A a \in Accels : wpc[a] \in {"loop", "exited"} /\ cur[a] = NULL
  /\ \A c \in Clients : pc[c] \in {"idle", "ret", "lost"}

\* Then every slot is on the free list, once.
LEMMA FreshLists == TypeInv /\ Fresh => ListInv
<1> SUFFICES ASSUME TypeInv, Fresh PROVE ListInv
  OBVIOUS
<1> USE DEF Fresh, PoolInit, AccelInit
<1>1. IsInjective(free_tasks)
  BY DEF IsInjective
<1>2. \A a \in Accels : Range(task_queue[a]) = {} /\ IsInjective(task_queue[a])
  BY DEF Range, IsInjective
<1>3. InQueue = {} /\ InActive = {}
  BY <1>2 DEF InQueue, InActive
<1>4. Holders = {} /\ Held = {}
  BY DEF Holders, Held
<1>5. ListIntegrity
  BY <1>1, <1>2, <1>3, <1>4 DEF ListIntegrity
<1>6. IdleWorkers
  BY DEF IdleWorkers
<1> QED BY <1>5, <1>6 DEF ListInv

\* So it is when accel_start_workers has returned.
LEMMA ListInit == Init => ListInv /\ Fresh
<1>1. Init => Fresh
  BY DEF Init, WorkerInit, Fresh
<1> QED BY <1>1, TypeInit, FreshLists

\* No interleaving of submissions and workers corrupts the lists that the free
\* pool and the accelerators share, for any number of slots and threads.
THEOREM ListsIntact == Spec => []ListIntegrity
<1>1. ListInv => ListIntegrity
  BY DEF ListInv
<1> QED BY <1>1, ListInit, ListStep, PTL DEF Spec

=============================================================================
