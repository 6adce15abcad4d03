------------------------ MODULE TaskEngineLookupProofs ------------------------
(***************************************************************************)
(* The lock-free lookups of QUERY and CANCEL, for every number of slots,   *)
(* accelerators and user threads.                                          *)
(***************************************************************************)
EXTENDS TaskEngineWorkerProofs, FiniteSetTheorems

\* Slots are handed out once each, in array order, and ids with them: the
\* counter never wraps, and slot s is free exactly while s is above it.
IdsInOrder ==
  /\ Len(free_tasks) = MaxTasks - next_task_id
  /\ \A i \in 1..Len(free_tasks) : free_tasks[i] = next_task_id + i
  /\ \A s \in Slots : s <= next_task_id => tasks[s].id = s
  /\ \A s \in Slots : s > next_task_id => tasks[s].state = "FREE"

\* A task that a thread has found or queued, or whose id user space has, has
\* left FREE; once it is queued, every thread sees its id.
InUse ==
  /\ \A c \in Clients :
       pc[c] \in {"submit_queue", "submit_copy", "query_read", "cancel_store"}
         => tasks[slot[c]].state # "FREE"
  /\ \A c \in Clients : pc[c] = "submit_copy" => tasks[slot[c]].numbered
  /\ \A i \in issued : i \in Slots /\ tasks[i].state # "FREE" /\ tasks[i].numbered

LookupInv == ListInv /\ IdsInOrder /\ InUse

\* The free slots are the ones above the counter.
LEMMA FreeAboveCounter ==
  ASSUME ListInv, IdsInOrder
  PROVE  /\ next_task_id \in Nat /\ next_task_id <= MaxTasks
         /\ \A s \in Slots : s \in InFree <=> s > next_task_id
<1>1. /\ free_tasks \in Seq(Slots) /\ next_task_id \in Nat
      /\ Len(free_tasks) \in Nat /\ DOMAIN free_tasks = 1..Len(free_tasks)
  BY PoolAssumption DEF ListInv, TypeInv, PathTypeOK, Ids
<1>2. next_task_id <= MaxTasks
  BY <1>1, PoolAssumption DEF IdsInOrder
<1>3. ASSUME NEW s \in Slots, s \in InFree PROVE s > next_task_id
  BY <1>1, <1>3 DEF InFree, Range, IdsInOrder
<1>4. ASSUME NEW s \in Slots, s > next_task_id PROVE s \in InFree
  <2>1. s - next_task_id \in 1..Len(free_tasks)
    BY <1>1, <1>4, PoolAssumption DEF IdsInOrder, Slots
  <2>2. free_tasks[s - next_task_id] = s
    BY <1>1, <2>1, PoolAssumption DEF IdsInOrder, Slots
  <2> QED BY <1>1, <2>1, <2>2 DEF InFree, Range
<1> QED BY <1>1, <1>2, <1>3, <1>4

\* A worker writes neither an id nor FREE, and only to a slot that is not free.
LEMMA WorkerKeepsIds ==
  ASSUME ListInv, NEW a \in Accels, Worker(a) \/ WorkerExpire(a), NEW s \in Slots
  PROVE  /\ tasks'[s].id = tasks[s].id
         /\ tasks'[s].numbered = tasks[s].numbered
         /\ tasks'[s].state \in {tasks[s].state, "RUNNING", "COMPLETE"}
         /\ s \in InFree => tasks'[s] = tasks[s]
<1>1. tasks \in [Slots -> Task] /\ tasks[s] \in Task
  BY DEF ListInv, TypeInv, PathTypeOK
<1>2. CASE s # cur[a]
  BY <1>2, WorkerWrites
<1>3. CASE s = cur[a]
  <2>1. s \notin InFree
    <3>1. s # NULL
      BY PoolAssumption DEF Slots, NULL
    <3> QED BY <1>3, <3>1, OwnTask DEF ListInv, IdleWorkers
  <2>2. tasks'[s] \in {tasks[s], [tasks[s] EXCEPT !.state = "RUNNING"],
                       [tasks[s] EXCEPT !.state = "COMPLETE"],
                       [tasks[s] EXCEPT !.complete = TRUE],
                       [tasks[s] EXCEPT !.error_code = "0"],
                       [tasks[s] EXCEPT !.done = TRUE]}
    BY <1>1, <1>3 DEF Worker, WorkerExpire, WorkerPoll, EndRun, WorkerCheck, WorkerTake,
       WorkerStart, WorkerStore, WorkerFinish, WorkerRetire, poolVars
  <2> QED BY <1>1, <2>1, <2>2 DEF Task
<1> QED BY <1>2, <1>3

\* The free list and the counter start out in step.
LEMMA LookupInit == Init => LookupInv
<1> SUFFICES ASSUME Init PROVE LookupInv
  OBVIOUS
<1>1. free_tasks \in Seq(Slots) /\ Len(free_tasks) = MaxTasks
  BY TypeInit, PoolAssumption DEF Init, PoolInit, TypeInv, PathTypeOK
<1>2. IdsInOrder
  BY <1>1, PoolAssumption DEF Init, PoolInit, IdsInOrder, Slots, ZeroTask
<1>3. InUse
  BY DEF Init, InUse
<1> QED BY <1>2, <1>3, ListInit DEF LookupInv

\* task_alloc takes the slot that the counter names next.
LEMMA IdsAlloc ==
  ASSUME LookupInv, NEW c \in Clients, NEW d \in Descs, SubmitAlloc(c, d)
  PROVE  /\ IdsInOrder'
         /\ next_task_id' = next_task_id + 1
         /\ slot'[c] = next_task_id + 1
<1>1. /\ free_tasks \in Seq(Slots) /\ free_tasks # <<>> /\ tasks \in [Slots -> Task]
      /\ slot \in [Clients -> Slots \cup {NULL}]
  BY DEF LookupInv, ListInv, TypeInv, PathTypeOK, SubmitAlloc
<1>2. /\ next_task_id \in Nat /\ Len(free_tasks) \in Nat \ {0}
      /\ Head(free_tasks) = free_tasks[1]
      /\ Len(Tail(free_tasks)) = Len(free_tasks) - 1
      /\ \A i \in 1..(Len(free_tasks) - 1) : Tail(free_tasks)[i] = free_tasks[i + 1]
  BY <1>1, FreeAboveCounter DEF LookupInv
<1>3. Head(free_tasks) = next_task_id + 1 /\ Head(free_tasks) \in Slots
  BY <1>1, <1>2 DEF LookupInv, IdsInOrder
<1>4. next_task_id + 1 < IdModulus
  BY <1>2, <1>3, PoolAssumption DEF Slots
<1>5. NextId = next_task_id + 1
  BY <1>2, <1>4, PoolAssumption DEF NextId
<1>6. next_task_id' = next_task_id + 1 /\ free_tasks' = Tail(free_tasks)
  BY <1>5 DEF SubmitAlloc
<1>7. /\ Len(free_tasks') = MaxTasks - next_task_id'
      /\ \A i \in 1..Len(free_tasks') : free_tasks'[i] = next_task_id' + i
  BY <1>2, <1>6, PoolAssumption DEF LookupInv, IdsInOrder
<1>8. /\ tasks'[next_task_id + 1].id = next_task_id + 1
      /\ \A s \in Slots : s # next_task_id + 1 => tasks'[s] = tasks[s]
  BY <1>1, <1>3, <1>5 DEF SubmitAlloc, ZeroTask
<1>9. \A s \in Slots : s <= next_task_id' => tasks'[s].id = s
  BY <1>2, <1>6, <1>8 DEF LookupInv, IdsInOrder, Slots
<1>10. \A s \in Slots : s > next_task_id' => tasks'[s].state = "FREE"
  BY <1>2, <1>6, <1>8 DEF LookupInv, IdsInOrder, Slots
<1>11. slot'[c] = next_task_id + 1
  BY <1>1, <1>3 DEF SubmitAlloc
<1> QED BY <1>6, <1>7, <1>9, <1>10, <1>11 DEF IdsInOrder

\* Everything else keeps the counter, the free list, the ids and what is FREE.
LEMMA IdsFrame ==
  ASSUME LookupInv, UNCHANGED <<free_tasks, next_task_id>>,
         \A s \in Slots : s \notin InFree => tasks'[s].id = tasks[s].id,
         \A s \in Slots : s \in InFree => tasks'[s].state = tasks[s].state
  PROVE  IdsInOrder'
<1>1. \A s \in Slots : s \in InFree <=> s > next_task_id
  BY FreeAboveCounter DEF LookupInv
<1>2. next_task_id \in Nat
  BY FreeAboveCounter DEF LookupInv
<1> QED BY <1>1, <1>2 DEF LookupInv, IdsInOrder, Slots

\* No slot a thread works on, or has been handed out, is free.
LEMMA UsedNotFree ==
  ASSUME LookupInv
  PROVE  /\ \A s \in Slots : tasks[s].state # "FREE" => s \notin InFree
         /\ \A c \in Clients : pc[c] \notin {"idle", "ret", "lost"} =>
              slot[c] \in Slots /\ slot[c] \notin InFree
<1>1. \A s \in Slots : tasks[s].state # "FREE" => s \notin InFree
  BY FreeAboveCounter DEF LookupInv, IdsInOrder
<1>2. ASSUME NEW c \in Clients, pc[c] \notin {"idle", "ret", "lost"}
      PROVE  slot[c] \in Slots /\ slot[c] \notin InFree
  <2>1. slot[c] \in Slots /\ pc[c] \in ClientPC
    BY <1>2 DEF LookupInv, ListInv, TypeInv, PathTypeOK, PointersOK
  <2>2. CASE pc[c] = "submit_state"
    <3>1. slot[c] \in Held
      BY <2>2 DEF Held, Holders
    <3> QED BY <2>1, <3>1 DEF LookupInv, ListInv, ListIntegrity
  <2>3. CASE pc[c] # "submit_state"
    <3>1. tasks[slot[c]].state # "FREE"
      BY <1>2, <2>1, <2>3 DEF LookupInv, InUse, ClientPC
    <3> QED BY <1>1, <2>1, <3>1
  <2> QED BY <2>1, <2>2, <2>3
<1> QED BY <1>1, <1>2

\* The steps of the ioctls.
LEMMA LookupClient ==
  ASSUME LookupInv, NEW c \in Clients, EnterStep(c) \/ Proceed(c)
  PROVE  LookupInv'
<1>1. ListInv /\ ListInv'
  BY ListClient DEF LookupInv
<1>2. /\ tasks \in [Slots -> Task] /\ pc \in [Clients -> ClientPC]
      /\ slot \in [Clients -> Slots \cup {NULL}]
  BY <1>1 DEF ListInv, TypeInv, PathTypeOK
<1>3. \A s \in Slots : tasks[s].state # "FREE" => tasks'[s].state # "FREE"
  BY <1>1, UsedNotFree, ClientWrites
<1>4. \A b \in Clients : pc[b] \notin {"idle", "ret", "lost"} =>
        slot[b] \in Slots /\ slot[b] \notin InFree
  BY UsedNotFree
<1>5. IdsInOrder'
  <2>1. ASSUME NEW d \in Descs, SubmitAlloc(c, d) PROVE IdsInOrder'
    BY <2>1, IdsAlloc
  <2>2. ASSUME UNCHANGED <<free_tasks, next_task_id, tasks>> PROVE IdsInOrder'
    BY <2>2 DEF LookupInv, IdsInOrder
  <2>3. ASSUME TaskSubmit(c) \/ IdVisible(c) \/ CancelStore(c) \/ CancelDone(c)
        PROVE  IdsInOrder'
    <3>1. slot[c] \in Slots /\ slot[c] \notin InFree
      BY <1>4, <2>3 DEF TaskSubmit, IdVisible, CancelStore, CancelDone
    <3>2. UNCHANGED <<free_tasks, next_task_id>>
      BY <1>1, <2>3, NoLateReject DEF TaskSubmit, IdVisible, CancelStore, CancelDone, ListInv
    <3>3. \A s \in Slots : s # slot[c] => tasks'[s] = tasks[s]
      BY <1>1, <1>2, <2>3, NoLateReject DEF TaskSubmit, IdVisible, CancelStore, CancelDone,
         ListInv
    <3>4. \A s \in Slots : s \notin InFree => tasks'[s].id = tasks[s].id
      BY <1>1, ClientWrites
    <3> QED BY <3>1, <3>2, <3>3, <3>4, IdsFrame
  <2>4. CASE EnterStep(c)
    BY <2>1, <2>2, <2>4 DEF EnterStep, Dismiss, Found, GetInfo, engineVars, poolVars
  <2>5. CASE Proceed(c)
    BY <2>2, <2>3, <2>5 DEF Proceed, TaskEnqueue, SubmitCopyOut, QueryRead,
       QueryCopyOut, Return, engineVars, poolVars
  <2> QED BY <2>4, <2>5
<1>6. ASSUME NEW b \in Clients,
             pc'[b] \in {"submit_queue", "submit_copy", "query_read", "cancel_store"}
      PROVE  tasks'[slot'[b]].state # "FREE"
  <2> DEFINE Working == {"submit_queue", "submit_copy", "query_read", "cancel_store"}
  <2>1. ASSUME pc[b] \in Working, slot'[b] = slot[b] PROVE tasks'[slot'[b]].state # "FREE"
    BY <1>3, <1>4, <2>1 DEF LookupInv, InUse
  <2>2. CASE b # c
    <3>1. pc'[b] = pc[b] /\ slot'[b] = slot[b]
      BY <1>2, <2>2 DEF EnterStep, Dismiss, SubmitAlloc, Found, GetInfo, Proceed, Finish,
         TaskSubmit, TaskEnqueue, IdVisible, SubmitCopyOut, QueryRead, QueryCopyOut, CancelStore,
         CancelDone, Return, callVars
    <3> QED BY <1>6, <2>1, <3>1
  <2>3. CASE b = c /\ EnterStep(c)
    <3>1. PICK s \in Slots : tasks[s].state # "FREE" /\ slot'[c] = s
      BY <1>2, <1>6, <2>3 DEF EnterStep, Dismiss, SubmitAlloc, Found, GetInfo, Finish,
         FirstMatch, Matches
    <3> QED BY <1>3, <2>3, <3>1
  <2>4. CASE b = c /\ TaskSubmit(c)
    <3>1. slot[c] \in Slots
      BY <1>4, <2>4 DEF TaskSubmit
    <3>2. tasks' = [tasks EXCEPT ![slot[c]].state = "PENDING"] /\ slot' = slot
      BY <1>1, <2>4, NoLateReject DEF TaskSubmit, ListInv
    <3>3. tasks[slot[c]] \in Task
      BY <1>2, <3>1
    <3> QED BY <1>2, <2>4, <3>1, <3>2, <3>3 DEF Task
  <2>5. CASE b = c /\ Proceed(c) /\ ~TaskSubmit(c)
    <3>1. pc[c] \in Working /\ slot'[c] = slot[c]
      BY <1>2, <1>6, <2>5 DEF Proceed, Finish, TaskEnqueue, IdVisible, SubmitCopyOut,
         QueryRead, QueryCopyOut, CancelStore, CancelDone, Return, callVars
    <3> QED BY <2>1, <2>5, <3>1
  <2> QED BY <2>2, <2>3, <2>4, <2>5
<1>7. \A s \in Slots : s \notin InFree /\ tasks[s].numbered => tasks'[s].numbered
  BY <1>1, ClientWrites
<1>8. ASSUME NEW b \in Clients, pc'[b] = "submit_copy" PROVE tasks'[slot'[b]].numbered
  <2>1. CASE pc[b] = "submit_copy" /\ slot'[b] = slot[b]
    BY <1>4, <1>7, <2>1 DEF LookupInv, InUse
  <2>2. CASE b = c /\ TaskEnqueue(c)
    BY <1>4, <1>7, <2>2 DEF TaskEnqueue
  <2>3. (pc[b] = "submit_copy" /\ slot'[b] = slot[b]) \/ (b = c /\ TaskEnqueue(c))
    BY <1>2, <1>8 DEF EnterStep, Dismiss, SubmitAlloc, Found, GetInfo, Proceed, Finish,
       TaskSubmit, IdVisible, SubmitCopyOut, QueryRead, QueryCopyOut, CancelStore,
       CancelDone, Return, TaskEnqueue, callVars
  <2> QED BY <2>1, <2>2, <2>3
<1>9. ASSUME NEW i \in issued'
      PROVE  i \in Slots /\ tasks'[i].state # "FREE" /\ tasks'[i].numbered
  <2>1. CASE i \in issued
    BY <1>3, <1>7, <2>1, UsedNotFree DEF LookupInv, InUse
  <2>2. CASE i \notin issued
    <3>1. SubmitCopyOut(c) /\ i = tasks[slot[c]].id
      BY <1>9, <2>2 DEF EnterStep, Dismiss, SubmitAlloc, Found, GetInfo, Proceed,
         TaskSubmit, TaskEnqueue, IdVisible, SubmitCopyOut, QueryRead, QueryCopyOut, CancelStore,
         CancelDone, Return, callVars
    <3>2. /\ slot[c] \in Slots /\ slot[c] \notin InFree
          /\ tasks[slot[c]].state # "FREE" /\ tasks[slot[c]].numbered
      BY <1>4, <3>1 DEF SubmitCopyOut, LookupInv, InUse
    <3>3. slot[c] <= next_task_id
      BY <1>1, <3>2, FreeAboveCounter DEF LookupInv, Slots
    <3>4. i = slot[c]
      BY <3>1, <3>2, <3>3 DEF LookupInv, IdsInOrder
    <3> QED BY <1>3, <1>7, <3>2, <3>4
  <2> QED BY <2>1, <2>2
<1> QED BY <1>1, <1>5, <1>6, <1>8, <1>9 DEF LookupInv, InUse

\* The steps of the workers.
LEMMA LookupWorker ==
  ASSUME LookupInv, NEW a \in Accels, Worker(a) \/ WorkerExpire(a)
  PROVE  LookupInv'
<1>1. ListInv /\ ListInv'
  BY ListWorker DEF LookupInv
<1>2. UNCHANGED <<free_tasks, next_task_id, pc, slot, issued>>
  BY WorkerFrame DEF callVars
<1>3. \A s \in Slots : /\ tasks'[s].id = tasks[s].id
                       /\ tasks'[s].numbered = tasks[s].numbered
                       /\ s \in InFree => tasks'[s] = tasks[s]
                       /\ tasks[s].state # "FREE" => tasks'[s].state # "FREE"
  BY <1>1, WorkerKeepsIds
<1>4. IdsInOrder'
  BY <1>2, <1>3, IdsFrame
<1>5. InUse'
  BY <1>2, <1>3, UsedNotFree DEF LookupInv, InUse
<1> QED BY <1>1, <1>4, <1>5 DEF LookupInv

\* LookupInv is inductive.
LEMMA LookupStep == LookupInv /\ [Next]_vars => LookupInv'
<1> SUFFICES ASSUME LookupInv, [Next]_vars PROVE LookupInv'
  OBVIOUS
<1>1. ListInv'
  BY ListStep DEF LookupInv
<1>2. CASE UNCHANGED <<tasks, free_tasks, next_task_id, pc, slot, issued>>
  BY <1>1, <1>2 DEF LookupInv, IdsInOrder, InUse
<1>3. CASE UNCHANGED vars
  BY <1>2, <1>3 DEF vars, engineVars, poolVars, callVars
<1>4. CASE StopBegin \/ Stopper
  BY <1>2, <1>4, StopFrame DEF poolVars, callVars
<1> QED BY <1>3, <1>4, EnterCases, LookupClient, LookupWorker DEF Next

\* The scans of task_query and task_cancel, which take no lock, find exactly one
\* slot for an id that SUBMIT has handed out, at any moment and for ever.
THEOREM IssuedIdsFound == Spec => []IssuedFindable
<1>1. LookupInv => IssuedFindable
  <2> SUFFICES ASSUME LookupInv, NEW i \in issued PROVE Cardinality(Matches(i)) = 1
    BY DEF IssuedFindable
  <2>1. i \in Slots /\ tasks[i].state # "FREE" /\ tasks[i].numbered
    BY DEF LookupInv, InUse
  <2>2. \A s \in Slots : tasks[s].state # "FREE" => tasks[s].id = s
    BY FreeAboveCounter DEF LookupInv, IdsInOrder, Slots
  <2>3. i # 0
    BY <2>1, PoolAssumption DEF Slots
  <2>4. Matches(i) = {i}
    BY <2>1, <2>2, <2>3 DEF Matches, VisibleId
  <2> QED BY <2>4, FS_Singleton
<1> QED BY <1>1, LookupInit, LookupStep, PTL DEF Spec

-----------------------------------------------------------------------------
(***************************************************************************)
(* What a query reports.                                                   *)
(***************************************************************************)

\* The state a query has read is that of a task, and a query that succeeded has
\* read it.
QueryRuns ==
  /\ \A c \in Clients : pc[c] = "query_read" /\ "state" \notin todo[c]
                          => reply[c].status # TaskState["FREE"]
  /\ QueryReportsTask

\* Only one load of a query brings in the state.
LEMMA QueryRunsStep ==
  ASSUME LookupInv, QueryRuns, [Next]_vars PROVE QueryRuns'
<1>1. /\ pc \in [Clients -> ClientPC] /\ op \in [Clients -> Ops] /\ todo \in [Clients -> SUBSET Fields]
      /\ reply \in [Clients -> Reply] /\ ret \in [Clients -> Errno] /\ tasks \in [Slots -> Task]
  BY DEF LookupInv, ListInv, TypeInv, PathTypeOK
<1>2. CASE UNCHANGED <<pc, op, todo, reply, ret>>
  BY <1>2 DEF QueryRuns, QueryReportsTask
<1>3. CASE UNCHANGED vars
  BY <1>2, <1>3 DEF vars, callVars
<1>4. CASE StopBegin \/ Stopper
  BY <1>2, <1>4, StopFrame DEF callVars
<1>5. ASSUME NEW a \in Accels, Worker(a) \/ WorkerExpire(a) PROVE QueryRuns'
  BY <1>2, <1>5, WorkerFrame DEF callVars
<1>6. ASSUME NEW c \in Clients, NEW o, NEW s, NEW r, Finish(c, o, s, r),
             UNCHANGED todo,
             \A b \in Clients : b # c => reply'[b] = reply[b],
             o = "QUERY" /\ r = "0" => reply'[c].status # TaskState["FREE"]
      PROVE  QueryRuns'
  BY <1>1, <1>6 DEF Finish, QueryRuns, QueryReportsTask
<1>7. ASSUME NEW c \in Clients, Enter(c) PROVE QueryRuns'
  <2>1. CASE IoctlFault(c)
    BY <1>6, <2>1 DEF IoctlFault
  <2>2. ASSUME NEW d \in Descs, Submit(c, d) PROVE QueryRuns'
    <3>1. CASE SubmitRejected(c, d)
      BY <1>6, <3>1 DEF SubmitRejected
    <3>2. CASE SubmitNoMemory(c, d)
      BY <1>6, <3>2 DEF SubmitNoMemory
    <3>3. CASE SubmitAlloc(c, d)
      BY <1>1, <3>3 DEF SubmitAlloc, QueryRuns, QueryReportsTask
    <3> QED BY <2>2, <3>1, <3>2, <3>3 DEF Submit
  <2>3. ASSUME NEW i \in Ids, NEW o, NotFound(c, o, i) PROVE QueryRuns'
    BY <1>6, <2>3 DEF NotFound
  <2>4. ASSUME NEW i \in Ids, Found(c, "QUERY", i, "query_read", QueryLoads) PROVE QueryRuns'
    BY <1>1, <2>4 DEF Found, QueryRuns, QueryReportsTask, QueryLoads
  <2>5. ASSUME NEW i \in Ids, Found(c, "CANCEL", i, "cancel_store", {"state", "error_code"})
        PROVE  QueryRuns'
    BY <1>1, <2>5 DEF Found, QueryRuns, QueryReportsTask
  <2>6. ASSUME NEW t \in 0..NumAccels, GetInfo(c, t) PROVE QueryRuns'
    <3>1. \A b \in Clients : b # c => reply'[b] = reply[b]
      BY <1>1, <2>6 DEF GetInfo
    <3> QED BY <1>6, <2>6, <3>1 DEF GetInfo
  <2> QED BY <1>7, <2>1, <2>2, <2>3, <2>4, <2>5, <2>6 DEF Enter, Query, Cancel
<1>8. ASSUME NEW c \in Clients, Proceed(c) PROVE QueryRuns'
  <2>1. CASE TaskSubmit(c)
    BY <1>1, <2>1, NoLateReject DEF TaskSubmit, QueryRuns, QueryReportsTask, LookupInv, ListInv
  <2>2. CASE TaskEnqueue(c)
    BY <1>1, <2>2 DEF TaskEnqueue, QueryRuns, QueryReportsTask
  <2>3. CASE SubmitCopyOut(c)
    BY <1>6, <2>3 DEF SubmitCopyOut
  <2>4. CASE QueryRead(c)
    <3>1. tasks[slot[c]].state \in States \ {"FREE"} /\ reply[c] \in Reply
      <4>1. slot[c] \in Slots /\ tasks[slot[c]].state # "FREE"
        BY <2>4, UsedNotFree DEF QueryRead, LookupInv, InUse
      <4> QED BY <1>1, <4>1 DEF Task
    <3>2. TaskState[tasks[slot[c]].state] # TaskState["FREE"]
      BY <3>1 DEF States, TaskState
    <3>3. pc'[c] = "query_read" /\ "state" \notin todo'[c] => reply'[c].status # TaskState["FREE"]
      BY <1>1, <2>4, <3>1, <3>2 DEF QueryRead, QueryRuns, Reply
    <3>4. /\ UNCHANGED <<pc, op, ret>>
          /\ \A b \in Clients : b # c => reply'[b] = reply[b] /\ todo'[b] = todo[b]
      BY <1>1, <2>4 DEF QueryRead
    <3> QED BY <2>4, <3>3, <3>4 DEF QueryRead, QueryRuns, QueryReportsTask
  <2>5. CASE QueryCopyOut(c)
    BY <1>6, <2>5 DEF QueryCopyOut, QueryRuns
  <2>6. CASE CancelStore(c)
    BY <1>1, <2>6 DEF CancelStore, QueryRuns, QueryReportsTask
  <2>7. CASE CancelDone(c)
    BY <1>6, <2>7 DEF CancelDone
  <2>8. CASE Return(c)
    BY <1>1, <2>8 DEF Return, QueryRuns, QueryReportsTask
  <2>9. CASE IdVisible(c)
    BY <1>2, <2>9 DEF IdVisible, callVars
  <2> QED BY <1>8, <2>1, <2>2, <2>3, <2>4, <2>5, <2>6, <2>7, <2>8, <2>9 DEF Proceed
<1> QED BY <1>3, <1>4, <1>5, <1>7, <1>8 DEF Next

\* A QUERY that succeeds reports a task that was submitted, never a slot that
\* another thread is still filling.
THEOREM QueriesReportTasks == Spec => []QueryReportsTask
<1>1. Init => QueryRuns
  BY DEF Init, QueryRuns, QueryReportsTask
<1>2. QueryRuns => QueryReportsTask
  BY DEF QueryRuns
<1> QED BY <1>1, <1>2, LookupInit, LookupStep, QueryRunsStep, PTL DEF Spec

=============================================================================
