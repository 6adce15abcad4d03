------------------------- MODULE TaskEngineFifoProofs -------------------------
(***************************************************************************)
(* TaskEngine implements AccelFifo, for every number of slots, accelerators *)
(* and user threads: initial states map to initial states and every step   *)
(* to a step of AccelFifo or to none.                                      *)
(***************************************************************************)
EXTENDS TaskEngineWorkerProofs

\* Before the first submission nothing waits, runs or is finished.
LEMMA FifoInitial == Init => Fifo!FifoInit
<1> SUFFICES ASSUME Init PROVE Fifo!FifoInit
  OBVIOUS
<1>1. Retired = {}
  BY RetiredInit
<1> QED BY <1>1 DEF Init, AccelInit, WorkerInit, Fifo!FifoInit

\* list_add_tail accepts a task that no accelerator has seen before.
LEMMA EnqueueAccepts ==
  ASSUME ListInv, NEW c \in Clients, TaskEnqueue(c) PROVE Fifo!FifoNext
<1> DEFINE s == slot[c]
           a == tasks[slot[c]].accel_type
<1>1. /\ task_queue \in [Accels -> Seq(Slots)] /\ s \in Slots /\ a \in Accels
  BY DEF ListInv, TypeInv, PathTypeOK, PointersOK, TaskEnqueue, Task
<1>2. s \in Held
  BY DEF Held, Holders, TaskEnqueue
<1>3. s \notin InQueue /\ s \notin InActive /\ s \notin Retired
  BY <1>2 DEF ListInv, ListIntegrity, Retired
<1>4. \A b \in Accels : cur[b] # s
  <2>1. s # NULL
    BY <1>1, PoolAssumption DEF Slots, NULL
  <2> QED BY <1>3, <2>1 DEF ListInv, ListIntegrity, InActive
<1>5. \A b \in Accels : \A i \in 1..Len(task_queue[b]) : task_queue[b][i] # s
  BY <1>1, <1>3 DEF InQueue, Range
<1>6. ~Fifo!Accepted(s)
  BY <1>3, <1>4, <1>5 DEF Fifo!Accepted
<1>7. /\ task_queue' = [task_queue EXCEPT ![a] = Append(@, s)] /\ cur' = cur
      /\ Retired' = Retired
  BY ListEnqueue DEF TaskEnqueue, workerVars
<1>8. Fifo!Accept(a, s)
  BY <1>6, <1>7 DEF Fifo!Accept
<1> QED BY <1>1, <1>8 DEF Fifo!FifoNext

\* The first critical section of a worker begins the oldest task; an empty queue
\* is no step.
LEMMA TakeBegins ==
  ASSUME ListInv, NEW a \in Accels, WorkerTake(a)
  PROVE  Fifo!FifoNext \/ UNCHANGED <<task_queue, cur, Retired>>
<1>1. CASE task_queue[a] = <<>>
  BY <1>1, ListWorker DEF WorkerTake, Worker, WorkerRetire
<1>2. CASE task_queue[a] # <<>>
  <2>1. cur[a] = NULL
    BY DEF ListInv, IdleWorkers, WorkerTake
  <2>2. /\ task_queue' = [task_queue EXCEPT ![a] = Tail(@)]
        /\ cur' = [cur EXCEPT ![a] = Head(task_queue[a])]
    BY <1>2 DEF WorkerTake, TakeFirst, TakeFrom
  <2>3. Retired' = Retired
    BY <1>2, ListTake DEF WorkerTake
  <2>4. Fifo!Begin(a)
    BY <1>2, <2>1, <2>2, <2>3 DEF Fifo!Begin
  <2> QED BY <2>4 DEF Fifo!FifoNext
<1> QED BY <1>1, <1>2

\* The second one ends it.
LEMMA RetireEnds ==
  ASSUME ListInv, NEW a \in Accels, WorkerRetire(a) PROVE Fifo!FifoNext
<1>1. cur[a] # NULL
  BY DEF ListInv, TypeInv, PointersOK, WorkerRetire
<1>2. /\ Retired' = Retired \cup {cur[a]}
      /\ cur' = [cur EXCEPT ![a] = NULL] /\ task_queue' = task_queue
  BY ListRetire DEF WorkerRetire
<1>3. Fifo!End(a)
  BY <1>1, <1>2 DEF Fifo!End
<1> QED BY <1>3 DEF Fifo!FifoNext

\* Every step of TaskEngine is a step of AccelFifo or leaves its variables alone.
LEMMA FifoStep ==
  ASSUME ListInv, [Next]_vars
  PROVE  Fifo!FifoNext \/ UNCHANGED <<task_queue, cur, Retired>>
<1>1. TypeInv'
  BY TypeStep DEF ListInv
<1>2. CASE UNCHANGED vars
  BY <1>1, <1>2, ListStutter
     DEF vars, engineVars, poolVars, accelVars, workerVars, callVars
<1>3. CASE StopBegin \/ Stopper
  BY <1>1, <1>3, StopFrame, ListStutter DEF poolVars, accelVars, workerVars, callVars
<1>4. ASSUME NEW c \in Clients, EnterStep(c) \/ Proceed(c), ~TaskEnqueue(c)
      PROVE  UNCHANGED <<task_queue, cur, Retired>>
  <2>1. UNCHANGED <<cur, Retired>>
    BY <1>4, ClientFrame, ListClient DEF workerVars
  <2>2. UNCHANGED task_queue
    BY <1>4 DEF EnterStep, Dismiss, SubmitAlloc, Found, GetInfo, Proceed, TaskSubmit,
       IdVisible, SubmitCopyOut, QueryRead, QueryCopyOut, CancelStore, CancelDone, Return,
       engineVars, accelVars
  <2> QED BY <2>1, <2>2
<1>5. ASSUME NEW c \in Clients, Enter(c) \/ Proceed(c)
      PROVE  Fifo!FifoNext \/ UNCHANGED <<task_queue, cur, Retired>>
  BY <1>4, <1>5, EnterCases, EnqueueAccepts
<1>6. ASSUME NEW a \in Accels, Worker(a) \/ WorkerExpire(a)
      PROVE  Fifo!FifoNext \/ UNCHANGED <<task_queue, cur, Retired>>
  <2>1. CASE WorkerTake(a)
    BY <2>1, TakeBegins
  <2>2. CASE WorkerRetire(a)
    BY <2>2, RetireEnds
  <2>3. CASE ~WorkerTake(a) /\ ~WorkerRetire(a)
    <3>1. Retired' = Retired
      BY <1>6, <2>3, ListWorker
    <3>2. UNCHANGED <<task_queue, cur>>
      BY <1>6, <2>3 DEF Worker, WorkerExpire, WorkerPoll, EndRun, WorkerCheck, WorkerStart,
         WorkerStore, WorkerFinish, accelVars
    <3> QED BY <3>1, <3>2
  <2> QED BY <2>1, <2>2, <2>3
<1> QED BY <1>2, <1>3, <1>5, <1>6 DEF Next

\* The locked list operations of task_submit and of the worker together make a
\* FIFO server: tasks are executed in submission order, one at a time per
\* accelerator, each once, and none is dropped.
THEOREM ServesInOrder == Spec => FifoService
<1>1. ListInv /\ [Next]_vars => [Fifo!FifoNext]_(Fifo!fifoVars)
  BY FifoStep DEF Fifo!fifoVars
<1> QED BY <1>1, FifoInitial, ListInit, ListStep, PTL DEF Spec, FifoService, Fifo!FifoSpec

=============================================================================
