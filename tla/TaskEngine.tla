------------------------------ MODULE TaskEngine ------------------------------
(***************************************************************************)
(* The task path of the Cortex Forge kernel module: the fixed pool of task *)
(* slots (task_manager.c), the SUBMIT / QUERY / CANCEL / GET_ACCEL_INFO    *)
(* ioctls that user threads run concurrently (chardev.c), one worker       *)
(* kthread per accelerator and the routine that stops the workers on       *)
(* removal (accel_manager.c).                                              *)
(*                                                                         *)
(* Granularity.  A critical section (task_lock, accel->lock) is one step.  *)
(* A task's fields are read and written outside every lock, so each such   *)
(* access is a step of its own; plain stores with no barrier between them  *)
(* may become visible in any order, and so may the loads of a query: the   *)
(* sets todo and wtodo hold the accesses still to be made.  An unlock only *)
(* keeps what is before it from coming after it.                           *)
(***************************************************************************)
EXTENDS Integers, Sequences, FiniteSets, Functions

CONSTANTS
  MaxTasks,    \* MAX_TASKS: number of slots in the pool
  NumAccels,   \* NUM_ACCELERATORS
  Clients,     \* user threads inside an open file
  IdModulus,   \* 2^32 in the code: next_task_id is a 32-bit atomic counter
  MaxSize,     \* 64 MiB in the code: largest accepted buffer
  Descs,       \* the task descriptors user space may pass to SUBMIT
  Calls,       \* the ioctls each user thread makes
  Removable    \* whether the device is removed

ASSUME PoolAssumption ==
  /\ MaxTasks \in Nat \ {0}
  /\ NumAccels \in Nat \ {0}
  /\ IdModulus \in Nat
  /\ MaxTasks < IdModulus
  /\ MaxSize \in Nat

ASSUME DescsAssumption ==
  Descs \subseteq [accel_type : Nat, flags : Nat, input_size : Nat,
                   output_size : Nat, priority : Nat, timeout_ms : Nat]

ASSUME CallsAssumption ==
  /\ Calls \in [Clients -> SUBSET {"SUBMIT", "QUERY", "CANCEL", "GET_INFO"}]
  /\ Removable \in BOOLEAN

Slots  == 1..MaxTasks
Accels == 0..(NumAccels - 1)
Ids    == 0..(IdModulus - 1)
NULL   == 0                       \* no slot

\* enum task_state
States == {"FREE", "PENDING", "RUNNING", "COMPLETE", "FAILED", "CANCELLED"}

\* The value of each enumerator, which QUERY hands out as it is.
TaskState == [FREE |-> 0, PENDING |-> 1, RUNNING |-> 2, COMPLETE |-> 3,
              FAILED |-> 4, CANCELLED |-> 5]

ErrorCodes == {"0", "ECANCELED"}
Errno == {"0", "EFAULT", "EINVAL", "E2BIG", "ENOMEM", "ENOENT", "ENOTTY"}

\* struct cortex_forge_task; numbered says that the store of id has become
\* visible, complete that complete_jiffies was written, done that the completion
\* was signalled.
Task == [id : Ids, numbered : BOOLEAN, state : States, accel_type : Accels,
         priority : Nat, timeout_ms : Nat, complete : BOOLEAN,
         error_code : ErrorCodes, done : BOOLEAN]

ZeroTask == [id |-> 0, numbered |-> FALSE, state |-> "FREE", accel_type |-> 0,
             priority |-> 0, timeout_ms |-> 0, complete |-> FALSE,
             error_code |-> "0", done |-> FALSE]

\* The fields of a task that threads touch with no lock held.
Fields == {"state", "complete", "error_code"}

\* What QUERY and GET_ACCEL_INFO bring back (memset to zero first), but for the
\* error code, on which nothing depends.
Reply     == [status : 0..5, complete : BOOLEAN, load : 0..100]
ZeroReply == [status |-> 0, complete |-> FALSE, load |-> 0]

\* The loads of task_query that the model follows.
QueryLoads == {"state", "complete"}

Ops   == {"none", "SUBMIT", "QUERY", "CANCEL", "GET_INFO"}
ClientPC == {"idle", "submit_state", "submit_queue", "submit_copy",
             "query_read", "cancel_store", "ret",
             "lost"}             \* where the device is freed: SingleFileDriver
WorkerPC == {"loop", "lock", "start", "run", "finish", "retire", "exited"}
StopPC   == {"idle", "flag", "stop", "join", "done", "oops"}

VARIABLES
  \* the pool (struct cortex_forge_dev)
  tasks,         \* tasks[]: the slots
  free_tasks,    \* free list, in list order
  next_task_id,  \* the id counter
  \* the accelerators (struct cortex_forge_accel)
  task_queue,    \* pending tasks of each accelerator, in list order
  active_tasks,  \* tasks on the active list of each accelerator
  load_percent,  \* reported load
  running,       \* atomic flag: the worker should keep running
  should_stop,   \* kthread_should_stop() of the worker
  \* worker threads
  wpc, cur,      \* where the worker is, and its local `task`
  wtodo,         \* stores of the finishing worker not yet visible
  \* ioctl calls in progress
  pc, op, slot,  \* where the thread is, in which ioctl, its local `task`
  todo,          \* field accesses of the call not yet made
  reply, ret,    \* what the call brings back
  issued,        \* history: ids that a successful SUBMIT handed to user space
  \* accel_stop_workers
  spc, sidx

poolVars   == <<tasks, free_tasks, next_task_id>>
accelVars  == <<task_queue, active_tasks, load_percent>>
flagVars   == <<running, should_stop>>
workerVars == <<wpc, cur, wtodo>>
callVars   == <<pc, op, slot, todo, reply, ret, issued>>
stopVars   == <<spc, sidx>>
engineVars == <<poolVars, accelVars, flagVars, workerVars, stopVars>>
vars == <<engineVars, callVars>>

(***************************************************************************)
(* Initial state: probe has run; nobody is inside an ioctl.                *)
(***************************************************************************)
\* task_pool_init: every slot is free and on the list, in array order.
PoolInit ==
  /\ tasks = [s \in Slots |-> ZeroTask]
  /\ free_tasks = [i \in 1..MaxTasks |-> i]
  /\ next_task_id = 0

\* accel_init
AccelInit ==
  /\ task_queue = [a \in Accels |-> <<>>]
  /\ active_tasks = [a \in Accels |-> {}]
  /\ load_percent = [a \in Accels |-> 0]
  /\ running = [a \in Accels |-> TRUE]

\* accel_start_workers, all of whose kthread_run calls succeeded.
WorkerInit ==
  /\ should_stop = [a \in Accels |-> FALSE]
  /\ wpc = [a \in Accels |-> "loop"]
  /\ cur = [a \in Accels |-> NULL]
  /\ wtodo = [a \in Accels |-> {}]

Init ==
  /\ PoolInit
  /\ AccelInit
  /\ WorkerInit
  /\ pc = [c \in Clients |-> "idle"]
  /\ op = [c \in Clients |-> "none"]
  /\ slot = [c \in Clients |-> NULL]
  /\ todo = [c \in Clients |-> {}]
  /\ reply = [c \in Clients |-> ZeroReply]
  /\ ret = [c \in Clients |-> "0"]
  /\ issued = {}
  /\ spc = "idle"
  /\ sidx = 0

-----------------------------------------------------------------------------
(***************************************************************************)
(* ioctl entry and exit.                                                   *)
(***************************************************************************)

\* The call of client c ends with return value r, having used slot s.
Finish(c, o, s, r) ==
  /\ pc' = [pc EXCEPT ![c] = "ret"]
  /\ op' = [op EXCEPT ![c] = o]
  /\ slot' = [slot EXCEPT ![c] = s]
  /\ ret' = [ret EXCEPT ![c] = r]

\* copy_from_user of the argument fails: nothing has been touched yet.
IoctlFault(c) ==
  /\ pc[c] = "idle"
  /\ \E o \in Calls[c] : Finish(c, o, NULL, "EFAULT")
  /\ UNCHANGED <<engineVars, todo, reply, issued>>

\* The thread goes back to user space; its kernel stack frame is gone.
Return(c) ==
  /\ pc[c] = "ret"
  /\ pc' = [pc EXCEPT ![c] = "idle"]
  /\ op' = [op EXCEPT ![c] = "none"]
  /\ slot' = [slot EXCEPT ![c] = NULL]
  /\ reply' = [reply EXCEPT ![c] = ZeroReply]
  /\ ret' = [ret EXCEPT ![c] = "0"]
  /\ UNCHANGED <<engineVars, todo, issued>>

-----------------------------------------------------------------------------
(***************************************************************************)
(* SUBMIT_TASK.                                                            *)
(***************************************************************************)

InvalidAccelOffByOne(t) == t > NumAccels       \* mutant of InvalidAccel

\* desc.accel_type >= NUM_ACCELERATORS
InvalidAccel(t) == t >= NumAccels

\* The checks of the ioctl on the descriptor, in their order.
ValidateDesc(d) ==
  CASE InvalidAccel(d.accel_type)  -> "EINVAL"
    [] d.flags # 0                 -> "EINVAL"
    [] d.input_size > MaxSize      -> "E2BIG"
    [] d.output_size > MaxSize     -> "E2BIG"
    [] OTHER                       -> "0"

SubmitRejected(c, d) ==
  /\ pc[c] = "idle"
  /\ ValidateDesc(d) # "0"
  /\ Finish(c, "SUBMIT", NULL, ValidateDesc(d))
  /\ UNCHANGED <<engineVars, todo, reply, issued>>

\* task_alloc finds the free list empty.
SubmitNoMemory(c, d) ==
  /\ pc[c] = "idle"
  /\ ValidateDesc(d) = "0"
  /\ free_tasks = <<>>
  /\ Finish(c, "SUBMIT", NULL, "ENOMEM")
  /\ UNCHANGED <<engineVars, todo, reply, issued>>

NextIdNoIncrement == next_task_id              \* mutant of NextId

\* atomic_inc_return(&next_task_id)
NextId == (next_task_id + 1) % IdModulus

\* task_alloc takes the first free slot, wipes it and numbers it; the ioctl
\* then copies the descriptor into it.  The state stays FREE, so no other
\* thread can reach the slot yet.  The other threads may see the id much later.
SubmitAlloc(c, d) ==
  /\ pc[c] = "idle"
  /\ ValidateDesc(d) = "0"
  /\ free_tasks # <<>>
  /\ free_tasks' = Tail(free_tasks)
  /\ next_task_id' = NextId
  /\ tasks' = [tasks EXCEPT ![Head(free_tasks)] =
                 [ZeroTask EXCEPT !.id = NextId,
                                  !.accel_type = d.accel_type,
                                  !.priority = d.priority,
                                  !.timeout_ms = d.timeout_ms]]
  /\ pc' = [pc EXCEPT ![c] = "submit_state"]
  /\ op' = [op EXCEPT ![c] = "SUBMIT"]
  /\ slot' = [slot EXCEPT ![c] = Head(free_tasks)]
  /\ UNCHANGED <<accelVars, flagVars, workerVars, stopVars,
                 todo, reply, ret, issued>>

Submit(c, d) ==
  \/ SubmitRejected(c, d)
  \/ SubmitNoMemory(c, d)
  \/ SubmitAlloc(c, d)

\* task_free
TaskFree(s) ==
  /\ tasks' = [tasks EXCEPT ![s].state = "FREE"]
  /\ free_tasks' = Append(free_tasks, s)

\* First half of task_submit: its own range check (whose failure gives the
\* slot back), then the store of PENDING, outside the accelerator's lock.
TaskSubmit(c) ==
  /\ pc[c] = "submit_state"
  /\ IF tasks[slot[c]].accel_type >= NumAccels
     THEN /\ TaskFree(slot[c])
          /\ Finish(c, "SUBMIT", NULL, "EINVAL")
     ELSE /\ tasks' = [tasks EXCEPT ![slot[c]].state = "PENDING"]
          /\ pc' = [pc EXCEPT ![c] = "submit_queue"]
          /\ UNCHANGED <<free_tasks, op, slot, ret>>
  /\ UNCHANGED <<next_task_id, accelVars, flagVars, workerVars, stopVars,
                 todo, reply, issued>>

\* The store of the id becomes visible.  No barrier orders it before the store
\* of PENDING: the spin_unlock between them lets the later store pass.
IdVisible(c) ==
  /\ pc[c] \in {"submit_state", "submit_queue"}
  /\ ~tasks[slot[c]].numbered
  /\ tasks' = [tasks EXCEPT ![slot[c]].numbered = TRUE]
  /\ UNCHANGED <<free_tasks, next_task_id, accelVars, flagVars, workerVars,
                 stopVars, callVars>>

\* Second half of task_submit: list_add_tail under accel->lock, whose unlock
\* publishes all stores before it.  The wake_up that follows has no effect on
\* the state: the worker's wait times out anyway.
TaskEnqueue(c) ==
  /\ pc[c] = "submit_queue"
  /\ tasks[slot[c]].numbered
  /\ task_queue' = [task_queue EXCEPT ![tasks[slot[c]].accel_type] = Append(@, slot[c])]
  /\ pc' = [pc EXCEPT ![c] = "submit_copy"]
  /\ UNCHANGED <<poolVars, active_tasks, load_percent, flagVars, workerVars,
                 stopVars, op, slot, todo, reply, ret, issued>>

\* The id goes back to user space, unless copy_to_user fails.
SubmitCopyOut(c) ==
  /\ pc[c] = "submit_copy"
  /\ \/ /\ Finish(c, "SUBMIT", slot[c], "0")
        /\ issued' = issued \cup {tasks[slot[c]].id}
     \/ /\ Finish(c, "SUBMIT", slot[c], "EFAULT")
        /\ UNCHANGED issued
  /\ UNCHANGED <<engineVars, todo, reply>>

-----------------------------------------------------------------------------
(***************************************************************************)
(* QUERY_TASK, CANCEL_TASK and GET_ACCEL_INFO.                             *)
(***************************************************************************)

\* The id another thread reads: that of a wiped slot, until the store is visible.
VisibleId(s) == IF tasks[s].numbered THEN tasks[s].id ELSE 0

MatchesAnyState(i) == {s \in Slots : VisibleId(s) = i} \* mutant of Matches

\* The slots the scan of tasks[] would stop at for id i.
Matches(i) == {s \in Slots : VisibleId(s) = i /\ tasks[s].state # "FREE"}

\* The scan takes no lock; it is one step because a slot's id and its leaving
\* FREE are written once and for all (see IssuedFindable).
FirstMatch(i, s) == s \in Matches(i) /\ \A t \in Matches(i) : s <= t

\* Both lookups fail alike when the id is unknown.
NotFound(c, o, i) ==
  /\ pc[c] = "idle"
  /\ Matches(i) = {}
  /\ Finish(c, o, NULL, "ENOENT")
  /\ UNCHANGED <<engineVars, todo, reply, issued>>

\* A call o that found the slot of id i goes on to the accesses in fs.
Found(c, o, i, where, fs) ==
  /\ pc[c] = "idle"
  /\ \E s \in Slots : FirstMatch(i, s) /\ slot' = [slot EXCEPT ![c] = s]
  /\ pc' = [pc EXCEPT ![c] = where]
  /\ op' = [op EXCEPT ![c] = o]
  /\ todo' = [todo EXCEPT ![c] = fs]
  /\ UNCHANGED <<engineVars, reply, ret, issued>>

Query(c, i) ==
  \/ NotFound(c, "QUERY", i)
  \/ Found(c, "QUERY", i, "query_read", QueryLoads)

\* One of the loads of task_query, in whatever order they are satisfied.
QueryRead(c) ==
  /\ pc[c] = "query_read"
  /\ LET t == tasks[slot[c]] IN
     \/ /\ "state" \in todo[c]
        /\ reply' = [reply EXCEPT ![c].status = TaskState[t.state]]
        /\ todo' = [todo EXCEPT ![c] = @ \ {"state"}]
     \/ /\ "complete" \in todo[c]
        /\ reply' = [reply EXCEPT ![c].complete = t.complete]
        /\ todo' = [todo EXCEPT ![c] = @ \ {"complete"}]
  /\ UNCHANGED <<engineVars, pc, op, slot, ret, issued>>

QueryCopyOut(c) ==
  /\ pc[c] = "query_read"
  /\ todo[c] = {}
  /\ \E r \in {"0", "EFAULT"} : Finish(c, "QUERY", NULL, r)
  /\ UNCHANGED <<engineVars, todo, reply, issued>>

Cancel(c, i) ==
  \/ NotFound(c, "CANCEL", i)
  \/ Found(c, "CANCEL", i, "cancel_store", {"state", "error_code"})

\* The two plain stores of task_cancel.  The task stays on whatever list it
\* is on, and no lock is taken.
CancelStore(c) ==
  /\ pc[c] = "cancel_store"
  /\ \/ /\ "state" \in todo[c]
        /\ tasks' = [tasks EXCEPT ![slot[c]].state = "CANCELLED"]
        /\ todo' = [todo EXCEPT ![c] = @ \ {"state"}]
     \/ /\ "error_code" \in todo[c]
        /\ tasks' = [tasks EXCEPT ![slot[c]].error_code = "ECANCELED"]
        /\ todo' = [todo EXCEPT ![c] = @ \ {"error_code"}]
  /\ UNCHANGED <<free_tasks, next_task_id, accelVars, flagVars, workerVars,
                 stopVars, pc, op, slot, reply, ret, issued>>

\* complete_all orders the stores before it.
CancelDone(c) ==
  /\ pc[c] = "cancel_store"
  /\ todo[c] = {}
  /\ tasks' = [tasks EXCEPT ![slot[c]].done = TRUE]
  /\ Finish(c, "CANCEL", slot[c], "0")
  /\ UNCHANGED <<free_tasks, next_task_id, accelVars, flagVars, workerVars,
                 stopVars, todo, reply, issued>>

\* What accel_get_info reports of accelerator a.  It holds accel->lock, which
\* the writer of load_percent does not; the other fields never change.
AccelGetInfo(a) == load_percent[a]

GetInfo(c, t) ==
  /\ pc[c] = "idle"
  /\ \/ /\ t >= NumAccels
        /\ Finish(c, "GET_INFO", NULL, "EINVAL")
        /\ UNCHANGED reply
     \/ /\ t < NumAccels
        /\ reply' = [reply EXCEPT ![c].load = AccelGetInfo(t)]
        /\ \E r \in {"0", "EFAULT"} : Finish(c, "GET_INFO", NULL, r)
  /\ UNCHANGED <<engineVars, todo, issued>>

-----------------------------------------------------------------------------
(***************************************************************************)
(* accel_worker_thread.                                                    *)
(***************************************************************************)

WorkerCheckLeaves(a) ==                        \* mutant of WorkerCheck
  /\ wpc[a] = "loop"
  /\ wpc' = [wpc EXCEPT ![a] = IF running[a] /\ task_queue[a] # <<>> THEN "lock"
                                                                     ELSE "exited"]
  /\ UNCHANGED <<poolVars, accelVars, flagVars, callVars, stopVars,
                 cur, wtodo>>

\* Top of the loop: the wait ends when there is work, when the worker is told
\* to stop, or after 100 ms in any case, so the step is always possible.
WorkerCheck(a) ==
  /\ wpc[a] = "loop"
  /\ wpc' = [wpc EXCEPT ![a] = IF running[a] THEN "lock" ELSE "exited"]
  /\ UNCHANGED <<poolVars, accelVars, flagVars, callVars, stopVars,
                 cur, wtodo>>

\* Slot s goes from the pending list, of which rest remains, to the active one.
TakeFrom(a, s, rest) ==
  /\ task_queue' = [task_queue EXCEPT ![a] = rest]
  /\ active_tasks' = [active_tasks EXCEPT ![a] = @ \cup {s}]
  /\ cur' = [cur EXCEPT ![a] = s]

TakeNoDelete(a) == TakeFrom(a, Head(task_queue[a]), task_queue[a]) \* mutant of TakeFirst

TakeNewest(a) ==                                                 \* mutant of TakeFirst
  LET q == task_queue[a] IN
  TakeFrom(a, q[Len(q)], SubSeq(q, 1, Len(q) - 1))

TakeFirst(a) == TakeFrom(a, Head(task_queue[a]), Tail(task_queue[a]))

\* The first critical section of the worker.
WorkerTake(a) ==
  /\ wpc[a] = "lock"
  /\ \/ /\ task_queue[a] = <<>>
        /\ wpc' = [wpc EXCEPT ![a] = "loop"]
        /\ UNCHANGED <<task_queue, active_tasks, cur>>
     \/ /\ task_queue[a] # <<>>
        /\ TakeFirst(a)
        /\ wpc' = [wpc EXCEPT ![a] = "start"]
  /\ UNCHANGED <<poolVars, load_percent, flagVars, callVars, stopVars,
                 wtodo>>

LoadUp(l)   == IF l + 10 > 100 THEN 100 ELSE l + 10

LoadStuck(l) == l                              \* mutant of LoadDown

LoadDown(l) == IF l - 10 < 0 THEN 0 ELSE l - 10

\* The task is marked running, whatever its state has become by now.
WorkerStart(a) ==
  /\ wpc[a] = "start"
  /\ tasks' = [tasks EXCEPT ![cur[a]].state = "RUNNING"]
  /\ load_percent' = [load_percent EXCEPT ![a] = LoadUp(@)]
  /\ wpc' = [wpc EXCEPT ![a] = "run"]
  /\ UNCHANGED <<free_tasks, next_task_id, task_queue, active_tasks, flagVars,
                 callVars, stopVars, cur, wtodo>>

FinishStoresNoState == {"complete", "error_code"}  \* mutant of FinishStores

\* The plain stores that end a task.
FinishStores == {"complete", "state", "error_code"}

\* The simulated execution of the task is over.
EndRun(a) ==
  /\ wtodo' = [wtodo EXCEPT ![a] = FinishStores]
  /\ wpc' = [wpc EXCEPT ![a] = "finish"]
  /\ UNCHANGED <<poolVars, accelVars, flagVars, callVars, stopVars, cur>>

\* timeout_ms, or the 10 ms of a task that has none, have passed.
WorkerExpire(a) ==
  /\ wpc[a] = "run"
  /\ EndRun(a)

StopUnseen(a) == tasks[cur[a]].state # "RUNNING"      \* mutant of Interrupted

CancelUnseen(a) == should_stop[a]                     \* mutant of Interrupted

\* The two other ways out of the polling loop.
Interrupted(a) == tasks[cur[a]].state # "RUNNING" \/ should_stop[a]

\* Only a task with a timeout polls its own state and kthread_should_stop().
WorkerPoll(a) ==
  /\ wpc[a] = "run"
  /\ tasks[cur[a]].timeout_ms > 0
  /\ Interrupted(a)
  /\ EndRun(a)

WorkerStore(a) ==
  /\ wpc[a] = "finish"
  /\ \/ /\ "complete" \in wtodo[a]
        /\ tasks' = [tasks EXCEPT ![cur[a]].complete = TRUE]
        /\ wtodo' = [wtodo EXCEPT ![a] = @ \ {"complete"}]
     \/ /\ "state" \in wtodo[a]
        /\ tasks' = [tasks EXCEPT ![cur[a]].state = "COMPLETE"]
        /\ wtodo' = [wtodo EXCEPT ![a] = @ \ {"state"}]
     \/ /\ "error_code" \in wtodo[a]
        /\ tasks' = [tasks EXCEPT ![cur[a]].error_code = "0"]
        /\ wtodo' = [wtodo EXCEPT ![a] = @ \ {"error_code"}]
  /\ UNCHANGED <<free_tasks, next_task_id, accelVars, flagVars, callVars,
                 stopVars, wpc, cur>>

\* The load goes down and complete_all publishes the stores before it.
WorkerFinish(a) ==
  /\ wpc[a] = "finish"
  /\ wtodo[a] = {}
  /\ load_percent' = [load_percent EXCEPT ![a] = LoadDown(@)]
  /\ tasks' = [tasks EXCEPT ![cur[a]].done = TRUE]
  /\ wpc' = [wpc EXCEPT ![a] = "retire"]
  /\ UNCHANGED <<free_tasks, next_task_id, task_queue, active_tasks, flagVars,
                 callVars, stopVars, cur, wtodo>>

\* The second critical section: the task leaves the active list and goes to no
\* other one.
WorkerRetire(a) ==
  /\ wpc[a] = "retire"
  /\ active_tasks' = [active_tasks EXCEPT ![a] = @ \ {cur[a]}]
  /\ cur' = [cur EXCEPT ![a] = NULL]
  /\ wpc' = [wpc EXCEPT ![a] = "loop"]
  /\ UNCHANGED <<poolVars, task_queue, load_percent, flagVars, callVars,
                 stopVars, wtodo>>

-----------------------------------------------------------------------------
(***************************************************************************)
(* accel_stop_workers, called by cortex_forge_remove.  Files that are open *)
(* stay open, so the ioctls go on.                                         *)
(***************************************************************************)
StopBegin ==
  /\ Removable
  /\ spc = "idle"
  /\ spc' = "flag"
  /\ UNCHANGED <<poolVars, accelVars, flagVars, workerVars, callVars, sidx>>

\* atomic_set(&running, 0); the wake_up after it only shortens the wait.
StopFlag ==
  /\ spc = "flag"
  /\ running' = [running EXCEPT ![sidx] = FALSE]
  /\ spc' = "stop"
  /\ UNCHANGED <<poolVars, accelVars, should_stop, workerVars, callVars, sidx>>

NoWait(a) == TRUE                              \* mutant of Exited

\* The thread function has returned: what kthread_stop waits for.
Exited(a) == wpc[a] = "exited"

\* kthread_stop: raise the stop flag ...  Where the thread has gone already, this
\* is the harmless outcome: its memory has not been used again.
StopRequest ==
  /\ spc = "stop"
  /\ should_stop' = [should_stop EXCEPT ![sidx] = TRUE]
  /\ spc' = "join"
  /\ UNCHANGED <<poolVars, accelVars, running, workerVars, callVars, sidx>>

\* The other outcome: `running` was cleared before, so the worker may have
\* returned, and nothing keeps the task_struct of a thread that has.  The thread
\* that removes the device crashes, or waits for ever, in freed memory.
StopGone ==
  /\ spc = "stop"
  /\ Exited(sidx)
  /\ spc' = "oops"
  /\ UNCHANGED <<poolVars, accelVars, flagVars, workerVars, callVars, sidx>>

\* ... and wait for the thread to exit; then the next worker's turn.
StopJoin ==
  /\ spc = "join"
  /\ Exited(sidx)
  /\ \/ /\ sidx + 1 < NumAccels
        /\ sidx' = sidx + 1
        /\ spc' = "flag"
     \/ /\ sidx + 1 >= NumAccels
        /\ spc' = "done"
        /\ UNCHANGED sidx
  /\ UNCHANGED <<poolVars, accelVars, flagVars, workerVars, callVars>>

-----------------------------------------------------------------------------
\* A user thread enters the driver ...
Enter(c) ==
  \/ IoctlFault(c)
  \/ "SUBMIT" \in Calls[c] /\ \E d \in Descs : Submit(c, d)
  \/ "QUERY" \in Calls[c] /\ \E i \in Ids : Query(c, i)
  \/ "CANCEL" \in Calls[c] /\ \E i \in Ids : Cancel(c, i)
  \/ "GET_INFO" \in Calls[c] /\ \E t \in 0..NumAccels : GetInfo(c, t)

\* ... and carries its call through.
Proceed(c) ==
  \/ TaskSubmit(c)
  \/ IdVisible(c)
  \/ TaskEnqueue(c)
  \/ SubmitCopyOut(c)
  \/ QueryRead(c)
  \/ QueryCopyOut(c)
  \/ CancelStore(c)
  \/ CancelDone(c)
  \/ Return(c)

Worker(a) ==
  \/ WorkerCheck(a)
  \/ WorkerTake(a)
  \/ WorkerStart(a)
  \/ WorkerPoll(a)
  \/ WorkerStore(a)
  \/ WorkerFinish(a)
  \/ WorkerRetire(a)

Stopper == StopFlag \/ StopRequest \/ StopGone \/ StopJoin

Next ==
  \/ \E c \in Clients : Enter(c) \/ Proceed(c)
  \/ \E a \in Accels : Worker(a) \/ WorkerExpire(a)
  \/ StopBegin
  \/ Stopper

Spec == Init /\ [][Next]_vars

\* A task without a timeout sleeps 10 ms, and no longer.
ShortSleep(a) == WorkerExpire(a) /\ tasks[cur[a]].timeout_ms = 0

\* The scheduler runs every runnable thread, and short sleeps end.  Nothing
\* makes user space call the driver or the device go away, and no deadline is
\* assumed to pass: timeout_ms may be as long as 49 days.
ThreadFairness ==
  /\ \A c \in Clients : WF_vars(Proceed(c))
  /\ \A a \in Accels : WF_vars(Worker(a)) /\ WF_vars(ShortSleep(a))
  /\ WF_vars(Stopper)

FairSpec == Spec /\ ThreadFairness

\* Every deadline passes in the end.
DeadlinesPass == \A a \in Accels : WF_vars(WorkerExpire(a))

-----------------------------------------------------------------------------
\* The task path: everything but the routine that stops the workers.
PathTypeOK ==
  /\ tasks \in [Slots -> Task]
  /\ free_tasks \in Seq(Slots)
  /\ next_task_id \in Ids
  /\ task_queue \in [Accels -> Seq(Slots)]
  /\ active_tasks \in [Accels -> SUBSET Slots]
  /\ load_percent \in [Accels -> 0..100]
  /\ running \in [Accels -> BOOLEAN]
  /\ should_stop \in [Accels -> BOOLEAN]
  /\ wpc \in [Accels -> WorkerPC]
  /\ cur \in [Accels -> Slots \cup {NULL}]
  /\ wtodo \in [Accels -> SUBSET Fields]
  /\ pc \in [Clients -> ClientPC]
  /\ op \in [Clients -> Ops]
  /\ slot \in [Clients -> Slots \cup {NULL}]
  /\ todo \in [Clients -> SUBSET Fields]
  /\ reply \in [Clients -> Reply]
  /\ ret \in [Clients -> Errno]
  /\ issued \subseteq Ids

\* Every variable stays within the C type or the enumeration the code gives it.
TypeOK == PathTypeOK /\ spc \in StopPC /\ sidx \in Accels

\* Where the list node of a slot is.  A slot that a submitting thread holds is
\* on no list, and neither is one whose task has been through a worker.
InFree   == Range(free_tasks)
InQueue  == UNION {Range(task_queue[a]) : a \in Accels}
InActive == UNION {active_tasks[a] : a \in Accels}
Holders  == {c \in Clients : pc[c] \in {"submit_state", "submit_queue"}}
Held     == {slot[c] : c \in Holders}
Retired  == Slots \ (InFree \cup InQueue \cup InActive \cup Held)

\* A task has one list node (`entry`), shared by the free, pending and active
\* lists under two different locks: however submissions and workers
\* interleave, a node is never linked twice, a thread that is filling a slot
\* is alone with it, and an active list holds exactly its worker's task.
ListIntegrity ==
  /\ IsInjective(free_tasks)
  /\ \A a \in Accels : IsInjective(task_queue[a])
  /\ \A a, b \in Accels :
       a # b => Range(task_queue[a]) \cap Range(task_queue[b]) = {}
  /\ InFree \cap (InQueue \cup InActive \cup Held) = {}
  /\ InQueue \cap (InActive \cup Held) = {}
  /\ InActive \cap Held = {}
  /\ \A c, d \in Holders : slot[c] = slot[d] => c = d
  /\ \A a \in Accels : active_tasks[a] = {cur[a]} \ {NULL}
  /\ \A a, b \in Accels : cur[a] = cur[b] /\ cur[a] # NULL => a = b

\* An id that SUBMIT handed out names one task for ever: the lock-free scans of
\* task_query and task_cancel find exactly one slot for it, at any moment.
IssuedFindable == \A i \in issued : Cardinality(Matches(i)) = 1

\* A task that has been through its worker is over for every observer,
\* whatever cancels raced with the worker's unlocked stores: its state is
\* final, its end time is set, and waiters on `done` were woken.
RetiredIsTerminal ==
  \A s \in Retired : /\ tasks[s].state \in {"COMPLETE", "CANCELLED"}
                     /\ tasks[s].complete
                     /\ tasks[s].done

\* load_percent goes up and down once per task, whichever of the ways out of the
\* execution the worker takes, and so never drifts: it is 10 exactly while the
\* worker executes a task.
LoadTracksWorker ==
  \A a \in Accels :
    load_percent[a] = IF wpc[a] \in {"run", "finish"} THEN 10 ELSE 0

\* When accel_stop_workers returns, and the device's memory goes, no worker is
\* left that could touch it and no task is half executed.
NoWorkerAfterStop ==
  spc = "done" => \A a \in Accels : wpc[a] = "exited" /\ active_tasks[a] = {}

\* The accelerators as AccelFifo describes them: a task waits on the pending
\* list, is executed while it is its worker's, and is finished once retired.
Fifo == INSTANCE AccelFifo WITH
          Items <- Slots, Servers <- Accels, None <- NULL,
          waiting <- task_queue, executing <- cur, finished <- Retired

\* Pending tasks are executed in submission order, whatever their priority (see
\* MoreUrgentFirst), one at a time per accelerator, each once, and none is lost
\* between the two critical sections of the worker or to a racing cancel or
\* removal.
FifoService == Fifo!FifoSpec

\* A QUERY that succeeds reports a task: a slot another thread is still filling
\* has its id but no state yet, and must not be found by a thread that guesses
\* the id.
QueryReportsTask ==
  \A c \in Clients :
    pc[c] = "ret" /\ op[c] = "QUERY" /\ ret[c] = "0"
      => reply[c].status # TaskState["FREE"]

\* As long as deadlines pass, a task that reached its queue is executed to the
\* end, unless the device is being removed.
QueuedTaskEnds ==
  DeadlinesPass => \A s \in Slots : (s \in InQueue) ~> (s \in Retired \/ spc # "idle")

\* A cancel cuts the execution of a running task with a timeout short: the
\* worker goes on to the end of the task without waiting for its deadline.
CancelInterrupts ==
  \A a \in Accels :
    (/\ wpc[a] = "run"
     /\ tasks[cur[a]].state = "CANCELLED"
     /\ tasks[cur[a]].timeout_ms > 0) ~> (wpc[a] = "finish")

\* Removal never waits for ever on a worker, wherever in a task, between its look
\* at `running` and its next one, or in front of a long deadline the worker is:
\* accel_stop_workers gets through, unless it dies in a kthread_stop (see
\* CleanRemoval).
RemovalTerminates == (spc # "idle") ~> (spc \in {"done", "oops"})

-----------------------------------------------------------------------------
(***************************************************************************)
(* What the repository's comments, docs and tests say of the driver and    *)
(* the code does not do.  Each is checked by a run that expects its        *)
(* violation.                                                              *)
(***************************************************************************)

\* libcortex-forge.h: "Cancel a pending or running task."  Once CANCEL has
\* returned 0 to the caller, the task does not run.
CancelStops ==
  \A c \in Clients :
    pc[c] = "ret" /\ op[c] = "CANCEL" /\ ret[c] = "0"
      => tasks[slot[c]].state # "RUNNING"

\* cortex_forge_task.h: "task_free - Return a task to the free pool".  SUBMIT
\* runs out of memory only while some task is still in use.
OutOfMemoryMeansInUse ==
  [][\A c \in Clients : pc[c] = "idle" /\ ret'[c] = "ENOMEM" => Retired # Slots]_vars

\* cortex_forge_task.h: "Task priority (0-255, higher = more urgent)".  No task is
\* taken up while a more urgent one waits for the same accelerator.
MoreUrgentFirst ==
  [][\A a \in Accels :
       cur'[a] # cur[a] /\ cur'[a] # NULL =>
         \A s \in Range(task_queue[a]) : tasks[s].priority <= tasks[cur'[a]].priority]_vars

\* README.md: "ensure clean driver removal".  The thread that removes the device
\* never calls kthread_stop on a worker that has returned.
CleanRemoval == spc # "oops"

=============================================================================
