------------------------------- MODULE LibClient -------------------------------
(***************************************************************************)
(* libcortex-forge in one application: threads that open, share, use and   *)
(* close handles.  A handle wraps a file descriptor and a mutex held       *)
(* around each ioctl; every wrapper turns the ioctl's -1 and errno into a  *)
(* negative error.  The ioctl itself is one step: no ioctl of the driver   *)
(* waits for anything but a spinlock.                                      *)
(*                                                                         *)
(* The application is assumed to close a handle only when no other thread  *)
(* uses it, and not to use it afterwards: C leaves the rest undefined.     *)
(***************************************************************************)
EXTENDS Integers, FiniteSets, IoctlAbi

CONSTANTS
  Threads,     \* threads of the application
  Handles,     \* memory a handle can be allocated in
  NumFds,      \* descriptors the process may have, besides the standard ones
  Nobody       \* a mutex that is not held

ASSUME FdsAssumption == NumFds \in Nat \ {0}
ASSUME NobodyAssumption == Nobody \notin Threads

Fds    == 3..(NumFds + 2)
Values == {0, 2, 3, 4, 5}        \* both sides of every limit on a scalar
Errno  == {"0", "EPERM", "EINVAL", "EFAULT", "E2BIG", "ENOMEM", "ENOENT", "ENOTTY",
           "EMFILE", "EBADF"}
PC     == {"idle", "alloc", "lock", "ioctl", "unlock", "errno", "close", "free", "ret"}

VARIABLES
  fds,         \* open descriptors of the process
  live,        \* allocated handles
  fd,          \* fd member of each handle
  lock,        \* who holds the handle's mutex
  pc, call,    \* where each thread is, and in which function
  h,           \* its handle: {} or {a handle}
  newfd,       \* local fd of cortex_forge_open
  r, errno,    \* result of ioctl(2), and the thread's errno
  res,         \* what the library function returns
  answer       \* history: what the driver answered to the ioctl

shared == <<fds, live, fd, lock>>
local  == <<pc, call, h, newfd, r, errno, res, answer>>
vars   == <<shared, local>>

Init ==
  /\ fds = {} /\ live = {}
  /\ fd = [x \in Handles |-> 0]
  /\ lock = [x \in Handles |-> Nobody]
  /\ pc = [t \in Threads |-> "idle"]
  /\ call = [t \in Threads |-> "none"]
  /\ h = [t \in Threads |-> {}]
  /\ newfd = [t \in Threads |-> 0]
  /\ r = [t \in Threads |-> 0]
  /\ errno = [t \in Threads |-> "0"]
  /\ res = [t \in Threads |-> "0"]
  /\ answer = [t \in Threads |-> "0"]

Goto(t, where) == pc' = [pc EXCEPT ![t] = where]

\* The function ends with result e.
Result(t, e) == Goto(t, "ret") /\ res' = [res EXCEPT ![t] = e]

\* Back in the application.
Return(t) ==
  /\ pc[t] = "ret"
  /\ Goto(t, "idle")
  /\ call' = [call EXCEPT ![t] = "none"]
  /\ h' = [h EXCEPT ![t] = {}]
  /\ newfd' = [newfd EXCEPT ![t] = 0]
  /\ r' = [r EXCEPT ![t] = 0]
  /\ errno' = [errno EXCEPT ![t] = "0"]
  /\ res' = [res EXCEPT ![t] = "0"]
  /\ answer' = [answer EXCEPT ![t] = "0"]
  /\ UNCHANGED shared

-----------------------------------------------------------------------------
(***************************************************************************)
(* cortex_forge_open.  A NULL handle is told by the error left in errno.   *)
(***************************************************************************)
OpenUnchecked(f) == TRUE                       \* mutant of OpenedFd

\* open(2) returned a descriptor and not -1.
OpenedFd(f) == f >= 0

\* open(2): the lowest free descriptor, or -1 (no device, no permission, none
\* free).
OpenResults ==
  {-1} \cup {f \in Fds \ fds : \A g \in Fds \ fds : f <= g}

OpenNull(t) ==
  /\ pc[t] = "idle"
  /\ errno' = [errno EXCEPT ![t] = "EINVAL"]
  /\ call' = [call EXCEPT ![t] = "open"]
  /\ Result(t, "EINVAL")
  /\ UNCHANGED <<shared, h, newfd, r, answer>>

OpenDevice(t) ==
  /\ pc[t] = "idle"
  /\ call' = [call EXCEPT ![t] = "open"]
  /\ \E f \in OpenResults :
       /\ newfd' = [newfd EXCEPT ![t] = f]
       /\ fds' = fds \cup ({f} \cap Fds)
       /\ IF OpenedFd(f)
          THEN Goto(t, "alloc") /\ UNCHANGED <<errno, res>>
          ELSE Result(t, "EMFILE") /\ errno' = [errno EXCEPT ![t] = "EMFILE"]
  /\ UNCHANGED <<live, fd, lock, h, r, answer>>

KeepFd(t) == UNCHANGED fds                     \* mutant of GiveBackFd

\* close(fd) when calloc has failed.
GiveBackFd(t) == fds' = fds \ {newfd[t]}

OpenAlloc(t) ==
  /\ pc[t] = "alloc"
  /\ \/ /\ GiveBackFd(t)
        /\ errno' = [errno EXCEPT ![t] = "ENOMEM"]
        /\ Result(t, "ENOMEM")
        /\ UNCHANGED <<live, fd, lock, h>>
     \/ \E x \in Handles \ live :
          /\ live' = live \cup {x}
          /\ fd' = [fd EXCEPT ![x] = newfd[t]]
          /\ lock' = [lock EXCEPT ![x] = Nobody]
          /\ h' = [h EXCEPT ![t] = {x}]
          /\ Result(t, "0")
          /\ UNCHANGED <<fds, errno>>
  /\ UNCHANGED <<call, newfd, r, answer>>

-----------------------------------------------------------------------------
\* The rule the application keeps: x is some open handle and, if it is to be
\* closed, nobody else's.
Usable(x)   == x \in live /\ \A t \in Threads : x \in h[t] => call[t] # "close"
Closable(x) == x \in live /\ \A t \in Threads : x \notin h[t]

\* cortex_forge_close: destroy the mutex, close the descriptor, free the memory.
Close(t) ==
  /\ pc[t] = "idle"
  /\ call' = [call EXCEPT ![t] = "close"]
  /\ \/ /\ Result(t, "0")                      \* of NULL
        /\ UNCHANGED h
     \/ \E x \in Handles : /\ Closable(x)
                           /\ h' = [h EXCEPT ![t] = {x}]
                           /\ Goto(t, "close")
                           /\ UNCHANGED res
  /\ UNCHANGED <<shared, newfd, r, errno, answer>>

CloseFd(t) ==
  /\ pc[t] = "close"
  /\ \A x \in h[t] : fds' = fds \ {fd[x]}
  /\ Goto(t, "free")
  /\ UNCHANGED <<live, fd, lock, call, h, newfd, r, errno, res, answer>>

CloseFree(t) ==
  /\ pc[t] = "free"
  /\ live' = live \ h[t]
  /\ fd' = [x \in Handles |-> IF x \in h[t] THEN 0 ELSE fd[x]]
  /\ Result(t, "0")
  /\ UNCHANGED <<fds, lock, call, h, newfd, r, errno, answer>>

-----------------------------------------------------------------------------
(***************************************************************************)
(* The wrappers, one per command: all have the same shape.                 *)
(***************************************************************************)

\* A NULL handle or a NULL argument.
CallInvalid(t) ==
  /\ pc[t] = "idle"
  /\ \E c \in LibraryCommands : call' = [call EXCEPT ![t] = c]
  /\ Result(t, "EINVAL")
  /\ UNCHANGED <<shared, h, newfd, r, errno, answer>>

Call(t) ==
  /\ pc[t] = "idle"
  /\ \E c \in LibraryCommands : call' = [call EXCEPT ![t] = c]
  /\ \E x \in Handles : Usable(x) /\ h' = [h EXCEPT ![t] = {x}]
  /\ Goto(t, "lock")
  /\ UNCHANGED <<shared, newfd, r, errno, res, answer>>

NotLocked(x) == TRUE                           \* mutant of MutexFree

\* What pthread_mutex_lock waits for.
MutexFree(x) == lock[x] = Nobody

\* pthread_mutex_lock
Lock(t) ==
  /\ pc[t] = "lock"
  /\ \E x \in h[t] : /\ MutexFree(x)
                     /\ lock' = [lock EXCEPT ![x] = t]
  /\ Goto(t, "ioctl")
  /\ UNCHANGED <<fds, live, fd, call, h, newfd, r, errno, res, answer>>

UnlockIfGood(e) == IF e = "0" THEN "unlock" ELSE "errno"  \* mutant of AfterIoctl

\* Where the wrapper goes on when the ioctl ended with e.
AfterIoctl(e) == "unlock"

\* Commands whose argument is the address of the wrapper's own parameter.
ByValue == {"CANCEL_TASK", "SET_POWER"}

\* ioctl(2) on the handle's descriptor.
DoIoctl(t) ==
  /\ pc[t] = "ioctl"
  /\ \E x \in h[t], v \in Values :
     \E e \in IF fd[x] \in fds THEN Ioctl(LibraryNumber[call[t]], v) ELSE {"EBADF"} :
       /\ call[t] \in ByValue => e # "EFAULT"
       /\ answer' = [answer EXCEPT ![t] = e]
       /\ r' = [r EXCEPT ![t] = IF e = "0" THEN 0 ELSE -1]
       /\ errno' = [errno EXCEPT ![t] = IF e = "0" THEN @ ELSE e]
       /\ Goto(t, AfterIoctl(e))
  /\ UNCHANGED <<shared, call, h, newfd, res>>

\* pthread_mutex_unlock, which leaves errno alone.
Unlock(t) ==
  /\ pc[t] = "unlock"
  /\ \E x \in h[t] : lock' = [lock EXCEPT ![x] = Nobody]
  /\ Goto(t, "errno")
  /\ UNCHANGED <<fds, live, fd, call, h, newfd, r, errno, res, answer>>

ReturnR(x, e) == IF x < 0 THEN "EPERM" ELSE "0"  \* mutant of Translate: returns -1

\* r < 0 ? -errno : 0
Translate(x, e) == IF x < 0 THEN e ELSE "0"

\* The end of a wrapper; errno is read after the mutex was given back.
CallEnd(t) ==
  /\ pc[t] = "errno"
  /\ Result(t, Translate(r[t], errno[t]))
  /\ UNCHANGED <<shared, call, h, newfd, r, errno, answer>>

\* An application that uses the kernel header and ioctl(2) on its own.
RawIoctl(t) ==
  /\ pc[t] = "idle"
  /\ \E c \in Commands, v \in Values :
     \E e \in Ioctl(KernelNumber[c], v) :
       /\ answer' = [answer EXCEPT ![t] = e]
       /\ Result(t, e)
  /\ call' = [call EXCEPT ![t] = "raw"]
  /\ UNCHANGED <<shared, h, newfd, r, errno>>

-----------------------------------------------------------------------------
Enter(t) ==
  \/ OpenNull(t)
  \/ OpenDevice(t)
  \/ Close(t)
  \/ CallInvalid(t)
  \/ Call(t)
  \/ RawIoctl(t)

Step(t) ==
  \/ OpenAlloc(t)
  \/ CloseFd(t)
  \/ CloseFree(t)
  \/ Lock(t)
  \/ DoIoctl(t)
  \/ Unlock(t)
  \/ CallEnd(t)
  \/ Return(t)

Next == \E t \in Threads : Enter(t) \/ Step(t)

Spec == Init /\ [][Next]_vars

\* The scheduler runs every thread that is inside the library; the application
\* need not call it, and a mutex need not be fair.
FairSpec == Spec /\ \A t \in Threads : WF_vars(Step(t))

-----------------------------------------------------------------------------
\* Every variable stays within its type; in particular a handle never wraps
\* the -1 of a failed open.
LibTypeOK ==
  /\ fds \subseteq Fds
  /\ live \subseteq Handles
  /\ fd \in [Handles -> Fds \cup {0}]
  /\ lock \in [Handles -> Threads \cup {Nobody}]
  /\ pc \in [Threads -> PC]
  /\ call \in [Threads -> LibraryCommands \cup {"none", "open", "close", "raw"}]
  /\ h \in [Threads -> {{}} \cup {{x} : x \in Handles}]
  /\ newfd \in [Threads -> Fds \cup {-1, 0}]
  /\ r \in [Threads -> {-1, 0}]
  /\ errno \in [Threads -> Errno]
  /\ res \in [Threads -> Errno]
  /\ answer \in [Threads -> Errno]

\* Who is to close descriptor f: the handle that wraps it, until cortex_forge_close
\* has closed it, or the thread that has just opened it.
Owners(f) ==
  {<<"handle", x>> : x \in
     {y \in live : fd[y] = f /\ \A t \in Threads : y \in h[t] => pc[t] # "free"}}
  \cup
  {<<"thread", t>> : t \in {u \in Threads : pc[u] = "alloc" /\ newfd[u] = f}}

\* Every open descriptor has exactly one owner, so none is leaked by a failed
\* open, none is closed twice, and a descriptor that another thread's open got
\* again after a close is never used through the old handle.
FdsOwned ==
  \A f \in Fds : Cardinality(Owners(f)) = IF f \in fds THEN 1 ELSE 0

\* A wrapper reports the driver's answer to its own ioctl: neither the unlock nor
\* the translation of -1 and errno loses or replaces it.
OwnAnswer ==
  \A t \in Threads :
    pc[t] = "ret" /\ call[t] \in LibraryCommands /\ h[t] # {} => res[t] = answer[t]

\* The library is thread-safe: a thread in an ioctl uses a handle that is still
\* allocated and whose descriptor is still open, and is alone with it, however
\* other threads wait for the same mutex, close their handles and get the memory
\* and the descriptors of closed ones again.
CallsOwnDevice ==
  \A t \in Threads :
    pc[t] = "ioctl" =>
      \E x \in live : h[t] = {x} /\ lock[x] = t /\ fd[x] \in fds

\* Whatever the ioctl answers, a wrapper gives the mutex back.
MutexReleased ==
  \A x \in Handles, t \in Threads : (lock[x] = t) ~> (lock[x] # t)

\* cortex-forge_test.c calls every wrapper with good arguments and counts any
\* error as a failure ("submit failed", "query").  So the driver at least knows
\* the commands the library sends.
LibraryIsUnderstood ==
  \A t \in Threads :
    pc[t] = "ret" /\ call[t] \in LibraryCommands => res[t] # "ENOTTY"

=============================================================================
