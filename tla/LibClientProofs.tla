---------------------------- MODULE LibClientProofs ----------------------------
(***************************************************************************)
(* The library for every number of threads, handles and descriptors: what  *)
(* a wrapper returns is the driver's answer to its own ioctl, descriptors  *)
(* are neither leaked nor closed twice, and a thread in an ioctl is alone  *)
(* with an open device.                                                    *)
(***************************************************************************)
EXTENDS LibClient, TLAPS, FiniteSetTheorems

InWrapper == {"lock", "ioctl", "unlock", "errno"}

\* What a thread is doing, told from where it is.
ControlOK ==
  \A t \in Threads :
    /\ pc[t] = "idle" => h[t] = {}
    /\ pc[t] = "alloc" => call[t] = "open" /\ newfd[t] \in Fds
    /\ pc[t] \in InWrapper => call[t] \in LibraryCommands

\* The thread that closes a handle is alone with it, and it is still allocated.
CloserAlone ==
  \A t \in Threads : pc[t] \in {"close", "free"} =>
    /\ call[t] = "close"
    /\ \E x \in live : h[t] = {x} /\ \A u \in Threads : u # t => x \notin h[u]

\* From the ioctl on, r and errno hold the driver's answer.
AnswerKept ==
  \A t \in Threads :
    pc[t] \in {"unlock", "errno"} =>
      /\ r[t] = IF answer[t] = "0" THEN 0 ELSE -1
      /\ answer[t] # "0" => errno[t] = answer[t]

\* FdsOwned, without counting.
OneOwner ==
  \A f \in Fds : IF f \in fds THEN \E o : Owners(f) = {o} ELSE Owners(f) = {}

\* A handle wraps a descriptor for as long as it is allocated, and that it is for
\* as long as a wrapper uses it; the mutex is the wrapper's around the ioctl.
CallersOK ==
  /\ \A x \in live : fd[x] \in Fds
  /\ \A t \in Threads : pc[t] \in InWrapper =>
       \E x \in live : h[t] = {x} /\ (pc[t] \in {"ioctl", "unlock"} => lock[x] = t)

LibInv ==
  /\ LibTypeOK /\ ControlOK /\ CloserAlone /\ AnswerKept /\ OwnAnswer /\ OneOwner
  /\ CallersOK

-----------------------------------------------------------------------------
\* No name of a command is the name of another function of the library.
LEMMA CommandNames ==
  /\ LibraryCommands \subseteq Commands
  /\ \A c \in Commands : c \notin {"none", "open", "close", "raw"}
BY DEF LibraryCommands, Commands, LibraryArg, KernelArg

\* Whatever the number, the driver answers with an errno the library knows.
LEMMA IoctlErrno == \A n : \A v \in Values : Ioctl(n, v) \subseteq Errno
<1>1. \A c \in Commands, v \in Values : Answers(c, v) \subseteq Errno
  BY DEF Commands, KernelArg, Answers, Errno, Values
<1> QED BY <1>1 DEF Ioctl, Handlers, Errno

\* The first three descriptors are never the library's.
LEMMA FdsPositive == \A f \in Fds : f \in Int /\ f >= 3
BY FdsAssumption DEF Fds

\* Nothing is open at first.
LEMMA LibInit == Init => LibInv
<1> SUFFICES ASSUME Init PROVE LibInv
  OBVIOUS
<1>1. LibTypeOK
  BY DEF Init, LibTypeOK, PC, Errno
<1>2. ControlOK /\ CloserAlone /\ AnswerKept /\ OwnAnswer /\ CallersOK
  BY DEF Init, ControlOK, CloserAlone, AnswerKept, OwnAnswer, CallersOK, InWrapper
<1>3. OneOwner
  BY DEF Init, OneOwner, Owners
<1> QED BY <1>1, <1>2, <1>3 DEF LibInv

-----------------------------------------------------------------------------
(***************************************************************************)
(* Types and control, action by action.                                    *)
(***************************************************************************)

\* Every function of the library keeps the variables within their types.
LEMMA LibTypeStep ==
  ASSUME LibTypeOK, ControlOK, CloserAlone, NEW t \in Threads, Enter(t) \/ Step(t)
  PROVE  LibTypeOK'
<1> USE DEF LibTypeOK, Result, Goto, PC, shared
<1>1. \A e \in {"0", "EPERM", "EINVAL", "EMFILE", "ENOMEM", "EBADF"} : e \in Errno
  BY DEF Errno
<1>2. CASE OpenNull(t)
  BY <1>1, <1>2 DEF OpenNull
<1>3. CASE OpenDevice(t)
  BY <1>1, <1>3 DEF OpenDevice, OpenResults
<1>4. CASE Close(t)
  BY <1>1, <1>4 DEF Close
<1>5. CASE CallInvalid(t)
  BY <1>1, <1>5 DEF CallInvalid
<1>6. CASE Call(t)
  BY <1>6 DEF Call
<1>7. CASE RawIoctl(t)
  BY <1>7, IoctlErrno DEF RawIoctl
<1>8. CASE OpenAlloc(t)
  BY <1>1, <1>8 DEF OpenAlloc, GiveBackFd, ControlOK
<1>9. CASE CloseFd(t)
  <2>1. fds' \subseteq Fds
    BY <1>9 DEF CloseFd, CloserAlone
  <2> QED BY <1>9, <2>1 DEF CloseFd
<1>10. CASE CloseFree(t)
  BY <1>1, <1>10 DEF CloseFree
<1>11. CASE Lock(t)
  BY <1>11 DEF Lock, MutexFree
<1>12. CASE DoIoctl(t)
  <2>1. PICK e \in Errno :
          /\ answer' = [answer EXCEPT ![t] = e]
          /\ r' = [r EXCEPT ![t] = IF e = "0" THEN 0 ELSE -1]
          /\ errno' = [errno EXCEPT ![t] = IF e = "0" THEN @ ELSE e]
          /\ pc' = [pc EXCEPT ![t] = "unlock"]
    BY <1>1, <1>12, IoctlErrno DEF DoIoctl, AfterIoctl
  <2> QED BY <1>12, <2>1 DEF DoIoctl
<1>13. CASE Unlock(t)
  BY <1>13 DEF Unlock
<1>14. CASE CallEnd(t)
  BY <1>1, <1>14 DEF CallEnd, Translate
<1>15. CASE Return(t)
  BY <1>1, <1>15 DEF Return
<1> QED BY <1>2, <1>3, <1>4, <1>5, <1>6, <1>7, <1>8, <1>9, <1>10, <1>11, <1>12, <1>13,
           <1>14, <1>15 DEF Enter, Step

\* Types of a step that changes nothing.
LEMMA LibTypeStutter == LibTypeOK /\ UNCHANGED vars => LibTypeOK'
BY DEF LibTypeOK, vars, shared, local

\* A thread writes its own locals only.
LEMMA OthersUntouched ==
  ASSUME LibTypeOK, NEW t \in Threads, Enter(t) \/ Step(t), NEW u \in Threads, u # t
  PROVE  /\ pc'[u] = pc[u] /\ call'[u] = call[u] /\ h'[u] = h[u] /\ newfd'[u] = newfd[u]
         /\ r'[u] = r[u] /\ errno'[u] = errno[u]
         /\ res'[u] = res[u] /\ answer'[u] = answer[u]
<1> USE DEF LibTypeOK, Result, Goto
<1>1. CASE Enter(t)
  BY <1>1 DEF Enter, OpenNull, OpenDevice, Close, CallInvalid, Call, RawIoctl
<1>2. CASE Step(t)
  BY <1>2 DEF Step, OpenAlloc, CloseFd, CloseFree, Lock, DoIoctl, Unlock, CallEnd, Return
<1> QED BY <1>1, <1>2

\* Where a step can lead a thread.
LEMMA ControlStep ==
  ASSUME LibInv, NEW t \in Threads, Enter(t) \/ Step(t)
  PROVE  ControlOK'
<1>1. LibTypeOK /\ ControlOK /\ LibTypeOK'
  BY LibTypeStep DEF LibInv
<1> USE DEF LibTypeOK, Result, Goto, InWrapper
<1>2. /\ pc'[t] = "idle" => h'[t] = {}
      /\ pc'[t] = "alloc" => call'[t] = "open" /\ newfd'[t] \in Fds
      /\ pc'[t] \in InWrapper => call'[t] \in LibraryCommands
  <2>1. CASE Enter(t) /\ ~OpenDevice(t)
    BY <1>1, <2>1 DEF Enter, OpenNull, Close, CallInvalid, Call, RawIoctl
  <2>2. CASE OpenDevice(t)
    BY <1>1, <2>2 DEF OpenDevice, OpenResults, OpenedFd
  <2>3. CASE Step(t)
    BY <1>1, <2>3 DEF ControlOK, Step, OpenAlloc, CloseFd, CloseFree, Lock, DoIoctl, Unlock,
       CallEnd, Return, AfterIoctl
  <2> QED BY <2>1, <2>2, <2>3
<1>3. \A u \in Threads : u # t => /\ pc'[u] = pc[u] /\ call'[u] = call[u]
                                  /\ h'[u] = h[u] /\ newfd'[u] = newfd[u]
  BY <1>1, OthersUntouched
<1> QED BY <1>1, <1>2, <1>3 DEF ControlOK

\* The rule the application keeps is enough: once a thread closes a handle, no
\* other gets at it until the memory is given back.
LEMMA CloserStep ==
  ASSUME LibInv, NEW t \in Threads, Enter(t) \/ Step(t)
  PROVE  CloserAlone'
<1>1. LibTypeOK /\ ControlOK /\ CloserAlone /\ LibTypeOK'
  BY LibTypeStep DEF LibInv
<1>2. \A u \in Threads : u # t => pc'[u] = pc[u] /\ call'[u] = call[u] /\ h'[u] = h[u]
  BY <1>1, OthersUntouched
<1> USE DEF LibTypeOK, Result, Goto
<1>3. ASSUME pc'[t] \in {"close", "free"}
      PROVE  /\ call'[t] = "close"
             /\ \E x \in live' : h'[t] = {x} /\ \A u \in Threads : u # t => x \notin h'[u]
  <2>1. CASE Close(t)
    BY <1>1, <1>2, <1>3, <2>1 DEF Close, Closable, shared
  <2>2. CASE CloseFd(t)
    BY <1>1, <1>2, <2>2 DEF CloseFd, CloserAlone
  <2>3. CASE ~Close(t) /\ ~CloseFd(t)
    BY <1>1, <1>3, <2>3 DEF Enter, Step, OpenNull, OpenDevice, CallInvalid, Call, RawIoctl,
       OpenAlloc, CloseFree, Lock, DoIoctl, Unlock, CallEnd, Return, AfterIoctl
  <2> QED BY <2>1, <2>2, <2>3
<1>4. ASSUME NEW u \in Threads, u # t, pc[u] \in {"close", "free"},
             NEW x \in live, h[u] = {x}, call[u] = "close",
             \A w \in Threads : w # u => x \notin h[w]
      PROVE  x \in live' /\ x \notin h'[t]
  <2>1. x \notin h[t] /\ x \in h[u]
    BY <1>4
  <2>2. CASE Enter(t)
    BY <1>1, <1>4, <2>1, <2>2 DEF Enter, OpenNull, OpenDevice, Close, CallInvalid, Call,
       RawIoctl, Usable, Closable, shared
  <2>3. CASE Step(t)
    BY <1>1, <1>4, <2>1, <2>3 DEF Step, OpenAlloc, CloseFd, CloseFree, Lock, DoIoctl, Unlock,
       CallEnd, Return, shared
  <2> QED BY <2>2, <2>3
<1> QED
  <2> SUFFICES ASSUME NEW u \in Threads, u # t, pc'[u] \in {"close", "free"}
               PROVE  /\ call'[u] = "close"
                      /\ \E x \in live' : h'[u] = {x} /\ \A w \in Threads : w # u => x \notin h'[w]
    BY <1>3 DEF CloserAlone
  <2>1. pc[u] \in {"close", "free"} /\ call'[u] = call[u] /\ h'[u] = h[u]
    BY <1>2
  <2>2. PICK x \in live : h[u] = {x} /\ \A w \in Threads : w # u => x \notin h[w]
    BY <1>1, <2>1 DEF CloserAlone
  <2>3. call[u] = "close"
    BY <1>1, <2>1 DEF CloserAlone
  <2> QED BY <1>2, <1>4, <2>1, <2>2, <2>3

\* Other threads' ioctls and the unlock leave r and errno alone.
LEMMA AnswerStep ==
  ASSUME LibInv, NEW t \in Threads, Enter(t) \/ Step(t)
  PROVE  AnswerKept' /\ OwnAnswer'
<1>1. LibTypeOK /\ ControlOK /\ AnswerKept /\ OwnAnswer
  BY DEF LibInv
<1>2. \A u \in Threads : u # t =>
        /\ pc'[u] = pc[u] /\ call'[u] = call[u] /\ h'[u] = h[u] /\ r'[u] = r[u]
        /\ errno'[u] = errno[u] /\ res'[u] = res[u] /\ answer'[u] = answer[u]
  BY <1>1, OthersUntouched
<1> USE DEF LibTypeOK, Result, Goto
<1>3. pc'[t] \in {"unlock", "errno"} =>
        /\ r'[t] = IF answer'[t] = "0" THEN 0 ELSE -1
        /\ answer'[t] # "0" => errno'[t] = answer'[t]
  <2>1. CASE Enter(t)
    BY <1>1, <2>1 DEF Enter, OpenNull, OpenDevice, Close, CallInvalid, Call, RawIoctl
  <2>2. CASE Step(t)
    BY <1>1, <2>2 DEF AnswerKept, Step, OpenAlloc, CloseFd, CloseFree, Lock, DoIoctl, Unlock,
       CallEnd, Return
  <2> QED BY <2>1, <2>2
<1>4. pc'[t] = "ret" /\ call'[t] \in LibraryCommands /\ h'[t] # {} => res'[t] = answer'[t]
  <2>1. CASE Enter(t)
    BY <1>1, <2>1, CommandNames DEF ControlOK, Enter, OpenNull, OpenDevice, Close, CallInvalid,
       Call, RawIoctl
  <2>2. CASE CallEnd(t)
    BY <1>1, <2>2 DEF CallEnd, Translate, AnswerKept
  <2>3. CASE Step(t) /\ ~CallEnd(t)
    BY <1>1, <2>3, CommandNames DEF LibInv, ControlOK, CloserAlone, Step, OpenAlloc, CloseFd,
       CloseFree, Lock, DoIoctl, Unlock, Return, AfterIoctl
  <2> QED BY <2>1, <2>2, <2>3
<1>5. AnswerKept'
  BY <1>1, <1>2, <1>3 DEF AnswerKept
<1>6. OwnAnswer'
  BY <1>1, <1>2, <1>4 DEF OwnAnswer
<1> QED BY <1>5, <1>6

\* A handle goes only when nobody uses it, and a mutex only when its holder gives
\* it back.
LEMMA CallersStep ==
  ASSUME LibInv, NEW t \in Threads, Enter(t) \/ Step(t)
  PROVE  CallersOK'
<1>1. LibTypeOK /\ ControlOK /\ CloserAlone /\ CallersOK
  BY DEF LibInv
<1>2. \A u \in Threads : u # t => pc'[u] = pc[u] /\ h'[u] = h[u]
  BY <1>1, OthersUntouched
<1> USE DEF LibTypeOK, Result, Goto, shared
<1>3. \A x \in live' : fd'[x] \in Fds
  <2>1. CASE OpenAlloc(t)
    BY <1>1, <2>1 DEF OpenAlloc, ControlOK, CallersOK
  <2>2. CASE CloseFree(t)
    BY <1>1, <2>2 DEF CloseFree, CallersOK
  <2>3. CASE UNCHANGED <<live, fd>>
    BY <1>1, <2>3 DEF CallersOK
  <2> QED BY <2>1, <2>2, <2>3 DEF Enter, Step, OpenNull, OpenDevice, Close, CallInvalid, Call,
       RawIoctl, CloseFd, Lock, DoIoctl, Unlock, CallEnd, Return
<1>4. ASSUME pc'[t] \in InWrapper
      PROVE  \E x \in live' : h'[t] = {x} /\ (pc'[t] \in {"ioctl", "unlock"} => lock'[x] = t)
  <2> USE DEF InWrapper
  <2>1. CASE Call(t)
    BY <1>1, <2>1 DEF Call, Usable
  <2>2. CASE Lock(t)
    BY <1>1, <2>2 DEF Lock, CallersOK
  <2>3. CASE DoIoctl(t)
    BY <1>1, <2>3 DEF DoIoctl, AfterIoctl, CallersOK
  <2>4. CASE Unlock(t)
    BY <1>1, <2>4 DEF Unlock, CallersOK
  <2>5. CASE Enter(t) /\ ~Call(t)
    BY <1>1, <1>4, <2>5 DEF Enter, OpenNull, OpenDevice, Close, CallInvalid, RawIoctl
  <2>6. CASE OpenAlloc(t) \/ CloseFd(t) \/ CloseFree(t) \/ CallEnd(t) \/ Return(t)
    BY <1>1, <1>4, <2>6 DEF OpenAlloc, CloseFd, CloseFree, CallEnd, Return
  <2> QED BY <2>1, <2>2, <2>3, <2>4, <2>5, <2>6 DEF Step
<1>5. ASSUME NEW u \in Threads, u # t, NEW x \in live, h[u] = {x}
      PROVE  x \in live' /\ (lock[x] = u => lock'[x] = u)
  <2>1. CASE CloseFree(t)
    BY <1>1, <1>5, <2>1 DEF CloseFree, CloserAlone
  <2>2. CASE OpenAlloc(t)
    BY <1>1, <1>5, <2>2 DEF OpenAlloc
  <2>3. CASE Lock(t)
    BY <1>1, <1>5, <2>3, NobodyAssumption DEF Lock, MutexFree
  <2>4. CASE Unlock(t)
    BY <1>1, <1>5, <2>4 DEF Unlock, CallersOK, InWrapper
  <2>5. CASE UNCHANGED <<live, lock>>
    BY <1>5, <2>5
  <2> QED BY <2>1, <2>2, <2>3, <2>4, <2>5 DEF Enter, Step, OpenNull, OpenDevice, Close,
       CallInvalid, Call, RawIoctl, CloseFd, DoIoctl, CallEnd, Return
<1>6. ASSUME NEW u \in Threads, u # t, pc'[u] \in InWrapper
      PROVE  \E x \in live' : h'[u] = {x} /\ (pc'[u] \in {"ioctl", "unlock"} => lock'[x] = u)
  <2>1. PICK x \in live : h[u] = {x} /\ (pc[u] \in {"ioctl", "unlock"} => lock[x] = u)
    BY <1>1, <1>2, <1>6 DEF CallersOK
  <2> QED BY <1>2, <1>5, <1>6, <2>1
<1> QED BY <1>3, <1>4, <1>6 DEF CallersOK

-----------------------------------------------------------------------------
(***************************************************************************)
(* Who owns a descriptor.                                                  *)
(***************************************************************************)

HandleOwns(x, f) ==
  x \in live /\ fd[x] = f /\ \A t \in Threads : x \in h[t] => pc[t] # "free"
ThreadOwns(t, f) == t \in Threads /\ pc[t] = "alloc" /\ newfd[t] = f

\* A step after which the same handles and threads own a descriptor.
LEMMA OwnersKept ==
  ASSUME NEW f,
         \A x : HandleOwns(x, f)' <=> HandleOwns(x, f),
         \A t : ThreadOwns(t, f)' <=> ThreadOwns(t, f)
  PROVE  Owners(f)' = Owners(f)
BY DEF Owners, HandleOwns, ThreadOwns

\* A step after which thread t, and nobody else, is a new owner.
LEMMA OwnersOpened ==
  ASSUME NEW f, NEW t, ThreadOwns(t, f)',
         \A x : HandleOwns(x, f)' <=> HandleOwns(x, f),
         \A u : u # t => (ThreadOwns(u, f)' <=> ThreadOwns(u, f))
  PROVE  Owners(f)' = Owners(f) \cup {<<"thread", t>>}
BY DEF Owners, HandleOwns, ThreadOwns

\* A step after which thread t owns f no longer.
LEMMA OwnersGivenBack ==
  ASSUME NEW f, NEW t, ~ThreadOwns(t, f)',
         \A x : HandleOwns(x, f)' <=> HandleOwns(x, f),
         \A u : u # t => (ThreadOwns(u, f)' <=> ThreadOwns(u, f))
  PROVE  Owners(f)' = Owners(f) \ {<<"thread", t>>}
BY DEF Owners, HandleOwns, ThreadOwns

\* A step after which handle y owns f no longer.
LEMMA OwnersClosed ==
  ASSUME NEW f, NEW y, ~HandleOwns(y, f)',
         \A x : x # y => (HandleOwns(x, f)' <=> HandleOwns(x, f)),
         \A t : ThreadOwns(t, f)' <=> ThreadOwns(t, f)
  PROVE  Owners(f)' = Owners(f) \ {<<"handle", y>>}
BY DEF Owners, HandleOwns, ThreadOwns

\* A step by which handle y takes f over from thread t.
LEMMA OwnersWrapped ==
  ASSUME NEW f, NEW y, NEW t, HandleOwns(y, f)', ~ThreadOwns(t, f)',
         \A x : x # y => (HandleOwns(x, f)' <=> HandleOwns(x, f)),
         \A u : u # t => (ThreadOwns(u, f)' <=> ThreadOwns(u, f))
  PROVE  Owners(f)' = (Owners(f) \ {<<"thread", t>>}) \cup {<<"handle", y>>}
BY DEF Owners, HandleOwns, ThreadOwns

\* Opening, wrapping, giving back and closing: each moves one descriptor from
\* one owner to another, or to nobody together with its number.
LEMMA OneOwnerStep ==
  ASSUME LibInv, NEW t \in Threads, Enter(t) \/ Step(t)
  PROVE  OneOwner'
<1>1. LibTypeOK /\ ControlOK /\ CloserAlone /\ OneOwner
  BY DEF LibInv
<1>2. \A u \in Threads : u # t => /\ pc'[u] = pc[u] /\ h'[u] = h[u] /\ newfd'[u] = newfd[u]
  BY <1>1, OthersUntouched
<1> USE DEF LibTypeOK, Result, Goto, shared
<1>3. ASSUME UNCHANGED <<fds, live, fd>>, pc[t] \notin {"alloc", "free"},
             pc'[t] \notin {"alloc", "free"}
      PROVE  OneOwner'
  <2>1. \A f \in Fds : Owners(f)' = Owners(f)
    BY <1>1, <1>2, <1>3, OwnersKept DEF HandleOwns, ThreadOwns
  <2> QED BY <1>1, <1>3, <2>1 DEF OneOwner
<1>4. CASE OpenDevice(t)
  <2>1. PICK f \in OpenResults :
          /\ newfd' = [newfd EXCEPT ![t] = f]
          /\ fds' = fds \cup ({f} \cap Fds)
          /\ IF OpenedFd(f) THEN pc' = [pc EXCEPT ![t] = "alloc"]
                            ELSE pc' = [pc EXCEPT ![t] = "ret"]
    BY <1>4 DEF OpenDevice
  <2>2. pc[t] = "idle" /\ UNCHANGED <<live, fd, h>>
    BY <1>4 DEF OpenDevice
  <2>3. CASE f = -1
    <3>1. f \notin Fds /\ ~OpenedFd(f)
      BY <2>3, FdsPositive DEF OpenedFd
    <3> QED BY <1>1, <1>3, <2>1, <2>2, <3>1
  <2>4. CASE f \in Fds \ fds
    <3>1. OpenedFd(f)
      BY <2>4, FdsPositive DEF OpenedFd
    <3>2. pc'[t] = "alloc" /\ newfd'[t] = f /\ fds' = fds \cup {f}
      BY <1>1, <2>1, <2>4, <3>1
    <3>3. Owners(f)' = Owners(f) \cup {<<"thread", t>>}
      BY <1>1, <1>2, <2>2, <3>2, OwnersOpened DEF HandleOwns, ThreadOwns
    <3>4. \A g \in Fds : g # f => Owners(g)' = Owners(g)
      BY <1>1, <1>2, <2>2, <3>2, OwnersKept DEF HandleOwns, ThreadOwns
    <3>5. Owners(f)' = {<<"thread", t>>}
      BY <1>1, <2>4, <3>3 DEF OneOwner
    <3> QED BY <1>1, <3>2, <3>4, <3>5 DEF OneOwner
  <2> QED BY <2>1, <2>3, <2>4 DEF OpenResults
<1>5. CASE OpenAlloc(t)
  <2>1. pc[t] = "alloc" /\ pc'[t] = "ret" /\ UNCHANGED newfd
    BY <1>1, <1>5 DEF OpenAlloc
  <2>2. PICK f \in Fds : newfd[t] = f
    BY <1>1, <2>1 DEF ControlOK
  <2>3. f \in fds /\ Owners(f) = {<<"thread", t>>}
    <3>1. <<"thread", t>> \in Owners(f)
      BY <2>1, <2>2 DEF Owners
    <3> QED BY <1>1, <3>1 DEF OneOwner
  <2>4. CASE fds' = fds \ {f} /\ UNCHANGED <<live, fd, h>>
    <3>1. Owners(f)' = Owners(f) \ {<<"thread", t>>}
      BY <1>1, <1>2, <2>1, <2>4, OwnersGivenBack DEF HandleOwns, ThreadOwns
    <3>2. \A g \in Fds : g # f => Owners(g)' = Owners(g)
      BY <1>1, <1>2, <2>1, <2>2, <2>4, OwnersKept DEF HandleOwns, ThreadOwns
    <3> QED BY <1>1, <2>3, <2>4, <3>1, <3>2 DEF OneOwner
  <2>5. ASSUME NEW y \in Handles \ live, live' = live \cup {y},
               fd' = [fd EXCEPT ![y] = f], h' = [h EXCEPT ![t] = {y}], UNCHANGED fds
        PROVE  OneOwner'
    <3>1. \A u \in Threads : y \in h'[u] => pc'[u] # "free"
      BY <1>1, <1>2, <2>1, <2>5 DEF CloserAlone
    <3>2. \A x : x # y => \A g \in Fds : HandleOwns(x, g)' <=> HandleOwns(x, g)
      BY <1>1, <1>2, <2>1, <2>5 DEF HandleOwns
    <3>3. HandleOwns(y, f)' /\ ~ThreadOwns(t, f)'
      BY <1>1, <2>1, <2>5, <3>1 DEF HandleOwns, ThreadOwns
    <3>4. Owners(f)' = (Owners(f) \ {<<"thread", t>>}) \cup {<<"handle", y>>}
      <4>1. \A u : u # t => (ThreadOwns(u, f)' <=> ThreadOwns(u, f))
        BY <1>2, <2>1 DEF ThreadOwns
      <4> QED BY <3>2, <3>3, <4>1, OwnersWrapped
    <3>5. \A g \in Fds : g # f => Owners(g)' = Owners(g)
      <4> SUFFICES ASSUME NEW g \in Fds, g # f PROVE Owners(g)' = Owners(g)
        OBVIOUS
      <4>1. ~HandleOwns(y, g)' /\ ~HandleOwns(y, g)
        BY <1>1, <2>5 DEF HandleOwns
      <4>2. \A u : ThreadOwns(u, g)' <=> ThreadOwns(u, g)
        BY <1>2, <2>1, <2>2 DEF ThreadOwns
      <4> QED BY <3>2, <4>1, <4>2, OwnersKept
    <3>6. Owners(f)' = {<<"handle", y>>}
      BY <2>3, <3>4
    <3> QED BY <1>1, <2>3, <2>5, <3>5, <3>6 DEF OneOwner
  <2> QED BY <1>5, <2>2, <2>4, <2>5 DEF OpenAlloc, GiveBackFd
<1>6. CASE CloseFd(t)
  <2>1. pc[t] = "close" /\ pc'[t] = "free" /\ UNCHANGED <<live, fd, h, newfd>>
    BY <1>1, <1>6 DEF CloseFd
  <2>2. PICK y \in live : h[t] = {y} /\ \A u \in Threads : u # t => y \notin h[u]
    BY <1>1, <2>1 DEF CloserAlone
  <2>3. fds' = fds \ {fd[y]}
    BY <1>6, <2>2 DEF CloseFd
  <2>4. \A g \in Fds : ~HandleOwns(y, g)'
    BY <2>1, <2>2 DEF HandleOwns
  <2>5. \A g \in Fds : /\ \A x : x # y => (HandleOwns(x, g)' <=> HandleOwns(x, g))
                       /\ \A u : ThreadOwns(u, g)' <=> ThreadOwns(u, g)
    BY <1>1, <1>2, <2>1, <2>2 DEF HandleOwns, ThreadOwns
  <2>6. \A g \in Fds : Owners(g)' = Owners(g) \ {<<"handle", y>>}
    BY <2>4, <2>5, OwnersClosed
  <2>7. \A g \in Fds : <<"handle", y>> \in Owners(g) <=> fd[y] = g
    BY <2>1, <2>2 DEF Owners
  <2> QED BY <1>1, <2>3, <2>6, <2>7 DEF OneOwner
<1>7. CASE CloseFree(t)
  <2>1. pc[t] = "free" /\ pc'[t] = "ret" /\ UNCHANGED <<fds, h, newfd>> /\ live' = live \ h[t]
    BY <1>1, <1>7 DEF CloseFree
  <2>2. PICK y \in live : h[t] = {y} /\ \A u \in Threads : u # t => y \notin h[u]
    BY <1>1, <2>1 DEF CloserAlone
  <2>3. \A x \in live : x # y => fd'[x] = fd[x]
    BY <1>1, <1>7, <2>2 DEF CloseFree
  <2>4. \A g \in Fds : ~HandleOwns(y, g)' /\ ~HandleOwns(y, g)
    BY <2>1, <2>2 DEF HandleOwns
  <2>5. \A g \in Fds : /\ \A x : x # y => (HandleOwns(x, g)' <=> HandleOwns(x, g))
                       /\ \A u : ThreadOwns(u, g)' <=> ThreadOwns(u, g)
    BY <1>1, <1>2, <2>1, <2>2, <2>3 DEF HandleOwns, ThreadOwns
  <2>6. \A g \in Fds : Owners(g)' = Owners(g)
    BY <2>4, <2>5, OwnersKept
  <2> QED BY <1>1, <2>1, <2>6 DEF OneOwner
<1>8. CASE OpenNull(t) \/ Close(t) \/ CallInvalid(t) \/ Call(t) \/ RawIoctl(t)
  BY <1>1, <1>3, <1>8 DEF OpenNull, Close, CallInvalid, Call, RawIoctl
<1>9. CASE Lock(t) \/ DoIoctl(t) \/ Unlock(t) \/ CallEnd(t) \/ Return(t)
  BY <1>1, <1>3, <1>9 DEF Lock, DoIoctl, AfterIoctl, Unlock, CallEnd, Return
<1> QED BY <1>4, <1>5, <1>6, <1>7, <1>8, <1>9 DEF Enter, Step

-----------------------------------------------------------------------------
\* LibInv is inductive.
LEMMA LibStep == LibInv /\ [Next]_vars => LibInv'
<1>1. ASSUME LibInv, UNCHANGED vars PROVE LibInv'
  <2>1. \A f : Owners(f)' = Owners(f)
    BY <1>1 DEF Owners, vars, shared, local
  <2>2. OneOwner'
    BY <1>1, <2>1 DEF LibInv, OneOwner, vars, shared
  <2> QED BY <1>1, <2>2, LibTypeStutter DEF LibInv, ControlOK, CloserAlone, AnswerKept, OwnAnswer,
       CallersOK, vars, shared, local
<1>2. ASSUME LibInv, NEW t \in Threads, Enter(t) \/ Step(t) PROVE LibInv'
  <2>1. LibTypeOK'
    BY <1>2, LibTypeStep DEF LibInv
  <2> QED BY <1>2, <2>1, ControlStep, CloserStep, AnswerStep, OneOwnerStep,
          CallersStep DEF LibInv
<1> QED BY <1>1, <1>2 DEF Next

\* Every variable stays within its type: no handle ever wraps the -1 of a failed
\* open(2), and no wrapper returns anything but 0 or a known errno.
THEOREM LibTypeCorrect == Spec => []LibTypeOK
<1>1. LibInv => LibTypeOK
  BY DEF LibInv
<1> QED BY <1>1, LibInit, LibStep, PTL DEF Spec

\* However many threads open, share and close handles, every open descriptor
\* has one owner that will close it: none is leaked when calloc fails, none is
\* closed twice.
THEOREM DescriptorsOwned == Spec => []FdsOwned
<1>1. LibInv => FdsOwned
  <2> SUFFICES ASSUME LibInv, NEW f \in Fds
               PROVE  Cardinality(Owners(f)) = IF f \in fds THEN 1 ELSE 0
    BY DEF FdsOwned
  <2>1. CASE f \in fds
    <3>1. PICK o : Owners(f) = {o}
      BY <2>1 DEF LibInv, OneOwner
    <3> QED BY <2>1, <3>1, FS_Singleton
  <2>2. CASE f \notin fds
    BY <2>2, FS_EmptySet DEF LibInv, OneOwner
  <2> QED BY <2>1, <2>2
<1> QED BY <1>1, LibInit, LibStep, PTL DEF Spec

\* A wrapper returns the driver's answer to its own ioctl, for every command and
\* every error.
THEOREM AnswersOwn == Spec => []OwnAnswer
<1>1. LibInv => OwnAnswer
  BY DEF LibInv
<1> QED BY <1>1, LibInit, LibStep, PTL DEF Spec

\* However many threads share, open and close handles, a thread in an ioctl is
\* alone with a handle that is allocated and open.
THEOREM CallsSerial == Spec => []CallsOwnDevice
<1>1. LibInv => CallsOwnDevice
  <2> SUFFICES ASSUME LibInv, NEW t \in Threads, pc[t] = "ioctl"
               PROVE  \E x \in live : h[t] = {x} /\ lock[x] = t /\ fd[x] \in fds
    BY DEF CallsOwnDevice
  <2>1. PICK x \in live : h[t] = {x} /\ lock[x] = t /\ fd[x] \in Fds
    BY DEF LibInv, CallersOK, InWrapper
  <2>2. \A u \in Threads : x \in h[u] => pc[u] # "free"
    BY <2>1 DEF LibInv, CloserAlone
  <2>3. <<"handle", x>> \in Owners(fd[x])
    BY <2>1, <2>2 DEF Owners
  <2> QED BY <2>1, <2>3 DEF LibInv, OneOwner
<1> QED BY <1>1, LibInit, LibStep, PTL DEF Spec

=============================================================================
