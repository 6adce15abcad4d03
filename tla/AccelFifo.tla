------------------------------- MODULE AccelFifo -------------------------------
(***************************************************************************)
(* What the accelerators promise the submitters, with threads, locks and   *)
(* lists left out: each accelerator executes the tasks given to it one at  *)
(* a time, in the order in which they were accepted, each exactly once,    *)
(* and none is dropped.  TaskEngine is shown to implement this.            *)
(***************************************************************************)
EXTENDS Naturals, Sequences

CONSTANTS
  Items,     \* what can be executed
  Servers,   \* who executes
  None       \* no item

VARIABLES
  waiting,   \* accepted items of each server, oldest first
  executing, \* the item each server is at, or None
  finished   \* items whose execution is over

fifoVars == <<waiting, executing, finished>>

FifoInit ==
  /\ waiting = [a \in Servers |-> <<>>]
  /\ executing = [a \in Servers |-> None]
  /\ finished = {}

\* Item s was given to some server.
Accepted(s) ==
  \/ s \in finished
  \/ \E a \in Servers : executing[a] = s
  \/ \E a \in Servers : \E i \in 1..Len(waiting[a]) : waiting[a][i] = s

Accept(a, s) ==
  /\ ~Accepted(s)
  /\ waiting' = [waiting EXCEPT ![a] = Append(@, s)]
  /\ UNCHANGED <<executing, finished>>

Begin(a) ==
  /\ executing[a] = None
  /\ waiting[a] # <<>>
  /\ executing' = [executing EXCEPT ![a] = Head(waiting[a])]
  /\ waiting' = [waiting EXCEPT ![a] = Tail(@)]
  /\ UNCHANGED finished

End(a) ==
  /\ executing[a] # None
  /\ finished' = finished \cup {executing[a]}
  /\ executing' = [executing EXCEPT ![a] = None]
  /\ UNCHANGED waiting

FifoNext ==
  \E a \in Servers : Begin(a) \/ End(a) \/ \E s \in Items : Accept(a, s)

FifoSpec == FifoInit /\ [][FifoNext]_fifoVars

=============================================================================
