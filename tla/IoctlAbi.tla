------------------------------- MODULE IoctlAbi -------------------------------
(***************************************************************************)
(* The binary interface between user space and the driver: the argument    *)
(* structures as the kernel header (cortex_forge_uapi.h) and as the        *)
(* library header (libcortex-forge.h) lay them out, the ioctl numbers that *)
(* each side builds from them, and the dispatch of cortex_forge_ioctl.     *)
(*                                                                         *)
(* A structure is the sequence of the sizes of its members, an array being *)
(* as many members.  On the 64-bit target every member is aligned to its   *)
(* own size.                                                               *)
(***************************************************************************)
EXTENDS Naturals, Sequences
LOCAL INSTANCE SequencesExt

RoundUp(n, a) == ((n + a - 1) \div a) * a

\* Where a member of the given size ends if it comes after offset off.
MemberEnd(off, size) == RoundUp(off, size) + size

\* sizeof: the last member's end, padded to the largest alignment.
SizeOf(struct) ==
  LET align == IF 8 \in ToSet(struct) THEN 8 ELSE 4
  IN RoundUp(FoldLeft(MemberEnd, 0, struct), align)

U32 == <<4>>

\* Kernel side.
KTaskDesc   == <<4, 4, 4, 4, 4, 8, 8, 4, 4, 8, 8, 8, 8>>
KTaskStatus == <<4, 4, 8, 4, 4, 4, 4>>
KAccelInfo  == <<4, 4, 4, 4, 4, 4, 8, 8, 4, 4, 4, 4>>
KProfile    == <<8, 8, 8, 8, 4, 4, 8, 8, 8, 8>>

\* Library side: the same names, without the reserved members.
LTaskDesc   == <<4, 4, 4, 4, 4, 8, 8, 4, 4>>
LTaskStatus == <<4, 4, 8, 4>>
LAccelInfo  == <<4, 4, 4, 4, 4, 4, 8, 8, 4>>

KernelArg == [SUBMIT_TASK |-> KTaskDesc, QUERY_TASK |-> KTaskStatus,
              CANCEL_TASK |-> U32, GET_ACCEL_INFO |-> KAccelInfo,
              SET_POWER |-> U32, GET_VERSION |-> U32,
              GET_PROFILE |-> KProfile, SET_ACCEL |-> U32]

LibraryArg == [SUBMIT_TASK |-> LTaskDesc, QUERY_TASK |-> LTaskStatus,
               CANCEL_TASK |-> U32, GET_ACCEL_INFO |-> LAccelInfo,
               SET_POWER |-> U32, GET_VERSION |-> U32]

Commands        == DOMAIN KernelArg
LibraryCommands == DOMAIN LibraryArg

\* Direction and ordinal, on which the two sides agree.
Direction == [SUBMIT_TASK |-> "RW", QUERY_TASK |-> "RW", CANCEL_TASK |-> "W",
              GET_ACCEL_INFO |-> "R", SET_POWER |-> "W", GET_VERSION |-> "R",
              GET_PROFILE |-> "R", SET_ACCEL |-> "W"]
Ordinal   == [SUBMIT_TASK |-> 1, QUERY_TASK |-> 2, CANCEL_TASK |-> 3,
              GET_ACCEL_INFO |-> 4, SET_POWER |-> 5, GET_VERSION |-> 6,
              GET_PROFILE |-> 7, SET_ACCEL |-> 8]

\* _IOW, _IOR and _IOWR pack direction, magic, ordinal and the size of the
\* argument into disjoint bits; the magic is the same everywhere.
IoctlNumber(c, arg) == <<Direction[c], Ordinal[c], SizeOf(arg)>>

KernelNumber  == [c \in Commands |-> IoctlNumber(c, KernelArg[c])]
LibraryNumber == [c \in LibraryCommands |-> IoctlNumber(c, LibraryArg[c])]

\* The cases of the switch that a number selects: one, or none.
Handlers(n) == {c \in Commands : KernelNumber[c] = n}

\* What the handler of c may answer.  SUBMIT, QUERY, CANCEL and GET_ACCEL_INFO
\* depend on the state TaskEngine describes; the others only on v, the value
\* passed.
Answers(c, v) ==
  CASE c = "SUBMIT_TASK"    -> {"0", "EFAULT", "EINVAL", "E2BIG", "ENOMEM"}
    [] c = "QUERY_TASK"     -> {"0", "EFAULT", "ENOENT"}
    [] c = "CANCEL_TASK"    -> {"0", "EFAULT", "ENOENT"}
    [] c = "GET_ACCEL_INFO" -> {"0", "EFAULT", "EINVAL"}
    [] c = "SET_POWER"      -> {"EFAULT", IF v > 2 THEN "EINVAL" ELSE "0"}
    [] c = "SET_ACCEL"      -> {"EFAULT", IF v > 4 THEN "EINVAL" ELSE "0"}
    [] c = "GET_VERSION"    -> {"0", "EFAULT"}
    [] c = "GET_PROFILE"    -> {"0", "EFAULT"}

\* cortex_forge_ioctl: what the call with number n and value v may return.
Ioctl(n, v) ==
  IF Handlers(n) = {} THEN {"ENOTTY"}
  ELSE UNION {Answers(c, v) : c \in Handlers(n)}

=============================================================================
