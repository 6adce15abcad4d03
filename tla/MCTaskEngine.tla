----------------------------- MODULE MCTaskEngine -----------------------------
(***************************************************************************)
(* Small instances of TaskEngine for TLC.                                  *)
(***************************************************************************)
EXTENDS TaskEngine

\* A descriptor of small fields; sizes are in units of 32 MiB.
Desc(t, f, in, out, p, ms) ==
  [accel_type |-> t, flags |-> f, input_size |-> in, output_size |-> out,
   priority |-> p, timeout_ms |-> ms]

\* A task with a timeout for accelerator 0: its execution may end in all the ways
\* one without a timeout may, and in more.
MCTimed == {Desc(0, 0, 2, 2, 1, 5)}

\* With one descriptor for each check that rejects, where accelerator 0 is the
\* only one.
MCAnyDesc == MCTimed \cup
  {Desc(1, 0, 0, 0, 0, 0), Desc(0, 1, 0, 0, 0, 0),
   Desc(0, 0, 3, 0, 0, 0), Desc(0, 0, 0, 3, 0, 0)}

\* Two tasks for accelerator 0, one more urgent than the other.
MCPriorities == {Desc(0, 0, 0, 0, 0, 0), Desc(0, 0, 0, 0, 255, 5)}

\* Who calls what: of two threads, one cancels and the other observes ...
CONSTANTS c1, c2
MCRoles == [c \in {c1, c2} |-> IF c = c1 THEN {"SUBMIT", "CANCEL"}
                                        ELSE {"SUBMIT", "QUERY", "GET_INFO"}]

\* ... and every thread only submits, or submits and cancels.
MCSubmit       == [c \in Clients |-> {"SUBMIT"}]
MCSubmitCancel == [c \in Clients |-> {"SUBMIT", "CANCEL"}]

=============================================================================
