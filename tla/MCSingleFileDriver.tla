-------------------------- MODULE MCSingleFileDriver --------------------------
(***************************************************************************)
(* A small instance of SingleFileDriver for TLC.                           *)
(***************************************************************************)
EXTENDS SingleFileDriver

Desc(t, ms) ==
  [accel_type |-> t, flags |-> 0, input_size |-> 0, output_size |-> 0,
   priority |-> 0, timeout_ms |-> ms]

\* A task without a timeout for the first of three accelerators, one with a
\* timeout for the second, and one for an accelerator that does not exist.
MCDescs == {Desc(0, 0), Desc(1, 5), Desc(3, 0)}

MCCalls == [c \in Clients |-> {"SUBMIT", "QUERY", "CANCEL", "GET_INFO"}]

=============================================================================
