---------------------------- MODULE MCEmailQueue ----------------------------
(* Instances of EmailQueue for TLC: two processes, one message. *)
EXTENDS EmailQueue

CONSTANTS p1, p2

\* Processes are alike.
Processes == {p1, p2}

=============================================================================
