---------------------------- MODULE MCSshClient ----------------------------
(* A command that fills the window on both streams, and one that hangs.      *)
EXTENDS SshClient

MCPrograms == {[out |-> 2, err |-> 1, ends |-> TRUE],
               [out |-> 0, err |-> 0, ends |-> FALSE]}
=============================================================================
