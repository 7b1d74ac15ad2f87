------------------------------ MODULE MCKeyFile ------------------------------
(* Instances of KeyFile for TLC. *)
EXTENDS KeyFile
=============================================================================
