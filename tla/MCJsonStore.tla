----------------------------- MODULE MCJsonStore -----------------------------
(* Instances of JsonStore for TLC. *)
EXTENDS JsonStore

Encrypting == [encryption |-> TRUE, policy |-> "warn"]
Refusing == [encryption |-> FALSE, policy |-> "refuse"]
ProtectedConfigs == {Encrypting, Refusing}
EncryptingConfig == {Encrypting}
=============================================================================
