------------------------------- MODULE KeyFile -------------------------------
(***************************************************************************)
(* utils/crypto.py, CredentialEncryption._load_or_create_key: processes    *)
(* that load the master key, or generate it and create the key file with   *)
(* O_EXCL.  A process may be killed between any two system calls.  A key   *)
(* is named after the process that generated it; permissions are left out. *)
(***************************************************************************)
EXTENDS FiniteSets

CONSTANTS Procs, NoKey,
          MayCrash   \* processes may be killed

ASSUME KeyFileAssumption == NoKey \notin Procs /\ MayCrash \in BOOLEAN

VARIABLES exists,   \* the key file exists
          content,  \* its bytes: NoKey while it is empty
          at,       \* where each process is
          key       \* the key it has generated or returned

keyVars == <<exists, content, at, key>>

States == {"start", "read", "create", "write", "done", "corrupt", "killed"}

KeyInit ==
  /\ exists = FALSE /\ content = NoKey
  /\ at = [p \in Procs |-> "start"]
  /\ key = [p \in Procs |-> NoKey]

\* `if self._key_path.exists()`; otherwise Fernet.generate_key().
Check(p) ==
  /\ at[p] = "start"
  /\ at' = [at EXCEPT ![p] = IF exists THEN "read" ELSE "create"]
  /\ key' = [key EXCEPT ![p] = IF exists THEN NoKey ELSE p]
  /\ UNCHANGED <<exists, content>>

\* read_bytes and the validation: an empty file is not 32 bytes of base64.
Read(p) ==
  /\ at[p] = "read"
  /\ at' = [at EXCEPT ![p] = IF content = NoKey THEN "corrupt" ELSE "done"]
  /\ key' = [key EXCEPT ![p] = content]
  /\ UNCHANGED <<exists, content>>

\* Mutant: FileExistsError is left to be handled elsewhere.
Create_NoReload(p) ==
  /\ at[p] = "create"
  /\ exists' = TRUE
  /\ at' = [at EXCEPT ![p] = IF exists THEN "failed" ELSE "write"]
  /\ UNCHANGED <<content, key>>

\* Mutant: O_TRUNC instead of O_EXCL.
Create_Trunc(p) ==
  /\ at[p] = "create"
  /\ exists' = TRUE
  /\ content' = NoKey
  /\ at' = [at EXCEPT ![p] = "write"]
  /\ UNCHANGED key

\* os.open with O_CREAT | O_EXCL; on FileExistsError begin again.
Create(p) ==
  /\ at[p] = "create"
  /\ exists' = TRUE
  /\ at' = [at EXCEPT ![p] = IF exists THEN "start" ELSE "write"]
  /\ UNCHANGED <<content, key>>

\* os.write and os.close; the key is returned.
Write(p) ==
  /\ at[p] = "write"
  /\ content' = key[p]
  /\ at' = [at EXCEPT ![p] = "done"]
  /\ UNCHANGED <<exists, key>>

Crash(p) ==
  /\ MayCrash
  /\ at[p] \in {"start", "read", "create", "write"}
  /\ at' = [at EXCEPT ![p] = "killed"]
  /\ UNCHANGED <<exists, content, key>>

Step(p) == Check(p) \/ Read(p) \/ Create(p) \/ Write(p)

KeyNext == \E p \in Procs : Step(p) \/ Crash(p)

KeySpec == KeyInit /\ [][KeyNext]_keyVars

\* A process that is not killed goes on.
KeyFairSpec == KeySpec /\ \A p \in Procs : WF_keyVars(Step(p))

-----------------------------------------------------------------------------
(* Properties *)

\* The types of the variables.
KeyTypeOK ==
  /\ exists \in BOOLEAN
  /\ content \in Procs \cup {NoKey}
  /\ at \in [Procs -> States]
  /\ key \in [Procs -> Procs \cup {NoKey}]

\* Nobody encrypts with a key that is lost: every process that has got a key
\* has the one key in the file, so what one of them encrypts all can decrypt.
OneKey == \A p \in Procs : at[p] = "done" => exists /\ key[p] = content /\ content # NoKey

\* No call hangs or retries for ever over the first creation.
EveryCallEnds == \A p \in Procs : <>(at[p] \in {"done", "corrupt", "killed"})
=============================================================================
