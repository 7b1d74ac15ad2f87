------------------------------ MODULE JsonStore ------------------------------
(***************************************************************************)
(* repository/json_host_repository.py under the read-modify-flush calls of *)
(* service/host_service.py and the profile and recipe services: one        *)
(* process that may be killed or lose its power between any two steps and  *)
(* be started again, an atomic write through a temporary file that may     *)
(* fail, and a file that is edited, damaged or left without its key while  *)
(* no process runs.  Profiles stand for recipes too: both sections are     *)
(* handled alike.  An entry is its password's form, one value for all its  *)
(* other fields, and whether it has something from_dict drops in silence.  *)
(* Left out: a rename that a power failure undoes (the fsync of the        *)
(* directory is best effort), after which the file is the older one.       *)
(***************************************************************************)
EXTENDS Integers, FiniteSets, Functions

CONSTANTS Hosts, Profiles,  \* names
          Values,           \* contents of an entry
          Configs,          \* how processes configure their repository
          Damages           \* what may happen to the file between two processes

AllDamages == {"broken", "invalidProfile", "lostKey", "invalidHost", "notObject",
               "extraFields"}

\* encryption: there is one (PasswordGuard.enabled); policy: the argument
\* allow_plaintext_credentials (True, None, False).
ASSUME StoreAssumption ==
  /\ Hosts \cap Profiles = {} /\ Damages \subseteq AllDamages
  /\ Configs \subseteq [encryption : BOOLEAN, policy : {"allow", "warn", "refuse"}]
  /\ Configs # {}

Names == Hosts \cup Profiles

\* Forms of a password: plaintext, a token of the current key, a token of a
\* key that is lost.
Forms == {"none", "plain", "token", "stale"}
\* form "bad": not an object; form "invalid": an object from_dict rejects.
\* extra: fields the program does not know, tags that are not strings.
Entries == [form : Forms \cup {"bad", "invalid"}, val : Values, extra : BOOLEAN]

VARIABLES file,       \* the entries of the JSON file
          broken,     \* it does not parse, or its version or a section is wrong
          synced,     \* its content has reached the disk
          tmp,        \* the temporary file: "none", "partial", "written", "synced"
          tmpData,    \* its entries when written
          config,     \* configuration of the process that runs, or will run next
          pc,         \* "down", "ready", "flush", "write", "sync", "replace"
          mem,        \* _hosts and _profiles
          loadError,  \* _load_error
          acked,      \* history: the last call returned normally
          touched     \* history: names changed by calls of this process

fileVars == <<file, broken, synced>>
vars == <<file, broken, synced, tmp, tmpData, config, pc, mem, loadError, acked, touched>>

Encryption == config.encryption

\* Mutant: a password that cannot be decrypted is not an error.
Unreadable_IgnoreKey(n, e) ==
  n \in Profiles /\ e.form = "invalid"

\* Entries _load sets _load_error for: a password that cannot be decrypted, a
\* profile that from_dict rejects.
Unreadable(n, e) ==
  \/ n \in Hosts /\ Encryption /\ e.form = "stale"
  \/ n \in Profiles /\ e.form = "invalid"

\* What from_dict and _copy_host keep of an entry.
Known(e) == [form |-> e.form, val |-> e.val, extra |-> FALSE]

\* An entry in memory: an encrypted password is decrypted, or dropped if that
\* fails, by a repository that has an encryption.
Decoded(e) ==
  [form |-> IF ~Encryption THEN e.form
            ELSE IF e.form = "token" THEN "plain" ELSE IF e.form = "stale" THEN "none" ELSE e.form,
   val |-> e.val, extra |-> FALSE]

\* The others are skipped.
Loadable(f) == { n \in DOMAIN f : f[n].form \notin {"bad", "invalid"} }
Loaded(f) == [n \in Loadable(f) |-> Decoded(f[n])]

\* _serialize: plaintext passwords are encrypted (PasswordGuard.encrypt).
Encoded(e) == IF Encryption /\ e.form = "plain" THEN [e EXCEPT !.form = "token"] ELSE e

\* Mutant: the profiles are not written.
Serialized_HostsOnly(m) == [n \in DOMAIN m \cap Hosts |-> Encoded(m[n])]

Serialized(m) == [n \in DOMAIN m |-> Encoded(m[n])]

\* Mutant: the policy only warns.
Refused_Never == FALSE

\* _enforce_plaintext_policy raises CredentialError.
Refused == ~Encryption /\ config.policy = "refuse" /\ \E n \in DOMAIN mem : mem[n].form = "plain"

-----------------------------------------------------------------------------
Init ==
  /\ file = <<>> /\ broken = FALSE /\ synced = TRUE
  /\ tmp = "none" /\ tmpData = <<>>
  /\ config \in Configs
  /\ pc = "down"
  /\ mem = <<>>
  /\ loadError = FALSE
  /\ acked = FALSE
  /\ touched = {}

\* A process starts: __init__ and _load.
Start ==
  /\ pc = "down"
  /\ pc' = "ready"
  /\ mem' = IF broken THEN <<>> ELSE Loaded(file)
  /\ loadError' = (broken \/ \E n \in DOMAIN file : Unreadable(n, file[n]))
  /\ touched' = {}
  /\ acked' = FALSE
  /\ UNCHANGED <<fileVars, tmp, tmpData, config>>

\* save() of a new or changed entry.  HostService hands over tokens, a caller
\* of the repository itself may hand over plaintext; profiles have no password.
Save(n) ==
  /\ pc = "ready"
  /\ \E v \in Values, p \in IF n \in Hosts THEN {"none", "plain", "token"} ELSE {"none"} :
       mem' = [m \in DOMAIN mem \cup {n} |->
                 IF m = n THEN [form |-> p, val |-> v, extra |-> FALSE] ELSE mem[m]]
  /\ touched' = touched \cup {n}
  /\ pc' = "flush"
  /\ acked' = FALSE
  /\ UNCHANGED <<fileVars, tmp, tmpData, config, loadError>>

\* delete(), delete_profile()
Delete(n) ==
  /\ pc = "ready"
  /\ n \in DOMAIN mem
  /\ mem' = Restrict(mem, DOMAIN mem \ {n})
  /\ touched' = touched \cup {n}
  /\ pc' = "flush"
  /\ acked' = FALSE
  /\ UNCHANGED <<fileVars, tmp, tmpData, config, loadError>>

\* flush() raises ConfigError or CredentialError; the change stays in memory.
FlushRaises ==
  /\ pc = "flush"
  /\ loadError \/ Refused
  /\ pc' = "ready"
  /\ UNCHANGED <<fileVars, tmp, tmpData, config, mem, loadError, acked, touched>>

Flushes == ~loadError /\ ~Refused

\* mkstemp in the file's directory.
FlushBegins ==
  /\ pc = "flush"
  /\ Flushes
  /\ tmp' = "partial"
  /\ tmpData' = Serialized(mem)
  /\ pc' = "write"
  /\ UNCHANGED <<fileVars, config, mem, loadError, acked, touched>>

\* json.dump and flush: the data are the system's.
Dump ==
  /\ pc = "write"
  /\ tmp' = "written"
  /\ pc' = "sync"
  /\ UNCHANGED <<fileVars, tmpData, config, mem, loadError, acked, touched>>

\* Mutant: no fsync before the rename.
Sync_Missing ==
  /\ pc = "sync"
  /\ pc' = "replace"
  /\ UNCHANGED <<fileVars, tmp, tmpData, config, mem, loadError, acked, touched>>

\* os.fsync of the temporary file.
Sync ==
  /\ pc = "sync"
  /\ tmp' = "synced"
  /\ pc' = "replace"
  /\ UNCHANGED <<fileVars, tmpData, config, mem, loadError, acked, touched>>

\* An exception in writing or replacing: unlink the temporary file and raise.
WriteFails ==
  /\ pc \in {"write", "sync", "replace"}
  /\ tmp' = "none" /\ tmpData' = <<>>
  /\ pc' = "ready"
  /\ UNCHANGED <<fileVars, config, mem, loadError, acked, touched>>

\* os.replace: the file is what the temporary one was, on the disk as well.
\* (The directory's fsync cannot fail the call.)
Replace ==
  /\ pc = "replace"
  /\ file' = tmpData
  /\ broken' = (tmp \notin {"written", "synced"})
  /\ synced' = (tmp = "synced")
  /\ tmp' = "none" /\ tmpData' = <<>>
  /\ pc' = "ready"
  /\ acked' = TRUE
  /\ UNCHANGED <<config, mem, loadError, touched>>

\* The process ends, is killed or loses its power; a temporary file stays
\* behind.  A power failure takes what has not reached the disk.  The next
\* process may be configured differently.
Stop ==
  /\ pc # "down"
  /\ pc' = "down"
  /\ broken' \in {broken, broken \/ ~synced}
  /\ config' \in Configs
  /\ mem' = <<>>
  /\ loadError' = FALSE
  /\ acked' = FALSE
  /\ touched' = {}
  /\ UNCHANGED <<file, synced, tmp, tmpData>>

\* While no process runs: the file becomes unreadable as a whole,
BreakFile ==
  /\ pc = "down"
  /\ "broken" \in Damages
  /\ ~broken
  /\ broken' = TRUE
  /\ UNCHANGED <<file, synced, tmp, tmpData, config, pc, mem, loadError, acked, touched>>

\* the key file is lost and made anew,
LoseKey ==
  /\ pc = "down"
  /\ "lostKey" \in Damages
  /\ \E n \in DOMAIN file : file[n].form = "token"
  /\ file' = [n \in DOMAIN file |->
                IF file[n].form = "token" THEN [file[n] EXCEPT !.form = "stale"] ELSE file[n]]
  /\ UNCHANGED <<broken, synced, tmp, tmpData, config, pc, mem, loadError, acked, touched>>

\* or an edit spoils one entry.
SpoilEntry(n) ==
  /\ pc = "down"
  /\ n \in DOMAIN file
  /\ \E f \in (IF (IF n \in Hosts THEN "invalidHost" ELSE "invalidProfile") \in Damages
               THEN {"invalid"} ELSE {})
              \cup (IF "notObject" \in Damages THEN {"bad"} ELSE {}) :
       /\ file[n].form # f
       /\ file' = [file EXCEPT ![n].form = f]
  /\ UNCHANGED <<broken, synced, tmp, tmpData, config, pc, mem, loadError, acked, touched>>

\* A newer version or an edit adds something this one does not know.
AddFields(n) ==
  /\ pc = "down"
  /\ "extraFields" \in Damages
  /\ n \in DOMAIN file /\ file[n].form # "bad"
  /\ file' = [file EXCEPT ![n].extra = TRUE]
  /\ UNCHANGED <<broken, synced, tmp, tmpData, config, pc, mem, loadError, acked, touched>>

\* The user removes the damaged file, as ConfigError asks for.
Remove ==
  /\ pc = "down"
  /\ broken
  /\ broken' = FALSE /\ synced' = TRUE
  /\ file' = <<>>
  /\ UNCHANGED <<tmp, tmpData, config, pc, mem, loadError, acked, touched>>

Process == \/ \E n \in Names : Save(n) \/ Delete(n)
           \/ FlushRaises \/ FlushBegins \/ Dump \/ Sync \/ WriteFails \/ Replace

Next == Start \/ Process \/ Stop \/ BreakFile \/ LoseKey
        \/ (\E n \in Names : SpoilEntry(n) \/ AddFields(n)) \/ Remove

Spec == Init /\ [][Next]_vars

-----------------------------------------------------------------------------
(* Properties *)

\* A store whose users encrypt or refuse plaintext holds no plaintext password,
\* neither in the file nor in a temporary file a crash has left, although
\* loading decrypts into memory and every flush writes all entries anew.
NoPlaintextOnDisk ==
  (\A k \in Configs : k.encryption \/ k.policy = "refuse") =>
    /\ \A n \in DOMAIN file : file[n].form # "plain"
    /\ tmp # "none" => \A n \in DOMAIN tmpData : tmpData[n].form # "plain"

\* The process never makes the file unreadable, whenever it is killed or loses
\* its power and whatever write fails: only damage from outside does.
FileStaysWhole == [][broken' /\ ~broken => pc = "down"]_vars

\* What a call that returned normally has stored is what a process configured
\* alike will load: memory and file agree, passwords included.
AckedIsDurable == acked => ~broken /\ Loaded(file) = [n \in DOMAIN mem |-> Decoded(Encoded(mem[n]))]

\* A process changes only what its calls changed: every other entry of the file
\* comes through load and flush with its content and its password, up to what
\* from_dict does not know; a file it could not read completely is not
\* overwritten.
OthersAreKept ==
  [][pc = "replace" /\ file' # file =>
       /\ ~broken
       /\ \A n \in DOMAIN file \ touched :
            n \in DOMAIN file' /\ file'[n] = Encoded(Known(file[n]))]_vars
=============================================================================
