-------------------------- MODULE JsonStore_proofs --------------------------
(***************************************************************************)
(* What JsonStore keeps on disk, for any hosts, profiles, contents,        *)
(* configurations and damages: no plaintext, what was acknowledged, and -  *)
(* with the damages _load notices - the entries no call was about.  The    *)
(* last section proves that the processes agree on the key of KeyFile.     *)
(***************************************************************************)
EXTENDS JsonStore, KeyFile, TLAPS

\* A section of the file, and the entries that have passed from_dict.
IsTable(f) == DOMAIN f \subseteq Names /\ \A n \in DOMAIN f : f[n] \in Entries
IsClean(f) ==
  \A n \in DOMAIN f : /\ f[n].form \in Forms
                      /\ n \in Profiles => f[n].form = "none"

TypeOK ==
  /\ IsTable(file) /\ IsTable(tmpData) /\ IsTable(mem)
  /\ broken \in BOOLEAN /\ loadError \in BOOLEAN /\ acked \in BOOLEAN
  /\ tmp \in {"none", "partial", "written", "synced"}
  /\ config \in Configs
  /\ pc \in {"down", "ready", "flush", "write", "sync", "replace"}
  /\ touched \subseteq Names

\* Memory and a temporary file hold entries that were read or saved; a
\* profile has no password.
Clean ==
  /\ IsClean(mem) /\ IsClean(tmpData)
  /\ \A n \in DOMAIN file : n \in Profiles => file[n].form \in {"none", "bad", "invalid"}

\* A flush under way writes the memory, which was loaded completely; what is
\* renamed is on the disk, and so is the file.
FlushInPlace ==
  /\ pc = "replace" => tmp = "synced"
  /\ synced = TRUE
  /\ pc \in {"write", "sync", "replace"} => /\ tmp # "none" /\ tmpData = Serialized(mem)
                                            /\ ~loadError
  /\ pc = "down" => ~acked

IInv == TypeOK /\ Clean /\ FlushInPlace /\ NoPlaintextOnDisk /\ AckedIsDurable

-----------------------------------------------------------------------------
\* An empty store before the first process.
LEMMA InitInv == Init => IInv
<1> SUFFICES ASSUME Init PROVE IInv
  OBVIOUS
<1>1. DOMAIN file = {} /\ DOMAIN tmpData = {} /\ DOMAIN mem = {}
  BY DEF Init
<1> QED BY <1>1 DEF Init, IInv, TypeOK, IsTable, IsClean, Clean, FlushInPlace,
                    NoPlaintextOnDisk, AckedIsDurable

\* Every step of a process, every crash and every damage keeps the invariant.
LEMMA NextInv == IInv /\ [Next]_vars => IInv'
<1> SUFFICES ASSUME IInv, [Next]_vars PROVE IInv'
  OBVIOUS
<1> USE StoreAssumption
    DEF IInv, TypeOK, IsTable, IsClean, Clean, FlushInPlace, NoPlaintextOnDisk,
        AckedIsDurable, fileVars, Entries, Forms, Names, Encryption, Known, Decoded, Encoded,
        Loaded, Loadable, Serialized
<1>1. CASE Start
  <2>1. /\ pc = "down" /\ pc' = "ready" /\ touched' = {} /\ acked' = FALSE
        /\ loadError' \in BOOLEAN
        /\ UNCHANGED <<fileVars, tmp, tmpData, config>>
    BY <1>1 DEF Start
  <2>2. IsTable(mem') /\ IsClean(mem')
    <3>1. CASE broken
      <4>1. DOMAIN mem' = {}
        BY <1>1, <3>1 DEF Start
      <4> QED BY <4>1
    <3>2. CASE ~broken
      <4>1. mem' = [n \in Loadable(file) |-> Decoded(file[n])]
        BY <1>1, <3>2 DEF Start
      <4>2. \A n \in Loadable(file) : Decoded(file[n]) \in Entries
        OBVIOUS
      <4>3. \A n \in Loadable(file) : Decoded(file[n]).form \in Forms
        OBVIOUS
      <4>4. \A n \in Loadable(file) : n \in Profiles => Decoded(file[n]).form = "none"
        OBVIOUS
      <4> QED BY <4>1, <4>2, <4>3, <4>4
    <3> QED BY <3>1, <3>2
  <2> QED BY <2>1, <2>2
<1>2. ASSUME NEW n \in Names, Save(n) PROVE IInv'
  <2>1. PICK e \in [form : {"none", "plain", "token"}, val : Values, extra : BOOLEAN] :
          /\ mem' = [m \in DOMAIN mem \cup {n} |-> IF m = n THEN e ELSE mem[m]]
          /\ n \in Profiles => e.form = "none"
    <3>1. PICK v \in Values, p \in IF n \in Hosts THEN {"none", "plain", "token"} ELSE {"none"} :
            mem' = [m \in DOMAIN mem \cup {n} |->
                      IF m = n THEN [form |-> p, val |-> v, extra |-> FALSE] ELSE mem[m]]
      BY <1>2 DEF Save
    <3>2. /\ [form |-> p, val |-> v, extra |-> FALSE]
               \in [form : {"none", "plain", "token"}, val : Values, extra : BOOLEAN]
          /\ n \in Profiles => p = "none"
      BY <3>1
    <3> QED BY <3>1, <3>2
  <2>2. IsTable(mem') /\ IsClean(mem')
    BY <2>1
  <2> QED BY <1>2, <2>2 DEF Save
<1>3. ASSUME NEW n \in Names, Delete(n) PROVE IInv'
  BY <1>3 DEF Delete, Restrict
<1>4. CASE FlushRaises
  BY <1>4 DEF FlushRaises
<1>5. CASE FlushBegins
  BY <1>5 DEF FlushBegins, Flushes, Refused
<1>6. CASE Dump \/ Sync
  <2>1. /\ pc \in {"write", "sync"} /\ pc' \in {"sync", "replace"}
        /\ tmp' \in {"written", "synced"} /\ (pc' = "replace" => tmp' = "synced")
        /\ UNCHANGED <<file, broken, synced, tmpData, config, mem, loadError, acked, touched>>
    BY <1>6 DEF Dump, Sync
  <2> QED BY <2>1
<1>7. CASE WriteFails
  BY <1>7 DEF WriteFails
<1>8. CASE Replace
  <2>1. /\ pc = "replace" /\ file' = tmpData /\ broken' = FALSE /\ synced' = TRUE
        /\ tmp' = "none" /\ tmpData' = <<>> /\ pc' = "ready" /\ acked' = TRUE
        /\ UNCHANGED <<config, mem, loadError, touched>>
    BY <1>8 DEF Replace
  <2>2. DOMAIN tmpData' = {}
    BY <2>1
  <2>3. TypeOK' /\ Clean' /\ FlushInPlace' /\ NoPlaintextOnDisk'
    BY <2>1, <2>2
  <2>4. AckedIsDurable'
    <3>1. file' = [n \in DOMAIN mem |-> Encoded(mem[n])]
      BY <2>1
    <3>2. \A n \in DOMAIN mem : Encoded(mem[n]).form \notin {"bad", "invalid"}
      OBVIOUS
    <3>3. Loadable(file') = DOMAIN mem
      BY <3>1, <3>2
    <3>4. Encryption' = Encryption
      BY <2>1
    <3> QED BY <2>1, <3>1, <3>3, <3>4
  <2> QED BY <2>3, <2>4
<1>9. CASE Stop
  <2>1. /\ pc' = "down" /\ config' \in Configs /\ DOMAIN mem' = {} /\ loadError' = FALSE
        /\ acked' = FALSE /\ touched' = {} /\ UNCHANGED <<file, broken, synced, tmp, tmpData>>
    BY <1>9 DEF Stop
  <2> QED BY <2>1
<1>10. CASE BreakFile
  BY <1>10 DEF BreakFile
<1>11. CASE LoseKey
  BY <1>11 DEF LoseKey
<1>12. ASSUME NEW n \in Names, SpoilEntry(n) PROVE IInv'
  BY <1>12 DEF SpoilEntry
<1>13. CASE Remove
  <2>1. /\ pc = "down" /\ broken' = FALSE /\ synced' = TRUE /\ DOMAIN file' = {}
        /\ UNCHANGED <<tmp, tmpData, config, pc, mem, loadError, acked, touched>>
    BY <1>13 DEF Remove
  <2> QED BY <2>1
<1>14. ASSUME NEW n \in Names, AddFields(n) PROVE IInv'
  <2>1. /\ pc = "down" /\ n \in DOMAIN file
        /\ file' = [file EXCEPT ![n] = [file[n] EXCEPT !.extra = TRUE]]
        /\ UNCHANGED <<broken, synced, tmp, tmpData, config, pc, mem, loadError, acked, touched>>
    BY <1>14 DEF AddFields
  <2>2. /\ DOMAIN file' = DOMAIN file
        /\ \A m \in DOMAIN file : file'[m] \in Entries /\ file'[m].form = file[m].form
    <3>1. DOMAIN file' = DOMAIN file /\ file[n] \in Entries
      BY <2>1
    <3>2. ASSUME NEW m \in DOMAIN file PROVE file'[m] \in Entries /\ file'[m].form = file[m].form
      <4>1. CASE m = n
        BY <2>1, <3>1, <4>1
      <4>2. CASE m # n
        BY <2>1, <4>2
      <4> QED BY <4>1, <4>2
    <3> QED BY <3>1, <3>2
  <2> QED BY <2>1, <2>2
<1>15. CASE UNCHANGED vars
  BY <1>15 DEF vars
<1> QED BY <1>1, <1>2, <1>3, <1>4, <1>5, <1>6, <1>7, <1>8, <1>9, <1>10, <1>11, <1>12,
           <1>13, <1>14, <1>15 DEF Next, Process

\* The inductive invariant.
LEMMA Invariant == Spec => []IInv
  BY InitInv, NextInv, PTL DEF Spec

\* The entries no call was about, once a process has read the file completely:
\* they are in memory as they were read, and nothing else is.
KeptSoFar ==
  pc # "down" /\ ~loadError =>
    /\ ~broken
    /\ \A n \in DOMAIN file \ touched :
         /\ n \in DOMAIN mem /\ mem[n] = Decoded(file[n])
         /\ file[n].form \in Forms
         /\ Encryption => file[n].form # "stale"
    /\ DOMAIN mem \ touched \subseteq DOMAIN file

\* What _load skips without an error is not in the file.
NothingSkipped ==
  \A n \in DOMAIN file : /\ file[n].form # "bad"
                         /\ n \in Hosts => file[n].form # "invalid"

\* The damages _load notices, and fields it does not know.
Noticed == Damages \subseteq {"broken", "invalidProfile", "lostKey", "extraFields"}

KInv == IInv /\ KeptSoFar /\ NothingSkipped

\* A noticed damage of one entry spoils a profile.
LEMMA SpoilFacts ==
  ASSUME Noticed, NEW n \in Names, SpoilEntry(n)
  PROVE  /\ pc = "down" /\ pc' = pc /\ n \in Profiles
         /\ file' = [file EXCEPT ![n].form = "invalid"]
<1>1. "notObject" \notin Damages /\ "invalidHost" \notin Damages
  BY DEF Noticed
<1>2. n \notin Hosts
  BY <1>1 DEF SpoilEntry
<1> QED BY <1>1, <1>2 DEF SpoilEntry, Names

\* Every step keeps what the calls have not touched, as memory and file agree.
LEMMA NextKept == ASSUME Noticed PROVE KInv /\ [Next]_vars => KeptSoFar' /\ NothingSkipped'
<1> SUFFICES ASSUME KInv, [Next]_vars PROVE KeptSoFar' /\ NothingSkipped'
  OBVIOUS
<1> USE StoreAssumption
    DEF KInv, IInv, TypeOK, IsTable, IsClean, Clean, FlushInPlace, KeptSoFar, NothingSkipped,
        fileVars, Entries, Forms, Names, Encryption, Known, Decoded, Encoded, Loaded, Loadable,
        Serialized
<1>1. CASE Start
  <2>1. NothingSkipped'
    BY <1>1 DEF Start
  <2>2. KeptSoFar'
    <3> SUFFICES ASSUME ~loadError' PROVE KeptSoFar'
      OBVIOUS
    <3>1. /\ ~broken /\ \A n \in DOMAIN file : ~Unreadable(n, file[n])
          /\ mem' = Loaded(file)
      BY <1>1 DEF Start
    <3>2. \A n \in DOMAIN file : /\ file[n].form \in Forms
                                 /\ Encryption => file[n].form # "stale"
      BY <3>1 DEF Unreadable
    <3>3. Loadable(file) = DOMAIN file
      BY <3>2
    <3>4. DOMAIN mem' = DOMAIN file /\ \A n \in DOMAIN file : mem'[n] = Decoded(file[n])
      BY <3>1, <3>3
    <3> QED BY <1>1, <3>1, <3>2, <3>4 DEF Start
  <2> QED BY <2>1, <2>2
<1>2. ASSUME NEW n \in Names, Save(n) \/ Delete(n) PROVE KeptSoFar' /\ NothingSkipped'
  <2>1. /\ touched' = touched \cup {n} /\ UNCHANGED <<file, broken, config, loadError>>
        /\ pc = "ready"
        /\ DOMAIN mem' \subseteq DOMAIN mem \cup {n}
        /\ \A m \in DOMAIN mem \ {n} : m \in DOMAIN mem' /\ mem'[m] = mem[m]
    <3>1. CASE Save(n)
      BY <3>1 DEF Save
    <3>2. CASE Delete(n)
      BY <3>2 DEF Delete, Restrict
    <3> QED BY <1>2, <3>1, <3>2
  <2> QED BY <2>1
<1>3. CASE FlushRaises \/ FlushBegins \/ Dump \/ Sync \/ WriteFails
  <2>1. /\ pc # "down" /\ UNCHANGED <<file, broken, config, mem, loadError, touched>>
    BY <1>3 DEF FlushRaises, FlushBegins, Dump, Sync, WriteFails
  <2> QED BY <2>1
<1>4. CASE Replace
  <2>1. /\ pc = "replace" /\ file' = Serialized(mem) /\ ~loadError /\ broken' = FALSE
        /\ UNCHANGED <<config, mem, loadError, touched>>
    BY <1>4 DEF Replace
  <2>2. /\ DOMAIN file' = DOMAIN mem
        /\ \A n \in DOMAIN mem : file'[n] = Encoded(mem[n]) /\ file'[n].form \in Forms
    BY <2>1
  <2>3. \A n \in DOMAIN mem \ touched :
          /\ mem[n] = Decoded(file[n]) /\ n \in DOMAIN file
          /\ Encryption => file[n].form # "stale"
    BY <2>1
  <2>4. \A n \in DOMAIN mem \ touched :
          /\ mem[n] = Decoded(Encoded(mem[n]))
          /\ Encryption => Encoded(mem[n]).form # "stale"
    BY <2>3
  <2>5. NothingSkipped'
    BY <2>2
  <2>6. KeptSoFar'
    BY <2>1, <2>2, <2>4
  <2> QED BY <2>5, <2>6
<1>5. CASE Stop
  BY <1>5 DEF Stop
<1>6. CASE BreakFile
  BY <1>6 DEF BreakFile
<1>7. CASE LoseKey
  BY <1>7 DEF LoseKey
<1>8. ASSUME NEW n \in Names, SpoilEntry(n) PROVE KeptSoFar' /\ NothingSkipped'
  <2>1. /\ pc = "down" /\ pc' = pc /\ n \in Profiles
        /\ file' = [file EXCEPT ![n].form = "invalid"]
    BY <1>8, SpoilFacts
  <2> QED BY <2>1
<1>9. CASE Remove
  <2>1. pc = "down" /\ pc' = pc /\ DOMAIN file' = {}
    BY <1>9 DEF Remove
  <2> QED BY <2>1
<1>10. ASSUME NEW n \in Names, AddFields(n) PROVE KeptSoFar' /\ NothingSkipped'
  BY <1>10 DEF AddFields
<1>11. CASE UNCHANGED vars
  BY <1>11 DEF vars
<1> QED BY <1>1, <1>2, <1>3, <1>4, <1>5, <1>6, <1>7, <1>8, <1>9, <1>10, <1>11
        DEF Next, Process

-----------------------------------------------------------------------------
\* If every process encrypts or refuses plaintext, no plaintext password is
\* ever on disk, not even in a temporary file a crash left behind.
THEOREM NoPlaintext == Spec => []NoPlaintextOnDisk
<1>1. IInv => NoPlaintextOnDisk
  BY DEF IInv
<1> QED BY <1>1, Invariant, PTL

\* A call that returned normally has stored what the next process will load.
THEOREM AckedStays == Spec => []AckedIsDurable
<1>1. IInv => AckedIsDurable
  BY DEF IInv
<1> QED BY <1>1, Invariant, PTL

\* No step of a process, no crash of it and no power failure makes the file
\* unreadable: what is renamed is complete and on the disk.
THEOREM FileWhole == Spec => FileStaysWhole
<1>1. IInv /\ [Next]_vars => [broken' /\ ~broken => pc = "down"]_vars
  <2> SUFFICES ASSUME IInv, Next, broken', ~broken PROVE pc = "down"
    OBVIOUS
  <2>1. synced = TRUE /\ (pc = "replace" => tmp = "synced")
    BY DEF IInv, FlushInPlace
  <2>2. CASE Stop
    BY <2>1, <2>2 DEF Stop
  <2>3. CASE Replace
    BY <2>1, <2>3 DEF Replace
  <2> QED BY <2>2, <2>3
          DEF Next, Process, Start, Save, Delete, FlushRaises, FlushBegins, Dump, Sync,
              WriteFails, BreakFile, LoseKey, SpoilEntry, AddFields, Remove, fileVars
<1> QED BY <1>1, Invariant, PTL DEF Spec, FileStaysWhole

\* What a flush writes for an entry it loaded is what it would have written
\* for the known part of the entry of the file: decryption loses no password of
\* the current key.
LEMMA RoundTrip ==
  ASSUME NEW e \in Entries, e.form \in Forms, Encryption => e.form # "stale"
  PROVE  Encoded(Decoded(e)) = Encoded(Known(e))
<1>1. CASE Encryption /\ e.form = "token"
  <2>1. Decoded(e) = [form |-> "plain", val |-> e.val, extra |-> FALSE]
    BY <1>1 DEF Decoded
  <2>2. Encoded(Decoded(e)) = [form |-> "token", val |-> e.val, extra |-> FALSE]
    <3>1. Decoded(e).form = "plain"
      BY <2>1
    <3>2. Encoded(Decoded(e)) = [Decoded(e) EXCEPT !.form = "token"]
      BY <1>1, <3>1 DEF Encoded
    <3>3. Decoded(e) \in Entries /\ Decoded(e).val = e.val /\ Decoded(e).extra = FALSE
      BY <2>1 DEF Entries, Forms
    <3>4. \A d \in Entries : [d EXCEPT !.form = "token"]
                               = [form |-> "token", val |-> d.val, extra |-> d.extra]
      BY DEF Entries
    <3> QED BY <3>2, <3>3, <3>4
  <2>3. Known(e) = [form |-> "token", val |-> e.val, extra |-> FALSE]
    BY <1>1 DEF Known
  <2>4. Encoded(Known(e)) = Known(e)
    BY <2>3 DEF Encoded
  <2> QED BY <2>2, <2>3, <2>4
<1>2. CASE ~(Encryption /\ e.form = "token")
  <2>1. Decoded(e) = Known(e)
    BY <1>2 DEF Decoded, Known
  <2> QED BY <2>1
<1> QED BY <1>1, <1>2

\* As long as the damages are ones _load notices, a flush leaves every entry
\* its process was not asked to change as it was, up to fields the program does
\* not know, and never overwrites a file
\* that was not read completely.
THEOREM OthersStay == ASSUME Noticed PROVE Spec => OthersAreKept
<1>1. Init => KInv
  <2> SUFFICES ASSUME Init PROVE KInv
    OBVIOUS
  <2>1. DOMAIN file = {}
    BY DEF Init
  <2> QED BY <2>1, InitInv DEF Init, KInv, KeptSoFar, NothingSkipped
<1>2. KInv /\ [Next]_vars => KInv'
  BY NextKept, NextInv DEF KInv
<1> DEFINE Kept == pc = "replace" /\ file' # file =>
                     /\ ~broken
                     /\ \A n \in DOMAIN file \ touched :
                          n \in DOMAIN file' /\ file'[n] = Encoded(Known(file[n]))
<1>3. ASSUME KInv, [Next]_vars PROVE [Kept]_vars
  <2> SUFFICES ASSUME pc = "replace", file' # file
               PROVE  /\ ~broken
                      /\ \A n \in DOMAIN file \ touched :
                           n \in DOMAIN file' /\ file'[n] = Encoded(Known(file[n]))
    OBVIOUS
  <2>1. file' = Serialized(mem) /\ ~loadError
    BY <1>3 DEF Next, Process, Start, Save, Delete, FlushRaises, FlushBegins, Dump, Sync,
         WriteFails, Replace, Stop, BreakFile, LoseKey, SpoilEntry, AddFields, Remove, fileVars, vars,
         KInv, IInv, FlushInPlace
  <2>2. ~broken
    BY <1>3, <2>1 DEF KInv, KeptSoFar
  <2>3. ASSUME NEW n \in DOMAIN file \ touched
        PROVE  n \in DOMAIN file' /\ file'[n] = Encoded(Known(file[n]))
    <3>1. /\ n \in DOMAIN mem /\ mem[n] = Decoded(file[n]) /\ file[n] \in Entries
          /\ file[n].form \in Forms /\ (Encryption => file[n].form # "stale")
      BY <1>3, <2>1 DEF KInv, KeptSoFar, IInv, TypeOK, IsTable
    <3>2. Encoded(mem[n]) = Encoded(Known(file[n]))
      BY <3>1, RoundTrip
    <3> QED BY <2>1, <3>1, <3>2 DEF Serialized
  <2> QED BY <2>2, <2>3
<1> QED BY <1>1, <1>2, <1>3, PTL DEF Spec, OthersAreKept

-----------------------------------------------------------------------------
(* The key the passwords are encrypted with: KeyFile, which shares no        *)
(* variable with the store.  OneKey is not inductive as it stands: the write *)
(* of the creator must not hit a file from which somebody has read a key.    *)
(* What excludes it is that the creator is alone between creating and        *)
(* writing, and that the file is empty as long as it is there.               *)

\* A process between os.open and os.write is the only one, has a key of its
\* own, and the file is there and empty.
CreatorAlone ==
  \A p \in Procs : at[p] = "write" =>
    /\ exists /\ content = NoKey /\ key[p] = p
    /\ \A q \in Procs : at[q] = "write" => q = p

\* A process on its way to os.open has generated a key.
CreatorHasKey == \A p \in Procs : at[p] = "create" => key[p] = p

\* Without a file there is no content.
NoFileNoKey == content # NoKey => exists

KeyInv == KeyTypeOK /\ OneKey /\ CreatorAlone /\ CreatorHasKey /\ NoFileNoKey

\* Before the first process looks.
LEMMA InitKey == KeyInit => KeyInv
BY DEF KeyInit, KeyInv, KeyTypeOK, OneKey, CreatorAlone, CreatorHasKey, NoFileNoKey, States

\* Every system call keeps it, and so does a kill.
LEMMA NextKey == KeyInv /\ [KeyNext]_keyVars => KeyInv'
<1> SUFFICES ASSUME KeyInv, [KeyNext]_keyVars PROVE KeyInv'
  OBVIOUS
<1> USE KeyFileAssumption
<1>1. ASSUME NEW p \in Procs, Check(p) PROVE KeyInv'
  BY <1>1 DEF Check, KeyInv, KeyTypeOK, OneKey, CreatorAlone, CreatorHasKey, NoFileNoKey, States
<1>2. ASSUME NEW p \in Procs, Read(p) PROVE KeyInv'
  BY <1>2 DEF Read, KeyInv, KeyTypeOK, OneKey, CreatorAlone, CreatorHasKey, NoFileNoKey, States
<1>3. ASSUME NEW p \in Procs, Create(p) PROVE KeyInv'
  <2>1. CASE exists
    BY <1>3, <2>1 DEF Create, KeyInv, KeyTypeOK, OneKey, CreatorAlone, CreatorHasKey, NoFileNoKey, States
  <2>2. CASE ~exists
    \* No file: nobody has written to it or is about to.
    <3>1. content = NoKey /\ \A q \in Procs : at[q] \notin {"write", "done"}
      BY <2>2 DEF KeyInv, OneKey, CreatorAlone, NoFileNoKey
    <3>2. QED
      BY <1>3, <2>2, <3>1 DEF Create, KeyInv, KeyTypeOK, OneKey, CreatorAlone, CreatorHasKey, NoFileNoKey, States
  <2>3. QED
    BY <2>1, <2>2
<1>4. ASSUME NEW p \in Procs, Write(p) PROVE KeyInv'
  \* The file is empty: nobody has got a key from it.
  <2>1. content = NoKey /\ exists /\ key[p] = p /\ \A q \in Procs : at[q] # "done"
    BY <1>4 DEF Write, KeyInv, OneKey, CreatorAlone
  <2>2. QED
    BY <1>4, <2>1 DEF Write, KeyInv, KeyTypeOK, OneKey, CreatorAlone, CreatorHasKey, NoFileNoKey, States
<1>5. ASSUME NEW p \in Procs, Crash(p) PROVE KeyInv'
  BY <1>5 DEF Crash, KeyInv, KeyTypeOK, OneKey, CreatorAlone, CreatorHasKey, NoFileNoKey, States
<1>6. CASE UNCHANGED keyVars
  BY <1>6 DEF keyVars, KeyInv, KeyTypeOK, OneKey, CreatorAlone, CreatorHasKey, NoFileNoKey, States
<1>7. QED
  BY <1>1, <1>2, <1>3, <1>4, <1>5, <1>6 DEF KeyNext, Step

\* Whatever processes race for the first key and whichever of them are killed,
\* those that get a key get the one in the file: O_EXCL admits one creator.
THEOREM KeyUnique == KeySpec => []OneKey
<1>1. KeyInv => OneKey
  BY DEF KeyInv
<1>2. QED
  BY InitKey, NextKey, <1>1, PTL DEF KeySpec
=============================================================================
