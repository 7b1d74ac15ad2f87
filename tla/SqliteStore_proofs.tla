------------------------- MODULE SqliteStore_proofs -------------------------
(***************************************************************************)
(* References, saved hosts and the import of SqliteStore, for any number   *)
(* of processes, hosts, profiles and JSON stores.  The three properties    *)
(* rest on the same facts: the write lock names who is in a transaction,   *)
(* what that transaction holds agrees with the database it started from,   *)
(* and whoever uses the table has foreign keys on.                         *)
(***************************************************************************)
EXTENDS SqliteStore, TLAPS

\* BEGIN IMMEDIATE: the process in a transaction is the writer.
OneWriter == \A p \in Processes : pc[p] \in {"rebuild", "insert"} <=> writer = p

\* Outside of the rebuild a connection has foreign keys on.
KeysAreOn == \A p \in Processes : pc[p] \notin {"closed", "upgrade", "rebuild"} => fk[p]

\* A rebuild copies the rows that are there: nobody else can have written.
RebuildIsCopy == \A p \in Processes : pc[p] = "rebuild" => draft[p] = Content

\* An import fills an empty database with what it has gone through so far, and
\* its references exist if the table declares the foreign key.
ImportSoFar ==
  \A p \in Processes : pc[p] = "insert" =>
    /\ Empty(Content)
    /\ draft[p].profiles = source.profiles
    /\ todo[p] \subseteq Present(source.hosts)
    /\ \A h \in Hosts :
         /\ draft[p].hosts[h] = IF h \in todo[p] THEN Absent ELSE source.hosts[h]
         /\ schema = "current" /\ draft[p].hosts[h] \in Profiles
              => draft[p].hosts[h] \in draft[p].profiles

IInv == /\ TypeOK /\ SavedIsKept
        /\ OneWriter /\ KeysAreOn /\ RebuildIsCopy /\ ImportSoFar

\* Nobody has opened the database yet.
LEMMA InitInv == Init => IInv
<1> SUFFICES ASSUME Init PROVE IInv
  OBVIOUS
<1> USE MarkersAssumption, SourcesAssumption
<1>1. TypeOK
  BY DEF Init, TypeOK, Rows, NoRows, NoDraft
<1>2. SavedIsKept
  BY DEF Init, SavedIsKept
<1>3. OneWriter /\ KeysAreOn /\ RebuildIsCopy /\ ImportSoFar
  BY DEF Init, OneWriter, KeysAreOn, RebuildIsCopy, ImportSoFar
<1> QED BY <1>1, <1>2, <1>3 DEF IInv

\* One step per action of a process.
LEMMA NextInv == IInv /\ [Next]_vars => IInv'
<1> SUFFICES ASSUME IInv, [Next]_vars PROVE IInv'
  OBVIOUS
<1> USE MarkersAssumption, SourcesAssumption
    DEF IInv, TypeOK, SavedIsKept, OneWriter, KeysAreOn, RebuildIsCopy, ImportSoFar,
        Rows, References, Content, Empty, Present, NoRows, NoDraft, Goto, dbVars, txnVars
\* A process outside of any transaction goes on, with foreign keys on.
<1>0. ASSUME NEW p \in Processes, pc[p] \in {"schema", "count", "import"},
             NEW place \in {"count", "import", "open"}, Goto(p, place),
             UNCHANGED <<dbVars, txnVars, fk, todo, source, acked>>
      PROVE  IInv'
  <2>1. TypeOK' /\ SavedIsKept' /\ OneWriter' /\ KeysAreOn'
    BY <1>0
  <2>2. \A q \in Processes : pc'[q] \in {"rebuild", "insert"} => pc'[q] = pc[q]
    BY <1>0
  <2>3. RebuildIsCopy'
    BY <1>0, <2>2
  <2>4. ImportSoFar'
    BY <1>0, <2>2
  <2> QED BY <2>1, <2>3, <2>4
<1>1. ASSUME NEW p \in Processes, Open(p) PROVE IInv'
  BY <1>1 DEF Open
<1>2. ASSUME NEW p \in Processes, InitDb(p) PROVE IInv'
  BY <1>2 DEF InitDb, WriteLockFree
<1>3. ASSUME NEW p \in Processes, CheckSchema(p) PROVE IInv'
  <2>1. CASE schema = "current"
    BY <1>0, <1>3, <2>1 DEF CheckSchema
  <2>2. CASE schema # "current"
    <3>1. /\ pc[p] = "schema"
          /\ pc' = [pc EXCEPT ![p] = "upgrade"] /\ fk' = [fk EXCEPT ![p] = FALSE]
          /\ UNCHANGED <<dbVars, txnVars, todo, source, acked>>
      BY <1>3, <2>2 DEF CheckSchema, Copy, CopiedAt
    <3>2. TypeOK' /\ OneWriter' /\ KeysAreOn' /\ RebuildIsCopy'
      BY <3>1
    <3>3. ImportSoFar'
      BY <3>1
    <3> QED BY <3>1, <3>2, <3>3
  <2> QED BY <2>1, <2>2
<1>4. ASSUME NEW p \in Processes, BeginRebuild(p) PROVE IInv'
  BY <1>4 DEF BeginRebuild, Begin, Copy, CopiedAt, WriteLockFree
<1>5. ASSUME NEW p \in Processes, Rebuild(p) PROVE IInv'
  BY <1>5 DEF Rebuild, End, AfterRebuild
<1>6. ASSUME NEW p \in Processes, Count(p) PROVE IInv'
  BY <1>0, <1>6 DEF Count
<1>7. ASSUME NEW p \in Processes, BeginImport(p) PROVE IInv'
  <2>1. CASE ~StillEmpty
    BY <1>0, <1>7, <2>1 DEF BeginImport
  <2>2. CASE StillEmpty
    \* The profiles are there, all hosts still to come: nothing refers to anything.
    <3>0. hosts = NoRows /\ profiles = {}
      BY <2>2 DEF StillEmpty
    <3>1. /\ draft' = [draft EXCEPT ![p] = [hosts |-> NoRows, profiles |-> source.profiles]]
          /\ writer' = p /\ writer = Nobody
          /\ todo' = [todo EXCEPT ![p] = Present(source.hosts)]
          /\ pc' = [pc EXCEPT ![p] = "insert"]
          /\ UNCHANGED <<dbVars, fk, source, acked>>
      BY <1>7, <2>2, <3>0 DEF BeginImport, Begin, WriteLockFree
    <3>2. \A h \in Hosts : draft'[p].hosts[h] =
             IF h \in Present(source.hosts) THEN Absent ELSE source.hosts[h]
      BY <3>1
    <3>3. TypeOK'
      BY <3>1
    <3>4. OneWriter' /\ KeysAreOn' /\ RebuildIsCopy'
      BY <1>7, <3>1 DEF BeginImport
    <3>5. ImportSoFar'
      BY <2>2, <3>1, <3>2 DEF StillEmpty
    <3>6. SavedIsKept'
      BY <3>1
    <3> QED BY <3>3, <3>4, <3>5, <3>6
  <2> QED BY <2>1, <2>2
<1>8. ASSUME NEW p \in Processes, InsertHost(p) PROVE IInv'
  <2>1. PICK h \in todo[p] :
          /\ Insertable(p, h)
          /\ draft' = [draft EXCEPT ![p].hosts[h] = source.hosts[h]]
          /\ todo' = [todo EXCEPT ![p] = @ \ {h}]
    BY <1>8 DEF InsertHost
  <2>2. /\ pc[p] = "insert"
        /\ UNCHANGED <<dbVars, writer, pc, fk, source, acked>>
    BY <1>8 DEF InsertHost
  <2>3. TypeOK'
    <3>1. [draft[p].hosts EXCEPT ![h] = source.hosts[h]] \in Rows
      BY <2>1
    <3> HIDE DEF Rows
    <3>2. draft'[p] = [hosts    |-> [draft[p].hosts EXCEPT ![h] = source.hosts[h]],
                       profiles |-> draft[p].profiles]
      BY <2>1
    <3>3. draft'[p] \in [hosts : Rows, profiles : SUBSET Profiles]
      BY <3>1, <3>2
    <3>4. \A q \in Processes : q # p => draft'[q] = draft[q]
      BY <2>1
    <3>5. draft' \in [Processes -> [hosts : Rows, profiles : SUBSET Profiles]]
      BY <2>1, <3>3, <3>4
    <3> QED BY <2>1, <2>2, <3>5
  <2>4. SavedIsKept' /\ OneWriter' /\ KeysAreOn'
    BY <2>2
  <2>5. \A q \in Processes : pc[q] \in {"rebuild", "insert"} => q = p
    BY <2>2
  <2>6. RebuildIsCopy'
    BY <2>2, <2>5
  <2>7. fk[p]
    BY <2>2
  <2>8. /\ draft'[p].profiles = source.profiles
        /\ todo'[p] = todo[p] \ {h}
        /\ \A g \in Hosts : draft'[p].hosts[g] = IF g = h THEN source.hosts[g] ELSE draft[p].hosts[g]
    BY <2>1, <2>2
  <2>9. schema = "current" /\ source.hosts[h] \in Profiles => source.hosts[h] \in source.profiles
    BY <2>1, <2>2, <2>7 DEF Insertable, Enforced
  <2>10. ImportSoFar'
    BY <2>1, <2>2, <2>5, <2>8, <2>9
  <2> QED BY <2>3, <2>4, <2>6, <2>10
<1>9. ASSUME NEW p \in Processes, ImportFails(p) PROVE IInv'
  BY <1>9 DEF ImportFails, End
<1>10. ASSUME NEW p \in Processes, CommitImport(p) PROVE IInv'
  BY <1>10 DEF CommitImport, End
<1>11. ASSUME NEW p \in Processes, Stop(p) PROVE IInv'
  BY <1>11 DEF Stop, End
<1>12. ASSUME NEW p \in Processes, NEW h \in Hosts, NEW r \in References, Save(p, h, r) PROVE IInv'
  BY <1>12 DEF Save, Writable, WriteLockFree
<1>13. ASSUME NEW p \in Processes, NEW h \in Hosts, Delete(p, h) PROVE IInv'
  BY <1>13 DEF Delete, Writable, WriteLockFree
<1>14. ASSUME NEW p \in Processes, NEW f \in Profiles, SaveProfile(p, f) PROVE IInv'
  BY <1>14 DEF SaveProfile, Writable, WriteLockFree
<1>15. ASSUME NEW p \in Processes, NEW f \in Profiles, DeleteProfile(p, f) PROVE IInv'
  BY <1>15 DEF DeleteProfile, Writable, WriteLockFree
<1>16. CASE UNCHANGED vars
  BY <1>16 DEF vars
<1> QED
  BY <1>1, <1>2, <1>3, <1>4, <1>5, <1>6, <1>7, <1>8, <1>9, <1>10, <1>11, <1>12, <1>13, <1>14, <1>15, <1>16 DEF Next

\* The inductive invariant holds in every reachable state.
LEMMA StoreInvariant == Spec => []IInv
BY InitInv, NextInv, PTL DEF Spec

\* However many processes upgrade, import, save and delete, whichever of them die
\* or skip the upgrade, and whatever references the database was found with, a
\* table that declares the foreign key gets no dangling reference it did not have.
THEOREM ReferencesCorrect == Spec => NoNewDangling
<1> DEFINE NoNew == schema' = "current" =>
                      \A h \in Dangling' : h \in Dangling /\ hosts'[h] = hosts[h]
<1>1. ASSUME IInv, [Next]_vars PROVE [NoNew]_vars
  <2> SUFFICES ASSUME schema' = "current", Next, NEW h \in Dangling'
               PROVE  h \in Dangling /\ hosts'[h] = hosts[h]
    BY <1>1
  <2> USE <1>1, MarkersAssumption DEF Dangling
  <2>1. CASE UNCHANGED <<hosts, profiles>>
    BY <2>1
  \* The rows are copied as they are, and the profiles are left alone.
  <2>2. ASSUME NEW p \in Processes, Rebuild(p) PROVE UNCHANGED <<hosts, profiles>>
    BY <2>2 DEF Rebuild, IInv, RebuildIsCopy, Content
  \* The foreign key was enforced on every row that went in.
  <2>3. ASSUME NEW p \in Processes, CommitImport(p) PROVE FALSE
    BY <2>3 DEF CommitImport, IInv, ImportSoFar
  <2>4. ASSUME NEW p \in Processes, NEW g \in Hosts, NEW r \in References, Save(p, g, r)
        PROVE  h \in Dangling /\ hosts'[h] = hosts[h]
    <3>1. fk[p] /\ schema = "current" /\ profiles' = profiles
      BY <2>4 DEF Save, Writable, IInv, KeysAreOn
    <3>2. r \notin Profiles \ profiles
      BY <2>4, <3>1 DEF Save, Enforced
    <3> QED BY <2>4, <3>1, <3>2 DEF Save, IInv, TypeOK, Rows
  <2>5. ASSUME NEW p \in Processes, NEW g \in Hosts, Delete(p, g)
        PROVE  h \in Dangling /\ hosts'[h] = hosts[h]
    BY <2>5 DEF Delete, IInv, TypeOK, Rows, References
  <2>6. ASSUME NEW p \in Processes, NEW f \in Profiles, SaveProfile(p, f)
        PROVE  h \in Dangling /\ hosts'[h] = hosts[h]
    BY <2>6 DEF SaveProfile
  \* ON DELETE RESTRICT.
  <2>7. ASSUME NEW p \in Processes, NEW f \in Profiles, DeleteProfile(p, f)
        PROVE  h \in Dangling /\ hosts'[h] = hosts[h]
    BY <2>7 DEF DeleteProfile, Writable, Enforced, IInv, KeysAreOn
  <2>8. ASSUME NEW p \in Processes,
               \/ Open(p) \/ InitDb(p) \/ CheckSchema(p) \/ BeginRebuild(p) \/ Count(p)
               \/ BeginImport(p) \/ InsertHost(p) \/ ImportFails(p) \/ Stop(p)
        PROVE  UNCHANGED <<hosts, profiles>>
    BY <2>8 DEF Open, InitDb, CheckSchema, BeginRebuild, Count, BeginImport,
       InsertHost, ImportFails, Stop, dbVars
  <2> QED BY <2>1, <2>2, <2>3, <2>4, <2>5, <2>6, <2>7, <2>8 DEF Next
<1>2. IInv /\ [Next]_vars => [NoNew]_vars
  BY <1>1
<1> QED BY StoreInvariant, <1>2, PTL DEF Spec, NoNewDangling

\* What save() returned for stays until it is saved again or deleted.
THEOREM SavedStays == Spec => []SavedIsKept
<1>1. IInv => SavedIsKept
  BY DEF IInv
<1> QED BY StoreInvariant, <1>1, PTL

\* The content changes under an importing process only by its own commit, which
\* finds the database still empty and leaves the whole JSON store in it.
THEOREM ImportAtomic == Spec => ImportIsWhole
<1> DEFINE Whole == \A p \in Processes : pc[p] = "insert" /\ Content' # Content =>
                      /\ Empty(Content)
                      /\ Content' = [hosts |-> source.hosts, profiles |-> source.profiles]
<1>1. ASSUME IInv, [Next]_vars PROVE [Whole]_vars
  <2> SUFFICES ASSUME NEW p \in Processes, pc[p] = "insert", Content' # Content, Next
               PROVE  /\ Empty(Content)
                      /\ Content' = [hosts |-> source.hosts, profiles |-> source.profiles]
    BY <1>1 DEF vars, dbVars, Content
  <2>1. writer = p /\ writer # Nobody
    BY <1>1, MarkersAssumption DEF IInv, OneWriter
  \* Everybody else would need the write lock.
  <2>2. CommitImport(p)
    <3>1. ASSUME NEW q \in Processes,
                 \/ Open(q) \/ InitDb(q) \/ CheckSchema(q) \/ BeginRebuild(q) \/ Count(q)
                 \/ BeginImport(q) \/ InsertHost(q) \/ ImportFails(q) \/ Stop(q)
          PROVE  FALSE
      BY <3>1, <2>1 DEF Open, InitDb, CheckSchema, BeginRebuild, Count, BeginImport,
         InsertHost, ImportFails, Stop, Begin, dbVars, Content, WriteLockFree
    <3>2. ASSUME NEW q \in Processes, Rebuild(q) \/ CommitImport(q) PROVE CommitImport(p)
      BY <1>1, <3>2, <2>1 DEF Rebuild, CommitImport, IInv, OneWriter
    <3>3. ASSUME NEW q \in Processes, NEW h \in Hosts,
                 Delete(q, h) \/ \E r \in References : Save(q, h, r)
          PROVE  FALSE
      BY <3>3, <2>1 DEF Delete, Save, Writable, WriteLockFree
    <3>4. ASSUME NEW q \in Processes, NEW f \in Profiles,
                 SaveProfile(q, f) \/ DeleteProfile(q, f)
          PROVE  FALSE
      BY <3>4, <2>1 DEF SaveProfile, DeleteProfile, Writable, WriteLockFree
    <3> QED BY <3>1, <3>2, <3>3, <3>4 DEF Next
  <2>3. Empty(Content) /\ todo[p] = {}
    BY <1>1, <2>2 DEF IInv, ImportSoFar, CommitImport
  <2>4. draft[p].hosts = source.hosts /\ draft[p].profiles = source.profiles
    BY <1>1, <2>3, SourcesAssumption DEF IInv, ImportSoFar, TypeOK, Rows
  <2> QED BY <2>2, <2>3, <2>4 DEF CommitImport, Content
<1>2. IInv /\ [Next]_vars => [Whole]_vars
  BY <1>1
<1> QED BY StoreInvariant, <1>2, PTL DEF Spec, ImportIsWhole
=============================================================================
