---------------------------- MODULE SqliteStore ----------------------------
(***************************************************************************)
(* SqliteHostRepository (repository/sqlite_host_repository.py): several    *)
(* processes open one database, upgrade its schema, import a JSON store    *)
(* into it when it is empty, and save and delete hosts and profiles.  Any  *)
(* of them may be killed at any step.                                      *)
(*                                                                         *)
(* SQLite is external: BEGIN IMMEDIATE takes the only write lock, what a   *)
(* transaction does is invisible until its commit and gone if its process  *)
(* dies, and foreign keys are enforced on connections that switched them   *)
(* on, once the table declares them.  A transaction of one statement is    *)
(* one step; a timeout while waiting for the lock changes nothing.         *)
(* Recipes are rows nobody refers to, as unused profiles are.  A table so  *)
(* old that it has no profile column is one whose hosts refer to nothing.  *)
(***************************************************************************)
EXTENDS FiniteSets, Integers

CONSTANTS Processes, Hosts, Profiles,
          NoProfile,   \* the host refers to no profile
          Absent,      \* no such host
          Nobody,      \* nobody holds the write lock
          Sources,     \* JSON stores there may be: [hosts, profiles, plain]
          Refusing,    \* processes opened with allow_plaintext_credentials=False
          NoCreate     \* processes opened with auto_create=False

References == Profiles \cup {NoProfile}

Rows == [Hosts -> References \cup {Absent}]

ASSUME SourcesAssumption ==
  \A s \in Sources : s.hosts \in Rows /\ s.profiles \subseteq Profiles

ASSUME MarkersAssumption ==
  NoProfile \notin Profiles /\ Absent \notin References /\ Nobody \notin Processes

VARIABLES hosts,      \* committed rows: the profile each host refers to
          profiles,   \* committed profiles
          schema,     \* "none" | "legacy" (no foreign key) | "current"
          writer,     \* who is inside BEGIN IMMEDIATE ... COMMIT
          draft,      \* the rows each process has copied or written, not yet committed
          pc,         \* how far each process is
          fk,         \* PRAGMA foreign_keys of its connection
          todo,       \* hosts it has still to import
          source,     \* the JSON store
          acked       \* ghost: what save() last returned for each host, if anything

dbVars == <<hosts, profiles, schema>>
txnVars == <<writer, draft>>
vars == <<dbVars, txnVars, pc, fk, todo, source, acked>>

NoRows == [h \in Hosts |-> Absent]
NoDraft == [hosts |-> NoRows, profiles |-> {}]
Content == [hosts |-> hosts, profiles |-> profiles]
Present(rows) == { h \in Hosts : rows[h] # Absent }

Empty(d) == Present(d.hosts) = {} /\ d.profiles = {}

\* A new database, or one an earlier version left: that version's table declared
\* no foreign key, so its hosts may refer to profiles that are not there.
Init ==
  /\ schema \in {"none", "legacy"}
  /\ hosts \in Rows /\ profiles \in SUBSET Profiles
  /\ schema = "none" => Empty(Content)
  /\ writer = Nobody /\ draft = [p \in Processes |-> NoDraft]
  /\ pc = [p \in Processes |-> "closed"]
  /\ fk = [p \in Processes |-> TRUE]
  /\ todo = [p \in Processes |-> {}]
  /\ source \in Sources
  /\ acked = hosts

Goto(p, place) == pc' = [pc EXCEPT ![p] = place]

-----------------------------------------------------------------------------
(* Transactions *)

WriteLockFree == writer = Nobody

\* BEGIN IMMEDIATE.
Begin(p) == WriteLockFree /\ writer' = p

\* Commit, or the rollback of an exception or of a process that died.
End(p) ==
  /\ writer' = IF writer = p THEN Nobody ELSE writer
  /\ draft' = [draft EXCEPT ![p] = NoDraft]

-----------------------------------------------------------------------------
(* __init__ *)

\* A new repository object: its connection switches foreign keys on.  With
\* auto_create=False it takes the tables as they are, if there are any.
Open(p) ==
  /\ pc[p] = "closed"
  /\ Goto(p, IF p \in NoCreate THEN "count" ELSE "init")
  /\ fk' = [fk EXCEPT ![p] = TRUE]
  /\ UNCHANGED <<dbVars, txnVars, todo, source, acked>>

\* The transaction of _init_db: the tables are made, a missing column added.
InitDb(p) ==
  /\ pc[p] = "init"
  /\ WriteLockFree
  /\ schema' = IF schema = "none" THEN "current" ELSE schema
  /\ Goto(p, "schema")
  /\ UNCHANGED <<hosts, profiles, txnVars, fk, todo, source, acked>>

\* Mutant: the rows are fetched before BEGIN IMMEDIATE.
CopiedAt_Check == "upgrade"

\* INSERT INTO hosts_new SELECT ... FROM hosts is a statement of the
\* transaction: no other process can write between the copy and the commit.
CopiedAt == "rebuild"

Copy(p, place) ==
  draft' = IF place = CopiedAt THEN [draft EXCEPT ![p] = Content] ELSE draft

\* _ensure_hosts_profile_fk looks at the table outside any transaction.
CheckSchema(p) ==
  /\ pc[p] = "schema"
  /\ IF schema = "current"
     THEN Goto(p, "count") /\ UNCHANGED <<fk, draft>>
     ELSE /\ Goto(p, "upgrade")
          /\ fk' = [fk EXCEPT ![p] = FALSE]
          /\ Copy(p, "upgrade")
  /\ UNCHANGED <<dbVars, writer, todo, source, acked>>

BeginRebuild(p) ==
  /\ pc[p] = "upgrade"
  /\ Begin(p) /\ Copy(p, "rebuild")
  /\ Goto(p, "rebuild")
  /\ UNCHANGED <<dbVars, fk, todo, source, acked>>

\* Mutant: the pragma is not switched on again.
AfterRebuild_Off(p) == fk

\* The finally clause.
AfterRebuild(p) == [fk EXCEPT ![p] = TRUE]

\* The copy takes the place of the table, dangling references included; by now
\* another process may have done the same, and gone on to use the table.
Rebuild(p) ==
  /\ pc[p] = "rebuild"
  /\ hosts' = draft[p].hosts
  /\ End(p)
  /\ schema' = "current"
  /\ fk' = AfterRebuild(p)
  /\ Goto(p, "count")
  /\ UNCHANGED <<profiles, todo, source, acked>>

\* _maybe_migrate_from_json: count the rows, then read the JSON store, outside
\* any transaction.  A store that is missing or could not be loaded is left
\* alone; one with an entry that is no host is imported without that entry
\* (source is what JsonHostRepository loaded).  Without migrate_from there is
\* nothing to import; without tables the SELECT fails, which is Stop.
Count(p) ==
  /\ pc[p] = "count"
  /\ \/ schema # "none" /\ Empty(Content) /\ Goto(p, "import")
     \/ Goto(p, "open")
  /\ UNCHANGED <<dbVars, txnVars, fk, todo, source, acked>>

\* Mutant: the first count is relied upon.
StillEmpty_Assumed == TRUE

StillEmpty == Empty(Content)

\* Count again inside the transaction; the profiles go in first.
BeginImport(p) ==
  /\ pc[p] = "import"
  /\ IF StillEmpty
     THEN /\ Begin(p)
          /\ draft' = [draft EXCEPT ![p] =
                         [Content EXCEPT !.profiles = @ \cup source.profiles]]
          /\ todo' = [todo EXCEPT ![p] = Present(source.hosts)]
          /\ Goto(p, "insert")
     ELSE /\ WriteLockFree
          /\ Goto(p, "open")
          /\ UNCHANGED <<txnVars, todo>>
  /\ UNCHANGED <<dbVars, fk, source, acked>>

\* The table declares the foreign key and the connection enforces it.
Enforced(p) == fk[p] /\ schema = "current"

\* INSERT INTO hosts accepts the row: the policy allows its password, there is
\* no such host, and the profile it refers to exists.
Insertable(p, h) ==
  /\ ~(p \in Refusing /\ source.plain)
  /\ draft[p].hosts[h] = Absent
  /\ Enforced(p) /\ source.hosts[h] \in Profiles => source.hosts[h] \in draft[p].profiles

InsertHost(p) ==
  /\ pc[p] = "insert"
  /\ \E h \in todo[p] :
       /\ Insertable(p, h)
       /\ draft' = [draft EXCEPT ![p].hosts[h] = source.hosts[h]]
       /\ todo' = [todo EXCEPT ![p] = @ \ {h}]
  /\ UNCHANGED <<dbVars, writer, pc, fk, source, acked>>

\* The exception rolls everything back and leaves the constructor.
ImportFails(p) ==
  /\ pc[p] = "insert"
  /\ \E h \in todo[p] : ~Insertable(p, h)
  /\ End(p)
  /\ todo' = [todo EXCEPT ![p] = {}]
  /\ Goto(p, "closed")
  /\ UNCHANGED <<dbVars, fk, source, acked>>

CommitImport(p) ==
  /\ pc[p] = "insert"
  /\ todo[p] = {}
  /\ hosts' = draft[p].hosts /\ profiles' = draft[p].profiles
  /\ End(p)
  /\ Goto(p, "open")
  /\ UNCHANGED <<schema, fk, todo, source, acked>>

-----------------------------------------------------------------------------
(* The repository in use: one write transaction each. *)

\* Whoever skipped _init_db may find no table to write to.
Writable(p) == pc[p] = "open" /\ WriteLockFree /\ schema # "none"

\* save(); a reference to an unknown profile raises ValueError, also when the
\* row already has it.
Save(p, h, r) ==
  /\ Writable(p)
  /\ Enforced(p) /\ r \in Profiles => r \in profiles
  /\ hosts' = [hosts EXCEPT ![h] = r]
  /\ acked' = [acked EXCEPT ![h] = r]
  /\ UNCHANGED <<profiles, schema, txnVars, pc, fk, todo, source>>

Delete(p, h) ==
  /\ Writable(p)
  /\ hosts[h] # Absent
  /\ hosts' = [hosts EXCEPT ![h] = Absent]
  /\ acked' = [acked EXCEPT ![h] = Absent]
  /\ UNCHANGED <<profiles, schema, txnVars, pc, fk, todo, source>>

SaveProfile(p, f) ==
  /\ Writable(p)
  /\ profiles' = profiles \cup {f}
  /\ UNCHANGED <<hosts, schema, txnVars, pc, fk, todo, source, acked>>

\* delete_profile(): ON DELETE RESTRICT.
DeleteProfile(p, f) ==
  /\ Writable(p)
  /\ f \in profiles
  /\ Enforced(p) => \A h \in Hosts : hosts[h] # f
  /\ profiles' = profiles \ {f}
  /\ UNCHANGED <<hosts, schema, txnVars, pc, fk, todo, source, acked>>

\* close(), a kill, or an error (a full disk, the lock's timeout) that leaves
\* the constructor.
Stop(p) ==
  /\ pc[p] # "closed"
  /\ End(p)
  /\ todo' = [todo EXCEPT ![p] = {}]
  /\ Goto(p, "closed")
  /\ UNCHANGED <<dbVars, fk, source, acked>>

Next ==
  \E p \in Processes :
    \/ Open(p) \/ InitDb(p) \/ CheckSchema(p) \/ BeginRebuild(p) \/ Rebuild(p)
    \/ Count(p) \/ BeginImport(p) \/ InsertHost(p) \/ ImportFails(p)
    \/ CommitImport(p) \/ Stop(p)
    \/ \E h \in Hosts : Delete(p, h) \/ \E r \in References : Save(p, h, r)
    \/ \E f \in Profiles : SaveProfile(p, f) \/ DeleteProfile(p, f)

Spec == Init /\ [][Next]_vars

-----------------------------------------------------------------------------
(* Properties *)

\* The types of the variables.
TypeOK ==
  /\ hosts \in Rows /\ profiles \in SUBSET Profiles
  /\ schema \in {"none", "legacy", "current"}
  /\ writer \in Processes \cup {Nobody}
  /\ draft \in [Processes -> [hosts : Rows, profiles : SUBSET Profiles]]
  /\ pc \in [Processes -> {"closed", "init", "schema", "upgrade", "rebuild", "count",
                           "import", "insert", "open"}]
  /\ fk \in [Processes -> BOOLEAN]
  /\ todo \in [Processes -> SUBSET Hosts]
  /\ source \in Sources
  /\ acked \in Rows

\* The hosts whose reference leads nowhere.
Dangling == { h \in Hosts : hosts[h] \in Profiles \ profiles }

\* Once the table declares the foreign key, no step adds a dangling reference:
\* the ones that an earlier version, or a process that skipped the upgrade, left
\* behind may go but not spread.  The references are checked by whichever
\* process writes, some of which have rebuilt the table with foreign keys off,
\* and a profile may be deleted between another process's look and its save.
NoNewDangling ==
  [][schema' = "current" =>
       \A h \in Dangling' : h \in Dangling /\ hosts'[h] = hosts[h]]_vars

\* The import happens as a whole, or not at all, and never on top of what
\* another process wrote after the database was found empty.  Whole is all that
\* JsonHostRepository loaded: an entry it rejected is not part of it.
ImportIsWhole ==
  [][\A p \in Processes : pc[p] = "insert" /\ Content' # Content =>
       /\ Empty(Content)
       /\ Content' = [hosts |-> source.hosts, profiles |-> source.profiles]]_vars

\* What save() returned for, in this version or an earlier one, is in the
\* database until it is saved again or deleted: neither a rebuild of the table
\* decided on before, nor an import, nor the death of a process undoes it.
SavedIsKept == \A h \in Hosts : acked[h] # Absent => hosts[h] = acked[h]
=============================================================================
