--------------------------- MODULE SftpTransfer ----------------------------
(* SSHClient.upload_file and download_file (core/ssh_client.py): opening the *)
(* cached SFTP session under its watchdog, staging the file in a private     *)
(* directory, and _commit_remote_upload with its fallback from the atomic    *)
(* POSIX rename to a rename over a backup.  The SFTP server is external: it  *)
(* carries out the requests of a session in order; it may refuse any of      *)
(* them, and the reply to any of them may be lost (a timeout, or the         *)
(* connection) after the request took effect or before.  Left out: a Ctrl-C  *)
(* during a transfer, which takes the same handlers as an error.             *)
EXTENDS SshLink

VARIABLES
    posix,      \* the server has the posix-rename extension
    fs,         \* the server's files: the destination, the staged file and
                \* its directory, the backup; kept: an earlier backup is
                \* still there; away: another client holds the content
    existed,    \* destination_existed of the upload
    raised,     \* the exception on its way: "none" | "timeout" | "error"
    local,      \* a download's destination and temporary file: [file, temp]
    committed,  \* ghost: a request of this upload put its file at the target
    uncertain   \* ghost: a reply was lost, or the restore was refused

transferVars == <<posix, fs, existed, raised, local, committed, uncertain>>

Absent == "absent"

TransferInit ==
    /\ posix \in BOOLEAN
    /\ \E t \in {"old", Absent} :
          fs = [target |-> t, staged |-> Absent, dir |-> FALSE,
                backup |-> Absent, kept |-> FALSE, away |-> FALSE]
    /\ existed = FALSE /\ raised = "none"
    /\ local = [file |-> "old", temp |-> Absent]
    /\ committed = FALSE /\ uncertain = FALSE

-----------------------------------------------------------------------------
(* The server: which requests it can carry out, and what they do.  A plain   *)
(* rename does not replace an existing file; POSIX rename does.              *)
Possible(r) ==
    CASE r = "mkdir"    -> ~fs.dir
      [] r = "put"      -> fs.dir
      [] r = "chmod"    -> fs.staged # Absent
      [] r = "posix"    -> posix /\ fs.staged # Absent
      [] r = "rename"   -> fs.staged # Absent /\ fs.target = Absent
      [] r = "commit"   -> fs.staged # Absent /\ fs.target = Absent
      [] r = "backup"   -> fs.target # Absent
      [] r = "restore"  -> fs.backup # Absent /\ fs.target = Absent
      [] r = "unbackup" -> fs.backup # Absent
      [] r = "remove"   -> fs.staged # Absent
      [] r \in {"rmdir", "clean"} -> fs.dir /\ fs.staged = Absent
      [] OTHER          -> TRUE

Effect(r) ==
    CASE r = "mkdir"    -> [fs EXCEPT !.dir = TRUE]
      [] r = "put"      -> [fs EXCEPT !.staged = "new"]
      [] r \in {"posix", "rename", "commit"}
                        -> [fs EXCEPT !.target = fs.staged, !.staged = Absent]
      [] r = "backup"   -> [fs EXCEPT !.backup = fs.target, !.target = Absent]
      [] r = "restore"  -> [fs EXCEPT !.target = fs.backup, !.backup = Absent]
      [] r = "unbackup" -> [fs EXCEPT !.backup = Absent]
      [] r = "remove"   -> [fs EXCEPT !.staged = Absent]
      [] r \in {"rmdir", "clean"} -> [fs EXCEPT !.dir = FALSE]
      [] OTHER          -> fs

Requests == {"lstat", "mkdir", "put", "chmod", "posix", "rename", "lstat2",
             "backup", "commit", "restore", "unbackup", "rmdir", "remove",
             "clean", "get"}

\* A put that is cut short leaves a part of the file.
Partial(r) == IF r = "put" /\ fs.dir THEN [fs EXCEPT !.staged = "part"] ELSE fs

Commits(r) == r \in {"posix", "rename", "commit"} /\ Possible(r)

-----------------------------------------------------------------------------
(* One request: the thread is at pc = r and gets a reply, a refusal, or no   *)
(* reply at all.                                                             *)
Done(r) ==
    /\ pc = r /\ sftp = "open" /\ Usable /\ Possible(r)
    /\ fs' = Effect(r)
    /\ committed' = (committed \/ Commits(r))
    /\ UNCHANGED uncertain

Refused(r) ==
    /\ pc = r /\ sftp = "open" /\ Usable
    /\ uncertain' = (uncertain \/ r = "restore")
    /\ UNCHANGED <<fs, committed>>

\* socket.timeout after the inactivity timeout.
NoReply(r) ==
    /\ pc = r /\ sftp = "open" /\ transport # "closed"
    /\ uncertain' = TRUE
    /\ \/ Possible(r) /\ fs' = Effect(r) /\ committed' = (committed \/ Commits(r))
       \/ fs' = Partial(r) /\ UNCHANGED committed

\* The session is gone: an error that says nothing of earlier requests.
Broken(r) ==
    /\ pc = r /\ sftp = "dead"
    /\ uncertain' = TRUE
    /\ UNCHANGED <<fs, committed>>

Fails(r) == Refused(r) \/ NoReply(r) \/ Broken(r)

\* The exception of a failed request: no reply on a live connection is a
\* timeout; the code sees the loss of the connection as an SSHException.
Exception(r) ==
    \/ (Refused(r) \/ Broken(r)) /\ raised' = "error"
    \/ NoReply(r) /\ raised' = "timeout"

Here(r, next) ==
    /\ pc' = next
    /\ UNCHANGED <<job, outcome, posix, existed, local>>
    /\ UNCHANGED linkVars /\ UNCHANGED watchdogVars

\* The request succeeds and the thread goes on to the next one.
Succeeds(r, next) == Done(r) /\ Here(r, next) /\ UNCHANGED raised

\* The request fails and its exception goes to `next'.
Throws(r, next) == Exception(r) /\ Here(r, next)

\* The request fails and an earlier exception, if any, stays the one raised.
Ignored(r, next) == Fails(r) /\ Here(r, next) /\ UNCHANGED raised

-----------------------------------------------------------------------------
(* _get_sftp.                                                                *)

\* The state of one upload.  The staging names are unique, so what an earlier
\* upload left behind is out of this one's way.
FreshTransfer ==
    /\ fs' = [fs EXCEPT !.staged = Absent, !.dir = FALSE, !.backup = Absent,
                        !.kept = @ \/ fs.backup # Absent]
    /\ existed' = FALSE /\ raised' = "none"
    /\ committed' = FALSE /\ uncertain' = FALSE
    /\ UNCHANGED <<posix, local>>

\* A cached session is used as it is.
Begin(what) ==
    /\ pc = "idle" /\ transport # "none"
    /\ StartWatchdog(sftp = "none")
    /\ FreshTransfer
    /\ job' = what /\ outcome' = "none"
    /\ pc' = IF sftp = "none" THEN "open" ELSE "ready"
    /\ UNCHANGED linkVars

\* open_sftp returns and the session is known to the watchdog.
OpenReturns ==
    /\ pc = "open" /\ Usable
    /\ channel_ref' = "session"
    /\ pc' = "opened"
    /\ UNCHANGED <<job, outcome, timer, limited, late, timed_out, stale>>
    /\ UNCHANGED transferVars /\ UNCHANGED linkVars

OpenRaises ==
    /\ pc = "open" /\ transport # "stalled"
    /\ CancelTimer
    /\ outcome' = "error" /\ pc' = "idle"
    /\ UNCHANGED <<limited, late, timed_out, channel_ref, stale>>
    /\ UNCHANGED job
    /\ UNCHANGED transferVars /\ UNCHANGED linkVars

\* The event is looked at before the session is cached; the watchdog may close
\* the session between this look and timer.cancel().
CacheSession ==
    /\ pc = "opened"
    /\ IF timed_out
       THEN outcome' = "error" /\ UNCHANGED sftp
       ELSE sftp' = (IF transport = "closed" THEN "dead" ELSE "open") /\ UNCHANGED outcome
    /\ pc' = "cached"
    /\ UNCHANGED job
    /\ UNCHANGED transport /\ UNCHANGED watchdogVars /\ UNCHANGED transferVars

CancelOpenTimer ==
    /\ pc = "cached"
    /\ CancelTimer
    /\ pc' = IF outcome = "error" THEN "idle" ELSE "ready"
    /\ UNCHANGED <<job, outcome, limited, late, timed_out, channel_ref, stale>>
    /\ UNCHANGED transferVars /\ UNCHANGED linkVars

-----------------------------------------------------------------------------
(* upload_file.                                                              *)

\* The local file is missing, the destination is a directory, or no local
\* temporary file can be made: the session is kept.
Invalid ==
    /\ pc = "ready"
    /\ outcome' = "error" /\ pc' = "idle"
    /\ UNCHANGED job
    /\ UNCHANGED transferVars /\ UNCHANGED linkVars /\ UNCHANGED watchdogVars

Ready ==
    /\ pc = "ready"
    /\ pc' = IF job = "upload" THEN "lstat" ELSE "get"
    /\ UNCHANGED <<job, outcome>> /\ UNCHANGED transferVars
    /\ UNCHANGED linkVars /\ UNCHANGED watchdogVars

\* _resolve_remote_upload_target.
Lstat ==
    /\ Done("lstat")
    /\ existed' = (fs.target # Absent)
    /\ pc' = "mkdir"
    /\ UNCHANGED <<job, outcome, posix, raised, local>>
    /\ UNCHANGED linkVars /\ UNCHANGED watchdogVars

LstatFails == Throws("lstat", "discard")

\* After any exception of the staging or the commit: a timeout leaves the
\* staging directory, anything else removes it.
Stage ==
    \/ Succeeds("mkdir", "put") \/ Throws("mkdir", "except")
    \/ Succeeds("put", "chmod") \/ Throws("put", "except")
    \/ existed /\ (Succeeds("chmod", "posix") \/ Throws("chmod", "except"))

\* No mode to copy: the destination did not exist.
NoChmod ==
    /\ pc = "chmod" /\ ~existed
    /\ Here("chmod", "posix")
    /\ UNCHANGED <<fs, raised, committed, uncertain>>

\* _commit_remote_upload.  socket.timeout is an OSError: a POSIX rename whose
\* reply was lost falls through to the plain rename like a refused one.
PosixRename == Succeeds("posix", "rmdir") \/ Ignored("posix", "rename")

AfterRename == IF existed THEN "lstat2" ELSE "except"

PlainRename == Succeeds("rename", "rmdir") \/ Throws("rename", AfterRename)

\* The second lstat: a destination that is gone raises the exception of the
\* plain rename, one that is a directory by now that of posix_rename.
LookAgain ==
    \/ fs.target # Absent /\ Succeeds("lstat2", "backup")
    \/ /\ Done("lstat2") /\ Here("lstat2", "except")
       /\ \/ fs.target = Absent /\ UNCHANGED raised
          \/ fs.target # Absent /\ raised' \in {"error"} \cup (IF uncertain THEN {"timeout"} ELSE {})
    \/ Throws("lstat2", "except")

BackUp == Succeeds("backup", "commit") \/ Throws("backup", "except")

\* Mutants: the backup is removed whatever happened; it is left where it is.
OnCommitFailure_Remove == "unbackup"

OnCommitFailure_Leave == "except"

OnCommitFailure == "restore"

CommitStaged ==
    Succeeds("commit", "unbackup") \/ Throws("commit", OnCommitFailure)

Restore == Succeeds("restore", "except") \/ Ignored("restore", "except")

RemoveBackup == Succeeds("unbackup", "rmdir") \/ Ignored("unbackup", "rmdir")

CommitUpload ==
    PosixRename \/ PlainRename \/ LookAgain \/ BackUp \/ CommitStaged
    \/ Restore \/ RemoveBackup

\* The upload is committed; failing to remove the directory drops the session.
RemoveStaging ==
    \/ Done("rmdir") /\ UNCHANGED sftp
    \/ Fails("rmdir") /\ sftp' = "none"

Finish ==
    /\ RemoveStaging
    /\ outcome' = "ok" /\ pc' = "idle"
    /\ UNCHANGED <<transport, posix, existed, raised, local>>
    /\ UNCHANGED job
    /\ UNCHANGED watchdogVars

Except ==
    /\ pc = "except"
    /\ Here("except", IF raised = "timeout" THEN "discard" ELSE "remove")
    /\ UNCHANGED <<fs, raised, committed, uncertain>>

CleanUp ==
    \/ Succeeds("remove", "clean") \/ Ignored("remove", "clean")
    \/ Succeeds("clean", "discard") \/ Ignored("clean", "discard")

\* _discard_sftp, and the finally clause of a download.
Discard ==
    /\ pc = "discard"
    /\ sftp' = "none"
    /\ stale' = stale \ {"session"}
    /\ local' = [local EXCEPT !.temp = Absent]
    /\ outcome' = "error" /\ pc' = "idle"
    /\ UNCHANGED <<transport, timer, limited, late, timed_out, channel_ref>>
    /\ UNCHANGED job
    /\ UNCHANGED <<posix, fs, existed, raised, committed, uncertain>>

-----------------------------------------------------------------------------
(* download_file: sftp.get into the temporary file, os.replace, unlink.      *)
Downloaded(content) == [local EXCEPT !.temp = content]

Get ==
    \/ /\ Done("get")
       /\ local' = Downloaded("new") /\ pc' = "replace" /\ UNCHANGED raised
    \/ /\ Exception("get")
       /\ local' = Downloaded("part") /\ pc' = "discard"

Download ==
    /\ Get
    /\ UNCHANGED <<job, outcome, posix, existed>>
    /\ UNCHANGED linkVars /\ UNCHANGED watchdogVars

Replace ==
    /\ pc = "replace"
    /\ \/ /\ local' = [file |-> local.temp, temp |-> Absent]
          /\ outcome' = "ok" /\ pc' = "idle"
       \/ pc' = "discard" /\ UNCHANGED <<local, outcome>>
    /\ UNCHANGED <<posix, fs, existed, raised, committed, uncertain>>
    /\ UNCHANGED job
    /\ UNCHANGED linkVars /\ UNCHANGED watchdogVars

TransferThread ==
    \/ OpenReturns \/ OpenRaises \/ CacheSession \/ CancelOpenTimer
    \/ Invalid \/ Ready \/ Lstat \/ LstatFails \/ Stage \/ NoChmod
    \/ CommitUpload \/ Finish \/ Except \/ CleanUp \/ Discard
    \/ Download \/ Replace

-----------------------------------------------------------------------------
(* Another client of the server replaces the destination while an upload     *)
(* runs: at once, or by moving it away first as this client's fallback does. *)
OtherMoves ==
    /\ fs.target = "old"
    /\ fs' = [fs EXCEPT !.target = Absent, !.away = TRUE]

OtherWrites ==
    /\ fs.target # "other" /\ (fs.away => fs.target = Absent)
    /\ fs' = [fs EXCEPT !.target = "other", !.away = FALSE]

OtherClient ==
    /\ pc # "idle" /\ job = "upload"
    /\ OtherMoves \/ OtherWrites
    /\ UNCHANGED <<pc, job, outcome, posix, existed, raised, local>>
    /\ UNCHANGED <<committed, uncertain>>
    /\ UNCHANGED linkVars /\ UNCHANGED watchdogVars
=============================================================================
