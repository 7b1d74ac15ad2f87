-------------------------- MODULE SshClient_proofs --------------------------
(***************************************************************************)
(* What an SSHClient reports, for every set of remote commands, every      *)
(* window and any number of operations.  Two independent arguments: the    *)
(* first follows a command, its channel and its watchdog, the second an    *)
(* upload or download and the files on both sides.                         *)
(***************************************************************************)
EXTENDS SshClient, TLAPS

\* Places of the calling thread in a command whose output is being read, in a
\* command, and in a transfer (Requests are the places of one SFTP request).
Reading == {"poll", "recv", "status", "drained", "final"}
CommandPlaces == {"exec", "ref", "raise", "cancel"} \cup Reading
TransferPlaces == {"open", "opened", "cached", "ready", "except", "discard", "replace"}
                  \cup Requests

-----------------------------------------------------------------------------
(* Commands *)

\* A watchdog that has begun to run has set its event.
EventFirst == timer \notin {"off", "armed"} => timed_out

\* What the thread may rely on at its place: there is a channel, cut only with
\* the event set, known to the watchdog; past exit_status_ready() it is closed,
\* and past the last look at the buffers they are empty.
ChannelInPlace ==
  /\ chan \in {"none", "open", "exited", "cut", "lost"}
  /\ chan = "exited" => \A s \in Streams : sent[s] = program[s]
  /\ pc \in Reading \cup {"ref"} => chan # "none" /\ (chan = "cut" => timed_out)
  /\ pc = "exec" => chan = "none"
  /\ pc \in Reading => channel_ref = "channel"
  /\ pc \in {"drained", "final"} => chan # "open"
  /\ pc = "final" => \A s \in Streams : got[s] = sent[s]

\* A result is there only after the command.
ResultInPlace ==
  outcome = "result" => pc \in {"cancel", "idle"} /\ channel_ref = "channel"

CommandInv ==
  /\ sent \in [Streams -> Nat] /\ got \in [Streams -> Nat]
  /\ EventFirst /\ ChannelInPlace /\ ResultInPlace
  /\ ResultIsWhole /\ ResultSparesConnection

-----------------------------------------------------------------------------
(* Transfers *)

Contents == {"old", "new", "part", "other", Absent}
Files == [target : Contents, staged : Contents, dir : BOOLEAN,
          backup : Contents, kept : BOOLEAN, away : BOOLEAN]

\* The operation the thread's place belongs to.
JobInPlace ==
  /\ job \in {"command", "upload", "download"}
  /\ pc \in CommandPlaces => job = "command"
  /\ pc \in TransferPlaces => job \in {"upload", "download"}
  /\ pc \in {"get", "replace"} => job = "download"
  /\ pc \in CommandPlaces \cup TransferPlaces \cup {"idle"}
  /\ pc # "idle" => transport # "none"
  /\ outcome \in {"ok", "error"} => pc \in {"idle", "cached", "cancel"}
  /\ outcome = "ok" => pc = "idle"

\* Nothing of the upload shows under the destination's name.
Untouched == ~committed /\ (existed => Present)

\* What an upload that has got every reply so far has done at each place.  A
\* request that was in flight when its session died is accounted for when the
\* thread sees the failure.
UploadInPlace ==
  job = "upload" =>
    /\ pc \in {"open", "opened", "cached", "ready"} => Untouched
    /\ pc \in Requests \ {"commit", "restore", "unbackup", "rmdir"} /\ sftp = "open" /\ ~uncertain
         => Untouched
    /\ pc \in {"commit", "restore"} /\ sftp = "open" /\ ~uncertain => ~committed
    /\ pc \in {"unbackup", "rmdir"} => committed
    /\ pc \in {"except", "discard"} /\ ~uncertain => Untouched

\* Where a file may be incomplete, and when the backup is dispensable.
FilesInPlace ==
  /\ Whole /\ fs.backup # "part"
  /\ pc \in {"chmod", "posix", "rename", "lstat2", "backup", "commit"} => fs.staged # "part"
  /\ pc = "unbackup" => Present
  /\ pc = "replace" => local.temp # "part"

TransferTypes ==
  /\ fs \in Files /\ local \in [file : Contents, temp : Contents]
  /\ committed \in BOOLEAN /\ uncertain \in BOOLEAN /\ existed \in BOOLEAN

TransferInv ==
  TransferTypes /\ JobInPlace /\ UploadInPlace /\ FilesInPlace /\ UploadOutcomeIsTrue

-----------------------------------------------------------------------------
(* The argument for commands *)

\* A step of a transfer leaves the variables of a command alone, and ends with
\* no result.
LEMMA TransferFrame ==
  ASSUME TransferThread
  PROVE  /\ pc \in TransferPlaces /\ pc' \in TransferPlaces \cup {"idle"}
         /\ outcome' \in {outcome, "ok", "error"}
         /\ timed_out' = timed_out /\ (timer' = timer \/ timer' = "off")
         /\ job' = job
<1> USE DEF Here, watchdogVars, Requests, TransferPlaces
<1>1. ASSUME NEW r \in Requests, NEW next \in TransferPlaces,
             Succeeds(r, next) \/ Throws(r, next) \/ Ignored(r, next)
      PROVE  /\ pc = r /\ pc' = next
             /\ outcome' = outcome /\ UNCHANGED watchdogVars /\ job' = job
  BY <1>1 DEF Succeeds, Throws, Ignored, Exception, Done, Fails, Refused, NoReply, Broken
<1>2. CASE OpenReturns \/ OpenRaises \/ CacheSession \/ CancelOpenTimer \/ Invalid \/ Ready
  BY <1>2 DEF OpenReturns, OpenRaises, CacheSession, CancelOpenTimer, Invalid, Ready, CancelTimer
<1>3. CASE Lstat \/ NoChmod \/ Except \/ Discard \/ Replace
  BY <1>3 DEF Lstat, NoChmod, Except, Discard, Replace, Done
<1>4. CASE Finish \/ Download
  BY <1>4 DEF Finish, RemoveStaging, Download, Get, Exception, Done, Fails, Refused, NoReply, Broken
<1>5. CASE LstatFails \/ Stage \/ CleanUp
  BY <1>1, <1>5 DEF LstatFails, Stage, CleanUp
<1>6. CASE CommitUpload
  <2>1. CASE LookAgain
    BY <1>1, <2>1 DEF LookAgain, Done
  <2>2. CASE PosixRename \/ PlainRename \/ BackUp \/ CommitStaged \/ Restore \/ RemoveBackup
    BY <1>1, <2>2 DEF PosixRename, PlainRename, AfterRename, BackUp, CommitStaged,
                      OnCommitFailure, Restore, RemoveBackup
  <2> QED BY <1>6, <2>1, <2>2 DEF CommitUpload
<1> QED BY <1>2, <1>3, <1>4, <1>5, <1>6 DEF TransferThread

\* Before the first operation.
LEMMA InitCommand == Init => CommandInv
BY DEF Init, LinkInit, CommandInit, None, Streams, CommandInv, EventFirst, ChannelInPlace,
       ResultInPlace, ResultIsWhole, ResultSparesConnection, Reading

\* Every step keeps the command's invariant.
LEMMA NextCommand == CommandInv /\ [Next]_vars => CommandInv'
<1> SUFFICES ASSUME CommandInv, [Next]_vars PROVE CommandInv'
  OBVIOUS
<1> USE DEF CommandInv, EventFirst, ChannelInPlace, ResultInPlace, ResultIsWhole,
            ResultSparesConnection, Reading, Streams, linkVars, watchdogVars
<1>1. ASSUME Start PROVE CommandInv'
  BY <1>1 DEF Start, Execute, Begin, StartWatchdog, FreshCommand, None
<1>2. ASSUME CommandThread PROVE CommandInv'
  <2>1. CASE ExecReturns \/ ExecRaises \/ AppendChannel \/ PasswordFails
    BY <2>1 DEF ExecReturns, ExecRaises, AppendChannel, PasswordFails, commandVars
  <2>2. CASE PollTimedOut \/ PollGoesOn
    BY <2>2 DEF PollTimedOut, PollGoesOn, CloseChannel, commandVars
  <2>3. CASE ReadStreams
    BY <2>3 DEF ReadStreams, Received, ReadOf, Buffered
  <2>4. CASE CheckStatus \/ CheckDrained
    BY <2>4 DEF CheckStatus, AfterStatus, StatusReady, CheckDrained, AfterDrained, Drained, Buffered, commandVars
  <2>5. CASE FinalCheck \/ Raise \/ Cancel
    BY <2>5 DEF FinalCheck, FinalOutcome, Raise, Cancel, CancelTimer, commandVars
  <2> QED BY <1>2, <2>1, <2>2, <2>3, <2>4, <2>5 DEF CommandThread
<1>3. ASSUME TransferThread, UNCHANGED commandVars PROVE CommandInv'
  BY <1>3, TransferFrame DEF commandVars, TransferPlaces, Requests
<1>4. ASSUME Time PROVE CommandInv'
  BY <1>4 DEF Time, Deadline, commandVars
<1>5. ASSUME Watchdog PROVE CommandInv'
  BY <1>5 DEF Watchdog, WatchdogFires, WatchdogLooks, ToClose, WatchdogCloses, CloseChannel,
              CloseSession, CloseTransport, commandVars
<1>6. ASSUME StaleCloses PROVE CommandInv'
  BY <1>6 DEF StaleCloses, CloseSession, CloseTransport
<1>7. ASSUME Remote PROVE CommandInv'
  BY <1>7 DEF Remote, RemoteWrites, RemoteExits
<1>8. ASSUME Environment PROVE CommandInv'
  BY <1>8 DEF Environment, Connect, Disconnect, LinkStalls, LinkLost, ChannelLost,
              ReadInterrupted, CloseChannel, OtherClient, commandVars
<1>9. CASE UNCHANGED vars
  BY <1>9 DEF vars, commandVars
<1> QED BY <1>1, <1>2, <1>3, <1>4, <1>5, <1>6, <1>7, <1>8, <1>9 DEF Next, Thread, Server

\* A result is whole: the command ended and all its output was read, or its
\* connection was lost; never did its own timeout cut it.
THEOREM ResultWhole == Spec => []ResultIsWhole
<1>1. CommandInv => ResultIsWhole
  BY DEF CommandInv
<1> QED BY <1>1, InitCommand, NextCommand, PTL DEF Spec

\* The watchdog of a command that gave a result never closes the connection.
THEOREM ResultSpares == Spec => []ResultSparesConnection
<1>1. CommandInv => ResultSparesConnection
  BY DEF CommandInv
<1> QED BY <1>1, InitCommand, NextCommand, PTL DEF Spec

-----------------------------------------------------------------------------
(* The argument for transfers *)

\* What a request that the server carries out does to its files.
LEMMA EffectFacts ==
  ASSUME fs \in Files, NEW r \in Requests, Possible(r)
  PROVE  LET e == Effect(r) IN
         /\ e \in Files /\ e.kept = fs.kept /\ e.away = fs.away
         /\ r \in {"posix", "rename", "commit"} =>
              fs.staged # Absent /\ e.target = fs.staged /\ e.staged = Absent /\ e.backup = fs.backup
         /\ r = "backup" =>
              fs.target # Absent /\ e.target = Absent /\ e.backup = fs.target /\ e.staged = fs.staged
         /\ r = "restore" =>
              fs.backup # Absent /\ e.target = fs.backup /\ e.backup = Absent /\ e.staged = fs.staged
         /\ r = "unbackup" =>
              e.target = fs.target /\ e.backup = Absent /\ e.staged = fs.staged
         /\ r \notin {"posix", "rename", "commit", "backup", "restore", "unbackup"} =>
              e.target = fs.target /\ e.backup = fs.backup
         /\ r = "put" => e.staged = "new"
         /\ r \in {"lstat", "mkdir", "chmod", "lstat2", "rmdir", "clean", "get"} =>
              e.staged = fs.staged
<1> USE DEF Files, Contents, Absent, Possible, Effect
<1>1. CASE r \in {"posix", "rename", "commit"}
  BY <1>1
<1>2. CASE r \in {"backup", "restore", "unbackup"}
  BY <1>2
<1>3. CASE r \in {"mkdir", "put", "remove", "rmdir", "clean"}
  BY <1>3
<1>4. CASE r \in {"lstat", "chmod", "lstat2", "get"}
  BY <1>4
<1> QED BY <1>1, <1>2, <1>3, <1>4 DEF Requests

\* What one request may do to the server's files: nothing, its effect, or a
\* part of it.
Carried(r) ==
  \/ UNCHANGED <<fs, committed>>
  \/ Possible(r) /\ fs' = Effect(r) /\ committed' = (committed \/ Commits(r))
  \/ fs' = Partial(r) /\ UNCHANGED committed

\* However far a request gets, no incomplete file comes under a name that is
\* read, and content that was there is there.
LEMMA RequestIsSafe ==
  ASSUME TransferTypes, FilesInPlace, NEW r \in Requests, pc = r, Carried(r)
  PROVE  /\ fs' \in Files /\ committed' \in BOOLEAN /\ (committed => committed')
         /\ fs'.target # "part" /\ fs'.backup # "part"
         /\ r \in {"chmod", "posix", "rename", "lstat2", "backup", "commit"} => fs'.staged # "part"
         /\ r = "unbackup" => Present'
         /\ Survives => Survives'
<1> USE DEF TransferTypes, FilesInPlace, Whole, Present, Survives, Absent
<1>1. CASE UNCHANGED <<fs, committed>>
  BY <1>1
<1>2. CASE fs' = Partial(r) /\ UNCHANGED committed
  BY <1>2 DEF Partial, Files, Contents
<1>3. CASE Possible(r) /\ fs' = Effect(r) /\ committed' = (committed \/ Commits(r))
  <2> DEFINE e == Effect(r)
  <2>1. /\ e \in Files /\ e.kept = fs.kept /\ e.away = fs.away
        /\ r \in {"posix", "rename", "commit"} =>
             fs.staged # Absent /\ e.target = fs.staged /\ e.staged = Absent /\ e.backup = fs.backup
        /\ r = "backup" =>
             fs.target # Absent /\ e.target = Absent /\ e.backup = fs.target /\ e.staged = fs.staged
        /\ r = "restore" =>
             fs.backup # Absent /\ e.target = fs.backup /\ e.backup = Absent /\ e.staged = fs.staged
        /\ r = "unbackup" =>
             e.target = fs.target /\ e.backup = Absent /\ e.staged = fs.staged
        /\ r \notin {"posix", "rename", "commit", "backup", "restore", "unbackup"} =>
             e.target = fs.target /\ e.backup = fs.backup
        /\ r \in {"lstat", "mkdir", "chmod", "lstat2", "rmdir", "clean", "get"} =>
             e.staged = fs.staged
    BY <1>3, EffectFacts
  <2>2. fs' = e
    BY <1>3
  <2>3. committed' \in BOOLEAN /\ (committed => committed')
    BY <1>3 DEF Commits
  <2> HIDE DEF e
  <2> QED BY <2>1, <2>2, <2>3 DEF Requests
<1> QED BY <1>1, <1>2, <1>3 DEF Carried

\* A step of an upload from request r to `next': what is left to show.
LEMMA RequestKeeps ==
  ASSUME TransferInv, NEW r \in Requests \ {"get"}, pc = r, Carried(r),
         NEW next \in TransferPlaces \ {"get", "replace"}, Here(r, next), uncertain' \in BOOLEAN,
         job = "upload" => UploadInPlace',
         next \in {"chmod", "posix", "rename", "lstat2", "backup", "commit"} => fs'.staged # "part",
         next = "unbackup" => Present'
  PROVE  TransferInv'
<1>1. /\ pc' = next /\ UNCHANGED <<job, outcome, existed, local>> /\ UNCHANGED <<transport, sftp>>
  BY DEF Here, linkVars
<1>2. /\ fs' \in Files /\ committed' \in BOOLEAN
      /\ fs'.target # "part" /\ fs'.backup # "part"
  BY RequestIsSafe DEF TransferInv
<1>3. outcome \notin {"ok", "error"} /\ transport # "none"
  BY DEF TransferInv, JobInPlace, Requests
<1>4. TransferTypes' /\ FilesInPlace'
  BY <1>1, <1>2 DEF TransferInv, TransferTypes, FilesInPlace, Whole
<1>5. JobInPlace' /\ UploadOutcomeIsTrue'
  BY <1>1, <1>3 DEF TransferInv, JobInPlace, UploadOutcomeIsTrue, TransferPlaces, CommandPlaces,
                    Reading, Requests
<1>6. UploadInPlace'
  BY <1>1 DEF UploadInPlace
<1> QED BY <1>4, <1>5, <1>6 DEF TransferInv

\* The replies an upload goes on with.
LEMMA SuccessKeeps ==
  ASSUME TransferInv, NEW r, NEW next, Done(r), Here(r, next),
         <<r, next>> \in
            {<<"mkdir", "put">>, <<"put", "chmod">>, <<"chmod", "posix">>,
             <<"posix", "rmdir">>, <<"rename", "rmdir">>, <<"lstat2", "backup">>,
             <<"lstat2", "except">>, <<"backup", "commit">>, <<"commit", "unbackup">>,
             <<"unbackup", "rmdir">>, <<"restore", "except">>, <<"remove", "clean">>,
             <<"clean", "discard">>}
  PROVE  TransferInv'
<1>1. /\ r \in Requests \ {"get"} /\ next \in TransferPlaces \ {"get", "replace"}
  BY DEF Requests, TransferPlaces
<1>2. /\ pc = r /\ sftp = "open" /\ Possible(r) /\ fs' = Effect(r)
      /\ committed' = (committed \/ Commits(r)) /\ uncertain' = uncertain
      /\ Here(r, next)
  BY DEF Done
<1>3. /\ pc' = next /\ UNCHANGED <<job, existed, sftp>>
  BY <1>2 DEF Here, linkVars
<1>4. Carried(r) /\ uncertain' \in BOOLEAN
  BY <1>2 DEF Carried, TransferInv, TransferTypes
<1>5. fs \in Files /\ fs' \in Files
  BY <1>1, <1>2, <1>4, RequestIsSafe DEF TransferInv, TransferTypes
<1> DEFINE e == Effect(r)
<1>6. /\ e \in Files /\ e.kept = fs.kept /\ e.away = fs.away
      /\ r \in {"posix", "rename", "commit"} =>
           fs.staged # Absent /\ e.target = fs.staged /\ e.staged = Absent /\ e.backup = fs.backup
      /\ r = "backup" =>
           fs.target # Absent /\ e.target = Absent /\ e.backup = fs.target /\ e.staged = fs.staged
      /\ r = "restore" =>
           fs.backup # Absent /\ e.target = fs.backup /\ e.backup = Absent /\ e.staged = fs.staged
      /\ r = "unbackup" =>
           e.target = fs.target /\ e.backup = Absent /\ e.staged = fs.staged
      /\ r \notin {"posix", "rename", "commit", "backup", "restore", "unbackup"} =>
           e.target = fs.target /\ e.backup = fs.backup
      /\ r = "put" => e.staged = "new"
      /\ r \in {"lstat", "mkdir", "chmod", "lstat2", "rmdir", "clean", "get"} =>
           e.staged = fs.staged
  BY <1>1, <1>2, <1>5, EffectFacts
<1> HIDE DEF e
<1>7. fs' = e
  BY <1>2 DEF e
<1>8. committed' = (committed \/ r \in {"posix", "rename", "commit"})
  BY <1>2 DEF Commits
<1>9. job = "upload" => UploadInPlace'
  BY <1>2, <1>3, <1>6, <1>7, <1>8
     DEF TransferInv, TransferTypes, UploadInPlace, Untouched, Present, Requests
<1>10. next \in {"chmod", "posix", "rename", "lstat2", "backup", "commit"} => fs'.staged # "part"
  BY <1>2, <1>6, <1>7 DEF TransferInv, FilesInPlace
<1>11. next = "unbackup" => Present'
  BY <1>6, <1>7 DEF Present
<1> QED BY <1>1, <1>2, <1>4, <1>9, <1>10, <1>11, RequestKeeps

\* The failures an upload goes on with: a refusal changed nothing, anything
\* else makes the outcome uncertain.
LEMMA FailureKeeps ==
  ASSUME TransferInv, NEW r, NEW next, Fails(r), Here(r, next),
         <<r, next>> \in
            {<<"lstat", "discard">>, <<"clean", "discard">>, <<"mkdir", "except">>,
             <<"put", "except">>, <<"chmod", "except">>, <<"rename", "except">>,
             <<"lstat2", "except">>, <<"backup", "except">>, <<"restore", "except">>,
             <<"posix", "rename">>, <<"rename", "lstat2">>, <<"commit", "restore">>,
             <<"unbackup", "rmdir">>, <<"remove", "clean">>}
  PROVE  TransferInv'
<1>1. /\ r \in Requests \ {"get"} /\ next \in TransferPlaces \ {"get", "replace"}
  BY DEF Requests, TransferPlaces
<1>2. /\ pc = r /\ Carried(r) /\ uncertain' \in BOOLEAN
      /\ \/ uncertain' = TRUE
         \/ /\ sftp = "open" /\ UNCHANGED <<fs, committed>>
            /\ uncertain' = (uncertain \/ r = "restore")
  BY DEF Fails, Refused, NoReply, Broken, Carried, TransferInv, TransferTypes
<1>3. pc' = next /\ UNCHANGED <<job, existed, sftp>>
  BY DEF Here, linkVars
<1>4. /\ committed => committed'
      /\ r \in {"posix", "rename", "lstat2", "backup", "commit"} => fs'.staged # "part"
  BY <1>1, <1>2, RequestIsSafe DEF TransferInv
<1>5. job = "upload" => UploadInPlace'
  <2>1. CASE uncertain' = TRUE
    BY <1>2, <1>3, <1>4, <2>1 DEF TransferInv, UploadInPlace
  <2>2. CASE /\ sftp = "open" /\ UNCHANGED <<fs, committed>>
             /\ uncertain' = (uncertain \/ r = "restore")
    BY <1>2, <1>3, <2>2 DEF TransferInv, TransferTypes, UploadInPlace, Untouched, Present, Requests
  <2> QED BY <1>2, <2>1, <2>2
<1> QED BY <1>1, <1>2, <1>4, <1>5, RequestKeeps

\* Every step of a transfer keeps the transfer's invariant.
LEMMA TransferKeeps ==
  ASSUME TransferInv, TransferThread
  PROVE  TransferInv'
<1> USE DEF linkVars, watchdogVars, transferVars
<1>1. CASE OpenReturns \/ OpenRaises \/ CacheSession \/ CancelOpenTimer \/ Invalid \/ Ready
  <2>1. /\ pc \in {"open", "opened", "cached", "ready"}
        /\ \/ pc' \in {"opened", "cached", "ready"} /\ outcome' \in {outcome, "error"}
              /\ (outcome' = "error" => pc' = "cached")
           \/ pc' = "idle" /\ outcome' = "error"
           \/ pc = "ready" /\ pc' = (IF job = "upload" THEN "lstat" ELSE "get") /\ outcome' = outcome
        /\ UNCHANGED <<job, transport>> /\ UNCHANGED transferVars
    BY <1>1 DEF OpenReturns, OpenRaises, CacheSession, CancelOpenTimer, Invalid, Ready,
                TransferInv, JobInPlace
  <2>2. JobInPlace'
    BY <2>1 DEF TransferInv, JobInPlace, TransferPlaces, CommandPlaces, Reading, Requests
  <2>3. TransferTypes' /\ FilesInPlace'
    BY <2>1 DEF TransferInv, TransferTypes, FilesInPlace, Whole, Present
  <2>4. job = "upload" => Untouched /\ Untouched'
    BY <2>1 DEF TransferInv, UploadInPlace, Untouched, Present
  <2>5. UploadInPlace'
    BY <2>1, <2>4 DEF UploadInPlace
  <2>6. UploadOutcomeIsTrue'
    BY <2>1, <2>4 DEF TransferInv, JobInPlace, UploadOutcomeIsTrue, Untouched
  <2> QED BY <2>2, <2>3, <2>5, <2>6 DEF TransferInv
<1>2. CASE Lstat
  <2>1. /\ pc = "lstat" /\ pc' = "mkdir" /\ sftp = "open" /\ Possible("lstat")
        /\ fs' = Effect("lstat")
        /\ committed' = (committed \/ Commits("lstat")) /\ uncertain' = uncertain
        /\ existed' = (fs.target # Absent)
        /\ UNCHANGED <<job, outcome, local, transport, sftp>>
    BY <1>2 DEF Lstat, Done
  <2>2. fs' = fs /\ committed' = committed
    BY <2>1 DEF Effect, Commits, TransferInv, TransferTypes
  <2>3. outcome \notin {"ok", "error"} /\ transport # "none"
    BY <2>1 DEF TransferInv, JobInPlace
  <2>4. JobInPlace' /\ UploadOutcomeIsTrue'
    BY <2>1, <2>3 DEF TransferInv, JobInPlace, UploadOutcomeIsTrue, TransferPlaces, CommandPlaces,
                      Reading, Requests
  <2>5. TransferTypes' /\ FilesInPlace'
    BY <2>1, <2>2 DEF TransferInv, TransferTypes, FilesInPlace, Whole, Present
  <2>6. job = "upload" /\ ~uncertain => ~committed
    BY <2>1 DEF TransferInv, UploadInPlace, Untouched, Requests
  <2>7. existed' => Present'
    BY <2>1, <2>2 DEF Present
  <2>8. UploadInPlace'
    BY <2>1, <2>2, <2>6, <2>7 DEF UploadInPlace, Untouched
  <2> QED BY <2>4, <2>5, <2>8 DEF TransferInv
<1>3. CASE NoChmod \/ Except
  <2>1. /\ \/ pc = "chmod" /\ pc' = "posix"
           \/ pc = "except" /\ pc' = "remove"
           \/ pc = "except" /\ pc' = "discard"
        /\ UNCHANGED <<job, outcome, transport, sftp, fs, existed, local, committed, uncertain>>
    BY <1>3 DEF NoChmod, Except, Here
  <2>2. JobInPlace' /\ UploadOutcomeIsTrue'
    BY <2>1 DEF TransferInv, JobInPlace, UploadOutcomeIsTrue, TransferPlaces, CommandPlaces,
                Reading, Requests
  <2>3. TransferTypes' /\ FilesInPlace'
    BY <2>1 DEF TransferInv, TransferTypes, FilesInPlace, Whole, Present
  <2>4. UploadInPlace'
    BY <2>1 DEF TransferInv, UploadInPlace, Untouched, Present, Requests
  <2> QED BY <2>2, <2>3, <2>4 DEF TransferInv
<1>4. CASE LstatFails \/ Stage \/ CommitUpload \/ CleanUp
  <2>1. ASSUME NEW r, NEW next, Throws(r, next) \/ Ignored(r, next)
        PROVE  Fails(r) /\ Here(r, next)
    BY <2>1 DEF Throws, Ignored, Exception, Fails
  <2>2. CASE LstatFails \/ Stage \/ CleanUp
    BY <2>1, <2>2, SuccessKeeps, FailureKeeps
       DEF Succeeds, LstatFails, Stage, CleanUp
  <2>3. CASE PosixRename \/ PlainRename \/ BackUp
    BY <2>1, <2>3, SuccessKeeps, FailureKeeps
       DEF Succeeds, PosixRename, PlainRename, AfterRename, BackUp
  <2>4. CASE LookAgain
    <3>1. \/ Done("lstat2") /\ (Here("lstat2", "backup") \/ Here("lstat2", "except"))
          \/ Throws("lstat2", "except")
      BY <2>4 DEF LookAgain, Succeeds
    <3> QED BY <2>1, <3>1, SuccessKeeps, FailureKeeps
  <2>5. CASE CommitStaged \/ Restore \/ RemoveBackup
    BY <2>1, <2>5, SuccessKeeps, FailureKeeps
       DEF Succeeds, CommitStaged, OnCommitFailure, Restore, RemoveBackup
  <2> QED BY <1>4, <2>2, <2>3, <2>4, <2>5 DEF CommitUpload
<1>5. CASE Finish
  <2>1. /\ pc = "rmdir" /\ pc' = "idle" /\ outcome' = "ok"
        /\ Carried("rmdir") /\ uncertain' \in BOOLEAN
        /\ UNCHANGED <<job, transport, existed, local>>
    BY <1>5 DEF Finish, RemoveStaging, Done, Fails, Refused, NoReply, Broken, Carried,
                TransferInv, TransferTypes
  <2>2. /\ fs' \in Files /\ committed' \in BOOLEAN /\ (committed => committed')
        /\ fs'.target # "part" /\ fs'.backup # "part"
    BY <2>1, RequestIsSafe DEF TransferInv, Requests
  <2>3. TransferTypes' /\ FilesInPlace'
    BY <2>1, <2>2 DEF TransferInv, TransferTypes, FilesInPlace, Whole
  <2>4. JobInPlace' /\ UploadInPlace'
    BY <2>1 DEF TransferInv, JobInPlace, UploadInPlace, CommandPlaces, TransferPlaces, Reading,
                Requests
  <2>5. UploadOutcomeIsTrue'
    BY <2>1, <2>2 DEF TransferInv, UploadInPlace, UploadOutcomeIsTrue
  <2> QED BY <2>3, <2>4, <2>5 DEF TransferInv
<1>6. CASE Discard
  <2>1. /\ pc = "discard" /\ pc' = "idle" /\ outcome' = "error"
        /\ local' = [local EXCEPT !.temp = Absent]
        /\ UNCHANGED <<job, transport, fs, existed, committed, uncertain>>
    BY <1>6 DEF Discard
  <2>2. TransferTypes' /\ FilesInPlace'
    BY <2>1 DEF TransferInv, TransferTypes, FilesInPlace, Whole, Contents
  <2>3. JobInPlace' /\ UploadInPlace'
    BY <2>1 DEF TransferInv, JobInPlace, UploadInPlace, CommandPlaces, TransferPlaces, Reading,
                Requests
  <2>4. UploadOutcomeIsTrue'
    BY <2>1 DEF TransferInv, UploadInPlace, UploadOutcomeIsTrue, Untouched, Present
  <2> QED BY <2>2, <2>3, <2>4 DEF TransferInv
<1>7. CASE Download
  <2>1. /\ pc = "get" /\ pc' \in {"replace", "discard"}
        /\ Carried("get") /\ uncertain' \in BOOLEAN
        /\ UNCHANGED <<job, outcome, transport, sftp, existed>>
    BY <1>7 DEF Download, Get, Exception, Done, Refused, NoReply, Broken, Carried,
                TransferInv, TransferTypes
  <2>2. \/ pc' = "replace" /\ local' = [local EXCEPT !.temp = "new"]
        \/ pc' = "discard" /\ local' = [local EXCEPT !.temp = "part"]
    BY <1>7 DEF Download, Get, Downloaded
  <2>3. /\ fs' \in Files /\ committed' \in BOOLEAN
        /\ fs'.target # "part" /\ fs'.backup # "part"
    BY <2>1, RequestIsSafe DEF TransferInv, Requests
  <2>4. TransferTypes' /\ FilesInPlace'
    BY <2>1, <2>2, <2>3 DEF TransferInv, TransferTypes, FilesInPlace, Whole, Contents
  <2>5. JobInPlace' /\ UploadInPlace' /\ UploadOutcomeIsTrue'
    BY <2>1 DEF TransferInv, JobInPlace, UploadInPlace, UploadOutcomeIsTrue, CommandPlaces,
                TransferPlaces, Reading, Requests
  <2> QED BY <2>4, <2>5 DEF TransferInv
<1>8. CASE Replace
  <2>1. /\ pc = "replace" /\ pc' \in {"idle", "discard"}
        /\ (outcome' = "ok" /\ pc' = "idle") \/ outcome' = outcome
        /\ UNCHANGED <<job, transport, sftp, fs, existed, committed, uncertain>>
        /\ local' = [file |-> local.temp, temp |-> Absent] \/ local' = local
    BY <1>8 DEF Replace
  <2>2. TransferTypes' /\ FilesInPlace'
    BY <2>1 DEF TransferInv, TransferTypes, FilesInPlace, Whole, Contents
  <2>3. JobInPlace' /\ UploadInPlace' /\ UploadOutcomeIsTrue'
    BY <2>1 DEF TransferInv, JobInPlace, UploadInPlace, UploadOutcomeIsTrue, CommandPlaces,
                TransferPlaces, Reading, Requests
  <2> QED BY <2>2, <2>3 DEF TransferInv
<1> QED BY <1>1, <1>2, <1>3, <1>4, <1>5, <1>6, <1>7, <1>8 DEF TransferThread

\* A step of a command: its places, and what it does to the connection.
LEMMA CommandFrame ==
  ASSUME CommandThread \/ ReadInterrupted
  PROVE  /\ pc \in CommandPlaces /\ pc' \in CommandPlaces \cup {"idle"} /\ job' = job
         /\ outcome' = outcome \/ pc' = "cancel"
         /\ pc = "cancel" => pc' = "idle"
         /\ outcome' # "ok" \/ outcome' = outcome
         /\ transport' = transport \/ transport' = "closed"
<1> USE DEF linkVars, CommandPlaces, Reading, CloseChannel, TransportDown
<1>1. CASE ExecReturns \/ ExecRaises \/ AppendChannel \/ PasswordFails
  BY <1>1 DEF ExecReturns, ExecRaises, AppendChannel, PasswordFails
<1>2. CASE PollTimedOut \/ PollGoesOn \/ ReadInterrupted
  BY <1>2 DEF PollTimedOut, PollGoesOn, ReadInterrupted
<1>3. CASE ReadStreams \/ CheckStatus \/ CheckDrained
  BY <1>3 DEF ReadStreams, CheckStatus, AfterStatus, CheckDrained, AfterDrained
<1>4. CASE FinalCheck \/ Raise \/ Cancel
  BY <1>4 DEF FinalCheck, FinalOutcome, Raise, Cancel
<1> QED BY <1>1, <1>2, <1>3, <1>4 DEF CommandThread

\* What the watchdogs and the network do to the connection alone.
LEMMA LinkKeeps ==
  ASSUME TransferInv, UNCHANGED <<pc, job, outcome>>, UNCHANGED transferVars,
         pc = "idle" \/ ((transport # "none" => transport' # "none") /\ sftp' \in {sftp, "dead"})
  PROVE  TransferInv'
<1> USE DEF transferVars
<1>1. TransferTypes' /\ FilesInPlace' /\ UploadOutcomeIsTrue'
  BY DEF TransferInv, TransferTypes, FilesInPlace, Whole, Present, UploadOutcomeIsTrue
<1>2. JobInPlace'
  BY DEF TransferInv, JobInPlace
<1>3. CASE pc = "idle"
  BY <1>1, <1>2, <1>3 DEF TransferInv, UploadInPlace, Requests
<1>4. CASE sftp' \in {sftp, "dead"}
  BY <1>1, <1>2, <1>4 DEF TransferInv, UploadInPlace, Untouched, Present
<1> QED BY <1>3, <1>4

\* The connection goes while a request is in flight.
LEMMA LossKeeps ==
  ASSUME TransferInv, UNCHANGED <<pc, job, outcome, existed, local, uncertain>>,
         transport # "none", TransportDown, InFlightRequest
  PROVE  TransferInv'
<1>1. transport' = "closed" /\ sftp' \in {sftp, "dead"} /\ sftp' # "open"
  BY DEF TransportDown, SftpOnClose
<1>2. JobInPlace'
  BY <1>1 DEF TransferInv, JobInPlace
<1>3. CASE UNCHANGED <<fs, committed>>
  BY <1>1, <1>2, <1>3 DEF TransferInv, TransferTypes, FilesInPlace, Whole, Present, Untouched,
                          UploadInPlace, UploadOutcomeIsTrue
<1>4. CASE pc \in Requests /\ Carried(pc)
  <2>1. /\ fs' \in Files /\ committed' \in BOOLEAN /\ (committed => committed')
        /\ fs'.target # "part" /\ fs'.backup # "part"
        /\ pc \in {"chmod", "posix", "rename", "lstat2", "backup", "commit"} => fs'.staged # "part"
        /\ pc = "unbackup" => Present'
    BY <1>4, RequestIsSafe DEF TransferInv
  <2>2. TransferTypes' /\ FilesInPlace'
    BY <2>1 DEF TransferInv, TransferTypes, FilesInPlace, Whole
  <2>3. UploadInPlace'
    BY <1>1, <1>4, <2>1 DEF TransferInv, UploadInPlace, Requests
  <2>4. UploadOutcomeIsTrue'
    BY <1>4 DEF TransferInv, JobInPlace, UploadOutcomeIsTrue, Requests
  <2> QED BY <1>2, <2>2, <2>3, <2>4 DEF TransferInv
<1> QED BY <1>3, <1>4 DEF InFlightRequest, Carried

\* A new operation finds nothing of an earlier one in its way.
LEMMA StartKeeps ==
  ASSUME TransferInv, Start
  PROVE  TransferInv' /\ Whole' /\ (Survives => Survives')
<1>1. /\ FreshTransfer /\ transport # "none" /\ transport' = transport /\ outcome' = "none"
      /\ \/ job' = "command" /\ pc' = "exec"
         \/ job' \in {"upload", "download"} /\ pc' \in {"open", "ready"}
  BY DEF Start, Execute, Begin, linkVars
<1>2. /\ fs' \in Files /\ fs'.target = fs.target /\ fs'.away = fs.away
      /\ fs'.staged = Absent /\ fs'.backup = Absent /\ fs'.kept = (fs.kept \/ fs.backup # Absent)
      /\ ~existed' /\ ~committed' /\ ~uncertain' /\ local' = local
      /\ existed' \in BOOLEAN /\ committed' \in BOOLEAN /\ uncertain' \in BOOLEAN
  BY <1>1 DEF FreshTransfer, TransferInv, TransferTypes, Files, Contents, Absent
<1>3. TransferTypes' /\ FilesInPlace'
  BY <1>1, <1>2 DEF TransferInv, TransferTypes, FilesInPlace, Whole, Absent
<1>4. JobInPlace' /\ UploadOutcomeIsTrue'
  BY <1>1 DEF JobInPlace, UploadOutcomeIsTrue, CommandPlaces, TransferPlaces, Reading, Requests
<1>5. UploadInPlace'
  BY <1>1, <1>2 DEF UploadInPlace, Untouched, Requests
<1>6. Whole' /\ (Survives => Survives')
  BY <1>2, <1>3 DEF FilesInPlace, Survives, Present
<1> QED BY <1>3, <1>4, <1>5, <1>6 DEF TransferInv

\* Another client leaves content at the destination, or holds it.
LEMMA OtherKeeps ==
  ASSUME TransferInv, OtherClient
  PROVE  TransferInv' /\ Whole' /\ Survives'
<1>1. /\ fs' \in Files /\ fs'.target # "part" /\ fs'.backup = fs.backup /\ fs'.staged = fs.staged
      /\ Present'
  BY DEF OtherClient, OtherMoves, OtherWrites, Present, TransferInv, TransferTypes, Files,
         Contents, Absent
<1>2. UNCHANGED <<pc, job, outcome, existed, local, committed, uncertain, transport, sftp>>
  BY DEF OtherClient, linkVars
<1>3. TransferTypes' /\ FilesInPlace'
  BY <1>1, <1>2 DEF TransferInv, TransferTypes, FilesInPlace, Whole
<1>4. JobInPlace' /\ UploadOutcomeIsTrue'
  BY <1>1, <1>2 DEF TransferInv, JobInPlace, UploadOutcomeIsTrue
<1>5. UploadInPlace'
  BY <1>1, <1>2 DEF TransferInv, UploadInPlace, Untouched
<1> QED BY <1>1, <1>3, <1>4, <1>5 DEF TransferInv, FilesInPlace, Survives

\* Before the first operation.
LEMMA InitTransfer == Init => TransferInv
<1> SUFFICES ASSUME Init PROVE TransferInv
  OBVIOUS
<1>1. PICK c \in {"old", Absent} :
        fs = [target |-> c, staged |-> Absent, dir |-> FALSE,
              backup |-> Absent, kept |-> FALSE, away |-> FALSE]
  BY DEF Init, TransferInit
<1>2. TransferTypes
  BY <1>1 DEF Init, TransferInit, TransferTypes, Files, Contents, Absent
<1>3. FilesInPlace
  BY <1>1 DEF Init, LinkInit, TransferInit, FilesInPlace, Whole, Absent
<1>4. JobInPlace /\ UploadInPlace /\ UploadOutcomeIsTrue
  BY DEF Init, LinkInit, JobInPlace, UploadInPlace, UploadOutcomeIsTrue, CommandPlaces, Reading,
         TransferPlaces, Requests
<1> QED BY <1>2, <1>3, <1>4 DEF TransferInv

\* Every step keeps the transfer's invariant.
LEMMA NextTransfer == TransferInv /\ [Next]_vars => TransferInv'
<1> SUFFICES ASSUME TransferInv, [Next]_vars PROVE TransferInv'
  OBVIOUS
<1> USE DEF linkVars
<1>1. ASSUME CommandThread \/ ReadInterrupted, UNCHANGED transferVars PROVE TransferInv'
  <2>1. /\ pc \in CommandPlaces /\ pc' \in CommandPlaces \cup {"idle"}
        /\ job = "command" /\ job' = "command" /\ transport # "none" /\ transport' # "none"
        /\ outcome' \in {"ok", "error"} => pc' \in {"cancel", "idle"}
        /\ outcome' # "ok"
    BY <1>1, CommandFrame DEF TransferInv, JobInPlace, CommandPlaces, Reading
  <2>2. TransferTypes' /\ FilesInPlace'
    BY <1>1, <2>1 DEF TransferInv, TransferTypes, FilesInPlace, Whole, transferVars, CommandPlaces,
                      Reading
  <2>3. JobInPlace' /\ UploadInPlace' /\ UploadOutcomeIsTrue'
    BY <2>1 DEF JobInPlace, UploadInPlace, UploadOutcomeIsTrue, CommandPlaces, Reading,
                TransferPlaces, Requests
  <2> QED BY <2>2, <2>3 DEF TransferInv
<1>2. CASE Thread
  BY <1>1, <1>2, TransferKeeps DEF Thread
<1>3. CASE Time \/ Server
  BY <1>3, LinkKeeps DEF Time, Deadline, Server, Remote, RemoteWrites, RemoteExits
<1>4. CASE Watchdog
  <2>1. /\ UNCHANGED <<pc, job, outcome>> /\ UNCHANGED transferVars
        /\ transport' \in {transport, "closed"} /\ sftp' \in {sftp, "dead"}
    BY <1>4 DEF Watchdog, WatchdogFires, WatchdogLooks, WatchdogCloses, CloseChannel, CloseSession,
                CloseTransport, TransportDown, SftpOnClose
  <2> QED BY <2>1, LinkKeeps
<1>5. CASE StaleCloses
  <2>1. UNCHANGED <<pc, job, outcome, posix, existed, raised, local, uncertain>>
    BY <1>5 DEF StaleCloses
  <2>2. \/ /\ UNCHANGED <<transport, fs, committed>>
           /\ sftp' \in {sftp, "dead"}
        \/ CloseTransport("lost") /\ InFlightRequest
    BY <1>5 DEF StaleCloses, CloseSession, SftpOnClose
  <2>3. CASE UNCHANGED <<transport, fs, committed>> /\ sftp' \in {sftp, "dead"}
    BY <2>1, <2>3, LinkKeeps DEF transferVars
  <2>4. CASE CloseTransport("lost") /\ InFlightRequest /\ transport # "none"
    BY <2>1, <2>4, LossKeeps DEF CloseTransport
  <2>5. CASE CloseTransport("lost") /\ InFlightRequest /\ transport = "none"
    <3>1. pc = "idle"
      BY <2>5 DEF TransferInv, JobInPlace
    <3>2. UNCHANGED transferVars
      BY <2>1, <2>5, <3>1 DEF InFlightRequest, transferVars, Requests
    <3> QED BY <2>1, <3>1, <3>2, LinkKeeps
  <2> QED BY <2>2, <2>3, <2>4, <2>5
<1>6. CASE Environment
  <2>1. CASE (Connect \/ Disconnect \/ LinkStalls) /\ UNCHANGED transferVars
    BY <2>1, LinkKeeps DEF Connect, Disconnect, LinkStalls
  <2>2. CASE LinkLost
    BY <2>2, LossKeeps DEF LinkLost
  <2> QED BY <1>1, <1>6, <2>1, <2>2, OtherKeeps DEF Environment
<1>7. CASE UNCHANGED vars
  BY <1>7, LinkKeeps DEF vars
<1> QED BY <1>2, <1>3, <1>4, <1>5, <1>6, <1>7, StartKeeps DEF Next

\* The invariant of transfers.
LEMMA TransferInvariant == Spec => []TransferInv
BY InitTransfer, NextTransfer, PTL DEF Spec

\* The outcome of an upload is true: success means its file was put at the
\* destination, a failure with every reply received that nothing changed.
THEOREM UploadCorrect == Spec => []UploadOutcomeIsTrue
<1>1. TransferInv => UploadOutcomeIsTrue
  BY DEF TransferInv
<1> QED BY <1>1, TransferInvariant, PTL

\* A step of the thread changes the server's files by the one request it is at.
LEMMA TransferCarries ==
  ASSUME TransferThread
  PROVE  UNCHANGED fs \/ (pc \in Requests /\ Carried(pc))
<1>1. CASE OpenReturns \/ OpenRaises \/ CacheSession \/ CancelOpenTimer \/ Invalid \/ Ready
           \/ NoChmod \/ Except \/ Discard \/ Replace
  BY <1>1 DEF OpenReturns, OpenRaises, CacheSession, CancelOpenTimer, Invalid, Ready, NoChmod,
              Except, Discard, Replace, transferVars
<1>2. ASSUME NEW r \in Requests, Done(r) \/ Fails(r) PROVE pc \in Requests /\ Carried(pc)
  BY <1>2 DEF Done, Fails, Refused, NoReply, Broken, Carried
<1>3. ASSUME NEW r, NEW next, Succeeds(r, next) \/ Throws(r, next) \/ Ignored(r, next)
      PROVE  Done(r) \/ Fails(r)
  BY <1>3 DEF Succeeds, Throws, Ignored, Exception, Fails
<1>4. CASE Lstat \/ Finish \/ Download
  BY <1>2, <1>4 DEF Lstat, Finish, RemoveStaging, Download, Get, Exception, Fails, Requests
<1>5. CASE LstatFails \/ Stage \/ CleanUp
  BY <1>2, <1>3, <1>5 DEF LstatFails, Stage, CleanUp, Requests
<1>6. CASE CommitUpload
  BY <1>2, <1>3, <1>6 DEF CommitUpload, PosixRename, PlainRename, LookAgain, BackUp, CommitStaged,
                          Restore, RemoveBackup, Requests
<1> QED BY <1>1, <1>4, <1>5, <1>6 DEF TransferThread

\* No step makes an incomplete file visible under the destination's name, here
\* or on the server, or takes the last copy of a destination's content.
THEOREM ContentStays == Spec => ContentSurvives
<1>1. ASSUME TransferInv, TransferInv', [Next]_vars
      PROVE  [Whole' /\ (Survives => Survives')]_vars
  <2>1. Whole'
    BY <1>1 DEF TransferInv, FilesInPlace
  <2>2. ASSUME UNCHANGED fs \/ (pc \in Requests /\ Carried(pc)) PROVE Survives => Survives'
    <3>1. CASE UNCHANGED fs
      BY <3>1 DEF Survives, Present
    <3>2. CASE pc \in Requests /\ Carried(pc)
      BY <1>1, <3>2, RequestIsSafe DEF TransferInv
    <3> QED BY <2>2, <3>1, <3>2
  <2>3. ASSUME InFlightRequest PROVE Survives => Survives'
    BY <2>2, <2>3 DEF InFlightRequest, Carried
  <2>4. CASE Thread \/ Time \/ Server \/ Watchdog
    BY <2>1, <2>2, <2>4, TransferCarries DEF Thread, Time, Server, Watchdog, WatchdogCloses, transferVars
  <2>5. CASE StaleCloses
    BY <2>1, <2>2, <2>3, <2>5 DEF StaleCloses
  <2>6. CASE Environment
    BY <1>1, <2>1, <2>2, <2>3, <2>6, OtherKeeps DEF Environment, LinkLost, transferVars
  <2>7. CASE UNCHANGED vars
    BY <2>7
  <2> QED BY <1>1, <2>4, <2>5, <2>6, <2>7, StartKeeps DEF Next
<1> QED BY <1>1, TransferInvariant, PTL DEF Spec, ContentSurvives
=============================================================================
