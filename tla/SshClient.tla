----------------------------- MODULE SshClient -----------------------------
(* One SSHClient: the thread that uses it runs commands and file transfers   *)
(* one after the other over the same connection, while the watchdogs of the  *)
(* current and of earlier operations, the network and the server go on.      *)
EXTENDS SshCommand, SftpTransfer

CONSTANT MaxOperations   \* operations the thread starts

VARIABLE operations

vars == <<pc, job, outcome, linkVars, watchdogVars, commandVars, transferVars,
          operations>>

Init == LinkInit /\ CommandInit /\ TransferInit /\ operations = 0

-----------------------------------------------------------------------------
(* The watchdog closes what it decided to close; a closed transport takes    *)
(* every channel with it.                                                    *)
CloseSession ==
    /\ sftp' = SftpOnClose
    /\ UNCHANGED <<transport, chan>>

CloseTransport(how) ==
    /\ chan' = IF chan = "open" THEN how ELSE chan
    /\ IF transport = "none" THEN UNCHANGED linkVars ELSE TransportDown

WatchdogCloses ==
    /\ \/ timer = "channel" /\ CloseChannel
       \/ timer = "session" /\ CloseSession
       \/ timer = "transport" /\ CloseTransport("cut")
    /\ timer' = "off"
    /\ UNCHANGED <<pc, job, outcome, limited, late, timed_out, channel_ref, stale>>
    /\ UNCHANGED <<program, sent, got, operations>> /\ UNCHANGED transferVars

\* The request in flight when the connection goes: carried out, cut short, or
\* never received.
InFlightRequest ==
    \/ UNCHANGED <<fs, committed>>
    \/ /\ pc \in Requests /\ sftp = "open" /\ Possible(pc)
       /\ \/ fs' = Effect(pc) /\ committed' = (committed \/ Commits(pc))
          \/ fs' = Partial(pc) /\ UNCHANGED committed

\* A watchdog of an earlier operation: closing that operation's channel is no
\* concern of this one, closing the transport is.
StaleCloses ==
    /\ \E w \in stale :
          /\ stale' = stale \ {w}
          /\ \/ /\ w = "channel"
                /\ UNCHANGED linkVars /\ UNCHANGED <<chan, fs, committed>>
             \/ w = "session" /\ CloseSession /\ UNCHANGED <<fs, committed>>
             \/ w = "transport" /\ CloseTransport("lost") /\ InFlightRequest
    /\ UNCHANGED <<pc, job, outcome, timer, limited, late, timed_out, channel_ref>>
    /\ UNCHANGED <<program, sent, got, operations>>
    /\ UNCHANGED <<posix, existed, raised, local, uncertain>>

\* Paramiko notices that the connection is gone.
LinkLost ==
    /\ transport \in {"up", "stalled"}
    /\ TransportDown /\ ChannelLost /\ InFlightRequest
    /\ UNCHANGED <<pc, job, outcome, program, sent, got, operations>>
    /\ UNCHANGED <<posix, existed, raised, local, uncertain>>
    /\ UNCHANGED watchdogVars

-----------------------------------------------------------------------------
Start ==
    /\ operations < MaxOperations
    /\ operations' = operations + 1
    /\ \/ \E p \in Programs, t \in BOOLEAN : Execute(p, t) /\ FreshTransfer
       \/ \E what \in {"upload", "download"} : Begin(what) /\ FreshCommand(NoProgram)

Thread ==
    /\ \/ CommandThread /\ UNCHANGED transferVars
       \/ TransferThread /\ UNCHANGED commandVars
    /\ UNCHANGED operations

Time ==
    /\ Deadline
    /\ UNCHANGED commandVars /\ UNCHANGED transferVars /\ UNCHANGED operations

Watchdog ==
    \/ /\ WatchdogFires \/ WatchdogLooks
       /\ UNCHANGED commandVars /\ UNCHANGED transferVars /\ UNCHANGED operations
    \/ WatchdogCloses

Server == Remote /\ UNCHANGED transferVars /\ UNCHANGED operations

Environment ==
    \/ /\ Connect \/ Disconnect \/ LinkStalls
       /\ UNCHANGED commandVars /\ UNCHANGED transferVars /\ UNCHANGED operations
    \/ LinkLost
    \/ ReadInterrupted /\ UNCHANGED transferVars /\ UNCHANGED operations
    \/ OtherClient /\ UNCHANGED commandVars /\ UNCHANGED operations

Next ==
    Start \/ Thread \/ Time \/ Watchdog \/ StaleCloses \/ Server \/ Environment

Spec == Init /\ [][Next]_vars

(* The thread and the watchdog are scheduled and time passes; a server whose *)
(* connection works makes progress.  The network, the other client and the   *)
(* start of operations owe nothing.                                          *)
FairSpec ==
    /\ Spec
    /\ WF_vars(Thread) /\ WF_vars(Time) /\ WF_vars(Watchdog) /\ WF_vars(Server)

-----------------------------------------------------------------------------
(* A result is never the remains of a command this client cut off: the       *)
(* watchdog sets its event before it closes the channel, and a result is     *)
(* returned only after the event was looked at once more.  With a real exit  *)
(* status a result has all the output; without one the connection was lost.  *)
ResultIsWhole ==
    outcome = "result" =>
        /\ chan \in {"exited", "lost"}
        /\ chan = "exited" => \A s \in Streams : got[s] = program[s]

(* The watchdog of a command whose result was returned, however late it      *)
(* runs, does not close the connection under the operations that follow: it  *)
(* was given the command's own channel.                                      *)
ResultSparesConnection ==
    outcome = "result" =>
        /\ timer # "transport"
        /\ timer = "fired" => channel_ref = "channel"

(* Whatever is refused, lost or interrupted on the way, and whatever another *)
(* client writes meanwhile: an incomplete file is never seen under the       *)
(* destination's name, here or on the server, and a destination that had     *)
(* content keeps one, under its own name or a backup's.                      *)
Whole == fs.target # "part" /\ local.file # "part"

Present == fs.target # Absent \/ fs.away

Survives == Present \/ fs.backup # Absent \/ fs.kept

ContentSurvives == [][Whole' /\ (Survives => Survives')]_vars

(* An upload that reports success put its file at the destination; one that  *)
(* failed changed nothing, the backup is back in its place, unless a reply   *)
(* was lost or the server refused to rename the backup back.                 *)
UploadOutcomeIsTrue ==
    job = "upload" =>
        /\ outcome = "ok" => committed
        /\ outcome = "error" /\ ~uncertain =>
              ~committed /\ (existed => Present)

(* Every operation ends: a command that has a timeout, a command that ends   *)
(* by itself however much it writes to both streams, every transfer, also on *)
(* a cached session (each request has the channel's inactivity timeout).     *)
(* Only a command without a timeout waits as long as a silent connection     *)
(* lasts.                                                                    *)
MustEnd == pc # "idle" /\ (limited \/ program.ends)

EveryOperationEnds ==
    MustEnd ~> (pc = "idle" \/ (transport = "stalled" /\ job = "command" /\ ~limited))
=============================================================================
