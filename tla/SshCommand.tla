---------------------------- MODULE SshCommand -----------------------------
(* SSHClient.execute and execute_sudo: the exec request, the loop of         *)
(* _read_output that drains stdout and stderr and then takes the exit        *)
(* status, and the wall-clock watchdog.  The channel is Paramiko's: it       *)
(* buffers what the remote side sends, at most Window chunks until they are  *)
(* read, and a closed channel reports its exit status as ready (-1 when none *)
(* arrived).                                                                 *)
EXTENDS SshLink

CONSTANTS
    Programs,   \* remote commands: [out |-> n, err |-> n, ends |-> BOOLEAN]
    Window      \* chunks the remote side may send before they are read

Streams == {"out", "err"}

ASSUME CommandAssumption ==
    /\ Window \in Nat \ {0}
    /\ \A p \in Programs : /\ {"out", "err", "ends"} \subseteq DOMAIN p
                           /\ \A s \in Streams : p[s] \in Nat

VARIABLES
    chan,      \* "none" | "open" | "exited" | "cut" (by this command's own
               \* timeout or interruption) | "lost" (with the connection)
    program,   \* the remote command
    sent, got  \* per stream: chunks that arrived, chunks that were read

commandVars == <<chan, program, sent, got>>

NoProgram == [out |-> 0, err |-> 0, ends |-> TRUE]

None == [s \in Streams |-> 0]

CommandInit == chan = "none" /\ program = NoProgram /\ sent = None /\ got = None

Buffered(s) == sent[s] - got[s]

\* exit_status_ready(): an exit status arrived, or the channel is closed.
StatusReady == chan # "open"

Drained == \A s \in Streams : Buffered(s) = 0

-----------------------------------------------------------------------------
(* The calling thread.                                                       *)

\* The state of one command; it ends with its operation.
FreshCommand(p) ==
    chan' = "none" /\ program' = p /\ sent' = None /\ got' = None

\* execute(): the checks, then the watchdog is started before the request.
Execute(p, withTimeout) ==
    /\ pc = "idle" /\ transport # "none"
    /\ StartWatchdog(withTimeout)
    /\ FreshCommand(p)
    /\ job' = "command" /\ outcome' = "none" /\ pc' = "exec"
    /\ UNCHANGED linkVars

\* `self._client.exec_command' returns; channel_ref is still empty.
ExecReturns ==
    /\ pc = "exec" /\ Usable
    /\ chan' = "open" /\ pc' = "ref"
    /\ UNCHANGED <<job, outcome, program, sent, got>>
    /\ UNCHANGED linkVars /\ UNCHANGED watchdogVars

\* ... or raises: the server refuses the channel, or the transport is closed.
ExecRaises ==
    /\ pc = "exec" /\ transport # "stalled"
    /\ pc' = "raise"
    /\ UNCHANGED <<job, outcome>> /\ UNCHANGED commandVars
    /\ UNCHANGED linkVars /\ UNCHANGED watchdogVars

\* Mutant: the watchdog is never told of the channel.
AppendChannel_Missing ==
    /\ pc = "ref"
    /\ pc' = "poll"
    /\ UNCHANGED <<job, outcome>> /\ UNCHANGED watchdogVars
    /\ UNCHANGED commandVars /\ UNCHANGED linkVars

\* channel_ref.append(stdout.channel).
AppendChannel ==
    /\ pc = "ref"
    /\ channel_ref' = "channel"
    /\ pc' = "poll"
    /\ UNCHANGED <<job, outcome, timer, limited, late, timed_out, stale>>
    /\ UNCHANGED commandVars /\ UNCHANGED linkVars

\* execute_sudo: writing the password to a channel that is closed raises.
PasswordFails ==
    /\ pc = "ref" /\ chan # "open"
    /\ channel_ref' = "channel"
    /\ pc' = "raise"
    /\ UNCHANGED <<job, outcome, timer, limited, late, timed_out, stale>>
    /\ UNCHANGED commandVars /\ UNCHANGED linkVars

\* _close_command_channel: when channel.close() raises, which takes a broken
\* connection, the transport is closed instead.
CloseChannel ==
    /\ chan' = IF chan = "open" THEN "cut" ELSE chan
    /\ \/ UNCHANGED linkVars
       \/ transport = "stalled" /\ chan = "open" /\ TransportDown

\* The head of the loop: the event, then the deadline; the thread that finds
\* the deadline past does what the watchdog does.
PollTimedOut ==
    /\ pc = "poll" /\ (timed_out \/ late)
    /\ timed_out' = TRUE
    /\ IF timed_out THEN UNCHANGED chan /\ UNCHANGED linkVars ELSE CloseChannel
    /\ pc' = "raise"
    /\ UNCHANGED <<job, outcome, program, sent, got>>
    /\ UNCHANGED <<timer, limited, late, channel_ref, stale>>

PollGoesOn ==
    /\ pc = "poll" /\ ~timed_out /\ ~late
    /\ pc' = "recv"
    /\ UNCHANGED <<job, outcome>> /\ UNCHANGED commandVars
    /\ UNCHANGED linkVars /\ UNCHANGED watchdogVars

\* One bounded read of each stream that is ready.
ReadOf(s) == IF Buffered(s) > 0 THEN got[s] + 1 ELSE got[s]

\* Mutant: stderr is left for after the exit.
Received_StdoutOnly == [got EXCEPT !["out"] = ReadOf("out")]

Received == [s \in Streams |-> ReadOf(s)]

ReadStreams ==
    /\ pc = "recv"
    /\ got' = Received
    /\ pc' = "status"
    /\ UNCHANGED <<job, outcome, chan, program, sent>>
    /\ UNCHANGED linkVars /\ UNCHANGED watchdogVars

\* `exit_status_ready() and not recv_ready() and not recv_stderr_ready()', in
\* this order: data precedes the status, so once the status is there nothing
\* more can arrive.
AfterStatus == IF StatusReady THEN "drained" ELSE "poll"

AfterDrained == IF Drained THEN "final" ELSE "poll"

CheckStatus ==
    /\ pc = "status"
    /\ pc' = AfterStatus
    /\ UNCHANGED <<job, outcome>> /\ UNCHANGED commandVars
    /\ UNCHANGED linkVars /\ UNCHANGED watchdogVars

CheckDrained ==
    /\ pc = "drained"
    /\ pc' = AfterDrained
    /\ UNCHANGED <<job, outcome>> /\ UNCHANGED commandVars
    /\ UNCHANGED linkVars /\ UNCHANGED watchdogVars

\* An interrupt inside the loop stops the remote command before it goes on.
ReadInterrupted ==
    /\ pc \in {"recv", "status", "drained"}
    /\ IF timed_out THEN UNCHANGED chan /\ UNCHANGED linkVars ELSE CloseChannel
    /\ pc' = "raise"
    /\ UNCHANGED <<job, outcome, program, sent, got>> /\ UNCHANGED watchdogVars

\* Mutant: the result is returned as it is.
FinalOutcome_Unchecked == "result"

\* The last look at the event, after the exit status was taken.
FinalOutcome == IF timed_out THEN "timeout" ELSE "result"

FinalCheck ==
    /\ pc = "final"
    /\ outcome' = FinalOutcome
    /\ pc' = "cancel"
    /\ UNCHANGED job
    /\ UNCHANGED commandVars /\ UNCHANGED linkVars /\ UNCHANGED watchdogVars

\* The except clauses tell a timeout from a failure by the event.
Raise ==
    /\ pc = "raise"
    /\ outcome' = IF limited /\ timed_out THEN "timeout" ELSE "error"
    /\ pc' = "cancel"
    /\ UNCHANGED job
    /\ UNCHANGED commandVars /\ UNCHANGED linkVars /\ UNCHANGED watchdogVars

Cancel ==
    /\ pc = "cancel"
    /\ CancelTimer
    /\ pc' = "idle"
    /\ UNCHANGED <<job, outcome, limited, late, timed_out, channel_ref, stale>>
    /\ UNCHANGED commandVars /\ UNCHANGED linkVars

CommandThread ==
    \/ ExecReturns \/ ExecRaises \/ AppendChannel \/ PasswordFails
    \/ PollTimedOut \/ PollGoesOn \/ ReadStreams \/ CheckStatus
    \/ CheckDrained \/ FinalCheck \/ Raise \/ Cancel

-----------------------------------------------------------------------------
(* The remote side and the connection.                                       *)

InFlight == Buffered("out") + Buffered("err")

RemoteWrites(s) ==
    /\ chan = "open" /\ Usable
    /\ sent[s] < program[s] /\ InFlight < Window
    /\ sent' = [sent EXCEPT ![s] = @ + 1]
    /\ UNCHANGED <<pc, job, outcome, chan, program, got>>
    /\ UNCHANGED linkVars /\ UNCHANGED watchdogVars

RemoteExits ==
    /\ chan = "open" /\ Usable /\ program.ends
    /\ \A s \in Streams : sent[s] = program[s]
    /\ chan' = "exited"
    /\ UNCHANGED <<pc, job, outcome, program, sent, got>>
    /\ UNCHANGED linkVars /\ UNCHANGED watchdogVars

Remote == RemoteExits \/ \E s \in Streams : RemoteWrites(s)

\* What the loss of the connection does to the command's channel.
ChannelLost == chan' = IF chan = "open" THEN "lost" ELSE chan

=============================================================================
