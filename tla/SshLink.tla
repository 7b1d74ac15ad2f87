------------------------------ MODULE SshLink ------------------------------
(* What every operation of SSHClient (core/ssh_client.py) shares: the        *)
(* connection, the cached SFTP session, and the watchdog thread that         *)
(* interrupts Paramiko calls which have no timeout of their own              *)
(* (_start_command_timeout for commands, _close_stalled_open for             *)
(* open_sftp).  One thread uses the client; the watchdog runs beside it, and *)
(* Timer.cancel() does not stop a watchdog that has begun to run.            *)
EXTENDS Naturals

VARIABLES
    pc,           \* where the calling thread is; "idle" between operations
    job,          \* the operation: "command" | "upload" | "download"
    outcome,      \* how the last operation ended
    transport,    \* "none" (self._client is None) | "up" | "stalled" | "closed"
    sftp,         \* self._sftp: "none" | "open" | "dead" (its channel is gone)
    timer,        \* "off" | "armed" | "fired", then what it is about to close
    limited,      \* the operation has a deadline
    late,         \* ... and the deadline is past
    timed_out,    \* the Event the watchdog sets
    channel_ref,  \* what the operation gave its watchdog to close: "none" yet,
                  \* "channel" (of a command) or "session" (of SFTP)
    stale         \* what watchdogs of earlier operations are about to close

linkVars == <<transport, sftp>>

watchdogVars == <<timer, limited, late, timed_out, channel_ref, stale>>

LinkInit ==
    /\ pc = "idle" /\ job = "command" /\ outcome = "none"
    /\ transport = "none" /\ sftp = "none"
    /\ timer = "off" /\ limited = FALSE /\ late = FALSE /\ timed_out = FALSE /\ channel_ref = "none"
    /\ stale = {}

Usable == transport = "up"

\* A closed transport takes the SFTP channel with it; self._sftp still refers
\* to the session.
SftpOnClose == IF sftp = "open" THEN "dead" ELSE sftp

TransportDown ==
    /\ transport' = "closed"
    /\ sftp' = SftpOnClose

-----------------------------------------------------------------------------
(* connect() makes a new Paramiko client and leaves self._sftp as it is.     *)
Connect ==
    /\ pc = "idle" /\ transport \in {"none", "closed"}
    /\ transport' = "up"
    /\ UNCHANGED <<pc, job, outcome, sftp>> /\ UNCHANGED watchdogVars

\* connect() fails: its handlers call disconnect(); disconnect() itself.
Disconnect ==
    /\ pc = "idle" /\ transport # "none"
    /\ transport' = "none" /\ sftp' = "none"
    /\ stale' = stale \ {"session"}
    /\ UNCHANGED <<pc, job, outcome, timer, limited, late, timed_out, channel_ref>>

\* The network: packets silently stop, or Paramiko notices the loss.
LinkStalls ==
    /\ transport = "up"
    /\ transport' = "stalled"
    /\ UNCHANGED <<pc, job, outcome, sftp>> /\ UNCHANGED watchdogVars

-----------------------------------------------------------------------------
(* A watchdog closes what channel_ref holds, else the transport.             *)
ToClose == IF channel_ref = "none" THEN "transport" ELSE channel_ref

\* A watchdog of an operation that is over goes on; nothing is given to it any
\* more, and closing a session that was discarded does nothing.
LeftBehind ==
    LET left == CASE timer = "fired" -> {ToClose}
                  [] timer \in {"off", "armed"} -> {}
                  [] OTHER -> {timer}
    IN IF sftp = "none" THEN left \ {"session"} ELSE left

\* _start_command_timeout, or the Timer of _get_sftp.
StartWatchdog(withTimeout) ==
    /\ timer' = IF withTimeout THEN "armed" ELSE "off"
    /\ limited' = withTimeout
    /\ late' = FALSE /\ timed_out' = FALSE /\ channel_ref' = "none"
    /\ stale' = stale \cup LeftBehind

\* timer.cancel() in the finally clauses.
CancelTimer == timer' = IF timer = "armed" THEN "off" ELSE timer

\* The deadline passes; it is read only while the timer is set.
Deadline ==
    /\ pc # "idle" /\ timer = "armed" /\ ~late
    /\ late' = TRUE
    /\ UNCHANGED <<pc, job, outcome, timer, limited, timed_out, channel_ref, stale>>
    /\ UNCHANGED linkVars

\* The first statement of _on_timeout: the event is set before anything is
\* closed.
WatchdogFires ==
    /\ timer = "armed" /\ late
    /\ timer' = "fired"
    /\ timed_out' = TRUE
    /\ UNCHANGED <<pc, job, outcome, limited, late, channel_ref, stale>>
    /\ UNCHANGED linkVars

\* `if channel_ref:' decides what to close.
WatchdogLooks ==
    /\ timer = "fired"
    /\ timer' = ToClose
    /\ UNCHANGED <<pc, job, outcome, limited, late, timed_out, channel_ref, stale>>
    /\ UNCHANGED linkVars
=============================================================================
