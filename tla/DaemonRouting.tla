--------------------------- MODULE DaemonRouting ---------------------------
(***************************************************************************)
(* How a daemon-eligible command finds its way to the device: the routing  *)
(* in src/src/lib.rs and src/src/daemon_client.rs (connect to the socket,  *)
(* else run cold), the daemon of src/src/daemon_server.rs (replace a stale *)
(* socket, bind, serve, unlink on drop), and the serial port that both     *)
(* sides open exclusively.  Daemons can be started while another one runs, *)
(* crash, or fail in accept; clients can be interrupted.                   *)
(***************************************************************************)
EXTENDS Naturals

CONSTANTS
  Client,      \* invocations of vsn1-cli with a daemon-eligible command
  Daemon,      \* daemon processes; a restarted daemon is another one
  Stale,       \* the socket file of a daemon that crashed long ago
  OtherFile,   \* something that is not a socket, at the socket path
  None

ASSUME RoutingAssumption ==
  /\ None \notin Client \cup Daemon \cup {Stale, OtherFile, "ok", "error"}
  /\ Stale \notin Client \cup Daemon \cup {OtherFile}
  /\ OtherFile \notin Daemon
  /\ Client \cap Daemon = {}

VARIABLES
  path,      \* what is at the socket path: a socket, OtherFile or None
  daemon,    \* daemon[d]: where daemon_main of process d is
  client,    \* client[c]: where the invocation is
  peer,      \* peer[c]: the daemon it connected to
  thread,    \* thread[c]: where the daemon's thread for its connection is
  response,  \* response[c]: the response the thread has written
  result,    \* result[c]: what the invocation reported
  port,      \* who has the serial port open, exclusively
  carried,   \* history: how often c's command reached the device
  alone      \* history: alone[d], no other daemon changed the path during
             \* d's start

clientVars == <<client, peer, result>>
vars == <<path, daemon, clientVars, thread, response, port, carried, alone>>

Verdict == {"ok", "error"}

\* Type invariant: every variable has the shape its declaration describes.
TypeOK ==
  /\ path \in Daemon \cup {Stale, OtherFile, None}
  /\ daemon \in [Daemon -> {"idle", "removing", "binding", "serving",
                            "dropped", "failed", "dead"}]
  /\ client \in [Client -> {"start", "connected", "sent", "cold",
                            "cold_open", "done", "killed"}]
  /\ peer \in [Client -> Daemon \cup {None}]
  /\ thread \in [Client -> {"none", "backlog", "accepted", "handling",
                            "ready", "responding", "closed"}]
  /\ response \in [Client -> Verdict \cup {None}]
  /\ result \in [Client -> Verdict \cup {None}]
  /\ port \in Client \cup Daemon \cup {None}
  /\ carried \in [Client -> Nat]
  /\ alone \in [Daemon -> BOOLEAN]

Init ==
  /\ path \in {Stale, OtherFile, None}
  /\ daemon = [d \in Daemon |-> "idle"]
  /\ client = [c \in Client |-> "start"]
  /\ peer = [c \in Client |-> None]
  /\ thread = [c \in Client |-> "none"]
  /\ response = [c \in Client |-> None]
  /\ result = [c \in Client |-> None]
  /\ port = None
  /\ carried = [c \in Client |-> 0]
  /\ alone = [d \in Daemon |-> TRUE]

\* Daemon d changes what is at the socket path.
SetPath(d, new) ==
  /\ path' = new
  /\ alone' = [e \in Daemon |->
                \/ alone[e] /\ daemon[e] \notin {"removing", "binding"}
                \/ alone[e] /\ (e = d \/ path = new)]

\* A process that has started and not exited.
Running(d) == daemon[d] \in {"removing", "binding", "serving", "dropped"}

-----------------------------------------------------------------------------
(* The daemon's life                                                       *)

\* bind_with_handler looks at the path: a socket is taken for a stale one,
\* anything else but nothing is an error.
InspectPath(d) ==
  /\ daemon[d] = "idle"
  /\ daemon' = [daemon EXCEPT ![d] = CASE path = None      -> "binding"
                                       [] path = OtherFile -> "failed"
                                       [] OTHER            -> "removing"]
  /\ UNCHANGED <<path, clientVars, thread, response, port, carried, alone>>

\* Mutant: the old socket is left in place.
KeepStaleSocket(d) ==
  /\ daemon[d] = "removing"
  /\ daemon' = [daemon EXCEPT ![d] = "binding"]
  /\ UNCHANGED <<path, clientVars, thread, response, port, carried, alone>>

\* remove_file of what was a socket a moment ago: an error if it is gone.
RemoveStaleSocket(d) ==
  /\ daemon[d] = "removing"
  /\ SetPath(d, None)
  /\ daemon' = [daemon EXCEPT ![d] = IF path = None THEN "failed"
                                                    ELSE "binding"]
  /\ UNCHANGED <<clientVars, thread, response, port, carried>>

\* UnixListener::bind fails if there is a file again.
BindListener(d) ==
  /\ daemon[d] = "binding"
  /\ IF path = None
       THEN /\ SetPath(d, d)
            /\ daemon' = [daemon EXCEPT ![d] = "serving"]
       ELSE /\ daemon' = [daemon EXCEPT ![d] = "failed"]
            /\ UNCHANGED <<path, alone>>
  /\ UNCHANGED <<clientVars, thread, response, port, carried>>

\* accept returns an error, serve_forever ends, and Drop removes the file at
\* the socket path, whoever's it is.  The connection threads still run.
StopServing(d) ==
  /\ daemon[d] = "serving"
  /\ daemon' = [daemon EXCEPT ![d] = "dropped"]
  /\ SetPath(d, None)
  /\ UNCHANGED <<clientVars, thread, response, port, carried>>

\* The process ends, with its threads, connections and open port; a response
\* that was not written is lost.
EndProcess(d) ==
  /\ daemon' = [daemon EXCEPT ![d] = "dead"]
  /\ thread' = [c \in Client |-> IF peer[c] = d THEN "closed" ELSE thread[c]]
  /\ response' = [c \in Client |-> IF peer[c] = d /\ thread[c] # "closed"
                                    THEN None ELSE response[c]]
  /\ port' = IF port = d THEN None ELSE port
  /\ UNCHANGED <<path, clientVars, carried, alone>>

\* daemon_main returns after the drop.
Exit(d) == daemon[d] = "dropped" /\ EndProcess(d)

\* Killed or crashed: nothing is dropped, the socket file stays.
Crash(d) == Running(d) /\ EndProcess(d)

\* The idle timeout of the port's worker; no request is under way.
CloseIdlePort(d) ==
  /\ port = d
  /\ \A c \in Client : peer[c] = d => thread[c] # "ready"
  /\ port' = None
  /\ UNCHANGED <<path, daemon, clientVars, thread, response, carried, alone>>

-----------------------------------------------------------------------------
(* The invocation of vsn1-cli                                              *)

\* resolve_daemon_socket_path finds no path in this environment, or not the one
\* that the daemon found in its own: the cold path.
NoSocketPath(c) ==
  /\ client[c] = "start"
  /\ client' = [client EXCEPT ![c] = "cold"]
  /\ UNCHANGED <<path, daemon, peer, result, thread, response, port, carried,
                 alone>>

\* connect finds no file, or nobody listening on it: the cold path.
ConnectRefused(c) ==
  /\ client[c] = "start"
  /\ path \in Daemon => daemon[path] # "serving"
  /\ client' = [client EXCEPT ![c] = "cold"]
  /\ UNCHANGED <<path, daemon, peer, result, thread, response, port, carried,
                 alone>>

\* Mutant: whatever is at the path is taken for a daemon.
ConnectUnchecked(c) ==
  /\ client[c] = "start"
  /\ path # None
  /\ client' = [client EXCEPT ![c] = "connected"]
  /\ peer' = [peer EXCEPT ![c] = path]
  /\ thread' = [thread EXCEPT ![c] = "backlog"]
  /\ UNCHANGED <<path, daemon, result, response, port, carried, alone>>

Connect(c) ==
  /\ client[c] = "start"
  /\ path \in Daemon
  /\ daemon[path] = "serving"
  /\ client' = [client EXCEPT ![c] = "connected"]
  /\ peer' = [peer EXCEPT ![c] = path]
  /\ thread' = [thread EXCEPT ![c] = "backlog"]
  /\ UNCHANGED <<path, daemon, result, response, port, carried, alone>>

\* The invocation ends with this verdict.
Finish(c, verdict) ==
  /\ client' = [client EXCEPT ![c] = "done"]
  /\ result' = [result EXCEPT ![c] = verdict]

\* Any other failure of connect is an error of its own.
ConnectFails(c) ==
  /\ client[c] = "start"
  /\ Finish(c, "error")
  /\ UNCHANGED <<path, daemon, peer, thread, response, port, carried, alone>>

\* write_all and shutdown; if the daemon is gone, that is an error.
SendRequest(c) ==
  /\ client[c] = "connected"
  /\ IF thread[c] # "closed"
       THEN client' = [client EXCEPT ![c] = "sent"] /\ UNCHANGED result
       ELSE Finish(c, "error")
  /\ UNCHANGED <<path, daemon, peer, thread, response, port, carried, alone>>

\* Mutant: an error the daemon reports is tried again locally.
ReadResponseOrRetry(c) ==
  /\ client[c] = "sent"
  /\ thread[c] = "closed"
  /\ IF response[c] # "error"
       THEN Finish(c, IF response[c] = "ok" THEN "ok" ELSE "error")
       ELSE client' = [client EXCEPT ![c] = "cold"] /\ UNCHANGED result
  /\ UNCHANGED <<path, daemon, peer, thread, response, port, carried, alone>>

\* read_to_end returns when the daemon closes the connection.  The response
\* decides; no response, from a daemon that died, does not decode, nor does one
\* of another protocol version.
ReadResponse(c) ==
  /\ client[c] = "sent"
  /\ thread[c] = "closed"
  /\ Finish(c, IF response[c] = "ok" THEN "ok" ELSE "error")
  /\ UNCHANGED <<path, daemon, peer, thread, response, port, carried, alone>>

\* The cold path opens the port itself, or fails on a port in use.
OpenCold(c) ==
  /\ client[c] = "cold"
  /\ \/ /\ port = None
        /\ port' = c
        /\ client' = [client EXCEPT ![c] = "cold_open"]
        /\ UNCHANGED result
     \/ Finish(c, "error") /\ UNCHANGED port
  /\ UNCHANGED <<path, daemon, peer, thread, response, carried, alone>>

\* The command's own work, and the port is closed as the process ends.
ExecuteCold(c) ==
  /\ client[c] = "cold_open"
  /\ \/ carried' = [carried EXCEPT ![c] = @ + 1] /\ Finish(c, "ok")
     \/ Finish(c, "error") /\ carried' \in {carried, [carried EXCEPT ![c] = @ + 1]}
  /\ port' = None
  /\ UNCHANGED <<path, daemon, peer, thread, response, alone>>

\* The user interrupts the invocation: the process ends, without a report,
\* a cold run perhaps in the middle of its work.
Interrupt(c) ==
  /\ client[c] \notin {"done", "killed"}
  /\ client' = [client EXCEPT ![c] = "killed"]
  /\ port' = IF port = c THEN None ELSE port
  /\ \/ UNCHANGED carried
     \/ client[c] = "cold_open" /\ carried' = [carried EXCEPT ![c] = @ + 1]
  /\ UNCHANGED <<path, daemon, peer, result, thread, response, alone>>

-----------------------------------------------------------------------------
(* The daemon's thread for a connection                                    *)

AcceptConnection(c) ==
  /\ thread[c] = "backlog"
  /\ daemon[peer[c]] = "serving"
  /\ thread' = [thread EXCEPT ![c] = "accepted"]
  /\ UNCHANGED <<path, daemon, clientVars, response, port, carried, alone>>

\* read_to_end and decode_request: a whole request, which a client that was
\* killed meanwhile may have sent as well.
ReadRequest(c) ==
  /\ thread[c] = "accepted"
  /\ client[c] \in {"sent", "killed"}
  /\ thread' = [thread EXCEPT ![c] = "handling"]
  /\ UNCHANGED <<path, daemon, clientVars, response, port, carried, alone>>

\* What an interrupted client left unsent does not decode, nor does anything
\* in a daemon of another protocol version; the answer is an error either way.
RejectRequest(c) ==
  /\ thread[c] = "accepted"
  /\ client[c] \in {"sent", "killed"}
  /\ thread' = [thread EXCEPT ![c] = "responding"]
  /\ response' = [response EXCEPT ![c] = "error"]
  /\ UNCHANGED <<path, daemon, clientVars, port, carried, alone>>

\* The handler fails before it has the port, or has it opened by the port's
\* worker, or finds it open.
OpenPort(c) ==
  /\ thread[c] = "handling"
  /\ \/ /\ port \in {None, peer[c]}
        /\ port' = peer[c]
        /\ thread' = [thread EXCEPT ![c] = "ready"]
        /\ UNCHANGED response
     \/ /\ thread' = [thread EXCEPT ![c] = "responding"]
        /\ response' = [response EXCEPT ![c] = "error"]
        /\ UNCHANGED port
  /\ UNCHANGED <<path, daemon, clientVars, carried, alone>>

\* Mutant: the acknowledgement comes before the work.
ExecuteUnfinished(c) ==
  /\ thread[c] = "ready"
  /\ thread' = [thread EXCEPT ![c] = "responding"]
  /\ response' = [response EXCEPT ![c] = "ok"]
  /\ carried' \in {carried, [carried EXCEPT ![c] = @ + 1]}
  /\ UNCHANGED <<path, daemon, clientVars, port, alone>>

\* handler.handle: the work is done and answered Success, or it fails, with
\* or without having reached the device, and is answered Error.
Execute(c) ==
  /\ thread[c] = "ready"
  /\ \E verdict \in Verdict :
       /\ response' = [response EXCEPT ![c] = verdict]
       /\ \/ carried' = [carried EXCEPT ![c] = @ + 1]
          \/ verdict = "error" /\ UNCHANGED carried
  /\ thread' = [thread EXCEPT ![c] = "responding"]
  /\ UNCHANGED <<path, daemon, clientVars, port, alone>>

\* Mutant: the response is written, but the connection stays open.
KeepConnection(c) == thread[c] = "responding" /\ UNCHANGED vars

\* write_all, and the stream is dropped.
Respond(c) ==
  /\ thread[c] = "responding"
  /\ thread' = [thread EXCEPT ![c] = "closed"]
  /\ UNCHANGED <<path, daemon, clientVars, response, port, carried, alone>>

-----------------------------------------------------------------------------
DaemonProcess(d) ==
  \/ InspectPath(d)
  \/ RemoveStaleSocket(d)
  \/ BindListener(d)
  \/ StopServing(d)
  \/ Exit(d)
  \/ Crash(d)
  \/ CloseIdlePort(d)

\* What the invocation does by itself.
Invocation(c) ==
  \/ ConnectRefused(c)
  \/ NoSocketPath(c)
  \/ Connect(c)
  \/ ConnectFails(c)
  \/ SendRequest(c)
  \/ ReadResponse(c)
  \/ OpenCold(c)
  \/ ExecuteCold(c)

ConnectionThread(c) ==
  \/ AcceptConnection(c)
  \/ ReadRequest(c)
  \/ RejectRequest(c)
  \/ OpenPort(c)
  \/ Execute(c)
  \/ Respond(c)

Next ==
  \/ \E d \in Daemon : DaemonProcess(d)
  \/ \E c \in Client : Invocation(c) \/ Interrupt(c) \/ ConnectionThread(c)

Spec == Init /\ [][Next]_vars

\* Processes and threads that have started are scheduled, and a daemon that
\* left serve_forever exits.  Starts, crashes and interrupts are not forced.
Fairness ==
  /\ \A c \in Client : WF_vars(Invocation(c)) /\ WF_vars(ConnectionThread(c))
  /\ \A d \in Daemon : WF_vars(Exit(d))

FairSpec == Spec /\ Fairness

-----------------------------------------------------------------------------
(* Properties                                                              *)

\* Whatever the routing does, the user sees a CommandOnce: the daemon and the
\* cold path never both carry a command out, a success is a command that was
\* carried out, and after an error nothing happens behind the user's back.
CO == INSTANCE CommandOnce WITH
  carriedOut <- {c \in Client : carried[c] # 0}

ImplementsCommandOnce == CO!CommandSpec /\ [](\A c \in Client : carried[c] <= 1)

\* Once a daemon has taken the connection, the command stays with it: neither
\* its death nor an error it reports starts a cold run.
NoSilentRetry ==
  \A c \in Client : peer[c] # None => client[c] \notin {"cold", "cold_open"}

\* The socket file that a crashed daemon leaves never keeps the next one from
\* starting: a start fails only on a file of another type, or in a race with
\* another daemon.
StartsWhenAlone ==
  \A d \in Daemon : daemon[d] = "failed" /\ alone[d] => path = OtherFile

\* No invocation hangs: not on a daemon that crashes, nor on one that stops
\* accepting with connections in its backlog.
EveryInvocationEnds ==
  \A c \in Client : <>(client[c] \in {"done", "killed"})

\* A refused or missing socket means that no daemon is running.
FallbackMeansNoDaemon ==
  [][\A c \in Client : ConnectRefused(c) =>
       \A d \in Daemon : daemon[d] # "serving"]_vars
=============================================================================
