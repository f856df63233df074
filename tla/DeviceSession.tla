--------------------------- MODULE DeviceSession ---------------------------
(***************************************************************************)
(* The daemon's registry of device sessions (src/src/daemon_session.rs):   *)
(* one handler thread per request, one worker thread per serial port, an   *)
(* mpsc channel from the handlers to each worker, a reply channel and, for *)
(* with_transport, a result channel back, one mutex around the transport   *)
(* factory, and a serial port that the worker opens lazily and closes      *)
(* after an idle period.  The serial ports can be unplugged and replugged, *)
(* and another program (grid-editor, a cold vsn1-cli) can hold them.       *)
(***************************************************************************)
EXTENDS Naturals, Sequences, FiniteSets

CONSTANTS
  Request,        \* requests, each handled by a daemon thread of its own
  Port,           \* serial device paths, the keys of the worker map
  Worker,         \* identities for the worker threads that are spawned
  Editor,         \* a program other than the daemon that opens ports
  None,
  MaxGeneration   \* bound: how often one port can be plugged in

ASSUME NoneAssumption ==
  /\ None \notin Request \cup Port \cup Worker \cup {"ok", "error"}
  /\ Editor \notin Worker \cup {None}
  /\ MaxGeneration \in Nat \ {0}

VARIABLES
  handler,     \* handler[r]: where the thread of request r is
  call,        \* call[r]: which registry method it calls
  target,      \* target[r]: the port that device selection chose
  route,       \* route[r]: the worker whose sender worker_handle cloned
  reply,       \* reply[r]: what the worker sent on the reply channel
  result,      \* result[r]: what with_transport's closure sent
  answer,      \* answer[r]: what the registry method returned
  workers,     \* the registry map: port -> worker
  pc,          \* pc[w]: where the loop of worker w is
  portOf,      \* portOf[w]: the port_name the worker was spawned with
  queue,       \* queue[w]: its mpsc channel
  current,     \* current[w]: the request it is serving
  outcome,     \* outcome[w]: the result it will send
  transport,   \* transport[w]: 0 (None), or the plug generation it opened
  factory,     \* the worker that has locked transport_factory
  plugged,     \* plugged[p]: whether the device is there
  generation,  \* generation[p]: how often it has been plugged in
  held,        \* held[p]: who has the device node open, exclusively
  wire,        \* history: wire[p], the requests of the transfers of which
               \* the whole or a part has reached p
  clean        \* history: clean[r], nothing outside the daemon disturbed r

handlerVars == <<handler, call, target, route, answer>>
workerVars == <<pc, portOf, current, outcome, transport>>
deviceVars == <<plugged, generation, held>>
vars == <<handlerVars, reply, result, workers, queue, workerVars, factory,
          deviceVars, wire, clean>>

Method == {"ensure_open", "write_immediate", "with_transport"}
Verdict == {"ok", "error"}

\* Type invariant: every variable has the shape its declaration describes.
TypeOK ==
  /\ handler \in [Request -> {"new", "resolved", "routed", "waiting",
                              "awaiting_result", "done"}]
  /\ call \in [Request -> Method]
  /\ target \in [Request -> Port \cup {None}]
  /\ route \in [Request -> Worker \cup {None}]
  /\ reply \in [Request -> Verdict \cup {None}]
  /\ result \in [Request -> Verdict \cup {None}]
  /\ answer \in [Request -> Verdict \cup {None}]
  /\ workers \in [Port -> Worker \cup {None}]
  /\ pc \in [Worker -> {"unborn", "receive", "expired", "dispatch", "opening",
                        "run", "operation", "reply"}]
  /\ portOf \in [Worker -> Port \cup {None}]
  /\ queue \in [Worker -> Seq(Request)]
  /\ current \in [Worker -> Request \cup {None}]
  /\ outcome \in [Worker -> Verdict]
  /\ transport \in [Worker -> Nat]
  /\ factory \in Worker \cup {None}
  /\ plugged \in [Port -> BOOLEAN]
  /\ generation \in [Port -> Nat]
  /\ held \in [Port -> Worker \cup {Editor, None}]
  /\ wire \in [Port -> Seq(Request)]
  /\ clean \in [Request -> BOOLEAN]

Init ==
  /\ handler = [r \in Request |-> "new"]
  /\ call \in [Request -> Method]
  /\ target = [r \in Request |-> None]
  /\ route = [r \in Request |-> None]
  /\ reply = [r \in Request |-> None]
  /\ result = [r \in Request |-> None]
  /\ answer = [r \in Request |-> None]
  /\ workers = [p \in Port |-> None]
  /\ pc = [w \in Worker |-> "unborn"]
  /\ portOf = [w \in Worker |-> None]
  /\ queue = [w \in Worker |-> <<>>]
  /\ current = [w \in Worker |-> None]
  /\ outcome = [w \in Worker |-> "ok"]
  /\ transport = [w \in Worker |-> 0]
  /\ factory = None
  /\ plugged = [p \in Port |-> TRUE]
  /\ generation = [p \in Port |-> 1]
  /\ held = [p \in Port |-> None]
  /\ wire = [p \in Port |-> <<>>]
  /\ clean = [r \in Request |-> TRUE]

-----------------------------------------------------------------------------
(* Handler threads                                                         *)

\* Device selection lists the ports that are there and picks one of them.
ResolveDevice(r) ==
  /\ handler[r] = "new"
  /\ \E p \in Port :
       /\ plugged[p]
       /\ target' = [target EXCEPT ![r] = p]
       /\ clean' = [clean EXCEPT ![r] = held[p] # Editor]
  /\ handler' = [handler EXCEPT ![r] = "resolved"]
  /\ UNCHANGED <<call, route, answer, reply, result, workers, queue,
                 workerVars, factory, deviceVars, wire>>

\* The device asked for is not there: an error before any worker is involved.
RejectMissingDevice(r) ==
  /\ handler[r] = "new"
  /\ \E p \in Port : ~plugged[p]
  /\ handler' = [handler EXCEPT ![r] = "done"]
  /\ answer' = [answer EXCEPT ![r] = "error"]
  /\ clean' = [clean EXCEPT ![r] = FALSE]
  /\ UNCHANGED <<call, target, route, reply, result, workers, queue,
                 workerVars, factory, deviceVars, wire>>

\* Mutant: the map is not consulted, so every request gets a fresh worker.
WorkerHandleUnlocked(r) ==
  /\ handler[r] = "resolved"
  /\ \E w \in Worker :
       /\ pc[w] = "unborn"
       /\ workers' = [workers EXCEPT ![target[r]] = w]
       /\ pc' = [pc EXCEPT ![w] = "receive"]
       /\ portOf' = [portOf EXCEPT ![w] = target[r]]
       /\ route' = [route EXCEPT ![r] = w]
  /\ handler' = [handler EXCEPT ![r] = "routed"]
  /\ UNCHANGED <<call, target, answer, reply, result, queue, current, outcome,
                 transport, factory, deviceVars, wire, clean>>

\* Mutant: a worker that exists is used whatever its port.
WorkerHandleAnyPort(r) ==
  /\ handler[r] = "resolved"
  /\ \E w \in Worker :
       /\ \/ pc[w] # "unborn" /\ UNCHANGED <<workers, pc, portOf>>
          \/ /\ \A v \in Worker : pc[v] = "unborn"
             /\ workers' = [workers EXCEPT ![target[r]] = w]
             /\ pc' = [pc EXCEPT ![w] = "receive"]
             /\ portOf' = [portOf EXCEPT ![w] = target[r]]
       /\ route' = [route EXCEPT ![r] = w]
  /\ handler' = [handler EXCEPT ![r] = "routed"]
  /\ UNCHANGED <<call, target, answer, reply, result, queue, current, outcome,
                 transport, factory, deviceVars, wire, clean>>

\* worker_handle: get or spawn the port's worker while the map is locked.
WorkerHandle(r) ==
  LET p == target[r] IN
  /\ handler[r] = "resolved"
  /\ \/ /\ workers[p] # None
        /\ route' = [route EXCEPT ![r] = workers[p]]
        /\ UNCHANGED <<workers, pc, portOf>>
     \/ /\ workers[p] = None
        /\ \E w \in Worker :
             /\ pc[w] = "unborn"
             /\ workers' = [workers EXCEPT ![p] = w]
             /\ pc' = [pc EXCEPT ![w] = "receive"]
             /\ portOf' = [portOf EXCEPT ![w] = p]
             /\ route' = [route EXCEPT ![r] = w]
  /\ handler' = [handler EXCEPT ![r] = "routed"]
  /\ UNCHANGED <<call, target, answer, reply, result, queue, current, outcome,
                 transport, factory, deviceVars, wire, clean>>

\* The command goes into the worker's channel, outside the map's lock.
SendCommand(r) ==
  /\ handler[r] = "routed"
  /\ queue' = [queue EXCEPT ![route[r]] = Append(@, r)]
  /\ handler' = [handler EXCEPT ![r] = "waiting"]
  /\ UNCHANGED <<call, target, route, answer, reply, result, workers,
                 workerVars, factory, deviceVars, wire, clean>>

\* Mutant: the reply alone ends a with_transport too.
ReceiveReplyOnly(r) ==
  /\ handler[r] = "waiting"
  /\ reply[r] # None
  /\ handler' = [handler EXCEPT ![r] = "done"]
  /\ answer' = [answer EXCEPT ![r] = reply[r]]
  /\ UNCHANGED <<call, target, route, reply, result, workers, queue,
                 workerVars, factory, deviceVars, wire, clean>>

\* The reply ends the call, except that a with_transport whose reply is Ok
\* takes its value from the result channel.
ReceiveReply(r) ==
  /\ handler[r] = "waiting"
  /\ reply[r] # None
  /\ IF call[r] = "with_transport" /\ reply[r] = "ok"
       THEN /\ handler' = [handler EXCEPT ![r] = "awaiting_result"]
            /\ UNCHANGED answer
       ELSE /\ handler' = [handler EXCEPT ![r] = "done"]
            /\ answer' = [answer EXCEPT ![r] = reply[r]]
  /\ UNCHANGED <<call, target, route, reply, result, workers, queue,
                 workerVars, factory, deviceVars, wire, clean>>

ReceiveResult(r) ==
  /\ handler[r] = "awaiting_result"
  /\ result[r] # None
  /\ handler' = [handler EXCEPT ![r] = "done"]
  /\ answer' = [answer EXCEPT ![r] = result[r]]
  /\ UNCHANGED <<call, target, route, reply, result, workers, queue,
                 workerVars, factory, deviceVars, wire, clean>>

Handler(r) ==
  \/ ResolveDevice(r)
  \/ RejectMissingDevice(r)
  \/ WorkerHandle(r)
  \/ SendCommand(r)
  \/ ReceiveReply(r)
  \/ ReceiveResult(r)

-----------------------------------------------------------------------------
(* Worker threads                                                          *)

\* The handle that w holds is open on the device that is there now.
Live(w) == plugged[portOf[w]] /\ transport[w] = generation[portOf[w]]

\* The handle that w holds survived its device being unplugged.
Stale(w) == transport[w] # 0 /\ ~Live(w)

\* Mutant: the newest command is served first.
ReceiveNewestCommand(w) ==
  LET last == Len(queue[w])
      r    == queue[w][last]
  IN
  /\ pc[w] = "receive"
  /\ queue[w] # <<>>
  /\ current' = [current EXCEPT ![w] = r]
  /\ queue' = [queue EXCEPT ![w] = SubSeq(@, 1, last - 1)]
  /\ clean' = [clean EXCEPT ![r] = @ /\ ~Stale(w)]
  /\ pc' = [pc EXCEPT ![w] = "dispatch"]
  /\ UNCHANGED <<handlerVars, reply, result, workers, portOf, outcome,
                 transport, factory, deviceVars, wire>>

\* recv, or recv_timeout before the deadline.
ReceiveCommand(w) ==
  /\ pc[w] = "receive"
  /\ queue[w] # <<>>
  /\ current' = [current EXCEPT ![w] = Head(queue[w])]
  /\ queue' = [queue EXCEPT ![w] = Tail(@)]
  /\ clean' = [clean EXCEPT ![Head(queue[w])] = @ /\ ~Stale(w)]
  /\ pc' = [pc EXCEPT ![w] = "dispatch"]
  /\ UNCHANGED <<handlerVars, reply, result, workers, portOf, outcome,
                 transport, factory, deviceVars, wire>>

\* Mutant: the wait for a command has no deadline.
NoIdleTimeout(w) == FALSE /\ UNCHANGED vars

\* recv_timeout finds the channel empty at the deadline.  A command can still
\* arrive before the port is closed.
IdleTimeout(w) ==
  /\ pc[w] = "receive"
  /\ transport[w] # 0
  /\ queue[w] = <<>>
  /\ pc' = [pc EXCEPT ![w] = "expired"]
  /\ UNCHANGED <<handlerVars, reply, result, workers, queue, portOf, current,
                 outcome, transport, factory, deviceVars, wire, clean>>

\* Mutant: the handle is forgotten, but never dropped.
LeakTransport(w) ==
  /\ pc[w] = "expired"
  /\ transport' = [transport EXCEPT ![w] = 0]
  /\ pc' = [pc EXCEPT ![w] = "receive"]
  /\ UNCHANGED <<handlerVars, reply, result, workers, queue, portOf, current,
                 outcome, factory, deviceVars, wire, clean>>

\* transport = None: dropping the handle releases the device node.
CloseTransport(w) ==
  /\ pc[w] = "expired"
  /\ transport' = [transport EXCEPT ![w] = 0]
  /\ held' = [held EXCEPT ![portOf[w]] = IF @ = w THEN None ELSE @]
  /\ pc' = [pc EXCEPT ![w] = "receive"]
  /\ UNCHANGED <<handlerVars, reply, result, workers, queue, portOf, current,
                 outcome, factory, plugged, generation, wire, clean>>

\* ensure_transport with a handle in hand: nothing to do, whatever its state.
ReuseTransport(w) ==
  /\ pc[w] = "dispatch"
  /\ transport[w] # 0
  /\ pc' = [pc EXCEPT ![w] = "run"]
  /\ UNCHANGED <<handlerVars, reply, result, workers, queue, portOf, current,
                 outcome, transport, factory, deviceVars, wire, clean>>

\* ensure_transport without one: lock the factory all workers share.
LockFactory(w) ==
  /\ pc[w] = "dispatch"
  /\ transport[w] = 0
  /\ factory = None
  /\ factory' = w
  /\ pc' = [pc EXCEPT ![w] = "opening"]
  /\ UNCHANGED <<handlerVars, reply, result, workers, queue, portOf, current,
                 outcome, transport, deviceVars, wire, clean>>

\* The open of an absent or busy device fails.
CanOpen(w) == plugged[portOf[w]] /\ held[portOf[w]] = None

\* Mutant: the transport that was opened is not stored.
OpenForgotten(w) ==
  /\ pc[w] = "opening"
  /\ CanOpen(w)
  /\ transport' = [transport EXCEPT ![w] = None]
  /\ held' = [held EXCEPT ![portOf[w]] = w]
  /\ factory' = None
  /\ pc' = [pc EXCEPT ![w] = "run"]
  /\ UNCHANGED <<handlerVars, reply, result, workers, queue, portOf, current,
                 outcome, plugged, generation, wire, clean>>

OpenSucceeds(w) ==
  /\ pc[w] = "opening"
  /\ CanOpen(w)
  /\ transport' = [transport EXCEPT ![w] = generation[portOf[w]]]
  /\ held' = [held EXCEPT ![portOf[w]] = w]
  /\ factory' = None
  /\ pc' = [pc EXCEPT ![w] = "run"]
  /\ UNCHANGED <<handlerVars, reply, result, workers, queue, portOf, current,
                 outcome, plugged, generation, wire, clean>>

\* Mutant: a failed open goes back to the loop without a reply.
OpenFailsSilently(w) ==
  /\ pc[w] = "opening"
  /\ current' = [current EXCEPT ![w] = None]
  /\ factory' = None
  /\ pc' = [pc EXCEPT ![w] = "receive"]
  /\ UNCHANGED <<handlerVars, reply, result, workers, queue, portOf, outcome,
                 transport, deviceVars, wire, clean>>

\* Mutant: the factory stays locked after an open that failed.
OpenFailsLocked(w) ==
  /\ pc[w] = "opening"
  /\ outcome' = [outcome EXCEPT ![w] = "error"]
  /\ pc' = [pc EXCEPT ![w] = "reply"]
  /\ UNCHANGED <<handlerVars, reply, result, workers, queue, portOf, current,
                 transport, factory, deviceVars, wire, clean>>

\* open returns an error: the command is answered without having run.  A
\* device that is there and free can refuse too, by a fault of its own.
OpenFails(w) ==
  /\ pc[w] = "opening"
  /\ outcome' = [outcome EXCEPT ![w] = "error"]
  /\ clean' = [clean EXCEPT ![current[w]] = @ /\ ~CanOpen(w)]
  /\ factory' = None
  /\ pc' = [pc EXCEPT ![w] = "reply"]
  /\ UNCHANGED <<handlerVars, reply, result, workers, queue, portOf, current,
                 transport, deviceVars, wire>>

RunEnsureOpen(w) ==
  /\ pc[w] = "run"
  /\ call[current[w]] = "ensure_open"
  /\ outcome' = [outcome EXCEPT ![w] = "ok"]
  /\ pc' = [pc EXCEPT ![w] = "reply"]
  /\ UNCHANGED <<handlerVars, reply, result, workers, queue, portOf, current,
                 transport, factory, deviceVars, wire, clean>>

\* One transfer, write_all and then flush, with its verdict.  It needs a live
\* handle; on a live handle it can still fail, before anything has left, after
\* a part, or after the whole packet when flush is what fails.
Write(w, verdict) ==
  \E reached \in BOOLEAN :
    /\ verdict = "ok" => reached
    /\ reached => Live(w)
    /\ wire' = IF reached
                 THEN [wire EXCEPT ![portOf[w]] = Append(@, current[w])]
                 ELSE wire

\* An error met on a live handle has its cause in the device, or in what the
\* operation found there.
Blame(w, verdict) ==
  clean' = [clean EXCEPT ![current[w]] = @ /\ (verdict = "ok" \/ ~Live(w))]

RunWriteImmediate(w) ==
  /\ pc[w] = "run"
  /\ call[current[w]] = "write_immediate"
  /\ \E verdict \in Verdict :
       /\ Write(w, verdict)
       /\ outcome' = [outcome EXCEPT ![w] = verdict]
       /\ Blame(w, verdict)
  /\ pc' = [pc EXCEPT ![w] = "reply"]
  /\ UNCHANGED <<handlerVars, reply, result, workers, queue, portOf, current,
                 transport, factory, deviceVars>>

\* Mutant: the closure returns without sending its result.
EndOperationUnsent(w, verdict) ==
  /\ outcome' = [outcome EXCEPT ![w] = "ok"]
  /\ Blame(w, verdict)
  /\ pc' = [pc EXCEPT ![w] = "reply"]
  /\ UNCHANGED result

\* The closure of with_transport sends the operation's own verdict on the
\* result channel and returns Ok to the worker, whatever that verdict was.
EndOperation(w, verdict) ==
  /\ result' = [result EXCEPT ![current[w]] = verdict]
  /\ outcome' = [outcome EXCEPT ![w] = "ok"]
  /\ Blame(w, verdict)
  /\ pc' = [pc EXCEPT ![w] = "reply"]

\* An operation makes several transfers, here two, and the first that fails
\* ends it.  It can also end with an error of its own, here before anything is
\* sent (as after a transfer of which nothing has left), or succeed with
\* nothing to send: the status of a runtime that was never recorded.
BeginOperation(w) ==
  /\ pc[w] = "run"
  /\ call[current[w]] = "with_transport"
  /\ \/ /\ Write(w, "ok")
        /\ pc' = [pc EXCEPT ![w] = "operation"]
        /\ UNCHANGED <<result, outcome, clean>>
     \/ /\ Write(w, "error")
        /\ EndOperation(w, "error")
     \/ /\ UNCHANGED wire
        /\ EndOperation(w, "ok")
  /\ UNCHANGED <<handlerVars, reply, workers, queue, portOf, current,
                 transport, factory, deviceVars>>

\* Mutant: the second transfer is queued as a command of its own.
RequeueOperation(w) ==
  /\ pc[w] = "operation"
  /\ queue' = [queue EXCEPT ![w] = Append(@, current[w])]
  /\ current' = [current EXCEPT ![w] = None]
  /\ pc' = [pc EXCEPT ![w] = "receive"]
  /\ UNCHANGED <<handlerVars, reply, result, workers, portOf, outcome,
                 transport, factory, deviceVars, wire, clean>>

\* It is Ok only if every transfer was.  It can be an error though every
\* transfer arrived: an answer that does not come, a read back that differs.
ContinueOperation(w) ==
  /\ pc[w] = "operation"
  /\ \E written, verdict \in Verdict :
       /\ verdict = "ok" => written = "ok"
       /\ Write(w, written)
       /\ EndOperation(w, verdict)
  /\ UNCHANGED <<handlerVars, reply, workers, queue, portOf, current,
                 transport, factory, deviceVars>>

\* send_result.  The transport stays open, after a failure too.
SendReply(w) ==
  /\ pc[w] = "reply"
  /\ reply' = [reply EXCEPT ![current[w]] = outcome[w]]
  /\ current' = [current EXCEPT ![w] = None]
  /\ pc' = [pc EXCEPT ![w] = "receive"]
  /\ UNCHANGED <<handlerVars, result, workers, queue, portOf, outcome,
                 transport, factory, deviceVars, wire, clean>>

DeviceWorker(w) ==
  \/ ReceiveCommand(w)
  \/ IdleTimeout(w)
  \/ CloseTransport(w)
  \/ ReuseTransport(w)
  \/ LockFactory(w)
  \/ OpenSucceeds(w)
  \/ OpenFails(w)
  \/ RunEnsureOpen(w)
  \/ RunWriteImmediate(w)
  \/ BeginOperation(w)
  \/ ContinueOperation(w)
  \/ SendReply(w)

-----------------------------------------------------------------------------
(* The world outside the daemon                                            *)

\* The requests under way on port p are no longer undisturbed.
Disturb(p) ==
  clean' = [r \in Request |-> clean[r] /\ (target[r] # p \/ handler[r] = "done")]

\* The device node goes away; a handle on it stays, and is good for nothing.
Unplug(p) ==
  /\ plugged[p]
  /\ plugged' = [plugged EXCEPT ![p] = FALSE]
  /\ held' = [held EXCEPT ![p] = None]
  /\ Disturb(p)
  /\ UNCHANGED <<handlerVars, reply, result, workers, queue, workerVars,
                 factory, generation, wire>>

\* The device comes back under the same path, as a new device node.
Replug(p) ==
  /\ ~plugged[p]
  /\ generation[p] < MaxGeneration
  /\ plugged' = [plugged EXCEPT ![p] = TRUE]
  /\ generation' = [generation EXCEPT ![p] = @ + 1]
  /\ UNCHANGED <<handlerVars, reply, result, workers, queue, workerVars,
                 factory, held, wire, clean>>

EditorOpens(p) ==
  /\ plugged[p]
  /\ held[p] = None
  /\ held' = [held EXCEPT ![p] = Editor]
  /\ Disturb(p)
  /\ UNCHANGED <<handlerVars, reply, result, workers, queue, workerVars,
                 factory, plugged, generation, wire>>

EditorCloses(p) ==
  /\ held[p] = Editor
  /\ held' = [held EXCEPT ![p] = None]
  /\ UNCHANGED <<handlerVars, reply, result, workers, queue, workerVars,
                 factory, plugged, generation, wire, clean>>

Environment(p) ==
  Unplug(p) \/ Replug(p) \/ EditorOpens(p) \/ EditorCloses(p)

Next ==
  \/ \E r \in Request : Handler(r)
  \/ \E w \in Worker : DeviceWorker(w)
  \/ \E p \in Port : Environment(p)

Spec == Init /\ [][Next]_vars

\* A handler thread that has started runs on; when requests arrive is up to
\* the clients.
HandlerProceeds(r) ==
  WorkerHandle(r) \/ SendCommand(r) \/ ReceiveReply(r) \/ ReceiveResult(r)

\* Threads are scheduled, an open returns, and recv_timeout reaches its
\* deadline.  Nothing is assumed of devices, of the editor or of clients.
Fairness ==
  /\ \A r \in Request : WF_vars(HandlerProceeds(r))
  /\ \A w \in Worker : WF_vars(DeviceWorker(w))

FairSpec == Spec /\ Fairness

-----------------------------------------------------------------------------
(* Properties                                                              *)

Serves(w, p) == portOf[w] = p /\ (transport[w] # 0 \/ current[w] # None)

\* No two worker threads ever have the same serial port open, or a request
\* for it in hand: the registry spawns one worker for each path, however the
\* handler threads race for it.
PortExclusive ==
  \A p \in Port : \A w1, w2 \in Worker :
    Serves(w1, p) /\ Serves(w2, p) => w1 = w2

\* A handler thread blocked on a channel is never forgotten: its command is
\* queued at the worker of its port, or in that worker's hands, or answered,
\* and a result it goes on to wait for has been sent already.
WaiterIsOwed ==
  \A r \in Request :
    /\ handler[r] = "waiting" =>
         LET w == workers[target[r]]
         IN  /\ w \in Worker
             /\ \/ \E i \in 1 .. Len(queue[w]) : queue[w][i] = r
                \/ current[w] = r
                \/ reply[r] # None
    /\ handler[r] = "awaiting_result" => result[r] # None

Transfers(method) ==
  CASE method = "ensure_open" -> 0
    [] method = "write_immediate" -> 1
    [] method = "with_transport" -> 2

Arrived(r, p) == Cardinality({i \in 1 .. Len(wire[p]) : wire[p][i] = r})

\* Nobody gets another request's answer, nothing is executed twice, and an
\* answer is final.  A request's transfers reach its own device only, each at
\* most once; Ok means that all of them did.  A with_transport whose operation
\* has run is answered with the operation's own verdict, over two channels, and
\* one whose operation never ran has sent nothing.  Once a request is answered
\* it is in no queue and in no worker's hands, so nothing of it arrives later.
AnswerIsOwnOutcome ==
  \A r \in Request :
    /\ \A p \in Port :
         LET n == Arrived(r, p) IN
         /\ target[r] # p => n = 0
         /\ n <= Transfers(call[r])
         /\ answer[r] = "ok" /\ target[r] = p =>
              \/ n = Transfers(call[r])
              \/ n = 0 /\ call[r] = "with_transport"
         /\ answer[r] # None /\ call[r] = "with_transport" =>
              IF result[r] # None THEN answer[r] = result[r]
                                  ELSE answer[r] = "error" /\ n = 0
    /\ answer[r] # None =>
         \A w \in Worker :
           current[w] # r /\ \A i \in 1 .. Len(queue[w]) : queue[w][i] # r

\* The transfers of one operation are never interleaved with another
\* request's on the same port.
NotInterleaved ==
  \A p \in Port : \A i, k \in 1 .. Len(wire[p]) :
    wire[p][i] = wire[p][k] =>
      \A j \in i .. k : wire[p][j] = wire[p][i]

\* A request fails only if something outside the daemon disturbed it between
\* device selection and reply, if the warm handle it met was already stale, or
\* if a transfer or the operation failed on a live handle.
\* Closing idle ports, reopening them and other requests' failures never make
\* a request fail.
FailureHasOutsideCause ==
  \A r \in Request : answer[r] = "error" => ~clean[r]

\* The registry, its workers and channels implement PortQueue.
PQ == INSTANCE PortQueue WITH
  pending <- [p \in Port |-> IF workers[p] = None THEN <<>>
                             ELSE queue[workers[p]]],
  running <- [p \in Port |-> IF workers[p] = None THEN None
                             ELSE current[workers[p]]],
  submitted <- {r \in Request :
                  route[r] # None /\ handler[r] \notin {"resolved", "routed"}},
  finished <- {r \in Request : reply[r] # None}

\* Per port, commands run in the order they were sent, one at a time, each once.
ImplementsPortQueue == PQ!QueueSpec

\* No port stops serving its queue, whatever happens at the other ports.
ServesEveryQueue == PQ!QueueFairSpec

\* Every request that got past device selection is answered in the end.
EveryRequestAnswered ==
  \A r \in Request : handler[r] = "resolved" ~> handler[r] = "done"

\* A handle does not stay open once no more requests come for its port: other
\* programs get the port back, and a handle gone stale is not kept for ever.
IdleTransportClosed ==
  \A w \in Worker : transport[w] # 0 ~> transport[w] = 0

\* Requests for different devices do not wait for each other's open: a worker
\* that needs its port opened can go and open it.
OpensAreIndependent ==
  \A w \in Worker :
    pc[w] = "dispatch" /\ transport[w] = 0 => ENABLED LockFactory(w)
=============================================================================
