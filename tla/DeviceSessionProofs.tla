------------------------ MODULE DeviceSessionProofs -------------------------
(***************************************************************************)
(* DeviceSession for any number of requests, ports and workers: a port has *)
(* one worker, no handler thread waits for an answer that nobody owes it,  *)
(* and the registry, its workers and their channels implement PortQueue.   *)
(***************************************************************************)
EXTENDS DeviceSession, TLAPS

-----------------------------------------------------------------------------
(* Who serves a port.  The inductive invariant says what each program      *)
(* counter knows: which worker a port has, which request a worker holds,   *)
(* which port a handler has resolved.                                      *)

\* The map and the threads agree: a registered worker lives and serves the
\* port it is registered for, and every living worker is registered.
RegistryOK ==
  /\ \A p \in Port : workers[p] # None =>
       /\ pc[workers[p]] # "unborn"
       /\ portOf[workers[p]] = p
  /\ \A w \in Worker : pc[w] # "unborn" =>
       /\ portOf[w] \in Port
       /\ workers[portOf[w]] = w

Busy == {"dispatch", "opening", "run", "operation", "reply"}

\* A worker holds a request exactly while it works on one, and a worker that
\* has not been spawned holds nothing.
WorkerOK ==
  \A w \in Worker :
    /\ pc[w] \in Busy <=> current[w] # None
    /\ pc[w] = "unborn" => transport[w] = 0 /\ queue[w] = <<>>
    /\ pc[w] \in {"run", "operation"} => transport[w] # 0

\* A handler past device selection has a port, and past worker_handle it has
\* the sender of that port's worker.
HandlerOK ==
  \A r \in Request :
    /\ handler[r] \in {"resolved", "routed", "waiting", "awaiting_result"} =>
         target[r] \in Port
    /\ handler[r] \in {"routed", "waiting", "awaiting_result"} =>
         route[r] \in Worker /\ route[r] = workers[target[r]]

\* A port is never numbered 0, the mark of a worker without a transport.
GenerationOK == \A p \in Port : generation[p] # 0

IInv ==
  /\ TypeOK
  /\ RegistryOK
  /\ WorkerOK
  /\ HandlerOK
  /\ GenerationOK

\* At the start no worker has been spawned and no request has been routed.
THEOREM InitIInv == Init => IInv
<1> SUFFICES ASSUME Init  PROVE IInv
  OBVIOUS
<1>1. TypeOK
  BY NoneAssumption DEF Init, TypeOK, Method, Verdict
<1>2. RegistryOK /\ WorkerOK /\ HandlerOK /\ GenerationOK
  BY DEF Init, RegistryOK, WorkerOK, HandlerOK, GenerationOK, Busy
<1>3. QED
  BY <1>1, <1>2 DEF IInv

\* Every step keeps the inductive invariant.
LEMMA StepIInv == IInv /\ [Next]_vars => IInv'
<1> SUFFICES ASSUME IInv, [Next]_vars  PROVE IInv'
  OBVIOUS
<1> USE NoneAssumption DEF IInv, TypeOK, RegistryOK, WorkerOK, HandlerOK,
        GenerationOK, Busy, Method, Verdict, handlerVars, workerVars, deviceVars
<1>1. ASSUME NEW r \in Request, ResolveDevice(r)  PROVE IInv'
  BY <1>1 DEF ResolveDevice
<1>2. ASSUME NEW r \in Request, RejectMissingDevice(r)  PROVE IInv'
  BY <1>2 DEF RejectMissingDevice
<1>3. ASSUME NEW r \in Request, WorkerHandle(r)  PROVE IInv'
  <2> DEFINE p == target[r]
  <2>0. p \in Port
    BY <1>3 DEF WorkerHandle
  <2>1. CASE workers[p] # None
    <3>1. /\ handler' = [handler EXCEPT ![r] = "routed"]
          /\ route' = [route EXCEPT ![r] = workers[p]]
          /\ UNCHANGED <<workers, pc, portOf>>
      BY <1>3, <2>1 DEF WorkerHandle
    <3>2. TypeOK'
      BY <1>3, <2>0, <2>1, <3>1 DEF WorkerHandle
    <3>3. RegistryOK' /\ WorkerOK' /\ GenerationOK'
      BY <1>3, <3>1 DEF WorkerHandle
    <3>4. HandlerOK'
      BY <1>3, <2>0, <2>1, <3>1 DEF WorkerHandle
    <3>5. QED
      BY <3>2, <3>3, <3>4
  <2>2. CASE workers[p] = None
    <3>1. PICK w \in Worker :
            /\ pc[w] = "unborn"
            /\ workers' = [workers EXCEPT ![p] = w]
            /\ pc' = [pc EXCEPT ![w] = "receive"]
            /\ portOf' = [portOf EXCEPT ![w] = p]
            /\ route' = [route EXCEPT ![r] = w]
      BY <1>3, <2>2 DEF WorkerHandle
    <3>2. /\ handler' = [handler EXCEPT ![r] = "routed"]
          /\ UNCHANGED <<call, target, answer, reply, result, queue, current,
                         outcome, transport, factory, plugged, generation,
                         held, wire, clean>>
      BY <1>3 DEF WorkerHandle
    <3>3. TypeOK'
      BY <2>0, <3>1, <3>2
    <3>4. RegistryOK'
      BY <2>0, <2>2, <3>1, <3>2
    <3>5. WorkerOK' /\ GenerationOK'
      BY <3>1, <3>2
    <3>6. HandlerOK'
      <4> SUFFICES ASSUME NEW q \in Request,
                          handler'[q] \in {"resolved", "routed", "waiting",
                                           "awaiting_result"}
                   PROVE  /\ target'[q] \in Port
                          /\ handler'[q] # "resolved" =>
                               /\ route'[q] \in Worker
                               /\ route'[q] = workers'[target'[q]]
        OBVIOUS
      <4>1. CASE q = r
        BY <2>0, <3>1, <3>2, <4>1
      <4>2. CASE q # r
        BY <2>0, <2>2, <3>1, <3>2, <4>2
      <4>3. QED
        BY <4>1, <4>2
    <3>7. QED
      BY <3>3, <3>4, <3>5, <3>6
  <2>3. QED
    BY <2>1, <2>2
<1>4. ASSUME NEW r \in Request, SendCommand(r)  PROVE IInv'
  <2>1. route[r] \in Worker /\ pc[route[r]] # "unborn"
    BY <1>4 DEF SendCommand
  <2>2. queue' \in [Worker -> Seq(Request)]
    BY <1>4, <2>1 DEF SendCommand
  <2>3. TypeOK'
    BY <1>4, <2>2 DEF SendCommand
  <2>4. RegistryOK' /\ HandlerOK' /\ GenerationOK'
    BY <1>4 DEF SendCommand
  <2>5. WorkerOK'
    BY <1>4, <2>1 DEF SendCommand
  <2>6. QED
    BY <2>3, <2>4, <2>5
<1>5. ASSUME NEW r \in Request, ReceiveReply(r)  PROVE IInv'
  <2>1. CASE call[r] = "with_transport" /\ reply[r] = "ok"
    <3>1. /\ handler' = [handler EXCEPT ![r] = "awaiting_result"]
          /\ UNCHANGED <<call, target, route, answer, reply, result, workers,
                         queue, workerVars, factory, deviceVars, wire, clean>>
      BY <1>5, <2>1 DEF ReceiveReply
    <3>2. TypeOK'
      BY <3>1, SMTT(30)
    <3>3. RegistryOK' /\ WorkerOK' /\ GenerationOK'
      BY <3>1, SMTT(30)
    <3>4. HandlerOK'
      <4>1. handler[r] = "waiting"
        BY <1>5 DEF ReceiveReply
      <4>2. QED
        BY <3>1, <4>1
    <3>5. QED
      BY <3>2, <3>3, <3>4
  <2>2. CASE ~(call[r] = "with_transport" /\ reply[r] = "ok")
    <3>1. /\ handler' = [handler EXCEPT ![r] = "done"]
          /\ answer' = [answer EXCEPT ![r] = reply[r]]
          /\ UNCHANGED <<call, target, route, reply, result, workers, queue,
                         workerVars, factory, deviceVars, wire, clean>>
      BY <1>5, <2>2 DEF ReceiveReply
    <3>2. TypeOK'
      BY <3>1, SMTT(30)
    <3>3. RegistryOK' /\ WorkerOK' /\ GenerationOK'
      BY <3>1, SMTT(30)
    <3>4. HandlerOK'
      BY <3>1
    <3>5. QED
      BY <3>2, <3>3, <3>4
  <2>3. QED
    BY <2>1, <2>2
<1>6. ASSUME NEW r \in Request, ReceiveResult(r)  PROVE IInv'
  BY <1>6 DEF ReceiveResult
<1>7. ASSUME NEW w \in Worker, ReceiveCommand(w)  PROVE IInv'
  <2>1. /\ Head(queue[w]) \in Request
        /\ Tail(queue[w]) \in Seq(Request)
    BY <1>7 DEF ReceiveCommand
  <2>2. TypeOK'
    BY <1>7, <2>1 DEF ReceiveCommand
  <2>3. RegistryOK' /\ HandlerOK' /\ GenerationOK'
    BY <1>7 DEF ReceiveCommand
  <2>4. WorkerOK'
    BY <1>7, <2>1 DEF ReceiveCommand
  <2>5. QED
    BY <2>2, <2>3, <2>4
<1>8. ASSUME NEW w \in Worker, IdleTimeout(w)  PROVE IInv'
  <2>1. TypeOK'
    BY <1>8 DEF IdleTimeout
  <2>2. RegistryOK' /\ WorkerOK' /\ HandlerOK' /\ GenerationOK'
    BY <1>8 DEF IdleTimeout
  <2>3. QED
    BY <2>1, <2>2
<1>9. ASSUME NEW w \in Worker, CloseTransport(w)  PROVE IInv'
  <2>1. TypeOK'
    BY <1>9 DEF CloseTransport
  <2>2. RegistryOK' /\ HandlerOK' /\ GenerationOK'
    BY <1>9 DEF CloseTransport
  <2>3. WorkerOK'
    BY <1>9 DEF CloseTransport
  <2>4. QED
    BY <2>1, <2>2, <2>3
<1>10. ASSUME NEW w \in Worker, ReuseTransport(w)  PROVE IInv'
  BY <1>10 DEF ReuseTransport
<1>11. ASSUME NEW w \in Worker, LockFactory(w)  PROVE IInv'
  BY <1>11 DEF LockFactory
<1>12. ASSUME NEW w \in Worker, OpenSucceeds(w)  PROVE IInv'
  BY <1>12 DEF OpenSucceeds
<1>13. ASSUME NEW w \in Worker, OpenFails(w)  PROVE IInv'
  BY <1>13 DEF OpenFails
<1>14. ASSUME NEW w \in Worker, RunEnsureOpen(w)  PROVE IInv'
  BY <1>14 DEF RunEnsureOpen
<1>15. ASSUME NEW w \in Worker, RunWriteImmediate(w)  PROVE IInv'
  BY <1>15 DEF RunWriteImmediate, Write, Blame
<1>16. ASSUME NEW w \in Worker, BeginOperation(w)  PROVE IInv'
  <2>1. CASE Write(w, "ok") /\ pc' = [pc EXCEPT ![w] = "operation"]
             /\ UNCHANGED <<result, outcome, clean>>
    BY <1>16, <2>1 DEF BeginOperation, Write
  <2>2. CASE Write(w, "error") /\ EndOperation(w, "error")
    BY <1>16, <2>2 DEF BeginOperation, Write, EndOperation, Blame
  <2>3. CASE UNCHANGED wire /\ EndOperation(w, "ok")
    BY <1>16, <2>3 DEF BeginOperation, EndOperation, Blame
  <2>4. QED
    BY <1>16, <2>1, <2>2, <2>3 DEF BeginOperation
<1>17. ASSUME NEW w \in Worker, ContinueOperation(w)  PROVE IInv'
  BY <1>17 DEF ContinueOperation, Write, EndOperation, Blame
<1>18. ASSUME NEW w \in Worker, SendReply(w)  PROVE IInv'
  BY <1>18 DEF SendReply
<1>19. ASSUME NEW p \in Port, Unplug(p)  PROVE IInv'
  BY <1>19 DEF Unplug, Disturb
<1>20. ASSUME NEW p \in Port, Replug(p)  PROVE IInv'
  BY <1>20 DEF Replug
<1>21. ASSUME NEW p \in Port, EditorOpens(p)  PROVE IInv'
  BY <1>21 DEF EditorOpens, Disturb
<1>22. ASSUME NEW p \in Port, EditorCloses(p)  PROVE IInv'
  BY <1>22 DEF EditorCloses
<1>23. CASE UNCHANGED vars
  BY <1>23 DEF vars
<1>24. QED
  BY <1>1, <1>2, <1>3, <1>4, <1>5, <1>6, <1>7, <1>8, <1>9, <1>10, <1>11,
     <1>12, <1>13, <1>14, <1>15, <1>16, <1>17, <1>18, <1>19, <1>20, <1>21,
     <1>22, <1>23 DEF Next, Handler, DeviceWorker, Environment

\* IInv is an invariant of the registry.
THEOREM Invariance == Spec => []IInv
<1>1. Init => IInv
  BY InitIInv
<1>2. IInv /\ [Next]_vars => IInv'
  BY StepIInv
<1>3. QED
  BY <1>1, <1>2, PTL DEF Spec

\* Type correctness: the channels only ever carry requests, a handle is a plug
\* generation, and every program counter stays within its loop.
THEOREM TypeCorrect == Spec => []TypeOK
<1>1. IInv => TypeOK
  BY DEF IInv
<1>2. QED
  BY <1>1, Invariance, PTL

\* One worker per serial port (worker_handle under the map's mutex): two
\* workers never have the same port open, or requests for it in hand.
THEOREM PortExclusion == Spec => []PortExclusive
<1>1. IInv => PortExclusive
  <2> SUFFICES ASSUME IInv,
                      NEW p \in Port, NEW w1 \in Worker, NEW w2 \in Worker,
                      Serves(w1, p), Serves(w2, p)
               PROVE  w1 = w2
    BY DEF PortExclusive
  <2>1. ASSUME NEW w \in Worker, Serves(w, p)  PROVE workers[p] = w
    <3>1. portOf[w] = p /\ (transport[w] # 0 \/ current[w] # None)
      BY <2>1 DEF Serves
    <3>2. pc[w] # "unborn"
      BY <3>1 DEF IInv, WorkerOK, Busy
    <3>3. QED
      BY <3>1, <3>2 DEF IInv, RegistryOK
  <2>2. QED
    BY <2>1
<1>2. QED
  BY <1>1, Invariance, PTL

-----------------------------------------------------------------------------
(* Commands and answers on their way                                       *)

Places(w) == 1 .. Len(queue[w])

\* Request r is with worker w and not answered.
With(r, w) == handler[r] = "waiting" /\ reply[r] = None /\ route[r] = w

\* Until it has the sender of a worker a handler has sent nothing, and nobody
\* answers what was not sent.
RouteOK ==
  \A r \in Request :
    /\ handler[r] \in {"new", "resolved"} => route[r] = None
    /\ reply[r] # None => handler[r] \in {"waiting", "awaiting_result", "done"}

\* What a worker has in its channel and in hand is waited for, and no request
\* is there twice.
ChannelOK ==
  \A w \in Worker :
    /\ current[w] # None => With(current[w], w)
    /\ \A i \in Places(w) : With(queue[w][i], w) /\ queue[w][i] # current[w]
    /\ \A i, j \in Places(w) : queue[w][i] = queue[w][j] => i = j

\* What is waited for, and not answered, is with the worker.
Owed(r) ==
  \/ reply[r] # None
  \/ current[route[r]] = r
  \/ \E i \in Places(route[r]) : queue[route[r]][i] = r

OwedOK == \A r \in Request : handler[r] = "waiting" => Owed(r)

\* When with_transport is told Ok, its closure has sent a result before.
ResultOK ==
  /\ \A w \in Worker :
       /\ pc[w] = "reply" /\ outcome[w] = "ok"
       /\ call[current[w]] = "with_transport"
       => result[current[w]] # None
  /\ \A r \in Request :
       /\ reply[r] = "ok" /\ call[r] = "with_transport" => result[r] # None
       /\ handler[r] = "awaiting_result" => result[r] # None

PlacesOK == RouteOK /\ ChannelOK /\ OwedOK

DeliveryInv == IInv /\ PlacesOK /\ ResultOK

\* A step that moves no command and no answer.
LEMMA QuietStep ==
  ASSUME PlacesOK, UNCHANGED <<handler, route, reply, queue, current>>
  PROVE  PlacesOK'
BY DEF PlacesOK, RouteOK, ChannelOK, OwedOK, Owed, Places, With

\* Every other step keeps them as well.
LEMMA StepPlaces == IInv /\ PlacesOK /\ [Next]_vars => PlacesOK'
<1> SUFFICES ASSUME IInv, PlacesOK, [Next]_vars  PROVE PlacesOK'
  OBVIOUS
<1> USE NoneAssumption DEF handlerVars, workerVars, deviceVars
<1>1. ASSUME NEW r \in Request, ResolveDevice(r)  PROVE PlacesOK'
  BY <1>1 DEF ResolveDevice, PlacesOK, RouteOK, ChannelOK, OwedOK, Owed,
     Places, With, IInv, TypeOK
<1>2. ASSUME NEW r \in Request, RejectMissingDevice(r)  PROVE PlacesOK'
  BY <1>2 DEF RejectMissingDevice, PlacesOK, RouteOK, ChannelOK, OwedOK, Owed,
     Places, With, IInv, TypeOK
<1>3. ASSUME NEW r \in Request, WorkerHandle(r)  PROVE PlacesOK'
  <2> SUFFICES RouteOK' /\ ChannelOK' /\ OwedOK'
    BY DEF PlacesOK
  <2>1. /\ handler[r] = "resolved"
        /\ handler' = [handler EXCEPT ![r] = "routed"]
        /\ route' = [route EXCEPT ![r] = route'[r]]
        /\ UNCHANGED <<reply, queue, current>>
    BY <1>3 DEF WorkerHandle, IInv, TypeOK
  <2>2. RouteOK'
    BY <2>1 DEF PlacesOK, RouteOK, IInv, TypeOK
  <2>3. ChannelOK'
    BY <2>1 DEF PlacesOK, RouteOK, ChannelOK, Places, With, IInv, TypeOK,
       HandlerOK
  <2>4. OwedOK'
    <3> SUFFICES ASSUME NEW q \in Request, handler'[q] = "waiting"
                 PROVE  Owed(q)'
      BY DEF OwedOK
    <3>1. q # r /\ handler[q] = "waiting" /\ route'[q] = route[q]
      BY <2>1 DEF IInv, TypeOK
    <3>2. Owed(q)
      BY <3>1 DEF PlacesOK, OwedOK
    <3>3. QED
      BY <2>1, <3>1, <3>2 DEF Owed, Places
  <2>5. QED
    BY <2>2, <2>3, <2>4
<1>4. ASSUME NEW r \in Request, SendCommand(r)  PROVE PlacesOK'
  <2> SUFFICES RouteOK' /\ ChannelOK' /\ OwedOK'
    BY DEF PlacesOK
  <2>1. /\ handler[r] = "routed" /\ reply[r] = None /\ route[r] \in Worker
        /\ handler' = [handler EXCEPT ![r] = "waiting"]
        /\ queue' = [queue EXCEPT ![route[r]] = Append(@, r)]
        /\ UNCHANGED <<route, reply, current>>
    BY <1>4 DEF SendCommand, IInv, HandlerOK, PlacesOK, RouteOK
  <2>2. RouteOK'
    BY <2>1 DEF PlacesOK, RouteOK, IInv, TypeOK
  <2>3. ChannelOK'
    BY <2>1 DEF PlacesOK, RouteOK, ChannelOK, Places, With, IInv, TypeOK,
       HandlerOK
  <2>4. OwedOK'
    <3> SUFFICES ASSUME NEW q \in Request, handler'[q] = "waiting"
                 PROVE  Owed(q)'
      BY DEF OwedOK
    <3>1. queue \in [Worker -> Seq(Request)] /\ route[q] \in Worker
      BY <2>1 DEF IInv, TypeOK, HandlerOK
    <3>2. CASE q = r
      <4>1. queue'[route[q]] = Append(queue[route[q]], q)
        BY <2>1, <3>1, <3>2
      <4>2. Len(queue[route[q]]) + 1 \in Places(route[q])'
        BY <2>1, <3>1, <4>1 DEF Places
      <4>3. QED
        BY <2>1, <3>1, <4>1, <4>2 DEF Owed
    <3>3. CASE q # r
      <4>1. Owed(q)
        BY <2>1, <3>3 DEF PlacesOK, OwedOK, IInv, TypeOK
      <4>2. CASE reply[q] # None \/ current[route[q]] = q
        BY <2>1, <4>2 DEF Owed
      <4>3. ASSUME NEW i \in Places(route[q]), queue[route[q]][i] = q
            PROVE  i \in Places(route[q])' /\ queue'[route[q]][i] = q
        BY <2>1, <3>1, <4>3 DEF Places
      <4>4. QED
        BY <2>1, <4>1, <4>2, <4>3 DEF Owed
    <3>4. QED
      BY <3>2, <3>3
  <2>5. QED
    BY <2>2, <2>3, <2>4
<1>5. ASSUME NEW r \in Request, ReceiveReply(r)  PROVE PlacesOK'
  <2> SUFFICES RouteOK' /\ ChannelOK' /\ OwedOK'
    BY DEF PlacesOK
  <2>1. /\ handler[r] = "waiting" /\ reply[r] # None
        /\ handler' = [handler EXCEPT ![r] = handler'[r]]
        /\ handler'[r] \in {"awaiting_result", "done"}
        /\ UNCHANGED <<route, reply, queue, current>>
    BY <1>5 DEF ReceiveReply, IInv, TypeOK
  <2>2. RouteOK'
    BY <2>1 DEF PlacesOK, RouteOK, IInv, TypeOK
  <2>3. ChannelOK'
    BY <2>1 DEF PlacesOK, RouteOK, ChannelOK, Places, With, IInv, TypeOK,
       HandlerOK
  <2>4. OwedOK'
    <3> SUFFICES ASSUME NEW q \in Request, handler'[q] = "waiting"
                 PROVE  Owed(q)'
      BY DEF OwedOK
    <3>1. q # r /\ handler[q] = "waiting" /\ route'[q] = route[q]
      BY <2>1 DEF IInv, TypeOK
    <3>2. Owed(q)
      BY <3>1 DEF PlacesOK, OwedOK
    <3>3. QED
      BY <2>1, <3>1, <3>2 DEF Owed, Places
  <2>5. QED
    BY <2>2, <2>3, <2>4
<1>6. ASSUME NEW r \in Request, ReceiveResult(r)  PROVE PlacesOK'
  BY <1>6 DEF ReceiveResult, PlacesOK, RouteOK, ChannelOK, OwedOK, Owed,
     Places, With, IInv, TypeOK
<1>7. ASSUME NEW w \in Worker, ReceiveCommand(w)  PROVE PlacesOK'
  <2> SUFFICES RouteOK' /\ ChannelOK' /\ OwedOK'
    BY DEF PlacesOK
  <2>1. /\ current[w] = None /\ queue[w] # <<>>
        /\ current' = [current EXCEPT ![w] = Head(queue[w])]
        /\ queue' = [queue EXCEPT ![w] = Tail(@)]
        /\ UNCHANGED <<handler, route, reply>>
    BY <1>7 DEF ReceiveCommand, IInv, WorkerOK, Busy
  <2>2. RouteOK'
    BY <2>1 DEF PlacesOK, RouteOK, IInv, TypeOK
  <2>3. ChannelOK'
    BY <2>1 DEF PlacesOK, RouteOK, ChannelOK, Places, With, IInv, TypeOK,
       HandlerOK
  <2>4. OwedOK'
    <3> SUFFICES ASSUME NEW q \in Request, handler'[q] = "waiting"
                 PROVE  Owed(q)'
      BY DEF OwedOK
    <3>1. /\ queue \in [Worker -> Seq(Request)] /\ route[q] \in Worker
          /\ current \in [Worker -> Request \cup {None}] /\ Owed(q)
      BY <2>1 DEF IInv, TypeOK, HandlerOK, PlacesOK, OwedOK
    <3>2. CASE reply[q] # None
      BY <2>1, <3>2 DEF Owed
    <3>3. CASE current[route[q]] = q
      BY <2>1, <3>1, <3>3 DEF Owed
    <3>4. ASSUME NEW i \in Places(route[q]), queue[route[q]][i] = q
          PROVE  Owed(q)'
      <4>1. CASE route[q] # w
        BY <2>1, <3>1, <3>4, <4>1 DEF Owed, Places
      <4>2. CASE route[q] = w /\ i = 1
        BY <2>1, <3>1, <3>4, <4>2 DEF Owed, Places
      <4>3. CASE route[q] = w /\ i # 1
        <5>1. i - 1 \in Places(w)' /\ queue'[w][i - 1] = q
          BY <2>1, <3>1, <3>4, <4>3 DEF Places
        <5>2. QED
          BY <2>1, <4>3, <5>1 DEF Owed
      <4>4. QED
        BY <4>1, <4>2, <4>3
    <3>5. QED
      BY <3>1, <3>2, <3>3, <3>4 DEF Owed
  <2>5. QED
    BY <2>2, <2>3, <2>4
<1>8. ASSUME NEW w \in Worker, SendReply(w)  PROVE PlacesOK'
  <2> SUFFICES RouteOK' /\ ChannelOK' /\ OwedOK'
    BY DEF PlacesOK
  <2>1. /\ current[w] \in Request
        /\ reply' = [reply EXCEPT ![current[w]] = outcome[w]]
        /\ outcome[w] \in Verdict
        /\ current' = [current EXCEPT ![w] = None]
        /\ UNCHANGED <<handler, route, queue>>
    BY <1>8 DEF SendReply, IInv, TypeOK, WorkerOK, Busy
  <2>2. RouteOK'
    BY <2>1 DEF PlacesOK, RouteOK, ChannelOK, With, IInv, TypeOK
  <2>3. ChannelOK'
    BY <2>1 DEF PlacesOK, RouteOK, ChannelOK, Places, With, IInv, TypeOK,
       HandlerOK
  <2>4. OwedOK'
    <3> SUFFICES ASSUME NEW q \in Request, handler'[q] = "waiting"
                 PROVE  Owed(q)'
      BY DEF OwedOK
    <3>1. /\ route[q] \in Worker /\ reply \in [Request -> Verdict \cup {None}]
          /\ current \in [Worker -> Request \cup {None}] /\ Owed(q)
      BY <2>1 DEF IInv, TypeOK, HandlerOK, PlacesOK, OwedOK
    <3>2. CASE current[w] = q
      BY <2>1, <3>1, <3>2 DEF Owed, Verdict
    <3>3. CASE current[w] # q
      BY <2>1, <3>1, <3>3 DEF Owed, Places
    <3>4. QED
      BY <3>2, <3>3
  <2>5. QED
    BY <2>2, <2>3, <2>4
<1>9. ASSUME NEW w \in Worker,
             DeviceWorker(w), ~ReceiveCommand(w), ~SendReply(w)
      PROVE  PlacesOK'
  BY <1>9, QuietStep DEF DeviceWorker, IdleTimeout, CloseTransport,
     ReuseTransport, LockFactory, OpenSucceeds, OpenFails, RunEnsureOpen,
     RunWriteImmediate, BeginOperation, ContinueOperation
<1>10. ASSUME NEW p \in Port, Environment(p)  PROVE PlacesOK'
  BY <1>10, QuietStep DEF Environment, Unplug, Replug, EditorOpens, EditorCloses
<1>11. CASE UNCHANGED vars
  BY <1>11, QuietStep DEF vars
<1>12. QED
  BY <1>1, <1>2, <1>3, <1>4, <1>5, <1>6, <1>7, <1>8, <1>9, <1>10, <1>11
     DEF Next, Handler

\* Results are sent before the replies that announce them.
LEMMA StepResult == IInv /\ PlacesOK /\ ResultOK /\ [Next]_vars => ResultOK'
<1> SUFFICES ASSUME IInv, PlacesOK, ResultOK, [Next]_vars  PROVE ResultOK'
  OBVIOUS
<1> USE NoneAssumption DEF handlerVars, workerVars, deviceVars
<1>1. ASSUME NEW r \in Request, Handler(r), ~ReceiveReply(r)  PROVE ResultOK'
  BY <1>1 DEF Handler, ResolveDevice, RejectMissingDevice, WorkerHandle,
     SendCommand, ReceiveResult, ResultOK, IInv, TypeOK
<1>2. ASSUME NEW r \in Request, ReceiveReply(r)  PROVE ResultOK'
  BY <1>2 DEF ReceiveReply, ResultOK, IInv, TypeOK
<1>3. ASSUME NEW w \in Worker, ReceiveCommand(w)  PROVE ResultOK'
  BY <1>3 DEF ReceiveCommand, ResultOK, IInv, TypeOK
<1>4. ASSUME NEW w \in Worker,
             IdleTimeout(w) \/ CloseTransport(w) \/ ReuseTransport(w)
             \/ LockFactory(w) \/ OpenSucceeds(w)
      PROVE  ResultOK'
  BY <1>4 DEF IdleTimeout, CloseTransport, ReuseTransport, LockFactory,
     OpenSucceeds, ResultOK, IInv, TypeOK
<1>5. ASSUME NEW w \in Worker,
             OpenFails(w) \/ RunEnsureOpen(w) \/ RunWriteImmediate(w)
      PROVE  ResultOK'
  BY <1>5 DEF OpenFails, RunEnsureOpen, RunWriteImmediate, ResultOK, IInv, TypeOK
<1>6. ASSUME NEW w \in Worker, BeginOperation(w) \/ ContinueOperation(w)
      PROVE  ResultOK'
  <2>1. pc[w] \in Busy /\ UNCHANGED <<handler, call, reply, current>>
    BY <1>6 DEF BeginOperation, ContinueOperation, Busy
  <2>2. ASSUME pc' = [pc EXCEPT ![w] = "operation"],
               UNCHANGED <<result, outcome, clean>>
        PROVE  ResultOK'
    BY <2>1, <2>2 DEF ResultOK, IInv, TypeOK
  <2>3. ASSUME NEW verdict \in Verdict, EndOperation(w, verdict)  PROVE ResultOK'
    BY <2>1, <2>3 DEF EndOperation, ResultOK, IInv, TypeOK, WorkerOK, Verdict
  <2>4. \/ /\ pc' = [pc EXCEPT ![w] = "operation"]
           /\ UNCHANGED <<result, outcome, clean>>
        \/ \E verdict \in Verdict : EndOperation(w, verdict)
    <3>1. "ok" \in Verdict /\ "error" \in Verdict
      BY DEF Verdict
    <3>2. CASE BeginOperation(w)
      BY <3>1, <3>2, Zenon DEF BeginOperation
    <3>3. CASE ContinueOperation(w)
      BY <3>3, Zenon DEF ContinueOperation
    <3>4. QED
      BY <1>6, <3>2, <3>3
  <2>5. QED
    BY <2>2, <2>3, <2>4
<1>7. ASSUME NEW w \in Worker, SendReply(w)  PROVE ResultOK'
  BY <1>7 DEF SendReply, ResultOK, IInv, TypeOK, WorkerOK, Busy
<1>8. ASSUME NEW p \in Port, Environment(p)  PROVE ResultOK'
  BY <1>8 DEF Environment, Unplug, Replug, EditorOpens, EditorCloses, ResultOK
<1>9. CASE UNCHANGED vars
  BY <1>9 DEF vars, ResultOK
<1>10. QED
  BY <1>1, <1>2, <1>3, <1>4, <1>5, <1>6, <1>7, <1>8, <1>9
     DEF Next, DeviceWorker

\* Commands and answers are where their waiters expect them: the channels of
\* send_command and the worker loop lose and duplicate nothing.
THEOREM Delivery == Spec => []DeliveryInv
<1>1. Init => PlacesOK /\ ResultOK
  BY NoneAssumption
     DEF Init, PlacesOK, RouteOK, ChannelOK, OwedOK, Places, With, ResultOK
<1>2. IInv /\ PlacesOK /\ ResultOK /\ [Next]_vars => (PlacesOK /\ ResultOK)'
  BY StepPlaces, StepResult
<1>3. QED
  BY <1>1, <1>2, Invariance, PTL DEF Spec, DeliveryInv

\* No handler thread waits for a reply or a result that nobody owes it.
THEOREM WaitersAreOwed == Spec => []WaiterIsOwed
<1>1. DeliveryInv => WaiterIsOwed
  <2> SUFFICES ASSUME DeliveryInv, NEW r \in Request  PROVE
        /\ handler[r] = "waiting" =>
             LET w == workers[target[r]]
             IN  /\ w \in Worker
                 /\ \/ \E i \in 1 .. Len(queue[w]) : queue[w][i] = r
                    \/ current[w] = r
                    \/ reply[r] # None
        /\ handler[r] = "awaiting_result" => result[r] # None
    BY DEF WaiterIsOwed
  <2>1. handler[r] = "waiting" =>
          workers[target[r]] \in Worker /\ route[r] = workers[target[r]]
    BY DEF DeliveryInv, IInv, HandlerOK
  <2>2. handler[r] = "waiting" => Owed(r)
    BY DEF DeliveryInv, PlacesOK, OwedOK
  <2>3. handler[r] = "awaiting_result" => result[r] # None
    BY DEF DeliveryInv, ResultOK
  <2>4. QED
    BY <2>1, <2>2, <2>3 DEF Owed, Places
<1>2. QED
  BY <1>1, Delivery, PTL
\* A worker in its loop has a request in hand, which waits at its port.
LEMMA InHand ==
  ASSUME DeliveryInv, NEW w \in Worker, pc[w] \in Busy
  PROVE  /\ current[w] \in Request /\ current[w] # None
         /\ With(current[w], w)
         /\ handler[current[w]] = "waiting" /\ reply[current[w]] = None
         /\ portOf[w] \in Port /\ target[current[w]] = portOf[w]
         /\ \A v \in Worker : v # w =>
              /\ current[v] # current[w]
              /\ pc[v] # "unborn" => portOf[v] # portOf[w]
<1>1. current[w] \in Request /\ current[w] # None /\ With(current[w], w)
  BY NoneAssumption DEF DeliveryInv, PlacesOK, ChannelOK, IInv, TypeOK, WorkerOK
<1>2. target[current[w]] \in Port /\ w = workers[target[current[w]]]
  BY <1>1 DEF With, DeliveryInv, IInv, HandlerOK
<1>3. target[current[w]] = portOf[w]
  BY <1>2, NoneAssumption DEF DeliveryInv, IInv, RegistryOK
<1>4. ASSUME NEW v \in Worker, v # w
      PROVE  /\ current[v] # current[w]
             /\ pc[v] # "unborn" => portOf[v] # portOf[w]
  <2>1. current[v] # current[w]
    BY <1>1, <1>4 DEF With, DeliveryInv, PlacesOK, ChannelOK
  <2>2. pc[v] # "unborn" => portOf[v] # portOf[w]
    BY <1>2, <1>3, <1>4 DEF DeliveryInv, IInv, RegistryOK
  <2>3. QED
    BY <2>1, <2>2
<1>5. QED
  BY <1>1, <1>2, <1>3, <1>4 DEF With

-----------------------------------------------------------------------------
(* Refinement                                                              *)

\* The variables of PortQueue, as DeviceSession has them.
Pending == [p \in Port |-> IF workers[p] = None THEN <<>> ELSE queue[workers[p]]]
Running == [p \in Port |-> IF workers[p] = None THEN None ELSE current[workers[p]]]
Submitted == {r \in Request :
                route[r] # None /\ handler[r] \notin {"resolved", "routed"}}
Finished == {r \in Request : reply[r] # None}

\* A step that moves nothing is a stutter.
LEMMA QuietStutters ==
  ASSUME UNCHANGED <<handler, route, reply, workers, queue, current>>
  PROVE  UNCHANGED PQ!queueVars
BY DEF PQ!queueVars

\* A living worker is its port's.
LEMMA PortsWorker ==
  ASSUME IInv, NEW w \in Worker, pc[w] # "unborn"
  PROVE  /\ portOf[w] \in Port /\ workers[portOf[w]] = w /\ w # None
         /\ \A p \in Port : workers[p] = w <=> p = portOf[w]
BY NoneAssumption DEF IInv, RegistryOK

\* Sending is Submit, receiving Start and replying Finish; the rest stutters.
LEMMA StepRefines == DeliveryInv /\ [Next]_vars => [PQ!QueueNext]_(PQ!queueVars)
<1> SUFFICES ASSUME DeliveryInv, [Next]_vars
             PROVE  PQ!QueueNext \/ UNCHANGED PQ!queueVars
  OBVIOUS
<1> USE NoneAssumption DEF handlerVars, workerVars, deviceVars
<1>0. IInv /\ PlacesOK
  BY DEF DeliveryInv
<1>1. ASSUME NEW r \in Request, Handler(r), ~SendCommand(r)
      PROVE  UNCHANGED PQ!queueVars
  <2>1. UNCHANGED <<reply, queue, current>> /\ Finished' = Finished
    BY <1>1 DEF Handler, ResolveDevice, RejectMissingDevice, WorkerHandle,
       ReceiveReply, ReceiveResult, Finished
  <2>2. Submitted' = Submitted
    BY <1>0, <1>1 DEF Handler, ResolveDevice, RejectMissingDevice, WorkerHandle,
       ReceiveReply, ReceiveResult, Submitted, IInv, TypeOK, PlacesOK, RouteOK
  <2>3. Pending' = Pending /\ Running' = Running
    <3>1. CASE UNCHANGED workers
      BY <2>1, <3>1 DEF Pending, Running
    <3>2. CASE WorkerHandle(r) /\ workers[target[r]] = None
      <4>1. PICK w \in Worker :
              pc[w] = "unborn" /\ workers' = [workers EXCEPT ![target[r]] = w]
        BY <3>2 DEF WorkerHandle
      <4>2. queue[w] = <<>> /\ current[w] = None
        BY <1>0, <4>1 DEF IInv, WorkerOK, Busy
      <4>3. QED
        BY <1>0, <2>1, <3>2, <4>1, <4>2 DEF Pending, Running, IInv, TypeOK
    <3>3. QED
      BY <1>1, <3>1, <3>2 DEF Handler, ResolveDevice, RejectMissingDevice,
         WorkerHandle, ReceiveReply, ReceiveResult
  <2>4. QED
    BY <2>1, <2>2, <2>3
       DEF PQ!queueVars, Finished, Submitted, Pending, Running
<1>2. ASSUME NEW r \in Request, SendCommand(r)  PROVE PQ!QueueNext
  <2> DEFINE w == route[r]
  <2>0. PICK p \in Port : p = target[r]
    BY <1>0, <1>2 DEF SendCommand, IInv, HandlerOK
  <2>1. /\ w \in Worker /\ workers[p] = w /\ handler[r] = "routed"
        /\ \A q \in Port : workers[q] = w <=> q = p
    BY <1>0, <1>2, <2>0, PortsWorker DEF SendCommand, IInv, HandlerOK, RegistryOK
  <2>2. /\ handler' = [handler EXCEPT ![r] = "waiting"]
        /\ queue' = [queue EXCEPT ![w] = Append(@, r)]
        /\ UNCHANGED <<route, reply, workers, current>>
    BY <1>2 DEF SendCommand
  <2>3. Pending' = [Pending EXCEPT ![p] = Append(@, r)]
    BY <1>0, <2>1, <2>2 DEF Pending, IInv, TypeOK
  <2>4. r \notin Submitted /\ Submitted' = Submitted \cup {r}
    BY <1>0, <2>1, <2>2 DEF Submitted, IInv, TypeOK
  <2>5. UNCHANGED <<Running, Finished>>
    BY <2>2 DEF Running, Finished
  <2>6. PQ!Submit(r, p)
    BY <2>3, <2>4, <2>5 DEF PQ!Submit, Pending, Running, Submitted, Finished
  <2>7. QED
    BY <2>6 DEF PQ!QueueNext
<1>3. ASSUME NEW w \in Worker, ReceiveCommand(w)  PROVE PQ!QueueNext
  <2>0. PICK p \in Port : p = portOf[w]
    BY <1>0, <1>3, PortsWorker DEF ReceiveCommand
  <2>1. /\ workers[p] = w /\ w # None
        /\ \A q \in Port : workers[q] = w <=> q = p
    BY <1>0, <1>3, <2>0, PortsWorker DEF ReceiveCommand
  <2>2. /\ current[w] = None /\ queue[w] # <<>>
        /\ current' = [current EXCEPT ![w] = Head(queue[w])]
        /\ queue' = [queue EXCEPT ![w] = Tail(@)]
        /\ UNCHANGED <<handler, route, reply, workers>>
    BY <1>0, <1>3 DEF ReceiveCommand, IInv, WorkerOK, Busy
  <2>3. Pending[p] = queue[w] /\ Running[p] = None
    BY <2>1, <2>2 DEF Pending, Running
  <2>4. /\ Pending' = [Pending EXCEPT ![p] = Tail(@)]
        /\ Running' = [Running EXCEPT ![p] = Head(Pending[p])]
    <3>1. /\ workers \in [Port -> Worker \cup {None}] /\ DOMAIN queue = Worker
          /\ DOMAIN current = Worker
      BY <1>0 DEF IInv, TypeOK
    <3>2. Pending' = [Pending EXCEPT ![p] = Tail(@)]
      BY <2>1, <2>2, <3>1 DEF Pending
    <3>3. Running' = [Running EXCEPT ![p] = Head(queue[w])]
      BY <2>1, <2>2, <3>1 DEF Running
    <3>4. QED
      BY <2>3, <3>2, <3>3
  <2>5. UNCHANGED <<Submitted, Finished>>
    BY <2>2 DEF Submitted, Finished
  <2>6. PQ!Start(p)
    BY <2>2, <2>3, <2>4, <2>5
       DEF PQ!Start, Pending, Running, Submitted, Finished
  <2>7. QED
    BY <2>6 DEF PQ!QueueNext
<1>4. ASSUME NEW w \in Worker, SendReply(w)  PROVE PQ!QueueNext
  <2>0. PICK p \in Port : p = portOf[w]
    BY <1>0, <1>4, PortsWorker DEF SendReply
  <2> DEFINE r == current[w]
  <2>1. /\ workers[p] = w /\ w # None
        /\ \A q \in Port : workers[q] = w <=> q = p
    BY <1>0, <1>4, <2>0, PortsWorker DEF SendReply
  <2>2. /\ r \in Request /\ reply[r] = None /\ outcome[w] \in Verdict
        /\ current' = [current EXCEPT ![w] = None]
        /\ reply' = [reply EXCEPT ![r] = outcome[w]]
        /\ UNCHANGED <<handler, route, queue, workers>>
    BY <1>0, <1>4 DEF SendReply, IInv, TypeOK, WorkerOK, Busy, PlacesOK,
       ChannelOK, With
  <2>3. Running[p] = r /\ r # None
    BY <2>1, <2>2 DEF Running
  <2>4. Running' = [Running EXCEPT ![p] = None]
    <3>1. workers \in [Port -> Worker \cup {None}] /\ DOMAIN current = Worker
      BY <1>0 DEF IInv, TypeOK
    <3>2. QED
      BY <2>1, <2>2, <3>1 DEF Running
  <2>5. r \notin Finished /\ Finished' = Finished \cup {r}
    BY <1>0, <2>2 DEF Finished, IInv, TypeOK, Verdict
  <2>6. UNCHANGED <<Pending, Submitted>>
    BY <2>2 DEF Pending, Submitted
  <2>7. PQ!Finish(p)
    BY <2>3, <2>4, <2>5, <2>6
       DEF PQ!Finish, Pending, Running, Submitted, Finished
  <2>8. QED
    BY <2>7 DEF PQ!QueueNext
<1>5. ASSUME NEW w \in Worker,
             DeviceWorker(w), ~ReceiveCommand(w), ~SendReply(w)
      PROVE  UNCHANGED PQ!queueVars
  BY <1>5, QuietStutters DEF DeviceWorker, IdleTimeout, CloseTransport,
     ReuseTransport, LockFactory, OpenSucceeds, OpenFails, RunEnsureOpen,
     RunWriteImmediate, BeginOperation, ContinueOperation
<1>6. ASSUME NEW p \in Port, Environment(p)  PROVE UNCHANGED PQ!queueVars
  BY <1>6, QuietStutters DEF Environment, Unplug, Replug, EditorOpens, EditorCloses
<1>7. CASE UNCHANGED vars
  BY <1>7, QuietStutters DEF vars
<1>8. QED
  BY <1>1, <1>2, <1>3, <1>4, <1>5, <1>6, <1>7 DEF Next

\* Per port, commands run in the order they were sent, one at a time, each
\* once, however many handler threads, ports and workers there are.
THEOREM Refinement == Spec => ImplementsPortQueue
<1>1. Init => PQ!QueueInit
  BY DEF Init, PQ!QueueInit
<1>2. QED
  BY <1>1, Delivery, StepRefines, PTL DEF Spec, PQ!QueueSpec, ImplementsPortQueue
=============================================================================
