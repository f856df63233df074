----------------------- MODULE DeviceSessionOutcomes ------------------------
(***************************************************************************)
(* What becomes of the requests of DeviceSession, for any number of        *)
(* requests, ports and workers.                                            *)
(***************************************************************************)
EXTENDS DeviceSessionProofs, FiniteSetTheorems

-----------------------------------------------------------------------------
(* Why a request fails: never because of what the daemon does itself.      *)

Serving == {"dispatch", "opening", "run", "operation"}

\* A worker that holds a port is the port's and knows that it holds it.
HeldOK ==
  \A p \in Port :
    held[p] \in Worker => workers[p] = held[p] /\ transport[held[p]] # 0

\* While a request is undisturbed its device is there and not the editor's.
CleanOK ==
  \A r \in Request :
    clean[r] /\ handler[r] \in {"resolved", "routed", "waiting", "awaiting_result"} =>
      plugged[target[r]] /\ held[target[r]] # Editor

\* A handle that an undisturbed request meets is open on the present device.
HandleOK ==
  \A w \in Worker :
    /\ pc[w] = "opening" => transport[w] = 0
    /\ pc[w] \in Serving /\ clean[current[w]] =>
         transport[w] \in {0, generation[portOf[w]]}

\* Nothing is said of a request before it is served, and an error on its way
\* to the handler is never that of an undisturbed request.
VerdictOK ==
  /\ \A r \in Request :
       /\ handler[r] = "new" => result[r] = None /\ answer[r] = None
       /\ reply[r] = "error" => ~clean[r]
       /\ result[r] = "error" => ~clean[r]
       /\ answer[r] = "error" => ~clean[r]
  /\ \A w \in Worker : pc[w] = "reply" /\ outcome[w] = "error" => ~clean[current[w]]

FailureInv == DeliveryInv /\ HeldOK /\ CleanOK /\ HandleOK /\ VerdictOK

\* A worker in its loop has a request in hand, and one that gets a request
\* takes what waits at its port.
LEMMA Loop ==
  ASSUME DeliveryInv, NEW w \in Worker
  PROVE  /\ pc[w] \in Busy => current[w] # None
         /\ pc[w] # "unborn" => /\ portOf[w] \in Port /\ workers[portOf[w]] = w
                               /\ \A p \in Port : workers[p] = w <=> p = portOf[w]
         /\ queue[w] # <<>> =>
              /\ Head(queue[w]) \in Request /\ handler[Head(queue[w])] = "waiting"
              /\ target[Head(queue[w])] = portOf[w]
<1>1. pc[w] \in Busy => current[w] # None
  BY DEF DeliveryInv, IInv, WorkerOK
<1>2. pc[w] # "unborn" => /\ portOf[w] \in Port /\ workers[portOf[w]] = w
                          /\ \A p \in Port : workers[p] = w <=> p = portOf[w]
  BY PortsWorker DEF DeliveryInv
<1>3. ASSUME queue[w] # <<>>
      PROVE  /\ Head(queue[w]) \in Request /\ handler[Head(queue[w])] = "waiting"
             /\ target[Head(queue[w])] = portOf[w]
  <2>1. queue[w] \in Seq(Request)
    BY DEF DeliveryInv, IInv, TypeOK
  <2>2. Head(queue[w]) = queue[w][1] /\ 1 \in Places(w) /\ Head(queue[w]) \in Request
    BY <1>3, <2>1 DEF Places
  <2>3. With(Head(queue[w]), w)
    BY <2>2 DEF DeliveryInv, PlacesOK, ChannelOK
  <2>4. target[Head(queue[w])] \in Port /\ w = workers[target[Head(queue[w])]]
    BY <2>2, <2>3 DEF With, DeliveryInv, IInv, HandlerOK
  <2>5. QED
    BY <2>2, <2>3, <2>4, NoneAssumption DEF With, DeliveryInv, IInv, RegistryOK
<1>4. QED
  BY <1>1, <1>2, <1>3

\* Handles are opened and closed by the port's own worker.
LEMMA StepHeld == DeliveryInv /\ HeldOK /\ [Next]_vars => HeldOK'
<1> SUFFICES ASSUME DeliveryInv, HeldOK, [Next]_vars  PROVE HeldOK'
  OBVIOUS
<1> USE NoneAssumption DEF handlerVars, workerVars, deviceVars
<1>0. IInv
  BY DEF DeliveryInv
<1>1. ASSUME NEW r \in Request, Handler(r)  PROVE HeldOK'
  BY <1>0, <1>1 DEF Handler, ResolveDevice, RejectMissingDevice, WorkerHandle,
     SendCommand, ReceiveReply, ReceiveResult, HeldOK, IInv, TypeOK, HandlerOK
<1>2. ASSUME NEW w \in Worker, CloseTransport(w)  PROVE HeldOK'
  BY <1>0, <1>2, Loop DEF CloseTransport, HeldOK, IInv, TypeOK
<1>3. ASSUME NEW w \in Worker, OpenSucceeds(w)  PROVE HeldOK'
  BY <1>0, <1>3, Loop DEF OpenSucceeds, HeldOK, IInv, TypeOK, GenerationOK
<1>4. ASSUME NEW w \in Worker,
             DeviceWorker(w), ~CloseTransport(w), ~OpenSucceeds(w)
      PROVE  HeldOK'
  BY <1>4 DEF DeviceWorker, ReceiveCommand, IdleTimeout, ReuseTransport,
     LockFactory, OpenFails, RunEnsureOpen, RunWriteImmediate, BeginOperation,
     ContinueOperation, SendReply, HeldOK
<1>5. ASSUME NEW p \in Port, Environment(p)  PROVE HeldOK'
  BY <1>0, <1>5 DEF Environment, Unplug, Replug, EditorOpens, EditorCloses,
     HeldOK, IInv, TypeOK
<1>6. CASE UNCHANGED vars
  BY <1>6 DEF vars, HeldOK
<1>7. QED
  BY <1>1, <1>2, <1>3, <1>4, <1>5, <1>6 DEF Next

\* A worker never makes a request undisturbed again ...
LEMMA Fades ==
  ASSUME IInv, NEW w \in Worker,
         ReceiveCommand(w) \/ OpenFails(w) \/ RunWriteImmediate(w)
         \/ BeginOperation(w) \/ ContinueOperation(w),
         NEW r \in Request, clean'[r]
  PROVE  clean[r]
<1> USE DEF IInv, TypeOK
<1>1. CASE ReceiveCommand(w)
  BY <1>1 DEF ReceiveCommand
<1>2. CASE OpenFails(w)
  BY <1>2 DEF OpenFails
<1>3. ASSUME NEW verdict, Blame(w, verdict)  PROVE clean[r]
  BY <1>3 DEF Blame
<1>4. CASE RunWriteImmediate(w) \/ BeginOperation(w) \/ ContinueOperation(w)
  BY <1>3, <1>4 DEF RunWriteImmediate, BeginOperation, ContinueOperation,
     EndOperation
<1>5. QED
  BY <1>1, <1>2, <1>4

\* ... nor does the world outside, which disturbs those at one port.
LEMMA Disturbs ==
  ASSUME IInv, NEW p \in Port, Environment(p), NEW r \in Request, clean'[r]
  PROVE  /\ clean[r]
         /\ Unplug(p) \/ EditorOpens(p) => target[r] # p \/ handler[r] = "done"
<1>1. CASE Replug(p) \/ EditorCloses(p)
  <2>1. ~Unplug(p) /\ ~EditorOpens(p)
    BY <1>1, NoneAssumption DEF Replug, EditorCloses, Unplug, EditorOpens, IInv,
       TypeOK, deviceVars
  <2>2. QED
    BY <1>1, <2>1 DEF Replug, EditorCloses
<1>2. CASE Disturb(p)
  BY <1>2 DEF Disturb
<1>3. QED
  BY <1>1, <1>2 DEF Environment, Unplug, EditorOpens

\* What takes a device away or gives it to the editor disturbs its requests.
LEMMA StepClean == DeliveryInv /\ CleanOK /\ [Next]_vars => CleanOK'
<1> SUFFICES ASSUME DeliveryInv, CleanOK, [Next]_vars  PROVE CleanOK'
  OBVIOUS
<1> USE NoneAssumption DEF handlerVars, workerVars, deviceVars
<1>0. IInv
  BY DEF DeliveryInv
<1>1. ASSUME NEW r \in Request, Handler(r)  PROVE CleanOK'
  <2>1. CASE ResolveDevice(r)
    <3>1. PICK p \in Port :
            /\ plugged[p]
            /\ target' = [target EXCEPT ![r] = p]
            /\ clean' = [clean EXCEPT ![r] = held[p] # Editor]
      BY <2>1 DEF ResolveDevice
    <3>2. handler' = [handler EXCEPT ![r] = "resolved"] /\ UNCHANGED deviceVars
      BY <2>1 DEF ResolveDevice
    <3>3. clean'[r] => held[p] # Editor
      BY <1>0, <3>1 DEF IInv, TypeOK
    <3>4. QED
      BY <1>0, <3>1, <3>2, <3>3 DEF CleanOK, IInv, TypeOK
  <2>2. CASE RejectMissingDevice(r)
    BY <1>0, <2>2 DEF RejectMissingDevice, CleanOK, IInv, TypeOK
  <2>3. CASE WorkerHandle(r) \/ SendCommand(r)
    BY <1>0, <2>3 DEF WorkerHandle, SendCommand, CleanOK, IInv, TypeOK
  <2>4. CASE ReceiveReply(r) \/ ReceiveResult(r)
    BY <1>0, <2>4 DEF ReceiveReply, ReceiveResult, CleanOK, IInv, TypeOK
  <2>5. QED
    BY <1>1, <2>1, <2>2, <2>3, <2>4 DEF Handler
<1>2. ASSUME NEW w \in Worker, CloseTransport(w)  PROVE CleanOK'
  BY <1>0, <1>2, Loop DEF CloseTransport, CleanOK, IInv, TypeOK, HandlerOK
<1>3. ASSUME NEW w \in Worker, OpenSucceeds(w)  PROVE CleanOK'
  BY <1>0, <1>3, Loop DEF OpenSucceeds, CleanOK, IInv, TypeOK, HandlerOK
<1>4. ASSUME NEW w \in Worker,
             IdleTimeout(w) \/ ReuseTransport(w) \/ LockFactory(w)
             \/ RunEnsureOpen(w) \/ SendReply(w)
      PROVE  CleanOK'
  BY <1>4 DEF IdleTimeout, ReuseTransport, LockFactory, RunEnsureOpen,
     SendReply, CleanOK
<1>5. ASSUME NEW w \in Worker,
             ReceiveCommand(w) \/ OpenFails(w) \/ RunWriteImmediate(w)
             \/ BeginOperation(w) \/ ContinueOperation(w)
      PROVE  CleanOK'
  <2>1. UNCHANGED <<handler, target, plugged, held>>
    BY <1>5 DEF ReceiveCommand, OpenFails, RunWriteImmediate, BeginOperation,
       ContinueOperation
  <2>2. \A r \in Request : clean'[r] => clean[r]
    BY <1>0, <1>5, Fades
  <2>3. QED
    BY <2>1, <2>2 DEF CleanOK
<1>6. ASSUME NEW p \in Port, Environment(p)  PROVE CleanOK'
  <2>1. UNCHANGED <<handler, target>>
    BY <1>6 DEF Environment, Unplug, Replug, EditorOpens, EditorCloses
  <2>2. \A r \in Request : clean'[r] => clean[r]
    BY <1>0, <1>6, Disturbs
  <2>3. \A r \in Request :
          clean'[r] /\ handler[r] # "done" /\ target[r] = p /\ plugged[p]
          /\ held[p] # Editor => plugged'[p] /\ held'[p] # Editor
    BY <1>0, <1>6, Disturbs
       DEF Environment, Unplug, Replug, EditorOpens, EditorCloses, IInv, TypeOK
  <2>4. \A q \in Port : q # p => plugged'[q] = plugged[q] /\ held'[q] = held[q]
    BY <1>0, <1>6
       DEF Environment, Unplug, Replug, EditorOpens, EditorCloses, IInv, TypeOK
  <2>5. QED
    BY <1>0, <2>1, <2>2, <2>3, <2>4 DEF CleanOK, IInv, HandlerOK
<1>7. CASE UNCHANGED vars
  BY <1>7 DEF vars, CleanOK
<1>8. QED
  BY <1>1, <1>2, <1>3, <1>4, <1>5, <1>6, <1>7 DEF Next, DeviceWorker

\* A handle goes stale only by an unplug, which disturbs the request at hand.
LEMMA StepHandle ==
  DeliveryInv /\ CleanOK /\ HandleOK /\ [Next]_vars => HandleOK'
<1> SUFFICES ASSUME DeliveryInv, CleanOK, HandleOK, [Next]_vars  PROVE HandleOK'
  OBVIOUS
<1> USE NoneAssumption DEF handlerVars, workerVars, deviceVars
<1>0. IInv
  BY DEF DeliveryInv
<1>1. ASSUME NEW r \in Request, Handler(r)  PROVE HandleOK'
  <2>1. UNCHANGED <<transport, generation, current>>
    BY <1>1 DEF Handler, ResolveDevice, RejectMissingDevice, WorkerHandle,
       SendCommand, ReceiveReply, ReceiveResult
  <2>2. \A w \in Worker :
          /\ pc'[w] \in Serving => pc[w] \in Serving /\ portOf'[w] = portOf[w]
          /\ pc'[w] = "opening" => pc[w] = "opening"
    BY <1>0, <1>1 DEF Handler, ResolveDevice, RejectMissingDevice, WorkerHandle,
       SendCommand, ReceiveReply, ReceiveResult, Serving, IInv, TypeOK
  <2>3. \A w \in Worker : pc[w] \in Serving /\ clean'[current[w]] => clean[current[w]]
    <3> SUFFICES ASSUME NEW w \in Worker, pc[w] \in Serving, clean'[current[w]]
                 PROVE  clean[current[w]]
      OBVIOUS
    <3>1. current[w] \in Request /\ handler[current[w]] = "waiting"
      BY InHand, Loop DEF Serving, Busy
    <3>2. CASE ResolveDevice(r) \/ RejectMissingDevice(r)
      BY <1>0, <3>1, <3>2 DEF ResolveDevice, RejectMissingDevice, IInv, TypeOK
    <3>3. CASE UNCHANGED clean
      BY <3>3
    <3>4. QED
      BY <1>1, <3>2, <3>3
         DEF Handler, WorkerHandle, SendCommand, ReceiveReply, ReceiveResult
  <2>4. QED
    BY <2>1, <2>2, <2>3 DEF HandleOK
<1>2. ASSUME NEW w \in Worker, ReceiveCommand(w)  PROVE HandleOK'
  <2>1. /\ Head(queue[w]) \in Request
        /\ pc' = [pc EXCEPT ![w] = "dispatch"]
        /\ current' = [current EXCEPT ![w] = Head(queue[w])]
        /\ UNCHANGED <<transport, generation, portOf>>
    BY <1>2, Loop DEF ReceiveCommand
  <2>2. clean'[Head(queue[w])] => ~Stale(w)
    BY <1>0, <1>2, <2>1 DEF ReceiveCommand, IInv, TypeOK
  <2>3. \A r \in Request : clean'[r] => clean[r]
    BY <1>0, <1>2, Fades
  <2>4. clean'[current'[w]] => transport[w] \in {0, generation[portOf[w]]}
    BY <1>0, <2>1, <2>2 DEF Stale, Live, IInv, TypeOK
  <2>5. \A v \in Worker : v # w /\ pc[v] \in Serving => current[v] \in Request
    BY InHand, Loop DEF Serving, Busy
  <2>6. QED
    BY <1>0, <2>1, <2>3, <2>4, <2>5 DEF HandleOK, Serving, IInv, TypeOK
<1>3. ASSUME NEW w \in Worker,
             IdleTimeout(w) \/ CloseTransport(w) \/ ReuseTransport(w)
             \/ LockFactory(w) \/ OpenSucceeds(w)
      PROVE  HandleOK'
  BY <1>0, <1>3 DEF IdleTimeout, CloseTransport, ReuseTransport, LockFactory,
     OpenSucceeds, HandleOK, Serving, IInv, TypeOK
<1>4. ASSUME NEW w \in Worker, RunEnsureOpen(w) \/ SendReply(w)  PROVE HandleOK'
  BY <1>0, <1>4 DEF RunEnsureOpen, SendReply, HandleOK, Serving, IInv, TypeOK
<1>5. ASSUME NEW w \in Worker,
             OpenFails(w) \/ RunWriteImmediate(w) \/ BeginOperation(w)
             \/ ContinueOperation(w)
      PROVE  HandleOK'
  <2>1. UNCHANGED <<transport, generation, portOf, current>>
    BY <1>5 DEF OpenFails, RunWriteImmediate, BeginOperation, ContinueOperation
  <2>2. \A r \in Request : clean'[r] => clean[r]
    BY <1>0, <1>5, Fades
  <2>3. \A v \in Worker :
          /\ pc'[v] \in Serving => pc[v] \in Serving
          /\ pc'[v] = "opening" => pc[v] = "opening"
    BY <1>0, <1>5 DEF OpenFails, RunWriteImmediate, BeginOperation,
       ContinueOperation, EndOperation, Serving, IInv, TypeOK
  <2>4. \A v \in Worker : pc[v] \in Serving => current[v] \in Request
    BY InHand, Loop DEF Serving, Busy
  <2>5. QED
    BY <2>1, <2>2, <2>3, <2>4 DEF HandleOK
<1>6. ASSUME NEW p \in Port, Environment(p)  PROVE HandleOK'
  <2>1. UNCHANGED <<transport, portOf, current, pc>>
    BY <1>6 DEF Environment, Unplug, Replug, EditorOpens, EditorCloses
  <2>2. \A r \in Request : clean'[r] => clean[r]
    BY <1>0, <1>6, Disturbs
  <2>3. ASSUME NEW w \in Worker, pc[w] \in Serving, clean[current[w]]
        PROVE  generation'[portOf[w]] = generation[portOf[w]]
    <3>1. pc[w] \in Busy
      BY <2>3 DEF Serving, Busy
    <3>2. portOf[w] \in Port /\ plugged[portOf[w]]
      BY <2>3, <3>1, InHand DEF CleanOK
    <3>3. QED
      BY <1>0, <1>6, <3>2 DEF Environment, Unplug, Replug, EditorOpens,
         EditorCloses, IInv, TypeOK
  <2>4. \A v \in Worker : pc[v] \in Serving => current[v] \in Request
    BY InHand, Loop DEF Serving, Busy
  <2>5. QED
    BY <2>1, <2>2, <2>3, <2>4 DEF HandleOK
<1>7. CASE UNCHANGED vars
  BY <1>7 DEF vars, HandleOK
<1>8. QED
  BY <1>1, <1>2, <1>3, <1>4, <1>5, <1>6, <1>7 DEF Next, DeviceWorker

\* An open on behalf of an undisturbed request can only succeed, and a write
\* meets a live handle.
LEMMA CleanServed ==
  ASSUME DeliveryInv, HeldOK, CleanOK, HandleOK,
         NEW w \in Worker, pc[w] \in Busy, clean[current[w]]
  PROVE  /\ pc[w] = "opening" => CanOpen(w)
         /\ pc[w] \in {"run", "operation"} => Live(w)
<1>1. /\ current[w] \in Request /\ handler[current[w]] = "waiting"
      /\ portOf[w] \in Port /\ target[current[w]] = portOf[w]
  BY InHand, Loop
<1>2. plugged[portOf[w]] /\ held[portOf[w]] # Editor
  BY <1>1 DEF CleanOK
<1>3. ASSUME pc[w] = "opening"  PROVE CanOpen(w)
  <2>1. transport[w] = 0 /\ workers[portOf[w]] = w
    BY <1>3, Loop DEF HandleOK
  <2>2. held[portOf[w]] \notin Worker
    BY <1>1, <2>1 DEF HeldOK
  <2>3. held[portOf[w]] \in Worker \cup {Editor, None}
    BY <1>1 DEF DeliveryInv, IInv, TypeOK
  <2>4. QED
    BY <1>2, <2>2, <2>3 DEF CanOpen
<1>4. ASSUME pc[w] \in {"run", "operation"}  PROVE Live(w)
  BY <1>2, <1>4 DEF Live, HandleOK, Serving, DeliveryInv, IInv, WorkerOK
<1>5. QED
  BY <1>3, <1>4

\* So no error is made for an undisturbed request, or handed to one.
LEMMA StepVerdict ==
  DeliveryInv /\ HeldOK /\ CleanOK /\ HandleOK /\ VerdictOK /\ [Next]_vars
    => VerdictOK'
<1> SUFFICES ASSUME DeliveryInv, HeldOK, CleanOK, HandleOK, VerdictOK, [Next]_vars
             PROVE  VerdictOK'
  OBVIOUS
<1> USE NoneAssumption DEF handlerVars, workerVars, deviceVars
<1>0. IInv /\ RouteOK
  BY DEF DeliveryInv, PlacesOK
<1>1. \A v \in Worker : pc[v] \in Busy =>
        current[v] \in Request /\ handler[current[v]] = "waiting"
  BY InHand, Loop
<1>2. ASSUME NEW r \in Request, ResolveDevice(r) \/ RejectMissingDevice(r)
      PROVE  VerdictOK'
  <2>1. /\ handler[r] = "new" /\ reply[r] = None /\ result[r] = None
        /\ answer[r] = None
        /\ handler' = [handler EXCEPT ![r] = handler'[r]] /\ handler'[r] # "new"
        /\ answer' = [answer EXCEPT ![r] = answer'[r]]
        /\ clean' = [clean EXCEPT ![r] = clean'[r]]
        /\ answer'[r] = "error" => ~clean'[r]
        /\ UNCHANGED <<reply, result, pc, outcome, current>>
    BY <1>0, <1>2 DEF ResolveDevice, RejectMissingDevice, VerdictOK, RouteOK,
       IInv, TypeOK
  <2>2. \A q \in Request \ {r} :
          handler'[q] = handler[q] /\ answer'[q] = answer[q] /\ clean'[q] = clean[q]
    BY <1>0, <2>1 DEF IInv, TypeOK
  <2>3. \A v \in Worker : pc[v] = "reply" => current[v] \in Request \ {r}
    BY <1>1, <2>1 DEF Busy
  <2>4. QED
    BY <2>1, <2>2, <2>3 DEF VerdictOK
<1>3. ASSUME NEW r \in Request, WorkerHandle(r) \/ SendCommand(r)
      PROVE  VerdictOK'
  BY <1>0, <1>3 DEF WorkerHandle, SendCommand, VerdictOK, IInv, TypeOK
<1>4. ASSUME NEW r \in Request, ReceiveReply(r) \/ ReceiveResult(r)
      PROVE  VerdictOK'
  BY <1>0, <1>4 DEF ReceiveReply, ReceiveResult, VerdictOK, IInv, TypeOK
<1>5. ASSUME NEW w \in Worker,
             ReceiveCommand(w) \/ IdleTimeout(w) \/ CloseTransport(w)
             \/ ReuseTransport(w) \/ LockFactory(w) \/ OpenSucceeds(w)
             \/ RunEnsureOpen(w)
      PROVE  VerdictOK'
  <2>1. \A r \in Request : clean'[r] => clean[r]
    BY <1>0, <1>5, Fades DEF IdleTimeout, CloseTransport, ReuseTransport,
       LockFactory, OpenSucceeds, RunEnsureOpen
  <2>2. UNCHANGED <<handler, answer, reply, result>>
    BY <1>5 DEF ReceiveCommand, IdleTimeout, CloseTransport, ReuseTransport,
       LockFactory, OpenSucceeds, RunEnsureOpen
  <2>3. \A v \in Worker :
          pc'[v] = "reply" /\ outcome'[v] = "error" =>
            pc[v] = "reply" /\ outcome[v] = "error" /\ current'[v] = current[v]
    BY <1>0, <1>5 DEF ReceiveCommand, IdleTimeout, CloseTransport,
       ReuseTransport, LockFactory, OpenSucceeds, RunEnsureOpen, IInv, TypeOK
  <2>4. QED
    BY <1>1, <2>1, <2>2, <2>3 DEF VerdictOK, Busy
<1>6. ASSUME NEW w \in Worker,
             OpenFails(w) \/ RunWriteImmediate(w) \/ BeginOperation(w)
             \/ ContinueOperation(w)
      PROVE  VerdictOK'
  <2> DEFINE r == current[w]
  <2>1. r \in Request /\ handler[r] = "waiting" /\ pc[w] \in Busy
    BY <1>1, <1>6 DEF OpenFails, RunWriteImmediate, BeginOperation,
       ContinueOperation, Busy
  <2>2. \A q \in Request : clean'[q] => clean[q]
    BY <1>0, <1>6, Fades
  <2>3. /\ UNCHANGED <<handler, answer, reply, current>>
        /\ outcome'[w] = "error" /\ pc'[w] = "reply" => ~clean'[r]
        /\ result' = [result EXCEPT ![r] = result'[r]]
        /\ result'[r] = "error" => result[r] = "error" \/ ~clean'[r]
        /\ \A v \in Worker \ {w} : pc'[v] = pc[v] /\ outcome'[v] = outcome[v]
    <3>1. CASE OpenFails(w)
      BY <1>0, <2>1, <3>1, CleanServed DEF OpenFails, IInv, TypeOK
    <3>2. ASSUME Blame(w, "error"), pc[w] \in {"run", "operation"}
          PROVE  ~clean'[r]
      BY <1>0, <2>1, <3>2, CleanServed DEF Blame, IInv, TypeOK
    <3>3. CASE RunWriteImmediate(w)
      BY <1>0, <2>1, <3>2, <3>3 DEF RunWriteImmediate, Verdict, IInv, TypeOK
    <3>4. CASE BeginOperation(w)
      BY <1>0, <2>1, <3>2, <3>4 DEF BeginOperation, EndOperation, IInv, TypeOK
    <3>5. CASE ContinueOperation(w)
      BY <1>0, <2>1, <3>2, <3>5
         DEF ContinueOperation, EndOperation, Verdict, IInv, TypeOK
    <3>6. QED
      BY <1>6, <3>1, <3>3, <3>4, <3>5
  <2>4. \A q \in Request \ {r} : result'[q] = result[q]
    BY <1>0, <2>3 DEF IInv, TypeOK
  <2>5. \A q \in Request :
          /\ handler'[q] = "new" => result'[q] = None /\ answer'[q] = None
          /\ reply'[q] = "error" => ~clean'[q]
          /\ result'[q] = "error" => ~clean'[q]
          /\ answer'[q] = "error" => ~clean'[q]
    BY <2>1, <2>2, <2>3, <2>4 DEF VerdictOK
  <2>6. \A v \in Worker :
          pc'[v] = "reply" /\ outcome'[v] = "error" => ~clean'[current'[v]]
    BY <1>1, <2>2, <2>3 DEF VerdictOK, Busy
  <2>7. QED
    BY <2>5, <2>6 DEF VerdictOK
<1>7. ASSUME NEW w \in Worker, SendReply(w)  PROVE VerdictOK'
  BY <1>0, <1>1, <1>7 DEF SendReply, VerdictOK, Busy, IInv, TypeOK
<1>8. ASSUME NEW p \in Port, Environment(p)  PROVE VerdictOK'
  <2>1. \A r \in Request : clean'[r] => clean[r]
    BY <1>0, <1>8, Disturbs
  <2>2. UNCHANGED <<handler, answer, reply, result, pc, outcome, current>>
    BY <1>8 DEF Environment, Unplug, Replug, EditorOpens, EditorCloses
  <2>3. QED
    BY <1>1, <2>1, <2>2 DEF VerdictOK, Busy
<1>9. CASE UNCHANGED vars
  BY <1>9 DEF vars, VerdictOK
<1>10. QED
  BY <1>2, <1>3, <1>4, <1>5, <1>6, <1>7, <1>8, <1>9
     DEF Next, Handler, DeviceWorker

\* The daemon's own closing, reopening and queueing put no request at a
\* disadvantage.
THEOREM Failures == Spec => []FailureInv
<1>1. Init => HeldOK /\ CleanOK /\ HandleOK /\ VerdictOK
  BY NoneAssumption DEF Init, HeldOK, CleanOK, HandleOK, VerdictOK, Serving
<1>2. DeliveryInv /\ HeldOK /\ CleanOK /\ HandleOK /\ VerdictOK /\ [Next]_vars
        => (HeldOK /\ CleanOK /\ HandleOK /\ VerdictOK)'
  BY StepHeld, StepClean, StepHandle, StepVerdict
<1>3. QED
  BY <1>1, <1>2, Delivery, PTL DEF Spec, FailureInv

\* A request only ever fails if its device went away, was the editor's, was
\* left with a stale handle, or failed the request itself.
THEOREM OutsideCause == Spec => []FailureHasOutsideCause
<1>1. FailureInv => FailureHasOutsideCause
  BY DEF FailureInv, VerdictOK, FailureHasOutsideCause
<1>2. QED
  BY <1>1, Failures, PTL

-----------------------------------------------------------------------------
(* What reaches the devices: an answer tells what its own request has      *)
(* done, and no operation is torn apart by another.                        *)

\* How often r occurs in s: Arrived(r, p) is Count(r, wire[p]).
Count(r, s) == Cardinality({i \in 1 .. Len(s) : s[i] = r})

\* Only what a worker has started, at the port it is for, reaches a device.
Started(r) ==
  \/ reply[r] # None
  \/ \E w \in Worker : current[w] = r /\ pc[w] \in {"operation", "reply"}

WireOK ==
  \A r \in Request :
    /\ \A p \in Port : Arrived(r, p) # 0 => target[r] = p /\ Started(r)
    /\ result[r] # None => Started(r)

\* Between the two transfers of an operation the first one is the last that
\* reached the device.
OperationOK ==
  \A w \in Worker :
    LET sent == wire[portOf[w]] IN
    pc[w] = "operation" =>
      /\ call[current[w]] = "with_transport"
      /\ Arrived(current[w], portOf[w]) = 1
      /\ sent # <<>> /\ sent[Len(sent)] = current[w]

\* What has reached r's device, and what its operation found, fit verdict v.
Fits(r, v) ==
  /\ \A p \in Port :
       LET n == Arrived(r, p) IN
       target[r] = p =>
         /\ n <= Transfers(call[r])
         /\ v = "ok" =>
              \/ n = Transfers(call[r])
              \/ n = 0 /\ call[r] = "with_transport"
  /\ call[r] = "with_transport" =>
       IF result[r] # None THEN v = result[r]
                           ELSE v = "error" /\ \A p \in Port : Arrived(r, p) = 0

\* The verdict on r when its worker replies with v.
Final(r, v) == IF call[r] = "with_transport" /\ v = "ok" THEN result[r] ELSE v

\* Every verdict on the way to a client fits what has reached the device.
AnswerOK ==
  /\ \A w \in Worker :
       pc[w] = "reply" => Fits(current[w], Final(current[w], outcome[w]))
  /\ \A r \in Request :
       /\ reply[r] # None => Fits(r, Final(r, reply[r]))
       /\ answer[r] # None => Fits(r, answer[r])
       /\ answer[r] # None => handler[r] = "done"
       /\ handler[r] = "awaiting_result" =>
            call[r] = "with_transport" /\ reply[r] = "ok"

AnswerInv == DeliveryInv /\ WireOK /\ OperationOK /\ AnswerOK /\ NotInterleaved
-----------------------------------------------------------------------------
(* Counting                                                                *)

\* Counts are numbers, and 0 means absent.
LEMMA CountType ==
  ASSUME NEW s \in Seq(Request), NEW r
  PROVE  /\ IsFiniteSet({i \in 1 .. Len(s) : s[i] = r})
         /\ Count(r, s) \in Nat
         /\ Count(r, s) = 0 <=> \A i \in 1 .. Len(s) : s[i] # r
<1> DEFINE I == {i \in 1 .. Len(s) : s[i] = r}
<1>1. IsFiniteSet(1 .. Len(s))
  BY FS_Interval
<1>2. IsFiniteSet(I)
  BY <1>1, FS_Subset
<1>3. Cardinality(I) \in Nat /\ (Cardinality(I) = 0 <=> I = {})
  BY <1>2, FS_CardinalityType, FS_EmptySet
<1>4. I = {} <=> \A i \in 1 .. Len(s) : s[i] # r
  OBVIOUS
<1>5. QED
  BY <1>2, <1>3, <1>4 DEF Count

\* One more transfer counts for the request that made it.
LEMMA CountAppend ==
  ASSUME NEW s \in Seq(Request), NEW q \in Request, NEW r
  PROVE  Count(r, Append(s, q)) = Count(r, s) + (IF r = q THEN 1 ELSE 0)
<1> DEFINE n == Len(s)
           I == {i \in 1 .. n : s[i] = r}
           J == {i \in 1 .. Len(Append(s, q)) : Append(s, q)[i] = r}
<1>1. /\ n \in Nat /\ Len(Append(s, q)) = n + 1
      /\ Append(s, q)[n + 1] = q
      /\ \A i \in 1 .. n : Append(s, q)[i] = s[i]
  OBVIOUS
<1>2. IsFiniteSet(I) /\ Count(r, s) \in Nat /\ n + 1 \notin I
  BY <1>1, CountType
<1>3. 1 .. n + 1 = (1 .. n) \cup {n + 1}
  BY <1>1
<1>4. CASE r = q
  <2>1. J = I \cup {n + 1}
    BY <1>1, <1>3, <1>4
  <2>2. Cardinality(J) = Cardinality(I) + 1
    BY <1>2, <2>1, FS_AddElement
  <2>3. QED
    BY <1>4, <2>2 DEF Count
<1>5. CASE r # q
  <2>1. J = I
    BY <1>1, <1>3, <1>5
  <2>2. Cardinality(J) = Cardinality(I)
    BY <2>1, Zenon
  <2>3. Count(r, Append(s, q)) = Count(r, s)
    BY <2>2 DEF Count
  <2>4. QED
    BY <1>2, <1>5, <2>3
<1>6. QED
  BY <1>4, <1>5

\* The same of what has reached a port.
LEMMA ArrivedType ==
  ASSUME IInv, NEW r, NEW p \in Port
  PROVE  /\ Arrived(r, p) = Count(r, wire[p])
         /\ Arrived(r, p) \in Nat
         /\ Arrived(r, p) = 0 <=> \A i \in 1 .. Len(wire[p]) : wire[p][i] # r
<1>1. wire[p] \in Seq(Request)
  BY DEF IInv, TypeOK
<1>2. Arrived(r, p) = Count(r, wire[p])
  BY DEF Arrived, Count
<1>3. QED
  BY <1>1, <1>2, CountType
-----------------------------------------------------------------------------
(* Steps                                                                   *)

SafeInv == DeliveryInv /\ WireOK /\ OperationOK /\ AnswerOK

\* A request in hand that has not begun has reached no device.
LEMMA Unstarted ==
  ASSUME DeliveryInv, WireOK, NEW w \in Worker, current[w] # None,
         pc[w] \notin {"operation", "reply"}, NEW p \in Port
  PROVE  Arrived(current[w], p) = 0 /\ result[current[w]] = None
<1>1. With(current[w], w) /\ current[w] \in Request
  BY DEF DeliveryInv, PlacesOK, ChannelOK, IInv, TypeOK
<1>2. \A v \in Worker : current[v] = current[w] => v = w
  BY <1>1, NoneAssumption DEF DeliveryInv, PlacesOK, ChannelOK, With
<1>3. ~Started(current[w])
  BY <1>1, <1>2 DEF Started, With
<1>4. QED
  BY <1>1, <1>3 DEF WireOK

\* A step that sends, answers and begins nothing.
LEMMA QuietKeeps ==
  ASSUME WireOK, OperationOK, AnswerOK,
         UNCHANGED <<call, target, reply, result, answer, wire, current, outcome>>,
         \A r \in Request :
           /\ handler'[r] = "awaiting_result" => handler[r] = "awaiting_result"
           /\ handler[r] = "done" => handler'[r] = "done",
         \A w \in Worker :
           /\ pc'[w] = "operation" <=> pc[w] = "operation"
           /\ pc'[w] = "reply" <=> pc[w] = "reply"
           /\ pc[w] = "operation" => portOf'[w] = portOf[w]
  PROVE  WireOK' /\ OperationOK' /\ AnswerOK'
<1>1. WireOK'
  BY DEF WireOK, Started, Arrived
<1>2. OperationOK'
  <2> SUFFICES ASSUME NEW w \in Worker, pc[w] = "operation"
               PROVE  /\ call[current[w]] = "with_transport"
                      /\ Arrived(current[w], portOf[w])' = 1
                      /\ wire[portOf[w]] # <<>>
                      /\ wire[portOf[w]][Len(wire[portOf[w]])] = current[w]
    BY DEF OperationOK
  <2>1. Arrived(current[w], portOf[w])' = Arrived(current[w], portOf[w])
    BY DEF Arrived
  <2>2. QED
    BY <2>1 DEF OperationOK
<1>3. AnswerOK'
  <2>1. ASSUME NEW w \in Worker, pc[w] = "reply"
        PROVE  Fits(current[w], Final(current[w], outcome[w]))'
    <3>1. Fits(current[w], Final(current[w], outcome[w]))
      BY <2>1 DEF AnswerOK
    <3>2. QED
      BY <3>1 DEF Fits, Final, Arrived
  <2>2. ASSUME NEW r \in Request, reply[r] # None
        PROVE  Fits(r, Final(r, reply[r]))'
    <3>1. Fits(r, Final(r, reply[r]))
      BY <2>2 DEF AnswerOK
    <3>2. QED
      BY <3>1 DEF Fits, Final, Arrived
  <2>3. ASSUME NEW r \in Request, answer[r] # None  PROVE Fits(r, answer[r])'
    <3>1. Fits(r, answer[r])
      BY <2>3 DEF AnswerOK
    <3>2. QED
      BY <3>1 DEF Fits, Arrived
  <2>4. QED
    BY <2>1, <2>2, <2>3 DEF AnswerOK
<1>4. QED
  BY <1>1, <1>2, <1>3

\* A transfer counts for the request in hand, at the worker's port, and for
\* no other.
LEMMA ArrivedWrite ==
  ASSUME IInv, NEW w \in Worker, current[w] \in Request, portOf[w] \in Port,
         wire' = [wire EXCEPT ![portOf[w]] = Append(@, current[w])],
         NEW q \in Request, NEW p \in Port
  PROVE  Arrived(q, p)' = Arrived(q, p)
                          + (IF q = current[w] /\ p = portOf[w] THEN 1 ELSE 0)
<1>1. Arrived(q, p)' = Count(q, wire'[p]) /\ Arrived(q, p) = Count(q, wire[p])
  BY DEF Arrived, Count
<1>2. wire[p] \in Seq(Request) /\ DOMAIN wire = Port /\ Arrived(q, p) \in Nat
  BY ArrivedType DEF IInv, TypeOK
<1>3. CASE p = portOf[w]
  <2>1. wire'[p] = Append(wire[p], current[w])
    BY <1>2, <1>3
  <2>2. Count(q, Append(wire[p], current[w]))
          = Count(q, wire[p]) + (IF q = current[w] THEN 1 ELSE 0)
    BY <1>2, CountAppend
  <2>3. QED
    BY <1>1, <1>3, <2>1, <2>2
<1>4. CASE p # portOf[w]
  BY <1>1, <1>2, <1>4
<1>5. QED
  BY <1>3, <1>4

\* A worker works on the request in its hands: at most one transfer.
Works(w) ==
  /\ pc[w] \in {"opening", "run", "operation"}
  /\ pc'[w] \in {"operation", "reply"}
  /\ UNCHANGED <<handler, call, target, reply, answer, current, portOf>>
  /\ \A v \in Worker \ {w} : pc'[v] = pc[v] /\ outcome'[v] = outcome[v]
  /\ \A q \in Request \ {current[w]} : result'[q] = result[q]

Transfer(w) == wire' = [wire EXCEPT ![portOf[w]] = Append(@, current[w])]

\* A worker that works keeps the parts, if its verdict fits.
LEMMA WorksKeeps ==
  ASSUME SafeInv, NEW w \in Worker, Works(w),
         UNCHANGED wire \/ Transfer(w),
         pc'[w] = "operation" => /\ Transfer(w) /\ pc[w] = "run"
                                /\ call[current[w]] = "with_transport",
         pc'[w] = "reply" => Fits(current[w], Final(current[w], outcome[w]))'
  PROVE  WireOK' /\ OperationOK' /\ AnswerOK'
<1>1. /\ DeliveryInv /\ IInv /\ pc[w] \in Busy
      /\ WireOK /\ OperationOK /\ AnswerOK
  BY DEF SafeInv, DeliveryInv, Works, Busy
<1>0. PICK r \in Request, p \in Port : r = current[w] /\ p = portOf[w]
  BY <1>1, InHand
<1>2. /\ r = current[w] /\ r # None /\ With(r, w) /\ p = portOf[w] /\ target[r] = p
      /\ \A v \in Worker : v # w =>
           current[v] # r /\ (pc[v] # "unborn" => portOf[v] # p)
  BY <1>0, <1>1, InHand
<1>3. \A q \in Request, n \in Port :
        q # r \/ n # p => Arrived(q, n)' = Arrived(q, n)
  <2>1. CASE UNCHANGED wire
    BY <2>1 DEF Arrived
  <2>2. CASE Transfer(w)
    <3>1. \A q \in Request, n \in Port :
            Arrived(q, n)' = Arrived(q, n) + (IF q = r /\ n = p THEN 1 ELSE 0)
      BY <1>1, <1>2, <2>2, ArrivedWrite DEF Transfer
    <3>2. \A q \in Request, n \in Port : Arrived(q, n) \in Nat
      BY <1>1, ArrivedType
    <3>3. QED
      BY <3>1, <3>2
  <2>3. QED
    BY <2>1, <2>2
<1>4. WireOK'
  <2>1. \A q \in Request : Started(q) => Started(q)'
    BY <1>1 DEF Started, Works
  <2>2. Started(r)'
    BY <1>2 DEF Started, Works
  <2>3. QED
    BY <1>1, <1>2, <1>3, <2>1, <2>2 DEF WireOK, Works
<1>5. OperationOK'
  <2> SUFFICES ASSUME NEW v \in Worker, pc'[v] = "operation"
               PROVE  /\ call[current[v]] = "with_transport"
                      /\ Arrived(current[v], portOf[v])' = 1
                      /\ wire'[portOf[v]] # <<>>
                      /\ wire'[portOf[v]][Len(wire'[portOf[v]])] = current[v]
    BY DEF OperationOK, Works
  <2>1. CASE v = w
    <3>1. Transfer(w) /\ pc[w] = "run" /\ call[r] = "with_transport"
      BY <1>2, <2>1
    <3>2. Arrived(r, p) = 0
      BY <1>1, <1>2, <3>1, Unstarted
    <3>3. Arrived(r, p)' = 1
      <4>1. Arrived(r, p)' = Arrived(r, p) + 1
        BY <1>1, <1>2, <3>1, ArrivedWrite DEF Transfer
      <4>2. QED
        BY <3>2, <4>1
    <3>4. wire[p] \in Seq(Request) /\ wire'[p] = Append(wire[p], r)
      BY <1>1, <1>2, <3>1 DEF Transfer, IInv, TypeOK
    <3>5. wire'[p] # <<>> /\ wire'[p][Len(wire'[p])] = r
      BY <3>4
    <3>6. Arrived(current[v], portOf[v])' = Arrived(r, p)'
      BY <1>2, <2>1 DEF Works, Arrived
    <3>7. QED
      BY <1>2, <2>1, <3>1, <3>3, <3>5, <3>6
  <2>2. CASE v # w
    <3>1. pc[v] = "operation" /\ pc[v] \in Busy
      BY <2>2 DEF Works, Busy
    <3>2. current[v] \in Request /\ portOf[v] \in Port \ {p}
      BY <1>1, <1>2, <2>2, <3>1, InHand
    <3>3. wire'[portOf[v]] = wire[portOf[v]]
      BY <1>1, <1>2, <3>2 DEF Transfer, IInv, TypeOK
    <3>4. Arrived(current[v], portOf[v])' = Arrived(current[v], portOf[v])
      BY <3>3 DEF Arrived, Works
    <3>5. QED
      BY <1>1, <3>1, <3>3, <3>4 DEF OperationOK
  <2>3. QED
    BY <2>1, <2>2
<1>6. AnswerOK'
  <2>1. ASSUME NEW q \in Request, q # r  PROVE \A v : Fits(q, v) => Fits(q, v)'
    <3>1. /\ \A n \in Port : Arrived(q, n)' = Arrived(q, n)
          /\ result'[q] = result[q] /\ UNCHANGED <<call, target>>
      BY <1>2, <1>3, <2>1 DEF Works
    <3>2. QED
      BY <3>1 DEF Fits
  <2>2. ASSUME NEW v \in Worker, pc'[v] = "reply"
        PROVE  Fits(current[v], Final(current[v], outcome[v]))'
    <3>1. CASE v = w
      BY <2>2, <3>1
    <3>2. CASE v # w
      <4>1. pc[v] = "reply" /\ pc[v] \in Busy
        BY <2>2, <3>2 DEF Works, Busy
      <4>2. current[v] \in Request /\ current[v] # r
        BY <1>1, <1>2, <3>2, <4>1, InHand
      <4>3. PICK q, x : q \in Request /\ q = current[v] /\ x = Final(q, outcome[v])
        BY <4>2
      <4>4. Fits(q, x)'
        BY <1>1, <2>1, <4>1, <4>2, <4>3 DEF AnswerOK
      <4>5. current'[v] = q /\ Final(q, outcome[v])' = x
        BY <1>2, <3>2, <4>2, <4>3 DEF Final, Works
      <4>6. QED
        BY <4>4, <4>5 DEF Fits, Final, Arrived
    <3>3. QED
      BY <3>1, <3>2
  <2>3. \A q \in Request : q # r =>
          /\ reply'[q] # None => Fits(q, Final(q, reply[q]))'
          /\ answer'[q] # None => Fits(q, answer[q])'
    BY <1>1, <1>2, <2>1 DEF AnswerOK, Final, Works
  <2>4. reply'[r] = None /\ answer'[r] = None
    BY <1>1, <1>2 DEF With, Works, AnswerOK
  <2>5. QED
    BY <1>1, <2>2, <2>3, <2>4 DEF AnswerOK, Works
<1>7. QED
  BY <1>4, <1>5, <1>6

WireParts == WireOK /\ OperationOK /\ AnswerOK

\* Every step keeps them.
LEMMA StepWire == SafeInv /\ [Next]_vars => WireParts'
<1> SUFFICES ASSUME SafeInv, [Next]_vars  PROVE WireParts'
  OBVIOUS
<1> USE NoneAssumption DEF handlerVars, workerVars, deviceVars
<1>0. DeliveryInv /\ IInv /\ RouteOK /\ WireOK /\ OperationOK /\ AnswerOK
  BY DEF SafeInv, DeliveryInv, PlacesOK
<1>1. ASSUME NEW r \in Request, handler[r] = "new"
      PROVE  /\ reply[r] = None /\ answer[r] = None /\ result[r] = None
             /\ \A p \in Port : Arrived(r, p) = 0
             /\ \A w \in Worker : pc[w] \in Busy => current[w] # r
  <2>1. reply[r] = None /\ answer[r] = None
    BY <1>0, <1>1 DEF RouteOK, AnswerOK
  <2>2. \A w \in Worker : pc[w] \in Busy => current[w] # r
    BY <1>0, <1>1, InHand DEF With
  <2>3. ~Started(r)
    BY <2>1, <2>2 DEF Started, Busy
  <2>4. QED
    BY <1>0, <2>1, <2>2, <2>3 DEF WireOK
<1>2. ASSUME NEW r \in Request, ResolveDevice(r) \/ RejectMissingDevice(r)
      PROVE  WireParts'
  <2>1. /\ handler[r] = "new"
        /\ \A q \in Request \ {r} :
             /\ handler'[q] = handler[q] /\ target'[q] = target[q]
             /\ answer'[q] = answer[q]
        /\ handler'[r] \in {"resolved", "done"}
        /\ answer'[r] # None => answer'[r] = "error" /\ handler'[r] = "done"
        /\ UNCHANGED <<call, reply, result, wire, current, outcome, pc, portOf>>
    BY <1>0, <1>1, <1>2 DEF ResolveDevice, RejectMissingDevice, IInv, TypeOK
  <2>2. /\ reply[r] = None /\ result[r] = None /\ \A p \in Port : Arrived(r, p) = 0
        /\ \A w \in Worker : pc[w] \in Busy => current[w] \in Request \ {r}
    BY <1>0, <1>1, <2>1, InHand
  <2>3. WireOK'
    BY <1>0, <2>1, <2>2 DEF WireOK, Started, Arrived
  <2>4. OperationOK'
    BY <1>0, <2>1 DEF OperationOK, Arrived
  <2>5. \A q \in Request \ {r} : \A v : Fits(q, v) => Fits(q, v)'
    BY <2>1 DEF Fits, Arrived
  <2>6. Fits(r, "error")'
    <3>1. \A p \in Port : Arrived(r, p)' = 0
      BY <2>1, <2>2 DEF Arrived
    <3>2. call'[r] \in Method
      BY <1>0, <2>1 DEF IInv, TypeOK
    <3>3. result'[r] = None
      BY <2>1, <2>2
    <3>4. QED
      BY <3>1, <3>2, <3>3 DEF Fits, Transfers, Method
  <2>7. AnswerOK'
    BY <1>0, <2>1, <2>2, <2>5, <2>6 DEF AnswerOK, Final, Busy
  <2>8. QED
    BY <2>3, <2>4, <2>7 DEF WireParts
<1>3. ASSUME NEW r \in Request, WorkerHandle(r) \/ SendCommand(r)
      PROVE  WireParts'
  BY <1>0, <1>3, QuietKeeps DEF WorkerHandle, SendCommand, WireParts, IInv, TypeOK
<1>4. ASSUME NEW r \in Request, ReceiveReply(r) \/ ReceiveResult(r)
      PROVE  WireParts'
  <2>1. /\ handler[r] # "done"
        /\ \A q \in Request \ {r} :
             handler'[q] = handler[q] /\ answer'[q] = answer[q]
        /\ handler'[r] \in {"awaiting_result", "done"}
        /\ handler'[r] = "awaiting_result" =>
             /\ call[r] = "with_transport" /\ reply[r] = "ok"
             /\ answer'[r] = answer[r]
        /\ handler'[r] = "done" => reply[r] # None /\ answer'[r] = Final(r, reply[r])
    BY <1>0, <1>4
       DEF ReceiveReply, ReceiveResult, Final, AnswerOK, IInv, TypeOK, Verdict
  <2>2. UNCHANGED <<call, target, reply, result, wire, current, outcome, pc, portOf>>
    BY <1>4 DEF ReceiveReply, ReceiveResult
  <2>3. WireOK'
    BY <1>0, <2>2 DEF WireOK, Started, Arrived
  <2>4. OperationOK'
    BY <1>0, <2>2 DEF OperationOK, Arrived
  <2>5. \A q : \A v : Fits(q, v) => Fits(q, v)'
    BY <2>2 DEF Fits, Arrived
  <2>6. AnswerOK'
    <3>1. \A w \in Worker :
            pc[w] = "reply" => Fits(current[w], Final(current[w], outcome[w]))'
      BY <1>0, <2>2, <2>5 DEF AnswerOK, Final
    <3>2. \A q \in Request : reply'[q] # None => Fits(q, Final(q, reply[q]))'
      BY <1>0, <2>2, <2>5 DEF AnswerOK, Final
    <3>3. \A q \in Request : answer'[q] # None => Fits(q, answer[q])'
      BY <1>0, <2>1, <2>5 DEF AnswerOK
    <3>4. QED
      BY <1>0, <2>1, <2>2, <3>1, <3>2, <3>3 DEF AnswerOK
  <2>7. QED
    BY <2>3, <2>4, <2>6 DEF WireParts
<1>5. ASSUME NEW w \in Worker, ReceiveCommand(w)  PROVE WireParts'
  <2>1. /\ pc[w] = "receive" /\ pc' = [pc EXCEPT ![w] = "dispatch"]
        /\ current' = [current EXCEPT ![w] = Head(queue[w])]
        /\ UNCHANGED <<handler, call, target, reply, result, answer, wire, outcome,
                       portOf>>
    BY <1>5 DEF ReceiveCommand
  <2>2. \A v \in Worker : pc'[v] \in {"operation", "reply"} \/ pc[v] \in {"operation", "reply"} =>
          pc'[v] = pc[v] /\ current'[v] = current[v]
    BY <1>0, <2>1 DEF IInv, TypeOK
  <2>3. WireOK'
    BY <1>0, <2>1, <2>2 DEF WireOK, Started, Arrived
  <2>4. OperationOK'
    BY <1>0, <2>1, <2>2 DEF OperationOK, Arrived
  <2>5. \A q : \A v : Fits(q, v) => Fits(q, v)'
    BY <2>1 DEF Fits, Arrived
  <2>6. AnswerOK'
    BY <1>0, <2>1, <2>2, <2>5 DEF AnswerOK, Final
  <2>7. QED
    BY <2>3, <2>4, <2>6 DEF WireParts
<1>6. ASSUME NEW w \in Worker,
             IdleTimeout(w) \/ CloseTransport(w) \/ ReuseTransport(w)
             \/ LockFactory(w) \/ OpenSucceeds(w)
      PROVE  WireParts'
  BY <1>0, <1>6, QuietKeeps DEF IdleTimeout, CloseTransport, ReuseTransport,
     LockFactory, OpenSucceeds, WireParts, IInv, TypeOK
<1>7. ASSUME NEW p \in Port, Environment(p)  PROVE WireParts'
  BY <1>0, <1>7, QuietKeeps DEF Environment, Unplug, Replug, EditorOpens,
     EditorCloses, WireParts
<1>8. CASE UNCHANGED vars
  BY <1>0, <1>8, QuietKeeps DEF vars, WireParts
<1>9. ASSUME NEW w \in Worker, NEW r \in Request, NEW p \in Port,
             Works(w), r = current[w], p = portOf[w],
             UNCHANGED wire \/ Transfer(w),
             pc'[w] = "operation" => /\ Transfer(w) /\ pc[w] = "run"
                                    /\ call[r] = "with_transport",
             pc'[w] = "reply" => \E v : v = Final(r, outcome[w])' /\ Fits(r, v)'
      PROVE  WireParts'
  <2>1. pc'[w] = "reply" => Fits(current[w], Final(current[w], outcome[w]))'
    <3>1. current'[w] = r
      BY <1>9 DEF Works
    <3>2. QED
      BY <1>9, <3>1 DEF Fits, Final, Arrived
  <2>2. QED
    BY <1>0, <1>9, <2>1, WorksKeeps DEF WireParts
<1>10. ASSUME NEW w \in Worker,
              OpenFails(w) \/ RunEnsureOpen(w) \/ RunWriteImmediate(w)
              \/ BeginOperation(w) \/ ContinueOperation(w)
       PROVE  WireParts'
  <2>1. pc[w] \in {"opening", "run", "operation"} /\ pc[w] \in Busy
    BY <1>10 DEF OpenFails, RunEnsureOpen, RunWriteImmediate, BeginOperation,
       ContinueOperation, Busy
  <2>2. PICK r \in Request, p \in Port : r = current[w] /\ p = portOf[w]
    BY <1>0, <2>1, InHand
  <2>3. target[r] = p /\ call[r] \in Method
    BY <1>0, <2>1, <2>2, InHand DEF IInv, TypeOK
  <2>4. Works(w)
    BY <1>0, <1>10, <2>1 DEF OpenFails, RunEnsureOpen, RunWriteImmediate,
       BeginOperation, ContinueOperation, EndOperation, Write, Works, IInv, TypeOK
  <2>5. UNCHANGED <<call, target>>
    BY <2>4 DEF Works
  <2>6. pc[w] # "operation" => Arrived(r, p) = 0 /\ result[r] = None
    BY <1>0, <2>1, <2>2, InHand, Unstarted
  <2>7. pc[w] = "operation" => Arrived(r, p) = 1 /\ call[r] = "with_transport"
    BY <1>0, <2>2 DEF OperationOK
  <2>8. UNCHANGED wire => Arrived(r, p)' = Arrived(r, p)
    BY DEF Arrived
  <2>9. Transfer(w) => Arrived(r, p)' = Arrived(r, p) + 1
    BY <1>0, <2>2, ArrivedWrite DEF Transfer
  <2>9a. ASSUME NEW v, call[r] # "with_transport",
                Arrived(r, p)' <= Transfers(call[r]),
                v = "ok" => Arrived(r, p)' = Transfers(call[r])
         PROVE  Fits(r, v)'
    <3>1. call'[r] = call[r] /\ target'[r] = p
      BY <2>3, <2>5
    <3>2. \A q \in Port :
            target'[r] = q =>
              /\ Arrived(r, q)' <= Transfers(call'[r])
              /\ v = "ok" => Arrived(r, q)' = Transfers(call'[r])
      BY <2>9a, <3>1
    <3>3. QED
      BY <2>9a, <3>1, <3>2 DEF Fits
  <2>10. CASE OpenFails(w)
    <3>1. outcome'[w] = "error" /\ UNCHANGED wire /\ pc'[w] = "reply"
          /\ pc[w] = "opening"
      BY <1>0, <2>10 DEF OpenFails, IInv, TypeOK
    <3>2. Fits(r, "error")'
      <4>1. \A q \in Port : Arrived(r, q)' = 0
        <5>1. \A q \in Port : Arrived(r, q) = 0
          BY <1>0, <2>3, <2>6, <3>1 DEF WireOK
        <5>2. QED
          BY <3>1, <5>1 DEF Arrived
      <4>2. result'[r] = None
        BY <2>6, <3>1, <2>10 DEF OpenFails
      <4>3. QED
        BY <2>3, <2>5, <4>1, <4>2 DEF Fits, Transfers, Method
    <3>3. Final(r, outcome[w])' = "error"
      BY <3>1 DEF Final
    <3>4. QED
      BY <1>9, <2>2, <2>4, <3>1, <3>2, <3>3 DEF Fits, Arrived
  <2>11. CASE RunEnsureOpen(w)
    <3>1. outcome'[w] = "ok" /\ UNCHANGED wire /\ pc'[w] = "reply"
          /\ pc[w] = "run" /\ call[r] = "ensure_open"
      BY <1>0, <2>2, <2>11 DEF RunEnsureOpen, IInv, TypeOK
    <3>2. Fits(r, "ok")'
      BY <2>6, <2>8, <2>9a, <3>1 DEF Transfers
    <3>3. Final(r, outcome[w])' = "ok"
      BY <2>5, <3>1 DEF Final
    <3>4. QED
      BY <1>9, <2>2, <2>4, <3>1, <3>2, <3>3 DEF Fits, Arrived
  <2>12. CASE RunWriteImmediate(w)
    <3>1. /\ pc'[w] = "reply" /\ pc[w] = "run" /\ call[r] = "write_immediate"
          /\ outcome'[w] \in Verdict
          /\ outcome'[w] = "ok" => Transfer(w)
          /\ UNCHANGED wire \/ Transfer(w)
      BY <1>0, <2>2, <2>12 DEF RunWriteImmediate, Write, Transfer, IInv, TypeOK
    <3>2. PICK v \in Verdict : v = outcome'[w]
      BY <3>1
    <3>3. Fits(r, v)'
      BY <2>6, <2>8, <2>9, <2>9a, <3>1, <3>2 DEF Transfers
    <3>4. Final(r, outcome[w])' = v
      BY <2>5, <3>1, <3>2 DEF Final
    <3>5. QED
      BY <1>9, <2>2, <2>4, <3>1, <3>3, <3>4 DEF Fits, Arrived
  <2>13. CASE BeginOperation(w) \/ ContinueOperation(w)
    <3>1. CASE pc'[w] = "operation"
      <4>1. Transfer(w) /\ pc[w] = "run" /\ call[r] = "with_transport"
        BY <1>0, <2>2, <2>13, <3>1 DEF BeginOperation, ContinueOperation,
           EndOperation, Write, Transfer, IInv, TypeOK
      <4>2. QED
        BY <1>9, <2>2, <2>4, <3>1, <4>1
    <3>2. CASE pc'[w] # "operation"
      <4>1. PICK verdict \in Verdict :
              /\ EndOperation(w, verdict)
              /\ UNCHANGED wire \/ Transfer(w)
              /\ verdict = "ok" =>
                   \/ pc[w] = "run" /\ UNCHANGED wire
                   \/ pc[w] = "operation" /\ Transfer(w)
        <5>1. CASE BeginOperation(w)
          <6>1. pc[w] = "run" /\ pc' # [pc EXCEPT ![w] = "operation"]
            BY <1>0, <3>2, <5>1 DEF BeginOperation, IInv, TypeOK
          <6>2. CASE Write(w, "error") /\ EndOperation(w, "error")
            BY <6>2 DEF Write, Transfer, Verdict
          <6>3. CASE UNCHANGED wire /\ EndOperation(w, "ok")
            BY <6>1, <6>3 DEF Verdict
          <6>4. QED
            BY <5>1, <6>1, <6>2, <6>3 DEF BeginOperation
        <5>2. CASE ContinueOperation(w)
          <6>1. PICK written \in Verdict, verdict \in Verdict :
                  /\ verdict = "ok" => written = "ok"
                  /\ Write(w, written) /\ EndOperation(w, verdict)
            BY <5>2 DEF ContinueOperation
          <6>2. QED
            BY <5>2, <6>1 DEF ContinueOperation, Write, Transfer
        <5>3. QED
          BY <2>13, <5>1, <5>2
      <4>2. /\ call[r] = "with_transport" /\ pc'[w] = "reply"
            /\ outcome'[w] = "ok" /\ result'[r] = verdict
            /\ pc[w] \in {"run", "operation"}
        BY <1>0, <2>2, <2>7, <2>13, <4>1 DEF BeginOperation, ContinueOperation,
           EndOperation, IInv, TypeOK
      <4>3. Fits(r, verdict)'
        BY <2>3, <2>5, <2>6, <2>7, <2>8, <2>9, <4>1, <4>2, NoneAssumption
           DEF Fits, Transfers, Verdict
      <4>4. Final(r, outcome[w])' = verdict
        BY <2>5, <4>2 DEF Final
      <4>5. QED
        BY <1>9, <2>2, <2>4, <3>2, <4>1, <4>2, <4>3, <4>4 DEF Fits, Arrived
    <3>3. QED
      BY <3>1, <3>2
  <2>14. QED
    BY <1>10, <2>10, <2>11, <2>12, <2>13
<1>11. ASSUME NEW w \in Worker, SendReply(w)  PROVE WireParts'
  <2>1. PICK r \in Request : r = current[w]
    BY <1>0, <1>11, InHand DEF SendReply, Busy
  <2>2. /\ pc[w] = "reply" /\ pc' = [pc EXCEPT ![w] = "receive"]
        /\ reply[r] = None /\ reply'[r] = outcome[w] /\ reply'[r] # None
        /\ \A q \in Request \ {r} : reply'[q] = reply[q]
        /\ current' = [current EXCEPT ![w] = None]
        /\ handler[r] = "waiting"
        /\ UNCHANGED <<handler, call, target, result, answer, wire, outcome, portOf>>
    BY <1>0, <1>11, <2>1, InHand DEF SendReply, Busy, With, IInv, TypeOK, Verdict
  <2>3. \A v \in Worker \ {w} : pc'[v] = pc[v] /\ current'[v] = current[v]
    BY <1>0, <2>2 DEF IInv, TypeOK
  <2>4. pc'[w] = "receive"
    BY <1>0, <2>2 DEF IInv, TypeOK
  <2>5. WireOK'
    BY <1>0, <2>1, <2>2, <2>3 DEF WireOK, Started, Arrived
  <2>6. OperationOK'
    BY <1>0, <2>2, <2>3, <2>4 DEF OperationOK, Arrived
  <2>7. \A q : \A v : Fits(q, v) => Fits(q, v)'
    BY <2>2 DEF Fits, Arrived
  <2>8. AnswerOK'
    BY <1>0, <2>1, <2>2, <2>3, <2>4, <2>7 DEF AnswerOK, Final
  <2>9. QED
    BY <2>5, <2>6, <2>8 DEF WireParts
<1>12. QED
  BY <1>2, <1>3, <1>4, <1>5, <1>6, <1>7, <1>8, <1>10, <1>11
     DEF Next, Handler, DeviceWorker

\* Only a transfer adds to what a device has seen.
LEMMA WireGrows ==
  ASSUME SafeInv, [Next]_vars
  PROVE  \/ UNCHANGED wire
         \/ \E w \in Worker : pc[w] \in {"run", "operation"} /\ Transfer(w)
<1> USE DEF handlerVars, workerVars, deviceVars
<1>1. ASSUME NEW w \in Worker, DeviceWorker(w), wire' # wire
      PROVE  pc[w] \in {"run", "operation"} /\ Transfer(w)
  BY <1>1 DEF DeviceWorker, ReceiveCommand, IdleTimeout, CloseTransport,
     ReuseTransport, LockFactory, OpenSucceeds, OpenFails, RunEnsureOpen,
     RunWriteImmediate, BeginOperation, ContinueOperation, SendReply, Write,
     Transfer
<1>2. ASSUME NEW r \in Request, Handler(r)  PROVE UNCHANGED wire
  BY <1>2 DEF Handler, ResolveDevice, RejectMissingDevice, WorkerHandle,
     SendCommand, ReceiveReply, ReceiveResult
<1>3. ASSUME NEW p \in Port, Environment(p)  PROVE UNCHANGED wire
  BY <1>3 DEF Environment, Unplug, Replug, EditorOpens, EditorCloses
<1>4. QED
  BY <1>1, <1>2, <1>3 DEF Next, vars

\* A second transfer of a request comes right after its first.
LEMMA StepNotInterleaved == SafeInv /\ NotInterleaved /\ [Next]_vars => NotInterleaved'
<1> SUFFICES ASSUME SafeInv, NotInterleaved, [Next]_vars  PROVE NotInterleaved'
  OBVIOUS
<1>1. CASE UNCHANGED wire
  BY <1>1 DEF NotInterleaved
<1>2. ASSUME NEW w \in Worker, pc[w] \in {"run", "operation"}, Transfer(w)
      PROVE  NotInterleaved'
  <2>1. DeliveryInv /\ IInv /\ WireOK /\ OperationOK /\ pc[w] \in Busy
    BY <1>2 DEF SafeInv, DeliveryInv, Busy
  <2>2. PICK r \in Request, q \in Port : r = current[w] /\ q = portOf[w]
    BY <2>1, InHand
  <2> SUFFICES ASSUME NEW p \in Port, NEW i \in 1 .. Len(wire'[p]),
                      NEW k \in 1 .. Len(wire'[p]), wire'[p][i] = wire'[p][k],
                      NEW j \in i .. k
               PROVE  wire'[p][j] = wire'[p][i]
    BY DEF NotInterleaved
  <2>3. wire[p] \in Seq(Request) /\ wire[q] \in Seq(Request) /\ DOMAIN wire = Port
    BY <2>1 DEF IInv, TypeOK
  <2>4. CASE p # q
    BY <1>2, <2>2, <2>3, <2>4 DEF Transfer, NotInterleaved
  <2>5. CASE p = q
    <3> DEFINE s == wire[p]
               n == Len(s)
    <3>1. wire'[p] = Append(s, r)
      BY <1>2, <2>2, <2>3, <2>5 DEF Transfer
    <3>2. n \in Nat /\ Len(wire'[p]) = n + 1 /\ wire'[p][n + 1] = r
          /\ \A m \in 1 .. n : wire'[p][m] = s[m]
      BY <2>3, <3>1
    <3>3. ASSUME NEW a \in 1 .. n, NEW c \in 1 .. n, s[a] = s[c], NEW b \in a .. c
          PROVE  s[b] = s[a]
      BY <3>3 DEF NotInterleaved
    <3>4. CASE k \in 1 .. n
      <4>1. i \in 1 .. n \/ i = n + 1
        BY <3>2
      <4>2. CASE i = n + 1
        BY <3>2, <3>4, <4>2
      <4>3. CASE i \in 1 .. n
        <5>1. j \in 1 .. n
          BY <3>2, <3>4, <4>3
        <5>2. QED
          BY <3>2, <3>3, <3>4, <4>3, <5>1
      <4>4. QED
        BY <4>1, <4>2, <4>3
    <3>5. CASE k = n + 1 /\ i \in 1 .. n
      <4>1. s[i] = r
        BY <3>2, <3>5
      <4>2. Arrived(r, p) # 0
        BY <2>1, <3>5, <4>1, ArrivedType
      <4>3. pc[w] = "operation"
        BY <1>2, <2>1, <2>2, <4>2, Unstarted, InHand
      <4>4. n \in 1 .. n /\ s[n] = r
        BY <2>1, <2>2, <2>5, <3>2, <3>5, <4>3 DEF OperationOK
      <4>5. CASE j = n + 1
        BY <3>2, <3>5, <4>1, <4>5
      <4>6. CASE j # n + 1
        <5>1. j \in i .. n /\ j \in 1 .. n
          BY <3>2, <3>5, <4>6
        <5>2. QED
          BY <3>2, <3>3, <3>5, <4>1, <4>4, <5>1
      <4>7. QED
        BY <4>5, <4>6
    <3>6. CASE k = n + 1 /\ i = n + 1
      BY <3>2, <3>6
    <3>7. QED
      BY <3>2, <3>4, <3>5, <3>6
  <2>6. QED
    BY <2>4, <2>5
<1>3. QED
  BY <1>1, <1>2, WireGrows

\* What is on the way to a client fits what has reached its device, in every
\* method of the registry.
THEOREM Answers == Spec => []AnswerInv
<1>1. Init => WireParts /\ NotInterleaved
  <2> SUFFICES ASSUME Init  PROVE WireParts /\ NotInterleaved
    OBVIOUS
  <2>1. \A r, p : p \in Port => Arrived(r, p) = 0
    <3> SUFFICES ASSUME NEW r, NEW p \in Port  PROVE Arrived(r, p) = 0
      OBVIOUS
    <3>1. IInv
      BY InitIInv
    <3>2. QED
      BY <3>1, ArrivedType DEF Init
  <2>2. QED
    BY <2>1 DEF Init, WireParts, WireOK, OperationOK, AnswerOK, NotInterleaved
<1>2. DeliveryInv /\ WireParts /\ NotInterleaved /\ [Next]_vars
        => (WireParts /\ NotInterleaved)'
  BY StepWire, StepNotInterleaved DEF SafeInv, WireParts
<1>3. QED
  BY <1>1, <1>2, Delivery, PTL DEF Spec, AnswerInv, WireParts

\* An answer is the outcome of its own request, which reaches its own device
\* only and runs at most once, and it is given when the request is over.
THEOREM OwnOutcome == Spec => []AnswerIsOwnOutcome
<1>1. AnswerInv => AnswerIsOwnOutcome
  <2> SUFFICES ASSUME AnswerInv, NEW r \in Request
               PROVE  /\ \A p \in Port :
                           LET n == Arrived(r, p) IN
                           /\ target[r] # p => n = 0
                           /\ n <= Transfers(call[r])
                           /\ answer[r] = "ok" /\ target[r] = p =>
                                \/ n = Transfers(call[r])
                                \/ n = 0 /\ call[r] = "with_transport"
                           /\ answer[r] # None /\ call[r] = "with_transport" =>
                                IF result[r] # None THEN answer[r] = result[r]
                                                    ELSE answer[r] = "error" /\ n = 0
                      /\ answer[r] # None =>
                           \A w \in Worker :
                             /\ current[w] # r
                             /\ \A i \in 1 .. Len(queue[w]) : queue[w][i] # r
    BY DEF AnswerIsOwnOutcome
  <2>1. IInv /\ WireOK /\ OperationOK /\ AnswerOK
    BY DEF AnswerInv, DeliveryInv
  <2>2. ASSUME NEW p \in Port
        PROVE  Arrived(r, p) \in Nat /\ Transfers(call[r]) \in Nat
    BY <2>1, ArrivedType DEF IInv, TypeOK, Method, Transfers
  <2>3. ASSUME NEW p \in Port  PROVE target[r] # p => Arrived(r, p) = 0
    BY <2>1 DEF WireOK
  <2>4. ASSUME NEW p \in Port  PROVE Arrived(r, p) <= Transfers(call[r])
    <3>1. CASE Arrived(r, p) = 0
      BY <2>2, <3>1
    <3>2. CASE Arrived(r, p) # 0 /\ reply[r] # None
      BY <2>1, <2>3, <3>2 DEF AnswerOK, Fits
    <3>3. ASSUME Arrived(r, p) # 0, NEW w \in Worker, current[w] = r,
                 pc[w] \in {"operation", "reply"}
          PROVE  Arrived(r, p) <= Transfers(call[r])
      <4>1. target[r] = p /\ portOf[w] = p
        BY <2>3, <3>3, InHand DEF AnswerInv, Busy
      <4>2. CASE pc[w] = "operation"
        BY <2>1, <3>3, <4>1, <4>2 DEF OperationOK, Transfers
      <4>3. CASE pc[w] = "reply"
        BY <2>1, <3>3, <4>1, <4>3 DEF AnswerOK, Fits
      <4>4. QED
        BY <3>3, <4>2, <4>3
    <3>4. Arrived(r, p) # 0 => Started(r)
      BY <2>1 DEF WireOK
    <3>5. QED
      BY <3>1, <3>2, <3>3, <3>4 DEF Started
  <2>5. answer[r] # None => Fits(r, answer[r]) /\ handler[r] = "done"
    BY <2>1 DEF AnswerOK
  <2>6. ASSUME answer[r] # None, NEW w \in Worker
        PROVE  /\ current[w] # r
               /\ \A i \in 1 .. Len(queue[w]) : queue[w][i] # r
    <3>1. ChannelOK /\ r # None
      BY NoneAssumption DEF AnswerInv, DeliveryInv, PlacesOK
    <3>2. ~With(r, w)
      BY <2>5, <2>6 DEF With
    <3>3. QED
      BY <3>1, <3>2 DEF ChannelOK, Places
  <2>7. QED
    BY <2>3, <2>4, <2>5, <2>6, NoneAssumption DEF Fits
<1>2. QED
  BY <1>1, Answers, PTL

\* Between the transfers of an operation no other request reaches the device.
THEOREM NoInterleaving == Spec => []NotInterleaved
<1>1. AnswerInv => NotInterleaved
  BY DEF AnswerInv
<1>2. QED
  BY <1>1, Answers, PTL
=============================================================================
