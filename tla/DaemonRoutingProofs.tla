------------------------ MODULE DaemonRoutingProofs ------------------------
(***************************************************************************)
(* DaemonRouting for any number of invocations and daemons: its safety     *)
(* properties, and that it implements CommandOnce.  The inductive          *)
(* invariant says what the two ends of a connection know of each other,    *)
(* and what a starting daemon that nobody has disturbed knows of the path. *)
(***************************************************************************)
EXTENDS DaemonRouting, TLAPS

\* Only an invocation that has connected has a peer and a thread, and it has
\* left the cold path; once it is done, the thread is done as well.
ConnectionOK ==
  \A c \in Client :
    /\ peer[c] = None <=> thread[c] = "none"
    /\ peer[c] # None => client[c] \in {"connected", "sent", "done", "killed"}
    /\ client[c] \in {"connected", "sent"} => peer[c] # None
    /\ peer[c] # None /\ client[c] = "done" => thread[c] = "closed"

\* A command is carried out once, when its thread or its cold run has got to
\* it, and verdicts agree with it.
CarriedOK ==
  \A c \in Client :
    /\ carried[c] \in {0, 1}
    /\ client[c] \in {"start", "cold", "cold_open"} => carried[c] = 0
    /\ thread[c] \in {"backlog", "accepted", "handling", "ready"} =>
         carried[c] = 0
    /\ response[c] = "ok" => carried[c] = 1
    /\ result[c] = "ok" => carried[c] = 1
    /\ result[c] # None <=> client[c] = "done"

\* What a daemon that starts alone has seen at the path is still there.
StartOK ==
  /\ path = OtherFile => \A d \in Daemon : daemon[d] \in {"idle", "failed"}
  /\ \A d \in Daemon : alone[d] =>
       /\ daemon[d] = "removing" => path \notin {None, OtherFile}
       /\ daemon[d] = "binding" => path = None
       /\ daemon[d] = "failed" => path = OtherFile

IInv == TypeOK /\ ConnectionOK /\ CarriedOK /\ StartOK

\* At the start nobody is connected and nobody has been seen at the path.
THEOREM InitIInv == Init => IInv
BY RoutingAssumption
   DEF Init, IInv, TypeOK, ConnectionOK, CarriedOK, StartOK, Verdict

\* Every step of a daemon keeps the inductive invariant.
LEMMA DaemonStep ==
  ASSUME IInv, NEW d \in Daemon, DaemonProcess(d)
  PROVE  IInv'
<1> USE RoutingAssumption DEF IInv, TypeOK, ConnectionOK, CarriedOK, StartOK,
        Verdict, clientVars
<1>1. CASE InspectPath(d)
  BY <1>1 DEF InspectPath
<1>2. CASE RemoveStaleSocket(d)
  BY <1>2 DEF RemoveStaleSocket, SetPath
<1>3. CASE BindListener(d)
  <2>1. CASE path = None
    <3>1. SetPath(d, d) /\ daemon' = [daemon EXCEPT ![d] = "serving"]
      BY <1>3, <2>1 DEF BindListener
    <3>2. UNCHANGED <<clientVars, thread, response, port, carried>>
      BY <1>3 DEF BindListener
    <3>3. TypeOK'
      BY <3>1, <3>2 DEF SetPath
    <3>4. ConnectionOK' /\ CarriedOK'
      BY <3>2
    <3>5. StartOK'
      BY <2>1, <3>1 DEF SetPath
    <3>6. QED
      BY <3>3, <3>4, <3>5
  <2>2. CASE path # None
    BY <1>3, <2>2 DEF BindListener
  <2>3. QED
    BY <2>1, <2>2
<1>4. CASE StopServing(d)
  BY <1>4 DEF StopServing, SetPath
<1>5. CASE Exit(d) \/ Crash(d)
  <2>1. daemon[d] \in {"removing", "binding", "serving", "dropped"} /\ EndProcess(d)
    BY <1>5 DEF Exit, Crash, Running
  <2>2. TypeOK' /\ ConnectionOK'
    BY <2>1 DEF EndProcess
  <2>3. CarriedOK'
    BY <2>1 DEF EndProcess
  <2>4. StartOK'
    BY <2>1 DEF EndProcess
  <2>5. QED
    BY <2>2, <2>3, <2>4
<1>6. CASE CloseIdlePort(d)
  BY <1>6 DEF CloseIdlePort
<1>7. QED
  BY <1>1, <1>2, <1>3, <1>4, <1>5, <1>6, DaemonProcess(d) DEF DaemonProcess

\* So does every step of an invocation.
LEMMA InvocationStep ==
  ASSUME IInv, NEW c \in Client, Invocation(c) \/ Interrupt(c)
  PROVE  IInv'
<1> USE RoutingAssumption DEF IInv, TypeOK, ConnectionOK, CarriedOK, StartOK,
        Verdict, clientVars, Finish
<1>1. CASE NoSocketPath(c)
  BY <1>1 DEF NoSocketPath
<1>2. CASE ConnectRefused(c)
  BY <1>2 DEF ConnectRefused
<1>3. CASE Connect(c)
  BY <1>3 DEF Connect
<1>4. CASE ConnectFails(c)
  BY <1>4 DEF ConnectFails
<1>5. CASE SendRequest(c)
  BY <1>5 DEF SendRequest
<1>6. CASE ReadResponse(c)
  BY <1>6 DEF ReadResponse
<1>7. CASE OpenCold(c)
  BY <1>7 DEF OpenCold
<1>8. CASE ExecuteCold(c)
  BY <1>8 DEF ExecuteCold
<1>9. CASE Interrupt(c)
  BY <1>9 DEF Interrupt
<1>10. QED
  BY <1>1, <1>2, <1>3, <1>4, <1>5, <1>6, <1>7, <1>8, <1>9,
     Invocation(c) \/ Interrupt(c) DEF Invocation

\* So does every step of a daemon's thread for a connection.
LEMMA ThreadStep ==
  ASSUME IInv, NEW c \in Client, ConnectionThread(c)
  PROVE  IInv'
<1> USE RoutingAssumption DEF IInv, TypeOK, ConnectionOK, CarriedOK, StartOK,
        Verdict, clientVars
<1>1. CASE AcceptConnection(c)
  BY <1>1 DEF AcceptConnection
<1>2. CASE ReadRequest(c)
  BY <1>2 DEF ReadRequest
<1>3. CASE RejectRequest(c)
  BY <1>3 DEF RejectRequest
<1>4. CASE OpenPort(c)
  BY <1>4 DEF OpenPort
<1>5. CASE Execute(c)
  BY <1>5 DEF Execute
<1>6. CASE Respond(c)
  BY <1>6 DEF Respond
<1>7. QED
  BY <1>1, <1>2, <1>3, <1>4, <1>5, <1>6, ConnectionThread(c)
     DEF ConnectionThread

\* Every step of a daemon, an invocation or a thread keeps it.
LEMMA StepIInv == IInv /\ [Next]_vars => IInv'
<1> SUFFICES ASSUME IInv, [Next]_vars  PROVE IInv'
  OBVIOUS
<1>1. CASE Next
  BY <1>1, DaemonStep, InvocationStep, ThreadStep DEF Next
<1>2. CASE UNCHANGED vars
  BY <1>2 DEF IInv, TypeOK, ConnectionOK, CarriedOK, StartOK, vars, clientVars
<1>3. QED
  BY <1>1, <1>2

\* The inductive invariant of the routing holds in every reachable state.
THEOREM Invariance == Spec => []IInv
BY InitIInv, StepIInv, PTL DEF Spec

\* Type correctness of the routing.
THEOREM TypeCorrect == Spec => []TypeOK
<1>1. IInv => TypeOK
  BY DEF IInv
<1>2. QED
  BY Invariance, <1>1, PTL

\* No command that a daemon has taken is run cold.
THEOREM NoRetry == Spec => []NoSilentRetry
<1>1. IInv => NoSilentRetry
  BY DEF IInv, ConnectionOK, NoSilentRetry
<1>2. QED
  BY Invariance, <1>1, PTL

\* A stale socket never keeps a daemon from starting.
THEOREM StartsAlone == Spec => []StartsWhenAlone
<1>1. IInv => StartsWhenAlone
  BY DEF IInv, StartOK, StartsWhenAlone
<1>2. QED
  BY Invariance, <1>1, PTL
-----------------------------------------------------------------------------
(* Refinement                                                              *)

\* The commands that reached the device, as CommandOnce sees them.
Reached == {c \in Client : carried[c] # 0}

\* An action that leaves both of CommandOnce's variables alone.
LEMMA StepStutters ==
  ASSUME UNCHANGED <<carried, result>>
  PROVE  UNCHANGED CO!commandVars
BY DEF CO!commandVars

\* A command is carried out the first time, by somebody who still waits.
LEMMA StepCarriesOut ==
  ASSUME IInv, NEW c \in Client, carried[c] = 0,
         carried' = [carried EXCEPT ![c] = @ + 1]
  PROVE  c \notin Reached /\ Reached' = Reached \cup {c}
BY DEF IInv, TypeOK, Reached

\* Only the invocation itself reports, once, and what its command deserves.
LEMMA StepReports ==
  ASSUME IInv, NEW c \in Client, client[c] # "done", UNCHANGED carried,
         NEW verdict \in Verdict, Finish(c, verdict),
         verdict = "ok" => carried[c] = 1
  PROVE  CO!CommandNext
<1>1. result[c] = None
  BY DEF IInv, CarriedOK
<1>2. CO!Report(c, verdict)
  BY <1>1 DEF CO!Report, Finish
<1>3. QED
  BY <1>2 DEF CO!CommandNext, Verdict

\* Every step is one of CommandOnce or a stutter.
LEMMA StepRefines == IInv /\ [Next]_vars => [CO!CommandNext]_(CO!commandVars)
<1> SUFFICES ASSUME IInv, [Next]_vars
             PROVE  CO!CommandNext \/ UNCHANGED CO!commandVars
  OBVIOUS
<1>1. ASSUME NEW d \in Daemon, DaemonProcess(d)  PROVE UNCHANGED CO!commandVars
  <2>1. UNCHANGED <<carried, result>>
    BY <1>1 DEF DaemonProcess, InspectPath, RemoveStaleSocket, BindListener,
         StopServing, Exit, Crash, EndProcess, CloseIdlePort, SetPath, clientVars
  <2>2. QED
    BY <2>1, StepStutters
<1>2. ASSUME NEW c \in Client, Invocation(c) \/ Interrupt(c)
      PROVE  CO!CommandNext \/ UNCHANGED CO!commandVars
  <2>1. CASE NoSocketPath(c) \/ ConnectRefused(c) \/ Connect(c)
    BY <2>1, StepStutters DEF NoSocketPath, ConnectRefused, Connect
  <2>2. CASE ConnectFails(c)
    BY <2>2, StepReports DEF ConnectFails, Verdict
  <2>3. CASE SendRequest(c)
    BY <2>3, StepReports, StepStutters DEF SendRequest, Verdict
  <2>4. CASE ReadResponse(c)
    BY <2>4, StepReports DEF ReadResponse, Verdict, IInv, CarriedOK
  <2>5. CASE OpenCold(c)
    BY <2>5, StepReports, StepStutters DEF OpenCold, Verdict
  <2>6. CASE ExecuteCold(c)
    <3>1. carried[c] = 0 /\ client[c] # "done" /\ result[c] = None
      BY <2>6 DEF ExecuteCold, IInv, CarriedOK
    <3>2. PICK verdict \in Verdict :
            /\ Finish(c, verdict)
            /\ \/ carried' = [carried EXCEPT ![c] = @ + 1]
               \/ verdict = "error" /\ UNCHANGED carried
      <4>1. CASE carried' = [carried EXCEPT ![c] = @ + 1] /\ Finish(c, "ok")
        BY <4>1 DEF Verdict
      <4>2. CASE /\ Finish(c, "error")
                 /\ carried' \in {carried, [carried EXCEPT ![c] = @ + 1]}
        BY <4>2 DEF Verdict
      <4>3. QED
        BY <2>6, <4>1, <4>2 DEF ExecuteCold
    <3>3. CASE UNCHANGED carried /\ verdict = "error"
      BY <3>1, <3>2, <3>3, StepReports
    <3>4. CASE carried' = [carried EXCEPT ![c] = @ + 1]
      <4>1. CO!CarryOutAndReport(c, verdict)
        BY <3>1, <3>2, <3>4, StepCarriesOut
           DEF CO!CarryOutAndReport, Finish, Reached
      <4>2. QED
        BY <4>1 DEF CO!CommandNext, Verdict
    <3>5. QED
      BY <3>2, <3>3, <3>4
  <2>7. CASE Interrupt(c)
    <3>1. result[c] = None /\ UNCHANGED result
      BY <2>7 DEF Interrupt, IInv, CarriedOK
    <3>2. CASE UNCHANGED carried
      BY <3>1, <3>2, StepStutters
    <3>3. CASE carried # carried'
      <4>1. carried' = [carried EXCEPT ![c] = @ + 1] /\ carried[c] = 0
        BY <2>7, <3>3 DEF Interrupt, IInv, CarriedOK
      <4>2. CO!CarryOut(c)
        BY <3>1, <4>1, StepCarriesOut DEF CO!CarryOut, Reached
      <4>3. QED
        BY <4>2 DEF CO!CommandNext
    <3>4. QED
      BY <3>2, <3>3
  <2>8. QED
    BY <1>2, <2>1, <2>2, <2>3, <2>4, <2>5, <2>6, <2>7 DEF Invocation
<1>3. ASSUME NEW c \in Client, ConnectionThread(c)
      PROVE  CO!CommandNext \/ UNCHANGED CO!commandVars
  <2>1. UNCHANGED result
    BY <1>3 DEF ConnectionThread, AcceptConnection, ReadRequest, RejectRequest,
         OpenPort, Execute, Respond, clientVars
  <2>2. CASE UNCHANGED carried
    BY <2>1, <2>2, StepStutters
  <2>3. CASE carried # carried'
    <3>1. thread[c] = "ready" /\ carried' = [carried EXCEPT ![c] = @ + 1]
      BY <1>3, <2>3 DEF ConnectionThread, AcceptConnection, ReadRequest,
           RejectRequest, OpenPort, Execute, Respond
    <3>2. carried[c] = 0 /\ result[c] = None
      BY <3>1, RoutingAssumption DEF IInv, TypeOK, ConnectionOK, CarriedOK
    <3>3. CO!CarryOut(c)
      BY <2>1, <3>1, <3>2, StepCarriesOut DEF CO!CarryOut, Reached
    <3>4. QED
      BY <3>3 DEF CO!CommandNext
  <2>4. QED
    BY <2>2, <2>3
<1>4. CASE UNCHANGED vars
  BY <1>4, StepStutters DEF vars, clientVars
<1>5. QED
  BY <1>1, <1>2, <1>3, <1>4 DEF Next

\* The routing implements CommandOnce, and no command is carried out twice:
\* connecting, falling back, crashes, interrupts and lost responses included.
THEOREM Refinement == Spec => ImplementsCommandOnce
<1>1. Init => CO!CommandInit
  BY DEF Init, CO!CommandInit
<1>2. IInv => \A c \in Client : carried[c] <= 1
  <2>1. IInv => \A c \in Client : carried[c] \in {0, 1}
    BY DEF IInv, CarriedOK
  <2>2. \A n \in {0, 1} : n <= 1
    OBVIOUS
  <2>3. QED
    BY <2>1, <2>2
<1>3. QED
  BY <1>1, <1>2, Invariance, StepRefines, PTL
     DEF Spec, CO!CommandSpec, ImplementsCommandOnce
=============================================================================
