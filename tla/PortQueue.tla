----------------------------- MODULE PortQueue -----------------------------
(***************************************************************************)
(* What the daemon promises about one serial port, with no threads,        *)
(* channels or mutexes in it: the requests submitted to a port wait in     *)
(* order, one of them runs at a time, and each is finished exactly once.   *)
(* DeviceSession implements this specification.                            *)
(***************************************************************************)
EXTENDS Sequences

CONSTANTS
  Request,     \* commands handed to the registry
  Port,        \* resolved serial device paths
  None

VARIABLES
  pending,     \* pending[p]: the requests waiting for port p, in order
  running,     \* running[p]: the request that owns port p, or None
  submitted,   \* every request handed over so far
  finished     \* every request whose execution has ended

queueVars == <<pending, running, submitted, finished>>

QueueInit ==
  /\ pending = [p \in Port |-> <<>>]
  /\ running = [p \in Port |-> None]
  /\ submitted = {}
  /\ finished = {}

\* A request joins the end of the queue of one port, once.
Submit(r, p) ==
  /\ r \notin submitted
  /\ submitted' = submitted \cup {r}
  /\ pending' = [pending EXCEPT ![p] = Append(@, r)]
  /\ UNCHANGED <<running, finished>>

\* The port is free and takes the oldest waiting request.
Start(p) ==
  /\ running[p] = None
  /\ pending[p] # <<>>
  /\ running' = [running EXCEPT ![p] = Head(pending[p])]
  /\ pending' = [pending EXCEPT ![p] = Tail(@)]
  /\ UNCHANGED <<submitted, finished>>

\* The running request ends, well or badly, and frees the port.
Finish(p) ==
  /\ running[p] # None
  /\ running[p] \notin finished
  /\ finished' = finished \cup {running[p]}
  /\ running' = [running EXCEPT ![p] = None]
  /\ UNCHANGED <<pending, submitted>>

QueueNext ==
  \E p \in Port : Start(p) \/ Finish(p) \/ \E r \in Request : Submit(r, p)

QueueSpec == QueueInit /\ [][QueueNext]_queueVars

\* Every port keeps serving its queue.
QueueFairSpec ==
  QueueSpec /\ \A p \in Port : WF_queueVars(Start(p) \/ Finish(p))
=============================================================================
