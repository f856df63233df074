------------------------ MODULE DaemonCommandsProofs ------------------------
(***************************************************************************)
(* The safety properties of DaemonCommands for any number of invocations,  *)
(* devices and runtimes, and for any listing that DaemonCommandsAssumption *)
(* admits.  Everything rests on one fact: of the commands that have a      *)
(* device's port, queued ones included, only one is at work.               *)
(***************************************************************************)
EXTENDS DaemonCommands, TLAPS

Stages == {"idle", "start", "checked", "queued", "open", "staged", "backed up",
           "written", "removed", "done"}

\* The stages of an invocation that has the port open, that is in the
\* worker's hands if there is one, that has a device.
Holding == {"open", "staged", "backed up", "written", "removed"}
Served  == Holding \cup {"queued"}
Bound   == Served \cup {"checked"}

\* The values of the variables.  TypeOK says more of queues and ports.
Shape ==
  /\ ports \in Listings
  /\ request \in [Invocations -> ValidRequests \cup {None}]
  /\ stage \in [Invocations -> Stages]
  /\ outcome \in [Invocations -> {None, "ok", "error"}]
  /\ port \in [Invocations -> Ports \cup {None}]
  /\ compiled \in [Invocations -> Runtimes \cup {None}]
  /\ queue \in [Names -> Seq(Invocations)]
  /\ holder \in [Names -> Invocations \cup {Free, Daemon}]
  /\ device \in [Units -> Scripts]
  /\ staging \in Snapshot \cup {None}
  /\ backup \in Snapshot \cup {None}
  /\ frozen \in Runtimes \cup {None}
  /\ faults \in 0 .. MaxFaults
  /\ company \in [Invocations -> SUBSET Invocations]
  /\ due \in [Invocations -> BOOLEAN]
  /\ latest \in [unit : Units, ok : BOOLEAN] \cup {None}
  /\ origin \in [unit : Units, held : Scripts, alone : BOOLEAN] \cup {None}

\* An invocation past its checks has one of the devices that there are, and
\* did not ask for the list; what it has passed is known of its request.
RequestOf(i) ==
  /\ IF stage[i] = "idle" THEN request[i] = None
                          ELSE request[i] \in ValidRequests
  /\ port[i] # None => port[i] \in Normalize(Discover(ports))
  /\ stage[i] \in Bound =>
       /\ port[i] # None
       /\ request[i].kind # "list"
       /\ request[i].kind \in {"install", "upgrade"} =>
            request[i].runtime \in Runtimes
       /\ request[i].kind \in Curated => compiled[i] # None
  /\ stage[i] = "queued" => request[i].daemon
  /\ stage[i] \in {"staged", "backed up"} => request[i].kind = "install"
  /\ stage[i] = "written" => request[i].kind \in {"install", "upgrade", "repair"}
  /\ stage[i] = "removed" => request[i].kind = "remove"

RequestOK == \A i \in Invocations : RequestOf(i)

\* A queue holds what its worker has been sent, once each, and all but the
\* first wait.
Entry(n, k) ==
  LET i == queue[n][k] IN
  /\ stage[i] \in Served
  /\ request[i].daemon
  /\ port[i].name = n
  /\ k > 1 => stage[i] = "queued"
  /\ \A l \in 1 .. Len(queue[n]) : queue[n][l] = i => k = l

Entered(i) ==
  stage[i] \in Served /\ request[i].daemon =>
    \E k \in 1 .. Len(queue[port[i].name]) : queue[port[i].name][k] = i

QueueOK ==
  /\ \A n \in Names : \A k \in 1 .. Len(queue[n]) : Entry(n, k)
  /\ \A i \in Invocations : Entered(i)

\* A port is open for whoever holds it, and a cold run holds it only while
\* it is at work.
HolderOK ==
  /\ \A i \in Invocations : stage[i] \in Holding =>
       holder[port[i].name] = IF request[i].daemon THEN Daemon ELSE i
  /\ \A n \in Names, i \in Invocations : holder[n] = i =>
       stage[i] \in Holding /\ ~request[i].daemon /\ port[i].name = n
  /\ \A n \in Names : holder[n] = Daemon =>
       \E j \in Invocations : request[j] # None /\ request[j].daemon

\* Two invocations that run at the same time know of each other.
CompanyOK ==
  \A i \in Invocations :
    /\ \A j \in company[i] : stage[j] # "idle"
    /\ \A j \in Invocations \ {i} : Active(i) /\ Active(j) => j \in company[i]

\* What an invocation that nobody runs beside is due, at each stage, and what
\* it is answered.
DueOf(i) ==
  company[i] = {} =>
    /\ stage[i] = "start" => (due[i] <=> Deserves(request[i]))
    /\ stage[i] \in {"checked", "queued", "open"} =>
         (due[i] <=> CanCarryOut(request[i].kind, port[i].unit, request[i]))
    /\ stage[i] \in Holding \ {"open"} => due[i]
    /\ stage[i] = "staged" => staging # None
    /\ stage[i] = "written" /\ request[i].kind = "repair" => frozen # None
    /\ stage[i] = "done" =>
         \/ due[i] /\ outcome[i] = "ok"
         \/ ~due[i] /\ outcome[i] = "error"
         \/ /\ ~request[i].daemon
            /\ \E j \in Invocations \ {i} : request[j] # None /\ request[j].daemon

DueOK == \A i \in Invocations : DueOf(i)

\* The fields that a script was compiled from are those of the frozen runtime,
\* unless a runtime is being changed.
CompiledOK ==
  \A i \in Invocations :
    stage[i] \in Bound /\ request[i].kind \in Curated /\ Alone(i) =>
      compiled[i] = frozen

\* A device holds what was written to it, and what is frozen if the last
\* change was on it and went well.
WrittenOK ==
  /\ \A i \in Invocations : stage[i] = "written" =>
       /\ request[i].kind # "repair" => device[port[i].unit] = request[i].runtime
       /\ request[i].kind = "repair" /\ Alone(i) => device[port[i].unit] = frozen
  /\ \A u \in Units : latest = [unit |-> u, ok |-> TRUE] /\ frozen # None =>
       \/ device[u] = frozen
       \/ \E i \in Invocations :
            stage[i] \in {"written", "removed"} /\ port[i].unit = u

\* The backup is that of the last install, or will be once it is published,
\* if no other install ran beside it.
OriginOK ==
  origin # None /\ origin.alone =>
    LET taken == [unit |-> origin.unit, held |-> origin.held] IN
    /\ \A i \in Invocations : stage[i] = "staged" =>
         port[i].unit = origin.unit /\ staging = taken
    /\ (\A i \in Invocations : stage[i] # "staged") => backup = taken

IInv ==
  /\ Shape
  /\ RequestOK
  /\ QueueOK
  /\ HolderOK
  /\ CompanyOK
  /\ DueOK
  /\ CompiledOK
  /\ WrittenOK
  /\ OriginOK
  /\ RestoresOwnScripts

-----------------------------------------------------------------------------
(* The choice of a device                                                  *)

\* What is selected is one of the devices, or nothing.
LEMMA SelectFacts ==
  ASSUME NEW devices, NEW requested
  PROVE  Select(devices, requested) \in devices \cup {None}
<1> DEFINE matching == {d \in devices : requested \in {None, d.name}}
<1>1. CASE \E d \in matching : matching = {d}
  <2>1. (CHOOSE d \in matching : TRUE) \in matching
    BY <1>1
  <2>2. QED
    BY <1>1, <2>1 DEF Select
<1>2. CASE ~\E d \in matching : matching = {d}
  BY <1>2 DEF Select
<1>3. QED
  BY <1>1, <1>2

\* A device that is there has one name that is not dropped for a better one.
LEMMA NormalizedName ==
  ASSUME ports \in Listings,
         NEW p \in Normalize(Discover(ports)),
         NEW q \in Normalize(Discover(ports)),
         p.unit = q.unit
  PROVE  p.name = q.name
<1>1. p \in Discover(ports) /\ q \in Discover(ports)
  BY DEF Normalize
<1>2. SUFFICES ASSUME p.name # q.name  PROVE FALSE
  OBVIOUS
<1>3. AreAliases(p, q) /\ AreAliases(q, p) /\ Rank(p) # Rank(q)
  BY <1>1, <1>2, DaemonCommandsAssumption DEF AreAliases
<1>4. Rank(p) \in Nat /\ Rank(q) \in Nat
  BY DEF Rank
<1>5. Rank(p) <= Rank(q) /\ Rank(q) <= Rank(p)
  BY <1>1, <1>3, <1>4 DEF Normalize
<1>6. QED
  BY <1>3, <1>4, <1>5

\* A device that is there can be opened by its name.
LEMMA NormalizedPort ==
  ASSUME ports \in Listings, NEW p \in Normalize(Discover(ports))
  PROVE  /\ p \in Ports /\ p # None
         /\ p.name \in Names
         /\ p.unit \in Units
<1>1. p \in Discover(ports)
  BY DEF Normalize
<1>2. p \in Range(ports)
  BY <1>1 DEF Discover
<1>3. p \in Ports
  BY <1>2 DEF Ports
<1>4. p.unit \in Units
  BY <1>1, DaemonCommandsAssumption
<1>5. QED
  BY <1>3, <1>4, DaemonCommandsAssumption DEF Names

-----------------------------------------------------------------------------
(* Queues and ports                                                        *)

\* What is left of a queue when its first is taken.
LEMMA TailFacts ==
  ASSUME NEW S, NEW q \in Seq(S), q # <<>>
  PROVE  /\ Tail(q) \in Seq(S)
         /\ Len(q) \in Nat \ {0} /\ Len(Tail(q)) = Len(q) - 1
         /\ Head(q) = q[1]
         /\ \A k \in 1 .. Len(Tail(q)) : Tail(q)[k] = q[k + 1]
  OBVIOUS

\* What a queue holds when one has joined it.
LEMMA AppendFacts ==
  ASSUME NEW S, NEW q \in Seq(S), NEW x \in S
  PROVE  /\ Append(q, x) \in Seq(S)
         /\ Len(q) \in Nat /\ Len(Append(q, x)) = Len(q) + 1
         /\ Append(q, x)[Len(q) + 1] = x
         /\ \A k \in 1 .. Len(q) : Append(q, x)[k] = q[k]
  OBVIOUS

\* The port of an invocation past its checks.
LEMMA BoundPort ==
  ASSUME Shape, RequestOK, NEW i \in Invocations, stage[i] \in Bound
  PROVE  /\ port[i] \in Normalize(Discover(ports))
         /\ port[i].name \in Names
         /\ port[i].unit \in Units
         /\ request[i] \in ValidRequests
<1>1. port[i] \in Normalize(Discover(ports))
  BY DEF RequestOK, RequestOf
<1>2. request[i] \in ValidRequests
  BY DEF RequestOK, RequestOf, Bound, Served, Holding
<1>3. QED
  BY <1>1, <1>2, NormalizedPort DEF Shape

\* The one at work is the first in its queue.
LEMMA FirstInQueue ==
  ASSUME Shape, RequestOK, QueueOK, NEW i \in Invocations,
         stage[i] \in Holding, request[i].daemon
  PROVE  /\ queue[port[i].name] # <<>>
         /\ queue[port[i].name][1] = i
         /\ Head(queue[port[i].name]) = i
<1> DEFINE n == port[i].name
<1>1. n \in Names
  BY BoundPort DEF Bound, Served
<1>2. queue[n] \in Seq(Invocations)
  BY <1>1 DEF Shape
<1>3. PICK k \in 1 .. Len(queue[n]) : queue[n][k] = i
  BY DEF QueueOK, Entered, Served
<1>4. ~(k > 1)
  <2>1. k > 1 => stage[i] = "queued"
    BY <1>1, <1>3 DEF QueueOK, Entry
  <2>2. QED
    BY <2>1 DEF Holding
<1>5. QED
  BY <1>2, <1>3, <1>4

\* Only one invocation is at work on a device.
LEMMA Exclusion ==
  ASSUME Shape, RequestOK, QueueOK, HolderOK,
         NEW i \in Invocations, NEW j \in Invocations,
         stage[i] \in Holding, stage[j] \in Holding,
         port[i].unit = port[j].unit
  PROVE  i = j
<1>1. port[i].name = port[j].name
  BY BoundPort, NormalizedName DEF Bound, Served, Shape
<1>2. /\ holder[port[i].name] = IF request[i].daemon THEN Daemon ELSE i
      /\ holder[port[i].name] = IF request[j].daemon THEN Daemon ELSE j
  BY <1>1 DEF HolderOK
<1>3. CASE request[i].daemon /\ request[j].daemon
  BY <1>1, <1>3, FirstInQueue
<1>4. CASE ~(request[i].daemon /\ request[j].daemon)
  BY <1>2, <1>4, DaemonCommandsAssumption
<1>5. QED
  BY <1>3, <1>4

\* An invocation that gives its port back leaves the others in order.
LEMMA EndKeepsOrder ==
  ASSUME IInv, NEW i \in Invocations, NEW verdict, End(i, verdict),
         UNCHANGED <<request, port>>,
         \/ stage[i] \in Holding
         \/ stage[i] = "queued" /\ Head(queue[port[i].name]) = i
  PROVE  /\ queue' \in [Names -> Seq(Invocations)]
         /\ holder' \in [Names -> Invocations \cup {Free, Daemon}]
         /\ QueueOK' /\ HolderOK'
<1> DEFINE n == port[i].name
<1> USE DEF IInv
<1>1. n \in Names /\ stage[i] \in Served
  BY BoundPort DEF Bound, Served
<1>2. queue[n] \in Seq(Invocations)
  BY <1>1 DEF Shape
<1>3. /\ stage' = [stage EXCEPT ![i] = "done"]
      /\ request' = request /\ port' = port
      /\ queue' = IF request[i].daemon THEN [queue EXCEPT ![n] = Tail(queue[n])]
                                       ELSE queue
      /\ holder' = IF request[i].daemon THEN holder
                                        ELSE [holder EXCEPT ![n] = Free]
  BY DEF End, Finish, LetGo
<1> HIDE DEF IInv
<1>4. CASE request[i].daemon
  <2>1. queue[n] # <<>> /\ Head(queue[n]) = i
    <3>1. CASE stage[i] \in Holding
      BY <1>4, <3>1, FirstInQueue DEF IInv
    <3>2. CASE stage[i] = "queued" /\ Head(queue[n]) = i
      <4>1. \E k \in 1 .. Len(queue[n]) : queue[n][k] = i
        BY <1>1, <1>4 DEF IInv, QueueOK, Entered
      <4>2. QED
        BY <1>2, <3>2, <4>1
    <3>3. QED
      BY <3>1, <3>2
  <2>2. /\ Tail(queue[n]) \in Seq(Invocations)
        /\ Len(queue[n]) \in Nat \ {0} /\ Len(Tail(queue[n])) = Len(queue[n]) - 1
        /\ queue[n][1] = i
        /\ \A k \in 1 .. Len(Tail(queue[n])) : Tail(queue[n])[k] = queue[n][k + 1]
    BY <1>2, <2>1, TailFacts
  <2>3. /\ queue'[n] = Tail(queue[n])
        /\ \A m \in Names \ {n} : queue'[m] = queue[m]
        /\ holder' = holder
        /\ stage'[i] = "done"
        /\ \A j \in Invocations \ {i} : stage'[j] = stage[j]
        /\ queue' \in [Names -> Seq(Invocations)]
    BY <1>1, <1>3, <1>4, <2>2 DEF IInv, Shape
  <2>4. ASSUME NEW m \in Names, NEW k \in 1 .. Len(queue'[m])
        PROVE  Entry(m, k)'
    <3>1. CASE m = n
      <4>1. \A l \in 1 .. Len(queue'[n]) :
              /\ l + 1 \in 1 .. Len(queue[n])
              /\ l + 1 > 1
              /\ queue'[n][l] = queue[n][l + 1]
        BY <2>2, <2>3
      <4>2. Entry(n, k + 1) /\ queue'[n][k] = queue[n][k + 1]
        BY <1>1, <2>4, <3>1, <4>1 DEF IInv, QueueOK
      <4>3. queue[n][k + 1] \in Invocations
        BY <1>2, <2>4, <3>1, <4>1
      <4>4. queue[n][k + 1] # i
        BY <2>2, <2>4, <3>1, <4>1, <4>2 DEF Entry
      <4>5. \A l \in 1 .. Len(queue'[n]) :
              queue'[n][l] = queue[n][k + 1] => k = l
        BY <2>4, <3>1, <4>1, <4>2 DEF Entry
      <4>6. stage[queue[n][k + 1]] = "queued"
        BY <2>4, <3>1, <4>1, <4>2 DEF Entry
      <4>7. QED
        BY <1>3, <2>3, <3>1, <4>2, <4>3, <4>4, <4>5, <4>6 DEF Entry
    <3>2. CASE m # n
      <4>1. queue'[m] = queue[m] /\ queue[m] \in Seq(Invocations) /\ Entry(m, k)
        BY <2>3, <2>4, <3>2 DEF IInv, Shape, QueueOK
      <4>2. queue[m][k] \in Invocations \ {i}
        BY <2>4, <3>2, <4>1 DEF Entry
      <4>3. QED
        BY <1>3, <2>3, <4>1, <4>2 DEF Entry
    <3>3. QED
      BY <3>1, <3>2
  <2>5. ASSUME NEW j \in Invocations  PROVE Entered(j)'
    <3>1. SUFFICES ASSUME stage'[j] \in Served, request[j].daemon
                   PROVE  \E k \in 1 .. Len(queue'[port[j].name]) :
                            queue'[port[j].name][k] = j
      BY <1>3 DEF Entered
    <3>2. j # i /\ stage[j] \in Served
      BY <2>3, <3>1 DEF Served, Holding
    <3>3. port[j].name \in Names
      BY <3>2, BoundPort DEF Bound, IInv
    <3>4. PICK k \in 1 .. Len(queue[port[j].name]) : queue[port[j].name][k] = j
      BY <3>1, <3>2 DEF IInv, QueueOK, Entered
    <3>5. CASE port[j].name = n
      <4>1. k # 1
        BY <2>2, <3>2, <3>4, <3>5
      <4>2. k - 1 \in 1 .. Len(Tail(queue[n])) /\ Tail(queue[n])[k - 1] = j
        BY <2>2, <3>4, <3>5, <4>1
      <4>3. QED
        BY <2>3, <3>5, <4>2
    <3>6. CASE port[j].name # n
      BY <2>3, <3>3, <3>4, <3>6
    <3>7. QED
      BY <3>5, <3>6
  <2>6. QueueOK'
    BY <2>4, <2>5 DEF QueueOK
  <2>7. HolderOK'
    <3>1. \A j \in Invocations : stage'[j] \in Holding => stage[j] \in Holding
      BY <2>3 DEF Holding
    <3>2. \A m \in Names : holder[m] # i
      BY <1>4 DEF IInv, HolderOK
    <3>3. QED
      BY <1>3, <2>3, <3>1, <3>2 DEF IInv, HolderOK
  <2>8. QED
    BY <2>3, <2>6, <2>7 DEF IInv, Shape
<1>5. CASE ~request[i].daemon
  <2>1. queue' = queue /\ holder' = [holder EXCEPT ![n] = Free]
    BY <1>3, <1>5
  <2>2. stage[i] \in Holding
    BY <1>5 DEF IInv, RequestOK, RequestOf
  <2>3. holder[n] = i
    BY <1>5, <2>2 DEF IInv, HolderOK
  <2>4. QueueOK'
    <3>1. ASSUME NEW m \in Names, NEW k \in 1 .. Len(queue[m])
          PROVE  Entry(m, k)'
      <4>1. Entry(m, k) /\ queue[m][k] \in Invocations
        BY <3>1 DEF IInv, Shape, QueueOK
      <4>2. queue[m][k] # i
        BY <1>5, <4>1 DEF Entry
      <4>3. QED
        BY <1>3, <2>1, <4>1, <4>2 DEF IInv, Shape, Entry
    <3>2. ASSUME NEW j \in Invocations  PROVE Entered(j)'
      BY <1>3, <1>5, <2>1 DEF IInv, Shape, QueueOK, Entered
    <3>3. QED
      BY <2>1, <3>1, <3>2 DEF QueueOK
  <2>5. HolderOK'
    <3>1. ASSUME NEW j \in Invocations, stage'[j] \in Holding
          PROVE  holder'[port[j].name] = IF request[j].daemon THEN Daemon ELSE j
      <4>1. j # i /\ stage[j] \in Holding
        BY <1>3, <3>1 DEF IInv, Shape, Holding
      <4>2. holder[port[j].name] = IF request[j].daemon THEN Daemon ELSE j
        BY <4>1 DEF IInv, HolderOK
      <4>3. port[j].name # n
        BY <2>3, <4>1, <4>2, DaemonCommandsAssumption
      <4>4. port[j].name \in Names
        BY <4>1, BoundPort DEF IInv, Bound, Served
      <4>5. QED
        BY <1>1, <2>1, <4>2, <4>3, <4>4 DEF IInv, Shape
    <3>2. ASSUME NEW m \in Names, NEW j \in Invocations, holder'[m] = j
          PROVE  stage'[j] \in Holding /\ ~request[j].daemon /\ port[j].name = m
      <4>1. holder[m] = j /\ m # n
        BY <1>1, <2>1, <3>2, DaemonCommandsAssumption DEF IInv, Shape
      <4>2. stage[j] \in Holding /\ ~request[j].daemon /\ port[j].name = m
        BY <4>1 DEF IInv, HolderOK
      <4>3. QED
        BY <1>3, <4>1, <4>2 DEF IInv, Shape
    <3>3. ASSUME NEW m \in Names, holder'[m] = Daemon
          PROVE  \E j \in Invocations : request[j] # None /\ request[j].daemon
      BY <1>1, <2>1, <3>3, DaemonCommandsAssumption DEF IInv, Shape, HolderOK
    <3>4. QED
      BY <1>3, <3>1, <3>2, <3>3 DEF HolderOK
  <2>6. QED
    BY <1>1, <2>1, <2>4, <2>5 DEF IInv, Shape
<1>6. QED
  BY <1>4, <1>5

\* An invocation that goes on with its port leaves the others in order.
LEMMA GoOnKeepsOrder ==
  ASSUME IInv, NEW i \in Invocations, stage[i] \in Holding,
         NEW next \in Holding, GoesOn(i, next),
         UNCHANGED <<request, port, queue, holder>>
  PROVE  QueueOK' /\ HolderOK'
<1>1. stage' = [stage EXCEPT ![i] = next]
  BY DEF GoesOn
<1>2. ASSUME NEW m \in Names, NEW k \in 1 .. Len(queue[m])  PROVE Entry(m, k)'
  <2>1. Entry(m, k) /\ queue[m][k] \in Invocations
    BY <1>2 DEF IInv, Shape, QueueOK
  <2>2. k > 1 => queue[m][k] # i
    BY <2>1 DEF Entry, Holding
  <2>3. QED
    BY <1>1, <2>1, <2>2 DEF IInv, Shape, Entry, Served
<1>3. ASSUME NEW j \in Invocations  PROVE Entered(j)'
  BY <1>1 DEF IInv, Shape, QueueOK, Entered, Served
<1>4. HolderOK'
  BY <1>1 DEF IInv, Shape, HolderOK
<1>5. QED
  BY <1>2, <1>3, <1>4 DEF QueueOK

\* An invocation that is not served, before or after, changes no queue.
LEMMA OutsideKeepsOrder ==
  ASSUME IInv, NEW i \in Invocations, NEW s, NEW r, NEW p,
         stage[i] \notin Served, s \notin Served,
         stage' = [stage EXCEPT ![i] = s],
         request' = [request EXCEPT ![i] = r],
         port' = [port EXCEPT ![i] = p],
         request[i] = None \/ r = request[i],
         UNCHANGED <<queue, holder>>
  PROVE  QueueOK' /\ HolderOK'
<1>1. ASSUME NEW m \in Names, NEW k \in 1 .. Len(queue[m])  PROVE Entry(m, k)'
  <2>1. Entry(m, k) /\ queue[m][k] \in Invocations
    BY <1>1 DEF IInv, Shape, QueueOK
  <2>2. queue[m][k] # i
    BY <2>1 DEF Entry
  <2>3. QED
    BY <2>1, <2>2 DEF IInv, Shape, Entry
<1>2. ASSUME NEW j \in Invocations  PROVE Entered(j)'
  BY DEF IInv, Shape, QueueOK, Entered
<1>3. HolderOK'
  <2>1. i \notin {j \in Invocations : stage[j] \in Holding \/ stage'[j] \in Holding}
    BY DEF IInv, Shape, Served
  <2>2. \A j \in Invocations \ {i} :
          stage'[j] = stage[j] /\ request'[j] = request[j] /\ port'[j] = port[j]
    BY DEF IInv, Shape
  <2>3. \A j \in Invocations : stage'[j] \in Holding =>
          holder'[port'[j].name] = IF request'[j].daemon THEN Daemon ELSE j
    BY <2>1, <2>2 DEF IInv, HolderOK
  <2>4. \A m \in Names, j \in Invocations : holder'[m] = j =>
          stage'[j] \in Holding /\ ~request'[j].daemon /\ port'[j].name = m
    BY <2>1, <2>2 DEF IInv, HolderOK
  <2>5. \A m \in Names : holder'[m] = Daemon =>
          \E j \in Invocations : request'[j] # None /\ request'[j].daemon
    <3>1. \A j \in Invocations : request[j] # None => request'[j] = request[j]
      BY <2>2 DEF IInv, Shape
    <3>2. QED
      BY <3>1 DEF IInv, HolderOK
  <2>6. QED
    BY <2>3, <2>4, <2>5 DEF HolderOK
<1>4. QED
  BY <1>1, <1>2, <1>3 DEF QueueOK

\* A request joins the queue of its port.
LEMMA EnqueueKeepsOrder ==
  ASSUME IInv, NEW i \in Invocations, Enqueue(i)
  PROVE  /\ queue' \in [Names -> Seq(Invocations)]
         /\ QueueOK' /\ HolderOK'
<1> DEFINE n == port[i].name
<1>1. /\ stage[i] = "checked" /\ request[i].daemon
      /\ queue' = [queue EXCEPT ![n] = Append(queue[n], i)]
      /\ stage' = [stage EXCEPT ![i] = "queued"]
      /\ request' = request /\ port' = port /\ holder' = holder
  BY DEF Enqueue
<1>2. n \in Names
  BY <1>1, BoundPort DEF IInv, Bound
<1>3. queue[n] \in Seq(Invocations)
  BY <1>2 DEF IInv, Shape
<1>4. /\ Append(queue[n], i) \in Seq(Invocations)
      /\ Len(queue[n]) \in Nat /\ Len(Append(queue[n], i)) = Len(queue[n]) + 1
      /\ Append(queue[n], i)[Len(queue[n]) + 1] = i
      /\ \A k \in 1 .. Len(queue[n]) : Append(queue[n], i)[k] = queue[n][k]
  BY <1>3, AppendFacts
<1>5. /\ queue' \in [Names -> Seq(Invocations)]
      /\ queue'[n] = Append(queue[n], i)
      /\ \A m \in Names \ {n} : queue'[m] = queue[m]
  BY <1>1, <1>2, <1>4 DEF IInv, Shape
<1>6. \A m \in Names : \A k \in 1 .. Len(queue[m]) :
        queue[m][k] \in Invocations \ {i} /\ Entry(m, k)
  <2>1. ASSUME NEW m \in Names, NEW k \in 1 .. Len(queue[m])
        PROVE  queue[m][k] \in Invocations /\ Entry(m, k)
    BY <2>1 DEF IInv, Shape, QueueOK
  <2>2. QED
    BY <1>1, <2>1 DEF Entry, Served, Holding
<1>7. ASSUME NEW m \in Names, NEW k \in 1 .. Len(queue'[m])  PROVE Entry(m, k)'
  <2>1. CASE m # n
    BY <1>1, <1>5, <1>6, <1>7, <2>1 DEF IInv, Shape, Entry
  <2>2. CASE m = n /\ k = Len(queue[n]) + 1
    <3>1. queue'[n][k] = i
      BY <1>4, <1>5, <2>2
    <3>2. \A l \in 1 .. Len(queue'[n]) : queue'[n][l] = i => k = l
      BY <1>2, <1>4, <1>5, <1>6, <2>2
    <3>3. /\ stage'[i] \in Served /\ stage'[i] = "queued"
          /\ request'[i].daemon /\ port'[i].name = n
      BY <1>1 DEF IInv, Shape, Served
    <3>4. QED
      BY <2>2, <3>1, <3>2, <3>3 DEF Entry
  <2>3. CASE m = n /\ k # Len(queue[n]) + 1
    <3>1. k \in 1 .. Len(queue[n])
      BY <1>4, <1>5, <1>7, <2>3
    <3>2. Entry(n, k) /\ queue'[n][k] = queue[n][k] /\ queue[n][k] \in Invocations \ {i}
      BY <1>2, <1>4, <1>5, <1>6, <3>1
    <3>3. \A l \in 1 .. Len(queue'[n]) : queue'[n][l] = queue[n][k] => k = l
      <4>1. ASSUME NEW l \in 1 .. Len(queue'[n]), queue'[n][l] = queue[n][k]
            PROVE  k = l
        <5>1. l # Len(queue[n]) + 1
          BY <1>4, <1>5, <3>2, <4>1
        <5>2. l \in 1 .. Len(queue[n]) /\ queue[n][l] = queue[n][k]
          BY <1>4, <1>5, <4>1, <5>1
        <5>3. QED
          BY <3>2, <5>2 DEF Entry
      <4>2. QED
        BY <4>1
    <3>4. QED
      BY <1>1, <2>3, <3>2, <3>3 DEF IInv, Shape, Entry
  <2>4. QED
    BY <2>1, <2>2, <2>3
<1>8. ASSUME NEW j \in Invocations  PROVE Entered(j)'
  <2>1. SUFFICES ASSUME stage'[j] \in Served, request[j].daemon
                 PROVE  \E k \in 1 .. Len(queue'[port[j].name]) :
                          queue'[port[j].name][k] = j
    BY <1>1 DEF Entered
  <2>2. CASE j = i
    BY <1>4, <1>5, <2>2
  <2>3. CASE j # i
    <3>1. stage[j] \in Served
      BY <1>1, <2>1, <2>3 DEF IInv, Shape
    <3>2. port[j].name \in Names
      BY <3>1, BoundPort DEF IInv, Bound
    <3>3. PICK k \in 1 .. Len(queue[port[j].name]) : queue[port[j].name][k] = j
      BY <2>1, <3>1 DEF IInv, QueueOK, Entered
    <3>4. CASE port[j].name = n
      <4>1. k \in 1 .. Len(queue[n]) /\ queue[n][k] = j
        BY <3>3, <3>4
      <4>2. k \in 1 .. Len(queue'[n]) /\ queue'[n][k] = j
        BY <1>4, <1>5, <4>1
      <4>3. QED
        BY <3>4, <4>2
    <3>5. CASE port[j].name # n
      BY <1>5, <3>2, <3>3, <3>5
    <3>6. QED
      BY <3>4, <3>5
  <2>4. QED
    BY <2>2, <2>3
<1>9. HolderOK'
  <2>1. \A j \in Invocations : stage'[j] \in Holding <=> stage[j] \in Holding
    BY <1>1 DEF IInv, Shape, Holding
  <2>2. QED
    BY <1>1, <2>1 DEF IInv, HolderOK
<1>10. QED
  BY <1>5, <1>7, <1>8, <1>9 DEF QueueOK

\* The worker opens the port for the first in its queue, or turns it away.
LEMMA ServeKeepsOrder ==
  ASSUME IInv, NEW i \in Invocations, Serve(i)
  PROVE  /\ queue' \in [Names -> Seq(Invocations)]
         /\ holder' \in [Names -> Invocations \cup {Free, Daemon}]
         /\ QueueOK' /\ HolderOK'
<1> DEFINE n == port[i].name
<1>1. /\ stage[i] = "queued" /\ Head(queue[n]) = i
      /\ request' = request /\ port' = port
  BY DEF Serve
<1>2. n \in Names /\ request[i] \in ValidRequests /\ request[i].daemon
  BY <1>1, BoundPort DEF IInv, Bound, Served, RequestOK, RequestOf
<1>3. CASE holder[n] \in {Free, Daemon}
  <2>1. /\ holder' = [holder EXCEPT ![n] = Daemon]
        /\ stage' = [stage EXCEPT ![i] = "open"]
        /\ queue' = queue
    BY <1>3 DEF Serve
  <2>2. queue[n] # <<>> /\ queue[n] \in Seq(Invocations)
    BY <1>1, <1>2 DEF IInv, Shape, QueueOK, Entered, Served
  <2>3. 1 \in 1 .. Len(queue[n]) /\ queue[n][1] = i
    BY <1>1, <2>2
  <2>4. ASSUME NEW m \in Names, NEW k \in 1 .. Len(queue[m])  PROVE Entry(m, k)'
    <3>1. Entry(m, k) /\ queue[m][k] \in Invocations
      BY <2>4 DEF IInv, Shape, QueueOK
    <3>2. queue[m][k] = i => k = 1
      BY <2>3, <3>1 DEF Entry
    <3>3. queue[m][k] # i => stage'[queue[m][k]] = stage[queue[m][k]]
      BY <2>1, <3>1 DEF IInv, Shape
    <3>4. stage'[i] = "open"
      BY <2>1 DEF IInv, Shape
    <3>5. CASE queue[m][k] = i
      <4>1. k = 1 /\ stage'[i] \in Served
        BY <3>2, <3>4, <3>5 DEF Served, Holding
      <4>2. ~(k > 1)
        BY <4>1
      <4>3. QED
        BY <1>1, <2>1, <3>1, <3>5, <4>1, <4>2 DEF Entry
    <3>6. CASE queue[m][k] # i
      BY <1>1, <2>1, <3>1, <3>3, <3>6 DEF Entry
    <3>7. QED
      BY <3>5, <3>6
  <2>5. ASSUME NEW j \in Invocations  PROVE Entered(j)'
    BY <1>1, <2>1 DEF IInv, Shape, QueueOK, Entered, Served
  <2>6. ASSUME NEW j \in Invocations, stage'[j] \in Holding
        PROVE  holder'[port[j].name] = IF request[j].daemon THEN Daemon ELSE j
    <3>1. CASE j = i
      BY <1>2, <2>1, <3>1 DEF IInv, Shape
    <3>2. CASE j # i
      <4>1. stage[j] \in Holding
        BY <2>1, <2>6, <3>2 DEF IInv, Shape
      <4>2. holder[port[j].name] = IF request[j].daemon THEN Daemon ELSE j
        BY <4>1 DEF IInv, HolderOK
      <4>3. port[j].name \in Names
        BY <4>1, BoundPort DEF IInv, Bound, Served
      <4>4. port[j].name = n => request[j].daemon
        BY <1>3, <4>2, DaemonCommandsAssumption
      <4>5. QED
        BY <1>2, <2>1, <4>2, <4>3, <4>4 DEF IInv, Shape
    <3>3. QED
      BY <3>1, <3>2
  <2>7. ASSUME NEW m \in Names, NEW j \in Invocations, holder'[m] = j
        PROVE  stage'[j] \in Holding /\ ~request[j].daemon /\ port[j].name = m
    <3>1. holder[m] = j
      BY <1>2, <2>1, <2>7, DaemonCommandsAssumption DEF IInv, Shape
    <3>2. stage[j] \in Holding /\ ~request[j].daemon /\ port[j].name = m
      BY <3>1 DEF IInv, HolderOK
    <3>3. QED
      BY <1>2, <2>1, <3>2 DEF IInv, Shape
  <2>8. \E j \in Invocations : request[j] # None /\ request[j].daemon
    BY <1>2, DaemonCommandsAssumption
  <2>9. HolderOK'
    BY <1>1, <2>6, <2>7, <2>8 DEF HolderOK
  <2>10. QED
    BY <1>2, <2>1, <2>4, <2>5, <2>9 DEF IInv, Shape, QueueOK
<1>4. CASE holder[n] \notin {Free, Daemon}
  <2>1. End(i, "error")
    BY <1>4 DEF Serve
  <2>2. QED
    BY <1>1, <2>1, EndKeepsOrder
<1>5. QED
  BY <1>3, <1>4

\* A cold run opens a port that nobody has.
LEMMA OpenColdKeepsOrder ==
  ASSUME IInv, NEW i \in Invocations, OpenCold(i)
  PROVE  /\ holder' \in [Names -> Invocations \cup {Free, Daemon}]
         /\ QueueOK' /\ HolderOK'
<1> DEFINE n == port[i].name
<1>1. /\ stage[i] = "checked" /\ ~request[i].daemon
      /\ request' = request /\ port' = port /\ queue' = queue
  BY DEF OpenCold
<1>2. n \in Names
  BY <1>1, BoundPort DEF IInv, Bound
<1>3. CASE holder[n] = Free
  <2>1. /\ holder' = [holder EXCEPT ![n] = i]
        /\ stage' = [stage EXCEPT ![i] = "open"]
    BY <1>3 DEF OpenCold
  <2>2. ASSUME NEW m \in Names, NEW k \in 1 .. Len(queue[m])  PROVE Entry(m, k)'
    <3>1. Entry(m, k) /\ queue[m][k] \in Invocations
      BY <2>2 DEF IInv, Shape, QueueOK
    <3>2. queue[m][k] # i
      BY <1>1, <3>1 DEF Entry
    <3>3. QED
      BY <1>1, <2>1, <3>1, <3>2 DEF IInv, Shape, Entry
  <2>3. ASSUME NEW j \in Invocations  PROVE Entered(j)'
    BY <1>1, <2>1 DEF IInv, Shape, QueueOK, Entered
  <2>4. ASSUME NEW j \in Invocations, stage'[j] \in Holding
        PROVE  holder'[port[j].name] = IF request[j].daemon THEN Daemon ELSE j
    <3>1. CASE j = i
      BY <1>1, <1>2, <2>1, <3>1 DEF IInv, Shape
    <3>2. CASE j # i
      <4>1. stage[j] \in Holding
        BY <2>1, <2>4, <3>2 DEF IInv, Shape
      <4>2. holder[port[j].name] = IF request[j].daemon THEN Daemon ELSE j
        BY <4>1 DEF IInv, HolderOK
      <4>3. port[j].name \in Names
        BY <4>1, BoundPort DEF IInv, Bound, Served
      <4>4. port[j].name # n
        BY <1>3, <4>2, DaemonCommandsAssumption
      <4>5. QED
        BY <2>1, <4>2, <4>3, <4>4 DEF IInv, Shape
    <3>3. QED
      BY <3>1, <3>2
  <2>5. ASSUME NEW m \in Names, NEW j \in Invocations, holder'[m] = j
        PROVE  stage'[j] \in Holding /\ ~request[j].daemon /\ port[j].name = m
    <3>1. CASE m = n
      BY <1>1, <1>2, <2>1, <2>5, <3>1 DEF IInv, Shape, Holding
    <3>2. CASE m # n
      <4>1. holder[m] = j
        BY <2>1, <2>5, <3>2 DEF IInv, Shape
      <4>2. stage[j] \in Holding /\ ~request[j].daemon /\ port[j].name = m
        BY <4>1 DEF IInv, HolderOK
      <4>3. j # i
        BY <1>1, <4>2 DEF Holding
      <4>4. QED
        BY <2>1, <4>2, <4>3 DEF IInv, Shape
    <3>3. QED
      BY <3>1, <3>2
  <2>6. ASSUME NEW m \in Names, holder'[m] = Daemon
        PROVE  \E j \in Invocations : request[j] # None /\ request[j].daemon
    BY <1>2, <2>1, <2>6, DaemonCommandsAssumption DEF IInv, Shape, HolderOK
  <2>7. HolderOK'
    BY <1>1, <2>4, <2>5, <2>6 DEF HolderOK
  <2>8. QED
    BY <1>1, <1>2, <2>1, <2>2, <2>3, <2>7 DEF IInv, Shape, QueueOK
<1>4. CASE holder[n] # Free
  <2>1. stage' = [stage EXCEPT ![i] = "done"] /\ holder' = holder
    BY <1>4 DEF OpenCold, Finish
  <2>2. request' = [request EXCEPT ![i] = request[i]]
        /\ port' = [port EXCEPT ![i] = port[i]]
    BY <1>1 DEF IInv, Shape
  <2>3. stage[i] \notin Served /\ "done" \notin Served
    BY <1>1 DEF Served, Holding
  <2>4. QED
    BY <1>1, <2>1, <2>2, <2>3, OutsideKeepsOrder DEF IInv, Shape
<1>5. QED
  BY <1>3, <1>4

\* The worker drops a port that it has nothing to do with.
LEMMA IdleTimeoutKeepsOrder ==
  ASSUME IInv, NEW n \in Names, IdleTimeout(n)
  PROVE  /\ holder' \in [Names -> Invocations \cup {Free, Daemon}]
         /\ QueueOK' /\ HolderOK'
<1>1. /\ holder[n] = Daemon /\ queue[n] = <<>>
      /\ holder' = [holder EXCEPT ![n] = Free]
      /\ request' = request /\ stage' = stage /\ port' = port /\ queue' = queue
  BY DEF IdleTimeout
<1>2. QueueOK'
  BY <1>1 DEF IInv, QueueOK, Entry, Entered
<1>3. ASSUME NEW j \in Invocations, stage[j] \in Holding
      PROVE  holder'[port[j].name] = IF request[j].daemon THEN Daemon ELSE j
  <2>1. holder[port[j].name] = IF request[j].daemon THEN Daemon ELSE j
    BY <1>3 DEF IInv, HolderOK
  <2>2. request[j].daemon => queue[port[j].name] # <<>>
    BY <1>3, FirstInQueue DEF IInv
  <2>3. port[j].name # n
    BY <1>1, <2>1, <2>2, DaemonCommandsAssumption
  <2>4. port[j].name \in Names
    BY <1>3, BoundPort DEF IInv, Bound, Served
  <2>5. QED
    BY <1>1, <2>1, <2>3, <2>4 DEF IInv, Shape
<1>4. ASSUME NEW m \in Names, NEW j \in Invocations, holder'[m] = j
      PROVE  stage[j] \in Holding /\ ~request[j].daemon /\ port[j].name = m
  BY <1>1, <1>4, DaemonCommandsAssumption DEF IInv, Shape, HolderOK
<1>5. ASSUME NEW m \in Names, holder'[m] = Daemon
      PROVE  \E j \in Invocations : request[j] # None /\ request[j].daemon
  BY <1>1, <1>5, DaemonCommandsAssumption DEF IInv, Shape, HolderOK
<1>6. HolderOK'
  BY <1>1, <1>3, <1>4, <1>5 DEF HolderOK
<1>7. QED
  BY <1>1, <1>2, <1>6 DEF IInv, Shape

-----------------------------------------------------------------------------
(* Steps                                                                   *)

\* What an invocation does after it has been given.
Step(i) ==
  \/ Check(i) \/ Enqueue(i) \/ Serve(i) \/ OpenCold(i)
  \/ Answer(i) \/ Send(i)
  \/ Stage(i) \/ Publish(i) \/ Provision(i) \/ Breaks(i) \/ Freeze(i)
  \/ RemoveRuntime(i) \/ Forget(i)

\* What all steps have in common: they move one invocation that is running,
\* and no request.
LEMMA StepFrame ==
  ASSUME IInv, NEW i \in Invocations, Step(i)
  PROVE  /\ ports' = ports /\ request' = request /\ company' = company
         /\ Active(i)
         /\ stage' \in [Invocations -> Stages]
         /\ stage'[i] \notin {"idle", "start"}
         /\ outcome' \in [Invocations -> {None, "ok", "error"}]
         /\ \A j \in Invocations \ {i} :
              /\ stage'[j] = stage[j] /\ outcome'[j] = outcome[j]
              /\ port'[j] = port[j] /\ compiled'[j] = compiled[j]
              /\ due'[j] = due[j]
<1> USE DEF IInv, Shape, Stages, Active
<1>1. CASE Check(i)
  BY <1>1 DEF Check, Finish
<1>2. CASE Enqueue(i)
  BY <1>2 DEF Enqueue
<1>3. CASE Serve(i)
  BY <1>3 DEF Serve, End, Finish
<1>4. CASE OpenCold(i)
  BY <1>4 DEF OpenCold, Finish
<1>5. CASE Answer(i)
  BY <1>5 DEF Answer, End, Finish
<1>6. CASE Send(i)
  BY <1>6 DEF Send, Starts, End, Finish
<1>7. CASE Stage(i)
  BY <1>7 DEF Stage, Starts, GoesOn
<1>8. CASE Publish(i)
  BY <1>8 DEF Publish, GoesOn, End, Finish
<1>9. CASE Provision(i)
  BY <1>9 DEF Provision, ReadyToWrite, Starts, GoesOn
<1>10. CASE Breaks(i)
  BY <1>10 DEF Breaks, ReadyToWrite, Starts, End, Finish
<1>11. CASE Freeze(i)
  BY <1>11 DEF Freeze, End, Finish
<1>12. CASE RemoveRuntime(i)
  BY <1>12 DEF RemoveRuntime, Starts, GoesOn
<1>13. CASE Forget(i)
  BY <1>13 DEF Forget, End, Finish
<1>14. QED
  BY <1>1, <1>2, <1>3, <1>4, <1>5, <1>6, <1>7, <1>8, <1>9, <1>10, <1>11, <1>12,
     <1>13 DEF Step

\* An invocation that writes has the port, and a runtime to write.
LEMMA WriterFacts ==
  ASSUME IInv, NEW i \in Invocations,
         ReadyToWrite(i, {"upgrade", "repair", "remove"})
  PROVE  /\ stage[i] \in {"open", "backed up"}
         /\ request[i].kind \in Changing
         /\ port[i].unit \in Units
         /\ request[i].kind \in {"install", "upgrade"} => request[i].runtime \in Runtimes
         /\ request[i].kind = "repair" => frozen \in Runtimes
<1>1. stage[i] \in {"open", "backed up"}
  BY DEF ReadyToWrite, Starts
<1>2. stage[i] \in Bound
  BY <1>1 DEF Bound, Served, Holding
<1>3. CASE stage[i] = "backed up"
  <2>1. request[i].kind = "install" /\ request[i].runtime \in Runtimes
    BY <1>2, <1>3 DEF IInv, RequestOK, RequestOf
  <2>2. QED
    BY <1>1, <1>2, <2>1, BoundPort DEF IInv, Changing
<1>4. CASE stage[i] = "open"
  <2>1. /\ request[i].kind \in {"upgrade", "repair", "remove"}
        /\ CanCarryOut(request[i].kind, port[i].unit, request[i])
    BY <1>4 DEF ReadyToWrite, Starts
  <2>2. request[i].kind = "repair" => frozen # None
    BY <2>1 DEF CanCarryOut, Screen, Curated
  <2>3. request[i].kind = "upgrade" => request[i].runtime \in Runtimes
    BY <1>2 DEF IInv, RequestOK, RequestOf
  <2>4. QED
    BY <1>1, <1>2, <2>1, <2>2, <2>3, BoundPort DEF IInv, Shape, Changing
<1>5. QED
  BY <1>1, <1>3, <1>4

\* A remove may break off like the commands that install.
LEMMA WritesAreReady ==
  ASSUME NEW i \in Invocations, ReadyToWrite(i, {"upgrade", "repair"})
  PROVE  /\ ReadyToWrite(i, {"upgrade", "repair", "remove"})
         /\ stage[i] = "open" => request[i].kind \in {"upgrade", "repair"}
  BY DEF ReadyToWrite, Starts

\* What a remove writes: the backup, or nothing.
LEMMA RestoredScripts ==
  ASSUME Shape
  PROVE  (IF backup # None THEN backup.held ELSE Blank) \in Scripts
  BY DEF Shape, Snapshot, Scripts

\* Which ports and queues a step leaves behind.
LEMMA StepKeepsOrder ==
  ASSUME IInv, NEW i \in Invocations, Step(i)
  PROVE  /\ queue' \in [Names -> Seq(Invocations)]
         /\ holder' \in [Names -> Invocations \cup {Free, Daemon}]
         /\ QueueOK' /\ HolderOK'
<1> DEFINE Order == /\ queue' \in [Names -> Seq(Invocations)]
                    /\ holder' \in [Names -> Invocations \cup {Free, Daemon}]
                    /\ QueueOK' /\ HolderOK'
<1>a. /\ queue \in [Names -> Seq(Invocations)]
      /\ holder \in [Names -> Invocations \cup {Free, Daemon}]
      /\ request = [request EXCEPT ![i] = request[i]]
  BY DEF IInv, Shape
<1>b. ASSUME stage[i] \in Holding, NEW next \in Holding, GoesOn(i, next),
             UNCHANGED <<request, port, queue, holder>>
      PROVE  Order
  BY <1>a, <1>b, GoOnKeepsOrder
<1>c. ASSUME stage[i] \in Holding, NEW verdict, End(i, verdict),
             UNCHANGED <<request, port>>
      PROVE  Order
  BY <1>c, EndKeepsOrder
<1>1. CASE Check(i)
  <2>1. PICK s : s \in {"checked", "done"} /\ stage' = [stage EXCEPT ![i] = s]
    BY <1>1 DEF Check, Finish
  <2>2. PICK p : port' = [port EXCEPT ![i] = p]
    <3>1. port = [port EXCEPT ![i] = port[i]]
      BY DEF IInv, Shape
    <3>2. QED
      BY <1>1, <3>1 DEF Check
  <2>3. /\ stage[i] \notin Served /\ s \notin Served
        /\ UNCHANGED <<request, queue, holder>>
    BY <1>1, <2>1 DEF Check, Served, Holding
  <2>4. request' = [request EXCEPT ![i] = request[i]]
    BY <1>a, <2>3
  <2>5. QED
    BY <1>a, <2>1, <2>2, <2>3, <2>4, OutsideKeepsOrder
<1>2. CASE Enqueue(i)
  BY <1>a, <1>2, EnqueueKeepsOrder DEF Enqueue
<1>3. CASE Serve(i)
  BY <1>3, ServeKeepsOrder
<1>4. CASE OpenCold(i)
  BY <1>a, <1>4, OpenColdKeepsOrder DEF OpenCold
<1>5. CASE Answer(i)
  BY <1>5, <1>c DEF Answer, Holding
<1>6. CASE Send(i)
  BY <1>6, <1>c DEF Send, Starts, Holding
<1>7. CASE Stage(i)
  BY <1>7, <1>b DEF Stage, Starts, Holding
<1>8. CASE Publish(i)
  BY <1>8, <1>b, <1>c DEF Publish, Holding
<1>9. CASE Provision(i)
  BY <1>9, <1>b DEF Provision, ReadyToWrite, Starts, Holding
<1>10. CASE Breaks(i)
  BY <1>10, <1>c DEF Breaks, ReadyToWrite, Starts, Holding
<1>11. CASE Freeze(i)
  BY <1>11, <1>c DEF Freeze, Holding
<1>12. CASE RemoveRuntime(i)
  BY <1>12, <1>b DEF RemoveRuntime, Starts, Holding
<1>13. CASE Forget(i)
  BY <1>13, <1>c DEF Forget, Holding
<1>14. QED
  BY <1>1, <1>2, <1>3, <1>4, <1>5, <1>6, <1>7, <1>8, <1>9, <1>10, <1>11, <1>12,
     <1>13 DEF Step

\* What a check chooses is a device that there is.
LEMMA ChosenPort ==
  ASSUME Shape, NEW r, Chosen(r) # None
  PROVE  /\ Chosen(r) \in Normalize(Discover(ports))
         /\ Chosen(r) \in Ports
<1>1. Chosen(r) \in Normalize(Discover(ports))
  BY SelectFacts DEF Chosen
<1>2. QED
  BY <1>1, NormalizedPort DEF Shape

\* What a check that passes says of a request that wants a device.
LEMMA CheckedFacts ==
  ASSUME NEW r \in ValidRequests,
         \A check \in ChecksFirst(r.kind, r.daemon) : Passes(check, r),
         r.kind # "list"
  PROVE  /\ r.target /\ Chosen(r) # None
         /\ r.kind \in {"install", "upgrade"} => r.runtime \in Runtimes
         /\ r.kind \in Curated => frozen # None /\ r.runtime = frozen
         /\ r.kind \in Screen /\ r.daemon => ~r.long
<1>1. /\ "target" \in ChecksFirst(r.kind, r.daemon)
      /\ "device" \in ChecksFirst(r.kind, r.daemon)
      /\ r.kind \in {"install", "upgrade"} =>
           "resolve" \in ChecksFirst(r.kind, r.daemon)
      /\ r.kind \in Curated => /\ "registry" \in ChecksFirst(r.kind, r.daemon)
                               /\ "fields" \in ChecksFirst(r.kind, r.daemon)
      /\ r.kind \in Screen /\ r.daemon => "encode" \in ChecksFirst(r.kind, r.daemon)
  BY DEF ChecksFirst, RegistryChecks, RuntimeChecks, DeviceChecks, EncodeChecks
<1>2. /\ Passes("target", r) /\ Passes("device", r)
      /\ r.kind \in {"install", "upgrade"} => Passes("resolve", r)
      /\ r.kind \in Curated => Passes("registry", r) /\ Passes("fields", r)
      /\ r.kind \in Screen /\ r.daemon => Passes("encode", r)
  BY <1>1
<1>3. QED
  BY <1>2 DEF Passes

\* A step leaves every variable with a value of its kind.
LEMMA StepKeepsShape ==
  ASSUME IInv, NEW i \in Invocations, Step(i)
  PROVE  Shape'
<1>1. /\ ports' \in Listings
      /\ request' \in [Invocations -> ValidRequests \cup {None}]
      /\ stage' \in [Invocations -> Stages]
      /\ outcome' \in [Invocations -> {None, "ok", "error"}]
      /\ queue' \in [Names -> Seq(Invocations)]
      /\ holder' \in [Names -> Invocations \cup {Free, Daemon}]
      /\ company' \in [Invocations -> SUBSET Invocations]
  BY StepFrame, StepKeepsOrder DEF IInv, Shape
<1> DEFINE Choice == /\ port' \in [Invocations -> Ports \cup {None}]
                     /\ compiled' \in [Invocations -> Runtimes \cup {None}]
           Device == device' \in [Units -> Scripts]
           Files  == /\ staging' \in Snapshot \cup {None}
                     /\ backup' \in Snapshot \cup {None}
                     /\ frozen' \in Runtimes \cup {None}
           Past   == /\ faults' \in 0 .. MaxFaults
                     /\ due' \in [Invocations -> BOOLEAN]
                     /\ latest' \in [unit : Units, ok : BOOLEAN] \cup {None}
                     /\ origin' \in [unit : Units, held : Scripts, alone : BOOLEAN]
                                      \cup {None}
<1>2. stage[i] \in Bound => port[i].unit \in Units /\ request[i] \in ValidRequests
  BY BoundPort DEF IInv
<1>3. Choice
  <2>1. CASE Check(i)
    <3>1. Chosen(request[i]) \in Ports \cup {None}
      BY ChosenPort DEF IInv
    <3>2. QED
      BY <2>1, <3>1 DEF Check, IInv, Shape
  <2>2. CASE ~Check(i)
    <3>1. port' = port /\ compiled' = compiled
      BY <2>2 DEF Step, Enqueue, Serve, OpenCold, Answer, Send, Stage, Publish,
                  Provision, Breaks, Freeze, RemoveRuntime, Forget
    <3>2. QED
      BY <3>1 DEF IInv, Shape
  <2>3. QED
    BY <2>1, <2>2
<1>4. Device
  <2>1. CASE Provision(i)
    <3>1. /\ port[i].unit \in Units
          /\ (IF request[i].kind = "repair" THEN frozen ELSE request[i].runtime)
               \in Scripts
      <4>1. request[i].kind \in {"install", "upgrade", "repair"}
        <5>1. stage[i] = "backed up" => request[i].kind = "install"
          BY DEF IInv, RequestOK, RequestOf
        <5>2. stage[i] \in {"open", "backed up"}
          BY <2>1, WritesAreReady, WriterFacts DEF Provision
        <5>3. QED
          BY <2>1, <5>1, <5>2, WritesAreReady DEF Provision
      <4>2. QED
        BY <2>1, <4>1, WritesAreReady, WriterFacts DEF Provision, Scripts
    <3>2. QED
      BY <2>1, <3>1 DEF Provision, IInv, Shape
  <2>2. CASE Breaks(i)
    BY <2>2 DEF Breaks, IInv, Shape, Scripts
  <2>3. CASE RemoveRuntime(i)
    BY <2>3, RestoredScripts DEF RemoveRuntime, IInv, Shape
  <2>4. CASE ~(Provision(i) \/ Breaks(i) \/ RemoveRuntime(i))
    <3>1. device' = device
      BY <2>4 DEF Step, Check, Enqueue, Serve, OpenCold, Answer, Send, Stage, Publish,
                  Freeze, Forget
    <3>2. QED
      BY <3>1 DEF IInv, Shape
  <2>5. QED
    BY <2>1, <2>2, <2>3, <2>4
<1>5. Files
  <2>1. CASE Stage(i)
    <3>1. stage[i] \in Bound
      BY <2>1 DEF Stage, Starts, Bound, Served, Holding
    <3>2. QED
      BY <1>2, <2>1, <3>1 DEF Stage, IInv, Shape, Snapshot
  <2>2. CASE Publish(i)
    BY <2>2 DEF Publish, IInv, Shape
  <2>3. CASE Freeze(i)
    <3>1. /\ request[i].kind \in {"install", "upgrade", "repair"}
          /\ stage[i] \in Bound
      BY <2>3 DEF Freeze, IInv, RequestOK, RequestOf, Bound, Served, Holding
    <3>2. request[i].kind \in {"install", "upgrade"} => request[i].runtime \in Runtimes
      BY <3>1 DEF IInv, RequestOK, RequestOf
    <3>3. frozen' \in Runtimes \cup {None}
      BY <2>3, <3>1, <3>2 DEF Freeze, IInv, Shape
    <3>4. QED
      BY <2>3, <3>3 DEF Freeze, IInv, Shape
  <2>4. CASE Forget(i)
    BY <2>4 DEF Forget, IInv, Shape
  <2>5. CASE ~(Stage(i) \/ Publish(i) \/ Freeze(i) \/ Forget(i))
    <3>1. staging' = staging /\ backup' = backup /\ frozen' = frozen
      BY <2>5 DEF Step, Check, Enqueue, Serve, OpenCold, Answer, Send, Provision,
                  Breaks, RemoveRuntime
    <3>2. QED
      BY <3>1 DEF IInv, Shape
  <2>6. QED
    BY <2>1, <2>2, <2>3, <2>4, <2>5
<1>6. Past
  <2>1. CASE Stage(i)
    <3>1. stage[i] \in Bound
      BY <2>1 DEF Stage, Starts, Bound, Served, Holding
    <3>2. /\ origin'.unit \in Units /\ origin'.held \in Scripts
          /\ origin'.alone \in BOOLEAN
          /\ origin' = [unit |-> origin'.unit, held |-> origin'.held,
                        alone |-> origin'.alone]
      BY <1>2, <2>1, <3>1 DEF Stage, IInv, Shape
    <3>3. QED
      BY <2>1, <3>2 DEF Stage, IInv, Shape
  <2>2. CASE Breaks(i)
    <3>1. port[i].unit \in Units
      BY <2>2, WriterFacts DEF Breaks
    <3>2. faults' \in 0 .. MaxFaults
      BY <2>2, DaemonCommandsAssumption DEF Breaks, IInv, Shape
    <3>3. QED
      BY <2>2, <3>1, <3>2 DEF Breaks, IInv, Shape
  <2>3. CASE Freeze(i)
    <3>1. port[i].unit \in Units
      BY <1>2, <2>3 DEF Freeze, Bound, Served, Holding
    <3>2. PICK ok \in BOOLEAN : ok = (request[i].kind = "repair" => Alone(i))
      OBVIOUS
    <3>3. latest' = latest \/ latest' = [unit |-> port[i].unit, ok |-> ok]
      BY <2>3, <3>2 DEF Freeze
    <3>4. [unit |-> port[i].unit, ok |-> ok] \in [unit : Units, ok : BOOLEAN]
      BY <3>1
    <3>5. latest' \in [unit : Units, ok : BOOLEAN] \cup {None}
      BY <3>3, <3>4, Zenon DEF IInv, Shape
    <3>6. QED
      BY <2>3, <3>5 DEF Freeze, IInv, Shape
  <2>4. CASE Forget(i)
    <3>1. port[i].unit \in Units
      BY <1>2, <2>4 DEF Forget, Bound, Served, Holding
    <3>2. QED
      BY <2>4, <3>1 DEF Forget, IInv, Shape
  <2>5. CASE ~(Stage(i) \/ Breaks(i) \/ Freeze(i) \/ Forget(i))
    <3>1. faults' = faults /\ due' = due /\ latest' = latest /\ origin' = origin
      BY <2>5 DEF Step, Check, Enqueue, Serve, OpenCold, Answer, Send, Publish,
                  Provision, RemoveRuntime
    <3>2. QED
      BY <3>1 DEF IInv, Shape
  <2>6. QED
    BY <2>1, <2>2, <2>3, <2>4, <2>5
<1>7. QED
  BY <1>1, <1>3, <1>4, <1>5, <1>6 DEF Shape

\* A step leaves what is known of requests and ports.
LEMMA StepKeepsRequests ==
  ASSUME IInv, NEW i \in Invocations, Step(i)
  PROVE  RequestOK'
<1>1. /\ ports' = ports /\ request' = request
      /\ stage'[i] \notin {"idle", "start"} /\ Active(i)
      /\ stage' \in [Invocations -> Stages]
      /\ \A j \in Invocations \ {i} :
           stage'[j] = stage[j] /\ port'[j] = port[j] /\ compiled'[j] = compiled[j]
  BY StepFrame
<1>2. \A j \in Invocations : RequestOf(j)
  BY DEF IInv, RequestOK
<1>3. ASSUME NEW j \in Invocations \ {i}  PROVE RequestOf(j)'
  BY <1>1, <1>2 DEF RequestOf
<1>4. request[i] \in ValidRequests
  BY <1>1, <1>2 DEF Active, RequestOf
<1>5. RequestOf(i)'
  <2>1. CASE Check(i)
    <3>1. CASE /\ \A check \in ChecksFirst(request[i].kind, request[i].daemon) :
                    Passes(check, request[i])
               /\ request[i].kind # "list"
      <4>1. /\ Chosen(request[i]) # None
            /\ request[i].kind \in {"install", "upgrade"} =>
                 request[i].runtime \in Runtimes
            /\ request[i].kind \in Curated => frozen # None
        BY <1>4, <3>1, CheckedFacts
      <4>2. Chosen(request[i]) \in Normalize(Discover(ports))
        BY <4>1, ChosenPort DEF IInv
      <4>3. /\ stage'[i] = "checked" /\ port'[i] = Chosen(request[i])
            /\ compiled'[i] = IF request[i].kind \in Curated THEN frozen ELSE None
        BY <2>1, <3>1 DEF Check, IInv, Shape
      <4>4. QED
        BY <1>1, <1>4, <3>1, <4>1, <4>2, <4>3 DEF RequestOf
    <3>2. CASE ~ /\ \A check \in ChecksFirst(request[i].kind, request[i].daemon) :
                      Passes(check, request[i])
                 /\ request[i].kind # "list"
      <4>1. stage'[i] = "done"
        BY <2>1, <3>2 DEF Check, Finish, IInv, Shape
      <4>2. port'[i] \in {port[i], Chosen(request[i])}
        BY <2>1 DEF Check, IInv, Shape
      <4>3. port'[i] # None => port'[i] \in Normalize(Discover(ports))
        BY <1>2, <4>2, ChosenPort DEF IInv, RequestOf
      <4>4. QED
        BY <1>1, <1>4, <4>1, <4>3 DEF RequestOf, Bound, Served, Holding
    <3>3. QED
      BY <3>1, <3>2
  <2>2. CASE ~Check(i)
    <3>1. /\ port' = port /\ compiled' = compiled
          /\ stage[i] \in Bound
      BY <2>2 DEF Step, Enqueue, Serve, OpenCold, Answer, Send, Stage, Publish,
                  Provision, Breaks, Freeze, RemoveRuntime, Forget, ReadyToWrite, Starts,
                  Bound, Served, Holding
    <3>2. stage'[i] = "queued" => request[i].daemon
      BY <2>2 DEF Step, Enqueue, Serve, OpenCold, Answer, Send, Stage, Publish,
                  Provision, Breaks, Freeze, RemoveRuntime, Forget, End, Finish, GoesOn,
                  IInv, Shape
    <3>3. stage'[i] = "staged" => request[i].kind = "install"
      BY <2>2 DEF Step, Enqueue, Serve, OpenCold, Answer, Send, Stage, Publish,
                  Provision, Breaks, Freeze, RemoveRuntime, Forget, End, Finish, GoesOn,
                  Starts, IInv, Shape
    <3>4. stage'[i] = "backed up" => request[i].kind = "install"
      <4>1. stage[i] = "staged" => request[i].kind = "install"
        BY <1>2 DEF RequestOf
      <4>2. QED
        BY <2>2, <4>1 DEF Step, Enqueue, Serve, OpenCold, Answer, Send, Stage, Publish,
                  Provision, Breaks, Freeze, RemoveRuntime, Forget, End, Finish, GoesOn,
                  IInv, Shape
    <3>5. stage'[i] = "written" => request[i].kind \in {"install", "upgrade", "repair"}
      <4>1. CASE Provision(i)
        <5>1. stage[i] = "backed up" => request[i].kind = "install"
          BY <1>2 DEF RequestOf
        <5>2. QED
          BY <4>1, <5>1 DEF Provision, ReadyToWrite, Starts
      <4>2. CASE ~Provision(i)
        BY <2>2, <4>2 DEF Step, Enqueue, Serve, OpenCold, Answer, Send, Stage, Publish,
                  Breaks, Freeze, RemoveRuntime, Forget, End, Finish, GoesOn,
                  IInv, Shape
      <4>3. QED
        BY <4>1, <4>2
    <3>6. stage'[i] = "removed" => request[i].kind = "remove"
      BY <2>2 DEF Step, Enqueue, Serve, OpenCold, Answer, Send, Stage, Publish,
                  Provision, Breaks, Freeze, RemoveRuntime, Forget, End, Finish, GoesOn,
                  Starts, IInv, Shape
    <3>7. QED
      BY <1>1, <1>2, <1>4, <3>1, <3>2, <3>3, <3>4, <3>5, <3>6 DEF RequestOf
  <2>3. QED
    BY <2>1, <2>2
<1>6. QED
  BY <1>3, <1>5 DEF RequestOK

\* A step leaves those that run at the same time known to each other.
LEMMA StepKeepsCompany ==
  ASSUME IInv, NEW i \in Invocations, Step(i)
  PROVE  CompanyOK'
<1>1. /\ company' = company /\ Active(i) /\ stage'[i] \notin {"idle", "start"}
      /\ \A j \in Invocations \ {i} : stage'[j] = stage[j]
  BY StepFrame
<1>2. ASSUME NEW j \in Invocations
      PROVE  (stage'[j] = "idle" => stage[j] = "idle") /\ (Active(j)' => Active(j))
  BY <1>1, <1>2 DEF Active, RequestOf
<1>3. \A j \in Invocations : company[j] \subseteq Invocations
  BY DEF IInv, Shape
<1>4. QED
  BY <1>1, <1>2, <1>3 DEF IInv, CompanyOK

\* While one invocation takes a step, another that runs has it in its company.
LEMMA InCompany ==
  ASSUME IInv, NEW i \in Invocations, Step(i), NEW j \in Invocations \ {i}
  PROVE  /\ Active(j) => i \in company[j]
         /\ company[j] = {} => stage[j] \in {"idle", "done"}
<1>1. Active(i)
  BY StepFrame
<1>2. Active(j) => i \in company[j]
  BY <1>1 DEF IInv, CompanyOK
<1>3. QED
  BY <1>2 DEF Active

\* The frozen runtime is changed by commands that are known to change it.
LEMMA FrozenSteps ==
  ASSUME IInv, NEW i \in Invocations, Step(i), frozen' # frozen
  PROVE  /\ request[i].kind \in Changing
         /\ stage'[i] = "done"
         /\ \A j \in Invocations \ {i} : Active(j) => ~Alone(j)
<1>1. Freeze(i) \/ Forget(i)
  BY DEF Step, Check, Enqueue, Serve, OpenCold, Answer, Send, Stage, Publish,
         Provision, Breaks, RemoveRuntime
<1>2. request[i].kind \in Changing
  BY <1>1 DEF Freeze, Forget, IInv, RequestOK, RequestOf, Changing
<1>3. stage'[i] = "done"
  BY <1>1 DEF Freeze, Forget, End, Finish, IInv, Shape
<1>4. QED
  BY <1>2, <1>3, InCompany DEF Alone

\* Nor does it come between the checks of a command and its script.
LEMMA StepKeepsCompiled ==
  ASSUME IInv, NEW i \in Invocations, Step(i)
  PROVE  CompiledOK'
<1> SUFFICES ASSUME NEW j \in Invocations,
                    (stage[j] \in Bound /\ request[j].kind \in Curated /\ Alone(j))'
             PROVE  compiled'[j] = frozen'
  BY DEF CompiledOK
<1>1. /\ request' = request /\ company' = company
      /\ \A k \in Invocations \ {i} :
           stage'[k] = stage[k] /\ compiled'[k] = compiled[k]
  BY StepFrame
<1>2. request[j].kind \in Curated /\ Alone(j)
  BY <1>1 DEF Alone
<1>3. CASE j # i
  <2>1. stage[j] \in Bound /\ compiled[j] = frozen /\ compiled'[j] = compiled[j]
    BY <1>1, <1>2, <1>3 DEF IInv, CompiledOK
  <2>2. Active(j)
    BY <2>1 DEF Active, Bound, Served, Holding
  <2>3. frozen' = frozen
    BY <1>2, <1>3, <2>2, FrozenSteps
  <2>4. QED
    BY <2>1, <2>3
<1>4. CASE j = i /\ Check(i)
  <2>1. stage'[i] = "checked" /\ compiled'[i] = frozen /\ frozen' = frozen
    BY <1>2, <1>4 DEF Check, Finish, IInv, Shape, Bound, Served, Holding
  <2>2. QED
    BY <1>4, <2>1
<1>5. CASE j = i /\ ~Check(i)
  <2>1. stage[i] \in Bound /\ compiled' = compiled
    BY <1>5 DEF Step, Enqueue, Serve, OpenCold, Answer, Send, Stage, Publish,
                Provision, Breaks, Freeze, RemoveRuntime, Forget, ReadyToWrite, Starts,
                Bound, Served, Holding
  <2>2. stage'[i] # "done"
    BY <1>5 DEF Bound, Served, Holding
  <2>3. frozen' = frozen
    BY <2>2, FrozenSteps
  <2>4. QED
    BY <1>2, <1>5, <2>1, <2>3 DEF IInv, CompiledOK
<1>6. QED
  BY <1>3, <1>4, <1>5

\* A device is written to by the one that has it, which comes of it.
LEMMA DeviceSteps ==
  ASSUME IInv, NEW i \in Invocations, Step(i), NEW u \in Units, device'[u] # device[u]
  PROVE  /\ stage[i] \in {"open", "backed up"}
         /\ port[i].unit = u
         /\ frozen' = frozen
         /\ port' = port
         /\ stage'[i] \in {"written", "removed"} \/ latest' = [unit |-> u, ok |-> FALSE]
<1>1. Provision(i) \/ Breaks(i) \/ RemoveRuntime(i)
  BY DEF Step, Check, Enqueue, Serve, OpenCold, Answer, Send, Stage, Publish,
         Freeze, Forget
<1>2. /\ stage[i] \in {"open", "backed up"}
      /\ frozen' = frozen /\ port' = port
  BY <1>1 DEF Provision, Breaks, RemoveRuntime, ReadyToWrite, Starts
<1>3. \E scripts : device' = [device EXCEPT ![port[i].unit] = scripts]
  BY <1>1, Zenon DEF Provision, Breaks, RemoveRuntime
<1>4. port[i].unit = u
  BY <1>3 DEF IInv, Shape
<1>5. CASE Breaks(i)
  BY <1>2, <1>4, <1>5 DEF Breaks
<1>6. CASE Provision(i) \/ RemoveRuntime(i)
  BY <1>2, <1>4, <1>6 DEF Provision, RemoveRuntime, GoesOn, IInv, Shape
<1>7. QED
  BY <1>1, <1>5, <1>6

\* Nobody writes to a device that another has.
LEMMA OthersDevice ==
  ASSUME IInv, NEW i \in Invocations, Step(i), NEW j \in Invocations \ {i},
         stage[j] \in Holding
  PROVE  device'[port[j].unit] = device[port[j].unit]
<1>1. port[j].unit \in Units
  BY BoundPort DEF IInv, Bound, Served
<1>2. SUFFICES ASSUME device'[port[j].unit] # device[port[j].unit]  PROVE FALSE
  OBVIOUS
<1>3. stage[i] \in Holding /\ port[i].unit = port[j].unit
  BY <1>1, <1>2, DeviceSteps DEF Holding
<1>4. QED
  BY <1>3, Exclusion DEF IInv

\* What was written is on the device until it is frozen.
LEMMA StepKeepsWritten ==
  ASSUME IInv, NEW i \in Invocations, Step(i)
  PROVE  WrittenOK'
<1>1. /\ request' = request /\ company' = company
      /\ stage'[i] \notin {"idle", "start"} /\ Active(i)
      /\ \A k \in Invocations \ {i} : stage'[k] = stage[k] /\ port'[k] = port[k]
  BY StepFrame
<1>2. ASSUME NEW j \in Invocations, stage'[j] = "written"
      PROVE  /\ request'[j].kind # "repair" =>
                  device'[port'[j].unit] = request'[j].runtime
             /\ request'[j].kind = "repair" /\ Alone(j)' =>
                  device'[port'[j].unit] = frozen'
  <2>1. Alone(j)' <=> Alone(j)
    BY <1>1 DEF Alone
  <2>2. CASE j # i
    <3>1. stage[j] = "written" /\ port'[j] = port[j]
      BY <1>1, <1>2, <2>2
    <3>2. device'[port[j].unit] = device[port[j].unit]
      BY <2>2, <3>1, OthersDevice DEF Holding
    <3>3. Alone(j) => frozen' = frozen
      BY <2>2, <3>1, FrozenSteps DEF Active
    <3>4. QED
      BY <1>1, <2>1, <3>1, <3>2, <3>3 DEF IInv, WrittenOK
  <2>3. CASE j = i
    <3>1. Provision(i)
      BY <1>2, <2>3 DEF Step, Check, Enqueue, Serve, OpenCold, Answer, Send, Stage, Publish,
                  Breaks, Freeze, RemoveRuntime, Forget, End, Finish, GoesOn, IInv, Shape
    <3>2. port[i].unit \in Units
      BY <3>1, WritesAreReady, WriterFacts DEF Provision
    <3>3. QED
      BY <1>1, <2>3, <3>1, <3>2 DEF Provision, IInv, Shape
  <2>4. QED
    BY <2>2, <2>3
<1>3. ASSUME NEW u \in Units, latest' = [unit |-> u, ok |-> TRUE], frozen' # None
      PROVE  \/ device'[u] = frozen'
             \/ \E k \in Invocations :
                  stage'[k] \in {"written", "removed"} /\ port'[k].unit = u
  <2>1. CASE Freeze(i)
    <3>1. /\ stage[i] = "written" /\ device' = device
          /\ latest' = latest \/ latest'.unit = port[i].unit
      BY <2>1 DEF Freeze
    <3>2. CASE request[i].kind = "repair" /\ frozen = None
      BY <1>3, <2>1, <3>2 DEF Freeze
    <3>3. CASE ~(request[i].kind = "repair" /\ frozen = None)
      <4>1. /\ frozen' = IF request[i].kind = "repair" THEN frozen ELSE request[i].runtime
            /\ latest' = [unit |-> port[i].unit,
                          ok |-> request[i].kind = "repair" => Alone(i)]
        BY <2>1, <3>3 DEF Freeze
      <4>2. latest'.unit = u /\ latest'.ok = TRUE
        BY <1>3
      <4>3. u = port[i].unit
        BY <4>1, <4>2
      <4>4. request[i].kind = "repair" => Alone(i)
        BY <4>1, <4>2
      <4>5. device[u] = frozen'
        BY <3>1, <4>1, <4>3, <4>4 DEF IInv, WrittenOK
      <4>6. QED
        BY <3>1, <4>5
    <3>4. QED
      BY <3>2, <3>3
  <2>2. CASE Forget(i)
    BY <1>3, <2>2 DEF Forget
  <2>3. CASE Breaks(i)
    <3>1. latest'.ok = FALSE /\ latest'.ok = TRUE
      BY <1>3, <2>3 DEF Breaks
    <3>2. QED
      BY <3>1
  <2>4. CASE ~(Freeze(i) \/ Forget(i) \/ Breaks(i))
    <3>1. latest' = latest /\ frozen' = frozen
      BY <2>4 DEF Step, Check, Enqueue, Serve, OpenCold, Answer, Send, Stage, Publish,
                  Provision, RemoveRuntime
    <3>2. stage[i] \notin {"written", "removed"}
      BY <2>4 DEF Step, Check, Enqueue, Serve, OpenCold, Answer, Send, Stage, Publish,
                  Provision, RemoveRuntime, ReadyToWrite, Starts
    <3>3. CASE device'[u] = device[u]
      <4>1. \/ device[u] = frozen
            \/ \E k \in Invocations :
                 stage[k] \in {"written", "removed"} /\ port[k].unit = u
        BY <1>3, <3>1 DEF IInv, WrittenOK
      <4>2. QED
        BY <1>1, <3>1, <3>2, <3>3, <4>1
    <3>4. CASE device'[u] # device[u]
      <4>1. /\ port[i].unit = u /\ port' = port
            /\ stage'[i] \in {"written", "removed"} \/ latest' = [unit |-> u, ok |-> FALSE]
        BY <3>4, DeviceSteps
      <4>2. latest'.ok = TRUE
        BY <1>3
      <4>3. stage'[i] \in {"written", "removed"}
        BY <4>1, <4>2
      <4>4. QED
        BY <4>1, <4>3
    <3>5. QED
      BY <3>3, <3>4
  <2>5. QED
    BY <2>1, <2>2, <2>3, <2>4
<1>4. QED
  BY <1>2, <1>3 DEF WrittenOK

\* The backup, staged or published, is that of the last install.
LEMMA StepKeepsOrigin ==
  ASSUME IInv, NEW i \in Invocations, Step(i)
  PROVE  OriginOK'
<1> DEFINE taken == [unit |-> origin.unit, held |-> origin.held]
<1>1. /\ request' = request /\ Active(i)
      /\ \A k \in Invocations \ {i} : stage'[k] = stage[k] /\ port'[k] = port[k]
  BY StepFrame
<1>2. CASE Stage(i)
  <2>1. /\ stage'[i] = "staged" /\ port' = port
        /\ origin'.unit = port[i].unit /\ origin'.held = device[port[i].unit]
        /\ staging' = [unit |-> port[i].unit, held |-> device[port[i].unit]]
        /\ origin'.alone = \A j \in company[i] : request[j].kind # "install"
    BY <1>2 DEF Stage, GoesOn, IInv, Shape
  <2>2. ASSUME origin'.alone, NEW j \in Invocations, stage'[j] = "staged"
        PROVE  j = i
    <3>1. SUFFICES ASSUME j # i  PROVE FALSE
      OBVIOUS
    <3>2. stage[j] = "staged" /\ request[j].kind = "install"
      BY <1>1, <2>2, <3>1 DEF IInv, RequestOK, RequestOf
    <3>3. j \in company[i]
      BY <1>1, <3>1, <3>2 DEF IInv, CompanyOK, Active
    <3>4. QED
      BY <2>1, <2>2, <3>2, <3>3
  <2>3. QED
    BY <2>1, <2>2 DEF OriginOK
<1>3. CASE Publish(i)
  <2>1. SUFFICES ASSUME origin # None, origin.alone
                 PROVE  /\ \A j \in Invocations : stage'[j] # "staged"
                        /\ backup' = taken
    BY <1>3 DEF Publish, OriginOK
  <2>2. \A j \in Invocations : stage[j] = "staged" =>
          port[j].unit = origin.unit /\ staging = taken
    BY <2>1 DEF IInv, OriginOK
  <2>3. stage[i] = "staged" /\ stage'[i] # "staged"
    BY <1>3 DEF Publish, GoesOn, End, Finish, IInv, Shape
  <2>4. ASSUME NEW j \in Invocations, stage'[j] = "staged"  PROVE FALSE
    <3>1. j # i /\ stage[j] = "staged"
      BY <1>1, <2>3, <2>4
    <3>2. QED
      BY <2>2, <2>3, <3>1, Exclusion DEF IInv, Holding
  <2>5. taken # None
    <3>1. taken \in Snapshot
      BY <2>1 DEF IInv, Shape, Snapshot
    <3>2. QED
      BY <3>1, DaemonCommandsAssumption
  <2>6. QED
    BY <1>3, <2>2, <2>3, <2>4, <2>5 DEF Publish
<1>4. CASE ~(Stage(i) \/ Publish(i))
  <2>1. origin' = origin /\ staging' = staging /\ backup' = backup
    BY <1>4 DEF Step, Check, Enqueue, Serve, OpenCold, Answer, Send, Provision, Breaks,
                Freeze, RemoveRuntime, Forget
  <2>2. stage'[i] # "staged" /\ stage[i] # "staged"
    BY <1>4 DEF Step, Check, Enqueue, Serve, OpenCold, Answer, Send, Provision, Breaks,
                Freeze, RemoveRuntime, Forget, ReadyToWrite, Starts, End, Finish, GoesOn,
                IInv, Shape
  <2>3. \A j \in Invocations : /\ stage'[j] = "staged" <=> stage[j] = "staged"
                               /\ stage[j] = "staged" => port'[j] = port[j]
    BY <1>1, <2>2
  <2>4. QED
    BY <2>1, <2>3 DEF IInv, OriginOK
<1>5. QED
  BY <1>2, <1>3, <1>4

\* A remove restores what the last install captured.
LEMMA StepKeepsRestored ==
  ASSUME IInv, NEW i \in Invocations, Step(i)
  PROVE  RestoresOwnScripts'
<1> SUFFICES ASSUME NEW j \in Invocations, stage'[j] = "removed",
                    origin' # None, origin'.unit = port'[j].unit, origin'.alone
             PROVE  device'[port'[j].unit] = origin'.held
  BY DEF RestoresOwnScripts
<1>1. \A k \in Invocations \ {i} : stage'[k] = stage[k] /\ port'[k] = port[k]
  BY StepFrame
<1>2. CASE j = i
  <2>1. RemoveRuntime(i)
    BY <1>2 DEF Step, Check, Enqueue, Serve, OpenCold, Answer, Send, Stage, Publish,
                Provision, Breaks, Freeze, Forget, End, Finish, GoesOn, IInv, Shape
  <2>2. origin' = origin /\ port' = port /\ stage[i] = "open"
    BY <2>1 DEF RemoveRuntime, Starts
  <2>3. \A k \in Invocations : stage[k] # "staged"
    <3>1. ASSUME NEW k \in Invocations, stage[k] = "staged"  PROVE FALSE
      <4>1. port[k].unit = port[i].unit
        BY <1>2, <2>2, <3>1 DEF IInv, OriginOK
      <4>2. QED
        BY <2>2, <3>1, <4>1, Exclusion DEF IInv, Holding
    <3>2. QED
      BY <3>1
  <2>4. backup = [unit |-> origin.unit, held |-> origin.held]
    BY <2>2, <2>3 DEF IInv, OriginOK
  <2>5. backup # None
    <3>1. backup \in Snapshot
      BY <2>2, <2>4 DEF IInv, Shape, Snapshot
    <3>2. QED
      BY <3>1, DaemonCommandsAssumption
  <2>6. port[i].unit \in Units
    BY <2>2, BoundPort DEF IInv, Bound, Served, Holding
  <2>7. device'[port[i].unit] = backup.held
    BY <2>1, <2>5, <2>6 DEF RemoveRuntime, IInv, Shape
  <2>8. QED
    BY <1>2, <2>2, <2>4, <2>7
<1>3. CASE j # i
  <2>1. stage[j] = "removed" /\ port'[j] = port[j]
    BY <1>1, <1>3
  <2>2. device'[port[j].unit] = device[port[j].unit]
    BY <1>3, <2>1, OthersDevice DEF Holding
  <2>3. CASE Stage(i)
    <3>1. stage[i] = "open" /\ port[i].unit = origin'.unit
      BY <2>3 DEF Stage, Starts
    <3>2. QED
      BY <1>3, <2>1, <3>1, Exclusion DEF IInv, Holding
  <2>4. CASE ~Stage(i)
    <3>1. origin' = origin
      BY <2>4 DEF Step, Check, Enqueue, Serve, OpenCold, Answer, Send, Publish,
                  Provision, Breaks, Freeze, RemoveRuntime, Forget
    <3>2. QED
      BY <2>1, <2>2, <3>1 DEF IInv, RestoresOwnScripts
  <2>5. QED
    BY <2>3, <2>4
<1>4. QED
  BY <1>2, <1>3

\* Once its checks have passed, on either path, a request deserves what can be
\* carried out.
LEMMA DueAtStart ==
  ASSUME NEW r \in ValidRequests, r.kind # "list", Chosen(r) # None,
         \A check \in ChecksFirst(r.kind, r.daemon) : Passes(check, r)
  PROVE  Deserves(r) <=> CanCarryOut(r.kind, Chosen(r).unit, r)
<1>1. /\ r.target /\ Chosen(r) # None
      /\ r.kind \in {"install", "upgrade"} => r.runtime \in Runtimes
      /\ r.kind \in Curated => frozen # None /\ r.runtime = frozen
  BY CheckedFacts
<1>2. CASE r.kind \in Screen
  <2>1. CanCarryOut(r.kind, Chosen(r).unit, r) <=> ~r.long
    BY <1>2 DEF CanCarryOut, Screen, Curated
  <2>2. QED
    BY <1>1, <2>1 DEF Deserves
<1>3. CASE r.kind \notin Screen
  <2>1. ~r.long
    BY <1>3 DEF ValidRequests, Screen, Curated
  <2>2. QED
    BY <1>1, <2>1 DEF Deserves
<1>4. QED
  BY <1>2, <1>3

\* A request that deserves to succeed passes the checks of either path.
LEMMA NotDueAtStart ==
  ASSUME NEW r \in ValidRequests, Deserves(r)
  PROVE  \A check \in ChecksFirst(r.kind, r.daemon) : Passes(check, r)
<1>1. CASE r.kind = "list"
  <2>1. ~r.daemon
    BY <1>1 DEF ValidRequests, DaemonEligible
  <2>2. ChecksFirst(r.kind, r.daemon) = {}
    BY <1>1, <2>1 DEF ChecksFirst, RegistryChecks, RuntimeChecks, DeviceChecks, EncodeChecks,
                      Curated, Screen
  <2>3. QED
    BY <2>2
<1>2. CASE r.kind # "list"
  <2>1. /\ r.target /\ ~r.long /\ Chosen(r) # None
        /\ r.kind \in Curated => r.runtime = frozen
        /\ r.kind \in {"install", "upgrade"} => r.runtime \in Runtimes
    BY <1>2 DEF Deserves
  <2>2. r.runtime # None
    BY DaemonCommandsAssumption DEF ValidRequests
  <2>3. ASSUME NEW check \in ChecksFirst(r.kind, r.daemon)  PROVE Passes(check, r)
    <3>1. \/ check \in {"target", "device", "encode"}
          \/ check \in {"registry", "fields"} /\ r.kind \in Curated
          \/ check = "resolve" /\ r.kind \in {"install", "upgrade"}
      BY <2>3 DEF ChecksFirst, RegistryChecks, RuntimeChecks, DeviceChecks, EncodeChecks
    <3>2. CASE check \in {"target", "device", "encode"}
      BY <2>1, <3>2 DEF Passes
    <3>3. CASE check \in {"registry", "fields"} /\ r.kind \in Curated
      BY <2>1, <2>2, <3>3 DEF Passes
    <3>4. CASE check = "resolve" /\ r.kind \in {"install", "upgrade"}
      BY <2>1, <3>4 DEF Passes
    <3>5. QED
      BY <3>1, <3>2, <3>3, <3>4
  <2>4. QED
    BY <2>3
<1>3. QED
  BY <1>1, <1>2

\* Nobody is turned away from a port but for somebody who is at work on it.
LEMMA PortTaken ==
  ASSUME IInv, NEW i \in Invocations, NEW n \in Names,
         holder[n] \notin {Free, Daemon}, stage[i] \notin Holding
  PROVE  \E j \in Invocations \ {i} : Active(j)
<1>1. holder[n] \in Invocations
  BY DEF IInv, Shape
<1>2. stage[holder[n]] \in Holding
  BY <1>1 DEF IInv, HolderOK
<1>3. holder[n] # i /\ Active(holder[n])
  BY <1>2 DEF Active, Holding
<1>4. QED
  BY <1>1, <1>3

\* A step answers with what is due.
LEMMA StepKeepsDue ==
  ASSUME IInv, NEW i \in Invocations, Step(i)
  PROVE  DueOK'
<1>1. /\ ports' = ports /\ request' = request /\ company' = company
      /\ Active(i) /\ stage'[i] \notin {"idle", "start"}
      /\ \A k \in Invocations \ {i} :
           stage'[k] = stage[k] /\ outcome'[k] = outcome[k] /\ due'[k] = due[k]
  BY StepFrame
<1>2. ASSUME NEW j \in Invocations \ {i}  PROVE DueOf(j)'
  <2>1. SUFFICES ASSUME company[j] = {}
                 PROVE  stage[j] = "done" =>
                          \/ due[j] /\ outcome[j] = "ok"
                          \/ ~due[j] /\ outcome[j] = "error"
                          \/ /\ ~request[j].daemon
                             /\ \E k \in Invocations \ {j} :
                                  request[k] # None /\ request[k].daemon
    <3>1. company[j] = {} => stage[j] \in {"idle", "done"}
      BY InCompany
    <3>2. due[j] \in BOOLEAN /\ due'[j] = due[j]
      BY <1>1 DEF IInv, Shape
    <3>3. QED
      BY <1>1, <3>1, <3>2 DEF DueOf, Holding
  <2>2. QED
    BY <2>1 DEF IInv, DueOK, DueOf
<1>3. DueOf(i)'
  <2>1. SUFFICES ASSUME company[i] = {}  PROVE DueOf(i)'
    BY <1>1 DEF DueOf
  <2>2. \A j \in Invocations \ {i} : ~Active(j)
    BY <1>1, <2>1 DEF IInv, CompanyOK
  <2>3. request[i] \in ValidRequests
    BY <1>1 DEF IInv, RequestOK, RequestOf, Active
  <2>4. DueOf(i)
    BY DEF IInv, DueOK
  <2> DEFINE r == request[i]
             can == CanCarryOut(r.kind, port[i].unit, r)
  <2>5. ASSUME due'[i] = due[i], stage'[i] = "done",
               IF due[i] THEN outcome'[i] = "ok" ELSE outcome'[i] = "error"
        PROVE  DueOf(i)'
    BY <2>5 DEF DueOf, Holding
  <2>6. CASE Check(i)
    <3>1. due[i] <=> Deserves(r)
      BY <2>1, <2>4, <2>6 DEF Check, DueOf
    <3>2. due' = due /\ frozen' = frozen /\ device' = device /\ backup' = backup
      BY <2>6 DEF Check
    <3>3. CASE r.kind = "list"
      <4>1. Deserves(r)
        BY <3>3 DEF Deserves
      <4>2. stage'[i] = "done" /\ outcome'[i] = "ok"
        BY <2>3, <2>6, <3>3, <4>1, NotDueAtStart DEF Check, Finish, IInv, Shape
      <4>3. QED
        BY <2>5, <3>1, <3>2, <4>1, <4>2
    <3>4. CASE /\ \A check \in ChecksFirst(r.kind, r.daemon) : Passes(check, r)
               /\ r.kind # "list"
      <4>1. stage'[i] = "checked" /\ port'[i] = Chosen(r) /\ Chosen(r) # None
        BY <2>3, <2>6, <3>4, CheckedFacts DEF Check, IInv, Shape
      <4>2. due[i] <=> CanCarryOut(r.kind, Chosen(r).unit, r)
        BY <2>3, <3>1, <3>4, <4>1, DueAtStart
      <4>3. CanCarryOut(r.kind, Chosen(r).unit, r)
              <=> CanCarryOut(r.kind, port[i].unit, r)'
        BY <1>1, <3>2, <4>1 DEF CanCarryOut
      <4>4. QED
        BY <1>1, <3>2, <4>1, <4>2, <4>3 DEF DueOf, Holding
    <3>5. CASE ~\A check \in ChecksFirst(r.kind, r.daemon) : Passes(check, r)
      <4>1. ~due[i]
        BY <2>3, <3>1, <3>5, NotDueAtStart
      <4>2. stage'[i] = "done" /\ outcome'[i] = "error"
        BY <2>6, <3>5 DEF Check, Finish, IInv, Shape
      <4>3. QED
        BY <2>5, <3>2, <4>1, <4>2
    <3>6. QED
      BY <3>3, <3>4, <3>5
  <2>7. ASSUME stage[i] \in {"checked", "queued", "open"}  PROVE due[i] <=> can
    BY <2>1, <2>4, <2>7 DEF DueOf
  <2>8. ASSUME stage[i] \in {"checked", "queued"}, stage'[i] \in {"queued", "open"},
               UNCHANGED <<port, device, frozen, backup, due>>
        PROVE  DueOf(i)'
    <3>1. can <=> can'
      BY <1>1, <2>8 DEF CanCarryOut
    <3>2. QED
      BY <1>1, <2>7, <2>8, <3>1 DEF DueOf, Holding
  <2>9. CASE Enqueue(i)
    BY <2>8, <2>9 DEF Enqueue, IInv, Shape
  <2>10. CASE Serve(i)
    <3>1. port[i].name \in Names
      BY <2>10, BoundPort DEF Serve, IInv, Bound, Served
    <3>2. holder[port[i].name] \in {Free, Daemon}
      BY <2>2, <2>10, <3>1, PortTaken DEF Serve, Holding
    <3>3. QED
      BY <2>8, <2>10, <3>2 DEF Serve, IInv, Shape
  <2>11. CASE OpenCold(i)
    <3>1. port[i].name \in Names
      BY <2>11, BoundPort DEF OpenCold, IInv, Bound
    <3>2. CASE holder[port[i].name] = Free
      BY <2>8, <2>11, <3>2 DEF OpenCold, IInv, Shape
    <3>3. CASE holder[port[i].name] # Free
      <4>1. holder[port[i].name] = Daemon
        BY <2>2, <2>11, <3>1, <3>3, PortTaken DEF OpenCold, Holding
      <4>2. \E k \in Invocations : request[k] # None /\ request[k].daemon
        BY <3>1, <4>1 DEF IInv, HolderOK
      <4>3. ~request[i].daemon /\ stage'[i] = "done"
        BY <2>11, <3>3 DEF OpenCold, Finish, IInv, Shape
      <4>4. QED
        BY <1>1, <4>2, <4>3 DEF DueOf, Holding
    <3>4. QED
      BY <3>2, <3>3
  <2>12. CASE Answer(i)
    <3>1. /\ due' = due /\ stage'[i] = "done"
          /\ outcome'[i] = IF can THEN "ok" ELSE "error"
      BY <2>12 DEF Answer, End, Finish, IInv, Shape
    <3>2. due[i] <=> can
      BY <2>7, <2>12 DEF Answer
    <3>3. QED
      BY <2>5, <3>1, <3>2
  <2>13. CASE Send(i)
    <3>1. can
      BY <2>13 DEF Send, Starts, CanCarryOut, Screen, Curated
    <3>2. due[i]
      BY <2>7, <2>13, <3>1 DEF Send, Starts
    <3>3. due' = due /\ stage'[i] = "done" /\ outcome'[i] = "ok"
      BY <2>13 DEF Send, End, Finish, IInv, Shape
    <3>4. QED
      BY <2>5, <3>2, <3>3
  <2>14. CASE Stage(i)
    <3>1. r.kind = "install" /\ stage[i] = "open"
      BY <2>14 DEF Stage, Starts
    <3>2. can
      BY <3>1 DEF CanCarryOut, Screen, Curated
    <3>3. /\ due' = due /\ stage'[i] = "staged"
          /\ staging' = [unit |-> port[i].unit, held |-> device[port[i].unit]]
      BY <2>14 DEF Stage, GoesOn, IInv, Shape
    <3>4. port[i].unit \in Units
      BY <3>1, BoundPort DEF IInv, Bound, Served, Holding
    <3>5. staging' \in Snapshot
      BY <3>3, <3>4 DEF IInv, Shape, Snapshot
    <3>6. staging' # None
      BY <3>5, DaemonCommandsAssumption
    <3>7. QED
      BY <2>7, <3>1, <3>2, <3>3, <3>6 DEF DueOf, Holding
  <2>15. ASSUME stage[i] \in {"staged", "backed up", "written", "removed"}
         PROVE  due[i]
    BY <2>1, <2>4, <2>15 DEF DueOf, Holding
  <2>16. CASE Publish(i)
    <3>1. staging # None
      BY <2>1, <2>4, <2>16 DEF Publish, DueOf
    <3>2. due' = due /\ stage'[i] = "backed up" /\ due[i]
      BY <2>15, <2>16, <3>1 DEF Publish, GoesOn, IInv, Shape
    <3>3. QED
      BY <3>2 DEF DueOf, Holding
  <2>17. CASE Provision(i)
    <3>1. /\ due' = due /\ frozen' = frozen /\ stage'[i] = "written"
      BY <2>17 DEF Provision, GoesOn, IInv, Shape
    <3>2. due[i]
      BY <2>7, <2>15, <2>17 DEF Provision, ReadyToWrite, Starts
    <3>3. r.kind = "repair" => frozen # None
      BY <2>17, WritesAreReady, WriterFacts, DaemonCommandsAssumption DEF Provision
    <3>4. QED
      BY <1>1, <3>1, <3>2, <3>3 DEF DueOf, Holding
  <2>18. CASE Breaks(i)
    <3>1. stage'[i] = "done" /\ outcome'[i] = "error" /\ due'[i] = FALSE
      BY <2>18 DEF Breaks, End, Finish, IInv, Shape
    <3>2. QED
      BY <3>1 DEF DueOf, Holding
  <2>19. CASE Freeze(i)
    <3>1. due[i] /\ ~(r.kind = "repair" /\ frozen = None)
      BY <2>1, <2>4, <2>15, <2>19 DEF Freeze, DueOf
    <3>2. due' = due /\ stage'[i] = "done" /\ outcome'[i] = "ok"
      BY <2>19, <3>1 DEF Freeze, End, Finish, IInv, Shape
    <3>3. QED
      BY <2>5, <3>1, <3>2
  <2>20. CASE RemoveRuntime(i)
    <3>1. due[i]
      BY <2>7, <2>20 DEF RemoveRuntime, Starts
    <3>2. due' = due /\ stage'[i] = "removed"
      BY <2>20 DEF RemoveRuntime, GoesOn, IInv, Shape
    <3>3. QED
      BY <3>1, <3>2 DEF DueOf, Holding
  <2>21. CASE Forget(i)
    <3>1. due[i]
      BY <2>15, <2>21 DEF Forget
    <3>2. due' = due /\ stage'[i] = "done" /\ outcome'[i] = "ok"
      BY <2>21 DEF Forget, End, Finish, IInv, Shape
    <3>3. QED
      BY <2>5, <3>1, <3>2
  <2>22. QED
    BY <2>6, <2>9, <2>10, <2>11, <2>12, <2>13, <2>14, <2>16, <2>17, <2>18, <2>19,
       <2>20, <2>21 DEF Step
<1>4. QED
  BY <1>2, <1>3 DEF DueOK

\* All of it, for a step of an invocation.
LEMMA StepKeepsIInv ==
  ASSUME IInv, NEW i \in Invocations, Step(i)
  PROVE  IInv'
<1>1. Shape' /\ RequestOK'
  BY StepKeepsShape, StepKeepsRequests
<1>2. QueueOK' /\ HolderOK' /\ CompanyOK'
  BY StepKeepsOrder, StepKeepsCompany
<1>3. DueOK' /\ CompiledOK' /\ WrittenOK'
  BY StepKeepsDue, StepKeepsCompiled, StepKeepsWritten
<1>4. OriginOK' /\ RestoresOwnScripts'
  BY StepKeepsOrigin, StepKeepsRestored
<1>5. QED
  BY <1>1, <1>2, <1>3, <1>4 DEF IInv

-----------------------------------------------------------------------------
(* New invocations, and ports that close                                   *)

\* A new invocation disturbs nothing that the others have come to; those that
\* run have company from then on.
LEMMA InvokeKeepsIInv ==
  ASSUME IInv, NEW i \in Invocations, NEW r, Invoke(i, r)
  PROVE  IInv'
<1> DEFINE others == {j \in Invocations \ {i} : Active(j)}
<1>1. /\ stage[i] = "idle" /\ r \in ValidRequests
      /\ request' = [request EXCEPT ![i] = r]
      /\ stage' = [stage EXCEPT ![i] = "start"]
      /\ due' = [due EXCEPT ![i] = Deserves(r)]
      /\ ports' = ports /\ outcome' = outcome /\ port' = port /\ compiled' = compiled
      /\ queue' = queue /\ holder' = holder /\ device' = device /\ staging' = staging
      /\ backup' = backup /\ frozen' = frozen /\ faults' = faults /\ latest' = latest
      /\ origin' = origin
  BY DEF Invoke
<1>2. company' = [j \in Invocations |-> IF j = i THEN others
                                        ELSE IF j \in others THEN company[j] \cup {i}
                                        ELSE company[j]]
  BY DEF Invoke
<1>3. /\ request[i] = None /\ r # None
      /\ request'[i] = r /\ stage'[i] = "start"
      /\ \A j \in Invocations \ {i} :
           /\ stage'[j] = stage[j] /\ request'[j] = request[j] /\ due'[j] = due[j]
           /\ company[j] \subseteq company'[j]
  BY <1>1, <1>2, DaemonCommandsAssumption DEF IInv, Shape, RequestOK, RequestOf
<1>4. Deserves(r) \in BOOLEAN
  BY DEF Deserves
<1>5. Shape'
  <2>1. request' \in [Invocations -> ValidRequests \cup {None}]
    BY <1>1 DEF IInv, Shape
  <2>2. stage' \in [Invocations -> Stages]
    BY <1>1 DEF IInv, Shape, Stages
  <2>3. due' \in [Invocations -> BOOLEAN]
    BY <1>1, <1>4 DEF IInv, Shape
  <2>4. company' \in [Invocations -> SUBSET Invocations]
    BY <1>2 DEF IInv, Shape
  <2>5. QED
    BY <1>1, <2>1, <2>2, <2>3, <2>4 DEF IInv, Shape
<1>6. RequestOK'
  <2>1. ASSUME NEW j \in Invocations \ {i}  PROVE RequestOf(j)'
    BY <1>1, <1>3 DEF IInv, RequestOK, RequestOf
  <2>2. port[i] # None => port[i] \in Normalize(Discover(ports))
    BY DEF IInv, RequestOK, RequestOf
  <2>3. RequestOf(i)'
    BY <1>1, <1>3, <2>2 DEF RequestOf, Bound, Served, Holding
  <2>4. QED
    BY <2>1, <2>3 DEF RequestOK
<1>7. QueueOK' /\ HolderOK'
  <2>1. stage[i] \notin Served /\ "start" \notin Served
    BY <1>1 DEF Served, Holding
  <2>2. port' = [port EXCEPT ![i] = port[i]]
    BY <1>1 DEF IInv, Shape
  <2>3. QED
    BY <1>1, <1>3, <2>1, <2>2, OutsideKeepsOrder
<1>8. ASSUME NEW j \in Invocations \ {i}
      PROVE  /\ \A k \in company[j] : k # i /\ request'[k] = request[k]
             /\ Alone(j)' => Alone(j)
  <2>1. \A k \in company[j] : k \in Invocations \ {i}
    BY <1>1 DEF IInv, CompanyOK, Shape
  <2>2. QED
    BY <1>3, <2>1 DEF Alone
<1>9. CompanyOK'
  <2>1. ASSUME NEW j \in Invocations, NEW k \in company'[j]  PROVE stage'[k] # "idle"
    <3>1. k \in Invocations /\ (k = i \/ k \in company[j] \/ Active(k))
      BY <1>2, <2>1 DEF IInv, Shape
    <3>2. k # i => stage[k] # "idle"
      BY <2>1, <3>1 DEF IInv, CompanyOK, Active
    <3>3. QED
      BY <1>3, <3>1, <3>2
  <2>2. ASSUME NEW j \in Invocations, NEW k \in Invocations \ {j},
               Active(j)', Active(k)'
        PROVE  k \in company'[j]
    <3>1. /\ j # i => Active(j)
          /\ k # i => Active(k)
      BY <1>3, <2>2 DEF Active
    <3>2. CASE j = i
      BY <1>2, <2>2, <3>1, <3>2
    <3>3. CASE k = i
      BY <1>2, <2>2, <3>1, <3>3
    <3>4. CASE j # i /\ k # i
      BY <1>3, <2>2, <3>1, <3>4 DEF IInv, CompanyOK
    <3>5. QED
      BY <3>2, <3>3, <3>4
  <2>3. QED
    BY <2>1, <2>2 DEF CompanyOK
<1>10. DueOK'
  <2>1. DueOf(i)'
    <3>1. due'[i] = Deserves(r)
      BY <1>1 DEF IInv, Shape
    <3>2. Deserves(r) <=> Deserves(r)'
      BY <1>1 DEF Deserves, Chosen, CanCarryOut
    <3>3. QED
      BY <1>3, <3>1, <3>2 DEF DueOf, Holding
  <2>2. ASSUME NEW j \in Invocations \ {i}  PROVE DueOf(j)'
    <3>1. SUFFICES ASSUME company'[j] = {}  PROVE DueOf(j)'
      BY DEF DueOf
    <3>2. company[j] = {} /\ ~Active(j)
      BY <1>2, <3>1
    <3>3. stage[j] \in {"idle", "done"}
      BY <3>2 DEF Active
    <3>4. CASE stage[j] = "idle"
      BY <1>3, <3>4 DEF DueOf, Holding
    <3>5. CASE stage[j] = "done"
      <4>1. \/ due[j] /\ outcome[j] = "ok"
            \/ ~due[j] /\ outcome[j] = "error"
            \/ /\ ~request[j].daemon
               /\ \E k \in Invocations \ {j} : request[k] # None /\ request[k].daemon
        BY <3>2, <3>5 DEF IInv, DueOK, DueOf
      <4>2. \A k \in Invocations : request[k] # None => request'[k] = request[k]
        BY <1>3
      <4>3. due[j] \in BOOLEAN
        BY DEF IInv, Shape
      <4>4. QED
        BY <1>1, <1>3, <3>5, <4>1, <4>2, <4>3 DEF DueOf, Holding
    <3>6. QED
      BY <3>3, <3>4, <3>5
  <2>3. QED
    BY <2>1, <2>2 DEF DueOK
<1>11. CompiledOK'
  <2>1. \A j \in Invocations : stage'[j] \in Bound => j # i /\ stage[j] \in Bound
    BY <1>3 DEF Bound, Served, Holding
  <2>2. QED
    BY <1>1, <1>3, <1>8, <2>1 DEF IInv, CompiledOK
<1>12. WrittenOK'
  <2>1. ASSUME NEW j \in Invocations, stage'[j] = "written"
        PROVE  /\ request'[j].kind # "repair" =>
                    device'[port'[j].unit] = request'[j].runtime
               /\ request'[j].kind = "repair" /\ Alone(j)' =>
                    device'[port'[j].unit] = frozen'
    <3>1. j # i /\ stage[j] = "written" /\ request'[j] = request[j]
      BY <1>3, <2>1
    <3>2. Alone(j)' => Alone(j)
      BY <1>8, <3>1
    <3>3. QED
      BY <1>1, <3>1, <3>2 DEF IInv, WrittenOK
  <2>2. ASSUME NEW u \in Units, latest' = [unit |-> u, ok |-> TRUE], frozen' # None
        PROVE  \/ device'[u] = frozen'
               \/ \E k \in Invocations :
                    stage'[k] \in {"written", "removed"} /\ port'[k].unit = u
    <3>1. \/ device[u] = frozen
          \/ \E k \in Invocations :
               stage[k] \in {"written", "removed"} /\ port[k].unit = u
      BY <1>1, <2>2 DEF IInv, WrittenOK
    <3>2. QED
      BY <1>1, <1>3, <3>1
  <2>3. QED
    BY <2>1, <2>2 DEF WrittenOK
<1>13. OriginOK' /\ RestoresOwnScripts'
  <2>1. \A j \in Invocations : /\ stage'[j] = "staged" <=> stage[j] = "staged"
                               /\ stage'[j] = "removed" <=> stage[j] = "removed"
    BY <1>1, <1>3
  <2>2. QED
    BY <1>1, <2>1 DEF IInv, OriginOK, RestoresOwnScripts
<1>14. QED
  BY <1>5, <1>6, <1>7, <1>9, <1>10, <1>11, <1>12, <1>13 DEF IInv

\* Nor does a port that closes.
LEMMA IdleTimeoutKeepsIInv ==
  ASSUME IInv, NEW n \in Names, IdleTimeout(n)
  PROVE  IInv'
<1>1. /\ ports' = ports /\ request' = request /\ stage' = stage /\ outcome' = outcome
      /\ port' = port /\ compiled' = compiled /\ queue' = queue /\ device' = device
      /\ staging' = staging /\ backup' = backup /\ frozen' = frozen
      /\ faults' = faults /\ company' = company /\ due' = due /\ latest' = latest
      /\ origin' = origin
  BY DEF IdleTimeout
<1>2. Shape' /\ QueueOK' /\ HolderOK'
  BY <1>1, IdleTimeoutKeepsOrder DEF IInv, Shape
<1>3. RequestOK' /\ CompanyOK'
  BY <1>1 DEF IInv, RequestOK, RequestOf, CompanyOK, Active
<1>4. DueOK'
  BY <1>1 DEF IInv, DueOK, DueOf, Deserves, Chosen, CanCarryOut
<1>5. CompiledOK' /\ WrittenOK'
  BY <1>1 DEF IInv, CompiledOK, WrittenOK, Alone
<1>6. OriginOK' /\ RestoresOwnScripts'
  BY <1>1 DEF IInv, OriginOK, RestoresOwnScripts
<1>7. QED
  BY <1>2, <1>3, <1>4, <1>5, <1>6 DEF IInv

-----------------------------------------------------------------------------
(* The inductive invariant                                                 *)

\* IInv holds before the first invocation, with nothing installed or with one
\* runtime on one of the devices.
THEOREM InitIInv == Init => IInv
<1> SUFFICES ASSUME Init  PROVE IInv
  OBVIOUS
<1> USE DEF Init
<1>1. Shape
  <2>1. /\ queue \in [Names -> Seq(Invocations)]
        /\ faults \in 0 .. MaxFaults
    BY DaemonCommandsAssumption
  <2> DEFINE Files ==
        /\ device \in [Units -> Scripts]
        /\ backup \in Snapshot \cup {None} /\ frozen \in Runtimes \cup {None}
        /\ latest \in [unit : Units, ok : BOOLEAN] \cup {None}
        /\ origin \in [unit : Units, held : Scripts, alone : BOOLEAN] \cup {None}
  <2>2. Files
    <3>1. CASE device = [u \in Units |-> Own] /\ backup = None /\ frozen = None
                 /\ latest = None /\ origin = None
      BY <3>1 DEF Scripts
    <3>2. ASSUME NEW u \in Units, NEW r \in Runtimes,
                 device = [v \in Units |-> IF v = u THEN r ELSE Own],
                 backup = [unit |-> u, held |-> Own], frozen = r,
                 latest = [unit |-> u, ok |-> TRUE],
                 origin = [unit |-> u, held |-> Own, alone |-> TRUE]
          PROVE  Files
      BY <3>2 DEF Scripts, Snapshot
    <3>3. QED
      BY <3>1, <3>2
  <2>3. QED
    BY <2>1, <2>2 DEF Shape, Stages
<1>2. \A i \in Invocations : stage[i] = "idle"
  OBVIOUS
<1>3. RequestOK
  BY <1>2 DEF RequestOK, RequestOf, Bound, Served, Holding
<1>4. QueueOK
  BY <1>2 DEF QueueOK, Entry, Entered, Served, Holding
<1>5. HolderOK
  BY <1>2, DaemonCommandsAssumption DEF HolderOK, Holding
<1>6. CompanyOK /\ DueOK /\ CompiledOK
  BY <1>2 DEF CompanyOK, Active, DueOK, DueOf, CompiledOK, Bound, Served, Holding
<1>7. WrittenOK
  <2>1. CASE frozen = None
    BY <1>2, <2>1 DEF WrittenOK
  <2>2. CASE \E u \in Units, r \in Runtimes :
               /\ device = [v \in Units |-> IF v = u THEN r ELSE Own]
               /\ frozen = r /\ latest = [unit |-> u, ok |-> TRUE]
    BY <1>2, <2>2 DEF WrittenOK
  <2>3. QED
    BY <2>1, <2>2
<1>8. OriginOK /\ RestoresOwnScripts
  BY <1>2 DEF OriginOK, RestoresOwnScripts
<1>9. QED
  BY <1>1, <1>3, <1>4, <1>5, <1>6, <1>7, <1>8 DEF IInv

\* IInv is inductive.
THEOREM Invariance == Spec => []IInv
<1>1. IInv /\ [Next]_vars => IInv'
  <2> SUFFICES ASSUME IInv, [Next]_vars  PROVE IInv'
    OBVIOUS
  <2>1. CASE \E i \in Invocations : Step(i)
    BY <2>1, StepKeepsIInv
  <2>2. CASE \E i \in Invocations : \E r \in Requests(request) : Invoke(i, r)
    BY <2>2, InvokeKeepsIInv
  <2>3. CASE \E n \in Names : IdleTimeout(n)
    BY <2>3, IdleTimeoutKeepsIInv
  <2>4. CASE UNCHANGED vars
    <3> USE <2>4 DEF vars
    <3>1. Shape' /\ RequestOK'
      BY DEF IInv, Shape, RequestOK, RequestOf
    <3>2. QueueOK' /\ HolderOK' /\ CompanyOK'
      BY DEF IInv, QueueOK, Entry, Entered, HolderOK, CompanyOK, Active
    <3>3. DueOK'
      BY DEF IInv, DueOK, DueOf, Deserves, Chosen, CanCarryOut
    <3>4. CompiledOK' /\ WrittenOK'
      BY DEF IInv, CompiledOK, WrittenOK, Alone
    <3>5. OriginOK' /\ RestoresOwnScripts'
      BY DEF IInv, OriginOK, RestoresOwnScripts
    <3>6. QED
      BY <3>1, <3>2, <3>3, <3>4, <3>5 DEF IInv
  <2>5. QED
    BY <2>1, <2>2, <2>3, <2>4 DEF Next, Step
<1>2. QED
  BY InitIInv, <1>1, PTL DEF Spec

-----------------------------------------------------------------------------
(* The properties                                                          *)

\* The worker or the cold run that carries a command out has its port open, a
\* queue holds what waits for its worker, and what is frozen is a runtime.
THEOREM TypeCorrect == Spec => []TypeOK
<1>1. IInv => TypeOK
  <2> SUFFICES ASSUME IInv  PROVE TypeOK
    OBVIOUS
  <2>1. ASSUME NEW n \in Names, NEW i \in Range(queue[n])
        PROVE  Active(i) /\ request[i].daemon /\ port[i].name = n
    <3>1. queue[n] \in Seq(Invocations)
      BY DEF IInv, Shape
    <3>2. PICK k \in 1 .. Len(queue[n]) : queue[n][k] = i
      BY <2>1, <3>1 DEF Range
    <3>3. stage[i] \in Served /\ request[i].daemon /\ port[i].name = n
      BY <3>2 DEF IInv, QueueOK, Entry
    <3>4. QED
      BY <3>3 DEF Active, Served, Holding
  <2>2. Range(request) \subseteq ValidRequests \cup {None}
    BY DEF IInv, Shape, Range
  <2>3. \A i \in Invocations :
          stage[i] \in {"open", "staged", "backed up", "written", "removed"} =>
            holder[port[i].name] = IF request[i].daemon THEN Daemon ELSE i
    BY DEF IInv, HolderOK, Holding
  <2>4. QED
    BY <2>1, <2>2, <2>3 DEF IInv, Shape, TypeOK
<1>2. QED
  BY Invariance, <1>1, PTL

\* On either path, an invocation with no company succeeds if and only if its
\* arguments, the devices and the files allow it; the handler's checks and the
\* cold path's agree for every request.
THEOREM AnswersDeserved == Spec => []AnswersAreDeserved
<1>1. IInv => AnswersAreDeserved
  <2> SUFFICES ASSUME IInv, NEW i \in Invocations,
                      stage[i] = "done", company[i] = {}
               PROVE  \/ outcome[i] = IF due[i] THEN "ok" ELSE "error"
                      \/ /\ ~request[i].daemon
                         /\ \E j \in Invocations \ {i} :
                              request[j] # None /\ request[j].daemon
    BY DEF AnswersAreDeserved
  <2>1. DueOf(i)
    BY DEF IInv, DueOK
  <2>2. QED
    BY <2>1 DEF DueOf
<1>2. QED
  BY Invariance, <1>1, PTL

\* A curated script finds the runtime that it was compiled from.  With nobody
\* changing a runtime what its check saw is frozen still; otherwise that is
\* supposed.  In either case no other writer has the device, so that the last
\* change, if it went well and was here, is what the device holds.
THEOREM ScreenFits == Spec => ScreenFitsRuntime
<1>1. IInv => \A i \in Invocations :
                LET unit == port[i].unit IN
                /\ Starts(i, Curated)
                /\ Alone(i) \/ compiled[i] = frozen
                /\ latest = [unit |-> unit, ok |-> TRUE]
                => device[unit] = compiled[i]
  <2> SUFFICES ASSUME IInv, NEW i \in Invocations, Starts(i, Curated),
                      Alone(i) \/ compiled[i] = frozen,
                      latest = [unit |-> port[i].unit, ok |-> TRUE]
               PROVE  device[port[i].unit] = compiled[i]
    OBVIOUS
  <2>1. stage[i] = "open" /\ stage[i] \in Bound
    BY DEF Starts, Bound, Served, Holding
  <2>2. compiled[i] = frozen /\ frozen # None
    BY <2>1 DEF Starts, IInv, CompiledOK, RequestOK, RequestOf
  <2>3. port[i].unit \in Units
    BY <2>1, BoundPort DEF IInv
  <2>4. ASSUME NEW k \in Invocations, stage[k] \in {"written", "removed"},
               port[k].unit = port[i].unit
        PROVE  FALSE
    BY <2>1, <2>4, Exclusion DEF IInv, Holding
  <2>5. device[port[i].unit] = frozen
    BY <2>2, <2>3, <2>4 DEF IInv, WrittenOK
  <2>6. QED
    BY <2>2, <2>5
<1>2. IInv /\ [Next]_vars => [\A i \in Invocations :
        LET unit == port[i].unit IN
        /\ Starts(i, Curated) /\ outcome'[i] = "ok"
        /\ Alone(i) \/ compiled[i] = frozen
        /\ latest = [unit |-> unit, ok |-> TRUE]
        => device[unit] = compiled[i]]_vars
  BY <1>1
<1>3. QED
  BY Invariance, <1>2, PTL DEF Spec, ScreenFitsRuntime

\* A remove puts back what the last installation captured, if no other ran
\* beside it.
THEOREM RestoresOwn == Spec => []RestoresOwnScripts
<1>1. IInv => RestoresOwnScripts
  BY DEF IInv
<1>2. QED
  BY Invariance, <1>1, PTL

\* Two invocations that have chosen one device have chosen one name for it.
THEOREM OneName == Spec => []OneNamePerDevice
<1>1. IInv => OneNamePerDevice
  <2> SUFFICES ASSUME IInv, NEW i \in Invocations, NEW j \in Invocations,
                      port[i] # None, port[j] # None, port[i].unit = port[j].unit
               PROVE  port[i].name = port[j].name
    BY DEF OneNamePerDevice
  <2>1. /\ port[i] \in Normalize(Discover(ports))
        /\ port[j] \in Normalize(Discover(ports))
    BY DEF IInv, RequestOK, RequestOf
  <2>2. QED
    BY <2>1, NormalizedName DEF IInv, Shape
<1>2. QED
  BY Invariance, <1>1, PTL

\* Never are two commands at work on one device, whichever way they came to it:
\* a worker has one request in its hands, and a cold run the port to itself.
THEOREM OneAtWork ==
  Spec => [](\A i, j \in Invocations :
               stage[i] \in Holding /\ stage[j] \in Holding
               /\ port[i].unit = port[j].unit => i = j)
<1>1. IInv => \A i, j \in Invocations :
                stage[i] \in Holding /\ stage[j] \in Holding
                /\ port[i].unit = port[j].unit => i = j
  BY Exclusion DEF IInv
<1>2. QED
  BY Invariance, <1>1, PTL
=============================================================================
