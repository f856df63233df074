---------------------------- MODULE SlotIOProofs ----------------------------
(***************************************************************************)
(* The safety properties of SlotIO for any grid, bundle and number of      *)
(* faults.  The host tells nothing apart but location, checksum and kind,  *)
(* so all that it believes rests on one thing: a call that begins with no  *)
(* answer on its way hears only answers to its own packet.                 *)
(***************************************************************************)
EXTENDS SlotIO, FiniteSetTheorems, TLAPS

Read == [from : Module, script : Script]

\* The values of the variables.  TypeOK says less of sequences.
Shape ==
  /\ script \in [Module -> [Slot -> Script]]
  /\ stored \in [Module -> [Slot -> Script]]
  /\ pending \in [Module -> Seq(Packet)]
  /\ wire \in Seq(Piece)
  /\ input \in Seq(Piece)
  /\ target \in Module \cup {Broadcast}
  /\ op \in {"idle", "write", "store", "read", "installed", "failed"}
  /\ index \in 1 .. Len(Slots)
  /\ waiting \in BOOLEAN
  /\ found \in Seq(Read \cup {None})
  /\ attempts \in 0 .. MaxAttempts
  /\ late \in BOOLEAN
  /\ faults \in 0 .. MaxFaults
  /\ disturbed \in BOOLEAN
  /\ rebooted \subseteq Module

\* The host waits for answers to two kinds of calls, and has a read for each
\* slot that it is past.
HostOK ==
  /\ waiting => op \in {"store", "read"}
  /\ op \in {"idle", "write", "store"} => found = <<>>
  /\ op = "read" => Len(found) = index - 1
  /\ op = "installed" => Len(found) = Len(Slots) /\ ExactMatch(found)
  /\ Len(found) <= Len(Slots)

Asking == waiting /\ ~late

\* The packet that waits for an answer is the last one a module has.
LastOK ==
  Asking => \A m \in Module : \A i \in 1 .. Len(pending[m]) - 1 :
              pending[m][i].kind = "write"

\* A piece is on its way to the host, or has arrived.
Seen(p) == \/ \E i \in 1 .. Len(wire) : wire[i] = p
           \/ \E i \in 1 .. Len(input) : input[i] = p

\* Whoever acknowledges a store has done all that it had to do, and stored it.
AckOK ==
  Asking /\ op = "store" =>
    \A p \in Piece : Seen(p) /\ p.frame.kind = "ack" =>
      LET m == p.frame.from IN pending[m] = <<>> /\ stored[m] = script[m]

\* From the acknowledgement on, nothing changes at the target.
TargetOK ==
  op \in {"read", "installed"} /\ target \in Module /\ ~late =>
    /\ stored[target] = script[target]
    /\ \A i \in 1 .. Len(pending[target]) : pending[target][i].kind = "fetch"

\* Module m has what the bundle has for slot s, or had it before it rebooted.
Has(m, s) == script[m][s] = Goal[s] \/ m \in rebooted \ {target}

\* What a report says is so.
ReportOK ==
  Asking /\ op = "read" =>
    \A p \in Piece : Seen(p) /\ p.frame.kind = "report"
                     /\ p.frame.script = Goal[p.frame.slot] =>
      Has(p.frame.from, p.frame.slot)

\* What has been read is so.
FoundOK ==
  op \in {"read", "installed"} /\ ~late =>
    \A k \in 1 .. Len(found) :
      found[k] # None /\ found[k].script = Goal[Slots[k]] =>
        Has(found[k].from, Slots[k])

\* An install to the one module m that nothing has gone wrong with.
Calm(m) == Addressed = {m} /\ ~late /\ ~disturbed

\* What has been sent arrives.
Written(m, s) ==
  \/ script[m][s] = Goal[s]
  \/ \E i \in 1 .. Len(pending[m]) : pending[m][i] = [kind |-> "write", slot |-> s]

WrittenOK ==
  \A m \in Module : Calm(m) =>
    /\ op = "write" => \A k \in 1 .. index - 1 : Written(m, Slots[k])
    /\ op = "store" => \A k \in 1 .. Len(Slots) : Written(m, Slots[k])
    /\ op = "read" => /\ script[m] = Goal
                      /\ \A k \in 1 .. Len(found) :
                           found[k] = [from |-> m, script |-> Goal[Slots[k]]]

\* The right answer to the call that waits.
RightAnswer(m) ==
  IF op = "store" THEN [kind |-> "ack", from |-> m]
  ELSE [kind |-> "report", from |-> m, slot |-> Slots[index],
        script |-> Goal[Slots[index]]]

AskedFor ==
  IF op = "store" THEN [kind |-> "store"] ELSE [kind |-> "fetch", slot |-> Slots[index]]

\* It is yet to be given, or it is all that is on the way and has arrived.
CallOK ==
  \A m \in Module : Calm(m) /\ waiting =>
    /\ \A n \in Module \ {m} : \A i \in 1 .. Len(pending[n]) :
         pending[n][i].kind = "write"
    /\ \/ /\ wire = <<>> /\ input = <<>>
          /\ pending[m] # <<>> /\ pending[m][Len(pending[m])] = AskedFor
       \/ /\ pending[m] = <<>>
          /\ Len(input) + Len(wire) = 3
          /\ \A i \in 1 .. Len(input) : input[i] = Pieces(RightAnswer(m))[i]
          /\ \A i \in 1 .. Len(wire) :
               wire[i] = Pieces(RightAnswer(m))[Len(input) + i]

IInv ==
  /\ Shape
  /\ HostOK
  /\ LastOK
  /\ AckOK
  /\ TargetOK
  /\ ReportOK
  /\ FoundOK
  /\ WrittenOK
  /\ CallOK
  /\ FailureHasOutsideCause

-----------------------------------------------------------------------------
(* Sequences                                                               *)

\* What is left of a sequence when its first is taken.
LEMMA TailFacts ==
  ASSUME NEW S, NEW q \in Seq(S), q # <<>>
  PROVE  /\ Tail(q) \in Seq(S)
         /\ Len(q) \in Nat \ {0} /\ Len(Tail(q)) = Len(q) - 1
         /\ Head(q) = q[1] /\ Head(q) \in S
         /\ \A k \in 1 .. Len(Tail(q)) : Tail(q)[k] = q[k + 1]
  OBVIOUS

\* What a sequence holds when one has joined it.
LEMMA AppendFacts ==
  ASSUME NEW S, NEW q \in Seq(S), NEW x \in S
  PROVE  /\ Append(q, x) \in Seq(S)
         /\ Len(q) \in Nat /\ Len(Append(q, x)) = Len(q) + 1
         /\ Append(q, x)[Len(q) + 1] = x
         /\ \A k \in 1 .. Len(q) : Append(q, x)[k] = q[k]
  OBVIOUS

\* What a sequence holds when another has been put after it.
LEMMA ConcatFacts ==
  ASSUME NEW S, NEW q \in Seq(S), NEW r \in Seq(S)
  PROVE  /\ q \o r \in Seq(S)
         /\ Len(q) \in Nat /\ Len(r) \in Nat /\ Len(q \o r) = Len(q) + Len(r)
         /\ \A k \in 1 .. Len(q) : (q \o r)[k] = q[k]
         /\ \A k \in 1 .. Len(r) : (q \o r)[Len(q) + k] = r[k]
  OBVIOUS

\* The pieces of an answer.
LEMMA PiecesFacts ==
  ASSUME NEW f \in Frame
  PROVE  /\ Pieces(f) \in Seq(Piece) /\ Len(Pieces(f)) = 3
         /\ Pieces(f)[1] = [frame |-> f, part |-> "head"]
         /\ Pieces(f)[2] = [frame |-> f, part |-> "eot"]
         /\ Pieces(f)[3] = [frame |-> f, part |-> "lf"]
         /\ \A i \in 1 .. 3 : Pieces(f)[i] \in Piece /\ Pieces(f)[i].frame = f
<1>1. /\ [frame |-> f, part |-> "head"] \in Piece
      /\ [frame |-> f, part |-> "eot"] \in Piece
      /\ [frame |-> f, part |-> "lf"] \in Piece
  BY DEF Piece
<1>2. QED
  BY <1>1 DEF Pieces

\* An answer goes onto the wire piece by piece.
LEMMA AnswerFacts ==
  ASSUME Shape, NEW f \in Frame, Answer(f)
  PROVE  /\ wire' \in Seq(Piece)
         /\ Len(wire) \in Nat /\ Len(wire') = Len(wire) + 3
         /\ \A i \in 1 .. Len(wire) : wire'[i] = wire[i]
         /\ \A i \in 1 .. 3 : wire'[Len(wire) + i] = Pieces(f)[i]
<1>1. wire \in Seq(Piece) /\ Pieces(f) \in Seq(Piece) /\ Len(Pieces(f)) = 3
  BY PiecesFacts DEF Shape
<1>2. wire' = wire \o Pieces(f)
  BY DEF Answer
<1>3. /\ wire \o Pieces(f) \in Seq(Piece)
      /\ Len(wire) \in Nat /\ Len(wire \o Pieces(f)) = Len(wire) + Len(Pieces(f))
      /\ \A k \in 1 .. Len(wire) : (wire \o Pieces(f))[k] = wire[k]
      /\ \A k \in 1 .. Len(Pieces(f)) :
           (wire \o Pieces(f))[Len(wire) + k] = Pieces(f)[k]
  BY <1>1, ConcatFacts
<1>4. QED
  BY <1>1, <1>2, <1>3

\* A packet reaches whom it is addressed to, or the link is to blame.
LEMMA SendFacts ==
  ASSUME Shape, NEW packet \in Packet, Send(packet)
  PROVE  /\ pending' \in [Module -> Seq(Packet)]
         /\ \A m \in Module : pending'[m] \in {pending[m], Append(pending[m], packet)}
         /\ \A m \in Module \ Addressed : pending'[m] = pending[m]
         /\ faults' \in 0 .. MaxFaults /\ disturbed' \in BOOLEAN
         /\ disturbed => disturbed'
         /\ ~disturbed' => \A m \in Addressed : pending'[m] = Append(pending[m], packet)
         /\ rebooted' = rebooted
<1>1. PICK received \in SUBSET Addressed :
        /\ pending' = [m \in Module |-> IF m \in received THEN Append(pending[m], packet)
                                        ELSE pending[m]]
        /\ IF received = Addressed THEN UNCHANGED <<faults, disturbed>> ELSE Fault
        /\ UNCHANGED rebooted
  BY DEF Send
<1>2. Addressed \subseteq Module
  BY DEF Shape, Addressed
<1>3. ASSUME NEW m \in Module
      PROVE  pending[m] \in Seq(Packet) /\ Append(pending[m], packet) \in Seq(Packet)
  BY <1>3, AppendFacts DEF Shape
<1>4. pending' \in [Module -> Seq(Packet)]
  BY <1>1, <1>3
<1>5. /\ faults' \in 0 .. MaxFaults /\ disturbed' \in BOOLEAN
      /\ disturbed => disturbed'
      /\ ~disturbed' => received = Addressed
  <2>1. CASE received = Addressed
    BY <1>1, <2>1 DEF Shape
  <2>2. CASE received # Addressed
    BY <1>1, <2>2, SlotIOAssumption DEF Fault, Shape
  <2>3. QED
    BY <2>1, <2>2
<1>6. QED
  BY <1>1, <1>2, <1>4, <1>5

\* The slot that the install is at.
LEMMA AtSlot ==
  ASSUME Shape
  PROVE  /\ Len(Slots) \in Nat \ {0}
         /\ index \in Nat
         /\ \A k \in 1 .. Len(Slots) : Slots[k] \in Slot
         /\ Slots[index] \in Slot
  BY SlotIOAssumption DEF Shape

\* A slot has a place in the bundle.
LEMMA SlotsAreAll ==
  ASSUME NEW s \in Slot
  PROVE  \E k \in 1 .. Len(Slots) : Slots[k] = s
  BY SlotIOAssumption DEF Slot, Range

-----------------------------------------------------------------------------
(* Steps                                                                   *)

HostStep ==
  StartInstall \/ WriteSlot \/ AskStore \/ AskFetch \/ EndStore \/ EndRead

DeviceStep ==
  Arrive \/ LosePiece \/ \E m \in Module : HandlePacket(m) \/ Reboot(m)

\* What the calls that ask have in common.
LEMMA AskFacts ==
  ASSUME IInv, AskStore \/ AskFetch
  PROVE  /\ ~waiting /\ waiting'
         /\ op \in {"store", "read"} /\ op' = op
         /\ AskedFor \in Packet /\ AskedFor.kind # "write"
         /\ AskedFor' = AskedFor
         /\ Send(AskedFor)
         /\ input' = <<>> /\ wire' = wire
         /\ late' = (late \/ Outstanding)
         /\ script' = script /\ stored' = stored
         /\ target' = target /\ index' = index /\ found' = found
         /\ attempts' = attempts
<1>1. op \in {"store", "read"} /\ Ask(AskedFor)
  BY DEF AskStore, AskFetch, AskedFor
<1>2. AskedFor \in Packet /\ AskedFor.kind # "write"
  BY AtSlot DEF AskedFor, Packet, IInv
<1>3. op' = op /\ index' = index
  BY <1>1 DEF Ask
<1>4. AskedFor' = AskedFor
  BY <1>3 DEF AskedFor
<1>5. QED
  BY <1>1, <1>2, <1>3, <1>4 DEF Ask, ClearInput

\* What the host does changes no module, and it begins with what it has not read.
LEMMA HostFrame ==
  ASSUME IInv, HostStep
  PROVE  /\ script' = script /\ stored' = stored
         /\ wire' = wire /\ input' = <<>>
         /\ \/ waiting' /\ (AskStore \/ AskFetch)
            \/ ~waiting'
<1>1. CASE StartInstall
  BY <1>1 DEF StartInstall, ClearInput, deviceVars
<1>2. CASE WriteSlot
  BY <1>2 DEF WriteSlot, ClearInput, IInv, HostOK
<1>3. CASE AskStore \/ AskFetch
  BY <1>3, AskFacts
<1>4. CASE EndStore
  BY <1>4 DEF EndStore, CloseWindow, Fail, deviceVars
<1>5. CASE EndRead
  BY <1>5 DEF EndRead, CloseWindow, Fail, deviceVars
<1>6. QED
  BY <1>1, <1>2, <1>3, <1>4, <1>5 DEF HostStep

\* The end of a fetch.
LEMMA EndReadFacts ==
  ASSUME IInv, EndRead
  PROVE  /\ op = "read" /\ waiting /\ ~waiting'
         /\ pending' = pending /\ target' = target /\ late' = late
         /\ rebooted' = rebooted /\ faults' = faults /\ attempts' = attempts
         /\ disturbed' = (disturbed \/ Outstanding)
         /\ \/ /\ op' = "failed" /\ index' = index /\ found' = found
               /\ Cardinality(Reports(Slots[index])) > 1
            \/ \E r \in Read \cup {None} :
                 /\ IF Reports(Slots[index]) = {} THEN r = None
                                                  ELSE r \in Reports(Slots[index])
                 /\ found' = Append(found, r)
                 /\ Len(found') = Len(found) + 1
                 /\ \/ /\ index < Len(Slots) /\ index' = index + 1 /\ op' = "read"
                    \/ /\ index = Len(Slots) /\ index' = 1
                       /\ op' = IF ExactMatch(found') THEN "installed" ELSE "failed"
<1> DEFINE reports == Reports(Slots[index])
           r == IF reports = {} THEN None ELSE CHOOSE x \in reports : TRUE
<1>1. /\ op = "read" /\ waiting /\ ~waiting'
      /\ pending' = pending /\ target' = target /\ late' = late
      /\ rebooted' = rebooted /\ faults' = faults /\ attempts' = attempts
      /\ disturbed' = (disturbed \/ Outstanding)
  BY DEF EndRead, CloseWindow, Fail, deviceVars
<1>2. CASE Cardinality(reports) > 1
  BY <1>1, <1>2 DEF EndRead, Fail
<1>3. CASE ~(Cardinality(reports) > 1)
  <2>1. reports \subseteq Read
    <3>1. ASSUME NEW e \in Received("report")
          PROVE  [from |-> input[e].frame.from, script |-> input[e].frame.script] \in Read
      <4>1. input[e] \in Piece /\ input[e].frame.kind = "report"
        BY <3>1 DEF Received, Ends, IInv, Shape
      <4>2. QED
        BY <4>1 DEF Piece, Frame, Read
    <3>2. QED
      BY <3>1 DEF Reports
  <2>2. r \in Read \cup {None} /\ IF reports = {} THEN r = None ELSE r \in reports
    BY <2>1
  <2>3. /\ found' = Append(found, r)
        /\ Advance(IF Len(Append(found, r)) = Len(Slots) /\ ExactMatch(Append(found, r))
                     THEN "installed" ELSE "failed")
    BY <1>3 DEF EndRead
  <2>4. found \in Seq(Read \cup {None}) /\ Len(found) = index - 1
    BY <1>1 DEF IInv, Shape, HostOK
  <2>5. Len(found') = Len(found) + 1
    BY <2>2, <2>3, <2>4, AppendFacts
  <2>6. index \in 1 .. Len(Slots) /\ Len(Slots) \in Nat
    BY AtSlot DEF IInv, Shape
  <2>7. CASE index < Len(Slots)
    BY <1>1, <2>2, <2>3, <2>5, <2>7 DEF Advance
  <2>8. CASE ~(index < Len(Slots))
    <3>1. index = Len(Slots) /\ Len(found') = Len(Slots)
      BY <2>4, <2>5, <2>6, <2>8
    <3>2. /\ index' = 1
          /\ op' = IF ExactMatch(found') THEN "installed" ELSE "failed"
      BY <2>3, <2>8, <3>1 DEF Advance
    <3>3. QED
      BY <1>1, <2>2, <2>3, <2>5, <3>1, <3>2
  <2>9. QED
    BY <2>7, <2>8
<1>4. QED
  BY <1>2, <1>3

\* A module handles the packet that it has had longest.
LEMMA HandleFacts ==
  ASSUME IInv, NEW m \in Module, HandlePacket(m)
  PROVE  LET packet == pending[m][1] IN
         /\ packet \in Packet
         /\ pending' \in [Module -> Seq(Packet)]
         /\ \A n \in Module \ {m} : pending'[n] = pending[n]
         /\ Len(pending[m]) \in Nat \ {0} /\ Len(pending'[m]) = Len(pending[m]) - 1
         /\ \A i \in 1 .. Len(pending'[m]) : pending'[m][i] = pending[m][i + 1]
         /\ input' = input /\ UNCHANGED hostVars /\ late' = late /\ rebooted' = rebooted
         /\ \/ /\ packet.kind = "write"
               /\ script' = [script EXCEPT ![m][packet.slot] = Goal[packet.slot]]
               /\ UNCHANGED <<stored, wire, faults, disturbed>>
            \/ /\ packet.kind = "fetch"
               /\ Answer([kind |-> "report", from |-> m, slot |-> packet.slot,
                          script |-> script[m][packet.slot]])
               /\ UNCHANGED <<script, stored, faults, disturbed>>
            \/ /\ packet.kind = "store"
               /\ Answer([kind |-> "ack", from |-> m])
               /\ stored' = [stored EXCEPT ![m] = script[m]]
               /\ UNCHANGED <<script, faults, disturbed>>
            \/ /\ packet.kind = "store"
               /\ Answer([kind |-> "nack", from |-> m])
               /\ Fault
               /\ UNCHANGED <<script, stored>>
<1>1. pending[m] # <<>> /\ pending[m] \in Seq(Packet)
  BY DEF HandlePacket, IInv, Shape
<1>2. /\ Tail(pending[m]) \in Seq(Packet)
      /\ Len(pending[m]) \in Nat \ {0} /\ Len(Tail(pending[m])) = Len(pending[m]) - 1
      /\ Head(pending[m]) = pending[m][1] /\ Head(pending[m]) \in Packet
      /\ \A i \in 1 .. Len(Tail(pending[m])) : Tail(pending[m])[i] = pending[m][i + 1]
  BY <1>1, TailFacts
<1>3. pending' = [pending EXCEPT ![m] = Tail(pending[m])]
  BY DEF HandlePacket
<1>4. /\ pending' \in [Module -> Seq(Packet)]
      /\ pending'[m] = Tail(pending[m])
      /\ \A n \in Module \ {m} : pending'[n] = pending[n]
  BY <1>2, <1>3 DEF IInv, Shape
<1>5. QED
  BY <1>2, <1>4 DEF HandlePacket

\* Modules and the link leave the host alone, and only add to what went wrong.
LEMMA DeviceFrame ==
  ASSUME IInv, DeviceStep
  PROVE  /\ UNCHANGED hostVars /\ late' = late
         /\ rebooted \subseteq rebooted'
         /\ disturbed => disturbed'
<1>1. CASE Arrive
  BY <1>1 DEF Arrive, hostVars, historyVars
<1>2. CASE LosePiece
  BY <1>2 DEF LosePiece, Fault
<1>3. ASSUME NEW m \in Module, HandlePacket(m)
      PROVE  /\ UNCHANGED hostVars /\ late' = late
             /\ rebooted \subseteq rebooted'
             /\ disturbed => disturbed'
  BY <1>3 DEF HandlePacket, Fault
<1>4. ASSUME NEW m \in Module, Reboot(m)
      PROVE  /\ UNCHANGED hostVars /\ late' = late
             /\ rebooted \subseteq rebooted'
             /\ disturbed => disturbed'
  BY <1>4 DEF Reboot, Fault
<1>5. QED
  BY <1>1, <1>2, <1>3, <1>4 DEF DeviceStep

-----------------------------------------------------------------------------
(* Steps of the host                                                       *)

\* Shape and the bookkeeping of the host, call by call.
LEMMA HostStepKeepsShape ==
  ASSUME IInv, HostStep
  PROVE  Shape' /\ HostOK'
<1>1. CASE StartInstall
  <2>1. 1 \in 1 .. Len(Slots) /\ Len(Slots) \in Nat
    BY AtSlot DEF IInv
  <2>2. attempts' \in 0 .. MaxAttempts
    BY <1>1, SlotIOAssumption DEF StartInstall, IInv, Shape
  <2>3. Shape'
    <3>1. /\ target' \in Module \cup {Broadcast} /\ op' = "write" /\ index' = 1
          /\ found' = <<>> /\ input' = <<>> /\ wire' = wire /\ rebooted' = {}
          /\ script' = script /\ stored' = stored /\ pending' = pending /\ faults' = faults
      BY <1>1 DEF StartInstall, ClearInput, deviceVars
    <3>2. waiting' \in BOOLEAN /\ late' \in BOOLEAN /\ disturbed' \in BOOLEAN
      BY <1>1 DEF StartInstall
    <3>3. QED
      BY <2>1, <2>2, <3>1, <3>2 DEF IInv, Shape
  <2>4. HostOK'
    BY <1>1, <2>1 DEF StartInstall, HostOK
  <2>5. QED
    BY <2>3, <2>4
<1>2. CASE WriteSlot
  <2>1. [kind |-> "write", slot |-> Slots[index]] \in Packet
    BY AtSlot DEF Packet, IInv
  <2>2. /\ pending' \in [Module -> Seq(Packet)]
        /\ faults' \in 0 .. MaxFaults /\ disturbed' \in BOOLEAN
        /\ rebooted' = rebooted
    BY <1>2, <2>1, SendFacts DEF WriteSlot, IInv
  <2>3. /\ op = "write" /\ index' \in 1 .. Len(Slots) /\ op' \in {"write", "store"}
        /\ found = <<>> /\ found' = found /\ waiting' = waiting
    BY <1>2, AtSlot DEF WriteSlot, Advance, IInv, Shape, HostOK
  <2>4. QED
    BY <1>2, <2>2, <2>3 DEF WriteSlot, ClearInput, IInv, Shape, HostOK
<1>3. CASE AskStore \/ AskFetch
  <2>1. /\ pending' \in [Module -> Seq(Packet)]
        /\ faults' \in 0 .. MaxFaults /\ disturbed' \in BOOLEAN
        /\ rebooted' = rebooted
    BY <1>3, AskFacts, SendFacts DEF IInv
  <2>2. late' \in BOOLEAN
    BY <1>3, AskFacts DEF IInv, Shape
  <2>3. waiting' = TRUE
    BY <1>3 DEF AskStore, AskFetch, Ask
  <2>4. /\ script' = script /\ stored' = stored /\ wire' = wire /\ input' = <<>>
        /\ target' = target /\ op' = op /\ index' = index /\ found' = found
        /\ attempts' = attempts /\ op \in {"store", "read"}
    BY <1>3, AskFacts
  <2>5. Shape'
    BY <2>1, <2>2, <2>3, <2>4 DEF IInv, Shape
  <2>6. HostOK'
    BY <2>3, <2>4 DEF IInv, HostOK
  <2>7. QED
    BY <2>5, <2>6
<1>4. CASE EndStore
  <2>1. /\ op = "store" /\ found = <<>> /\ found' = found /\ waiting' = FALSE
        /\ op' \in {"read", "failed"} /\ index' \in {1, index}
        /\ op' = "read" => index' = 1
    BY <1>4 DEF EndStore, Fail, IInv, HostOK
  <2>2. disturbed' \in BOOLEAN
    BY <1>4 DEF EndStore, CloseWindow, IInv, Shape
  <2>3. 1 \in 1 .. Len(Slots)
    BY AtSlot DEF IInv
  <2>4. /\ script' = script /\ stored' = stored /\ pending' = pending
        /\ wire' = wire /\ input' = <<>> /\ target' = target /\ late' = late
        /\ rebooted' = rebooted /\ faults' = faults /\ attempts' = attempts
    BY <1>4 DEF EndStore, CloseWindow, deviceVars
  <2>5. Shape'
    <3>1. waiting' \in BOOLEAN /\ late' \in BOOLEAN
      BY <2>1, <2>4 DEF IInv, Shape
    <3>2. op' \in {"idle", "write", "store", "read", "installed", "failed"}
          /\ index' \in 1 .. Len(Slots)
      BY <2>1, <2>3 DEF IInv, Shape
    <3>3. found' \in Seq(Read \cup {None})
      BY <2>1 DEF IInv, Shape
    <3>4. QED
      BY <2>2, <2>4, <3>1, <3>2, <3>3 DEF IInv, Shape
  <2>6. Len(found) = 0 /\ Len(Slots) \in Nat
    BY <2>1, AtSlot DEF IInv
  <2>7. HostOK'
    BY <2>1, <2>6 DEF HostOK
  <2>8. QED
    BY <2>5, <2>7
<1>5. CASE EndRead
  <2>1. disturbed' \in BOOLEAN /\ waiting' = FALSE
    BY <1>5 DEF EndRead, CloseWindow, Fail, IInv, Shape
  <2>2. /\ script' = script /\ stored' = stored /\ pending' = pending
        /\ wire' = wire /\ input' = <<>> /\ target' = target /\ late' = late
        /\ rebooted' = rebooted /\ faults' = faults /\ attempts' = attempts
        /\ op = "read"
    BY <1>5, HostFrame, EndReadFacts DEF HostStep
  <2>3. /\ found' \in Seq(Read \cup {None})
        /\ index' \in 1 .. Len(Slots)
        /\ op' \in {"read", "installed", "failed"}
        /\ op' = "read" => Len(found') = index' - 1
        /\ op' = "installed" => Len(found') = Len(Slots) /\ ExactMatch(found')
        /\ Len(found') <= Len(Slots)
    <3>1. /\ found \in Seq(Read \cup {None}) /\ Len(found) = index - 1
          /\ index \in 1 .. Len(Slots) /\ Len(Slots) \in Nat
      BY <2>2, AtSlot DEF IInv, Shape, HostOK
    <3>2. CASE op' = "failed" /\ index' = index /\ found' = found
      BY <3>1, <3>2
    <3>3. CASE \E r \in Read \cup {None} :
                 /\ found' = Append(found, r)
                 /\ Len(found') = Len(found) + 1
                 /\ \/ index < Len(Slots) /\ index' = index + 1 /\ op' = "read"
                    \/ /\ index = Len(Slots) /\ index' = 1
                       /\ op' = IF ExactMatch(found') THEN "installed" ELSE "failed"
      <4>1. found' \in Seq(Read \cup {None}) /\ Len(found') = Len(found) + 1
        BY <3>1, <3>3, AppendFacts
      <4>2. CASE index < Len(Slots) /\ index' = index + 1 /\ op' = "read"
        BY <3>1, <4>1, <4>2
      <4>3. CASE /\ index = Len(Slots) /\ index' = 1
                 /\ op' = IF ExactMatch(found') THEN "installed" ELSE "failed"
        BY <3>1, <4>1, <4>3
      <4>4. QED
        BY <3>3, <4>2, <4>3
    <3>4. QED
      BY <1>5, <3>2, <3>3, EndReadFacts
  <2>4. ExactMatch(found') => ExactMatch(found)'
    BY <2>2 DEF ExactMatch
  <2>5. Shape'
    <3>1. waiting' \in BOOLEAN /\ late' \in BOOLEAN
      BY <2>1, <2>2 DEF IInv, Shape
    <3>2. QED
      BY <2>1, <2>2, <2>3, <3>1 DEF IInv, Shape
  <2>6. HostOK'
    BY <2>1, <2>3, <2>4 DEF HostOK
  <2>7. QED
    BY <2>5, <2>6
<1>6. QED
  BY <1>1, <1>2, <1>3, <1>4, <1>5 DEF HostStep

\* A call that begins in time begins with nothing but writes in the modules'
\* hands, and nothing on its way.
LEMMA InTimeFacts ==
  ASSUME IInv, AskStore \/ AskFetch, ~late'
  PROVE  /\ ~late /\ wire' = <<>> /\ input' = <<>>
         /\ \A m \in Module : \A i \in 1 .. Len(pending[m]) :
              pending[m][i].kind = "write"
<1>1. ~late /\ ~Outstanding
  BY AskFacts
<1>2. QED
  BY <1>1, AskFacts DEF Outstanding

\* So its packet is the last that they get, and nobody has answered yet.
LEMMA HostStepKeepsCalls ==
  ASSUME IInv, HostStep
  PROVE  LastOK' /\ AckOK' /\ ReportOK'
<1> SUFFICES ASSUME waiting', ~late'  PROVE LastOK' /\ AckOK' /\ ReportOK'
  BY DEF LastOK, AckOK, ReportOK, Asking
<1>1. AskStore \/ AskFetch
  BY HostFrame
<1>2. /\ wire' = <<>> /\ input' = <<>>
      /\ \A m \in Module : \A i \in 1 .. Len(pending[m]) : pending[m][i].kind = "write"
  BY <1>1, InTimeFacts
<1>3. AckOK' /\ ReportOK'
  BY <1>2 DEF AckOK, ReportOK, Seen
<1>4. ASSUME NEW m \in Module, NEW i \in 1 .. Len(pending'[m]) - 1
      PROVE  pending'[m][i].kind = "write"
  <2>1. pending[m] \in Seq(Packet) /\ AskedFor \in Packet
    BY <1>1, AskFacts DEF IInv, Shape
  <2>2. pending'[m] \in {pending[m], Append(pending[m], AskedFor)}
    BY <1>1, AskFacts, SendFacts DEF IInv
  <2>3. CASE pending'[m] = pending[m]
    BY <1>2, <1>4, <2>1, <2>3
  <2>4. CASE pending'[m] = Append(pending[m], AskedFor)
    <3>1. i \in 1 .. Len(pending[m]) /\ pending'[m][i] = pending[m][i]
      BY <1>4, <2>1, <2>4, AppendFacts
    <3>2. QED
      BY <1>2, <3>1
  <2>5. QED
    BY <2>2, <2>3, <2>4
<1>5. QED
  BY <1>3, <1>4 DEF LastOK

\* After the acknowledgement of the target, nothing but fetches reach it.
LEMMA HostStepKeepsTarget ==
  ASSUME IInv, HostStep
  PROVE  TargetOK'
<1> SUFFICES ASSUME op' \in {"read", "installed"}, target' \in Module, ~late'
             PROVE  /\ stored'[target'] = script'[target']
                    /\ \A i \in 1 .. Len(pending'[target']) :
                         pending'[target'][i].kind = "fetch"
  BY DEF TargetOK
<1>1. script' = script /\ stored' = stored
  BY HostFrame
<1>2. CASE StartInstall \/ WriteSlot
  BY <1>2 DEF StartInstall, WriteSlot, Advance
<1>3. CASE AskStore \/ AskFetch
  <2>1. op = "read" /\ AskFetch /\ target' = target /\ ~late
    BY <1>3, AskFacts, InTimeFacts DEF AskStore, AskFetch
  <2>2. /\ AskedFor.kind = "fetch" /\ AskedFor \in Packet
        /\ pending'[target] \in {pending[target], Append(pending[target], AskedFor)}
    BY <1>3, <2>1, AskFacts, SendFacts DEF AskedFor, IInv
  <2>3. /\ stored[target] = script[target]
        /\ \A i \in 1 .. Len(pending[target]) : pending[target][i].kind = "fetch"
    BY <2>1 DEF IInv, TargetOK
  <2>4. CASE pending'[target] = pending[target]
    BY <1>1, <2>1, <2>3, <2>4
  <2>5. CASE pending'[target] = Append(pending[target], AskedFor)
    <3>1. /\ Len(pending[target]) \in Nat
          /\ Len(pending'[target]) = Len(pending[target]) + 1
          /\ pending'[target][Len(pending[target]) + 1] = AskedFor
          /\ \A k \in 1 .. Len(pending[target]) : pending'[target][k] = pending[target][k]
      BY <2>1, <2>2, <2>5, AppendFacts DEF IInv, Shape
    <3>2. QED
      BY <1>1, <2>1, <2>2, <2>3, <3>1
  <2>6. QED
    BY <2>2, <2>4, <2>5
<1>4. CASE EndStore
  <2>1. /\ op = "store" /\ waiting /\ Acknowledged
        /\ target' = target /\ late' = late /\ pending' = pending
    BY <1>4 DEF EndStore, CloseWindow, Fail, deviceVars
  <2>2. target # Broadcast
    BY <2>1, SlotIOAssumption
  <2>3. PICK e : e \in Received("ack")
    <3>1. Received("ack") # {}
      BY <2>1, FS_EmptySet DEF Acknowledged
    <3>2. QED
      BY <3>1
  <2>4. input[e].frame.from = target
    BY <2>1, <2>2, <2>3 DEF Acknowledged
  <2>5. /\ e \in 1 .. Len(input) /\ input[e] \in Piece
        /\ input[e].frame.kind = "ack"
    BY <2>3 DEF Received, Ends, IInv, Shape
  <2>6. pending[target] = <<>> /\ stored[target] = script[target]
    <3>1. Asking
      BY <2>1 DEF Asking
    <3>2. Seen(input[e])
      BY <2>5 DEF Seen
    <3>3. QED
      BY <2>1, <2>4, <2>5, <3>1, <3>2 DEF IInv, AckOK
  <2>7. QED
    BY <1>1, <2>1, <2>6
<1>5. CASE EndRead
  BY <1>1, <1>5, EndReadFacts DEF IInv, TargetOK
<1>6. QED
  BY <1>2, <1>3, <1>4, <1>5 DEF HostStep

\* What the host reads is what a module reported.
LEMMA HostStepKeepsFound ==
  ASSUME IInv, HostStep
  PROVE  FoundOK'
<1> SUFFICES ASSUME op' \in {"read", "installed"}, ~late',
                    NEW k \in 1 .. Len(found'),
                    found'[k] # None, found'[k].script = Goal[Slots[k]]
             PROVE  \/ script'[found'[k].from][Slots[k]] = Goal[Slots[k]]
                    \/ found'[k].from \in rebooted' \ {target'}
  BY DEF FoundOK, Has
<1>1. script' = script
  BY HostFrame
<1>2. CASE StartInstall \/ WriteSlot
  BY <1>2 DEF StartInstall, WriteSlot, Advance
<1>3. CASE AskStore \/ AskFetch
  <2>1. op = "read" /\ target' = target /\ ~late /\ found' = found
    BY <1>3, AskFacts, InTimeFacts DEF AskStore, AskFetch
  <2>2. rebooted' = rebooted
    BY <1>3, AskFacts, SendFacts DEF IInv
  <2>3. Has(found[k].from, Slots[k])
    BY <2>1 DEF IInv, FoundOK
  <2>4. QED
    BY <1>1, <2>1, <2>2, <2>3 DEF Has
<1>4. CASE EndStore
  BY <1>4 DEF EndStore, Fail, IInv, HostOK
<1>5. CASE EndRead
  <2>1. /\ op = "read" /\ waiting /\ ~late
        /\ target' = target /\ rebooted' = rebooted
    BY <1>5, EndReadFacts
  <2>2. PICK r \in Read \cup {None} :
          /\ IF Reports(Slots[index]) = {} THEN r = None ELSE r \in Reports(Slots[index])
          /\ found' = Append(found, r)
    BY <1>5, EndReadFacts
  <2>3. /\ found \in Seq(Read \cup {None}) /\ Len(found) = index - 1
        /\ index \in Nat
    BY <2>1, AtSlot DEF IInv, Shape, HostOK
  <2>4. /\ Len(found') = Len(found) + 1 /\ found'[Len(found) + 1] = r
        /\ \A j \in 1 .. Len(found) : found'[j] = found[j]
    BY <2>2, <2>3, AppendFacts
  <2>5. CASE k \in 1 .. Len(found)
    <3>1. Has(found[k].from, Slots[k])
      BY <2>1, <2>4, <2>5 DEF IInv, FoundOK
    <3>2. QED
      BY <1>1, <2>1, <2>4, <2>5, <3>1 DEF Has
  <2>6. CASE k \notin 1 .. Len(found)
    <3>1. k = index /\ found'[k] = r
      BY <2>3, <2>4, <2>6
    <3>2. r \in Reports(Slots[index])
      BY <2>2, <3>1
    <3>3. PICK e \in Received("report") :
            /\ input[e].frame.slot = Slots[index]
            /\ r = [from |-> input[e].frame.from, script |-> input[e].frame.script]
      BY <3>2 DEF Reports
    <3>4. /\ e \in 1 .. Len(input) /\ input[e] \in Piece
          /\ input[e].frame.kind = "report"
      BY <3>3 DEF Received, Ends, IInv, Shape
    <3>5. Seen(input[e]) /\ Asking
      BY <2>1, <3>4 DEF Seen, Asking
    <3>6. Has(r.from, Slots[k])
      <4>1. input[e].frame.script = Goal[input[e].frame.slot]
        BY <3>1, <3>3
      <4>2. Has(input[e].frame.from, input[e].frame.slot)
        BY <2>1, <3>4, <3>5, <4>1 DEF IInv, ReportOK
      <4>3. QED
        BY <3>1, <3>3, <4>2
    <3>7. QED
      BY <1>1, <2>1, <3>1, <3>6 DEF Has
  <2>7. QED
    BY <2>5, <2>6
<1>6. QED
  BY <1>2, <1>3, <1>4, <1>5 DEF HostStep

\* The right answer is an answer of its module.
LEMMA RightAnswerFacts ==
  ASSUME Shape, NEW m \in Module
  PROVE  /\ RightAnswer(m) \in Frame
         /\ RightAnswer(m).from = m
         /\ RightAnswer(m).kind = IF op = "store" THEN "ack" ELSE "report"
<1>1. Slots[index] \in Slot /\ Goal[Slots[index]] \in Script
  BY AtSlot, SlotIOAssumption
<1>2. QED
  BY <1>1 DEF RightAnswer, Frame

\* Once nothing is outstanding, a call that nothing has gone wrong with has its
\* answer, and can pick it out.
LEMMA AnswerArrived ==
  ASSUME IInv, NEW m \in Module, Calm(m), waiting, ~Outstanding
  PROVE  /\ pending[m] = <<>>
         /\ Received(RightAnswer(m).kind) = {3}
         /\ \A kind : kind # RightAnswer(m).kind => Received(kind) = {}
         /\ input[3].frame = RightAnswer(m)
<1> DEFINE f == RightAnswer(m)
<1>1. f \in Frame
  BY RightAnswerFacts DEF IInv
<1>2. /\ Pieces(f) \in Seq(Piece) /\ Len(Pieces(f)) = 3
      /\ Pieces(f)[1] = [frame |-> f, part |-> "head"]
      /\ Pieces(f)[2] = [frame |-> f, part |-> "eot"]
      /\ Pieces(f)[3] = [frame |-> f, part |-> "lf"]
  BY <1>1, PiecesFacts
<1>3. wire = <<>> /\ \A i \in 1 .. Len(pending[m]) : pending[m][i].kind = "write"
  BY DEF Outstanding
<1>4. pending[m] \in Seq(Packet) /\ input \in Seq(Piece)
  BY DEF IInv, Shape
<1>5. AskedFor.kind # "write"
  BY DEF AskedFor
<1>6. ~(pending[m] # <<>> /\ pending[m][Len(pending[m])] = AskedFor)
  BY <1>3, <1>4, <1>5
<1>7. /\ pending[m] = <<>>
      /\ Len(input) + Len(wire) = 3
      /\ \A i \in 1 .. Len(input) : input[i] = Pieces(f)[i]
  BY <1>6 DEF IInv, CallOK
<1>8. Len(input) = 3
  BY <1>3, <1>4, <1>7
<1>9. input = Pieces(f)
  BY <1>2, <1>4, <1>7, <1>8
<1>10. Ends = {3}
  BY <1>2, <1>7, <1>8 DEF Ends
<1>11. input[3].frame = f /\ Intact(3)
  <2>1. SubSeq(input, 1, 3) = input
    BY <1>4, <1>8
  <2>2. QED
    BY <1>2, <1>9, <2>1 DEF Intact
<1>12. QED
  BY <1>7, <1>10, <1>11 DEF Received

\* A step in which nothing goes wrong follows steps in which nothing did.
LEMMA CalmBefore ==
  ASSUME NEW m \in Module, Calm(m)', target' = target, late => late',
         disturbed => disturbed'
  PROVE  Calm(m)
<1>1. Addressed' = Addressed
  BY DEF Addressed
<1>2. Addressed' = {m} /\ ~late' /\ ~disturbed'
  BY DEF Calm
<1>3. QED
  BY <1>1, <1>2 DEF Calm

\* A call in which nothing goes wrong gets its packet across.
LEMMA AskKeepsCalm ==
  ASSUME IInv, AskStore \/ AskFetch, NEW m \in Module, Calm(m)'
  PROVE  Calm(m) /\ \A n \in Addressed : pending'[n] = Append(pending[n], AskedFor)
<1>1. Send(AskedFor) /\ AskedFor \in Packet /\ target' = target
  BY AskFacts
<1>2. late' = (late \/ Outstanding)
  BY AskFacts
<1>3. late => late'
  BY <1>2
<1>4. disturbed => disturbed'
  BY <1>1, SendFacts DEF IInv
<1>5. Calm(m)
  BY <1>1, <1>3, <1>4, CalmBefore
<1>6. ~disturbed'
  BY DEF Calm
<1>7. ~disturbed' => \A n \in Addressed : pending'[n] = Append(pending[n], AskedFor)
  BY <1>1, SendFacts DEF IInv
<1>8. QED
  BY <1>5, <1>6, <1>7

\* Such a fetch has one report, and it says what it should.
LEMMA RightReport ==
  ASSUME IInv, NEW m \in Module, Calm(m), waiting, ~Outstanding, op = "read"
  PROVE  Reports(Slots[index]) = {[from |-> m, script |-> Goal[Slots[index]]]}
<1>1. /\ RightAnswer(m).kind = "report" /\ RightAnswer(m).from = m
      /\ RightAnswer(m).slot = Slots[index]
      /\ RightAnswer(m).script = Goal[Slots[index]]
  BY DEF RightAnswer
<1>2. Received("report") = {3} /\ input[3].frame = RightAnswer(m)
  BY <1>1, AnswerArrived
<1>3. QED
  BY <1>1, <1>2 DEF Reports

\* A packet on its way stays on its way when more are sent.
LEMMA WrittenStays ==
  ASSUME Shape, NEW m \in Module, NEW packet \in Packet, NEW s \in Slot,
         pending'[m] \in {pending[m], Append(pending[m], packet)},
         script' = script, Written(m, s)
  PROVE  \/ script'[m][s] = Goal[s]
         \/ \E i \in 1 .. Len(pending'[m]) : pending'[m][i] = [kind |-> "write", slot |-> s]
<1>1. CASE script[m][s] = Goal[s]
  BY <1>1
<1>2. ASSUME NEW i \in 1 .. Len(pending[m]),
             pending[m][i] = [kind |-> "write", slot |-> s]
      PROVE  \E j \in 1 .. Len(pending'[m]) : pending'[m][j] = [kind |-> "write", slot |-> s]
  <2>1. pending[m] \in Seq(Packet)
    BY DEF Shape
  <2>2. i \in 1 .. Len(pending'[m]) /\ pending'[m][i] = pending[m][i]
    <3>1. CASE pending'[m] = pending[m]
      BY <3>1, <1>2
    <3>2. CASE pending'[m] = Append(pending[m], packet)
      BY <3>2, <1>2, <2>1, AppendFacts
    <3>3. QED
      BY <3>1, <3>2
  <2>3. QED
    BY <1>2, <2>2
<1>3. QED
  BY <1>1, <1>2 DEF Written

\* The host goes on only when the last call has done its work.
LEMMA HostStepKeepsWritten ==
  ASSUME IInv, HostStep
  PROVE  WrittenOK'
<1> SUFFICES ASSUME NEW m \in Module, Calm(m)'
             PROVE
    /\ op' = "write" => \A k \in 1 .. index' - 1 : Written(m, Slots[k])'
    /\ op' = "store" => \A k \in 1 .. Len(Slots) : Written(m, Slots[k])'
    /\ op' = "read" => /\ script'[m] = Goal
                       /\ \A k \in 1 .. Len(found') :
                            found'[k] = [from |-> m, script |-> Goal[Slots[k]]]
  BY DEF WrittenOK
<1>1. CASE StartInstall
  BY <1>1 DEF StartInstall
<1>2. CASE WriteSlot
  <2> DEFINE packet == [kind |-> "write", slot |-> Slots[index]]
  <2>1. packet \in Packet /\ Slots[index] \in Slot
    BY AtSlot DEF Packet, IInv
  <2>2. /\ op = "write" /\ target' = target /\ late' = late
        /\ Send(packet) /\ Advance("store") /\ script' = script
    BY <1>2 DEF WriteSlot
  <2>3. /\ disturbed => disturbed'
        /\ ~disturbed' => \A n \in Addressed : pending'[n] = Append(pending[n], packet)
    BY <2>1, <2>2, SendFacts DEF IInv
  <2>4. Calm(m)
    BY <2>2, <2>3, CalmBefore
  <2>5. m \in Addressed /\ ~disturbed'
    BY <2>4 DEF Calm
  <2>6. pending'[m] = Append(pending[m], packet)
    BY <2>3, <2>5
  <2>7. \A k \in 1 .. index - 1 : Written(m, Slots[k])
    BY <2>2, <2>4 DEF IInv, WrittenOK
  <2>8. /\ Len(Slots) \in Nat /\ index \in 1 .. Len(Slots)
        /\ \A k \in 1 .. Len(Slots) : Slots[k] \in Slot
        /\ pending[m] \in Seq(Packet)
    BY AtSlot DEF IInv, Shape
  <2>9. ASSUME NEW k \in 1 .. index
        PROVE  \/ script'[m][Slots[k]] = Goal[Slots[k]]
               \/ \E i \in 1 .. Len(pending'[m]) :
                    pending'[m][i] = [kind |-> "write", slot |-> Slots[k]]
    <3>1. CASE k = index
      <4>1. /\ Len(pending[m]) \in Nat /\ Len(pending'[m]) = Len(pending[m]) + 1
            /\ pending'[m][Len(pending[m]) + 1] = packet
        BY <2>1, <2>6, <2>8, AppendFacts
      <4>2. Len(pending[m]) + 1 \in 1 .. Len(pending'[m])
        BY <4>1
      <4>3. QED
        BY <3>1, <4>1, <4>2
    <3>2. CASE k # index
      <4>1. k \in 1 .. index - 1 /\ k \in 1 .. Len(Slots)
        BY <2>8, <2>9, <3>2
      <4>2. Written(m, Slots[k]) /\ Slots[k] \in Slot
        BY <2>7, <2>8, <4>1
      <4>3. QED
        BY <2>1, <2>2, <2>6, <4>2, WrittenStays DEF IInv
    <3>3. QED
      BY <3>1, <3>2
  <2>10. \/ index' = index + 1 /\ op' = "write"
         \/ index = Len(Slots) /\ op' = "store"
    BY <2>2, <2>8 DEF Advance
  <2>11. QED
    BY <2>8, <2>9, <2>10 DEF Written
<1>3. CASE AskStore \/ AskFetch
  <2>1. /\ op' = op /\ op \in {"store", "read"} /\ target' = target
        /\ found' = found /\ script' = script /\ AskedFor \in Packet
    BY <1>3, AskFacts
  <2>2. pending'[m] \in {pending[m], Append(pending[m], AskedFor)}
    BY <1>3, AskFacts, SendFacts DEF IInv
  <2>3. Calm(m)
    BY <1>3, AskKeepsCalm
  <2>4. CASE op = "store"
    <3>1. ASSUME NEW k \in 1 .. Len(Slots)
          PROVE  \/ script'[m][Slots[k]] = Goal[Slots[k]]
                 \/ \E i \in 1 .. Len(pending'[m]) :
                      pending'[m][i] = [kind |-> "write", slot |-> Slots[k]]
      <4>1. Slots[k] \in Slot
        BY <3>1, AtSlot DEF IInv
      <4>2. Written(m, Slots[k])
        BY <2>3, <2>4, <3>1 DEF IInv, WrittenOK
      <4>3. QED
        BY <2>1, <2>2, <4>1, <4>2, WrittenStays DEF IInv
    <3>2. QED
      BY <2>1, <2>4, <3>1 DEF Written
  <2>5. CASE op = "read"
    BY <2>1, <2>3, <2>5 DEF IInv, WrittenOK
  <2>6. QED
    BY <2>1, <2>4, <2>5
<1>4. CASE EndStore
  <2>1. /\ op = "store" /\ waiting /\ target' = target /\ late' = late
        /\ disturbed' = (disturbed \/ Outstanding) /\ script' = script
        /\ op' \in {"read", "failed"} /\ found' = found
    BY <1>4 DEF EndStore, CloseWindow, Fail, deviceVars
  <2>2. Calm(m)
    BY <2>1, CalmBefore
  <2>3. ~Outstanding
    BY <2>1 DEF Calm
  <2>4. pending[m] = <<>>
    BY <2>1, <2>2, <2>3, AnswerArrived
  <2>5. script[m] = Goal
    <3>1. ASSUME NEW s \in Slot
          PROVE  script[m][s] = Goal[s]
      <4>1. PICK k \in 1 .. Len(Slots) : Slots[k] = s
        BY <3>1, SlotsAreAll
      <4>2. Written(m, s)
        BY <2>1, <2>2, <4>1 DEF IInv, WrittenOK
      <4>3. QED
        BY <2>4, <4>2 DEF Written
    <3>2. script[m] \in [Slot -> Script] /\ Goal \in [Slot -> Script]
      BY SlotIOAssumption DEF IInv, Shape
    <3>3. QED
      BY <3>1, <3>2
  <2>6. found = <<>>
    BY <2>1 DEF IInv, HostOK
  <2>7. QED
    BY <2>1, <2>5, <2>6
<1>5. CASE EndRead
  <2>1. /\ op = "read" /\ waiting /\ target' = target /\ late' = late
        /\ disturbed' = (disturbed \/ Outstanding)
    BY <1>5, EndReadFacts
  <2>2. script' = script
    BY HostFrame
  <2>3. Calm(m)
    BY <2>1, CalmBefore
  <2>4. ~Outstanding
    BY <2>1 DEF Calm
  <2>5. Reports(Slots[index]) = {[from |-> m, script |-> Goal[Slots[index]]]}
    BY <2>1, <2>3, <2>4, RightReport
  <2>6. /\ script[m] = Goal
        /\ \A k \in 1 .. Len(found) : found[k] = [from |-> m, script |-> Goal[Slots[k]]]
    BY <2>1, <2>3 DEF IInv, WrittenOK
  <2>7. CASE op' = "failed"
    BY <2>7
  <2>8. CASE op' # "failed"
    <3>1. PICK r \in Read \cup {None} :
            /\ IF Reports(Slots[index]) = {} THEN r = None ELSE r \in Reports(Slots[index])
            /\ found' = Append(found, r)
            /\ op' \in {"read", "installed", "failed"}
      BY <1>5, <2>8, EndReadFacts
    <3>2. r = [from |-> m, script |-> Goal[Slots[index]]]
      BY <2>5, <3>1
    <3>3. /\ found \in Seq(Read \cup {None}) /\ Len(found) = index - 1
          /\ index \in Nat
      BY <2>1, AtSlot DEF IInv, Shape, HostOK
    <3>4. /\ Len(found') = Len(found) + 1 /\ found'[Len(found) + 1] = r
          /\ \A k \in 1 .. Len(found) : found'[k] = found[k]
      BY <3>1, <3>3, AppendFacts
    <3>5. ASSUME NEW k \in 1 .. Len(found')
          PROVE  found'[k] = [from |-> m, script |-> Goal[Slots[k]]]
      <4>1. CASE k = index
        BY <3>2, <3>3, <3>4, <4>1
      <4>2. CASE k # index
        <5>1. k \in 1 .. Len(found)
          BY <3>3, <3>4, <3>5, <4>2
        <5>2. QED
          BY <2>6, <3>4, <5>1
      <4>3. QED
        BY <4>1, <4>2
    <3>6. QED
      BY <2>2, <2>6, <3>1, <3>5
  <2>9. QED
    BY <2>7, <2>8
<1>6. QED
  BY <1>1, <1>2, <1>3, <1>4, <1>5 DEF HostStep

\* A call begins with its packet in the hands of the module, behind writes.
LEMMA HostStepKeepsCall ==
  ASSUME IInv, HostStep
  PROVE  CallOK'
<1> SUFFICES ASSUME NEW m \in Module, Calm(m)', waiting'
             PROVE
    /\ \A n \in Module \ {m} : \A i \in 1 .. Len(pending'[n]) :
         pending'[n][i].kind = "write"
    /\ wire' = <<>> /\ input' = <<>>
    /\ pending'[m] # <<>> /\ pending'[m][Len(pending'[m])] = AskedFor'
  BY DEF CallOK
<1>1. AskStore \/ AskFetch
  BY HostFrame
<1>2. ~late' /\ ~disturbed'
  BY DEF Calm
<1>3. /\ wire' = <<>> /\ input' = <<>>
      /\ \A n \in Module : \A i \in 1 .. Len(pending[n]) : pending[n][i].kind = "write"
  BY <1>1, <1>2, InTimeFacts
<1>4. AskedFor \in Packet /\ AskedFor' = AskedFor /\ Send(AskedFor)
  BY <1>1, AskFacts
<1>5. \A n \in Module \ Addressed : pending'[n] = pending[n]
  BY <1>4, SendFacts DEF IInv
<1>6. Addressed = {m} /\ \A n \in Addressed : pending'[n] = Append(pending[n], AskedFor)
  BY <1>1, AskKeepsCalm DEF Calm
<1>7. pending'[m] = Append(pending[m], AskedFor)
      /\ \A n \in Module \ {m} : pending'[n] = pending[n]
  BY <1>5, <1>6
<1>8. pending[m] \in Seq(Packet)
  BY DEF IInv, Shape
<1>9. /\ Len(pending[m]) \in Nat
      /\ Len(pending'[m]) = Len(pending[m]) + 1
      /\ pending'[m][Len(pending[m]) + 1] = AskedFor
      /\ pending'[m] \in Seq(Packet)
  BY <1>4, <1>7, <1>8, AppendFacts
<1>10. pending'[m] # <<>> /\ pending'[m][Len(pending'[m])] = AskedFor
  BY <1>9
<1>11. QED
  BY <1>3, <1>4, <1>7, <1>10

\* If an install fails to no fault of the target, there is one module to blame.
LEMMA OneAddressed ==
  ASSUME Shape, ~(target = Broadcast /\ Cardinality(Module) > 1)
  PROVE  \E m \in Module : Addressed = {m}
<1>1. CASE target # Broadcast
  BY <1>1 DEF Shape, Addressed
<1>2. CASE target = Broadcast
  <2>1. Cardinality(Module) \in Nat /\ Cardinality(Module) # 0
    BY SlotIOAssumption, FS_CardinalityType, FS_EmptySet
  <2>2. Cardinality(Module) = 1
    BY <1>2, <2>1
  <2>3. \E m : Module = {m}
    BY <2>2, SlotIOAssumption, FS_Singleton
  <2>4. QED
    BY <1>2, <2>3 DEF Addressed
<1>3. QED
  BY <1>1, <1>2

\* The host gives up on nothing but the lack of its answers.
LEMMA HostStepKeepsFailure ==
  ASSUME IInv, HostStep
  PROVE  FailureHasOutsideCause'
<1> SUFFICES ASSUME op' = "failed", ~disturbed', ~late',
                    ~(target' = Broadcast /\ Cardinality(Module) > 1)
             PROVE  FALSE
  BY DEF FailureHasOutsideCause
<1>1. EndStore \/ EndRead
  <2>1. ~StartInstall
    BY DEF StartInstall
  <2>2. ~WriteSlot
    BY DEF WriteSlot, Advance
  <2>3. ~(AskStore \/ AskFetch)
    BY AskFacts
  <2>4. QED
    BY <2>1, <2>2, <2>3 DEF HostStep
<1>2. /\ waiting /\ target' = target /\ late' = late
      /\ disturbed' = (disturbed \/ Outstanding)
  BY <1>1 DEF EndStore, EndRead, CloseWindow
<1>3. PICK m \in Module : Addressed = {m}
  BY <1>2, OneAddressed DEF IInv
<1>4. Calm(m) /\ ~Outstanding
  BY <1>2, <1>3 DEF Calm
<1>5. target # Broadcast => target = m
  BY <1>3 DEF Addressed
<1>6. CASE EndStore
  <2>1. op = "store" /\ ~Acknowledged
    BY <1>6 DEF EndStore
  <2>2. RightAnswer(m).kind = "ack" /\ RightAnswer(m).from = m
    BY <2>1 DEF RightAnswer
  <2>3. /\ Received("nack") = {} /\ Received("ack") = {3}
        /\ input[3].frame.from = m
    BY <1>2, <1>4, <2>2, AnswerArrived
  <2>4. Cardinality(Received("ack")) = 1
    BY <2>3, FS_Singleton
  <2>5. QED
    BY <1>5, <2>1, <2>3, <2>4 DEF Acknowledged
<1>7. CASE EndRead
  <2> DEFINE read == [from |-> m, script |-> Goal[Slots[index]]]
  <2>1. op = "read"
    BY <1>7, EndReadFacts
  <2>2. Reports(Slots[index]) = {read}
    BY <1>2, <1>4, <2>1, RightReport
  <2>3. ~(Cardinality(Reports(Slots[index])) > 1)
    <3>1. Cardinality(Reports(Slots[index])) = 1
      BY <2>2, FS_Singleton
    <3>2. QED
      BY <3>1
  <2>4. PICK r \in Reports(Slots[index]) :
          /\ found' = Append(found, r)
          /\ index = Len(Slots) /\ ~ExactMatch(found')
    BY <1>7, <2>2, <2>3, EndReadFacts
  <2>5. /\ \A k \in 1 .. Len(Slots) : Slots[k] \in Slot
        /\ found \in Seq(Read \cup {None}) /\ Len(found) = index - 1
        /\ index \in Nat \ {0}
    BY <2>1, AtSlot DEF IInv, Shape, HostOK
  <2>6. r = read /\ r \in Read
    BY <2>2, <2>4, <2>5, AtSlot, SlotIOAssumption DEF Read, IInv
  <2>7. /\ found'[Len(found) + 1] = r
        /\ \A k \in 1 .. Len(found) : found'[k] = found[k]
    BY <2>4, <2>5, <2>6, AppendFacts
  <2>8. ASSUME NEW k \in 1 .. Len(Slots)
        PROVE  /\ found'[k] # None /\ found'[k].from = m
               /\ found'[k].script = Goal[Slots[k]]
    <3>1. found'[k] = [from |-> m, script |-> Goal[Slots[k]]]
      <4>1. CASE k = index
        BY <2>5, <2>6, <2>7, <4>1
      <4>2. CASE k # index
        <5>1. k \in 1 .. Len(found)
          BY <2>4, <2>5, <2>8, <4>2
        <5>2. found[k] = [from |-> m, script |-> Goal[Slots[k]]]
          BY <1>4, <2>1, <5>1 DEF IInv, WrittenOK
        <5>3. QED
          BY <2>7, <5>1, <5>2
      <4>3. QED
        BY <4>1, <4>2
    <3>2. found'[k] \in [from : Module, script : Script]
      BY <2>5, <3>1, SlotIOAssumption
    <3>3. QED
      BY <3>1, <3>2, SlotIOAssumption
  <2>9. {found'[k].from : k \in 1 .. Len(Slots)} = {m}
    BY <2>4, <2>5, <2>8
  <2>10. Cardinality({found'[k].from : k \in 1 .. Len(Slots)}) = 1
    BY <2>9, FS_Singleton
  <2>11. ExactMatch(found')
    BY <1>5, <2>8, <2>10 DEF ExactMatch
  <2>12. QED
    BY <2>4, <2>11
<1>8. QED
  BY <1>1, <1>6, <1>7

-----------------------------------------------------------------------------
(* Steps of the modules and the link                                       *)

\* On the link, pieces only move or get lost.
LEMMA LinkFacts ==
  ASSUME IInv, Arrive \/ LosePiece
  PROVE  /\ wire' \in Seq(Piece) /\ input' \in Seq(Piece)
         /\ script' = script /\ stored' = stored /\ pending' = pending
         /\ rebooted' = rebooted
         /\ \A p \in Piece : Seen(p)' => Seen(p)
<1>1. wire \in Seq(Piece) /\ input \in Seq(Piece) /\ wire # <<>>
  BY DEF Arrive, LosePiece, IInv, Shape
<1>2. /\ Tail(wire) \in Seq(Piece) /\ Len(wire) \in Nat \ {0}
      /\ Len(Tail(wire)) = Len(wire) - 1
      /\ Head(wire) = wire[1] /\ Head(wire) \in Piece
      /\ \A k \in 1 .. Len(Tail(wire)) : Tail(wire)[k] = wire[k + 1]
  BY <1>1, TailFacts
<1>3. wire' = Tail(wire) /\ input' \in {input, Append(input, wire[1])}
  BY <1>2 DEF Arrive, LosePiece
<1>4. /\ Append(input, wire[1]) \in Seq(Piece)
      /\ Len(input) \in Nat /\ Len(Append(input, wire[1])) = Len(input) + 1
      /\ Append(input, wire[1])[Len(input) + 1] = wire[1]
      /\ \A k \in 1 .. Len(input) : Append(input, wire[1])[k] = input[k]
  BY <1>1, <1>2, AppendFacts
<1>5. ASSUME NEW p \in Piece, Seen(p)'  PROVE Seen(p)
  <2>1. CASE \E i \in 1 .. Len(wire') : wire'[i] = p
    <3>1. PICK i \in 1 .. Len(wire') : wire'[i] = p
      BY <2>1
    <3>2. i + 1 \in 1 .. Len(wire) /\ wire[i + 1] = p
      BY <1>2, <1>3, <3>1
    <3>3. QED
      BY <3>2 DEF Seen
  <2>2. CASE \E i \in 1 .. Len(input') : input'[i] = p
    <3>1. PICK i \in 1 .. Len(input') : input'[i] = p
      BY <2>2
    <3>2. \/ i \in 1 .. Len(input) /\ input[i] = p
          \/ 1 \in 1 .. Len(wire) /\ wire[1] = p
      BY <1>2, <1>3, <1>4, <3>1
    <3>3. QED
      BY <3>2 DEF Seen
  <2>3. QED
    BY <1>5, <2>1, <2>2 DEF Seen
<1>6. QED
  BY <1>1, <1>2, <1>3, <1>4, <1>5 DEF Arrive, LosePiece, deviceVars, historyVars

\* A module that reboots begins with what it has stored, and nothing to do.
LEMMA RebootFacts ==
  ASSUME IInv, NEW m \in Module, Reboot(m)
  PROVE  /\ script' \in [Module -> [Slot -> Script]] /\ script'[m] = stored[m]
         /\ pending' \in [Module -> Seq(Packet)] /\ pending'[m] = <<>>
         /\ \A n \in Module \ {m} : script'[n] = script[n] /\ pending'[n] = pending[n]
         /\ rebooted' = rebooted \cup {m} /\ disturbed'
         /\ stored' = stored /\ wire' = wire /\ input' = input
<1>1. /\ script' = [script EXCEPT ![m] = stored[m]]
      /\ pending' = [pending EXCEPT ![m] = <<>>]
      /\ rebooted' = rebooted \cup {m} /\ stored' = stored
      /\ wire' = wire /\ input' = input
  BY DEF Reboot, linkVars
<1>2. disturbed'
  BY DEF Reboot, Fault
<1>3. /\ script \in [Module -> [Slot -> Script]] /\ stored \in [Module -> [Slot -> Script]]
      /\ pending \in [Module -> Seq(Packet)] /\ <<>> \in Seq(Packet)
  BY DEF IInv, Shape
<1>4. QED
  BY <1>1, <1>2, <1>3

\* A module that handles a packet answers for itself.
LEMMA HandleShape ==
  ASSUME IInv, NEW m \in Module, HandlePacket(m)
  PROVE  /\ script' \in [Module -> [Slot -> Script]]
         /\ stored' \in [Module -> [Slot -> Script]]
         /\ wire' \in Seq(Piece)
         /\ \A n \in Module \ {m} : script'[n] = script[n] /\ stored'[n] = stored[n]
<1> DEFINE packet == pending[m][1]
<1>1. /\ script \in [Module -> [Slot -> Script]] /\ stored \in [Module -> [Slot -> Script]]
      /\ wire \in Seq(Piece)
  BY DEF IInv, Shape
<1>2. packet \in Packet
  BY HandleFacts
<1>3. CASE /\ packet.kind = "write"
           /\ script' = [script EXCEPT ![m][packet.slot] = Goal[packet.slot]]
           /\ UNCHANGED <<stored, wire>>
  <2>1. packet.slot \in Slot
    BY <1>2, <1>3 DEF Packet
  <2>2. Goal[packet.slot] \in Script
    BY <2>1, SlotIOAssumption
  <2>3. QED
    BY <1>1, <1>3, <2>1, <2>2
<1>4. CASE /\ packet.kind = "fetch"
           /\ Answer([kind |-> "report", from |-> m, slot |-> packet.slot,
                      script |-> script[m][packet.slot]])
           /\ UNCHANGED <<script, stored>>
  <2>1. packet.slot \in Slot
    BY <1>2, <1>4 DEF Packet
  <2>2. [kind |-> "report", from |-> m, slot |-> packet.slot,
         script |-> script[m][packet.slot]] \in Frame
    BY <1>1, <2>1 DEF Frame
  <2>3. wire' \in Seq(Piece)
    BY <1>4, <2>2, AnswerFacts DEF IInv
  <2>4. QED
    BY <1>1, <1>4, <2>3
<1>5. ASSUME NEW kind \in {"ack", "nack"}, Answer([kind |-> kind, from |-> m])
      PROVE  wire' \in Seq(Piece)
  <2>1. [kind |-> kind, from |-> m] \in Frame
    BY DEF Frame
  <2>2. QED
    BY <1>5, <2>1, AnswerFacts DEF IInv
<1>6. CASE /\ Answer([kind |-> "ack", from |-> m])
           /\ stored' = [stored EXCEPT ![m] = script[m]]
           /\ UNCHANGED script
  BY <1>1, <1>5, <1>6
<1>7. CASE /\ Answer([kind |-> "nack", from |-> m])
           /\ UNCHANGED <<script, stored>>
  BY <1>1, <1>5, <1>7
<1>8. QED
  BY <1>3, <1>4, <1>6, <1>7, HandleFacts

\* What is seen for the first time is the answer of a module to its packet.
LEMMA NewlySeen ==
  ASSUME IInv, DeviceStep, NEW p \in Piece, Seen(p)', ~Seen(p)
  PROVE  \E m \in Module :
           /\ HandlePacket(m) /\ p.frame.from = m /\ script' = script
           /\ \/ /\ p.frame.kind = "report" /\ pending[m][1].kind = "fetch"
                 /\ p.frame.slot = pending[m][1].slot
                 /\ p.frame.script = script[m][p.frame.slot]
              \/ /\ p.frame.kind = "ack" /\ pending[m][1].kind = "store"
                 /\ stored' = [stored EXCEPT ![m] = script[m]]
              \/ p.frame.kind = "nack"
<1>1. ~(Arrive \/ LosePiece)
  BY LinkFacts
<1>2. ASSUME wire' = wire, input' = input  PROVE FALSE
  BY <1>2 DEF Seen
<1>3. ASSUME NEW m \in Module, Reboot(m)  PROVE FALSE
  BY <1>2, <1>3, RebootFacts
<1>4. PICK m \in Module : HandlePacket(m)
  BY <1>1, <1>3 DEF DeviceStep
<1> DEFINE packet == pending[m][1]
           report == [kind |-> "report", from |-> m, slot |-> packet.slot,
                      script |-> script[m][packet.slot]]
<1>5. input' = input /\ packet \in Packet
  BY <1>4, HandleFacts
<1>6. ASSUME NEW f \in Frame, Answer(f)  PROVE p.frame = f
  <2>1. /\ Len(wire) \in Nat /\ Len(wire') = Len(wire) + 3
        /\ \A i \in 1 .. Len(wire) : wire'[i] = wire[i]
        /\ \A i \in 1 .. 3 : wire'[Len(wire) + i] = Pieces(f)[i]
    BY <1>6, AnswerFacts DEF IInv
  <2>2. PICK i \in 1 .. Len(wire') : wire'[i] = p /\ ~(i \in 1 .. Len(wire))
    BY <1>5, <2>1 DEF Seen
  <2>3. i - Len(wire) \in 1 .. 3 /\ i = Len(wire) + (i - Len(wire))
    BY <2>1, <2>2
  <2>4. p = Pieces(f)[i - Len(wire)]
    BY <2>1, <2>2, <2>3
  <2>5. QED
    BY <1>6, <2>3, <2>4, PiecesFacts
<1>7. CASE packet.kind = "write" /\ wire' = wire
  BY <1>2, <1>5, <1>7
<1>8. CASE packet.kind = "fetch" /\ Answer(report) /\ script' = script
  <2>1. packet.slot \in Slot
    BY <1>5, <1>8 DEF Packet
  <2>2. script[m][packet.slot] \in Script
    BY <2>1 DEF IInv, Shape
  <2>3. report \in Frame
    BY <2>1, <2>2 DEF Frame
  <2>4. p.frame = report
    BY <1>6, <1>8, <2>3
  <2>5. /\ p.frame.kind = "report" /\ p.frame.from = m
        /\ p.frame.slot = packet.slot /\ p.frame.script = script[m][p.frame.slot]
    BY <2>4
  <2>6. QED
    BY <1>4, <1>8, <2>5
<1>9. CASE /\ packet.kind = "store" /\ Answer([kind |-> "ack", from |-> m])
           /\ stored' = [stored EXCEPT ![m] = script[m]] /\ script' = script
  <2>1. [kind |-> "ack", from |-> m] \in Frame
    BY DEF Frame
  <2>2. p.frame = [kind |-> "ack", from |-> m]
    BY <1>6, <1>9, <2>1
  <2>3. p.frame.kind = "ack" /\ p.frame.from = m
    BY <2>2
  <2>4. QED
    BY <1>4, <1>9, <2>3
<1>10. CASE Answer([kind |-> "nack", from |-> m]) /\ script' = script
  <2>1. [kind |-> "nack", from |-> m] \in Frame
    BY DEF Frame
  <2>2. p.frame = [kind |-> "nack", from |-> m]
    BY <1>6, <1>10, <2>1
  <2>3. p.frame.kind = "nack" /\ p.frame.from = m
    BY <2>2
  <2>4. QED
    BY <1>4, <1>10, <2>3
<1>11. QED
  BY <1>4, <1>7, <1>8, <1>9, <1>10, HandleFacts

\* Shape and the bookkeeping of the host, step by step.
LEMMA DeviceStepKeepsShape ==
  ASSUME IInv, DeviceStep
  PROVE  Shape' /\ HostOK'
<1>1. UNCHANGED hostVars /\ late' = late
  BY DeviceFrame
<1>2. /\ script' \in [Module -> [Slot -> Script]]
      /\ stored' \in [Module -> [Slot -> Script]]
      /\ pending' \in [Module -> Seq(Packet)]
      /\ wire' \in Seq(Piece) /\ input' \in Seq(Piece)
      /\ rebooted' \subseteq Module
  <2>1. CASE Arrive \/ LosePiece
    BY <2>1, LinkFacts DEF IInv, Shape
  <2>2. ASSUME NEW m \in Module, HandlePacket(m)
        PROVE  /\ script' \in [Module -> [Slot -> Script]]
               /\ stored' \in [Module -> [Slot -> Script]]
               /\ pending' \in [Module -> Seq(Packet)]
               /\ wire' \in Seq(Piece) /\ input' \in Seq(Piece)
               /\ rebooted' \subseteq Module
    BY <2>2, HandleFacts, HandleShape DEF IInv, Shape
  <2>3. ASSUME NEW m \in Module, Reboot(m)
        PROVE  /\ script' \in [Module -> [Slot -> Script]]
               /\ stored' \in [Module -> [Slot -> Script]]
               /\ pending' \in [Module -> Seq(Packet)]
               /\ wire' \in Seq(Piece) /\ input' \in Seq(Piece)
               /\ rebooted' \subseteq Module
    BY <2>3, RebootFacts DEF IInv, Shape
  <2>4. QED
    BY <2>1, <2>2, <2>3 DEF DeviceStep
<1>3. faults' \in 0 .. MaxFaults /\ disturbed' \in BOOLEAN
  <2>1. \/ UNCHANGED <<faults, disturbed>>
        \/ Fault
    BY DEF DeviceStep, Arrive, LosePiece, HandlePacket, Reboot, historyVars
  <2>2. faults \in 0 .. MaxFaults /\ MaxFaults \in Nat
    BY SlotIOAssumption DEF IInv, Shape
  <2>3. disturbed \in BOOLEAN
    BY DEF IInv, Shape
  <2>4. CASE UNCHANGED <<faults, disturbed>>
    BY <2>2, <2>3, <2>4
  <2>5. CASE Fault
    <3>1. faults' \in 0 .. MaxFaults
      BY <2>2, <2>5 DEF Fault
    <3>2. disturbed' \in BOOLEAN
      BY <2>5 DEF Fault
    <3>3. QED
      BY <3>1, <3>2
  <2>6. QED
    BY <2>1, <2>4, <2>5
<1>4. Shape'
  <2>1. late' \in BOOLEAN /\ waiting' \in BOOLEAN
    BY <1>1 DEF IInv, Shape, hostVars
  <2>2. QED
    BY <1>1, <1>2, <1>3, <2>1 DEF IInv, Shape, hostVars
<1>5. HostOK'
  BY <1>1 DEF IInv, HostOK, hostVars, ExactMatch
<1>6. QED
  BY <1>4, <1>5

\* The packet that waits for an answer stays the last one.
LEMMA DeviceStepKeepsLast ==
  ASSUME IInv, DeviceStep
  PROVE  LastOK'
<1> SUFFICES ASSUME waiting', ~late', NEW n \in Module,
                    NEW i \in 1 .. Len(pending'[n]) - 1
             PROVE  pending'[n][i].kind = "write"
  BY DEF LastOK, Asking
<1>1. \A m \in Module : \A j \in 1 .. Len(pending[m]) - 1 : pending[m][j].kind = "write"
  BY DeviceFrame DEF IInv, LastOK, Asking, hostVars
<1>2. pending[n] \in Seq(Packet)
  BY DEF IInv, Shape
<1>3. CASE Arrive \/ LosePiece
  BY <1>1, <1>3, LinkFacts
<1>4. ASSUME NEW m \in Module, HandlePacket(m)
      PROVE  pending'[n][i].kind = "write"
  <2>1. CASE n = m
    <3>1. /\ Len(pending'[m]) = Len(pending[m]) - 1 /\ Len(pending[m]) \in Nat
          /\ \A j \in 1 .. Len(pending'[m]) : pending'[m][j] = pending[m][j + 1]
      BY <1>4, HandleFacts
    <3>2. i + 1 \in 1 .. Len(pending[m]) - 1 /\ pending'[n][i] = pending[n][i + 1]
      BY <2>1, <3>1
    <3>3. QED
      BY <1>1, <2>1, <3>2
  <2>2. CASE n # m
    <3>1. pending'[n] = pending[n]
      BY <1>4, <2>2, HandleFacts
    <3>2. QED
      BY <1>1, <3>1
  <2>3. QED
    BY <2>1, <2>2
<1>5. ASSUME NEW m \in Module, Reboot(m)
      PROVE  pending'[n][i].kind = "write"
  <2>1. CASE n = m
    BY <1>5, <2>1, RebootFacts
  <2>2. CASE n # m
    BY <1>1, <1>5, <2>2, RebootFacts
  <2>3. QED
    BY <2>1, <2>2
<1>6. QED
  BY <1>3, <1>4, <1>5 DEF DeviceStep

\* A module that has done all and stored it stays as it is, rebooting or not.
LEMMA SettledStays ==
  ASSUME IInv, DeviceStep, NEW n \in Module, pending[n] = <<>>, stored[n] = script[n]
  PROVE  /\ pending'[n] = <<>>
         /\ stored'[n] = stored[n] /\ script'[n] = script[n]
<1>1. CASE Arrive \/ LosePiece
  BY <1>1, LinkFacts
<1>2. ASSUME NEW m \in Module, HandlePacket(m)
      PROVE  /\ pending'[n] = <<>>
             /\ stored'[n] = stored[n] /\ script'[n] = script[n]
  <2>1. n # m
    BY <1>2 DEF HandlePacket
  <2>2. QED
    BY <1>2, <2>1, HandleFacts, HandleShape
<1>3. ASSUME NEW m \in Module, Reboot(m)
      PROVE  /\ pending'[n] = <<>>
             /\ stored'[n] = stored[n] /\ script'[n] = script[n]
  BY <1>3, RebootFacts
<1>4. QED
  BY <1>1, <1>2, <1>3 DEF DeviceStep

\* A module acknowledges a store when it has done it, and had nothing after it.
LEMMA DeviceStepKeepsAck ==
  ASSUME IInv, DeviceStep
  PROVE  AckOK'
<1> SUFFICES ASSUME waiting', ~late', op' = "store", NEW p \in Piece,
                    Seen(p)', p.frame.kind = "ack"
             PROVE  /\ pending'[p.frame.from] = <<>>
                    /\ stored'[p.frame.from] = script'[p.frame.from]
  BY DEF AckOK, Asking
<1>1. Asking /\ op = "store"
  <2>1. waiting' = waiting /\ op' = op
    BY DeviceFrame DEF hostVars
  <2>2. ~late
    BY DeviceFrame
  <2>3. QED
    BY <2>1, <2>2 DEF Asking
<1>2. CASE Seen(p)
  <2>1. pending[p.frame.from] = <<>> /\ stored[p.frame.from] = script[p.frame.from]
    BY <1>1, <1>2 DEF IInv, AckOK
  <2>2. p.frame.from \in Module
    BY DEF Piece, Frame
  <2>3. QED
    BY <2>1, <2>2, SettledStays
<1>3. CASE ~Seen(p)
  <2>1. PICK m \in Module :
          /\ HandlePacket(m) /\ p.frame.from = m /\ script' = script
          /\ pending[m][1].kind = "store"
          /\ stored' = [stored EXCEPT ![m] = script[m]]
    BY <1>3, NewlySeen
  <2>2. /\ Len(pending[m]) \in Nat \ {0} /\ Len(pending'[m]) = Len(pending[m]) - 1
        /\ pending'[m] \in Seq(Packet)
    BY <2>1, HandleFacts
  <2>3. ~(1 \in 1 .. Len(pending[m]) - 1)
    BY <1>1, <2>1 DEF IInv, LastOK
  <2>4. pending'[m] = <<>>
    BY <2>2, <2>3
  <2>5. stored'[m] = script'[m]
    BY <2>1 DEF IInv, Shape
  <2>6. QED
    BY <2>1, <2>4, <2>5
<1>4. QED
  BY <1>2, <1>3

\* Fetches change nothing, and a reboot gives back what is stored.
LEMMA DeviceStepKeepsTarget ==
  ASSUME IInv, DeviceStep
  PROVE  TargetOK'
<1> SUFFICES ASSUME op' \in {"read", "installed"}, target' \in Module, ~late'
             PROVE  /\ stored'[target'] = script'[target']
                    /\ \A i \in 1 .. Len(pending'[target']) :
                         pending'[target'][i].kind = "fetch"
  BY DEF TargetOK
<1>1. target' = target /\ target \in Module
  BY DeviceFrame DEF hostVars
<1>2. /\ stored[target] = script[target]
      /\ \A i \in 1 .. Len(pending[target]) : pending[target][i].kind = "fetch"
  BY <1>1, DeviceFrame DEF IInv, TargetOK, hostVars
<1>3. CASE Arrive \/ LosePiece
  BY <1>1, <1>2, <1>3, LinkFacts
<1>4. ASSUME NEW m \in Module, HandlePacket(m)
      PROVE  /\ stored'[target] = script'[target]
             /\ \A i \in 1 .. Len(pending'[target]) : pending'[target][i].kind = "fetch"
  <2>1. CASE target = m
    <3>1. /\ Len(pending[m]) \in Nat \ {0} /\ Len(pending'[m]) = Len(pending[m]) - 1
          /\ \A i \in 1 .. Len(pending'[m]) : pending'[m][i] = pending[m][i + 1]
      BY <1>4, HandleFacts
    <3>2. pending[m][1].kind = "fetch"
      BY <1>2, <2>1, <3>1
    <3>3. script' = script /\ stored' = stored
      BY <1>4, <3>2, HandleFacts
    <3>4. QED
      BY <1>2, <2>1, <3>1, <3>3
  <2>2. CASE target # m
    BY <1>1, <1>2, <1>4, <2>2, HandleFacts, HandleShape
  <2>3. QED
    BY <2>1, <2>2
<1>5. ASSUME NEW m \in Module, Reboot(m)
      PROVE  /\ stored'[target] = script'[target]
             /\ \A i \in 1 .. Len(pending'[target]) : pending'[target][i].kind = "fetch"
  <2>1. CASE target = m
    BY <1>5, <2>1, RebootFacts
  <2>2. CASE target # m
    BY <1>1, <1>2, <1>5, <2>2, RebootFacts
  <2>3. QED
    BY <2>1, <2>2
<1>6. QED
  BY <1>1, <1>3, <1>4, <1>5 DEF DeviceStep

\* What a module has of the bundle it keeps, unless it reboots; and the target
\* keeps it even then.
LEMMA HasStays ==
  ASSUME IInv, DeviceStep, op \in {"read", "installed"}, ~late,
         NEW n \in Module, NEW s \in Slot, Has(n, s)
  PROVE  \/ script'[n][s] = Goal[s]
         \/ n \in rebooted' \ {target'}
<1>1. target' = target /\ rebooted \subseteq rebooted'
  BY DeviceFrame DEF hostVars
<1>2. CASE n \in rebooted \ {target}
  BY <1>1, <1>2
<1>3. CASE script[n][s] = Goal[s]
  <2>1. CASE Arrive \/ LosePiece
    BY <1>3, <2>1, LinkFacts
  <2>2. ASSUME NEW m \in Module, HandlePacket(m)
        PROVE  script'[n][s] = Goal[s]
    <3>1. CASE script' = script
      BY <1>3, <3>1
    <3>2. CASE script' = [script EXCEPT ![m][pending[m][1].slot] = Goal[pending[m][1].slot]]
      BY <1>3, <3>2 DEF IInv, Shape
    <3>3. QED
      BY <2>2, <3>1, <3>2, HandleFacts
  <2>3. ASSUME NEW m \in Module, Reboot(m)
        PROVE  \/ script'[n][s] = Goal[s]
               \/ n \in rebooted' \ {target'}
    <3>1. CASE n # m
      BY <1>3, <2>3, <3>1, RebootFacts
    <3>2. CASE n = m /\ n # target
      BY <1>1, <2>3, <3>2, RebootFacts
    <3>3. CASE n = m /\ n = target
      <4>1. stored[n] = script[n]
        BY <3>3 DEF IInv, TargetOK
      <4>2. QED
        BY <1>3, <2>3, <3>3, <4>1, RebootFacts
    <3>4. QED
      BY <3>1, <3>2, <3>3
  <2>4. QED
    BY <2>1, <2>2, <2>3 DEF DeviceStep
<1>4. QED
  BY <1>2, <1>3 DEF Has

\* A report says what the slot holds as it is sent.
LEMMA DeviceStepKeepsReport ==
  ASSUME IInv, DeviceStep
  PROVE  ReportOK'
<1> SUFFICES ASSUME waiting', ~late', op' = "read", NEW p \in Piece, Seen(p)',
                    p.frame.kind = "report", p.frame.script = Goal[p.frame.slot]
             PROVE  \/ script'[p.frame.from][p.frame.slot] = Goal[p.frame.slot]
                    \/ p.frame.from \in rebooted' \ {target'}
  BY DEF ReportOK, Asking, Has
<1>1. Asking /\ op = "read" /\ ~late
  <2>1. waiting' = waiting /\ op' = op
    BY DeviceFrame DEF hostVars
  <2>2. ~late
    BY DeviceFrame
  <2>3. QED
    BY <2>1, <2>2 DEF Asking
<1>2. p.frame.from \in Module /\ p.frame.slot \in Slot
  BY DEF Piece, Frame
<1>3. CASE Seen(p)
  <2>1. Has(p.frame.from, p.frame.slot)
    BY <1>1, <1>3 DEF IInv, ReportOK
  <2>2. QED
    BY <1>1, <1>2, <2>1, HasStays
<1>4. CASE ~Seen(p)
  BY <1>4, NewlySeen
<1>5. QED
  BY <1>3, <1>4

\* What the host has read stays so.
LEMMA DeviceStepKeepsFound ==
  ASSUME IInv, DeviceStep
  PROVE  FoundOK'
<1> SUFFICES ASSUME op' \in {"read", "installed"}, ~late',
                    NEW k \in 1 .. Len(found'),
                    found'[k] # None, found'[k].script = Goal[Slots[k]]
             PROVE  \/ script'[found'[k].from][Slots[k]] = Goal[Slots[k]]
                    \/ found'[k].from \in rebooted' \ {target'}
  BY DEF FoundOK, Has
<1>1. op \in {"read", "installed"} /\ found' = found
  BY DeviceFrame DEF hostVars
<1>2. ~late
  BY DeviceFrame
<1>3. Has(found[k].from, Slots[k])
  BY <1>1, <1>2 DEF IInv, FoundOK
<1>4. found[k].from \in Module /\ Slots[k] \in Slot
  <2>1. /\ found \in Seq(Read \cup {None}) /\ Len(found) <= Len(Slots)
        /\ Len(Slots) \in Nat
    BY AtSlot DEF IInv, Shape, HostOK
  <2>2. found[k] \in Read /\ k \in 1 .. Len(Slots)
    BY <1>1, <2>1
  <2>3. QED
    BY <2>2, AtSlot DEF IInv, Read
<1>5. QED
  BY <1>1, <1>2, <1>3, <1>4, HasStays

\* Nothing that goes wrong lets a call go on undisturbed.
LEMMA CalmSteps ==
  ASSUME IInv, DeviceStep, NEW m \in Module, Calm(m)'
  PROVE  /\ Calm(m)
         /\ Arrive \/ \E n \in Module : HandlePacket(n) /\ ~Fault
<1>1. ~disturbed'
  BY DEF Calm
<1>2. ~LosePiece /\ ~Fault /\ \A n \in Module : ~Reboot(n)
  BY <1>1 DEF LosePiece, Reboot, Fault
<1>3. target' = target /\ late' = late
  BY DeviceFrame DEF hostVars
<1>4. disturbed => disturbed'
  BY DeviceFrame
<1>5. Calm(m)
  BY <1>3, <1>4, CalmBefore
<1>6. QED
  BY <1>2, <1>5 DEF DeviceStep

\* A write on its way arrives in the end.
LEMMA WrittenArrives ==
  ASSUME IInv, NEW m \in Module, NEW s \in Slot, Written(m, s),
         Arrive \/ \E n \in Module : HandlePacket(n)
  PROVE  \/ script'[m][s] = Goal[s]
         \/ \E i \in 1 .. Len(pending'[m]) : pending'[m][i] = [kind |-> "write", slot |-> s]
<1>1. CASE Arrive
  BY <1>1, LinkFacts DEF Written
<1>2. ASSUME NEW n \in Module \ {m}, HandlePacket(n)
      PROVE  script'[m] = script[m] /\ pending'[m] = pending[m]
  BY <1>2, HandleFacts, HandleShape
<1>3. CASE HandlePacket(m)
  <2>1. CASE script[m][s] = Goal[s]
    <3>1. CASE script' = script
      BY <2>1, <3>1
    <3>2. CASE script' = [script EXCEPT ![m][pending[m][1].slot] = Goal[pending[m][1].slot]]
      BY <2>1, <3>2 DEF IInv, Shape
    <3>3. QED
      BY <1>3, <3>1, <3>2, HandleFacts
  <2>2. ASSUME NEW i \in 1 .. Len(pending[m]),
               pending[m][i] = [kind |-> "write", slot |-> s]
        PROVE  \/ script'[m][s] = Goal[s]
               \/ \E j \in 1 .. Len(pending'[m]) :
                    pending'[m][j] = [kind |-> "write", slot |-> s]
    <3>1. CASE i = 1
      <4>1. pending[m][1].kind = "write" /\ pending[m][1].slot = s
        BY <2>2, <3>1
      <4>2. script' = [script EXCEPT ![m][s] = Goal[s]]
        BY <1>3, <4>1, HandleFacts
      <4>3. QED
        BY <4>2 DEF IInv, Shape
    <3>2. CASE i # 1
      <4>1. /\ Len(pending[m]) \in Nat \ {0} /\ Len(pending'[m]) = Len(pending[m]) - 1
            /\ \A j \in 1 .. Len(pending'[m]) : pending'[m][j] = pending[m][j + 1]
        BY <1>3, HandleFacts
      <4>2. i - 1 \in 1 .. Len(pending'[m]) /\ pending'[m][i - 1] = pending[m][i]
        BY <2>2, <3>2, <4>1
      <4>3. QED
        BY <2>2, <4>2
    <3>3. QED
      BY <3>1, <3>2
  <2>3. QED
    BY <2>1, <2>2 DEF Written
<1>4. QED
  BY <1>1, <1>2, <1>3 DEF Written

\* What has been written is there, or on its way.
LEMMA DeviceStepKeepsWritten ==
  ASSUME IInv, DeviceStep
  PROVE  WrittenOK'
<1> SUFFICES ASSUME NEW m \in Module, Calm(m)'
             PROVE
    /\ op' = "write" => \A k \in 1 .. index' - 1 : Written(m, Slots[k])'
    /\ op' = "store" => \A k \in 1 .. Len(Slots) : Written(m, Slots[k])'
    /\ op' = "read" => /\ script'[m] = Goal
                       /\ \A k \in 1 .. Len(found') :
                            found'[k] = [from |-> m, script |-> Goal[Slots[k]]]
  BY DEF WrittenOK
<1>1. op' = op /\ index' = index /\ found' = found
  BY DeviceFrame DEF hostVars
<1>2. Calm(m) /\ (Arrive \/ \E n \in Module : HandlePacket(n))
  BY CalmSteps
<1>3. /\ op = "write" => \A k \in 1 .. index - 1 : Written(m, Slots[k])
      /\ op = "store" => \A k \in 1 .. Len(Slots) : Written(m, Slots[k])
      /\ op = "read" => /\ script[m] = Goal
                        /\ \A k \in 1 .. Len(found) :
                             found[k] = [from |-> m, script |-> Goal[Slots[k]]]
  BY <1>2 DEF IInv, WrittenOK
<1>4. ASSUME NEW k \in 1 .. Len(Slots), Written(m, Slots[k])
      PROVE  \/ script'[m][Slots[k]] = Goal[Slots[k]]
             \/ \E i \in 1 .. Len(pending'[m]) :
                  pending'[m][i] = [kind |-> "write", slot |-> Slots[k]]
  <2>1. Slots[k] \in Slot
    BY <1>4, AtSlot DEF IInv
  <2>2. QED
    BY <1>2, <1>4, <2>1, WrittenArrives
<1>5. CASE op = "write"
  <2>1. \A k \in 1 .. index - 1 : k \in 1 .. Len(Slots)
    BY AtSlot DEF IInv, Shape
  <2>2. QED
    BY <1>1, <1>3, <1>4, <1>5, <2>1 DEF Written
<1>6. CASE op = "store"
  BY <1>1, <1>3, <1>4, <1>6 DEF Written
<1>7. CASE op = "read"
  <2>1. script'[m] = Goal
    <3>1. script[m] = Goal
      BY <1>3, <1>7
    <3>2. CASE script' = script
      BY <3>1, <3>2
    <3>3. ASSUME NEW n \in Module, HandlePacket(n),
                 script' = [script EXCEPT ![n][pending[n][1].slot] = Goal[pending[n][1].slot]]
          PROVE  script'[m] = Goal
      BY <3>1, <3>3, SlotIOAssumption DEF IInv, Shape
    <3>4. ASSUME NEW n \in Module, HandlePacket(n)
          PROVE  script'[m] = Goal
      BY <3>2, <3>3, <3>4, HandleFacts
    <3>5. QED
      BY <1>2, <3>2, <3>4, LinkFacts
  <2>2. QED
    BY <1>1, <1>3, <1>7, <2>1
<1>8. QED
  BY <1>1, <1>5, <1>6, <1>7

\* The module that the call waits for handles a packet: the writes, and then the
\* one that asks.
LEMMA RightAnswerGiven ==
  ASSUME IInv, NEW m \in Module, Calm(m), waiting, HandlePacket(m), ~Fault,
         wire = <<>>, pending[m] # <<>>, pending[m][Len(pending[m])] = AskedFor
  PROVE  \/ /\ wire' = <<>>
            /\ pending'[m] # <<>> /\ pending'[m][Len(pending'[m])] = AskedFor
         \/ pending'[m] = <<>> /\ wire' = Pieces(RightAnswer(m))
<1>1. /\ Len(pending[m]) \in Nat \ {0} /\ Len(pending'[m]) = Len(pending[m]) - 1
      /\ \A i \in 1 .. Len(pending'[m]) : pending'[m][i] = pending[m][i + 1]
      /\ pending'[m] \in Seq(Packet)
  BY HandleFacts
<1>2. Asking
  BY DEF Calm, Asking
<1>3. CASE Len(pending[m]) # 1
  <2> DEFINE n == Len(pending[m])
  <2>0. n \in Nat \ {0} /\ n # 1 /\ Len(pending'[m]) = n - 1
    BY <1>1, <1>3
  <2> HIDE DEF n
  <2>1. 1 \in 1 .. n - 1 /\ n - 1 \in 1 .. n - 1
    BY <2>0
  <2>2. pending[m][1].kind = "write"
    BY <1>2, <2>1 DEF IInv, LastOK, n
  <2>3. wire' = wire
    BY <2>2, HandleFacts
  <2>4. Len(pending'[m]) \in 1 .. Len(pending'[m])
    BY <2>0, <2>1
  <2>5. pending'[m][Len(pending'[m])] = pending[m][Len(pending[m])]
    BY <1>1, <2>0, <2>4
  <2>6. pending'[m] # <<>>
    BY <1>1, <2>4
  <2>7. QED
    BY <2>3, <2>5, <2>6
<1>4. CASE Len(pending[m]) = 1
  <2>1. pending'[m] = <<>>
    BY <1>1, <1>4
  <2>2. pending[m][1] = AskedFor
    BY <1>4
  <2>3. RightAnswer(m) \in Frame
    BY RightAnswerFacts DEF IInv
  <2>4. Answer(RightAnswer(m))
    <3>1. CASE op = "store"
      <4>1. pending[m][1].kind = "store"
        BY <2>2, <3>1 DEF AskedFor
      <4>2. Answer([kind |-> "ack", from |-> m])
        BY <4>1, HandleFacts
      <4>3. QED
        BY <3>1, <4>2 DEF RightAnswer
    <3>2. CASE op = "read"
      <4>1. pending[m][1].kind = "fetch" /\ pending[m][1].slot = Slots[index]
        BY <2>2, <3>2 DEF AskedFor
      <4>2. Answer([kind |-> "report", from |-> m, slot |-> Slots[index],
                    script |-> script[m][Slots[index]]])
        BY <4>1, HandleFacts
      <4>3. script[m] = Goal
        BY <3>2 DEF IInv, WrittenOK
      <4>4. QED
        BY <3>2, <4>2, <4>3 DEF RightAnswer
    <3>3. QED
      BY <3>1, <3>2 DEF IInv, HostOK
  <2>5. wire' = Pieces(RightAnswer(m))
    BY <2>3, <2>4, PiecesFacts DEF Answer
  <2>6. QED
    BY <2>1, <2>5
<1>5. QED
  BY <1>3, <1>4

\* Undisturbed, a call gets its answer and nothing else.
LEMMA DeviceStepKeepsCall ==
  ASSUME IInv, DeviceStep
  PROVE  CallOK'
<1> SUFFICES ASSUME NEW m \in Module, Calm(m)', waiting'
             PROVE
    /\ \A n \in Module \ {m} : \A i \in 1 .. Len(pending'[n]) :
         pending'[n][i].kind = "write"
    /\ \/ /\ wire' = <<>> /\ input' = <<>>
          /\ pending'[m] # <<>> /\ pending'[m][Len(pending'[m])] = AskedFor'
       \/ /\ pending'[m] = <<>>
          /\ Len(input') + Len(wire') = 3
          /\ \A i \in 1 .. Len(input') : input'[i] = Pieces(RightAnswer(m)')[i]
          /\ \A i \in 1 .. Len(wire') :
               wire'[i] = Pieces(RightAnswer(m)')[Len(input') + i]
  BY DEF CallOK, Pieces
<1> DEFINE f == RightAnswer(m)
<1>1. op' = op /\ index' = index
  BY DeviceFrame DEF hostVars
<1>2. waiting
  <2>1. waiting' = waiting
    BY DeviceFrame DEF hostVars
  <2>2. QED
    BY <2>1
<1>3. AskedFor' = AskedFor /\ RightAnswer(m)' = f
  BY <1>1 DEF AskedFor, RightAnswer
<1>4. Calm(m) /\ (Arrive \/ \E n \in Module : HandlePacket(n) /\ ~Fault)
  BY CalmSteps
<1>5. /\ \A n \in Module \ {m} : \A i \in 1 .. Len(pending[n]) : pending[n][i].kind = "write"
      /\ \/ /\ wire = <<>> /\ input = <<>>
            /\ pending[m] # <<>> /\ pending[m][Len(pending[m])] = AskedFor
         \/ /\ pending[m] = <<>>
            /\ Len(input) + Len(wire) = 3
            /\ \A i \in 1 .. Len(input) : input[i] = Pieces(f)[i]
            /\ \A i \in 1 .. Len(wire) : wire[i] = Pieces(f)[Len(input) + i]
  BY <1>2, <1>4 DEF IInv, CallOK
<1>6. wire \in Seq(Piece) /\ input \in Seq(Piece)
  BY DEF IInv, Shape
<1>7. Len(Pieces(f)) = 3 /\ Pieces(f) \in Seq(Piece)
  BY RightAnswerFacts, PiecesFacts DEF IInv
<1>8. CASE Arrive
  <2>1. wire # <<>> /\ input' = Append(input, Head(wire)) /\ wire' = Tail(wire)
        /\ pending' = pending
    BY <1>8 DEF Arrive, deviceVars
  <2>2. /\ Len(wire) \in Nat \ {0} /\ Len(wire') = Len(wire) - 1
        /\ Head(wire) = wire[1] /\ Head(wire) \in Piece
        /\ \A k \in 1 .. Len(wire') : wire'[k] = wire[k + 1]
    BY <1>6, <2>1, TailFacts
  <2>3. /\ Len(input) \in Nat /\ Len(input') = Len(input) + 1
        /\ input'[Len(input) + 1] = wire[1]
        /\ \A k \in 1 .. Len(input) : input'[k] = input[k]
    BY <1>6, <2>1, <2>2, AppendFacts
  <2>4. /\ pending[m] = <<>>
        /\ Len(input) + Len(wire) = 3
        /\ \A i \in 1 .. Len(input) : input[i] = Pieces(f)[i]
        /\ \A i \in 1 .. Len(wire) : wire[i] = Pieces(f)[Len(input) + i]
    BY <1>5, <2>1
  <2>5. ASSUME NEW i \in 1 .. Len(input')  PROVE input'[i] = Pieces(f)[i]
    <3>1. CASE i \in 1 .. Len(input)
      BY <2>3, <2>4, <3>1
    <3>2. CASE i = Len(input) + 1
      BY <2>2, <2>3, <2>4, <3>2
    <3>3. QED
      BY <2>3, <2>5, <3>1, <3>2
  <2>6. ASSUME NEW i \in 1 .. Len(wire')  PROVE wire'[i] = Pieces(f)[Len(input') + i]
    <3>1. i + 1 \in 1 .. Len(wire) /\ Len(input) + (i + 1) = Len(input') + i
      BY <2>2, <2>3, <2>6
    <3>2. wire[i + 1] = Pieces(f)[Len(input) + (i + 1)]
      BY <2>4, <3>1
    <3>3. QED
      BY <2>2, <2>6, <3>1, <3>2
  <2>7. Len(input') + Len(wire') = 3
    BY <2>2, <2>3, <2>4
  <2>8. QED
    BY <1>3, <1>5, <2>1, <2>4, <2>5, <2>6, <2>7
<1>9. ASSUME NEW n \in Module, HandlePacket(n), ~Fault
      PROVE  /\ \A o \in Module \ {m} : \A i \in 1 .. Len(pending'[o]) :
                  pending'[o][i].kind = "write"
             /\ \/ /\ wire' = <<>> /\ input' = <<>>
                   /\ pending'[m] # <<>> /\ pending'[m][Len(pending'[m])] = AskedFor
                \/ /\ pending'[m] = <<>>
                   /\ Len(input') + Len(wire') = 3
                   /\ \A i \in 1 .. Len(input') : input'[i] = Pieces(f)[i]
                   /\ \A i \in 1 .. Len(wire') : wire'[i] = Pieces(f)[Len(input') + i]
  <2>1. /\ Len(pending[n]) \in Nat \ {0} /\ Len(pending'[n]) = Len(pending[n]) - 1
        /\ \A i \in 1 .. Len(pending'[n]) : pending'[n][i] = pending[n][i + 1]
        /\ \A o \in Module \ {n} : pending'[o] = pending[o]
        /\ input' = input
    BY <1>9, HandleFacts
  <2>2. ASSUME NEW o \in Module \ {m}, NEW i \in 1 .. Len(pending'[o])
        PROVE  pending'[o][i].kind = "write"
    <3>1. CASE o = n
      <4>1. i + 1 \in 1 .. Len(pending[o]) /\ pending'[o][i] = pending[o][i + 1]
        BY <2>1, <2>2, <3>1
      <4>2. QED
        BY <1>5, <4>1
    <3>2. CASE o # n
      <4>1. pending'[o] = pending[o]
        BY <2>1, <3>2
      <4>2. QED
        BY <1>5, <2>2, <4>1
    <3>3. QED
      BY <3>1, <3>2
  <2>3. CASE n # m
    <3>1. pending[n][1].kind = "write"
      BY <1>5, <2>1, <2>3
    <3>2. wire' = wire
      BY <1>9, <3>1, HandleFacts
    <3>3. pending'[m] = pending[m]
      BY <2>1, <2>3
    <3>4. QED
      BY <1>5, <2>1, <2>2, <3>2, <3>3
  <2>4. CASE n = m
    <3>1. pending[m] # <<>>
      BY <1>9, <2>4 DEF HandlePacket
    <3>2. /\ wire = <<>> /\ input = <<>>
          /\ pending[m][Len(pending[m])] = AskedFor
      BY <1>5, <3>1
    <3>3. \/ /\ wire' = <<>>
             /\ pending'[m] # <<>> /\ pending'[m][Len(pending'[m])] = AskedFor
          \/ pending'[m] = <<>> /\ wire' = Pieces(f)
      BY <1>2, <1>4, <1>9, <2>4, <3>1, <3>2, RightAnswerGiven
    <3>4. CASE pending'[m] = <<>> /\ wire' = Pieces(f)
      <4>1. Len(input') = 0 /\ Len(wire') = 3
        BY <1>7, <2>1, <3>2, <3>4
      <4>2. \A i \in 1 .. Len(wire') : wire'[i] = Pieces(f)[Len(input') + i]
        BY <3>4, <4>1
      <4>3. QED
        BY <2>2, <3>4, <4>1, <4>2
    <3>5. QED
      BY <2>1, <2>2, <3>2, <3>3, <3>4
  <2>5. QED
    BY <2>3, <2>4
<1>10. QED
  BY <1>3, <1>4, <1>8, <1>9

-----------------------------------------------------------------------------
(* The invariant                                                           *)

\* It holds as the host has yet to begin.
LEMMA InitIInv ==
  ASSUME Init
  PROVE  IInv
<1>1. Shape
  <2>1. /\ pending \in [Module -> Seq(Packet)] /\ 1 \in 1 .. Len(Slots)
        /\ 0 \in 0 .. MaxAttempts /\ 0 \in 0 .. MaxFaults
    BY SlotIOAssumption DEF Init
  <2>2. waiting \in BOOLEAN /\ late \in BOOLEAN /\ disturbed \in BOOLEAN
    BY DEF Init
  <2>3. QED
    BY <2>1, <2>2 DEF Init, Shape
<1>2. HostOK
  BY SlotIOAssumption DEF Init, HostOK
<1>3. LastOK /\ AckOK /\ TargetOK /\ ReportOK /\ FoundOK
  BY DEF Init, LastOK, AckOK, TargetOK, ReportOK, FoundOK, Asking
<1>4. WrittenOK /\ CallOK /\ FailureHasOutsideCause
  BY DEF Init, WrittenOK, CallOK, FailureHasOutsideCause
<1>5. QED
  BY <1>1, <1>2, <1>3, <1>4 DEF IInv

\* It depends on nothing else.
LEMMA StutterKeepsIInv ==
  ASSUME IInv, UNCHANGED vars
  PROVE  IInv'
<1>1. /\ script' = script /\ stored' = stored /\ pending' = pending
      /\ wire' = wire /\ input' = input /\ target' = target /\ op' = op
      /\ index' = index /\ waiting' = waiting /\ found' = found
      /\ attempts' = attempts /\ late' = late /\ faults' = faults
      /\ disturbed' = disturbed /\ rebooted' = rebooted
  BY DEF vars, deviceVars, linkVars, hostVars, historyVars
<1>2. Shape' /\ HostOK'
  BY <1>1 DEF IInv, Shape, HostOK, ExactMatch
<1>3. LastOK' /\ AckOK' /\ TargetOK'
  BY <1>1 DEF IInv, LastOK, AckOK, TargetOK, Asking, Seen
<1>4. ReportOK' /\ FoundOK'
  BY <1>1 DEF IInv, ReportOK, FoundOK, Asking, Seen, Has
<1>5. WrittenOK' /\ FailureHasOutsideCause'
  BY <1>1 DEF IInv, WrittenOK, FailureHasOutsideCause, Written, Calm, Addressed
<1>6. CallOK'
  BY <1>1 DEF IInv, CallOK, Calm, Addressed, AskedFor, RightAnswer, Pieces
<1>7. QED
  BY <1>2, <1>3, <1>4, <1>5, <1>6 DEF IInv

\* It holds after every step.
LEMMA StepKeepsIInv ==
  ASSUME IInv, [Next]_vars
  PROVE  IInv'
<1>1. CASE HostStep
  <2>1. Shape' /\ HostOK' /\ LastOK' /\ AckOK' /\ TargetOK' /\ ReportOK' /\ FoundOK'
    BY <1>1, HostStepKeepsShape, HostStepKeepsCalls, HostStepKeepsTarget,
       HostStepKeepsFound
  <2>2. WrittenOK' /\ CallOK' /\ FailureHasOutsideCause'
    BY <1>1, HostStepKeepsWritten, HostStepKeepsCall, HostStepKeepsFailure
  <2>3. QED
    BY <2>1, <2>2 DEF IInv
<1>2. CASE DeviceStep
  <2>1. Shape' /\ HostOK' /\ LastOK' /\ AckOK' /\ TargetOK' /\ ReportOK' /\ FoundOK'
    BY <1>2, DeviceStepKeepsShape, DeviceStepKeepsLast, DeviceStepKeepsAck,
       DeviceStepKeepsTarget, DeviceStepKeepsReport, DeviceStepKeepsFound
  <2>2. WrittenOK' /\ CallOK'
    BY <1>2, DeviceStepKeepsWritten, DeviceStepKeepsCall
  <2>3. FailureHasOutsideCause'
    <3>1. op' = op /\ target' = target /\ late' = late
      BY <1>2, DeviceFrame DEF hostVars
    <3>2. disturbed => disturbed'
      BY <1>2, DeviceFrame
    <3>3. QED
      BY <3>1, <3>2 DEF IInv, FailureHasOutsideCause
  <2>4. QED
    BY <2>1, <2>2, <2>3 DEF IInv
<1>3. QED
  BY <1>1, <1>2, StutterKeepsIInv DEF Next, HostStep, DeviceStep

\* IInv holds in every state of every install.
THEOREM Invariance == Spec => []IInv
<1>1. Init => IInv
  BY InitIInv
<1>2. IInv /\ [Next]_vars => IInv'
  BY StepKeepsIInv
<1>3. QED
  BY <1>1, <1>2, PTL DEF Spec

-----------------------------------------------------------------------------
(* What it is for                                                          *)

\* Every variable has the shape its declaration describes.
THEOREM TypeCorrect == Spec => []TypeOK
<1>1. IInv => TypeOK
  <2> SUFFICES ASSUME IInv  PROVE TypeOK
    OBVIOUS
  <2>1. \A m \in Module : Range(pending[m]) \subseteq Packet
    BY DEF IInv, Shape, Range
  <2>2. Range(wire) \cup Range(input) \subseteq Piece
    BY DEF IInv, Shape, Range
  <2>3. Range(found) \subseteq [from : Module, script : Script] \cup {None}
    BY DEF IInv, Shape, Range, Read
  <2>4. waiting \in BOOLEAN /\ late \in BOOLEAN /\ disturbed \in BOOLEAN
    BY DEF IInv, Shape
  <2>5. QED
    BY <2>1, <2>2, <2>3, <2>4 DEF IInv, Shape, HostOK, TypeOK
<1>2. QED
  BY <1>1, Invariance, PTL

\* An install that names its module and succeeds is on that module, in use and
\* stored, unless an answer to an earlier call came late.
THEOREM OnTarget == Spec => []InstalledOnTarget
<1>1. IInv => InstalledOnTarget
  <2> SUFFICES ASSUME IInv, op = "installed", target \in Module, ~late
               PROVE  script[target] = Goal /\ stored[target] = Goal
    BY DEF InstalledOnTarget
  <2>1. Len(found) = Len(Slots) /\ ExactMatch(found) /\ target # Broadcast
    BY SlotIOAssumption DEF IInv, HostOK
  <2>2. stored[target] = script[target]
    BY DEF IInv, TargetOK
  <2>3. ASSUME NEW s \in Slot  PROVE script[target][s] = Goal[s]
    <3>1. PICK k \in 1 .. Len(Slots) : Slots[k] = s
      BY <2>3, SlotsAreAll
    <3>2. found[k] # None /\ found[k].script = Goal[Slots[k]] /\ found[k].from = target
      BY <2>1, <3>1 DEF ExactMatch
    <3>3. Has(target, s)
      BY <2>1, <3>1, <3>2 DEF IInv, FoundOK
    <3>4. QED
      BY <3>3 DEF Has
  <2>4. script[target] \in [Slot -> Script] /\ Goal \in [Slot -> Script]
    BY SlotIOAssumption DEF IInv, Shape
  <2>5. script[target] = Goal
    BY <2>3, <2>4
  <2>6. QED
    BY <2>2, <2>5
<1>2. QED
  BY <1>1, Invariance, PTL

\* A broadcast install that succeeds is in use on one module, which reported all
\* of it, unless that module lost power since.
THEOREM OnOneModule == Spec => []InstalledOnOneModule
<1>1. IInv => InstalledOnOneModule
  <2> SUFFICES ASSUME IInv, op = "installed", ~late
               PROVE  \E m \in Module :
                        /\ \A i \in 1 .. Len(Slots) : found[i].from = m
                        /\ script[m] = Goal \/ m \in rebooted
    BY DEF InstalledOnOneModule
  <2>1. Len(found) = Len(Slots) /\ ExactMatch(found)
    BY DEF IInv, HostOK
  <2>2. Len(Slots) \in Nat \ {0} /\ 1 \in 1 .. Len(Slots)
    BY AtSlot DEF IInv
  <2>3. ASSUME NEW k \in 1 .. Len(Slots)
        PROVE  /\ found[k] \in Read
               /\ Has(found[k].from, Slots[k])
    <3>1. found[k] # None /\ found[k].script = Goal[Slots[k]] /\ k \in 1 .. Len(found)
      BY <2>1, <2>3 DEF ExactMatch
    <3>2. found[k] \in Read
      BY <3>1 DEF IInv, Shape
    <3>3. QED
      BY <3>1, <3>2 DEF IInv, FoundOK
  <2> DEFINE m == found[1].from
  <2>4. m \in Module
    BY <2>2, <2>3 DEF Read
  <2>5. ASSUME NEW i \in 1 .. Len(Slots)  PROVE found[i].from = m
    <3>1. CASE target # Broadcast
      BY <2>1, <2>2, <2>5, <3>1 DEF ExactMatch
    <3>2. CASE target = Broadcast
      <4> DEFINE froms == {found[j].from : j \in 1 .. Len(Slots)}
      <4>1. froms \subseteq Module
        BY <2>3 DEF Read
      <4>2. IsFiniteSet(froms) /\ Cardinality(froms) = 1
        BY <2>1, <3>2, <4>1, SlotIOAssumption, FS_Subset DEF ExactMatch
      <4>3. PICK o : froms = {o}
        BY <4>2, FS_Singleton
      <4>4. found[i].from \in froms /\ found[1].from \in froms
        BY <2>2, <2>5
      <4>5. QED
        BY <4>3, <4>4
    <3>3. QED
      BY <3>1, <3>2
  <2>6. script[m] = Goal \/ m \in rebooted
    <3> SUFFICES ASSUME m \notin rebooted  PROVE script[m] = Goal
      OBVIOUS
    <3>1. ASSUME NEW s \in Slot  PROVE script[m][s] = Goal[s]
      <4>1. PICK k \in 1 .. Len(Slots) : Slots[k] = s
        BY <3>1, SlotsAreAll
      <4>2. Has(found[k].from, s) /\ found[k].from = m
        BY <2>3, <2>5, <4>1
      <4>3. QED
        BY <4>2 DEF Has
    <3>2. script[m] \in [Slot -> Script] /\ Goal \in [Slot -> Script]
      BY <2>4, SlotIOAssumption DEF IInv, Shape
    <3>3. QED
      BY <3>1, <3>2
  <2>7. QED
    BY <2>4, <2>5, <2>6
<1>2. QED
  BY <1>1, Invariance, PTL

\* An install fails only if something went wrong on the link or in a module, an
\* answer came late, or a broadcast had several modules to answer it.
THEOREM OutsideCause == Spec => []FailureHasOutsideCause
<1>1. IInv => FailureHasOutsideCause
  BY DEF IInv
<1>2. QED
  BY <1>1, Invariance, PTL
=============================================================================
