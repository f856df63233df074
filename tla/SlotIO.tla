------------------------------- MODULE SlotIO -------------------------------
(***************************************************************************)
(* install_runtime_bundle of src/src/runtime.rs on the wire: every slot is *)
(* written, the page is stored, every slot is fetched and compared.  The   *)
(* modules of the grid handle packets in order but in their own time.      *)
(* Packets get lost, answers arrive in pieces, lose bytes, or come after   *)
(* the host stopped reading, in a later call or a later invocation; each   *)
(* call first clears the input, and picks its answer out of what arrived   *)
(* by framing, checksum and location.  RuntimeLifecycle takes the outcomes *)
(* of these calls for granted.                                             *)
(***************************************************************************)
EXTENDS Naturals, Sequences, FiniteSets, SequencesExt

CONSTANTS
  Module,       \* grid modules behind the serial port
  Broadcast,    \* the target that addresses all of them
  Slots,        \* the slots of the bundle in install order, all on one page
  Script,       \* contents of slots
  Goal,         \* Goal[s]: what slot s holds once the bundle is written
  None,         \* no report
  MaxAttempts,  \* bound: how many installs are tried
  MaxFaults     \* bound: how often a device or the link misbehaves

Slot == Range(Slots)

\* Behind a serial port there is a module.
ASSUME SlotIOAssumption ==
  /\ IsFiniteSet(Module) /\ Module # {}
  /\ Slots \in Seq(Slot) /\ Slots # <<>>
  /\ Goal \in [Slot -> Script]
  /\ Broadcast \notin Module
  /\ None \notin [from : Module, script : Script]
  /\ MaxAttempts \in Nat
  /\ MaxFaults \in Nat

VARIABLES
  script,     \* script[m]: what the slots of module m hold
  stored,     \* stored[m]: what m boots with
  pending,    \* pending[m]: the packets that m has yet to handle
  wire,       \* the pieces of answers on their way to the host
  input,      \* those that arrived: in the port's buffer, or read by the call
  target,     \* whom the install addresses
  op,         \* what the install is doing
  index,      \* the slot it is at
  waiting,    \* whether it reads until idle
  found,      \* the reads it has made: what each slot reported, or None
  attempts,   \* how many installs there have been
  late,       \* history: an answer was outstanding as a call of it began
  faults,     \* how often a device or the link has misbehaved
  disturbed,  \* history: a packet, an answer or a store went wrong during it
  rebooted    \* history: the modules that rebooted during it

deviceVars == <<script, stored, pending>>
linkVars == <<wire, input>>
hostVars == <<target, op, index, waiting, found, attempts>>
historyVars == <<late, faults, disturbed, rebooted>>
vars == <<deviceVars, linkVars, hostVars, historyVars>>

\* What the host sends, and what a module answers.
Packet == [kind : {"write", "fetch"}, slot : Slot] \cup [kind : {"store"}]
Frame == [kind : {"report"}, from : Module, slot : Slot, script : Script]
           \cup [kind : {"ack", "nack"}, from : Module]

\* An answer on the wire: all up to its last class block, EOT and checksum,
\* the final LF.
Piece == [frame : Frame, part : {"head", "eot", "lf"}]
Pieces(f) == <<[frame |-> f, part |-> "head"], [frame |-> f, part |-> "eot"],
               [frame |-> f, part |-> "lf"]>>

\* Type invariant: every variable has the shape its declaration describes.
TypeOK ==
  /\ script \in [Module -> [Slot -> Script]]
  /\ stored \in [Module -> [Slot -> Script]]
  /\ \A m \in Module : Range(pending[m]) \subseteq Packet
  /\ Range(wire) \cup Range(input) \subseteq Piece
  /\ target \in Module \cup {Broadcast}
  /\ op \in {"idle", "write", "store", "read", "installed", "failed"}
  /\ index \in 1 .. Len(Slots)
  /\ waiting \in BOOLEAN
  /\ Range(found) \subseteq [from : Module, script : Script] \cup {None}
  /\ Len(found) <= Len(Slots)
  /\ attempts \in 0 .. MaxAttempts
  /\ late \in BOOLEAN
  /\ faults \in 0 .. MaxFaults
  /\ disturbed \in BOOLEAN
  /\ rebooted \subseteq Module

Init ==
  /\ script \in [Module -> [Slot -> Script]]
  /\ \A m \in Module, s \in Slot : script[m][s] # Goal[s]
  /\ stored = script
  /\ pending = [m \in Module |-> <<>>]
  /\ wire = <<>>
  /\ input = <<>>
  /\ target = Broadcast
  /\ op = "idle"
  /\ index = 1
  /\ waiting = FALSE
  /\ found = <<>>
  /\ attempts = 0
  /\ late = FALSE
  /\ faults = 0
  /\ disturbed = FALSE
  /\ rebooted = {}

-----------------------------------------------------------------------------
(* Sending                                                                 *)

Addressed == IF target = Broadcast THEN Module ELSE {target}

\* A device or the link misbehaves.
Fault ==
  /\ faults < MaxFaults
  /\ faults' = faults + 1
  /\ disturbed' = TRUE

\* The packet reaches some of the modules it is addressed to.
Send(packet) ==
  \E received \in SUBSET Addressed :
    /\ pending' = [m \in Module |-> IF m \in received
                                      THEN Append(pending[m], packet)
                                      ELSE pending[m]]
    /\ IF received = Addressed THEN UNCHANGED <<faults, disturbed>> ELSE Fault
    /\ UNCHANGED rebooted

\* An answer to an earlier call is still to come.
Outstanding ==
  \/ wire # <<>>
  \/ \E m \in Module : \E i \in 1 .. Len(pending[m]) :
       pending[m][i].kind # "write"

\* Mutant: what has arrived before the call is not discarded.
KeepInput == UNCHANGED linkVars

\* clear_input: what has arrived before the call is not for it.
ClearInput == input' = <<>> /\ UNCHANGED wire

\* A new invocation opens the port.
StartInstall ==
  /\ op \in {"idle", "installed", "failed"}
  /\ attempts < MaxAttempts
  /\ attempts' = attempts + 1
  /\ target' \in Module \cup {Broadcast}
  /\ op' = "write"
  /\ index' = 1
  /\ found' = <<>>
  /\ waiting' = FALSE
  /\ late' = FALSE
  /\ disturbed' = FALSE
  /\ rebooted' = {}
  /\ ClearInput
  /\ UNCHANGED <<deviceVars, faults>>

\* Mutant: the last slot is left out.
AdvanceEarly(next) ==
  IF index + 1 < Len(Slots)
    THEN index' = index + 1 /\ UNCHANGED op
    ELSE index' = 1 /\ op' = next

\* Mutant: one slot too many.
AdvancePast(next) ==
  IF index <= Len(Slots)
    THEN index' = index + 1 /\ UNCHANGED op
    ELSE index' = 1 /\ op' = next

\* On to the next slot, or from the last one to this operation.
Advance(next) ==
  IF index < Len(Slots)
    THEN index' = index + 1 /\ UNCHANGED op
    ELSE index' = 1 /\ op' = next

\* write_owned_slot: sent and slept on.
WriteSlot ==
  /\ op = "write"
  /\ ClearInput
  /\ Send([kind |-> "write", slot |-> Slots[index]])
  /\ Advance("store")
  /\ UNCHANGED <<script, stored, target, waiting, found, attempts, late>>

\* The calls that wait for an answer: clear, send, read until idle.
Ask(packet) ==
  /\ ~waiting
  /\ waiting' = TRUE
  /\ ClearInput
  /\ late' = (late \/ Outstanding)
  /\ Send(packet)
  /\ UNCHANGED <<script, stored, target, op, index, found, attempts>>

AskStore == op = "store" /\ Ask([kind |-> "store"])
AskFetch == op = "read" /\ Ask([kind |-> "fetch", slot |-> Slots[index]])

-----------------------------------------------------------------------------
(* Receiving                                                               *)

\* split_complete_frames: a frame ends at each LF that has EOT before its
\* checksum, and begins after the last one, whatever lies in between.
Ends == {e \in 2 .. Len(input) :
           input[e].part = "lf" /\ input[e - 1].part = "eot"}

\* verify_grid_frame_checksum: only what was sent as one frame passes.
Intact(e) ==
  /\ e - 3 \in Ends \cup {0}
  /\ SubSeq(input, e - 2, e) = Pieces(input[e].frame)

\* The frames of a kind, by their place.
Received(kind) == {e \in Ends : Intact(e) /\ input[e].frame.kind = kind}

\* extract_page_store_ack: one acknowledgement, no rejection, and the right
\* module if one was asked for.
Acknowledged ==
  /\ Received("nack") = {}
  /\ Cardinality(Received("ack")) = 1
  /\ target # Broadcast => \A e \in Received("ack") :
                             input[e].frame.from = target

\* extract_single_config_report: the different reports about this slot.
Reports(s) ==
  {[from |-> input[e].frame.from, script |-> input[e].frame.script] :
     e \in {e \in Received("report") : input[e].frame.slot = s}}

\* The install fails; nothing it did is undone.
Fail == op' = "failed" /\ waiting' = FALSE /\ UNCHANGED <<index, found>>

\* read_transport_until_idle ends, perhaps before all has arrived.  It has
\* taken what did from the port.
CloseWindow ==
  /\ waiting
  /\ input' = <<>>
  /\ disturbed' = (disturbed \/ Outstanding)
  /\ UNCHANGED <<deviceVars, wire, target, attempts, late, faults, rebooted>>

EndStore ==
  /\ op = "store"
  /\ CloseWindow
  /\ IF Acknowledged
       THEN op' = "read" /\ index' = 1 /\ waiting' = FALSE /\ UNCHANGED found
       ELSE Fail

\* Mutant: is_exact_match looks at the slots one by one.
MatchOfAny(reads) ==
  \A i \in 1 .. Len(Slots) :
    /\ reads[i] # None
    /\ reads[i].script = Goal[Slots[i]]
    /\ target # Broadcast => reads[i].from = target

\* is_exact_match: every slot matches, and one module reported them all.
ExactMatch(reads) ==
  /\ \A i \in 1 .. Len(Slots) :
       reads[i] # None /\ reads[i].script = Goal[Slots[i]]
  /\ IF target = Broadcast
       THEN Cardinality({reads[i].from : i \in 1 .. Len(Slots)}) = 1
       ELSE \A i \in 1 .. Len(Slots) : reads[i].from = target

\* The answer to a fetch goes into the report; the last one decides.
EndRead ==
  LET reports == Reports(Slots[index])
      reads   == Append(found, IF reports = {} THEN None
                               ELSE CHOOSE r \in reports : TRUE)
  IN
  /\ op = "read"
  /\ CloseWindow
  /\ IF Cardinality(reports) > 1
       THEN Fail
       ELSE /\ waiting' = FALSE
            /\ found' = reads
            /\ Advance(IF Len(reads) = Len(Slots) /\ ExactMatch(reads)
                         THEN "installed" ELSE "failed")

-----------------------------------------------------------------------------
(* The modules and the link                                                *)

Answer(f) == wire' = wire \o Pieces(f)

\* Module m handles its next packet.  It can fail to store, and says so.
HandlePacket(m) ==
  LET packet == Head(pending[m]) IN
  /\ pending[m] # <<>>
  /\ pending' = [pending EXCEPT ![m] = Tail(@)]
  /\ \/ /\ packet.kind = "write"
        /\ script' = [script EXCEPT ![m][packet.slot] = Goal[packet.slot]]
        /\ UNCHANGED <<stored, wire, faults, disturbed>>
     \/ /\ packet.kind = "fetch"
        /\ Answer([kind |-> "report", from |-> m, slot |-> packet.slot,
                   script |-> script[m][packet.slot]])
        /\ UNCHANGED <<script, stored, faults, disturbed>>
     \/ /\ packet.kind = "store"
        /\ Answer([kind |-> "ack", from |-> m])
        /\ stored' = [stored EXCEPT ![m] = script[m]]
        /\ UNCHANGED <<script, faults, disturbed>>
     \/ /\ packet.kind = "store"
        /\ Answer([kind |-> "nack", from |-> m])
        /\ Fault
        /\ UNCHANGED <<script, stored>>
  /\ UNCHANGED <<input, hostVars, late, rebooted>>

\* Module m loses power, and boots from what it has stored.
Reboot(m) ==
  /\ script' = [script EXCEPT ![m] = stored[m]]
  /\ pending' = [pending EXCEPT ![m] = <<>>]
  /\ rebooted' = rebooted \cup {m}
  /\ Fault
  /\ UNCHANGED <<stored, linkVars, hostVars, late>>

\* The next piece arrives.
Arrive ==
  /\ wire # <<>>
  /\ input' = Append(input, Head(wire))
  /\ wire' = Tail(wire)
  /\ UNCHANGED <<deviceVars, hostVars, historyVars>>

\* A piece gets lost on the way.
LosePiece ==
  /\ wire # <<>>
  /\ wire' = Tail(wire)
  /\ Fault
  /\ UNCHANGED <<deviceVars, input, hostVars, late, rebooted>>

Next ==
  \/ StartInstall
  \/ WriteSlot
  \/ AskStore
  \/ AskFetch
  \/ EndStore
  \/ EndRead
  \/ \E m \in Module : HandlePacket(m) \/ Reboot(m)
  \/ Arrive
  \/ LosePiece

Spec == Init /\ [][Next]_vars

-----------------------------------------------------------------------------
(* Properties                                                              *)

\* An install that names its module and succeeds is on that module, in use
\* and stored, whatever was lost, cut or rejected on the way, and even if the
\* module loses power in the middle.  Only answers to earlier calls that come
\* in late can deceive the host.
InstalledOnTarget ==
  op = "installed" /\ target \in Module /\ ~late =>
    script[target] = Goal /\ stored[target] = Goal

\* A broadcast install never succeeds on the strength of two modules that have
\* a part of the runtime each: one module has all of it in use, unless that one
\* lost power since.  Whether it has stored it, nobody knows if another module
\* gave the acknowledgement.
InstalledOnOneModule ==
  op = "installed" /\ ~late =>
    \E m \in Module :
      /\ \A i \in 1 .. Len(Slots) : found[i].from = m
      /\ script[m] = Goal \/ m \in rebooted

\* An install fails only if a packet or a byte was lost, a window closed too
\* early, an answer came late, a module rebooted or refused to store, or more
\* than one module was there to answer a broadcast.
FailureHasOutsideCause ==
  op = "failed" =>
    \/ disturbed
    \/ late
    \/ target = Broadcast /\ Cardinality(Module) > 1
=============================================================================
