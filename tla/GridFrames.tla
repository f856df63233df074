----------------------------- MODULE GridFrames -----------------------------
(***************************************************************************)
(* The layout of the packets: src/src/protocol.rs writes field after       *)
(* field, src/src/runtime.rs finds a field of an answer at an offset, and  *)
(* src/src/targeting.rs says which module a packet goes to.  A packet is a *)
(* sequence of cells: a control character, a digit of a number, or a       *)
(* script.  Lengths and the checksum are left out: SlotIO has what they    *)
(* are for.                                                                *)
(***************************************************************************)
EXTENDS Integers, Sequences, FiniteSets

CONSTANT None   \* no number, no report

ASSUME GridFramesAssumption == None \notin Int

MaxCoordinate == 128

Broadcast == [dx |-> -127, dy |-> -127]

\* resolve_target: both coordinates or none, and none of them too large.  The
\* arguments are unsigned, so nobody can spell Broadcast out.
ValidTarget(args) ==
  /\ DOMAIN args \in {{}, {"dx", "dy"}}
  /\ \A axis \in DOMAIN args : args[axis] <= MaxCoordinate

ResolveTarget(args) == IF DOMAIN args = {} THEN Broadcast ELSE args

-----------------------------------------------------------------------------
(* Writing                                                                 *)

Class == [config |-> 96, pageStore |-> 97, pageActive |-> 48, immediate |-> 133]
Instruction == [acknowledge |-> 10, nacknowledge |-> 11, report |-> 13,
                execute |-> 14, fetch |-> 15]

\* grid_coordinate_to_wire, with an offset so that no coordinate is negative.
ToWire(coordinate) == coordinate + 127

\* write_ascii_hex.
Hex(width, number) == [i \in 1 .. width |-> <<number, i, width>>]

Control(name) == << <<name>> >>

\* A script takes a cell, or none if there is nothing in it.
ScriptCells(t) == IF t = None THEN <<>> ELSE << <<t>> >>

\* encode_packet: the header, then the class block.  The host leaves the
\* source of a packet at zero.
EncodePacket(source, target, block) ==
  Control("SOH") \o Control("BRC") \o Hex(4, 0) \o Hex(2, 1) \o Hex(2, 1)
    \o Hex(2, source.dx) \o Hex(2, source.dy)
    \o Hex(2, target.dx) \o Hex(2, target.dy)
    \o Hex(1, 0) \o Hex(1, 0) \o Hex(2, 0) \o Control("EOB")
    \o block \o Control("EOT") \o Hex(2, 0) \o Control("LF")

Host == [dx |-> 0, dy |-> 0]
Wire(target) == [dx |-> ToWire(target.dx), dy |-> ToWire(target.dy)]

Block(class, instruction, fields) ==
  Control("STX") \o Hex(3, class) \o Hex(1, instruction) \o fields
    \o Control("ETX")

\* Mutant: element and event change places.
AtSwapped(location) ==
  Hex(2, location.page) \o Hex(2, location.event) \o Hex(2, location.element)

At(location) ==
  Hex(2, location.page) \o Hex(2, location.element) \o Hex(2, location.event)

ConfigBlock(instruction, location, t) ==
  Block(Class.config, instruction,
        Hex(2, 1) \o Hex(2, 5) \o Hex(2, 1) \o At(location)
          \o Hex(4, 0) \o ScriptCells(t))

\* encode_config_packet, encode_config_fetch_packet.
EncodeConfig(target, location, t) ==
  EncodePacket(Host, Wire(target), ConfigBlock(Instruction.execute, location, t))
EncodeConfigFetch(target, location) ==
  EncodePacket(Host, Wire(target), ConfigBlock(Instruction.fetch, location, None))

\* encode_page_active_packet, encode_page_store_packet.
EncodePageActive(target, page) ==
  EncodePacket(Host, Wire(target),
               Block(Class.pageActive, Instruction.execute, Hex(2, page)))
EncodePageStore(target) ==
  EncodePacket(Host, Wire(target),
               Block(Class.pageStore, Instruction.execute, <<>>))

\* encode_immediate_packet: its script comes right after the length.
EncodeImmediate(target, t) ==
  EncodePacket(Host, Wire(target),
               Block(Class.immediate, Instruction.execute,
                     Hex(4, 0) \o ScriptCells(t)))

-----------------------------------------------------------------------------
(* Reading                                                                 *)

\* parse_ascii_hex_range: the digits of one number and no others.
ParseHex(cells, offset, width) ==
  IF /\ offset + width <= Len(cells)
     /\ \A i \in 1 .. width :
          Len(cells[offset + i]) = 3 /\ cells[offset + i][2] = i
    THEN cells[offset + 1][1]
    ELSE None

\* parse_grid_coordinate_range, twice: where a frame comes from.
SourceOf(frame) ==
  [dx |-> ParseHex(frame, 10, 2) - 127, dy |-> ParseHex(frame, 12, 2) - 127]

\* split_class_blocks, for the one block these frames have.
ClassBlock(frame) == SubSeq(frame, 24, Len(frame) - 4)

\* The class and the instruction that a frame is about.
IsAbout(frame, class, instruction) ==
  /\ ParseHex(ClassBlock(frame), 1, 3) = class
  /\ ParseHex(ClassBlock(frame), 4, 1) = instruction

LocationIn(frame) ==
  [page |-> ParseHex(ClassBlock(frame), 11, 2),
   element |-> ParseHex(ClassBlock(frame), 13, 2),
   event |-> ParseHex(ClassBlock(frame), 15, 2)]

\* parse_ascii_text_range: all but the fixed part of the block.
ScriptIn(frame) ==
  IF Len(ClassBlock(frame)) > 22 THEN ClassBlock(frame)[22][1] ELSE None

\* extract_single_config_report, from frames of a single module: what the slot
\* there holds, None if it is blank or nobody answers.
ExtractReport(frames, location) ==
  LET reports == {[from |-> SourceOf(f), text |-> ScriptIn(f)] :
                    f \in {f \in frames :
                             /\ IsAbout(f, Class.config, Instruction.report)
                             /\ LocationIn(f) = location}}
  IN IF \E r \in reports : r.text # None
       THEN CHOOSE r \in reports : TRUE
       ELSE None

\* extract_page_store_ack, likewise.
Acknowledged(frames, target) ==
  \E f \in frames :
    /\ IsAbout(f, Class.pageStore, Instruction.acknowledge)
    /\ target # Broadcast => SourceOf(f) = target

-----------------------------------------------------------------------------
(* A module of the grid at these coordinates                               *)

Hears(here, packet) ==
  LET to == [dx |-> ParseHex(packet, 14, 2), dy |-> ParseHex(packet, 16, 2)] IN
  to \in {Wire(here), Wire(Broadcast)}

Report(here, location, t) ==
  EncodePacket(Wire(here), Host, ConfigBlock(Instruction.report, location, t))
Acknowledge(here) ==
  EncodePacket(Wire(here), Host,
               Block(Class.pageStore, Instruction.acknowledge, <<>>))
=============================================================================
