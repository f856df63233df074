----------------------------- MODULE ScriptText -----------------------------
(***************************************************************************)
(* What the host does to a script on its way between a file, a packet and  *)
(* a slot: src/src/protocol.rs puts a callback prefix before it and drops  *)
(* what is not ASCII, src/src/runtime_bundle.rs evens out line ends and    *)
(* limits the length, src/src/runtime.rs predicts what is read back.       *)
(* A script is known by its name, by how long it is, and by the features   *)
(* that these functions look at.  Blanks around it are left out.           *)
(***************************************************************************)
EXTENDS Naturals

CONSTANTS
  PrefixLength,  \* length of GRID_LUA_CALLBACK_PREFIX and a blank
  MaxLua         \* GRID_MAX_LUA_BYTES: a packet holds fewer bytes than this

ASSUME ScriptTextAssumption == PrefixLength \in Nat \ {0} /\ MaxLua \in Nat

\* ascii and other count the bytes of the body; crlf is a line end that takes
\* two of them, wrapped the frame <?lua ?>, prefixed the callback prefix.
Text ==
  [name : STRING, ascii : Nat, other : Nat, crlf : BOOLEAN,
   wrapped : BOOLEAN, prefixed : BOOLEAN]

EmptyText ==
  [name |-> "", ascii |-> 0, other |-> 0, crlf |-> FALSE,
   wrapped |-> FALSE, prefixed |-> FALSE]

\* normalize_lua_body, which frame_immediate_lua is.  Even the empty script
\* gets the prefix.
FrameLua(t) == [t EXCEPT !.wrapped = FALSE, !.prefixed = TRUE]

\* normalize_text_content: line ends are line feeds.
NormalizeText(t) == [t EXCEPT !.crlf = FALSE]

\* The length in bytes of a framed script.
FramedLength(t) ==
  PrefixLength + t.ascii + t.other + (IF t.crlf THEN 1 ELSE 0)

\* validate_installable_script_length.
Installable(t) == FramedLength(FrameLua(t)) < MaxLua

\* encode_script_bytes: what is not ASCII is dropped.
EncodeScript(t) == [FrameLua(t) EXCEPT !.other = 0]

\* It fails on a script that is too long even so.
Encodable(t) == FramedLength(EncodeScript(t)) < MaxLua

\* expected_config_slot_readback.
ExpectedReadback(t) == NormalizeText(FrameLua(t))
=============================================================================
