---------------------------- MODULE ScreenDisplay ----------------------------
(***************************************************************************)
(* The screen commands and the display: src/src/screen.rs compiles set,    *)
(* clear and activate into calls of two Lua functions, which the runtime's *)
(* lcd-init.lua defines and whose effect its lcd-draw.lua draws.  The host *)
(* knows layers and fields from the manifest of the frozen copy, the       *)
(* device from tables in its Lua.  The device runs a script, a draw event  *)
(* or an init event at a time.  Nothing answers an immediate write, so one *)
(* that is lost or refused is not a step here.                             *)
(***************************************************************************)
EXTENDS Naturals, Sequences, FiniteSets, FiniteSetsExt, SequencesExt

CONSTANTS
  Layer,      \* manifest: the layers
  Temporary,  \* manifest: those with activation = "temporary"
  Priority,   \* manifest: their priorities
  Field,      \* manifest: the public names of the fields
  FieldSpec,  \* manifest: FieldSpec[f] has layer, key, kind, clear_value
  Timeout,    \* lcd-init: z.m, how many ticks a layer stays, 0 for ever
  Order,      \* lcd-init: z.o, the layers that expire
  Initial,    \* lcd-init: z.l, what the fields hold at first
  First,      \* lcd-init: z.b, the layer that is shown at first
  Uses,       \* lcd-draw: the <<layer, key>> that it reads for each layer
  Raw,        \* the scripts that users send with screen raw
  Text,       \* what users write after the equals sign
  Finite,     \* the texts that are numbers
  NotFinite,  \* the texts that Rust takes for numbers: nan, inf
  Invalid,    \* not a value
  Nil,        \* Lua's
  None,       \* no layer
  MaxAssignments  \* bound: how many assignments a command has

Key == {FieldSpec[f].key : f \in Field}
Place == Layer \X Key
Value == Text \cup {FieldSpec[f].clear_value : f \in Field}

\* validate_manifest, validate_layers: priorities are unique, one layer stays,
\* every field is on a layer.
ManifestIsValid ==
  /\ Temporary \subseteq Layer
  /\ Temporary # Layer
  /\ Priority \in [Layer -> Nat]
  /\ \A l, k \in Layer : Priority[l] = Priority[k] => l = k
  /\ IsFiniteSet(Field)
  /\ \A f \in Field : FieldSpec[f].layer \in Layer

\* What is left to the author of a runtime: its Lua has the manifest's layers,
\* the more important ones later, and draws the fields it has.
LuaAgrees ==
  /\ First \in Layer \ Temporary
  /\ Initial \in [Place -> Value \cup {Nil}]
  /\ Order \in Seq(Temporary) /\ Range(Order) = Temporary
  /\ Uses \in [Layer -> SUBSET Place]
  /\ Timeout \in [Layer -> Nat]
  /\ \A l \in Layer : l \in Temporary <=> Timeout[l] > 0
  /\ \A i, j \in DOMAIN Order :
       i < j => Priority[Order[i]] < Priority[Order[j]]

\* What a script can call: the two functions, with any layer.
Call == [call : {"set_field"}, layer : STRING, key : Key, value : Value \cup {Nil}]
          \cup [call : {"activate_layer"}, layer : STRING]

ASSUME ScreenAssumption ==
  /\ Layer \subseteq STRING
  /\ None \notin Layer
  /\ Nil \notin Value
  /\ ManifestIsValid
  /\ LuaAgrees
  /\ Raw \subseteq Seq(Call)

VARIABLES
  z,     \* vsn1_cli_state: the Lua table
  shown  \* the picture on the display

vars == <<z, shown>>

Picture == [layer : Layer, fields : UNION {[Uses[l] -> Value] : l \in Layer}]

\* Type invariant: every variable has the shape its declaration describes.
TypeOK ==
  /\ z \in [fields : [Place -> Value \cup {Nil}],  \* z.l
            base   : Layer \ Temporary,            \* z.b
            left   : [Layer -> Nat],               \* z.u, from now on
            redraw : BOOLEAN,                      \* z.r
            drawn  : Layer \cup {None}]            \* z.w
  /\ shown \in Picture \cup {None}

\* What lcd-init leaves.
InitialState ==
  [fields |-> Initial, base |-> First, left |-> [l \in Layer |-> 0],
   redraw |-> TRUE, drawn |-> None]

Init ==
  /\ z = InitialState
  /\ shown = None

-----------------------------------------------------------------------------
(* The host                                                                *)

\* parse_value: by the kind of the field.
ParseValue(kind, text) ==
  IF kind = "float" /\ text \notin Finite \cup NotFinite THEN Invalid ELSE text

\* compile_lua_value: Rust prints NaN and inf, which Lua takes for the names
\* of two variables that nobody has set.
CompileValue(kind, value) ==
  IF kind = "float" /\ value \in NotFinite THEN Nil ELSE value

\* compile_field_update
CompileUpdate(a) ==
  LET spec == FieldSpec[a.field] IN
  [call |-> "set_field", layer |-> spec.layer, key |-> spec.key,
   value |-> CompileValue(spec.kind, a.value)]

\* compile_activate_lua
CompileActivate(l) == [call |-> "activate_layer", layer |-> l]

\* compile_set_lua: the fields first, then the layer, if any.
CompileSet(assignments, activate) ==
  [i \in 1 .. Len(assignments) |-> CompileUpdate(assignments[i])]
    \o (IF activate = None THEN <<>> ELSE <<CompileActivate(activate)>>)

\* clear_plan
ClearPlan(l) ==
  LET fields == SetToSeq({f \in Field : FieldSpec[f].layer = l}) IN
  [i \in 1 .. Len(fields) |->
     [field |-> fields[i], value |-> FieldSpec[fields[i]].clear_value]]

-----------------------------------------------------------------------------
(* lcd-init                                                                *)

\* Mutant: the display is not told.
SetFieldQuietly(s, c) ==
  IF c.layer \in Layer
    THEN [s EXCEPT !.fields[<<c.layer, c.key>>] = c.value]
    ELSE s

\* set_field: a layer that the runtime does not have is ignored.
SetField(s, c) ==
  IF c.layer \in Layer
    THEN [s EXCEPT !.fields[<<c.layer, c.key>>] = c.value, !.redraw = TRUE]
    ELSE s

\* Mutant: an unknown layer is taken for one that does not expire.
ActivateAnyLayer(s, c) ==
  IF c.layer \in Temporary
    THEN [s EXCEPT !.left[c.layer] = Timeout[c.layer], !.redraw = TRUE]
    ELSE [s EXCEPT !.base = c.layer, !.redraw = TRUE]

\* activate_layer: one that expires is shown for its time, counted from now;
\* another one is the base from now on.
ActivateLayer(s, c) ==
  CASE c.layer \notin DOMAIN Timeout -> s
    [] c.layer \in DOMAIN Timeout /\ Timeout[c.layer] > 0 ->
         [s EXCEPT !.left[c.layer] = Timeout[c.layer], !.redraw = TRUE]
    [] OTHER -> [s EXCEPT !.base = c.layer, !.redraw = TRUE]

Perform(s, c) ==
  IF c.call = "set_field" THEN SetField(s, c) ELSE ActivateLayer(s, c)

\* Lua runs a script call by call.
Effect(s, script) ==
  LET after[n \in 0 .. Len(script)] ==
        IF n = 0 THEN s ELSE Perform(after[n - 1], script[n])
  IN after[Len(script)]

\* The device runs a script from beginning to end.
Run(script) ==
  /\ z' = Effect(z, script)
  /\ UNCHANGED shown

-----------------------------------------------------------------------------
(* Commands                                                                *)

\* screen set: every name is known, every value parses, no field comes twice;
\* otherwise nothing is sent.
ScreenSet(assignments, activate) ==
  /\ activate \in Layer \cup {None}
  /\ \A i \in 1 .. Len(assignments) :
       /\ assignments[i].field \in Field
       /\ ParseValue(FieldSpec[assignments[i].field].kind,
                     assignments[i].value) # Invalid
       /\ \A j \in 1 .. i - 1 : assignments[j].field # assignments[i].field
  /\ Run(CompileSet(assignments, activate))

\* screen clear
ScreenClear(l) == Run(CompileSet(ClearPlan(l), None))

\* screen activate
ScreenActivate(l) == Run(<<CompileActivate(l)>>)

\* screen raw
ScreenRaw(script) == Run(script)

-----------------------------------------------------------------------------
(* lcd-draw, time, and lcd-init again                                      *)

\* The last layer of the order that has time left.
Top ==
  LET active == {i \in DOMAIN Order : z.left[Order[i]] > 0} IN
  IF active = {} THEN z.base ELSE Order[Max(active)]

\* The draw script stops with an error at a field that is nil.
CanDraw == \A p \in Uses[Top] : z.fields[p] # Nil

\* Mutant: only what commands change is drawn.
DrawOnRequest ==
  /\ z.redraw
  /\ z' = [z EXCEPT !.redraw = FALSE, !.drawn = Top]
  /\ shown' = IF CanDraw
                THEN [layer |-> Top,
                      fields |-> [p \in Uses[Top] |-> z.fields[p]]]
                ELSE shown

\* A draw event, if it does not return at once.  The flags are set before the
\* picture is drawn.
Draw ==
  /\ z.redraw \/ z.drawn # Top
  /\ z' = [z EXCEPT !.redraw = FALSE, !.drawn = Top]
  /\ shown' = IF CanDraw
                THEN [layer |-> Top,
                      fields |-> [p \in Uses[Top] |-> z.fields[p]]]
                ELSE shown

\* os.clock advances.
Tick ==
  /\ \E l \in Layer : z.left[l] > 0
  /\ z' = [z EXCEPT !.left = [l \in Layer |-> IF @[l] > 0 THEN @[l] - 1 ELSE 0]]
  /\ UNCHANGED shown

\* The device starts, or somebody installs the runtime again.
Restart ==
  /\ z' = InitialState
  /\ UNCHANGED shown

Assignments ==
  UNION {[1 .. n -> [field : Field, value : Text]] : n \in 1 .. MaxAssignments}

Next ==
  \/ \E a \in Assignments, l \in Layer \cup {None} : ScreenSet(a, l)
  \/ \E l \in Layer : ScreenClear(l) \/ ScreenActivate(l)
  \/ \E script \in Raw : ScreenRaw(script)
  \/ Draw
  \/ Tick
  \/ Restart

\* Draw events and time go on whatever the user does.
Spec == Init /\ [][Next]_vars /\ WF_vars(Draw) /\ WF_vars(Tick)

-----------------------------------------------------------------------------
(* Properties                                                              *)

LS == INSTANCE LayeredScreen WITH
  Lifetime <- Timeout,
  Nothing <- None,
  content <- z.fields,
  base <- z.base,
  left <- z.left

\* The two flags by which the draw script saves itself work never leave an
\* outdated picture on the display for good, and it draws the layer that the
\* manifest's priorities call for: whenever what is shown is not what it
\* should be, and can be drawn, it will be drawn.
ImplementsLayeredScreen == LS!Spec

\* Once users stop to activate layers, the base comes back.
BaseComesBack ==
  <>[](\A l \in Layer : z.left[l] < Timeout[l] \/ Timeout[l] = 0)
    /\ <>[]CanDraw
      => []<>(shown # None /\ shown.layer = z.base)

\* The curated commands never leave a numeric field without a number, as the
\* host checks the kind of every value.
FieldsKeepTheirKind ==
  \A f \in Field : z.fields[<<FieldSpec[f].layer, FieldSpec[f].key>>] # Nil
=============================================================================
