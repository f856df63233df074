--------------------------- MODULE ScreenRegistry ---------------------------
(***************************************************************************)
(* The field registry that curated screen commands use, built from the     *)
(* frozen runtime by src/src/screen.rs, and the calls it compiles them to. *)
(* A public name is the sequence of its parts between the dots; a value is *)
(* known by the literal it is written as.                                  *)
(***************************************************************************)
EXTENDS Naturals, Sequences, SequencesExt

CONSTANTS
  Integers32,  \* literals that parse as i32
  Numbers,     \* literals that parse as f64
  Booleans,    \* true and false, in any case
  EightItems   \* literals with seven bars in them

ASSUME RegistryAssumption ==
  /\ Integers32 \subseteq Numbers
  /\ Numbers \cap (Booleans \cup EightItems) = {}

\* ScreenValueKind.
Kind == {"text", "int", "float", "bool", "text_list"}

\* parse_value.
Parses(kind, literal) ==
  CASE kind = "text"      -> TRUE
    [] kind = "int"       -> literal \in Integers32
    [] kind = "float"     -> literal \in Numbers
    [] kind = "bool"      -> literal \in Booleans
    [] kind = "text_list" -> literal \in EightItems

\* parse_manifest_clear_value: here the TOML type counts.
ClearFits(kind, clear) ==
  CASE kind = "text"      -> clear.type = "string"
    [] kind = "int"       -> clear.type = "integer" /\ clear.literal \in Integers32
    [] kind = "float"     -> clear.type \in {"float", "integer"}
    [] kind = "bool"      -> clear.type = "boolean"
    [] kind = "text_list" -> clear.type = "array" /\ clear.literal \in EightItems

\* build_field_spec.
FieldIsValid(field) ==
  /\ field.kind \in Kind
  /\ Len(field.name) > 1
  /\ Head(field.name) = field.layer
  /\ field.key # ""
  /\ ClearFits(field.kind, field.clear)

\* from_bundle; load_from_dir has ruled out duplicate names.
RegistryBuilds(manifest) ==
  \A field \in Range(manifest.fields) : FieldIsValid(field)

HasLayer(manifest, layer) ==
  \E l \in Range(manifest.layers) : l.name = layer

\* field: there is one at most with this name.
FieldNamed(manifest, name) ==
  CHOOSE f \in Range(manifest.fields) : f.name = name

\* parse_assignment, of a name and a literal if there is a = between them.
AssignmentParses(manifest, input) ==
  /\ input.equals
  /\ input.name # <<>>
  /\ \E f \in Range(manifest.fields) :
       f.name = input.name /\ Parses(f.kind, input.literal)

\* parse_assignments; every one of them parses.
ParseAssignments(manifest, inputs) ==
  [i \in DOMAIN inputs |->
     [field |-> FieldNamed(manifest, inputs[i].name), value |-> inputs[i].literal]]

\* Mutant: the fields of every layer but the one that is named.
ClearPlanOfOthers(manifest, layer) ==
  LET fields == SelectSeq(manifest.fields, LAMBDA f : f.layer # layer) IN
  [i \in DOMAIN fields |-> [field |-> fields[i], value |-> fields[i].clear.literal]]

\* clear_plan: the fields of the layer, as they are listed.
ClearPlan(manifest, layer) ==
  LET fields == manifest.fields
      plan[n \in 0 .. Len(fields)] ==
        IF n = 0 THEN <<>>
        ELSE IF fields[n].layer = layer
               THEN Append(plan[n - 1],
                           [field |-> fields[n], value |-> fields[n].clear.literal])
               ELSE plan[n - 1]
  IN plan[Len(fields)]

\* validate_assignments: no public name twice.
NoDuplicate(assignments) ==
  IsInjective([i \in DOMAIN assignments |-> assignments[i].field.name])

\* compile_field_update, compile_activate_lua.
SetFieldCall(assignment) ==
  [call |-> "set_field", layer |-> assignment.field.layer,
   key |-> assignment.field.key, value |-> assignment.value]
ActivateCall(layer) == [call |-> "activate_layer", layer |-> layer]

\* compile_set_lua: the updates in the order given, then the activation.
CompileSet(assignments, activate) ==
  [i \in DOMAIN assignments |-> SetFieldCall(assignments[i])]
    \o [i \in DOMAIN activate |-> ActivateCall(activate[i])]
=============================================================================
