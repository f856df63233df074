--------------------------- MODULE RuntimeBundles ---------------------------
(***************************************************************************)
(* Runtimes as directories: where src/src/runtime_bundle.rs looks for one  *)
(* by its name, what it demands of the manifest, and what it makes of the  *)
(* assets.  Texts in files are those of ScriptText.                        *)
(***************************************************************************)
EXTENDS ScriptText, Sequences, FiniteSets, SequencesExt

\* A directory is a record: toml, whether it has a manifest ("ok", "absent" or
\* "garbled"), the manifest, and its files by path.  A path is the sequence of
\* its components; a location is a page, an element and an event.
Layer ==
  [name : STRING, priority : Nat, activation : {"persistent", "temporary"},
   timeout : BOOLEAN]
Slot ==
  [name : STRING, location : [page : Nat, element : Nat, event : Nat],
   asset : Seq(STRING), order : Nat]
Field ==
  [name : Seq(STRING), layer : STRING, kind : STRING, key : STRING,
   clear : [type : STRING, literal : STRING]]
Manifest == [layers : Seq(Layer), slots : Seq(Slot), fields : Seq(Field)]

Source == {"system", "user", "dev"}

\* RuntimeSource::priority.
Priority == [system |-> 0, user |-> 1, dev |-> 2]

\* runtime_roots: the user's is below the home directory, if there is one.
Roots(home) == IF home THEN Source ELSE Source \ {"user"}

\* discover_runtimes_in_roots: where a runtime of this name is.  A directory
\* without a manifest is passed over; whether the manifest is any good only
\* load_from_dir finds out.
Candidates(tree, name, home) ==
  {s \in Roots(home) :
     name \in DOMAIN tree[s] /\ tree[s][name].toml # "absent"}

\* Mutant: the one that is found first stays.
FirstRuntime(tree, name, home) ==
  CHOOSE s \in Candidates(tree, name, home) :
    \A t \in Candidates(tree, name, home) : Priority[s] <= Priority[t]

\* resolve_runtime: among them, dev goes before user before system.
ResolveRuntime(tree, name, home) ==
  CHOOSE s \in Candidates(tree, name, home) :
    \A t \in Candidates(tree, name, home) : Priority[t] <= Priority[s]

-----------------------------------------------------------------------------
(* Loading                                                                 *)

Column(s, field) == [i \in DOMAIN s |-> s[i][field]]
NoneTwice(s, field) == IsInjective(Column(s, field))

\* validate_layers.
LayersAreValid(layers) ==
  /\ "" \notin Range(Column(layers, "name"))
  /\ NoneTwice(layers, "name")
  /\ NoneTwice(layers, "priority")
  /\ \A l \in Range(layers) : (l.activation = "temporary") <=> l.timeout
  /\ \E l \in Range(layers) : l.activation = "persistent"

\* validate_manifest.
ManifestIsValid(manifest) ==
  /\ LayersAreValid(manifest.layers)
  /\ manifest.slots # <<>>
  /\ NoneTwice(manifest.slots, "name")
  /\ NoneTwice(manifest.slots, "location")
  /\ NoneTwice(manifest.fields, "name")
  /\ Range(Column(manifest.fields, "layer"))
       \subseteq Range(Column(manifest.layers, "name"))

\* resolve_asset_path: relative, and no way up.
PathStaysInside(path) == {"/", ".."} \cap Range(path) = {}

\* load_runtime_asset.
AssetLoads(dir, path) ==
  /\ PathStaysInside(path)
  /\ path \in DOMAIN dir.files
  /\ Installable(NormalizeText(dir.files[path]))

\* load_from_dir succeeds.
Loads(dir) ==
  /\ dir.toml = "ok"
  /\ ManifestIsValid(dir.manifest)
  /\ \A slot \in Range(dir.manifest.slots) : AssetLoads(dir, slot.asset)

\* sort_by_key, which is stable: of two slots with the same order the one that
\* is listed first stays first.
GoesBefore(slots, i, j) ==
  \/ slots[i].order < slots[j].order
  \/ slots[i].order = slots[j].order /\ i < j

InstallOrder(slots) ==
  LET earlier(i) == {j \in DOMAIN slots : GoesBefore(slots, j, i)} IN
  [k \in DOMAIN slots |->
     slots[CHOOSE i \in DOMAIN slots : Cardinality(earlier(i)) = k - 1]]

\* Its assets in install order, each with its slot and normalized content.
Assets(dir) ==
  LET slots == InstallOrder(dir.manifest.slots) IN
  [i \in DOMAIN slots |->
     [slot |-> slots[i], text |-> NormalizeText(dir.files[slots[i].asset])]]
=============================================================================
