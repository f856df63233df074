-------------------------- MODULE RuntimeProvision --------------------------
(***************************************************************************)
(* Whole commands on a module that answers everything: what becomes of the *)
(* scripts, the manifests and the arguments.  RuntimeLifecycle has the     *)
(* same commands step by step with every fault, and opaque contents; here  *)
(* nothing is lost and the contents are those of ScriptText, GridFrames,   *)
(* RuntimeBundles and ScreenRegistry.                                      *)
(***************************************************************************)
EXTENDS RuntimeBundles, GridFrames, ScreenRegistry

CONSTANTS
  Here,        \* where the module is
  Locations,   \* the module's slots
  UserTexts,   \* what else may be in a slot
  Trees,       \* runtime directories by source and name
  TargetArgs,  \* --dx and --dy as given
  Inputs,      \* sequences of assignments as given
  Holdings,    \* what is in the slots at first
  CallLength,  \* bytes of one generated call
  AsciiOf,     \* what is left of a name or a literal that is not ASCII
  MaxSteps     \* commands and edits

\* What a directory and a backup of its slots are.
IsDirectory(dir) ==
  /\ dir.manifest \in Manifest
  /\ \A path \in DOMAIN dir.files : dir.files[path] \in Text

AssetsNamed(dir) == {slot.asset : slot \in Range(dir.manifest.slots)}

Backups(dir) ==
  [toml : {"ok"}, manifest : Manifest, files : [AssetsNamed(dir) -> Text]]

ASSUME ProvisionAssumption ==
  /\ EmptyText \in Text /\ None \notin Text
  /\ Here \in [dx : Int, dy : Int]
  /\ None \notin [from : [dx : Int, dy : Int], text : Text]
  /\ UserTexts \subseteq Text
  /\ Holdings \subseteq [Locations -> {None} \cup Text]
  /\ \A args \in TargetArgs :
       DOMAIN args \subseteq {"dx", "dy"} /\ args \in [DOMAIN args -> Nat]
  /\ \A t \in Trees : DOMAIN t = Source
  /\ \A t \in Trees, s \in Source : \A name \in DOMAIN t[s] :
       IsDirectory(t[s][name]) /\ None \notin Backups(t[s][name])
  /\ Inputs \subseteq Seq([equals : BOOLEAN, name : Seq(STRING), literal : STRING])
  /\ CallLength \in Nat /\ MaxSteps \in Nat
  /\ \A s \in DOMAIN AsciiOf : AsciiOf[s] \notin DOMAIN AsciiOf
  /\ DOMAIN AsciiOf \cap (Numbers \cup Booleans) = {}

VARIABLES
  tree,      \* the runtime directories
  home,      \* is HOME set?
  slots,     \* what the module holds, None if blank
  frozen,    \* ~/.config/vsn1-cli/runtime, a directory or None
  backup,    \* ~/.config/vsn1-cli/pre-install, likewise
  original,  \* the slots before the installation
  faithful,  \* was the backup taken then, from the module?
  last,      \* the last command: its name, arguments, outcome, what it ran
  steps

vars == <<tree, home, slots, frozen, backup, original, faithful, last, steps>>
host == <<tree, home>>

Names == UNION {DOMAIN t[s] : t \in Trees, s \in Source}

Idle == [command |-> "none", args |-> <<>>, ok |-> TRUE, ran |-> <<>>]

Init ==
  /\ tree \in Trees
  /\ home \in BOOLEAN
  /\ slots \in Holdings
  /\ frozen = None
  /\ backup = None
  /\ original = slots
  /\ faithful = FALSE
  /\ last = Idle
  /\ steps = 0

Ends(command, args, ok, ran) ==
  /\ steps' = steps + 1
  /\ last' = [command |-> command, args |-> args, ok |-> ok, ran |-> ran]
  /\ UNCHANGED host

-----------------------------------------------------------------------------
(* The module, packet by packet                                            *)

Reaches(target) == Hears(Here, EncodePageStore(target))

\* It carries out a config packet for a slot it has.
AfterWrite(held, packet) ==
  IF Hears(Here, packet) /\ LocationIn(packet) \in Locations
    THEN [held EXCEPT ![LocationIn(packet)] = ScriptIn(packet)]
    ELSE held

\* write_owned_slot, one after the other.
WriteAll(held, target, assets) ==
  LET after[n \in 0 .. Len(assets)] ==
        IF n = 0 THEN held
        ELSE AfterWrite(after[n - 1],
               EncodeConfig(target, assets[n].slot.location,
                            EncodeScript(assets[n].text)))
  IN after[Len(assets)]

\* read_owned_slot: the report with its source, or None.
ReadSlot(held, target, location) ==
  LET packet == EncodeConfigFetch(target, location)
      asked  == LocationIn(packet)
  IN ExtractReport(
       IF Hears(Here, packet) /\ asked \in Locations
         THEN {Report(Here, asked, held[asked])} ELSE {},
       location)

\* store_page, for every page: the module turns to it and acknowledges.
PagesStored(target, assets) ==
  \A asset \in Range(assets) :
    LET turn == EncodePageActive(target, asset.slot.location.page) IN
    Acknowledged(
      IF Hears(Here, turn) /\ Hears(Here, EncodePageStore(target))
        THEN {Acknowledge(Here)} ELSE {},
      target)

\* inspect_runtime_bundle, for one slot.
SlotStatus(held, target, asset) ==
  LET read == ReadSlot(held, target, asset.slot.location) IN
  CASE read = None -> "missing"
    [] read # None /\ target \notin {Broadcast, read.from} -> "wrong target"
    [] OTHER -> IF NormalizeText(read.text) = ExpectedReadback(asset.text)
                  THEN "match" ELSE "drifted"

Statuses(held, target, dir) ==
  {SlotStatus(held, target, asset) : asset \in Range(Assets(dir))}

\* install_runtime_bundle succeeds: stored, read back, an exact match.
Holds(held, target, dir) ==
  /\ PagesStored(target, Assets(dir))
  /\ Statuses(held, target, dir) = {"match"}

-----------------------------------------------------------------------------
(* Installing                                                              *)

\* fs::write into the staging directory, which has no directories in it.
CanCapture(dir) ==
  \A slot \in Range(dir.manifest.slots) : Len(slot.asset) = 1

\* read_slot_content_for_backup.
CaptureSlot(target, slot) ==
  LET read == ReadSlot(slots, target, slot.location) IN
  IF read = None THEN EmptyText ELSE NormalizeText(read.text)

\* write_pre_install_bundle for these slots: of two with the same asset, the
\* later one writes the file last.
BackupOf(dir, all, captured) ==
  LET writer(path) == all[Max({i \in DOMAIN all : all[i].asset = path})]
  IN [toml |-> "ok",
      manifest |-> [layers |-> dir.manifest.layers, slots |-> all, fields |-> <<>>],
      files |-> [path \in Range(Column(all, "asset")) |-> captured[writer(path)]]]

SlotsOf(dir) == [i \in DOMAIN Assets(dir) |-> Assets(dir)[i].slot]

\* In install order, whatever is there.
Captured(dir, target) ==
  [slot \in Range(SlotsOf(dir)) |-> CaptureSlot(target, slot)]

\* Mutant: every slot is backed up as if it were the first one.
CaptureOneSlot(dir, target) ==
  BackupOf(dir, SlotsOf(dir),
           [slot \in Range(SlotsOf(dir)) |-> CaptureSlot(target, SlotsOf(dir)[1])])

\* Mutant: a blank slot gets no file.
CaptureContents(dir, target) ==
  LET full == BackupOf(dir, SlotsOf(dir), Captured(dir, target))
  IN [full EXCEPT !.files = Restrict(full.files,
        {path \in DOMAIN full.files : full.files[path] # EmptyText})]

Capture(dir, target) ==
  BackupOf(dir, SlotsOf(dir), Captured(dir, target))

\* Arguments and files are checked before the module is touched, in the order
\* resolve_runtime, resolve_target, load_from_dir, HOME.
CanStart(name, args) ==
  /\ Candidates(tree, name, home) # {}
  /\ ValidTarget(args)
  /\ Loads(tree[ResolveRuntime(tree, name, home)][name])
  /\ home

RefuseInstall(command, name, args) ==
  /\ \/ ~CanStart(name, args)
     \/ /\ command = "install" /\ CanStart(name, args)
        /\ ~CanCapture(tree[ResolveRuntime(tree, name, home)][name])
  /\ Ends(command, <<name, args>>, FALSE, <<>>)
  /\ UNCHANGED <<slots, frozen, backup, original, faithful>>

\* install_runtime_bundle_with_storage, after the backup.
Provision(command, args, dir, target) ==
  LET written == WriteAll(slots, target, Assets(dir))
      ok      == Holds(written, target, dir)
  IN /\ slots' = written
     /\ frozen' = IF ok THEN dir ELSE frozen
     /\ Ends(command, args, ok, <<>>)

\* install_runtime_with_bundle_dir.
Install(name, args) ==
  /\ CanStart(name, args)
  /\ LET dir    == tree[ResolveRuntime(tree, name, home)][name]
         target == ResolveTarget(args)
     IN /\ CanCapture(dir)
        /\ backup' = Capture(dir, target)
        /\ original' = IF frozen = None THEN slots ELSE original
        /\ faithful' = (frozen = None /\ Reaches(target))
        /\ Provision("install", <<name, args>>, dir, target)

\* upgrade_runtime_with_bundle_dir: no backup.
Upgrade(name, args) ==
  /\ CanStart(name, args)
  /\ Provision("upgrade", <<name, args>>,
               tree[ResolveRuntime(tree, name, home)][name], ResolveTarget(args))
  /\ UNCHANGED <<backup, original, faithful>>

\* repair_installed_runtime_with_storage: not when all is well, and not when
\* nothing is there.
CanRepair(args) ==
  /\ ValidTarget(args)
  /\ frozen # None
  /\ Statuses(slots, ResolveTarget(args), frozen) \notin {{"match"}, {"missing"}}

Repair(args) ==
  /\ CanRepair(args)
  /\ Provision("repair", <<args>>, frozen, ResolveTarget(args))
  /\ UNCHANGED <<backup, original, faithful>>

RefuseRepair(args) ==
  /\ ~CanRepair(args)
  /\ Ends("repair", <<args>>, FALSE, <<>>)
  /\ UNCHANGED <<slots, frozen, backup, original, faithful>>

\* verify_runtime_with_optional_bundle_dir.
Verify(args) ==
  /\ Ends("verify", <<args>>,
          /\ ValidTarget(args)
          /\ frozen # None
          /\ Statuses(slots, ResolveTarget(args), frozen) = {"match"},
          <<>>)
  /\ UNCHANGED <<slots, frozen, backup, original, faithful>>

-----------------------------------------------------------------------------
(* Removing                                                                *)

\* restore_runtime_bundle.
Restore(args) ==
  /\ ValidTarget(args) /\ home
  /\ backup # None /\ Loads(backup)
  /\ LET target  == ResolveTarget(args)
         written == WriteAll(slots, target, Assets(backup))
         ok      == Holds(written, target, backup)
     IN /\ slots' = written
        /\ frozen' = IF ok THEN None ELSE frozen
        /\ Ends("restore", <<args>>, ok, <<>>)
  /\ UNCHANGED <<backup, original, faithful>>

\* clear_owned_slot, one after the other: the empty script is written.
ClearAll(held, target, dir) ==
  WriteAll(held, target, [i \in DOMAIN Assets(dir) |->
                            [Assets(dir)[i] EXCEPT !.text = EmptyText]])

\* verify_removed_slots: a slot is silent, or holds nothing but the prefix and
\* is the target's.
Removed(held, target, dir) ==
  \A asset \in Range(Assets(dir)) :
    LET read == ReadSlot(held, target, asset.slot.location) IN
    \/ read = None
    \/ /\ target \in {Broadcast, read.from}
       /\ NormalizeText(read.text) = ExpectedReadback(EmptyText)

\* clear_installed_runtime_with_warning.
Clear(args) ==
  /\ ValidTarget(args) /\ home
  /\ backup # None => ~Loads(backup)
  /\ frozen # None
  /\ LET target  == ResolveTarget(args)
         written == ClearAll(slots, target, frozen)
         ok      == /\ PagesStored(target, Assets(frozen))
                    /\ Removed(written, target, frozen)
     IN /\ slots' = written
        /\ frozen' = IF ok THEN None ELSE frozen
        /\ Ends("clear", <<args>>, ok, <<>>)
  /\ UNCHANGED <<backup, original, faithful>>

RefuseRemove(args) ==
  /\ \/ ~ValidTarget(args)
     \/ ~home
     \/ frozen = None /\ (backup # None => ~Loads(backup))
  /\ Ends("remove", <<args>>, FALSE, <<>>)
  /\ UNCHANGED <<slots, frozen, backup, original, faithful>>

-----------------------------------------------------------------------------
(* Screen commands                                                         *)

\* send_screen_raw: the module runs the script if it hears it.
Send(command, args, target, t, calls) ==
  LET ran == IF Encodable(t) /\ Hears(Here, EncodeImmediate(target, t))
               THEN calls ELSE <<>>
  IN /\ Ends(command, args, Encodable(t), ran)
     /\ UNCHANGED <<slots, frozen, backup, original, faithful>>

\* encode_script_bytes leaves out what is not ASCII, and says nothing.
Ascii(s) == IF s \in DOMAIN AsciiOf THEN AsciiOf[s] ELSE s

EncodeCall(call) ==
  IF call.call = "set_field"
    THEN [call EXCEPT !.layer = Ascii(@), !.key = Ascii(@), !.value = Ascii(@)]
    ELSE [call EXCEPT !.layer = Ascii(@)]

EncodeCalls(calls) == [i \in DOMAIN calls |-> EncodeCall(calls[i])]

\* execute_curated_screen_lua, with the calls in one line.
SendCalls(command, args, target, calls) ==
  Send(command, args, target,
       [EmptyText EXCEPT !.ascii = Len(calls) * CallLength],
       EncodeCalls(calls))

\* ScreenFieldRegistry::installed.
HasRegistry == frozen # None /\ RegistryBuilds(frozen.manifest)

Refuse(command, args) ==
  /\ Ends(command, args, FALSE, <<>>)
  /\ UNCHANGED <<slots, frozen, backup, original, faithful>>

\* execute_screen_set_with_registry.
SetIsValid(inputs, activate) ==
  /\ HasRegistry
  /\ \A i \in DOMAIN inputs : AssignmentParses(frozen.manifest, inputs[i])
  /\ \A l \in Range(activate) : HasLayer(frozen.manifest, l)
  /\ NoDuplicate(ParseAssignments(frozen.manifest, inputs))

ScreenSet(inputs, activate, args) ==
  IF SetIsValid(inputs, activate) /\ ValidTarget(args)
    THEN SendCalls("set", <<inputs, activate, args>>, ResolveTarget(args),
                   CompileSet(ParseAssignments(frozen.manifest, inputs), activate))
    ELSE Refuse("set", <<inputs, activate, args>>)

\* execute_screen_clear_with_registry.
ScreenClear(layer, args) ==
  IF HasRegistry /\ HasLayer(frozen.manifest, layer) /\ ValidTarget(args)
    THEN SendCalls("clear layer", <<layer, args>>, ResolveTarget(args),
                   CompileSet(ClearPlan(frozen.manifest, layer), <<>>))
    ELSE Refuse("clear layer", <<layer, args>>)

\* execute_screen_activate_with_registry.
ScreenActivate(layer, args) ==
  IF HasRegistry /\ HasLayer(frozen.manifest, layer) /\ ValidTarget(args)
    THEN SendCalls("activate", <<layer, args>>, ResolveTarget(args),
                   <<ActivateCall(layer)>>)
    ELSE Refuse("activate", <<layer, args>>)

\* execute_screen_raw.
ScreenRaw(t, args) ==
  IF ValidTarget(args)
    THEN Send("raw", <<t, args>>, ResolveTarget(args), t, <<EncodeScript(t)>>)
    ELSE Refuse("raw", <<t, args>>)

\* The user edits a slot with the editor.
Edit(location, t) ==
  /\ slots[location] # t
  /\ slots' = [slots EXCEPT ![location] = t]
  /\ Ends("edit", <<location>>, TRUE, <<>>)
  /\ UNCHANGED <<frozen, backup, original, faithful>>

Layers ==
  UNION {UNION {Range(Column(t[s][n].manifest.layers, "name")) :
                  n \in DOMAIN t[s]} : t \in Trees, s \in Source}

Next ==
  /\ steps < MaxSteps
  /\ \/ \E name \in Names, args \in TargetArgs :
          \/ Install(name, args)
          \/ Upgrade(name, args)
          \/ \E command \in {"install", "upgrade"} : RefuseInstall(command, name, args)
     \/ \E args \in TargetArgs :
          \/ Repair(args) \/ RefuseRepair(args)
          \/ Restore(args) \/ Clear(args) \/ RefuseRemove(args)
          \/ Verify(args)
          \/ \E inputs \in Inputs, activate \in BoundedSeq(Layers, 1) :
               ScreenSet(inputs, activate, args)
          \/ \E layer \in Layers : ScreenClear(layer, args) \/ ScreenActivate(layer, args)
          \/ \E t \in UserTexts : ScreenRaw(t, args)
     \/ \E location \in Locations, t \in UserTexts \cup {None} : Edit(location, t)

Spec == Init /\ [][Next]_vars

-----------------------------------------------------------------------------
(* Properties                                                              *)

\* What is frozen is a runtime directory as it is, and loads; a backup has all
\* its assets; nothing is stored without a home.
TypeOK ==
  /\ DOMAIN slots = Locations
  /\ frozen # None =>
       /\ home
       /\ frozen.manifest \in Manifest
       /\ Loads(frozen)
       /\ \E s \in Source : frozen \in Range(tree[s])
  /\ backup # None =>
       /\ home
       /\ backup.manifest \in Manifest
       /\ {slot.asset : slot \in Range(backup.manifest.slots)} = DOMAIN backup.files
  /\ steps \in 0 .. MaxSteps

Reachable(args) == ValidTarget(args) /\ Reaches(ResolveTarget(args))
OnModule(dir) == \A slot \in Range(dir.manifest.slots) : slot.location \in Locations
PlainScripts(dir) == \A asset \in Range(Assets(dir)) : asset.text.other = 0

\* The directories of a name, as users see them.
Places(name) ==
  {s \in Source : /\ s = "user" => home
                  /\ name \in DOMAIN tree[s]
                  /\ tree[s][name].toml # "absent"}

\* The runtime that a name stands for: the most specific place wins.
Wanted(name) ==
  LET place == CASE "dev" \in Places(name) -> "dev"
                 [] "dev" \notin Places(name) /\ "user" \in Places(name) -> "user"
                 [] OTHER -> "system"
  IN tree[place][name]

Differs(asset) ==
  LET held == slots[asset.slot.location] IN
  held = None \/ NormalizeText(held) # ExpectedReadback(asset.text)

MayFail(command, args) ==
  CASE command \in {"install", "upgrade"} ->
         \/ ~home
         \/ ~Reachable(args[2])
         \/ Places(args[1]) = {}
         \/ ~Loads(Wanted(args[1]))
         \/ ~OnModule(Wanted(args[1]))
         \/ ~PlainScripts(Wanted(args[1]))
         \/ command = "install" /\ ~CanCapture(Wanted(args[1]))
    [] command = "restore" ->
         ~Reachable(args[1]) \/ ~OnModule(backup) \/ ~PlainScripts(backup)
    [] command = "clear" ->
         ~Reachable(args[1])
    [] command = "remove" ->
         ~ValidTarget(args[1]) \/ frozen = None
    [] command = "repair" ->
         \/ ~Reachable(args[1])
         \/ frozen = None
         \/ \A asset \in Range(Assets(frozen)) : ~Differs(asset)
         \/ \A asset \in Range(Assets(frozen)) : slots[asset.slot.location] = None
    [] command = "verify" ->
         \/ ~Reachable(args[1])
         \/ frozen = None
         \/ \E asset \in Range(Assets(frozen)) : Differs(asset)
    [] OTHER -> TRUE

\* On a module that answers, a runtime command fails only for its arguments,
\* for what is in the runtime's directory, or for what somebody put into the
\* slots: whatever framing, packets and normalization do to a script is undone
\* or expected when it is read back.  Three of the reasons are not found when
\* the directory is loaded: a script that is not ASCII, one in a subdirectory,
\* and one for a slot that the module does not have.
FailureHasReason == last.ok \/ MayFail(last.command, last.args)

\* After a successful install or upgrade the slots hold the scripts of the
\* runtime that the name stands for, and this runtime is the frozen one.
InstalledIsWanted ==
  last.command \in {"install", "upgrade"} /\ last.ok =>
    /\ frozen = Wanted(last.args[1])
    /\ \A slot \in Range(frozen.manifest.slots) :
         slots[slot.location] = FrameLua(NormalizeText(frozen.files[slot.asset]))

\* A script as the tool writes it, a blank slot as the empty script.
Framed(held) ==
  FrameLua(NormalizeText(IF held = None THEN EmptyText ELSE held))

\* After a successful remove the slots hold what they held before the runtime
\* was installed, up to the framing.  It takes a backup made then, and from
\* this module.  Slots that share an asset share a file in the backup as well,
\* and if one script does not fit into a slot with the prefix added, none of
\* them comes back.
RemoveGivesBack ==
  last.command \in {"restore", "clear"} /\ last.ok /\ faithful =>
    LET all == Range(backup.manifest.slots) IN
    \/ \E slot \in all : slot.location \in Locations
                         /\ ~Installable(Framed(original[slot.location]))
    \/ \A slot \in all :
         \/ Framed(slots[slot.location]) = Framed(original[slot.location])
         \/ \E other \in all \ {slot} : other.asset = slot.asset

\* Where a field is on the module: all that arrives is ASCII.
Address(field) == <<Ascii(field.layer), Ascii(field.key)>>

\* The last call for a field's address is the one that counts.
Shows(calls, field, value) ==
  LET Sets(i) == /\ calls[i].call = "set_field"
                 /\ <<calls[i].layer, calls[i].key>> = Address(field)
  IN \E i \in DOMAIN calls :
       /\ Sets(i) /\ calls[i].value = Ascii(value)
       /\ \A j \in DOMAIN calls : j > i => ~Sets(j)

\* No other field of these has its address.
Alone(field, named) ==
  \A other \in named \ {field} : Address(other) # Address(field)

SetShown(fields, inputs, activate, calls) ==
  LET named == {f \in fields : \E i \in inputs : i.name = f.name} IN
  /\ \A f \in named, i \in inputs :
       i.name = f.name /\ Alone(f, named) => Shows(calls, f, i.literal)
  /\ activate # <<>> => calls[Len(calls)] = ActivateCall(Ascii(activate[1]))

ClearShown(fields, layer, calls) ==
  LET named == {f \in fields : f.layer = layer} IN
  \A f \in named : Alone(f, named) => Shows(calls, f, f.clear.literal)

\* After a successful set or clear on a module that hears it, each field that
\* the command is about holds what is left of the value asked for without the
\* characters that are not ASCII (a number, a Boolean and an ASCII text as they
\* are), unless another one of these fields has the same address once layers and
\* keys are without such characters too.  A layer to activate is activated last.
ScreenShowsRequest ==
  LET fields == Range(frozen.manifest.fields) IN
  /\ last.command = "set" /\ last.ok /\ Reachable(last.args[3]) =>
       SetShown(fields, Range(last.args[1]), last.args[2], last.ran)
  /\ last.command = "clear layer" /\ last.ok /\ Reachable(last.args[2]) =>
       ClearShown(fields, last.args[1], last.ran)
=============================================================================
