-------------------------- MODULE RuntimeLifecycle --------------------------
(***************************************************************************)
(* The runtime commands of src/src/runtime.rs on one device: install,      *)
(* upgrade, repair, remove and verify, step by step against a device whose *)
(* configuration slots live in memory and are stored page by page, and     *)
(* against the two directories on the host: the pre-install backup and the *)
(* frozen copy of the installed runtime.  Config writes are not            *)
(* acknowledged and reports can be lost, every call can fail, the process  *)
(* can be killed between any two steps, and the device can lose power.     *)
(* The serial port is open exclusively for the whole command, so the user  *)
(* edits the device only between commands.                                 *)
(***************************************************************************)
EXTENDS Naturals, FiniteSets

CONSTANTS
  Slot,         \* configuration slots of the device
  Page,         \* its pages
  PageOf,       \* PageOf[s]: the page that slot s is on
  Content,      \* scripts, as they are in a file or in a slot of the device
  Empty,        \* the script "": a slot that holds it reads as missing
  Framed,       \* Framed[x]: what a slot holds after x is written to it, x
                \* with the callback prefix put before it if it lacks one
  Runtime,      \* runtimes that can be installed: each maps the slots that
                \* its manifest owns to its assets
  None,
  Broken,       \* a directory that does not load
  MaxCommands   \* bound: how many commands and edits the user makes

\* What a loadable runtime directory holds.
Bundle == UNION {[S -> Content] : S \in (SUBSET Slot) \ {{}}}

ASSUME LifecycleAssumption ==
  /\ PageOf \in [Slot -> Page]
  /\ Empty \in Content
  /\ Framed \in [Content -> Content \ {Empty}]
  /\ \A x \in Content : Framed[Framed[x]] = Framed[x]
  /\ Runtime \subseteq Bundle
  /\ None \notin Bundle \cup {Broken}
  /\ Broken \notin Bundle
  /\ MaxCommands \in Nat

VARIABLES
  ram,         \* ram[s]: the script in use on the device
  flash,       \* flash[s]: the script that the device would boot with
  preInstall,  \* the pre-install directory
  frozen,      \* the runtime directory: the frozen installed copy
  command,     \* the command that runs, or ran last
  step,        \* how far it is
  goal,        \* the bundle it writes or compares with
  slots,       \* the slots it has yet to visit in this step
  pages,       \* the pages it has yet to store
  captured,    \* the backup it is collecting
  seen,        \* what its inspection has found, slot by slot
  outcome,     \* how the last command ended
  issued,      \* how many commands and edits there have been
  pristine,    \* history: the scripts that the last backup has to keep
  recorded,    \* history: the runtime installed last, if not removed since
  strayed      \* history: pages whose last store went to another page

deviceVars == <<ram, flash>>
hostVars == <<preInstall, frozen>>
commandVars == <<command, goal, issued>>
historyVars == <<pristine, recorded, strayed>>
vars == <<deviceVars, hostVars, commandVars, step, slots, pages, captured,
          seen, outcome, historyVars>>

Partial(S) == UNION {[D -> S] : D \in SUBSET Slot}
Nothing == [s \in {} |-> Empty]
Put(f, s, value) ==
  [t \in DOMAIN f \cup {s} |-> IF t = s THEN value ELSE f[t]]
Drop(f, s) == [t \in DOMAIN f \ {s} |-> f[t]]

Finding == {"match", "drifted", "missing"}

\* Type invariant: every variable has the shape its declaration describes.
TypeOK ==
  /\ ram \in [Slot -> Content]
  /\ flash \in [Slot -> Content]
  /\ preInstall \in Bundle \cup {None, Broken}
  /\ frozen \in Bundle \cup {None, Broken}
  /\ command \in {"none", "install", "upgrade", "repair", "restore", "clear",
                  "verify"}
  /\ step \in {"idle", "capture", "swap_backup", "inspect", "write", "check",
               "swap_frozen"}
  /\ goal \in Partial(Content)
  /\ slots \subseteq Slot
  /\ pages \subseteq Page
  /\ captured \in Partial(Content)
  /\ seen \in Partial(Finding)
  /\ outcome \in {"none", "ok", "error"}
  /\ issued \in 0 .. MaxCommands
  /\ pristine \in Partial(Content)
  /\ recorded \in Bundle \cup {None}
  /\ strayed \subseteq Page

Init ==
  /\ ram \in [Slot -> Content \ UNION {{b[s] : s \in DOMAIN b} : b \in Runtime}]
  /\ flash = ram
  /\ preInstall = None
  /\ frozen = None
  /\ command = "none"
  /\ step = "idle"
  /\ goal = Nothing
  /\ slots = {}
  /\ pages = {}
  /\ captured = Nothing
  /\ seen = Nothing
  /\ outcome = "none"
  /\ issued = 0
  /\ pristine = Nothing
  /\ recorded = None
  /\ strayed = {}

-----------------------------------------------------------------------------
(* Starting a command                                                      *)

Issue ==
  /\ step = "idle"
  /\ issued < MaxCommands
  /\ issued' = issued + 1

\* The command goes on with this step, towards bundle b.
Begin(name, first, b) ==
  /\ command' = name
  /\ step' = first
  /\ goal' = b
  /\ slots' = DOMAIN b
  /\ pages' = {PageOf[s] : s \in DOMAIN b}
  /\ captured' = Nothing
  /\ seen' = Nothing
  /\ outcome' = "none"

\* The command ends at once, with an error.
Refuse(name) ==
  /\ command' = name
  /\ outcome' = "error"
  /\ UNCHANGED <<step, goal, slots, pages, captured, seen>>

StartInstall(b) ==
  /\ Issue
  /\ Begin("install", "capture", b)
  /\ UNCHANGED <<deviceVars, hostVars, historyVars>>

\* An upgrade keeps the backup there is, and asks for no installed runtime.
StartUpgrade(b) ==
  /\ Issue
  /\ Begin("upgrade", "write", b)
  /\ UNCHANGED <<deviceVars, hostVars, historyVars>>

StartRepair ==
  /\ Issue
  /\ IF frozen \in Bundle THEN Begin("repair", "inspect", frozen)
                          ELSE Refuse("repair")
  /\ UNCHANGED <<deviceVars, hostVars, historyVars>>

StartVerify ==
  /\ Issue
  /\ IF frozen \in Bundle THEN Begin("verify", "inspect", frozen)
                          ELSE Refuse("verify")
  /\ UNCHANGED <<deviceVars, hostVars, historyVars>>

\* remove restores a backup that loads, or else clears what the frozen copy
\* says it owns, with a warning; then nothing is left to keep.
StartRemove ==
  /\ Issue
  /\ \/ /\ preInstall \in Bundle
        /\ Begin("restore", "write", preInstall)
        /\ UNCHANGED pristine
     \/ /\ preInstall \notin Bundle
        /\ frozen \in Bundle
        /\ Begin("clear", "write", [s \in DOMAIN frozen |-> Empty])
        /\ pristine' = Nothing
     \/ /\ preInstall \notin Bundle
        /\ frozen \notin Bundle
        /\ Refuse("clear")
        /\ UNCHANGED pristine
  /\ UNCHANGED <<deviceVars, hostVars, recorded, strayed>>

-----------------------------------------------------------------------------
(* The pre-install backup                                                  *)

\* What a deletion that is under way, or that is cut short, leaves of a
\* directory.
Deleting(directory) == IF directory = None THEN {None} ELSE {None, Broken}

\* Mutant: a slot that does not answer has no place in the backup.
CaptureSlotUnanswered(s) ==
  /\ step = "capture"
  /\ s \in slots
  /\ \E script \in {ram[s], None} : captured' = Put(captured, s, script)
  /\ slots' = slots \ {s}
  /\ UNCHANGED <<deviceVars, hostVars, commandVars, step, pages, seen, outcome,
                 historyVars>>

\* read_slot_content_for_backup: the report, or "" if there is none.
CaptureSlot(s) ==
  /\ step = "capture"
  /\ s \in slots
  /\ \E script \in {ram[s], Empty} : captured' = Put(captured, s, script)
  /\ slots' = slots \ {s}
  /\ UNCHANGED <<deviceVars, hostVars, commandVars, step, pages, seen, outcome,
                 historyVars>>

\* The staged backup is complete: the old one is removed to make room.
DeleteOldBackup ==
  /\ step = "capture"
  /\ slots = {}
  /\ preInstall' \in Deleting(preInstall)
  /\ pristine' = [s \in {t \in DOMAIN captured :
                           captured[t] = ram[t] /\ ram[t] = flash[t]} |-> ram[s]]
  /\ step' = "swap_backup"
  /\ UNCHANGED <<deviceVars, frozen, commandVars, slots, pages, captured, seen,
                 outcome, recorded, strayed>>

\* Mutant: the backup is staged, but not moved into place.
ForgetBackup ==
  /\ step = "swap_backup"
  /\ step' = "write"
  /\ slots' = DOMAIN goal
  /\ UNCHANGED <<deviceVars, hostVars, commandVars, pages, captured, seen,
                 outcome, historyVars>>

PublishBackup ==
  /\ step = "swap_backup"
  /\ preInstall' = captured
  /\ step' = "write"
  /\ slots' = DOMAIN goal
  /\ UNCHANGED <<deviceVars, frozen, commandVars, pages, captured, seen,
                 outcome, historyVars>>

-----------------------------------------------------------------------------
(* The device                                                              *)

\* A config write is sent and slept on.  Nothing tells whether it arrived.
WriteSlot(s) ==
  /\ step = "write"
  /\ s \in slots
  /\ ram' \in {ram, [ram EXCEPT ![s] = Framed[goal[s]]]}
  /\ slots' = slots \ {s}
  /\ UNCHANGED <<flash, hostVars, commandVars, step, pages, captured, seen,
                 outcome, historyVars>>

\* The device stores the page that is active: p, unless the packet that was to
\* change the page was lost, or the user changed it at the device since.
Store(p) ==
  \E q \in Page :
    /\ flash' = [s \in Slot |-> IF PageOf[s] = q THEN ram[s] ELSE flash[s]]
    /\ strayed' = (strayed \cup {p}) \ {q}

\* Mutant: only the first page that was written is stored.
StoreFirstPage(p) ==
  /\ step = "write"
  /\ slots = {}
  /\ p \in pages
  /\ Store(p)
  /\ pages' = {}
  /\ step' = "check"
  /\ slots' = DOMAIN goal
  /\ UNCHANGED <<ram, hostVars, commandVars, captured, seen, outcome, pristine,
                 recorded>>

\* store_page, acknowledged: the acknowledgement does not name a page.  After
\* the last one the device is read back.
StorePage(p) ==
  /\ step = "write"
  /\ slots = {}
  /\ p \in pages
  /\ Store(p)
  /\ pages' = pages \ {p}
  /\ IF pages = {p} THEN step' = "check" /\ slots' = DOMAIN goal
                    ELSE UNCHANGED <<step, slots>>
  /\ UNCHANGED <<ram, hostVars, commandVars, captured, seen, outcome, pristine,
                 recorded>>

\* The device stores a page, but its acknowledgement is lost: an error.
StoreUnacknowledged(p) ==
  /\ step = "write"
  /\ slots = {}
  /\ p \in pages
  /\ Store(p)
  /\ step' = "idle"
  /\ outcome' = "error"
  /\ UNCHANGED <<ram, hostVars, commandVars, slots, pages, captured, seen,
                 pristine, recorded>>

\* What a report of slot s says: one that is empty counts for none.
Reported(s) == CASE ram[s] = Empty           -> "missing"
                 [] ram[s] = Framed[goal[s]] -> "match"
                 [] OTHER                    -> "drifted"

\* Mutant: a slot that does not answer passes for a match.
InspectSlotLeniently(s) ==
  /\ step \in {"inspect", "check"}
  /\ s \in slots
  /\ \E finding \in {Reported(s), "match"} : seen' = Put(seen, s, finding)
  /\ slots' = slots \ {s}
  /\ UNCHANGED <<deviceVars, hostVars, commandVars, step, pages, captured,
                 outcome, historyVars>>

\* inspect_runtime_bundle and verify_removed_slots: fetch, compare; a report
\* that is lost makes the slot a missing one.
InspectSlot(s) ==
  /\ step \in {"inspect", "check"}
  /\ s \in slots
  /\ \E finding \in {Reported(s), "missing"} : seen' = Put(seen, s, finding)
  /\ slots' = slots \ {s}
  /\ UNCHANGED <<deviceVars, hostVars, commandVars, step, pages, captured,
                 outcome, historyVars>>

FoundOnly(findings) == \A s \in DOMAIN seen : seen[s] \in findings

\* is_exact_match.
ExactMatch == FoundOnly({"match"})

-----------------------------------------------------------------------------
(* After an inspection                                                     *)

\* The command ends with this outcome, and writes nothing more.
End(result) ==
  /\ step' = "idle"
  /\ outcome' = result
  /\ UNCHANGED <<slots, pages, seen>>

FinishVerify ==
  /\ step = "inspect"
  /\ command = "verify"
  /\ slots = {}
  /\ End(IF ExactMatch THEN "ok" ELSE "error")
  /\ UNCHANGED <<deviceVars, hostVars, commandVars, captured, historyVars>>

\* repair refuses a device that needs none, and one that shows no trace of
\* the runtime.
PlanRepair ==
  /\ step = "inspect"
  /\ command = "repair"
  /\ slots = {}
  /\ IF ExactMatch \/ FoundOnly({"missing"})
       THEN End("error")
       ELSE /\ step' = "write"
            /\ slots' = DOMAIN goal
            /\ seen' = Nothing
            /\ UNCHANGED <<pages, outcome>>
  /\ UNCHANGED <<deviceVars, hostVars, commandVars, captured, historyVars>>

\* Mutant: the frozen copy is replaced without a look at the report.
AcceptUnchecked ==
  /\ step = "check"
  /\ slots = {}
  /\ frozen' \in Deleting(frozen)
  /\ step' = "swap_frozen"
  /\ recorded' = IF command \in {"restore", "clear"} THEN None ELSE recorded
  /\ UNCHANGED <<deviceVars, preInstall, commandVars, slots, pages, captured,
                 seen, outcome, pristine, strayed>>

\* The read-back decides.  A clear is content with slots that do not answer.
\* Success goes on to delete the frozen copy there was.
AcceptReadBack ==
  /\ step = "check"
  /\ slots = {}
  /\ IF ExactMatch \/ (command = "clear" /\ FoundOnly({"match", "missing"}))
       THEN /\ frozen' \in Deleting(frozen)
            /\ step' = "swap_frozen"
            /\ recorded' = IF command \in {"restore", "clear"} THEN None
                                                               ELSE recorded
            /\ UNCHANGED <<slots, pages, seen, outcome>>
       ELSE End("error") /\ UNCHANGED <<frozen, recorded>>
  /\ UNCHANGED <<deviceVars, preInstall, commandVars, captured, pristine, strayed>>

\* The staged copy of the runtime takes its place; remove leaves it empty.
SwapFrozen ==
  /\ step = "swap_frozen"
  /\ IF command \in {"restore", "clear"}
       THEN frozen' = None /\ UNCHANGED recorded
       ELSE frozen' = goal /\ recorded' = goal
  /\ End("ok")
  /\ UNCHANGED <<deviceVars, preInstall, commandVars, captured, pristine, strayed>>

-----------------------------------------------------------------------------
(* Failures, and the user                                                  *)

\* Any call can fail, which ends the command then and there; and the process
\* can be killed.  Nothing is undone in either case.
Abort ==
  /\ step # "idle"
  /\ End("error")
  /\ pristine' = IF step = "swap_backup" THEN Nothing ELSE pristine
  /\ UNCHANGED <<deviceVars, hostVars, commandVars, captured, recorded, strayed>>

\* The device reboots from what it has stored, and a command that was not
\* done with it fails: if it is busy with the backup on the host just then, at
\* its first write.
PowerCycle ==
  /\ step # "swap_backup"
  /\ ram' = flash
  /\ IF step \in {"capture", "inspect", "write", "check"}
       THEN End("error")
       ELSE UNCHANGED <<step, outcome, slots, pages, seen>>
  /\ UNCHANGED <<flash, hostVars, commandVars, captured, historyVars>>

\* The user changes a slot with another program, and stores it.
Edit(s, script) ==
  /\ Issue
  /\ ram' = [ram EXCEPT ![s] = script]
  /\ flash' = [flash EXCEPT ![s] = script]
  /\ outcome' = "none"
  /\ pristine' = Drop(pristine, s)
  /\ UNCHANGED <<hostVars, command, goal, step, slots, pages, captured, seen,
                 recorded, strayed>>

Next ==
  \/ \E b \in Runtime : StartInstall(b) \/ StartUpgrade(b)
  \/ StartRepair
  \/ StartVerify
  \/ StartRemove
  \/ DeleteOldBackup
  \/ PublishBackup
  \/ \E s \in Slot : CaptureSlot(s) \/ WriteSlot(s) \/ InspectSlot(s)
  \/ \E p \in Page : StorePage(p) \/ StoreUnacknowledged(p)
  \/ FinishVerify
  \/ PlanRepair
  \/ AcceptReadBack
  \/ SwapFrozen
  \/ Abort
  \/ PowerCycle
  \/ \E s \in Slot, script \in Content : Edit(s, script)

Spec == Init /\ [][Next]_vars

-----------------------------------------------------------------------------
(* Properties                                                              *)

\* The device has bundle b, in use and stored, on every page whose last store
\* was not led astray.
OnDevice(b) ==
  \A s \in DOMAIN b :
    PageOf[s] \notin strayed =>
      ram[s] = Framed[b[s]] /\ flash[s] = Framed[b[s]]

\* A runtime is recorded as installed only while the device has all of it,
\* stored: whatever writes, reports and acknowledgements were lost on the
\* way, and with power cycles in between.  Nothing in the protocol lets the host
\* notice a store that went to another page.
FreezeIsVerified ==
  [][frozen' \in Bundle /\ frozen' # frozen => OnDevice(frozen')]_vars

\* No script that an install overwrites is lost: until the next install gives
\* up the backup, or a clear warns, it is stored on the device or it is in the
\* backup, across upgrades, repairs, removes, failures, crashes and power
\* cycles.  This holds for the scripts that were in use and stored when the
\* install found them, and whose report was not lost on the way.
OriginalIsSafe ==
  \A s \in DOMAIN pristine :
    \/ flash[s] = pristine[s]
    \/ /\ preInstall \in Bundle
       /\ s \in DOMAIN preInstall
       /\ preInstall[s] = pristine[s]

\* A remove that restores and succeeds puts back every script that the last
\* install overwrote, with the callback prefix that every write adds, however
\* many upgrades and repairs came in between.
RemoveRestores ==
  step = "idle" /\ command = "restore" /\ outcome = "ok" => OnDevice(pristine)

\* A command that ends well leaves the device with what it was about, even if
\* power was lost since the read-back; only a clear takes silence for success,
\* and only verify is content with scripts that are not stored.
SuccessIsOnDevice ==
  [][step # "idle" /\ outcome' = "ok" =>
       CASE command = "verify" -> \A s \in DOMAIN goal : ram[s] = Framed[goal[s]]
         [] command = "clear"  -> TRUE
         [] OTHER              -> OnDevice(goal)]_vars

\* Replacing the frozen copy is atomic: between commands, whatever happened to
\* them, the copy of the runtime installed last is there or a newer one is.
FrozenSurvives ==
  step = "idle" /\ recorded # None => frozen \in Bundle
=============================================================================
