# TLA+ specifications of vsn1-cli

vsn1-cli drives an Intech VSN1 (a Grid module with a display) over a USB serial
port.  `vsn1-cli` runs one command; `vsn1-daemon` keeps the port warm and serves
commands over a Unix socket.  These modules model what the two programs do with
the things they share: the socket, the serial ports, the device's configuration
slots and the directories under `~/.config/vsn1-cli`.

## The system

| Component (source) | State | Operations | Interacts with |
|---|---|---|---|
| Device sessions (`daemon_session.rs`) | map port -> worker, per worker a channel and an open handle, one transport factory behind a mutex | `ensure_open`, `write_immediate`, `with_transport`; worker loop with lazy open and idle close | handler threads by channels, serial ports |
| Daemon server (`daemon_server.rs`) | listener, socket file | bind (replacing a socket), accept, one thread per connection, unlink on drop | clients over the socket, the command handler |
| Daemon client and CLI routing (`daemon_client.rs`, `lib.rs`, `command_model.rs`) | one invocation | try the daemon, else run cold | socket, serial port |
| Daemon command handler (`daemon_command_handler.rs`) | none of its own | one registry call per command | discovery, sessions, runtime lifecycle |
| Runtime lifecycle (`runtime.rs`) | the device's slots (in use, stored), pre-install backup, frozen copy, staging directories | install, upgrade, repair, remove, verify, status | device, file system |
| Runtime slot I/O (`runtime.rs`, `transport.rs`) | packet identity, input buffer | fetch, write, clear, store page, read until idle | device |
| Bundles and discovery (`runtime_bundle.rs`) | none (reads directories of three roots) | load, validate, search roots | file system |
| Device discovery and selection (`device.rs`) | none | enumerate, filter, rank, select | operating system |
| Targeting and protocol (`targeting.rs`, `protocol.rs`) | none | resolve target, normalise Lua, encode packets | - |
| Screen registry and compiler (`screen.rs`) | fields and layers of the installed runtime | parse assignments, compile set, clear, activate | frozen copy |
| Device Lua (`assets/runtimes/*/lcd-*.lua`) | layers, timers, fields, redraw flag | `set_field`, `activate_layer`, draw | device clock |
| Socket path, protocol envelope (`daemon_socket.rs`, `daemon_protocol.rs`) | none | resolve the path, encode, decode | client, server |

What is hard here: threads that race for a port's worker; a device that
disappears between discovery, open and write; two channels that together carry
one answer; a daemon that dies with a command half done, or is replaced while it
runs; a device that neither acknowledges writes nor promises an answer; a
process that can be killed between any two steps of an installation whose undo
information it is just replacing.

What makes each component correct:

* sessions: one worker per port, FIFO and one operation at a time, every waiter
  answered with its own outcome, failures only from outside, idle ports given back;
* routing: a command is carried out at most once, success means it was, a dead
  daemon neither hangs a client nor blocks the next daemon;
* lifecycle: the user's scripts survive, what is recorded as installed is on the
  device and stored, a successful restore restores;
* slot I/O: what is returned is the requested slot's script, an acknowledgement
  is the requested page's;
* pure parts, together with what uses them: what is written is what is read back,
  a name stands for one runtime and one device, a field shows what was asked for;
* the whole: a command gets the same answer through the daemon and cold, whatever
  runs beside it, except where two commands really share something.

`PROJECT.json` lists the hazards at their lines with the properties that cover
them, and says why where none does.

## Modules

| Module | Role |
|---|---|
| `DeviceSession` | threads, channels, mutex, handles and ports of the registry |
| `PortQueue` | abstract: one FIFO queue per port; `DeviceSession` implements it |
| `DeviceSessionProofs` | one worker per port, no waiter is forgotten, `PortQueue` is implemented, for any number of requests, ports, workers |
| `DeviceSessionOutcomes` | proofs: the daemon never makes a request fail, an answer is the request's own outcome, operations are not torn apart |
| `DaemonRouting` | client, daemons, connection threads, socket file, port |
| `CommandOnce` | abstract: a command is carried out at most once and reported truly; `DaemonRouting` implements it |
| `RuntimeLifecycle` | runtime commands step by step against device and directories |
| `RuntimeLifecycleProofs` | inductive invariant and the safety properties of `RuntimeLifecycle`, for any device, runtimes and number of commands |
| `DaemonRoutingProofs` | inductive invariant, its safety properties and the refinement of `CommandOnce`, for any number of invocations and daemons |
| `DaemonCommands` | several invocations at once, through the daemon and cold, on devices that share the files; extends `DeviceSelection` |
| `DaemonCommandsProofs` | inductive invariant and the safety properties of `DaemonCommands`, for any number of invocations, devices and runtimes |
| `RuntimeProvision` | whole runtime and screen commands on contents that are spelled out; extends the five operator modules below |
| `RuntimeProvisionProofs` | inductive invariant and the safety properties of `RuntimeProvision`, for any directories, scripts, targets and assignments |
| `ScriptText`, `GridFrames`, `RuntimeBundles`, `ScreenRegistry`, `DeviceSelection` | operators: texts on their way, packet layout and targets, runtime directories, fields and calls, ports |
| `SlotIO` | the wire calls of an install against modules that answer late, in part or not at all |
| `SlotIOProofs` | inductive invariant and the safety properties of `SlotIO`, for any grid, bundle and number of faults |
| `ScreenDisplay` | screen commands, the Lua that they call, draw events, time |
| `LayeredScreen` | abstract: the visible layer by priority and recency, and a display that catches up; `ScreenDisplay` implements it |
| `ScreenDisplayProofs` | types and the safety half of that refinement, for any manifest and scripts |
| `MC*` | model values, symmetry and bounds for TLC |

### DeviceSession

One `handler[r]` per daemon thread: `ResolveDevice` (discovery and selection),
`WorkerHandle` (`worker_handle`, atomic because the map is locked throughout),
`SendCommand` (outside that lock), `ReceiveReply` and `ReceiveResult`.  One `pc[w]` per worker thread:
`ReceiveCommand` / `IdleTimeout` + `CloseTransport`, `ReuseTransport` or
`LockFactory` + `OpenSucceeds` / `OpenFails`, `Run...`, `SendReply`.  A
`with_transport` closure is two transfers, enough for another request to get in
between.  A transfer is `write_all` and `flush`, so one that fails may have reached the wire (`Write`); and an
operation has a verdict of its own, which can be an error though every transfer arrived (an answer that does not
come, a read back that differs) or Ok though there was nothing to send.  So an error says nothing of the wire, and
`AnswerIsOwnOutcome` does not claim that it does: an operation that ran is answered with its own verdict, and
one that is answered for it without having run has sent nothing.  A handle is the plug generation it was opened in, so a handle that
outlived its device is told from a live one, as `held` is about the device
node that is there now.  Ports are unplugged, replugged and opened by an editor
at any time.  `wire` and `clean` are history variables;
`Blame` makes an error that is met on a live handle a cause outside the daemon.

### DaemonRouting

`daemon[d]` follows `daemon_main`: `InspectPath`, `RemoveStaleSocket`,
`BindListener` are separate steps, as two daemons can start at once.  `Crash`
leaves the socket file; `StopServing` is an accept error followed by the drop,
which removes whatever file is there.  `client[c]` follows
`execute_and_render_command_with_optional_daemon` and `try_execute`; `thread[c]`
is the thread that serves its connection.  The port is exclusive; a daemon
keeps it until `CloseIdlePort`.  `RejectRequest` is a request that does not decode:
cut off, or sent to a daemon of another protocol version.  `NoSocketPath` is an
environment in which the client finds no path, or not the daemon's.

### DaemonCommands

An invocation goes through `Check` (everything that `execute_screen_request`,
`execute_device_request` and `execute_runtime_request` check before they queue,
or that the cold functions check before they open the port), `Enqueue` and `Serve`, or
`OpenCold`, then the steps of its command with the port open: `Stage` and `Publish` the
backup, `Provision`, `Freeze`, or `RemoveRuntime` and `Forget`.  `ChecksFirst` is
the union of four groups of checks, of which `EncodeChecks` is where the two paths differ: the handler encodes a
script before it queues, a cold run after it has opened the port.  A curated command is compiled in `Check`, and its
script runs in `Send`, with anything in between.  All devices share `staging`, `backup` and
`frozen`.  A runtime stands for its scripts; a device
holds one of them, its owner's scripts, a mixture, or nothing.
`company`, `due`, `latest` and `origin` are history variables: who ran meanwhile, what a
request deserves in the state it is given in, the last change of any device, the last
backup.  The exceptions in the properties are all needed: TLC finds a
violation without any one of them.  `ScreenFitsRuntime` is for a script whose wait no runtime command overlaps, or
at whose end the frozen copy is the one it was compiled from, and only after a last change that succeeded and was on
this device.  The code does not notice a change that is complete before the script leaves the queue, so nothing is claimed of it.
In `DeviceSelection`, `KeepEach` is the loop of `normalize_discovered_devices`, sort, fold and sort.
What it keeps can be said as a set, `Normalize`, which is what the rest is written with and what the proofs can reason about;
`LoopNormalizes` in `MCDaemonCommands` has TLC compare the two over every listing of up to four ports, so nothing rests on the claim.
`DaemonCommandsAssumption` says of a listing that two names of one device are aliases of different rank.  That is how macOS
lists a device, as `cu` and `tty` with one suffix, and on Linux a device has one name; a listing in which one device went by two unrelated names is
one that the code does not handle either.

### RuntimeProvision

The commands of `RuntimeLifecycle` again, each in one step on a module that loses
nothing, but with real contents.  A text (`ScriptText`) is known by what the conversions look at: its
length in bytes, bytes that are not ASCII, line ends, frame and callback prefix.  A
packet (`GridFrames`) is a sequence of cells, each a control character, a digit that knows
its place in its number, or a script; the reading side takes cells at the offsets
that `runtime.rs` uses, so a field that is not where it is looked for does not parse.  A
runtime (`RuntimeBundles`) is a manifest with its files, found in up to three roots.  A
backup is built as `write_pre_install_bundle` builds it, file by file under the assets'
own names, and restored through the same validation as any runtime.
Screen commands (`ScreenRegistry`) end in the calls that they make on the device.
`encode_script_bytes` drops what is not ASCII from every script, without an error: `Ascii` is what is left of a name or a literal, and
`SendCalls` sends the calls after that.  So `ScreenShowsRequest` is about the value less those characters, in fields whose
addresses on the device remain different; the run has a field and a layer that become another's.
`Restore`, `Clear` and `RefuseRemove` together are `remove`.

### RuntimeLifecycle

`ram` is what the device runs, `flash` what it boots with.  Each command is a
sequence of steps: capture slot by slot, swap the backup, write slot by slot,
store page by page, read back slot by slot, swap the frozen copy.  Writes are
lost silently, reports are lost, a store is acknowledged or is an error; `Abort`
is any error or a kill between two steps, `PowerCycle` loses what is not
stored.  A script that is written becomes `Framed` of it (`normalize_lua_body`
puts the callback prefix before a script that lacks it), and a slot that holds
the empty script reads as missing, so a backup is not always what a restore
leaves on the device.  A page store stores whichever page is active: if the page
change before it is lost, or the user turns the page, another one is stored and
acknowledged in the same words (`strayed`).  Deletion of a
directory can be cut short, which leaves one that does not load (`Broken`).
A bundle is a function from the slots its manifest owns to scripts, never an
empty one, because `validate_manifest` refuses that.

### SlotIO

`install_runtime_bundle` packet by packet: `WriteSlot` (sent and slept on),
`AskStore` / `EndStore`, `AskFetch` / `EndRead`.  A module handles its packets in
order, whenever it gets to them, and keeps at it after the invocation that sent
them is over.  Its answers travel in three pieces each; any piece can be lost, and
a window can close (`read_transport_until_idle`) between any two.  `Ends` is
`split_complete_frames` and `Intact` the checksum: a frame is taken to pass it
only if it is what was sent, so the 1 in 256 of the XOR is left out.  `late` marks an install in
which a call began with an answer to an earlier one still to come.  The host
cannot tell such an answer from the one it asked for: acknowledgements carry no
identity and reports are matched by location.  TLC finds a false success at once
if `~late` is taken out of `InstalledOnTarget`.

### ScreenDisplay

The host part is `screen.rs`: `ParseValue`, `CompileUpdate`, `CompileSet`,
`ClearPlan`; the device part is the runtime's Lua.  `z` is the table
`vsn1_cli_state`, its fields named for what they hold (`l`, `b`, `u`, `r`, `w` in
the source).  `z.left` is `u` less the clock, so time needs no bound.  A script
runs to its end before the device draws; immediate writes are not answered, so one
that is lost, or a command that is refused, leaves no trace and is no step.  A
picture is the layer and the fields it is drawn from (`Uses`).  Drawing stops with an error at a
field that is nil, after the flags have been cleared.  The assumption `ManifestIsValid`
is what `validate_manifest` checks of layers and fields, `LuaAgrees` what
nothing checks: that the Lua's `o` and `m` say the same as the manifest.
`LayeredScreen` knows only the manifest.

## Runs

| Run | Question | Bounds |
|---|---|---|
| `device_session` | safety and refinement of `PortQueue` | 3 requests of any kind, 1 port, 2 worker identities, replugged once; symmetry |
| `device_session_live` | liveness, and answers across ports | 2 requests (one write, one operation), 2 ports, 2 workers, unplugged but not replugged |
| `device_session_independence` | finding: opens are coupled | 2 requests, 2 ports |
| `daemon_routing` | safety, refinement of `CommandOnce`, every invocation ends | 2 clients, 2 daemons, perhaps the socket of one that crashed before; no symmetry |
| `daemon_routing_split` | finding: a running daemon without a socket | 1 client, 2 daemons |
| `runtime_lifecycle` | the scripts survive, records are true | 2 slots on 2 pages, one runtime with 1 slot and one with 2, 6 scripts (empty, blank, with and without prefix, two of runtimes), 3 commands or edits |
| `slot_io` | nothing is pieced together from two modules, success is true, failure has a cause | 2 slots, 2 modules, 2 installs to one of them or to all, 4 faults; symmetry; states where an answer is already late are cut |
| `runtime_provision` | conversions, packets, directories and fields fit together | 1 module, 2 slots, 3 commands or edits, 15 directories (one as shipped, fourteen flawed), 3 roots, 4 targets, 4 initial holdings, 3 scripts of the user (framed, too long, not ASCII), 9 lists of assignments, texts, names and layers that are not ASCII among them |
| `daemon_commands` | what several commands at once do to each other | 2 devices, 2 runtimes, any 2 of 57 requests or any 3 of 8, 3 listings of ports with aliases, 1 device that breaks; symmetry of invocations |
| `runtime_lifecycle_atomic` | finding: the frozen copy can vanish | 2 commands |
| `screen_display` | refinement of `LayeredScreen` with its liveness; the base comes back | 2 persistent and 2 temporary layers, 3 fields, one of them numeric, 2 texts, 2 assignments in a command, any number of commands |
| `screen_display_kind` | finding: a number that arrives as nil | the same |

Why these bounds: a race for a worker needs two requests, and a third gives the
loser somebody to overtake; a second worker identity lets a wrong registry spawn
one; one replug makes a handle stale.  Two daemons race over
the socket of a third, `Stale`, that crashed before.  A small and a large runtime make upgrades
that add or leave out a slot, and two pages let a store be forgotten; three
commands reach install, an upgrade or repair that is cut short, remove.  Four faults silence one module for a write and for both of its answers, with one to spare, and a second
install meets what the first left behind.  Three invocations reach install on one device, install on another,
restore on the first: the shortest way to another device's scripts; two are enough for every other race.  Three commands of
`runtime_provision` reach edit, install, remove.  Two temporary layers have an order, two persistent ones a recency, and an
overlay that shows the base's number fails with the base.  Workers that
are not needed stay `unborn`.  Deadlock checking is off except for `ScreenDisplay`,
which never stops: requests, invocations, commands and installs are finite, so the other systems come to rest.

`runtime_provision` cuts commands that change nothing, after their answer has been checked.

Every passing property also has a mutant: a plausible bug of the mapped action,
an operator whose comment begins with "Mutant:", under which TLC finds the property
violated.

### Findings

* `OpensAreIndependent`: `ensure_transport` holds the one factory mutex during the open
  (`daemon_session.rs:235`).  The trace ends with a worker that has a request and no handle and whose `LockFactory` is not enabled,
only because the other port is being opened;
  `.plan/12-daemon-capability-plan.md:275` promises independent progress.  `ServesEveryQueue` shows that they
  are delayed, never starved.
* `FallbackMeansNoDaemon`: `bind_with_handler` removes a live daemon's socket too
  (`daemon_server.rs:64`), so ENOENT does not mean that no daemon runs, as
  `.plan/12-daemon-capability-plan.md:113` has it.
* `FieldsKeepTheirKind`: `nan` and `inf` pass for numbers (`screen.rs:542`) and reach the
  device as names of unset variables (`screen.rs:614`), so the field becomes nil and drawing fails;
  `.plan/05-proposed-architecture-and-implementation-plan.md:386` has invalid values fail.
* `FrozenSurvives`: directories are replaced by delete and rename (`runtime.rs:1012`),
  where `.plan/09-runtime-discovery-and-lifecycle-redesign.md:193` asks for an
  atomic replacement.

## Fairness

`DeviceSession`: weak fairness of each handler thread once it has a device, and of
each worker thread.  The threads are ordinary OS threads, an open and a write return (the
port has a timeout) and `recv_timeout` reaches its deadline.  Weak fairness of a
worker is enough although workers compete for the factory mutex: a worker holds
it only for one open, and with finitely many requests the others stop asking.
Arrivals, devices and the editor are not fair.  `DaemonRouting`: weak fairness of an
invocation, of a connection's thread and of a dropped daemon's exit; no
start, crash, accept error or interrupt is forced.  `ScreenDisplay`: weak fairness of
the draw event, which the device raises for as long as it runs, and of time.  `RuntimeLifecycle` has no
liveness property: the user may stop after any command.

## Proofs

`DeviceSessionProofs` proves, with no bound on requests, ports, workers or
plug generations and from `NoneAssumption` alone (the marker values are not
members of the sets, `MaxGeneration` is a positive number), that `TypeOK` and
`PortExclusive` are invariants of `Spec`.

`PortExclusive` is not inductive.  Two workers with handles on one port are excluded only by
knowing that every living worker is the one the map has for its port
(`RegistryOK`), which is kept because a worker is registered in the same step in
which it is spawned.  A worker that serves a request must be alive, which
needs `WorkerOK` (a busy worker has a request and an unborn one has neither
queue nor handle).  A request only ever reaches the worker of its own port, which
needs `HandlerOK`.  `GenerationOK` keeps 0 free to mean "no handle".  `IInv` is
their conjunction with `TypeOK`; `StepIInv` takes the actions one by one, and `Invariance` is the
temporal step.

What follows carries on from there, each time with an invariant that includes the one before.
The module goes on with `WaiterIsOwed` and `ImplementsPortQueue`.  Neither says enough to be kept by a step: a
handler is only owed an answer because what is in a channel or in hand is waited for, at that worker, and is there once
(`ChannelOK`), because nothing is answered before it was sent (`RouteOK`), and because a closure sends its result before the
worker says Ok (`ResultOK`).  With them `SendCommand`, `ReceiveCommand` and `SendReply` are
`Submit`, `Start` and `Finish`, and every other action stutters.
`DeviceSessionOutcomes` proves `FailureHasOutsideCause`: a port that a worker holds is held by the port's own worker
with a handle (`HeldOK`), an undisturbed request has its device (`CleanOK`) and meets no
stale handle (`HandleOK`), so neither its open nor its writes can fail (`CleanServed`) unless the device does or, with an operation,
what it found there; either ends its being undisturbed (`Blame`).
It proves `AnswerIsOwnOutcome` and `NotInterleaved` by counting: nothing of a request reaches a
device before its worker starts it (`WireOK`), between the two transfers of an operation exactly one has arrived, and it is the last
(`OperationOK`), and each verdict, from the worker's hands over both channels to the client, fits the count: Ok of a write means that it
arrived, and a result is on its channel before the worker's Ok and is the one that the client returns (`AnswerOK`).
So every invariant that TLC checks of the registry holds for any number of requests, ports and workers.

`DaemonRoutingProofs` proves from `RoutingAssumption` (markers, verdicts and processes are different
things), for any number of invocations and daemons, that `TypeOK`, `NoSilentRetry` and
`StartsWhenAlone` are invariants, and `Refinement`: the routing implements `CommandOnce` and
carries no command out twice.  None of this is inductive.  `ConnectionOK` ties the two ends of a connection together: whoever has
a peer has left the start and never gets to the cold path, and is done only when its thread is.
`CarriedOK` says where a command has not been carried out yet (a cold run before its end, a thread before `Execute`),
so carrying it out is always the first time and always before the report; it also keeps an "ok" from
being anything but the answer of a command that was carried out.  `StartOK` says
what a daemon that nobody has disturbed knows of the path between its steps.  `StepRefines`
maps each action to one of `CommandOnce` or to a stutter, with a lemma for each of the three shapes.

`RuntimeLifecycleProofs` proves `TypeOK`, `OriginalIsSafe`, `RemoveRestores`, `FreezeIsVerified` and
`SuccessIsOnDevice` from `LifecycleAssumption` (the markers are not scripts, runtimes are bundles, framing a framed script changes
nothing), for any slots, pages, runtimes, commands and edits.  What a command claims at its end it has
learned in steps that came long before, so the invariant says at each step what has been done so far: every slot that the capture has passed is in the
collected backup (`CaptureOK`); while the backup is swapped, what must be kept is in the staged one and still on the
device, which is why a crash in the middle loses nothing (`BackupOK`); a slot that an inspection has found to match does match
(`SeenOK`); a page is stored only when all slots are written, and the pages that are neither still due nor led astray are stored as they are in use (`StoreOK`);
the frozen copy is replaced only when the device holds the whole bundle (`AcceptedOK`).

`DaemonCommandsProofs` proves `TypeOK`, `AnswersAreDeserved`, `ScreenFitsRuntime`, `RestoresOwnScripts` and
`OneNamePerDevice` from `DaemonCommandsAssumption`, and `OneAtWork`: never are two commands at work on one device, whichever
path and whichever of its names they took.  The lemma `Exclusion` behind it takes three facts.  All invocations see one device under one name
(`NormalizedName`); a queue holds each of its commands once and all but the first of them wait (`QueueOK`); an open port has one holder, the daemon
or one cold run (`HolderOK`).  Devices are kept apart by that, files are not: what they hold is known only of an invocation in whose
lifetime nobody else ran (`CompanyOK` makes company mutual).  `DueOf` follows such a command from its checks to its answer and says at each
stage what it is still due; `CompiledOK` ties a compiled script to the frozen runtime until it is sent, if no runtime command runs in between (the other case
of `ScreenFitsRuntime` compares the two when the script is sent); `OriginOK` follows a backup from
`staging` to `backup`, with the install it was taken for; `WrittenOK` says when a device holds what is frozen, and what it holds in between.

`SlotIOProofs` proves `TypeOK`, `InstalledOnTarget`, `InstalledOnOneModule` and `FailureHasOutsideCause` from
`SlotIOAssumption` (a bundle has slots and the grid modules, no report is a report), for any number of modules, slots,
installs and faults.  The host tells answers apart by kind and location only, so that it believes the right one has to follow from what is on the way:
the packet that waits for an answer is the last one that any module has (`LastOK`), hence an acknowledgement comes from a module that has
nothing left to do and has stored what it runs (`AckOK`), and a report says what its slot holds (`ReportOK`).
After that nothing but fetches reach the target, and a reboot gives it back what it has (`TargetOK`); so what was
found is still so at the end (`FoundOK`).  All of it needs `~late`.  The converse, that an undisturbed install succeeds, needs the whole path of
every call: what was written is in the slot or in the module's hands (`WrittenOK`), and the call that waits has exactly its answer, piece by piece, on the
wire or in the buffer (`CallOK`); so what the window leaves is one intact frame (`AnswerArrived`).

`ScreenDisplayProofs` proves `TypeOK` and the safety half of `ImplementsLayeredScreen` from `ScreenAssumption` (`ManifestIsValid`,
`LuaAgrees`, and that what users send calls the two functions with fields and values that there are), for any manifest, scripts
and values.  A script is one step of `LayeredScreen` however many calls it has.  `EffectLater` shows it by induction on the calls that have run:
`Later(s)` holds the states in which a layer has the time it had in `s` or its full time, and `Perform` does not leave it
(`PerformLater`).  The installed provers cannot use an induction rule that is stated for a predicate; `Induct` states it for a set, and follows from
the library's well-founded induction.  `TopIsVisible` shows that the search through `z.o` finds what the priorities call for; it needs that `LuaAgrees`.
That the display catches up (`WF_vars(Show)`) and `BaseComesBack` stay with TLC.

`RuntimeProvisionProofs` proves `TypeOK`, `FailureHasReason`, `InstalledIsWanted`, `RemoveGivesBack` and `ScreenShowsRequest`
from `ProvisionAssumption` (texts are texts, directories have a manifest and texts as files, the module's coordinates are integers, the arguments
natural numbers, the markers are none of these, what is left of a name is ASCII and numbers and booleans lose nothing; that the empty script is a text is assumed because the provers do not know that
a string literal is in `STRING`).  The invariant is short: what is frozen loads, has slots on the module only and scripts that read back, and is still
a directory of the tree (`FrozenOK`); a backup is a directory of the tool's own making (`BackupOK`), and a faithful one has in each
file what one of the slots of that file held before (`FaithfulOK`).  `RemoveGivesBack` is about the past and needs the last one,
`FailureHasReason` the first.  The work is in the operators.  `PacketCells`, `BlockCells` and `ConfigCells` follow a packet cell by cell
from where it is built to the offsets where it is read, so that `ConfigSays`, `PacketTarget` and `PacketSource` can say: what a
module reads in it is what was meant.  `TextKinds` says what of a text survives framing and reading back.  `OrderPermutes` shows that a stable sort
with equal keys loses no slot, and `WriteAllIs` what a row of writes leaves.  `HoldsMeans` and `HoldsWhen` are the two directions of "the installation is
verified": what success says of the slots, and when it cannot fail.  `ShowsWhen` says which of the calls of a script counts, `SetFieldEncoded` and
`ActivateEncoded` what is left of a call on the wire.
A proof attempt found two things out.  `FailureHasReason` did not list that a runtime may have a slot which the module does
not have: such a runtime loads, is written and never reads back (now among the reasons and the directories of the run).  And the
sort was an operator without a value for equal keys; it is defined now by which slots go before which.

The inductive invariants of the runtime commands, `DaemonCommands`, `SlotIO` and `RuntimeProvision` were checked by TLC on the bounds of
their runs before they were proved.

Only model-checked: the equality of `KeepEach`, a fold over a list, with `Normalize`, and the liveness properties, for which the prover has no ENABLED.  The properties of the findings are refuted, not proved.

## Not modelled, and abstractions

* Panics and poisoned mutexes; a stalled client that never closes its half of
  the connection; I/O errors of `create_dir_all` and `metadata` in the daemon's bind.
* `bind` and `listen` are one step; `DaemonRouting` has one serial port.
* In `DaemonCommands` a backup is taken in one step and the frozen copy swapped in another, so the races of two
  commands inside the staging directories are left out; ports are listed once; devices
  break only while they are written.
* `RuntimeProvision` loses nothing and has one module; blanks around scripts, the value of the checksum, packet
  identifiers and heartbeats are left out.  TOML is taken as parsed.
* In `RuntimeLifecycle` an error and a crash are one action, slots and pages are
  visited in any order (the manifest's order is one of them), reports are current
  or lost, there is one device and its targets are abstracted.
* `SlotIO` installs one bundle on one page; the heartbeat before each fetch, the
  page change before the store and I/O errors of the port are left out.
* `ScreenDisplay` has one runtime, texts and numbers; quoting of strings is left out, and its texts are what is left after encoding.
* The packet identifiers (`next_identity`): nothing reads them back.
* Rendering, error texts, argument parsing, packaging.

## Plan

1. The capture of a backup and the swap of the frozen copy in `DaemonCommands` file by file, with the names of
   files that two commands share.
2. A session registry with an unbounded stream of requests, for what a stale handle does under load.
3. Proofs: the equality of `KeepEach` with `Normalize` for any list of ports, if it can be stated without recursion;
   that the commands of `RuntimeProvision` are those of `RuntimeLifecycle` without faults (a refinement).
