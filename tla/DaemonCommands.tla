--------------------------- MODULE DaemonCommands ---------------------------
(***************************************************************************)
(* Invocations of the tool side by side, some of them through the daemon:  *)
(* what each command checks, in which order and on which thread, and what  *)
(* all of them share.  In the daemon a handler thread checks the request,  *)
(* compiles a screen command and queues it; the worker of the port carries *)
(* it out (src/src/daemon_command_handler.rs).  A cold run does all of it  *)
(* itself (src/src/lib.rs).  Both read and write the same backup and the   *)
(* same frozen copy, whatever device they talk to.                         *)
(*                                                                         *)
(* DeviceSession has the workers in detail, RuntimeLifecycle the runtime   *)
(* commands; here a worker is a queue and a port, and a command a few      *)
(* steps.  A runtime stands for its directory, its scripts and its fields. *)
(***************************************************************************)
EXTENDS DeviceSelection, FiniteSets

CONSTANTS
  Invocations,
  Runtimes,     \* names that resolve_runtime finds
  Unknown,      \* one that it does not
  Units,        \* devices
  Listings,     \* what the operating system may list as ports
  Requested,    \* --device as given, or None
  Own, Mixed, Blank,  \* scripts of a device's owner; two halves; nothing
  Free, Daemon, \* a port that nobody has open, or the daemon
  Requests(_),  \* commands that may be given, after those given so far
  MaxFaults     \* devices that stop answering in the middle of a command

\* What a device can hold, and a backup; what can be listed.
Scripts == Runtimes \cup {Own, Mixed, Blank}
Snapshot == [unit : Units, held : Scripts]
Ports == UNION {Range(l) : l \in Listings}
Names == {p.name : p \in Ports}

Changing == {"install", "upgrade", "repair", "remove"}
Curated  == {"set", "clear", "activate"}
Screen   == Curated \cup {"raw"}
Kinds    == Changing \cup Screen \cup {"info", "verify", "status", "list"}

\* CommandRequest::routing: lists are local.
DaemonEligible(kind) == kind # "list"

\* A command, how it travels, its device and target arguments, the runtime
\* that it names or whose fields it uses, and whether its script is too long.
ValidRequests ==
  {r \in [kind : Kinds, daemon : BOOLEAN, device : Requested, target : BOOLEAN,
          runtime : Runtimes \cup {Unknown}, long : BOOLEAN] :
     /\ r.daemon => DaemonEligible(r.kind)
     /\ r.kind \notin Curated \cup {"install", "upgrade"} => r.runtime = Unknown
     /\ r.long => r.kind \in {"raw", "set"}}

\* A listing has one path for a device, or the two names that macOS gives it.
ASSUME DaemonCommandsAssumption ==
  /\ Unknown \notin Runtimes \cup {None}
  /\ {Own, Mixed, Blank, None} \cap Runtimes = {}
  /\ {Free, Daemon} \cap Invocations = {}
  /\ Free # Daemon
  /\ None \notin Ports \cup Snapshot \cup ValidRequests
  /\ \A l \in Listings : \A p, q \in Discover(l) :
       /\ p.unit \in Units
       /\ p.unit = q.unit /\ p.name # q.name =>
            AreAliases(p, q) /\ Rank(p) # Rank(q)
  /\ MaxFaults \in Nat

VARIABLES
  ports,     \* the listing
  request,   \* the request of an invocation, None before
  stage,     \* how far it is
  outcome,   \* None, "ok" or "error"
  port,      \* the port it has chosen
  compiled,  \* the runtime whose fields its script uses
  queue,     \* of a port's worker
  holder,    \* who has a port open
  device,    \* what a unit holds
  staging,   \* pre-install.tmp: the unit, and what it held
  backup,    \* pre-install
  frozen,    \* runtime
  faults,
  \* and for the properties:
  company,   \* who ran at the same time
  due,       \* should it succeed if nobody interferes?
  latest,    \* the last command that changed a runtime: unit, success
  origin     \* the last install: unit, what that held, alone?

vars == <<ports, request, stage, outcome, port, compiled, queue, holder, device,
          staging, backup, frozen, faults, company, due, latest, origin>>

Init ==
  /\ ports \in Listings
  /\ request = [i \in Invocations |-> None]
  /\ stage = [i \in Invocations |-> "idle"]
  /\ outcome = [i \in Invocations |-> None]
  /\ port = [i \in Invocations |-> None]
  /\ compiled = [i \in Invocations |-> None]
  /\ queue = [n \in Names |-> <<>>]
  /\ holder = [n \in Names |-> Free]
  /\ staging = None
  /\ faults = 0
  /\ company = [i \in Invocations |-> {}]
  /\ due = [i \in Invocations |-> FALSE]
  \* nothing was ever installed, or one runtime was, on one of the devices
  /\ \/ /\ device = [u \in Units |-> Own]
        /\ backup = None /\ frozen = None
        /\ latest = None /\ origin = None
     \/ \E u \in Units, r \in Runtimes :
          /\ device = [v \in Units |-> IF v = u THEN r ELSE Own]
          /\ backup = [unit |-> u, held |-> Own] /\ frozen = r
          /\ latest = [unit |-> u, ok |-> TRUE]
          /\ origin = [unit |-> u, held |-> Own, alone |-> TRUE]

Active(i) == stage[i] \notin {"idle", "done"}

-----------------------------------------------------------------------------
(* Checks                                                                  *)

\* Mutant: both names of a device stay.
ChosenUnderAnyName(r) == Select(Discover(ports), r.device)

\* resolve_usb_device.
Chosen(r) == Select(Normalize(Discover(ports)), r.device)

\* What a check says of a request, at this moment.
Passes(check, r) ==
  CASE check = "registry" -> frozen # None
    [] check = "fields"   -> r.runtime = frozen
    [] check = "resolve"  -> r.runtime \in Runtimes
    [] check = "target"   -> r.target
    [] check = "device"   -> Chosen(r) # None
    [] check = "encode"   -> ~r.long

\* installed, then parse_assignments or layer.
RegistryChecks(kind) == IF kind \in Curated THEN {"registry", "fields"} ELSE {}

\* resolve_runtime.
RuntimeChecks(kind) == IF kind \in {"install", "upgrade"} THEN {"resolve"} ELSE {}

\* resolve_target, resolve_usb_device.
DeviceChecks(kind) == IF kind # "list" THEN {"target", "device"} ELSE {}

\* encode_immediate_packet: a cold run opens the port before it encodes its
\* script, the daemon after.
EncodeChecks(kind, daemon) == IF kind \in Screen /\ daemon THEN {"encode"} ELSE {}

\* Mutant: a runtime command on the daemon's side takes every target.
ChecksWithoutTarget(kind, daemon) ==
  IF daemon /\ kind \in Changing THEN {"device"} ELSE {"target", "device"}

\* What is checked before the port is opened, in each branch of the handler
\* and in each execute_* function of the cold path.
ChecksFirst(kind, daemon) ==
  RegistryChecks(kind) \cup RuntimeChecks(kind) \cup DeviceChecks(kind)
    \cup EncodeChecks(kind, daemon)

\* What is left to find out with the port open.
CanCarryOut(kind, unit, r) ==
  CASE kind \in Screen -> ~r.long
    [] kind = "verify" -> frozen # None /\ device[unit] = frozen
    [] kind = "repair" -> frozen # None /\ device[unit] \notin {frozen, Blank}
    [] kind = "remove" -> backup # None \/ frozen # None
    [] OTHER           -> TRUE

-----------------------------------------------------------------------------
(* Invocations                                                             *)

Finish(i, verdict) ==
  /\ stage' = [stage EXCEPT ![i] = "done"]
  /\ outcome' = [outcome EXCEPT ![i] = verdict]

\* The worker takes the next one and keeps the port; a cold run closes it.
LetGo(i) ==
  LET n == port[i].name IN
  /\ queue' = IF request[i].daemon THEN [queue EXCEPT ![n] = Tail(@)] ELSE queue
  /\ holder' = IF request[i].daemon THEN holder ELSE [holder EXCEPT ![n] = Free]

End(i, verdict) == Finish(i, verdict) /\ LetGo(i)

\* Would it succeed, on either path, with nobody else around?
Deserves(r) ==
  \/ r.kind = "list"
  \/ /\ r.target /\ ~r.long
     /\ r.kind \in Curated => r.runtime = frozen
     /\ r.kind \in {"install", "upgrade"} => r.runtime \in Runtimes
     /\ Chosen(r) # None
     /\ CanCarryOut(r.kind, Chosen(r).unit, r)

Invoke(i, r) ==
  LET others == {j \in Invocations \ {i} : Active(j)} IN
  /\ stage[i] = "idle"
  /\ r \in ValidRequests
  /\ request' = [request EXCEPT ![i] = r]
  /\ stage' = [stage EXCEPT ![i] = "start"]
  /\ company' = [j \in Invocations |->
                   CASE j = i -> others
                     [] j \in others -> company[j] \cup {i}
                     [] OTHER -> company[j]]
  /\ due' = [due EXCEPT ![i] = Deserves(r)]
  /\ UNCHANGED <<ports, outcome, port, compiled, queue, holder, device, staging,
                 backup, frozen, faults, latest, origin>>

\* Mutant: the daemon compiles with the registry that it read first.
CheckWithOldRegistry(i) ==
  /\ stage[i] = "start"
  /\ LET r == request[i] IN
     IF \A check \in ChecksFirst(r.kind, r.daemon) \ {"fields"} : Passes(check, r)
       THEN /\ port' = [port EXCEPT ![i] = Chosen(r)]
            /\ compiled' = [compiled EXCEPT ![i] =
                              IF r.kind \in Curated THEN r.runtime ELSE None]
            /\ IF r.kind = "list" THEN Finish(i, "ok")
               ELSE /\ stage' = [stage EXCEPT ![i] = "checked"]
                    /\ UNCHANGED outcome
       ELSE Finish(i, "error") /\ UNCHANGED <<port, compiled>>
  /\ UNCHANGED <<ports, request, queue, holder, device, staging, backup, frozen,
                 faults, company, due, latest, origin>>

\* The checks, and the compilation of a curated command.
Check(i) ==
  /\ stage[i] = "start"
  /\ LET r == request[i] IN
     IF \A check \in ChecksFirst(r.kind, r.daemon) : Passes(check, r)
       THEN /\ port' = [port EXCEPT ![i] = Chosen(r)]
            /\ compiled' = [compiled EXCEPT ![i] =
                              IF r.kind \in Curated THEN frozen ELSE None]
            /\ IF r.kind = "list" THEN Finish(i, "ok")
               ELSE /\ stage' = [stage EXCEPT ![i] = "checked"]
                    /\ UNCHANGED outcome
       ELSE Finish(i, "error") /\ UNCHANGED <<port, compiled>>
  /\ UNCHANGED <<ports, request, queue, holder, device, staging, backup, frozen,
                 faults, company, due, latest, origin>>

\* DeviceSessionRegistry: the request goes to the worker of the port.
Enqueue(i) ==
  /\ stage[i] = "checked" /\ request[i].daemon
  /\ queue' = [queue EXCEPT ![port[i].name] = Append(@, i)]
  /\ stage' = [stage EXCEPT ![i] = "queued"]
  /\ UNCHANGED <<ports, request, outcome, port, compiled, holder, device, staging,
                 backup, frozen, faults, company, due, latest, origin>>

\* The worker opens the port unless it has it open.
Serve(i) ==
  /\ stage[i] = "queued"
  /\ LET n == port[i].name IN
     /\ Head(queue[n]) = i
     /\ IF holder[n] \in {Free, Daemon}
          THEN /\ holder' = [holder EXCEPT ![n] = Daemon]
               /\ stage' = [stage EXCEPT ![i] = "open"]
               /\ UNCHANGED <<queue, outcome>>
          ELSE End(i, "error")
  /\ UNCHANGED <<ports, request, port, compiled, device, staging, backup, frozen,
                 faults, company, due, latest, origin>>

\* Mutant: the worker drops its port while it carries something out.
IdleTimeoutAlways(n) ==
  /\ holder[n] = Daemon
  /\ holder' = [holder EXCEPT ![n] = Free]
  /\ UNCHANGED <<ports, request, stage, outcome, port, compiled, queue, device,
                 staging, backup, frozen, faults, company, due, latest, origin>>

\* Nothing to do for DEVICE_IDLE_TIMEOUT.
IdleTimeout(n) ==
  /\ holder[n] = Daemon /\ queue[n] = <<>>
  /\ holder' = [holder EXCEPT ![n] = Free]
  /\ UNCHANGED <<ports, request, stage, outcome, port, compiled, queue, device,
                 staging, backup, frozen, faults, company, due, latest, origin>>

\* A cold run opens the port, or fails.
OpenCold(i) ==
  /\ stage[i] = "checked" /\ ~request[i].daemon
  /\ LET n == port[i].name IN
     IF holder[n] = Free
       THEN /\ holder' = [holder EXCEPT ![n] = i]
            /\ stage' = [stage EXCEPT ![i] = "open"]
            /\ UNCHANGED outcome
       ELSE Finish(i, "error") /\ UNCHANGED holder
  /\ UNCHANGED <<ports, request, port, compiled, queue, device, staging, backup,
                 frozen, faults, company, due, latest, origin>>

-----------------------------------------------------------------------------
(* With the port open                                                      *)

Starts(i, kinds) == stage[i] = "open" /\ request[i].kind \in kinds
GoesOn(i, next) == stage' = [stage EXCEPT ![i] = next] /\ UNCHANGED outcome

\* With its backup, or without one.
ReadyToWrite(i, kinds) ==
  \/ stage[i] = "backed up"
  \/ /\ Starts(i, kinds)
     /\ CanCarryOut(request[i].kind, port[i].unit, request[i])

\* A command that cannot be carried out, and one that changes nothing.
Answer(i) ==
  /\ stage[i] = "open"
  /\ LET can == CanCarryOut(request[i].kind, port[i].unit, request[i]) IN
     /\ ~can \/ request[i].kind \in {"info", "verify", "status"}
     /\ End(i, IF can THEN "ok" ELSE "error")
  /\ UNCHANGED <<ports, request, port, compiled, device, staging, backup, frozen,
                 faults, company, due, latest, origin>>

\* send_screen_raw, write_immediate.
Send(i) ==
  /\ Starts(i, Screen) /\ ~request[i].long
  /\ End(i, "ok")
  /\ UNCHANGED <<ports, request, port, compiled, device, staging, backup, frozen,
                 faults, company, due, latest, origin>>

\* write_pre_install_bundle, up to the rename.
Stage(i) ==
  /\ Starts(i, {"install"})
  /\ LET unit == port[i].unit IN
     /\ staging' = [unit |-> unit, held |-> device[unit]]
     /\ origin' = [unit |-> unit, held |-> device[unit],
                   alone |-> \A j \in company[i] : request[j].kind # "install"]
  /\ GoesOn(i, "staged")
  /\ UNCHANGED <<ports, request, port, compiled, queue, holder, device, backup,
                 frozen, faults, company, due, latest>>

\* replace_staged_directory; the staging directory may have been renamed by
\* somebody else.
Publish(i) ==
  /\ stage[i] = "staged"
  /\ staging' = None
  /\ IF staging # None
       THEN /\ backup' = staging
            /\ GoesOn(i, "backed up")
            /\ UNCHANGED <<queue, holder>>
       ELSE /\ backup' = None
            /\ End(i, "error")
  /\ UNCHANGED <<ports, request, port, compiled, device, frozen, faults, company,
                 due, latest, origin>>

\* Mutant: an upgrade refreshes the backup.
ProvisionWithBackup(i) ==
  /\ ReadyToWrite(i, {"upgrade", "repair"})
  /\ LET unit == port[i].unit IN
     /\ device' = [device EXCEPT ![unit] =
                     IF request[i].kind = "repair" THEN frozen ELSE request[i].runtime]
     /\ backup' = [unit |-> unit, held |-> device[unit]]
  /\ GoesOn(i, "written")
  /\ UNCHANGED <<ports, request, port, compiled, queue, holder, staging, frozen,
                 faults, company, due, latest, origin>>

\* install_runtime_bundle: write, store, read back.
Provision(i) ==
  /\ ReadyToWrite(i, {"upgrade", "repair"})
  /\ device' = [device EXCEPT ![port[i].unit] =
                  IF request[i].kind = "repair" THEN frozen ELSE request[i].runtime]
  /\ GoesOn(i, "written")
  /\ UNCHANGED <<ports, request, port, compiled, queue, holder, staging, backup,
                 frozen, faults, company, due, latest, origin>>

\* The device stops answering halfway.
Breaks(i) ==
  /\ faults < MaxFaults
  /\ faults' = faults + 1
  /\ ReadyToWrite(i, {"upgrade", "repair", "remove"})
  /\ device' = [device EXCEPT ![port[i].unit] = Mixed]
  /\ latest' = [unit |-> port[i].unit, ok |-> FALSE]
  /\ due' = [due EXCEPT ![i] = FALSE]
  /\ End(i, "error")
  /\ UNCHANGED <<ports, request, port, compiled, staging, backup, frozen, company,
                 origin>>

\* No other command that changes a runtime ran at the same time.
Alone(i) == \A j \in company[i] : request[j].kind \notin Changing

\* replace_directory_copy: a repair copies the frozen runtime onto itself,
\* unless somebody has removed it.
Freeze(i) ==
  /\ stage[i] = "written"
  /\ IF request[i].kind = "repair" /\ frozen = None
       THEN End(i, "error") /\ UNCHANGED <<frozen, latest>>
       ELSE /\ frozen' = IF request[i].kind = "repair" THEN frozen
                         ELSE request[i].runtime
            /\ latest' = [unit |-> port[i].unit,
                          ok |-> request[i].kind = "repair" => Alone(i)]
            /\ End(i, "ok")
  /\ UNCHANGED <<ports, request, port, compiled, device, staging, backup, faults,
                 company, due, origin>>

\* remove_installed_runtime_with_storage: restore, or clear.
RemoveRuntime(i) ==
  /\ Starts(i, {"remove"})
  /\ CanCarryOut("remove", port[i].unit, request[i])
  /\ device' = [device EXCEPT ![port[i].unit] =
                  IF backup # None THEN backup.held ELSE Blank]
  /\ GoesOn(i, "removed")
  /\ UNCHANGED <<ports, request, port, compiled, queue, holder, staging, backup,
                 frozen, faults, company, due, latest, origin>>

Forget(i) ==
  /\ stage[i] = "removed"
  /\ frozen' = None
  /\ latest' = [unit |-> port[i].unit, ok |-> TRUE]
  /\ End(i, "ok")
  /\ UNCHANGED <<ports, request, port, compiled, device, staging, backup, faults,
                 company, due, origin>>

-----------------------------------------------------------------------------
Next ==
  \/ \E i \in Invocations :
       \/ \E r \in Requests(request) : Invoke(i, r)
       \/ Check(i) \/ Enqueue(i) \/ Serve(i) \/ OpenCold(i)
       \/ Answer(i) \/ Send(i)
       \/ Stage(i) \/ Publish(i) \/ Provision(i) \/ Breaks(i) \/ Freeze(i)
       \/ RemoveRuntime(i) \/ Forget(i)
  \/ \E n \in Names : IdleTimeout(n)

Spec == Init /\ [][Next]_vars

-----------------------------------------------------------------------------
(* Properties                                                              *)

\* A port is open for a command that runs on it, and queued commands are ones
\* that wait for the daemon.
TypeOK ==
  /\ \A i \in Invocations :
       stage[i] \in {"open", "staged", "backed up", "written", "removed"} =>
         holder[port[i].name] = IF request[i].daemon THEN Daemon ELSE i
  /\ \A n \in Names : \A i \in Range(queue[n]) :
       Active(i) /\ request[i].daemon /\ port[i].name = n
  /\ Range(request) \subseteq ValidRequests \cup {None}
  /\ frozen \in Runtimes \cup {None}
  /\ \A u \in Units : device[u] \in Scripts
  /\ faults \in 0 .. MaxFaults

\* A command that nobody interferes with succeeds exactly if its arguments are
\* good, a device can be selected and the files allow it: the same list for
\* the daemon's handler and for the cold path, which are separate code.  Only
\* the port makes a difference, which an earlier command may have left open in
\* the daemon.
AnswersAreDeserved ==
  \A i \in Invocations :
    stage[i] = "done" /\ company[i] = {} =>
      \/ outcome[i] = IF due[i] THEN "ok" ELSE "error"
      \/ /\ ~request[i].daemon
         /\ \E j \in Invocations \ {i} : request[j] # None /\ request[j].daemon

\* A curated script runs on the runtime whose fields it was compiled from if
\* the last change of a runtime went well and was on this device, and either no
\* command that changes a runtime overlaps the request, or the frozen copy is
\* the one it was compiled from when its turn comes, whoever was at work while
\* it waited.  The code sends it all the same when another runtime was frozen
\* meanwhile, or the last change failed or was on another device.
ScreenFitsRuntime ==
  [][\A i \in Invocations :
       LET unit == port[i].unit IN
       /\ Starts(i, Curated) /\ outcome'[i] = "ok"
       /\ Alone(i) \/ compiled[i] = frozen
       /\ latest = [unit |-> unit, ok |-> TRUE]
       => device[unit] = compiled[i]]_vars

\* A remove gives a device its own scripts back if the last installation was
\* on it and no other ran beside that one: no upgrade, repair, remove or failure
\* of any device in between spoils the one backup.
RestoresOwnScripts ==
  \A i \in Invocations :
    LET unit == port[i].unit IN
    stage[i] = "removed" /\ origin # None /\ origin.unit = unit /\ origin.alone =>
      device[unit] = origin.held

\* A device never goes by two names, whichever way it is asked for: a second
\* name would be a second queue and a second handle for the same device.
OneNamePerDevice ==
  \A i, j \in Invocations :
    port[i] # None /\ port[j] # None /\ port[i].unit = port[j].unit =>
      port[i].name = port[j].name
=============================================================================
