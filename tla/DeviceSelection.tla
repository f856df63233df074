-------------------------- MODULE DeviceSelection --------------------------
(***************************************************************************)
(* Which serial port a command uses: src/src/device.rs.  A port is         *)
(*   name:    its path, by its place in the alphabet                       *)
(*   prefix:  "cu" and "tty" for /dev/cu. and /dev/tty., "" otherwise      *)
(*   suffix:  the rest of the path                                         *)
(*   known:   USB, with identifiers in KNOWN_USB_DEVICES                   *)
(*   present: does the path exist?                                         *)
(*   labels:  serial number, manufacturer, product and the like            *)
(*   unit:    the device behind it, which the host does not see            *)
(***************************************************************************)
EXTENDS Naturals, Sequences, SequencesExt

CONSTANT None   \* no port, or none asked for

\* SystemDeviceDiscovery::discover, with map_matching_device.
Discover(ports) == {p \in Range(ports) : p.known /\ p.present}

\* are_macos_tty_cu_aliases.
AreAliases(a, b) ==
  /\ {a.prefix, b.prefix} \subseteq {"cu", "tty"}
  /\ a.suffix = b.suffix
  /\ a.labels = b.labels

\* device_preference_rank.
Rank(port) ==
  CASE port.prefix = "cu" -> 0 [] port.prefix = "tty" -> 1 [] OTHER -> 2

-----------------------------------------------------------------------------
(* The loop that picks one of the two names that macOS has for a port      *)

ByName(ports) == SortSeq(ports, LAMBDA a, b : a.name < b.name)

\* One more device, which may take an alias's place.
Keep(kept, port) ==
  LET aliases == {i \in DOMAIN kept : AreAliases(kept[i], port)} IN
  IF aliases = {} THEN Append(kept, port)
  ELSE LET i == Min(aliases) IN
       IF Rank(port) < Rank(kept[i]) THEN [kept EXCEPT ![i] = port] ELSE kept

KeepEach(devices) == ByName(FoldLeft(Keep, <<>>, ByName(devices)))

\* normalize_discovered_devices: the devices that the loop keeps, which are
\* those that no alias is preferred to.
Normalize(devices) ==
  {d \in devices : \A e \in devices :
     AreAliases(d, e) => \/ Rank(d) < Rank(e)
                         \/ Rank(d) = Rank(e) /\ d.name <= e.name}

-----------------------------------------------------------------------------
\* select_device, select_single_device: the port that was asked for, or the
\* only one there is.
Select(devices, requested) ==
  LET matching == {d \in devices : requested \in {None, d.name}} IN
  IF \E d \in matching : matching = {d}
    THEN CHOOSE d \in matching : TRUE
    ELSE None
=============================================================================
