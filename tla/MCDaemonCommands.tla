--------------------------- MODULE MCDaemonCommands ---------------------------
(* Two devices, two runtimes; any two invocations, or three of a few kinds.  *)
EXTENDS DaemonCommands

CONSTANTS i1, i2, i3, ra, rb, rx, u1, u2

Port(name, prefix, suffix, unit) ==
  [name |-> name, prefix |-> prefix, suffix |-> suffix, known |-> TRUE,
   present |-> TRUE, labels |-> suffix, unit |-> unit]

Cu1 == Port(1, "cu", 1, u1)
Cu2 == Port(2, "cu", 2, u2)
Tty1 == Port(3, "tty", 1, u1)
Tty2 == Port(4, "tty", 2, u2)
Other == [Port(0, "", 0, u2) EXCEPT !.known = FALSE]
Gone  == [Port(5, "", 3, u2) EXCEPT !.present = FALSE]

\* Normalize says what the loop does, for all listings of up to four ports.
Stranger == [Port(6, "cu", 1, u2) EXCEPT !.labels = 6]
ASSUME LoopNormalizes ==
  \A l \in UNION {[1 .. n -> {Cu1, Cu2, Tty1, Tty2, Gone, Stranger}] : n \in 0 .. 4} :
    Range(KeepEach(l)) = Normalize(Range(l))

MCInvocations == {i1, i2, i3}
Symmetry == Permutations(MCInvocations)
MCRuntimes == {ra, rb}
MCUnits == {u1, u2}

\* One device; two under both of their names; one under its lesser name beside
\* ports that are not its.
MCListings == {<<Cu1>>, <<Tty1, Cu2, Tty2, Cu1>>, <<Gone, Tty1, Other>>}
MCRequested == {None, 1, 2, 3}

\* What is wrong with a request is one thing.
Request(kind, daemon, name, target, runtime, long) ==
  [kind |-> kind, daemon |-> daemon, device |-> name, target |-> target,
   runtime |-> runtime, long |-> long]

Good ==
  {Request(k, d, n, TRUE, rx, FALSE) :
     k \in {"repair", "remove", "verify"}, d \in BOOLEAN, n \in {1, 2}}
  \cup {Request(k, d, n, TRUE, r, FALSE) :
     k \in {"install", "upgrade", "set"}, d \in BOOLEAN, n \in {1, 2}, r \in {ra, rb}}

Rest ==
  {Request("info", d, n, TRUE, rx, FALSE) : d \in BOOLEAN, n \in MCRequested}
  \cup {Request("status", TRUE, None, TRUE, rx, FALSE),
        Request("activate", TRUE, None, TRUE, ra, FALSE),
        Request("clear", FALSE, None, TRUE, ra, FALSE),
        Request("raw", FALSE, None, TRUE, rx, FALSE),
        Request("list", FALSE, None, TRUE, rx, FALSE)}
  \cup {Request("raw", d, 1, TRUE, rx, TRUE) : d \in BOOLEAN}
  \cup {Request(k, d, 1, FALSE, rx, FALSE) : k \in {"remove", "raw"}, d \in BOOLEAN}
  \cup {Request("install", d, 1, TRUE, rx, FALSE) : d \in BOOLEAN}

\* Devices that are installed and restored one after the other.
Chain ==
  {Request("install", TRUE, n, TRUE, ra, FALSE) : n \in {1, 2}}
  \cup {Request(k, TRUE, n, TRUE, rx, FALSE) : k \in {"repair", "remove"}, n \in {1, 2}}
  \cup {Request("install", FALSE, 2, TRUE, rb, FALSE),
        Request("set", TRUE, 1, TRUE, ra, FALSE)}

MCRequests(given) ==
  LET earlier == {i \in MCInvocations : given[i] # None} IN
  CASE Cardinality(earlier) < 2 -> Good \cup Rest
    [] \A i \in earlier : given[i] \in Chain -> Chain
    [] OTHER -> {}
=============================================================================
