\* Two invocations, and two daemons that start, race, crash and stop, perhaps
\* where an earlier one left its socket.  Liveness admits no symmetry.
CONSTANTS
  Client = {c1, c2}
  Daemon = {d1, d2}
  Stale = Stale
  OtherFile = OtherFile
  None = None

SPECIFICATION FairSpec
CHECK_DEADLOCK FALSE

INVARIANTS
  TypeOK
  NoSilentRetry
  StartsWhenAlone

PROPERTIES
  ImplementsCommandOnce
  EveryInvocationEnds
