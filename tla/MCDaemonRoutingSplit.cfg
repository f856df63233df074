\* One invocation, and a daemon started beside another.
CONSTANTS
  Client = {c1}
  Daemon = {d1, d2}
  Stale = Stale
  OtherFile = OtherFile
  None = None

SPECIFICATION Spec
CHECK_DEADLOCK FALSE

PROPERTIES
  FallbackMeansNoDaemon
