SPECIFICATION Spec
CONSTANTS
  i1 = i1
  i2 = i2
  i3 = i3
  ra = ra
  rb = rb
  rx = rx
  u1 = u1
  u2 = u2
  None = None
  Own = Own
  Mixed = Mixed
  Blank = Blank
  Free = Free
  Daemon = Daemon
  Unknown = rx
  MaxFaults = 1
  Invocations <- MCInvocations
  Runtimes <- MCRuntimes
  Units <- MCUnits
  Listings <- MCListings
  Requested <- MCRequested
  Requests <- MCRequests
SYMMETRY Symmetry
CHECK_DEADLOCK FALSE
INVARIANTS
  TypeOK
  AnswersAreDeserved
  RestoresOwnScripts
  OneNamePerDevice
PROPERTIES
  ScreenFitsRuntime
