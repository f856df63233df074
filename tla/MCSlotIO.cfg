\* Two installs in a row on a grid of two modules.
CONSTANTS
  s1 = s1
  s2 = s2
  old = old
  new = new
  Module = {m1, m2}
  Broadcast = Broadcast
  Slots <- MCSlots
  Script = {old, new}
  Goal <- MCGoal
  None = None
  MaxAttempts = 2
  MaxFaults = 4

SPECIFICATION Spec
SYMMETRY Symmetry
CONSTRAINT InTime
CHECK_DEADLOCK FALSE

INVARIANTS
  TypeOK
  InstalledOnOneModule
  InstalledOnTarget
  FailureHasOutsideCause
