\* Three requests race for one port; a second worker identity is to spare.
CONSTANTS
  Request = {r1, r2, r3}
  Port = {p1}
  Worker = {w1, w2}
  Editor = Editor
  None = None
  MaxGeneration = 2

SPECIFICATION Spec
SYMMETRY Symmetry
CHECK_DEADLOCK FALSE

INVARIANTS
  TypeOK
  PortExclusive
  WaiterIsOwed
  AnswerIsOwnOutcome
  NotInterleaved
  FailureHasOutsideCause

PROPERTIES
  ImplementsPortQueue
