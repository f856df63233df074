\* Two workers whose ports must both be opened.
CONSTANTS
  Request = {r1, r2}
  Port = {p1, p2}
  Worker = {w1, w2}
  Editor = Editor
  None = None
  MaxGeneration = 1

SPECIFICATION Spec
CHECK_DEADLOCK FALSE

INVARIANTS
  OpensAreIndependent
