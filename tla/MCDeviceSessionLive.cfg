\* Two ports side by side, under fair scheduling of the daemon's threads.
CONSTANTS
  Request = {r1, r2}
  Port = {p1, p2}
  Worker = {w1, w2}
  Editor = Editor
  None = None
  MaxGeneration = 1

SPECIFICATION LiveSpec
CHECK_DEADLOCK FALSE

INVARIANTS
  AnswerIsOwnOutcome

PROPERTIES
  ServesEveryQueue
  EveryRequestAnswered
  IdleTransportClosed
