\* Three commands or edits in any order, every fault at every step.
CONSTANTS
  s1 = s1
  s2 = s2
  p1 = p1
  p2 = p2
  small = small
  large = large
  plain = plain
  framed = framed
  blank = blank
  Slot = {s1, s2}
  Page = {p1, p2}
  PageOf <- MCPageOf
  Content = {Empty, blank, plain, framed, small, large}
  Empty = Empty
  Framed <- MCFramed
  Runtime <- MCRuntime
  None = None
  Broken = Broken
  MaxCommands = 3

SPECIFICATION Spec
CHECK_DEADLOCK FALSE

INVARIANTS
  TypeOK
  OriginalIsSafe
  RemoveRestores

PROPERTIES
  SuccessIsOnDevice
  FreezeIsVerified
