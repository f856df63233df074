\* Finding: a number that Lua takes for nil.
CONSTANTS
  Layer <- MCLayer
  Temporary <- MCTemporary
  Priority <- MCPriority
  Field <- MCField
  FieldSpec <- MCFieldSpec
  Timeout <- MCTimeout
  Order <- MCOrder
  Initial <- MCInitial
  First = "base"
  Uses <- MCUses
  Raw <- MCRaw
  Text = {"abc", "nan"}
  Finite = {}
  NotFinite = {"nan"}
  Invalid = Invalid
  Nil = Nil
  None = None
  MaxAssignments = 2

SPECIFICATION Spec



INVARIANTS
  FieldsKeepTheirKind
