CONSTANTS
  Relays = {"r1"}
  Crate = "mcp"
  MaxStrangers = 1
  Other = "other"
SPECIFICATION Spec
INVARIANT RequestIsKept
CHECK_DEADLOCK FALSE
