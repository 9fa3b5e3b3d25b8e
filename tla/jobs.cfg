SPECIFICATION Spec
CONSTANTS
  Job = {j1, j2}
  MaxPerOwner = 2
  MaxWakes = 1
  MaxCalls = 2
  MaxSwitches = 1
  MaxPrompts = 1
  MaxLives = 2
INVARIANTS EndToldExactlyOnce AuthorityHeld WithinBounds
PROPERTIES StopAllHolds
SYMMETRY Exchangeable
CHECK_DEADLOCK FALSE
