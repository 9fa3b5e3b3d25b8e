SPECIFICATION Spec
CONSTANTS
  Subject = {ls, rm}
  Default = "ask"
  MaxAsks = 2
  MaxSwitches = 2
  MaxRevokes = 1
  MaxLives = 2
SYMMETRY Exchangeable
INVARIANTS SeamPassesItsInvariant ConsentIsEarned AsksReachAPerson
CHECK_DEADLOCK FALSE
