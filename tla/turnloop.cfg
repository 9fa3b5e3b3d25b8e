SPECIFICATION Spec
CONSTANTS
  Prompt = {p1}
  Steer = {s1}
  Context = {}
  Notice = {n1}
  MaxSteps = 2
  MaxLives = 2
  MaxCancels = 1
INVARIANTS NothingLost InboxIsSound
PROPERTIES PromptsRun DisposalCompletes
CHECK_DEADLOCK FALSE
