SPECIFICATION Spec
CONSTANTS
  root = root
  child = child
  Client = {c1, c2}
  Session = {root, child}
  MaxPrompts = 2
  Named = {root}
  Nobody = Nobody
  Parent <- ParentOf
  MayShutdown = {c2}
  Subscribers = {c1}
  Narrowers = {c1}
  CloseWithLast = FALSE
  MaxAsks = 1
  MaxShutdowns = 2
INVARIANTS QuestionsAreSound SummariesAreCurrent RacesLoseNothing
PROPERTIES CallsSettle
CHECK_DEADLOCK FALSE
