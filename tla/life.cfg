SPECIFICATION Spec
CONSTANTS
  root = root
  Agent = {root, c1, c2}
  Parent <- ParentOf
  App = App
  Loop = Loop
  MaxPrompts = 1
INVARIANTS FoundWhole
PROPERTIES ChildFollowsItsCall DisposalsEnd
CHECK_DEADLOCK FALSE
