SPECIFICATION MCSpec
CONSTANTS
  p1 = p1
  p2 = p2
  p3 = p3
  q1 = q1
  Proc = {p1, p2, p3, q1}
  Foreign = {q1}
  MaxEvents = 2
INVARIANTS LeaseIsHeld
PROPERTIES LogIsOneStory StaleLockIsReclaimed
CHECK_DEADLOCK FALSE
