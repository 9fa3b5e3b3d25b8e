SPECIFICATION KSpec
CONSTANTS
  root = root
  w = w
  a1 = a1
  a2 = a2
  d = d
  c = c
  a = a
  Absent = Absent
  Instance = {a1, a2, d, c}
  Scope = {root, w}
  Root = root
  Key = {a}
  Owner <- OwnerOf
  Home <- HomeOf
  Needs <- NeedsOf
  Gives <- GivesOf
  Handled = {c}
  Fragile = {a2, d}
INVARIANTS EpochIsHonoured NothingStranded
PROPERTIES Settles
CHECK_DEADLOCK FALSE
