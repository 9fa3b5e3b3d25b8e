SPECIFICATION FSpec
CONSTANTS
  Flusher = {f1, f2}
  MaxAppends = 4
INVARIANTS FileIsSound
PROPERTIES FlushSettles KeepsPromise
CHECK_DEADLOCK FALSE
