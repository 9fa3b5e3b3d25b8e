SPECIFICATION Spec
CONSTANTS
  Session = {s1, s2, s3}
  Row <- Rows
  Host <- Hosts
  Level = {0, 2}
  MaxDepth = 2
  MaxSwitches = 1
  MaxHosts = 2
SYMMETRY Exchangeable
INVARIANTS SandboxPassesInvariant NeverWiderThanHeld LogSaysWhatGoverns
CHECK_DEADLOCK FALSE
