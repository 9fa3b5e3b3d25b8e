SPECIFICATION Spec
CONSTANTS
  N = 3
  Width = 2
INVARIANTS RepairTellsTruth LaneKeepsOrder
PROPERTIES NothingStartsLate StepEnds
CHECK_DEADLOCK FALSE
