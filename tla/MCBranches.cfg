CONSTANTS
  Labels = {l1, l2}
  ShortMax = 8
  NearMax = 15
  MaxUses = 4
  UseTypes = {"JCC", "JMP", "CALL", "LEA"}
  Segments = {6}
  MaxBranches = 1
SYMMETRY Symmetric
SPECIFICATION BranchSpec
CHECK_DEADLOCK FALSE
INVARIANTS
  ShortFits
  EmitsLayout
  NoneLeftLong
  BranchesReach
PROPERTY
  EachPassGains
