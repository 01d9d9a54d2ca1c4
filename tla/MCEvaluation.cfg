SPECIFICATION Spec
CONSTANTS
  Normal <- MCNormal
  Points <- MCPoints
  Baselines <- MCBaselines
  Outputs <- MCOutputs
  ClaudiusUsages <- MCUsages
  Times = {2}
  ArgSets <- MCArgSets
  Samples = {0, 1, 3}
  MaxSamples = 3
  NLines = 2
INVARIANTS ReportsAccounted MatrixIsRight RegressionsHaveFaults UnorderedIsRearranged PercentilesAreRanks
CHECK_DEADLOCK FALSE
