SPECIFICATION Spec
CONSTANTS
  Normal <- MCNormal
  Points <- SparsePoints
  Baselines <- SparseBaselines
  Outputs <- SparseOutputs
  ClaudiusUsages <- MCUsages
  Times = {2}
  ArgSets <- MCArgSets
  Samples = {0, 1, 3}
  MaxSamples = 3
  NLines = 1
INVARIANT TrueRegressions
CHECK_DEADLOCK FALSE
