SPECIFICATION BatchSpec
CONSTANTS
  BatchIds = {e1, e2}
  BaseData <- MCBaseData
  Operations <- MCOperations
  MaxBatch = 3
INVARIANTS
  CompressionLossless
  PreApplyAbsorbed
