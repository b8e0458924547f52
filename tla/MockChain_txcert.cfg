SPECIFICATION Spec
CONSTANTS
  NumBlocks = 1
  ValidatorOptions = {0}
  DefaultValidators = 2
  UnstakeHeights = {2, 99}
  DoubleSignPeriod = 2
  DrawnLabels = {"certResults", "dexLimitOrder", "dexSwap"}
  MaxTxs = 1
  MaxEvents = 1
  Nil = Nil
CHECK_DEADLOCK FALSE
INVARIANT CertResultsTxCarriesDexBatch
