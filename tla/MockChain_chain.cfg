SPECIFICATION FairSpec
CONSTANTS
  NumBlocks = 3
  ValidatorOptions = {0, 1, 3}
  DefaultValidators = 2
  UnstakeHeights = {2, 99}
  DoubleSignPeriod = 2
  DrawnLabels = {"certResults", "dexLimitOrder", "dexSwap"}
  MaxTxs = 2
  MaxEvents = 1
  Nil = Nil
CHECK_DEADLOCK FALSE
INVARIANTS
  TypeOK
  CertAgreesWithHeight
  TxCertNamesItsBlock
  HeadIsNewestBlock
  CompleteWhenDone
  TotalTxsIsRunningSum
  EvidenceNamesBuiltBlocks
PROPERTIES
  ImplementsArchive
  Terminates
