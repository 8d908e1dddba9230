SPECIFICATION FairSpec
CONSTANTS
  DevName <- MCName
  DrvName <- MCName
  Nobody = Nobody
  MaxLoads = 4
INVARIANTS PairedWhenInstalled NodeHasDriver
PROPERTY ModulesSettle
CHECK_DEADLOCK FALSE
