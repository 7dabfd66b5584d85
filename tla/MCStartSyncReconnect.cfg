CONSTANTS
  i1 = i1
  i2 = i2
  Nobody = Nobody
  Insts <- TwoInsts
  RenewFailureLimit = 2
  MaxCalls = 1
  MaxFaults = 1
SPECIFICATION FairSpec
PROPERTIES ReconnectFlushes
CHECK_DEADLOCK FALSE
