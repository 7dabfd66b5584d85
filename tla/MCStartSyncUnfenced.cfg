CONSTANTS
  i1 = i1
  i2 = i2
  Nobody = Nobody
  Insts <- TwoInsts
  RenewFailureLimit = 2
  MaxCalls = 2
  MaxFaults = 1
SPECIFICATION Spec
INVARIANTS SupersededNeverCommits
CHECK_DEADLOCK FALSE
