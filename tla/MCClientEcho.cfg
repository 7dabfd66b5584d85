CONSTANTS
  t1 = t1
  t2 = t2
  r1 = r1
  r2 = r2
  MAX_DRIFT_MS = 100
  MaxCounter = 100
  Ids <- OneRow
  Tasks <- TwoTasks
  Modes <- Queueing
  Ops = {"upsert"}
  RemoteOps = {"upsert", "delete"}
  Resolution = "server_wins"
  ClientActor = 1
  ServerActor = 2
  ClientSkew <- Behind
  StartMs = 1
  Seeded = TRUE
  Overlap = FALSE
  SharedQueue = TRUE
  Durable = FALSE
  ThrowOnOverflow = FALSE
  MaxQueue = 2
  MaxWrites = 2
  MaxRemote = 1
  MaxDeliver = 3
  MaxFaults = 0
SPECIFICATION Spec
SYMMETRY TaskSymmetry
INVARIANTS DropsOnlyForOthers
CHECK_DEADLOCK FALSE
