CONSTANTS
  t1 = t1
  t2 = t2
  r1 = r1
  r2 = r2
  MAX_DRIFT_MS = 100
  MaxCounter = 100
  Ids <- OneRow
  Tasks <- TwoTasks
  Modes <- Direct
  Ops = {"merge"}
  RemoteOps = {"upsert", "delete"}
  Resolution = "server_wins"
  ClientActor = 1
  ServerActor = 2
  ClientSkew = 0
  StartMs = 1
  Seeded = FALSE
  Overlap = TRUE
  SharedQueue = FALSE
  Durable = TRUE
  ThrowOnOverflow = FALSE
  MaxQueue = 2
  MaxWrites = 2
  MaxRemote = 1
  MaxDeliver = 1
  MaxFaults = 1
SPECIFICATION Spec
SYMMETRY TaskSymmetry
INVARIANTS TypeOK AckRetiresCommitted CleanIsCommitted OneSlotPerRow
CHECK_DEADLOCK FALSE
