CONSTANTS
  t1 = t1
  t2 = t2
  r1 = r1
  r2 = r2
  MAX_DRIFT_MS = 100
  MaxCounter = 100
  Ids <- TwoRows
  Tasks <- TwoTasks
  Modes <- Queueing
  Ops = {"upsert"}
  RemoteOps = {"upsert"}
  Resolution = "server_wins"
  ClientActor = 1
  ServerActor = 2
  ClientSkew = 1
  StartMs = 1
  Seeded = FALSE
  Overlap = FALSE
  SharedQueue = TRUE
  Durable = FALSE
  ThrowOnOverflow = TRUE
  MaxQueue = 1
  MaxWrites = 2
  MaxRemote = 0
  MaxDeliver = 2
  MaxFaults = 0
SPECIFICATION FairSpec
INVARIANTS QueueBounded
PROPERTIES OnlySupersededStay
CHECK_DEADLOCK FALSE
