CONSTANTS
  t1 = t1
  t2 = t2
  r1 = r1
  r2 = r2
  MAX_DRIFT_MS = 100
  MaxCounter = 100
  Ids <- OneRow
  Tasks <- TwoTasks
  Modes <- Queueing
  Ops = {"delete"}
  RemoteOps = {"upsert"}
  Resolution = "server_wins"
  ClientActor = 1
  ServerActor = 2
  ClientSkew = 0
  StartMs = 1
  Seeded = TRUE
  Overlap = FALSE
  SharedQueue = TRUE
  Durable = FALSE
  ThrowOnOverflow = FALSE
  MaxQueue = 2
  MaxWrites = 1
  MaxRemote = 0
  MaxDeliver = 1
  MaxFaults = 0
SPECIFICATION FairSpec
PROPERTIES QueueDrains
CHECK_DEADLOCK FALSE
