CONSTANTS
  Rows = {r1, r2}
  OldRows = {r2}
  Txns = {t1, t2}
  NoTxn = NoTxn
  MICROS_PER_MS = 2
  AttachedAt = 0
  Walls = {0, 3}
  Tokens = {1, 2}
  MaxStatements = 2
  MAX_DRIFT_MS = 0
  MaxCounter = 0
SPECIFICATION FairSpec
INVARIANTS TypeOK CaughtUpIsCurrent EditOrder FencedCommits
PROPERTIES NothingBehindCursor ImplementsFeed StatementsFinish
CHECK_DEADLOCK FALSE
