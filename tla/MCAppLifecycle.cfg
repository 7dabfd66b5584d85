CONSTANTS
  MAX_SAFE_GENERATION = 3
  Nobody = Nobody
  Listeners = {a, b}
  Streams = {b}
  MaxDepth = 2
  Calls = {c1, c2, c3}
  NoCall = NoCall
SPECIFICATION OwnedSpec
SYMMETRY CallSymmetry
INVARIANTS ObserversTypeOK Valid RevokedForGood HearsCurrent SessionTypeOK OnlineAfterItsActivate NothingLeftUp RunningIsUp StopJoinsCleanup
PROPERTIES NoResurrection
