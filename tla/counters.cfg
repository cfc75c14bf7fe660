SPECIFICATION LiveSpec
CONSTANTS
  Request = {r1, r2, r3}
  Sites <- LimitedSite
  Action = {a1}
  Host = {h1}
  Prefix = {p1}
  Session = {s1}
  Decision = {"allow", "block", "pow", "maybe"}
  Rings <- Rotation
  Minute = 60
  TicksPerSecond = 1
  HoldFloor = 1
  LockWait = 0
  MaxTime = 1
  MaxRestarts = 1
  Unparsed = Unparsed
  NoOrigin = NoOrigin
  NoKey = NoKey
  Key = {k1, k2, kb}
  sA = sA
  sB = sB
  h1 = h1
  h2 = h2
  k1 = k1
  k2 = k2
  kb = kb

INVARIANTS TypeOK StatsAccount RotationGrace
PROPERTIES EveryRequestAnswered
CHECK_DEADLOCK FALSE
