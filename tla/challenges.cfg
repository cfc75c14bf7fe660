SPECIFICATION Spec
CONSTANTS
  Request = {r1, r2, r3, r4, r5}
  Sites <- OpenSite
  Action = {a1}
  Host = {h1}
  Prefix = {p1}
  Session = {s1}
  Decision = {"pow"}
  Rings <- OneRing
  Minute = 60
  TicksPerSecond = 1
  HoldFloor = 1
  LockWait = 0
  MaxTime = 0
  MaxRestarts = 0
  Unparsed = Unparsed
  NoOrigin = NoOrigin
  NoKey = NoKey
  Key = {k1, k2, kb}
  sA = sA
  sB = sB
  h1 = h1
  h2 = h2
  k1 = k1
  k2 = k2
  kb = kb
SYMMETRY Symmetric
INVARIANTS AttemptsExact
PROPERTIES CapHolds
CHECK_DEADLOCK FALSE
