SPECIFICATION Spec
CONSTANTS
  Request = {r1, r2, r3}
  Sites <- TwoSites
  Action = {a1, a2}
  Host = {h1, h2}
  Prefix = {p1}
  Session = {s1, s2}
  Decision = {"allow", "pow"}
  Rings <- OneRing
  Minute = 60
  TicksPerSecond = 1
  HoldFloor = 0
  LockWait = 0
  MaxTime = 0
  MaxRestarts = 0
  Unparsed = Unparsed
  NoOrigin = NoOrigin
  NoKey = NoKey
  Key = {k1, k2, kb}
  sA = sA
  sB = sB
  h1 = h1
  h2 = h2
  k1 = k1
  k2 = k2
  kb = kb
SYMMETRY Symmetric
INVARIANTS Provenance
CHECK_DEADLOCK FALSE
