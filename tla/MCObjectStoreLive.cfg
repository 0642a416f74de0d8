SPECIFICATION FairSpec
CONSTANTS
  Proc = {p1, p2}
  Hash = {h1, h2}
  Snap = {s1}
  Key = {k1}
  MaxDamage = 1
  NoProc = NoProc
  NoHash = NoHash
  NoKey = NoKey
  Absent = Absent
PROPERTIES
  ImplementsRepository
  LockReleased
