SPECIFICATION Spec
CONSTANTS
  Proc = {p1, p2}
  Hash = {h1, h2, h3}
  Snap = {s1, s2}
  Key = {k1}
  MaxDamage = 2
  NoProc = NoProc
  NoHash = NoHash
  NoKey = NoKey
  Absent = Absent
SYMMETRY Symmetry
INVARIANTS
  TypeOK
  ReferencedObjectsIntact
  InFlightObjectsRecorded
  RepairHeals
PROPERTIES
  DoctorDeletesOnlyBroken
  ExclusiveIsReclaimable
