SPECIFICATION Spec
CONSTANTS
  c1 = c1  c2 = c2  v1 = v1  n1 = n1  i1 = i1  i2 = i2  t1 = t1  t2 = t2
  Ctr = {c1, c2}  Vol = {v1, v2}  v2 = v2  Net = {n1}  Image = {i1, i2}  Tag = {t1, t2}
  NoImage = NoImage  NoTag = NoTag  NoVol = NoVol
  Mounts <- MCMounts
  Attached <- MCAttached
  Anonymous = {v2}
  Snapshots <- MCSnapshots
  Engines <- MCEngines
  Requests <- MCRequests
  MaxRuns = 2
  MaxUsers = 1
INVARIANTS
  TypeOK RestoredExactly Idempotent NoPartialObserved
  StatusAgreesWithRollback DefaultsDestroyNothing
PROPERTIES DestroysOnlyCheckpointed NamesMoveWithConsent
CHECK_DEADLOCK FALSE
