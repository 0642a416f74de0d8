SPECIFICATION FairSpec
CONSTANTS
  c1 = c1
  c2 = c2
  v1 = v1
  i1 = i1
  i2 = i2
  b1 = b1
  Ctr = {c1, c2}
  Vol = {v1}
  Image = {i1, i2}
  Net = {n1}
  Path = {b1}
  ImageOf <- MCImageOf
  Mounts <- MCMounts
  BindOf <- MCBindOf
  Scopes <- MCScopes
  Looping = {c2}
  Saved = {i2}
  Anonymous = {v1}
  MaxUser = 1
  None = None
CHECK_DEADLOCK FALSE
INVARIANTS
  TypeOK
  RecipesComplete
  RestoresRunState
  AppConsistent
PROPERTIES
  StoppedComeBack
