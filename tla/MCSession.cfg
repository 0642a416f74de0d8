SPECIFICATION Leaving
CONSTANTS
  s1 = s1  s2 = s2  s3 = s3  c1 = c1  v1 = v1  All = All
  Id = {s1, s2, s3}
  Start = {s1, s2}
  Token <- MCToken  Match <- MCMatch  Prefix <- MCPrefix
  Kinds <- MCKinds  Of <- MCOf
  Lines <- MCLines
  MaxOthers = 1
CHECK_DEADLOCK FALSE
INVARIANTS
  TypeOK
  PreviewedIsApplied
PROPERTIES
  DestroysOnYes
  DeletesTheNamed
  EscLeaves
