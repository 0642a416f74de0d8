SPECIFICATION Spec
CONSTANTS
  p1 = p1  p2 = p2  m1 = m1  m2 = m2  s1 = s1
  Src = {p1, p2}  Man = {m1, m2}  MaxHash = 2
  Refs <- MCRefs  IdOf <- MCIdOf  Holds <- MCHolds  Foreign <- MCForeign  Locals <- MCLocals
  MaxHarm = 1
  NoMan = NoMan
CHECK_DEADLOCK FALSE
INVARIANTS
  TypeOK
  PublishedComplete
  SoundRoundTrip
  ImportedIntact
  OnlyVerifiedAdopted
