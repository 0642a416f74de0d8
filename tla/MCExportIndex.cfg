SPECIFICATION Spec
CONSTANTS
  p1 = p1  p2 = p2
  Src = {p1, p2}
  Resource = {"env", ".env", "app"}
  Images = {"app"}
  Part <- MCPart  Split <- MCSplit  Drives = {"a:"}  Safe <- MCSafe
  Tars <- MCTars  Requests <- MCRequests
  MaxExports = 2
  MaxMishaps = 1
  NoPath = NoPath  NoFile = NoFile  Failed = Failed  Torn = Torn
CHECK_DEADLOCK FALSE
INVARIANTS
  TypeOK
  ArtifactExact
  ListedReadable
  IndexComplete
  OfferedExportable
