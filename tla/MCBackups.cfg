CONSTANTS
  Backup = {b1, b2}
  Worker = {w1, w2}
  Handler = {h1}
  Chunks = 2
  None = None
SPECIFICATION FairSpec
INVARIANTS
  TypeOK
  CompleteIsWhole
  ServedIsWhole
  NoDumpLeaks
PROPERTIES
  ImplementsArtifacts
  BackupEnds
  DumpIsRemoved
