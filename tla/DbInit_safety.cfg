\* Two processes of one or two releases open, create, migrate and remove the file.
CONSTANTS
  p1 = p1
  p2 = p2
  Procs = {p1, p2}
  Deployments <- MCDeployments
  OldFiles <- MCOldFiles
  NTables = 2
  NViews = 2
  MaxVersion = 3

SPECIFICATION Spec

INVARIANTS
  TypeOK
  LockedFlakeIsLast
  ReadyIsCompatible
  BrokenIsExplained
  NoStaleViews

PROPERTY DbIsCacheFile
