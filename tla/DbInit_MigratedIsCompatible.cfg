\* One process, and a file that a release with older tables has made.
CONSTANTS
  p1 = p1
  p2 = p2
  Procs = {p1}
  Deployments <- MCOneRelease
  OldFiles <- MCOutdated
  NTables = 2
  NViews = 2
  MaxVersion = 2

SPECIFICATION Spec

INVARIANT MigratedIsCompatible
