CONSTANTS
  APIs <- MCAPIs
  Objects <- MCObjects
  Namespace = "app"
  ClusterScopedRbac = TRUE
  Nil = Nil
  MaxChanges = 1
  MaxFaults = 2
SPECIFICATION Spec
INVARIANTS
  TypeOK
  ExportIsClosed
  OkIsAccounted
  QuietIsComplete
