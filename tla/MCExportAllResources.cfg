CONSTANTS
  APIs <- MCRoutesAPIs
  Objects <- MCRoutes
  Namespace = "app"
  ClusterScopedRbac = FALSE
  Nil = Nil
  MaxChanges = 0
  MaxFaults = 0
SPECIFICATION Spec
INVARIANT ExportsAllResources
