SPECIFICATION WatchSpec
CONSTANTS
  a1 = a1
  a2 = a2
  Admins <- MCAdmins
  ReadOrder <- MCReadOrder
  Settings = "settings"
  Mutations <- MCMutations
  MaxRevision = 2
SYMMETRY Interchangeable
INVARIANTS TypeOK StaleOnlyForCause
PROPERTIES OwnWritesInstalled
