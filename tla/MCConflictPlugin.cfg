SPECIFICATION Spec
CONSTANTS
  None = None
  Objects <- MCObjects
  TypeOf <- MCTypeOf
  NameOf <- MCNameOf
  FileOf <- MCFileOf
  Hosts <- MCHosts
  Networks <- MCNetworks
  References <- MCReferences
  Configurations <- MCConfigurations
INVARIANTS
  TypeOK
  TraversalExact
  NeverFails
  OrderIrrelevant
  NothingRefersToDeleted
  ChangedIsRendered
CHECK_DEADLOCK FALSE
