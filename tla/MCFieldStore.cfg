SPECIFICATION Spec
CONSTANTS
  None = None
  Args <- MCArgs
  FileOrder <- MCFileOrder
  NamedFile <- HasFile
  Found <- MCFound
  Disks <- MCDisks
  MaxFields = 3
INVARIANTS
  NeverRaises
  IndexExact
PROPERTY
  ImplementsList
