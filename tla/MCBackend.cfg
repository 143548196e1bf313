SPECIFICATION Spec
CONSTANTS
  s1 = s1
  s2 = s2
  A = A
  B = B
  None = None
  Sessions <- TwoSessions
  Conflicts <- TwoConflicts
  Archives <- ArchivesOfTwo
  MaxCommits = 3
INVARIANTS
  TypeOK
  SessionShowable
  DeletesNeverRefused
PROPERTIES
  SavedIsShown
  SetIsShown
SYMMETRY Symmetry
CONSTRAINT Small
