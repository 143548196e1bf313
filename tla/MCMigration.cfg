SPECIFICATION Spec
CONSTANTS
  A = A
  B = B
  a1 = a1
  a2 = a2
  b1 = b1
  b2 = b2
  e1 = e1
  m1 = m1
  None = None
  Conflicts <- MCConflicts
  Edits <- MCEdits
  Messages <- MCMessages
  Branches <- MCBranches
  Archives <- MCArchives
  Covers <- MCCovers
  MitigationsOf <- MCMitigationsOf
  Recommended <- MCRecommended
  ConflictOf <- MCConflictOf
  Removes <- MCRemoves
  Rewrites <- MCRewrites
  Faulty <- NoBranches
  Touched <- MCTouched
  MayCrash = FALSE
  MaxCommits = 5
INVARIANTS
  TypeOK
  InitialKept
  BranchesBelongToCurrent
PROPERTIES
  VerdictIsCommitted
  HistoryOnlyRevertedOnRequest
  ImplementsChangeLog
