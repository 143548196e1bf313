SPECIFICATION Spec
CONSTANTS
  A = A
  B = B
  a1 = a1
  a2 = a2
  b1 = b1
  b2 = b2
  e1 = e1
  m1 = m1
  None = None
  Conflicts <- MCConflicts
  Edits <- NoEdits
  Messages <- NoMessages
  Branches <- MCBranches
  Archives <- TwoArchives
  Covers <- TwoCovers
  MitigationsOf <- MCMitigationsOf
  Recommended <- SameRecommended
  ConflictOf <- MCConflictOf
  Removes <- MCRemoves
  Rewrites <- MCRewrites
  Faulty <- FaultyBranches
  Touched <- TouchedA
  MayCrash = TRUE
  MaxCommits = 5
INVARIANTS
  InitialKept
  BaselineIsWhole
PROPERTIES
  VerdictIsCommitted
  ImplementsChangeLog
  CurrentKeptUntilGone
