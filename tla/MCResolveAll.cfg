SPECIFICATION FairSpec
CONSTANTS
  A = A
  B = B
  a1 = a1
  a2 = a2
  b1 = b1
  b2 = b2
  e1 = e1
  m1 = m1
  None = None
  Conflicts <- MCConflicts
  Edits <- NoEdits
  Messages <- NoMessages
  Branches <- MCBranches
  Archives <- AllArchives
  Covers <- MCCovers
  MitigationsOf <- MCMitigationsOf
  Recommended <- MCRecommended
  ConflictOf <- MCConflictOf
  Removes <- MCRemoves
  Rewrites <- MCRewrites
  Faulty <- NoBranches
  Touched <- NoItems
  MayCrash = FALSE
  MaxCommits = 4
PROPERTIES
  CommandEnds
  ResolveAllCompletes
