SPECIFICATION Spec
CONSTANTS
  None = None
  Whitelists = {w}
  Vlans = {v}
  Files <- MCFiles
PROPERTIES
  NoneBringsAnother
  RecommendedResolves
