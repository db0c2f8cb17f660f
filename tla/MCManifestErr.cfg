CONSTANTS
  NumIds = 4
  MaxOut = 2
  Ids <- MCIds
  Inputs <- MCInputs
  LinkKeyBase = 1000
  GoSort = "pdqsort"
SPECIFICATION Spec
CHECK_DEADLOCK FALSE
INVARIANTS ErrorReturnsNoManifest
