CONSTANTS
  NumIds=7
  MaxOut = 2
  Ids <- MCIds
  Inputs <- StarInputs
  LinkKeyBase = 1000
  GoSort = "quicksort"
SPECIFICATION Spec
CHECK_DEADLOCK FALSE
INVARIANTS NodesOrdered
