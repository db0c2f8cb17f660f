CONSTANTS
  NumIds = 4
  MaxOut = 2
  Ids <- MCIds
  Inputs <- MCInputs
  NodeSize <- MCNodeSize
  LinkKeyBase = 1000
  GoSort = "pdqsort"
SPECIFICATION InfoSpec
\* A constructor returns once; the run stops there.
CHECK_DEADLOCK FALSE
INVARIANTS TypeOK NodesOrdered LinksOrdered ResultDescribesDag
PROPERTIES BuildRefinesSpec
