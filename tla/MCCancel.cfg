CONSTANTS
  c1 = c1  c2 = c2  h1 = h1  h2 = h2  junk = junk
  Callers <- MCCallers
  Hashes <- MCHashes
  Junk <- junk
  MfstNodes <- MCDupNodes
  MaxCalls = 2
SPECIFICATION CSpec
INVARIANTS OkMeansMarked
PROPERTIES CancelReleasesCallers SessionRefinesSpec
