CONSTANTS a = a  b = b  c = c  d = d
SPECIFICATION Spec
INVARIANTS NewCompletionMarksMissing SummariesAgree RandStringMatchesReference
