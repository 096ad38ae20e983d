SPECIFICATION Spec
CONSTANTS
  keyLen = 2
  Buckets = 2
  Priorities = {0}
  Objects = {o1, o2}
  NULL = NULL
  Types = {"EM"}
INVARIANT EmFoundMatches
