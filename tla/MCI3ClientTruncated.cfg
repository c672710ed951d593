\* The comment on retrying connection problems, refuted by a truncated reply.
SPECIFICATION Spec
CONSTANTS
  Callers = {c1, c2}
  NoOne = NoOne
  Forms = {"whole"}
  MaxCalls = 2
  MaxCrashes = 1
INVARIANT
  BrokenIsRetried
