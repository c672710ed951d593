\* Two callers, two calls, two restarts of i3 at any moment; every call returns
\* although i3 may be stuck.
SPECIFICATION FairSpec
CONSTANTS
  Callers = {c1, c2}
  NoOne = NoOne
  Forms = {"whole", "huge"}
  MaxCalls = 2
  MaxCrashes = 2
INVARIANTS
  ClientTypeOK
  ReplyMatches
  ExecutedAtMostTwice
PROPERTY
  CallReturns
