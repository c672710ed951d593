\* Two watchers and the main goroutine of one script with either limit, both or
\* none; the script and its children need never end.
SPECIFICATION FairSpec
CONSTANTS
  Main = main
  Actors = {main, w1, w2}
  Nobody = Nobody
  StepLimits = {0, 1, 3}
  Timeouts = {TRUE, FALSE}
  MaxLate = 2
INVARIANTS
  CallsTypeOK
  LimitsAreOwn
PROPERTIES
  CallEnds
  CallEndsAtShutdown
