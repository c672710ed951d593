\* Mutual exclusion of script code; stop functions return and silence their
\* watchers, and calls are served, but for one deadlock.
SPECIFICATION FairSpec
CONSTANTS
  Main = main
  Watchers = {w1, w2}
  Nobody = Nobody
  MaxBurst = 2
  MaxLoads = 2
INVARIANT
  PidTypeOK
  StoppedStaysSilent
PROPERTY
  StopFunctionReturns
  CallServed
\* A cancelled daemon may run out of steps, and goroutines may wait for each other for ever.
CHECK_DEADLOCK FALSE
