\* Events against dispatch, shutdown and a breaking subscription; the two
\* scripts change at most once.
SPECIFICATION Spec
CONSTANTS
  None = None
  window = window
  mode = mode
  high = high
  low = low
  flaky = flaky
  broken = broken
  EventTypes = {window, mode}
  Scripts <- MCTwoScripts
  Contents = {high, low}
  Loads = {high, low}
  Fails = {}
  Priority <- MCPriority
  Handles <- MCHandles
  QueueCap = 1
  ErrCap = 1
  WireCap = 2
  MaxEvents = 3
  MaxBreaks = 1
  Unbounded = FALSE
  ReloadCap = 1
  MaxChanges = 1
  MaxOverflows = 0
  MaxAttempts = 1
INVARIANTS
  DispatchComplete
  SilentShutdown
PROPERTY
  OrderedDelivery
