\* Liveness while i3 never stops sending events; only the receiver is sure to run,
\* and the properties about main and the watch loop name the fairness they need.
SPECIFICATION ReceiverFairSpec
CONSTANTS
  None = None
  window = window
  mode = mode
  high = high
  low = low
  flaky = flaky
  broken = broken
  Priority <- MCPriority
  Handles <- MCHandles
  ErrCap = 1
  EventTypes = {window}
  Scripts <- MCOneScript
  Contents = {low}
  Loads = {low}
  Fails = {}
  QueueCap = 1
  WireCap = 1
  MaxEvents = 0
  MaxBreaks = 1
  Unbounded = TRUE
  ReloadCap = 1
  MaxChanges = 2
  MaxOverflows = 0
  MaxAttempts = 2
PROPERTIES
  ShutdownCompletes
  ReloadConverges
  StreamFailureEndsRun
  SocketDrained
