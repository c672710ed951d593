\* Reloads against file changes that come at any moment, also during a load
\* and while the one-element reload queue is full.
SPECIFICATION Spec
CONSTANTS
  None = None
  window = window
  mode = mode
  high = high
  low = low
  flaky = flaky
  broken = broken
  Priority <- MCPriority
  Handles <- MCHandles
  ErrCap = 1
  EventTypes = {window}
  Scripts <- MCTwoScripts
  Contents = {low, flaky, broken}
  Loads = {low, flaky}
  Fails = {flaky, broken}
  QueueCap = 1
  WireCap = 1
  MaxEvents = 1
  MaxBreaks = 0
  Unbounded = FALSE
  ReloadCap = 1
  MaxChanges = 2
  MaxOverflows = 1
  MaxAttempts = 2
INVARIANTS
  TypeOK
  NoForgottenChange
  PendingHasTimer
