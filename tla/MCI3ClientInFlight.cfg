\* The comment on a single request in flight, refuted by a retry that times out.
SPECIFICATION Spec
CONSTANTS
  Callers = {c1, c2}
  NoOne = NoOne
  Forms = {"whole"}
  MaxCalls = 2
  MaxCrashes = 0
INVARIANT
  SingleInFlight
