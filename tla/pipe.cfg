SPECIFICATION Spec
\* The processes end, or wait for a reader that waits for them.
CHECK_DEADLOCK FALSE
CONSTANTS
  Count = 4
  Capacities = {5, 8}
INVARIANTS
  LockedRuns
  AllRead
PROPERTY
  EndsIfPipeHoldsAll
