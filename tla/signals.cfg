SPECIFICATION Spec
\* The processes end, or wait for a signal that has been.
CHECK_DEADLOCK FALSE
CONSTANT MaxKeys = 2
INVARIANTS
  NobodyKilled
PROPERTIES
  EndsUnlessMissed
  AlarmWakes
