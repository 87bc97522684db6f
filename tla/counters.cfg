SPECIFICATION CounterSpec
\* The programs end.
CHECK_DEADLOCK FALSE
CONSTANT N = 4
INVARIANTS
  MutualExclusion
  NoLostUpdate
  RaceLosesOnly
PROPERTY
  Terminates
