SPECIFICATION Spec
CONSTANTS
  Names = {"root", "ann", "bob"}
  Passwords = {"root", "secret"}
  Split <- McSplit
  Number <- McNumber
  Long <- None
  LongThird <- None
  Modes <- McModes
  Weight <- McWeight
  PerBlock = 4
  MaxFree = 3
  MaxLines = 3
  MaxUid = 2
  MaxCuts = 0
INVARIANTS
  LoginPersists
