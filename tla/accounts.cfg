SPECIFICATION Spec
CONSTANTS
  Names = {"root", "ann"}
  Passwords = {"root", "longer", "long word", "x:0"}
  Split <- McSplit
  Number <- McNumber
  Long = {"long word"}
  LongThird <- None
  Modes <- OpenModes
  Weight <- McWeight
  PerBlock = 4
  MaxFree = 1
  MaxLines = 2
  MaxUid = 1
  MaxCuts = 1
INVARIANTS
  AccountsDistinct
  RewriteKeepsAccounts
  IdentityChangesByLogin
  SessionIsAccount
