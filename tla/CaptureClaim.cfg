SPECIFICATION Spec
CONSTANTS
  DbKeys = {"tool"}
  ServiceKeys = {"list"}
  Calls = {"c1", "c2"}
  NoCall = "nobody"
  NoKey = "none"
  PoolSize = 3
  MayCrash = FALSE
INVARIANT ClaimHasOwner
CHECK_DEADLOCK FALSE
