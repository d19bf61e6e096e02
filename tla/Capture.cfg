SPECIFICATION FairSpec
CONSTANTS
  DbKeys = {"tool"}
  ServiceKeys = {"list", "fact"}
  Calls = {"c1", "c2", "c3"}
  NoCall = "nobody"
  NoKey = "none"
  PoolSize = 3
  MayCrash = TRUE
INVARIANTS TypeOK OneRowPerKey OneAtATime DbNeverBusy
PROPERTIES DoneIsFinal CallsEnd OncePerKeySpec
CHECK_DEADLOCK FALSE
