CONSTANTS
  Reminders <- MCReminders
  Users = {"night", "day"}
  OwnerOf <- MCOwnerOf
  Devices = {"tablet"}
  Opted = {"day"}
  Sleepless = {"night"}
  Limit = 2
  MaxSleeps = 1
  MaxCuts = 1
  MaxPlugs = 1
SPECIFICATION FairSpec
INVARIANT TypeOK OnceEach MarkedWasSent
PROPERTY ClearedStays AllDelivered
CHECK_DEADLOCK FALSE
