SPECIFICATION FairSpec
CONSTANTS
  Sockets = {"phone", "desktop"}
  Convs = {"c1"}
  NoConv = "none"
  MaxTasks = 2
INVARIANTS TypeOK ShownIsStored TableNamesNewest
PROPERTIES CancelLeavesMarker ResponsesEnd TranscriptSpec
