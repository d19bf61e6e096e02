SPECIFICATION Spec
CONSTANTS
  Sockets = {"phone"}
  Convs = {"c1"}
  NoConv = "none"
  MaxTasks = 3
INVARIANT NoOverlap
