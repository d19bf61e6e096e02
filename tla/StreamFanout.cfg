SPECIFICATION Spec
CONSTANTS
  Sockets = {phone, desktop, tablet}
  Events = {e1, e2}
SYMMETRY Symmetry
INVARIANTS TypeOK AtMostOnce ListIsExact CompleteWhenUndisturbed
CHECK_DEADLOCK FALSE
