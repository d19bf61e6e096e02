CONSTANTS
  s1 = s1
  s2 = s2
  h1 = h1
  h2 = h2
  h3 = h3
  parent = parent
  child = child
  twin = twin
  Sessions = {s1, s2}
  Handlers = {h1, h2, h3}
  Caller <- MCCaller
  Rows = {parent, child, twin}
  Key <- MCKey
  Referrers <- MCReferrers
  Cols = {a, d}
  StampCols = {d}
  Vals = {0}
  Null = Null
  Stamp = Stamp
  Absent = Absent
  Most = 2
  Fewer = 1
  a = a
  d = d
  Patches <- MCPatches
  MaxLog <- MCMaxLog
SPECIFICATION MCSpec
INVARIANTS TypeOK UndoAllRestores NothingLost
CHECK_DEADLOCK FALSE
SYMMETRY Symmetry
CONSTRAINT MCBound
