CONSTANTS
  s1 = s1
  s2 = s2
  h1 = h1
  h2 = h2
  h3 = h3
  parent = parent
  child = child
  twin = twin
  Sessions = {s1}
  Handlers = {h1}
  Caller <- MCCaller
  Rows = {parent}
  Key <- MCKey
  Referrers <- MCReferrers
  Cols = {a}
  StampCols = {}
  Vals = {0, 1}
  Null = Null
  Stamp = Stamp
  Absent = Absent
  Most = 3
  Fewer = 0
  a = a
  d = d
  Patches <- MCPlainPatches
  MaxLog <- MCMaxLog
SPECIFICATION Spec
INVARIANT NewestCanBeUndone
CHECK_DEADLOCK FALSE
