SPECIFICATION Spec
CONSTANTS
  Base = {"purchase", "deposit"}
  Kids = {k1, k2, k3, k4}
  NoRow = NoRow
  Amount <- MCAmount
  Account <- MCAccount
  Parts <- MCParts
  Editors = {e1, e2}
SYMMETRY Symmetry
INVARIANT SplitSums
CHECK_DEADLOCK FALSE
