SPECIFICATION Spec
CONSTANTS
  Base = {"purchase", "deposit"}
  Kids = {k1, k2, k3, k4}
  NoRow = NoRow
  Amount <- MCAmount
  Account <- MCAccount
  Parts <- MCParts
  Editors = {e1}
SYMMETRY Symmetry
INVARIANTS TypeOK SplitSums LinksNeverChain
PROPERTY PassKeepsLinks
CHECK_DEADLOCK FALSE
