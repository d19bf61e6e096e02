SPECIFICATION Spec
CONSTANTS
  Txns = {t1}
  Merchants = {m1}
  Cats = {food, gas}
  NoCat = NoCat
  Runs = {nightly, byHand}
  Requests = {k1}
  Merchant <- MCMerchant
  Threshold <- MCThreshold
  Conf <- MCConf
SYMMETRY Symmetry
CONSTRAINT MCBound
INVARIANTS TypeOK HumanCategoryStands HumanTransferStands  AppliedClearsItsGate
PROPERTY ShadowMutatesNothing
CHECK_DEADLOCK FALSE
