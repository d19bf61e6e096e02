CONSTANTS
  Items <- MCItems
  Kinds <- MCKinds
  KindOf <- MCKindOf
  Texts = {a, b}
  NoChunk = NoChunk
  NoVec = NoVec
  BatchSize = 1
  MaxAttempts = 2
  MaxModel = 2
  MaxVersion = 2
  MaxEdits = 2
  MaxBreaks = 1
SPECIFICATION FairSpec
INVARIANT TypeOK NothingFromBefore
PROPERTY FreshStays Settles OrphansGo
