SPECIFICATION LiveSpec
CONSTANTS
  Revisions = {r1, r2}
  NoRev = NoRev
  Blocks = 2
  MaxFaults = 2
  Corrupt = TRUE
INVARIANTS
  AssetTypeOK
  ReuseHolds
PROPERTIES
  PublishesWhole
  RetriesPrepare
