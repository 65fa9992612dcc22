SPECIFICATION FairSpec
CONSTANTS
  p1 = p1
  p2 = p2
  d1 = d1
  d2 = d2
  t1 = t1
  t2 = t2
  t3 = t3
  Importers <- TwoImporters
  Docs <- TwoDocs
  Dirs <- ThreeDirs
  StoreLimit = 1
  MaxCrashes = 2
  OtherWriters = TRUE
  Nobody = Nobody
  None = None
INVARIANTS CompleteDocuments SyncedReceiptsSurvive StagingIsOwned ParserUnderLock StoreWithinLimit
PROPERTIES LeftoversSwept
