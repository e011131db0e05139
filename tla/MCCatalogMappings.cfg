SPECIFICATION CatalogSpec
CONSTANTS
  Stores = {"s1", "s2", "s3"}
  Categories = {"c1", "c2"}
  Products = {"p1", "p2"}
  MappingIds = {"m1", "m2", "m3"}
  Platforms = {"GRABFOOD"}
  ExternalIds = {"e1"}
  Handlers = {h1, h2}
  MaxRequests = 3
  InitialDb <- MCInitialDb
  NoId = NoId
SYMMETRY MCSymmetry
INVARIANTS CatalogTypeOK SyncedIsCurrent
PROPERTIES FlagClearedByStoresOnly
CHECK_DEADLOCK FALSE
