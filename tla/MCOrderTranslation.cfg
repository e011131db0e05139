SPECIFICATION MenuSpec
CONSTANTS
  Stores = {"s1"}
  Categories = {"c1"}
  Products = {"p1", "p2"}
  MappingIds = {"gs", "gp", "fs", "fp", "fq", "new"}
  Platforms = {"GRABFOOD", "FOODPANDA"}
  ExternalIds = {"e1", "e2"}
  Handlers = {h1}
  MaxRequests = 1
  InitialDb <- MCInitialDb
  NoId = NoId
  Price <- MCPrice
  Answers <- MCAnswers
  Absent = Absent
  NotANumber = NotANumber
  Payloads <- MCPayloads
  MaxAttempts = 2
  IntMax = 50
INVARIANTS MenuTypeOK StoredMatchesPayload StoredAddsUp EachItemWasLinked
CHECK_DEADLOCK FALSE
