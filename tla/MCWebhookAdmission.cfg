SPECIFICATION AdmissionSpec
CONSTANTS
  Unset = Unset
  s1 = s1
  s2 = s2
  Secrets = {s1, s2}
  Configs <- MCConfigs
  Characters = {"x", ":", "_"}
  OrderIds <- MCOrderIds
  Spellings <- MCSpellings
  MaxTime = 2
  MaxTokens = 1
  MaxAccepted = 2
INVARIANTS AdmissionTypeOK TokensLastAsAnnounced CheckedAsParsed AcceptedHasItsJob
PROPERTIES OneAcceptancePerOrder
CHECK_DEADLOCK FALSE
