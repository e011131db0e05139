SPECIFICATION RoomsSpec
CONSTANTS
  a = a
  b = b
  Instances = {a, b}
  Displays = {"d1"}
  Orders = {"o1", "o2", "o3"}
  Stores = {"s1", "s2"}
  StoreOf <- MCStoreOf
  ReceivedAt <- MCReceivedAt
  Wants <- MCWants
  Handshakes = {"d1"}
  Limit = 1
  MaxFaults = 2
  None = None
INVARIANTS RoomsTypeOK OnlyAskedStores NoGap
SYMMETRY MCSymmetry
CHECK_DEADLOCK FALSE
