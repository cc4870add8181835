SPECIFICATION FairSpec
CONSTANTS
  Workloads = {w1, w2, w3, w4, w5}
  SemCap = 3
  Endpoint = "chain"
INVARIANTS FetchesBounded ClosedAfterLastSend RoomToSend IInv
PROPERTY ImplementsSearch
