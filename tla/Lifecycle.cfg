SPECIFICATION FairSpec
CONSTANTS
  HttpRequests = {h1, h2}
  GrpcCalls = {g1, g2}
INVARIANTS GracefulUntilTimeout IInv
PROPERTIES SignalEndsProcess HttpWithoutGrpc
CHECK_DEADLOCK FALSE
