SPECIFICATION AnsweringSpec
CONSTANTS
  Workloads = {w1, w2}
  Windows = {p1}
  Lines <- TwoPods
  MaxEvents = 3
  Nil = Nil
INVARIANTS
  ShownIsLastAsked
  LoadingTellsTheTruth
  CompleteWhenDone
  UnmountCleansUp
PROPERTY ComesToRest
CHECK_DEADLOCK FALSE
