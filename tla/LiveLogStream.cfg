SPECIFICATION FairSpec
CONSTANTS
  p1 = p1
  p2 = p2
  Running = {p1, p2}
  Log <- TwoPodLog
  ChanCap = 2
  Nil = Nil
INVARIANTS IInv PodOrderKept EndedMeansDelivered
PROPERTIES CancelCleansUp EndsWithPods
