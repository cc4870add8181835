SPECIFICATION FairSpec
CONSTANTS
  Workloads = {w1}
  Windows = {p1}
  Lines <- TwoPods
  MaxEvents = 1
  Nil = Nil
PROPERTY AppearsAsPodsRespond
CHECK_DEADLOCK FALSE
