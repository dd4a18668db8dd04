SPECIFICATION QueuesSpec
CONSTANTS
  j1 = j1
  j2 = j2
  j3 = j3
  Jobs <- ThreeJobs
  Workers = 1
  Outstanding = 2
  Changer = {w1}
  Page = {p1}
  MaxChanges = 3
  MaxReopens = 2
  Limit = 1
INVARIANT QueuesCounted
PROPERTIES OneEnd ImplementsPools CancelledLeaves PagesCatchUp
CHECK_DEADLOCK FALSE
