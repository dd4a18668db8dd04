\* Three operations, both limits, a queue of two.
CONSTANTS
  o1 = o1
  o2 = o2
  o3 = o3
  Ops <- ThreeOps
  Admin = Admin
  MaxLimit = 2
  MaxWaiting = 2
SPECIFICATION FairSpec
INVARIANTS SlotsCounted NoStrandedWaiter Bounded
PROPERTIES QueueOrder ImplementsPool WaiterServed
