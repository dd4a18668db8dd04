SPECIFICATION Spec
CONSTANTS
  Page = {p1}
  MaxKey = 2
  MaxFaults = 1
  MaxCrashes = 1
  Session = {s1, s2}
  MaxStarts = 2
INVARIANT KeysAgree
PROPERTIES RecordCatchesUp EndedSessionIsCancelled
CHECK_DEADLOCK FALSE
