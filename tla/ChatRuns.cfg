SPECIFICATION Spec
CONSTANTS
  Page = {1, 2}
  PageSession <- Sessions
  MaxFrames = 1
  LiveSteps = 1
  MaxRuns = 2
  MaxWorks = 1
  MaxSteps = 1
  MaxSubmits = 1
  MaxEnded = 1
  None = None
INVARIANT RunsAsShown
PROPERTY EndedSessionStops
CHECK_DEADLOCK FALSE
