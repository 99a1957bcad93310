SPECIFICATION Spec
CONSTANTS
  Requests = {q1}
  LiveTests = {l1}
  Jobs = {j1}
  NoJob = NoJob
  CapChoices <- BothCaps
  NoCaps = NoCaps
  GlobalCaps <- Tight
  NewUserCaps <- Tight
  DaysPerMonth = 2
  MaxDay = 1
  MaxEdits = 0
  MaxFaults = 0
SYMMETRY DispatchSymmetry
CHECK_DEADLOCK FALSE
INVARIANTS LiveTestsAreFree
