SPECIFICATION Spec
CONSTANTS
  Requests = {q1, q2}
  LiveTests = {l1}
  Jobs = {j1, j2}
  NoJob = NoJob
  CapChoices <- BothCaps
  NoCaps = NoCaps
  GlobalCaps <- Wide
  NewUserCaps <- Tight
  DaysPerMonth = 2
  MaxDay = 2
  MaxEdits = 1
  MaxFaults = 1
SYMMETRY DispatchSymmetry
CHECK_DEADLOCK FALSE
INVARIANTS TypeOK QuotaHolds RepliesAreTrue RowsAndMessages FanOutComplete
