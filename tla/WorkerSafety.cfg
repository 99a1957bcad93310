SPECIFICATION Spec
CONSTANTS
  w1 = w1
  w2 = w2
  r1 = r1
  r2 = r2
  r3 = r3
  Workers = {w1, w2}
  Runs = {r1}
  NoRun = NoRun
  Kind <- OneWrites
  MaxRetries = 1
  ReadCeiling = 3
  MaxFaults <- OneOfEach
SYMMETRY WorkerSymmetry
INVARIANTS TypeOK SucceededHasPage PageBudget ExecutionCeiling ArchivedIsSettled NotifiedOnceAndTruly
