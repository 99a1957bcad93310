SPECIFICATION Spec
CONSTANTS
  w1 = w1
  w2 = w2
  r1 = r1
  r2 = r2
  r3 = r3
  Workers = {w1, w2}
  Runs = {r1, r2, r3}
  NoRun = NoRun
  Kind <- MixedKinds
  MaxRetries = 1
  ReadCeiling = 3
  MaxFaults <- CrashOnly
SYMMETRY WorkerSymmetry
PROPERTIES Lifecycle
