SPECIFICATION Spec
CONSTANTS
  Procs = {p1, p2}
  None = None
  MaxRegistries = 2
  BoundClients = 3
  BoundEpoch = 3
  BoundFaults = 2
INVARIANT TemporaryGoes
PROPERTY ReleaseSparesOthers
CHECK_DEADLOCK FALSE
SYMMETRY ProcSymmetry
