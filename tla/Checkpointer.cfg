SPECIFICATION Spec
CONSTANTS
  Threads = {"t1"}
  Runs = {"r1", "r2"}
  MaxCheckpoints = 2
  MaxFaults = 2
INVARIANTS TypeOK StoreIsSound OnlyFirstCallersConnect
PROPERTIES FreshIsUntouched OldGoes
