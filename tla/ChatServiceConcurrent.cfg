SPECIFICATION Spec
CONSTANTS
  Requests = {r1, r2}
  Streaming = TRUE
  WritesFail = FALSE
  MaxCalls = 3
  MaxCrashes = 0
  MaxExpiries = 1
  Paths = {"id.png"}
  MaxFiles = 1
  DocTypes = {"emirates_id", "resume"}
  TypeOf <- MCTypeOf
  Categories = {"divorced", "health_disability"}
  Required <- MCRequired
  Decisions = {"approved"}
CHECK_DEADLOCK FALSE
SYMMETRY RequestSymmetry
INVARIANTS EnablementHasDecision
