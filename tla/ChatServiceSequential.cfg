SPECIFICATION Spec
CONSTANTS
  Requests = {r1}
  Streaming = TRUE
  WritesFail = TRUE
  MaxCalls = 5
  MaxCrashes = 2
  MaxExpiries = 0
  Paths = {"id.png", "resume.pdf"}
  MaxFiles = 2
  DocTypes = {"emirates_id", "resume"}
  TypeOf <- MCTypeOf
  Categories = {"divorced", "health_disability"}
  Required <- MCRequired
  Decisions = {"approved"}
CHECK_DEADLOCK FALSE
INVARIANTS PhasesAreEarned EnablementHasDecision UploadsAreKept
PROPERTY AnsweredCallsAgree
