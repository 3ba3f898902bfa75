SPECIFICATION Spec
CONSTANTS
  Requests = {r1, r2, r3}
  MaxCalls = 5
  MaxCrashes = 1
CHECK_DEADLOCK FALSE
INVARIANT LateLoginsCreateNone
PROPERTIES LoginsLeaveAnApplication LoginsDoNotGoBack
