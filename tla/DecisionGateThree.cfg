SPECIFICATION Spec
CONSTANTS
  Absent = Absent
  Garbled = Garbled
  Missing = Missing
  Files <- MCFiles
  Validations <- MCValidations
  ModelAnswers = {}
  Unresolved <- MCUnresolved
  DecisionAnswers <- MCDecisionAnswers
INVARIANT ConsistentFilePassesGateThree
CHECK_DEADLOCK FALSE
