SPECIFICATION Spec
CONSTANTS
  Absent = Absent
  Garbled = Garbled
  Missing = Missing
  Files <- MCFiles
  Validations <- MCValidations
  ModelAnswers = {399, 701}
  Unresolved <- MCUnresolved
  DecisionAnswers <- MCDecisionAnswers
INVARIANTS
  DeclineIsFirm
  ApprovalIsAccounted
  CardShowsTheRow
  AdviceIsFollowed
CHECK_DEADLOCK FALSE
