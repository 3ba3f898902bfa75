SPECIFICATION Spec
CONSTANTS
  Absent = Absent
  Garbled = Garbled
  Uploads <- MCUploads
  Readings <- MCReadings
  MaxAttempts = 2
  MaxReruns = 1
  Answers <- MCAnswers
  Priors <- MCPriors
  Required = {"emirates_id", "application_form"}
INVARIANTS
  AllOrNothing
  GatesAgree
  CriticalNeverApproved
  RealIsAsked
PROPERTY StepsRunOut
CHECK_DEADLOCK FALSE
