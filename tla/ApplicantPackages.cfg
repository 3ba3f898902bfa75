SPECIFICATION PackagesSpec
CONSTANTS
  Absent = Absent
  Garbled = Garbled
  WholeDraws <- MCWholeDraws
  AmountDraws <- MCAmountDraws
  MaritalStatuses = {"married"}
  HousingStatuses = {"rented"}
  Nationalities = {"Emirati", "Egypt"}
  Categories <- MCCategories
  ActiveTypes <- MCActiveTypes
  ClosedTypes <- MCClosedTypes
  Positions = {2}
  Seeds <- MCSeeds
  OutputDirs = {"generated_data", "output"}
  Scratch = "output"
  TestDir = "test_applicants"
  MaxBatches = 2
INVARIANTS
  PackagesPassTheirChecks
  OkPackagesAreWhole
CHECK_DEADLOCK FALSE
