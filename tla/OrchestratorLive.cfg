SPECIFICATION AnsweredSpec
CONSTANTS
  Paths = {"id.png", "bank.pdf"}
  DocTypes = {"emirates_id", "bank_statement", "assets_liabilities"}
  TypeOf <- MCTypeOf
  Categories = {"divorced", "unknown_parentage"}
  Required <- MCRequired
  Decisions = {"approved", "soft_decline"}
  MaxFiles = 2
  MaxCrashes = 0
PROPERTIES EveryCallEnds ProcessingConcludes
