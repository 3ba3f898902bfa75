SPECIFICATION Spec
CONSTANTS
  Paths = {"id.png", "bank.pdf", "assets.xlsx"}
  DocTypes = {"emirates_id", "bank_statement", "assets_liabilities"}
  TypeOf <- MCTypeOf
  Categories = {"divorced", "unknown_parentage"}
  Required <- MCRequired
  Decisions = {"approved", "soft_decline"}
  MaxFiles = 3
  MaxCrashes = 1
INVARIANTS TypeOK PhasesAreEarned ClientNotAhead
PROPERTIES FollowsTheFlow CallsRunOut
