SPECIFICATION EntrySpec
CONSTANTS
  Caller = {c1, c2}
  Key <- Files
  NumShards = 2
  StatError = TRUE
  Nobody = Nobody
  MaxCalls = 5
  Object = {o1, o2}
  Null = Null
  Outcome <- Results
  NoOutcome = NoOutcome
  MaxInfos = 3
  Broken = Broken
  MaxOthers = 2
INVARIANTS
  EntryTypeOK
  ResultsAgree
  OneSystemCall
  OneIsNew
PROPERTIES
  ImplementsTestAndSet
  EntriesReturn
CHECK_DEADLOCK FALSE
