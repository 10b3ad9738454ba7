CONSTANTS
  Count = 3
  Already = {3}
  PageSize = 2
  Views = {"all", "ready"}
  MaxChanges = 1
  Registered = 2
  MaxOthers = 1
  Mine = {1, 2}
  Refused = {3}
  MaxLoads = 2
  MaxTeamWrites = 2
  MaxSeats = 3
  MaxEdits = 1
  MaxSends = 2
  MaxMounts = 2
  MaxRuleWrites = 3
  MaxNodes = 3
  Fields = {1, 2}
  Ambiguous = {2}
  Notes = {2}
  MaxEntries = 2
  MaxVisits = 2
  MaxPosts = 1
  MaxDrafts = 2
  MaxSignIns = 1
  Keys = {1}
  FirstRules = {1}
  MaxTyped = 1
  MaxCalls = 2
  MaxDays = 1
SPECIFICATION Spec
INVARIANTS TypeOK NothingOfferedTwice  
PROPERTIES SendsWhatWasArmed PublishesWhatIsShown PlacedWhereShown
CHECK_DEADLOCK FALSE
