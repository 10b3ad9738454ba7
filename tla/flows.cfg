CONSTANTS
  Clients = {c1, c2}
  Sheets = 2
  Documents = 2
  MaxVer = 3
  MaxOpen = 2
  Own = {"save", "accept", "revalidate", "approve", "reject", "submit", "again", "resolve", "undo"}
SPECIFICATION Spec
INVARIANTS TypeOK ToTheirClient OneClientShown OneOperation ShowsOwnWrites OwnEditFlagged
PROPERTIES ProgressEnds NeverGoesBack WatchedSettles
CHECK_DEADLOCK FALSE
