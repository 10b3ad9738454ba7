CONSTANTS
  Count = 3
  Already = {3}
  PageSize = 2
  Views = {"all", "ready"}
  MaxChanges = 1
SPECIFICATION Spec
INVARIANTS ShownIsFiltered
CHECK_DEADLOCK FALSE
