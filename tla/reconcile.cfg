CONSTANTS
  Invoices = {i1}
  Requests = {q1, q2}
  MaxAttempts = 1
  MaxSends = 1
  MaxHops = 2
  MaxRearm = 3
  Asserted = {"draft", "queued"}
  Faults = {"tx"}
  PendingAckLost = FALSE
  HopCeiling = 3
SPECIFICATION RSpec
INVARIANTS KnownStallIsFlagged 
SYMMETRY RequestSymmetry
