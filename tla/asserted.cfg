CONSTANTS
  Invoices = {i1}
  Requests = {q1, q2}
  MaxAttempts = 1
  MaxSends = 1
  MaxHops = 1
  MaxRearm = 0
  Asserted = {"rejected"}
  Faults = {"tx"}
  PendingAckLost = FALSE
SPECIFICATION Spec
INVARIANTS IrnIsEarned
PROPERTIES AcceptedIsForever
SYMMETRY RequestSymmetry
