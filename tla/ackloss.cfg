CONSTANTS
  Invoices = {i1}
  Requests = {q1}
  MaxAttempts = 2
  MaxSends = 2
  MaxHops = 1
  MaxRearm = 0
  Asserted = {}
  Faults = {"crash", "tx"}
  PendingAckLost = TRUE
SPECIFICATION Spec
INVARIANTS TicketMeansPastSubmit
