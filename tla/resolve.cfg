CONSTANTS
  Invoices = {i1}
  Requests = {q1}
  MaxAttempts = 2
  MaxSends = 2
  MaxHops = 2
  MaxRearm = 0
  Asserted = {"draft"}
  Faults = {}
  PendingAckLost = FALSE
SPECIFICATION FairSpec
PROPERTIES InFlightResolves
