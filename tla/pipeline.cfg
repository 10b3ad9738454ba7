CONSTANTS
  Invoices = {i1}
  Requests = {q1}
  MaxAttempts = 2
  MaxSends = 1
  MaxHops = 2
  MaxRearm = 0
  Asserted = {"draft"}
  Faults = {"crash", "tx"}
  PendingAckLost = FALSE
SPECIFICATION FairSpec
INVARIANTS TypeOK RowsAgree OutcomeAuditedOnce
PROPERTIES InFlightIsNotForgotten
