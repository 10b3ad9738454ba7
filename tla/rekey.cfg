CONSTANTS
  Invoices = {i1}
  Requests = {q1, q2}
  MaxAttempts = 1
  MaxSends = 2
  MaxHops = 1
  MaxRearm = 0
  Asserted = {"draft", "queued"}
  Faults = {"crash", "tx"}
  PendingAckLost = FALSE
SPECIFICATION Spec
INVARIANTS ClearedOnce OneDriver
PROPERTIES AcknowledgedNotSentAgain ImplementsLifecycle
SYMMETRY RequestSymmetry
