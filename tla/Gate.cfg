SPECIFICATION Spec
CONSTANTS
  r1 = r1
  r2 = r2
  c1 = c1
  c2 = c2
  NoRequest = NoRequest
  Requests <- TwoRequests
  Clients <- OneClient
  Enabled = {"timeout", "giveUp", "stop", "exit", "recycle", "disconnect"}
  MaxTurns = 2
SYMMETRY Symmetry
INVARIANTS TypeOK AllowNeedsConsent TimeoutDenies
CHECK_DEADLOCK FALSE
