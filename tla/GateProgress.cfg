SPECIFICATION FairSpec
CONSTANTS
  r1 = r1
  r2 = r2
  c1 = c1
  c2 = c2
  NoRequest = NoRequest
  Requests <- OneRequest
  Clients <- TwoClients
  Enabled = {"rule", "timeout", "giveUp", "stop", "budget", "exit", "recycle", "disconnect"}
  MaxTurns = 2
PROPERTIES TimedRequestEnds StopReleasesPending
CHECK_DEADLOCK FALSE
