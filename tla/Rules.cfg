SPECIFICATION Spec
CONSTANTS
  own = own
  parent = parent
  None = None
  Place <- MCPlace
  Hosts <- MCHosts
  Calls <- MCCalls
  Words <- MCWords
  Agents <- TwoAgents
  Chain <- OwnUnderParent
  PermSets <- MCPermSets
  ToolLists <- MCToolLists
  Setups <- MCSetups
  Workspaces = {"project", "unknown"}
  ParentMode = None
  MaxSends = 2
  MaxEvents = 1
INVARIANTS HardDenyAbsolute SilentRunsFitTheirMessage MoreIsNeverSafer
PROPERTIES TurnKeepsItsMode
CHECK_DEADLOCK FALSE
