CONSTANTS
  Absent = Absent
  Start <- MCStart
  Edits <- MCEdits
  Responses <- PlatformResponses
  Plans <- PlatformPasses
  Filtered <- PlatformUnnoticed
  MaxChanges <- MCMaxChanges
  MaxTopology = 8
SPECIFICATION WorldSpec
INVARIANTS MonitorsMatch GatewaysAdmitted ConsolePluginMatches StateShown
PROPERTIES BackendProtected PlatformSettles
CHECK_DEADLOCK FALSE
