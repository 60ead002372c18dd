CONSTANTS
  Absent = Absent
  Start <- MCStart
  Edits <- MCEdits
  Responses <- Controllers
  Plans <- DataPlanePlans
  Filtered <- Unnoticed
  MaxChanges <- MCMaxChanges
SPECIFICATION WorldSpec
INVARIANTS AuthConfigsMatch WasmMatches LimitsMatch ServicesReachable StatusCurrent
PROPERTIES NoFlapping WorldSettles
CHECK_DEADLOCK FALSE
