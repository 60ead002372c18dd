CONSTANTS
    Policies <- MCPolicies
    Levels <- MCLevels
    RuleIDs = {r1, r2}
    ProperRules = {r1, r2}
    Paths <- MCPaths
    Pipelines <- MCPipelines
    Listeners <- MCListeners
    GatewayRoutes <- MCGatewayRoutes
    Requests <- MCRequests
SPECIFICATION MCSpec
INVARIANTS RulesFollowPrecedence OverridesWin
    DataReady RefusedBeforeAuth LimitsCounted ReservationsSettled PipelineKept
    OneOrder MostSpecificServed
CHECK_DEADLOCK FALSE
