CONSTANTS
    Policies <- MCPolicies
    Levels <- MCLevels
    RuleIDs = {r1, r2}
    ProperRules = {r1, r2}
    Paths <- MCPaths
    Pipelines <- MCPipelines
    Listeners <- MCListeners
    GatewayRoutes <- MCGatewayRoutes
    Requests <- MCRequests
SPECIFICATION MCSpec
INVARIANT MethodServed
CHECK_DEADLOCK FALSE
