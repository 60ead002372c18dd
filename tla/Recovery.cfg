SPECIFICATION MCSpec
CONSTANTS
    r1 = r1
    r2 = r2
    filter1 = filter1
    filter2 = filter2
    gateway = gateway
    Reconcilers = {r1, r2}
    Kinds = {filter1, filter2, gateway}
    Watches <- MCWatches
    Owns <- MCOwns
    Specs = {v1, v2}
    Absent = Absent
    maxRetryAttempts = 5
    MaxChanges = 3
    Components = {"dns-operator", "mcp-gateway"}
    Charts <- MCCharts
    Migrations <- MCCharts
    Kuadrants = {k}
    MaxFaults = 2
INVARIANTS
    TrackedIsRetried
    RetryReachesFailed
    ResourcesKept
    BootstrapComplete
    ControlPlaneShown
CHECK_DEADLOCK FALSE
