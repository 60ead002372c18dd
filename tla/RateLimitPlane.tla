--------------------------- MODULE RateLimitPlane ---------------------------
(***************************************************************************)
(* RateLimitPolicies and TokenRateLimitPolicies in the data plane: the     *)
(* limits of the Limitador resource, the clusters that let gateways reach  *)
(* Limitador, and the status of the policies.                              *)
(***************************************************************************)
EXTENDS DataPlane

(***************************************************************************)
(* LimitadorLimitsReconciler.  A limit has the namespace of its route and  *)
(* is named after its policy, so that the policy of a gateway has one per  *)
(* route.                                                                  *)
(***************************************************************************)
\* Faulty: no subscription to Limitador.
LimitsRunNoLimitador(w, E) ==
    /\ On(E, GatewayKinds \cup {"RateLimitPolicy", "TokenRateLimitPolicy"})
    /\ Limitador(w) # Absent

LimitsRun(w, E) ==
    /\ On(E, GatewayKinds \cup {"RateLimitPolicy", "TokenRateLimitPolicy", "Limitador"})
    /\ Limitador(w) # Absent

\* processPolicyRules, of every path of the effective policies of a kind.
LimitsOfKind(w, kind, eff) ==
    {<<path[2], kind, eff[path], w[kind][eff[path]].spec.rate>> : path \in DOMAIN eff}

buildLimitadorLimits(w, E) ==
    LimitsOfKind(w, "RateLimitPolicy", EffectiveRateLimitPolicies(w, E))
    \cup LimitsOfKind(w, "TokenRateLimitPolicy", EffectiveTokenRateLimitPolicies(w, E))

LimitsModified(w, E) ==
    LimitsRun(w, E) /\ Limitador(w).limits # buildLimitadorLimits(w, E)

ReconcileLimits(w, E) ==
    IF LimitsModified(w, E)
      THEN <<Write("update", "Limitador", "limitador",
                   [Limitador(w) EXCEPT !.limits = buildLimitadorLimits(w, E)], "retry")>>
      ELSE <<>>

-----------------------------------------------------------------------------
RateLimitGateways(w, E, class) ==
    GatewaysIn(DOMAIN EffectiveRateLimitPolicies(w, E)
               \cup DOMAIN EffectiveTokenRateLimitPolicies(w, E)) \cap GatewaysOf(w, class)

\* The cluster that leads to Limitador.  It cannot be built while the status of the
\* resource does not tell the service.
RateLimitClusters(w, E, class, mtls) ==
    [g \in {h \in RateLimitGateways(w, E, class) : Limitador(w).service} |-> [mtls |-> mtls]]

\* IstioRateLimitClusterReconciler.Reconcile
IstioRateLimitClusterRuns(w, E) ==
    /\ On(E, GatewayKinds \cup {"RateLimitPolicy", "TokenRateLimitPolicy", "EnvoyFilter"})
    /\ Limitador(w) # Absent

IstioRateLimitClusters(w, E) ==
    RateLimitClusters(w, E, "istio", "limitador" \in Kuadrant(w).mtls)

ReconcileIstioRateLimitClusters(w, E) ==
    IF IstioRateLimitClusterRuns(w, E)
      THEN ReconcilePerGateway(w, "EnvoyFilter", "ratelimit", IstioRateLimitClusters(w, E))
      ELSE <<>>

\* EnvoyGatewayRateLimitClusterReconciler.Reconcile
EnvoyGatewayRateLimitClusterRuns(w, E) ==
    /\ On(E, GatewayKinds \cup {"RateLimitPolicy", "TokenRateLimitPolicy", "EnvoyPatchPolicy"})
    /\ Limitador(w) # Absent

EnvoyGatewayRateLimitClusters(w, E) == RateLimitClusters(w, E, "envoygateway", FALSE)

ReconcileEnvoyGatewayRateLimitClusters(w, E) ==
    IF EnvoyGatewayRateLimitClusterRuns(w, E)
      THEN ReconcilePerGateway(w, "EnvoyPatchPolicy", "ratelimit",
                               EnvoyGatewayRateLimitClusters(w, E))
      ELSE <<>>

RateLimitClustersModified(w, E) ==
    (IF IstioRateLimitClusterRuns(w, E)
       THEN Modified(w, "EnvoyFilter", "ratelimit", IstioRateLimitClusters(w, E)) ELSE {})
    \cup (IF EnvoyGatewayRateLimitClusterRuns(w, E)
       THEN Modified(w, "EnvoyPatchPolicy", "ratelimit", EnvoyGatewayRateLimitClusters(w, E))
       ELSE {})

-----------------------------------------------------------------------------
LimitsInSync(w, E, affected, wasm, first) ==
    /\ ~LimitsModified(w, E) /\ Limitador(w).ready
    /\ \A g \in GatewaysIn(affected) :
         GatewayInSync(w, "ratelimit", g, RateLimitClustersModified(w, E), wasm, first)

\* What the two status updaters share; disabled tells that Limitador does not take part
\* in the mode the Kuadrant resource asks for, wasm and issues are what the extension
\* reconcilers have left in the state.
LimitsEnforced(w, E, kind, eff, n, disabled, wasm, issues, first) ==
    LET paths == ReadyPaths(w, kind, n, eff)
        affected == {path \in paths : eff[path] = n}
        modified == LimitsModified(w, E) IN
    IF ~HasKuadrant(w) THEN "SystemResource"
    ELSE IF ~HasEffective(w, E) THEN "Unknown"
    ELSE IF affected = {} THEN IF paths = {} THEN "NoRoutes" ELSE "Overridden"
    ELSE IF ~modified /\ Limitador(w) = Absent THEN "SystemResource"
    ELSE IF ~modified /\ disabled THEN "ReservationsDisabled"
    ELSE IF \E path \in DOMAIN eff : InPath(w, kind, n, path) /\ <<kind, path>> \in issues
      THEN "CelValidation"
    ELSE IF ~LimitsInSync(w, E, affected, wasm, first) THEN "OutOfSync"
    ELSE IF affected = paths THEN "true" ELSE "partial"

\* Faulty: no subscription to the configuration of the gateways.
RateLimitStatusEventsNoGateways(E) == On(E, GatewayKinds \cup {"RateLimitPolicy", "Limitador"})

\* RateLimitPolicyStatusUpdater
RateLimitStatusEvents(E) ==
    On(E, GatewayKinds \cup {"RateLimitPolicy", "Limitador", "EnvoyFilter",
                             "EnvoyPatchPolicy", "EnvoyExtensionPolicy"})

RateLimitEnforced(w, E, n, wasm, issues, first) ==
    LimitsEnforced(w, E, "RateLimitPolicy", EffectiveRateLimitPolicies(w, E), n, FALSE, wasm, issues, first)

UpdateRateLimitStatuses(w, E, wasm, issues, first) ==
    IF RateLimitStatusEvents(E)
      THEN InTurn({Write("update", "RateLimitPolicy", n,
                         PolicyStatus(w, "RateLimitPolicy", n, RateLimitValidated(E),
                                      RateLimitEnforced(w, E, n, wasm, issues, first)), "retry")
                     : n \in Named(w, "RateLimitPolicy")})
      ELSE <<>>

\* TokenRateLimitPolicyStatusUpdater: no GRPCRoute events, and a failure is only logged.
TokenStatusEvents(E) ==
    On(E, (GatewayKinds \ {"GRPCRoute"}) \cup
          {"TokenRateLimitPolicy", "Limitador", "EnvoyFilter", "EnvoyPatchPolicy",
           "EnvoyExtensionPolicy"})

TokenEnforced(w, E, n, wasm, issues, first) ==
    LimitsEnforced(w, E, "TokenRateLimitPolicy", EffectiveTokenRateLimitPolicies(w, E), n,
                   Kuadrant(w).mode = "Reservation" /\ ~Limitador(w).reservations, wasm, issues, first)

UpdateTokenStatuses(w, E, wasm, issues, first) ==
    IF TokenStatusEvents(E)
      THEN InTurn({Write("update", "TokenRateLimitPolicy", n,
                         PolicyStatus(w, "TokenRateLimitPolicy", n, TokenValidated(E),
                                      TokenEnforced(w, E, n, wasm, issues, first)), "log")
                     : n \in Named(w, "TokenRateLimitPolicy")})
      ELSE <<>>

=============================================================================
