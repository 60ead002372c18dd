---------------------------- MODULE GatewayPlane ----------------------------
(***************************************************************************)
(* The reconcilers of the gateway extension: the wasm configuration of the *)
(* gateways, the clusters of upstreams that extensions have registered,    *)
(* and the clusters of the tracing collector.  What an extension has       *)
(* registered is the pseudo-resource Extension: the target of its policy,  *)
(* and whether there are upstreams and pipeline actions.                   *)
(***************************************************************************)
EXTENDS AuthPlane, RateLimitPlane

Extension(w) == w.Extension["ext"]

\* collectRouteTargetRefs: a gateway, and the routes that are attached to it.
TargetRefs(w, g) == {g} \cup Routes(w)

\* hasRelevantPipelineActions
HasPipelineForTarget(w, g) ==
    Extension(w) # Absent /\ Extension(w).pipeline /\ Extension(w).target \in TargetRefs(w, g)

\* GetRegisteredUpstreamsByTargetRef and CollectRouteUpstreams
HasUpstreams(w, g) ==
    Extension(w) # Absent /\ Extension(w).upstream /\ Extension(w).target \in TargetRefs(w, g)

-----------------------------------------------------------------------------
\* buildWasmConfigs: the actions of a path, in the order in which a request meets them.
Action(service, policy, sequential) ==
    [service |-> service, policy |-> policy, sequential |-> sequential]

\* Limits that do not look at what authentication found come before it, and one by one.
Placed(actions, services, policy, usesAuth, hasAuth) ==
    LET new == [i \in DOMAIN services |-> Action(services[i], policy, hasAuth /\ ~usesAuth)] IN
    IF usesAuth THEN actions \o new ELSE new \o actions

\* HasAuthAccess: in predicates or in what a counter is about.
UsesAuth(w, kind, n) == w[kind][n].spec.uses # "nothing"

\* ValidateWasmActionSpec: predicates can speak of "auth" where an AuthPolicy comes before,
\* and counters are not validated.
ValidSpec(w, kind, n, hasAuth) == w[kind][n].spec.uses = "predicates" => hasAuth

WithLimits(w, E, path, actions, hasAuth) ==
    LET eff == EffectiveRateLimitPolicies(w, E) IN
    IF path \notin DOMAIN eff \/ ~ValidSpec(w, "RateLimitPolicy", eff[path], hasAuth) THEN actions
    ELSE Placed(actions, <<"ratelimit">>, eff[path],
                UsesAuth(w, "RateLimitPolicy", eff[path]), hasAuth)

\* GetTokenRateLimitingMode
TokenServices(w) ==
    IF Kuadrant(w).mode = "Reservation" THEN <<"reserve", "commit">> ELSE <<"check", "report">>

WithTokenLimits(w, E, path, actions, hasAuth) ==
    LET eff == EffectiveTokenRateLimitPolicies(w, E) IN
    IF path \notin DOMAIN eff \/ ~ValidSpec(w, "TokenRateLimitPolicy", eff[path], hasAuth) THEN actions
    ELSE Placed(actions, TokenServices(w), eff[path],
                UsesAuth(w, "TokenRateLimitPolicy", eff[path]), hasAuth)

ActionsOfPath(w, E, path) ==
    LET eff == EffectiveAuthPolicies(w, E)
        hasAuth == path \in DOMAIN eff
        auth == IF hasAuth THEN <<Action("auth", eff[path], FALSE)>> ELSE <<>> IN
    WithTokenLimits(w, E, path, WithLimits(w, E, path, auth, hasAuth), hasAuth)

\* The action sets of a gateway, from its routes.  Without effective policies in the state
\* there are none.
ActionSets(w, E, class, g) ==
    IF ~HasEffective(w, E) \/ ClassOf(w, g) # class THEN <<>>
    ELSE [r \in {q \in Routes(w) : ActionsOfPath(w, E, <<g, q>>) # <<>>} |->
            ActionsOfPath(w, E, <<g, r>>)]

-----------------------------------------------------------------------------
(***************************************************************************)
(* ApplyWasmConfigMutators.  Where there are no action sets, every route   *)
(* of the gateway gets an empty one to hold pipeline actions; otherwise    *)
(* only a route that the policy names.                                     *)
(***************************************************************************)
Skeletons(w, g, sets) ==
    IF ~HasPipelineForTarget(w, g) THEN {}
    ELSE IF DOMAIN sets = {} THEN Routes(w)
    ELSE {Extension(w).target} \cap Routes(w)

Mutated(w, g, sets) ==
    LET target == Extension(w).target
        Reached(r) == HasPipelineForTarget(w, g) /\ (target \notin Routes(w) \/ r = target)
        Base(r) == IF r \in DOMAIN sets THEN sets[r] ELSE <<>>
        Full(r) == IF Reached(r) THEN Base(r) \o <<Action("extension", "ext", FALSE)>> ELSE Base(r)
    IN [r \in {q \in DOMAIN sets \cup Skeletons(w, g, sets) : Full(q) # <<>>} |-> Full(r)]

\* The issues that buildWasmConfigs finds: the kind of a policy that is not valid on a path.
InvalidSpecs(w, E, class) ==
    LET Of(kind, eff) ==
          {<<kind, path>> : path \in
             {q \in DOMAIN eff : /\ ClassOf(w, q[1]) = class
                                /\ ~ValidSpec(w, kind, eff[q], q \in DOMAIN EffectiveAuthPolicies(w, E))}}
    IN Of("RateLimitPolicy", EffectiveRateLimitPolicies(w, E))
       \cup Of("TokenRateLimitPolicy", EffectiveTokenRateLimitPolicies(w, E))

\* The configurations that are not empty.  Every gateway is considered, whatever its class.
WasmConfigs(w, E, class) ==
    LET Sets(g) == Mutated(w, g, ActionSets(w, E, class, g)) IN
    [g \in {h \in Named(w, "Gateway") : DOMAIN Sets(h) # {}} |->
       [sets |-> Sets(g), tracing |-> HasKuadrant(w) /\ Kuadrant(w).tracing # "none"]]

IstioWasmConfigs(w, E) == WasmConfigs(w, E, "istio")

EnvoyGatewayWasmConfigs(w, E) == WasmConfigs(w, E, "envoygateway")

\* An empty configuration means deletion, of the gateways that there are.
ReconcileWasm(w, kind, configs) ==
    LET left == [w EXCEPT ![kind] = [n \in DOMAIN w[kind] |->
                   IF n[2] \in Named(w, "Gateway") THEN w[kind][n] ELSE Absent]] IN
    ReconcilePerGateway(left, kind, "wasm", configs)

\* Faulty: no subscription to token limits.
ExtensionEventsNoTokens(E, kind) ==
    On(E, (GatewayKinds \ {"Kuadrant"}) \cup {"RateLimitPolicy", "AuthPolicy", kind})

ExtensionEvents(E, kind) ==
    On(E, GatewayKinds \cup {"RateLimitPolicy", "TokenRateLimitPolicy", "AuthPolicy", kind})

\* reconcileUpstreamClusters of both providers, which take a gateway without a class for theirs.
UpstreamClusters(w, class) ==
    [g \in {h \in GatewaysOf(w, class) \cup GatewaysOf(w, "none") : HasUpstreams(w, h)} |->
       [target |-> Extension(w).target]]

ReconcileIstioUpstreams(w) ==
    ReconcilePerGateway(w, "EnvoyFilter", "upstream", UpstreamClusters(w, "istio"))

ReconcileEnvoyGatewayUpstreams(w) ==
    ReconcilePerGateway(w, "EnvoyPatchPolicy", "upstream", UpstreamClusters(w, "envoygateway"))

\* IstioExtensionReconciler.Reconcile.  The WasmPlugin that an earlier version of the operator
\* may have left is out of the model: it is deleted along with an update, and nobody reads it.
ReconcileIstioExtension(w, E) ==
    IF ExtensionEvents(E, "EnvoyFilter")
      THEN ReconcileIstioUpstreams(w) \o ReconcileWasm(w, "EnvoyFilter", IstioWasmConfigs(w, E))
      ELSE <<>>

\* EnvoyGatewayExtensionReconciler.Reconcile
ReconcileEnvoyGatewayExtension(w, E) ==
    IF ExtensionEvents(E, "EnvoyExtensionPolicy")
      THEN ReconcileEnvoyGatewayUpstreams(w)
           \o ReconcileWasm(w, "EnvoyExtensionPolicy", EnvoyGatewayWasmConfigs(w, E))
      ELSE <<>>

\* What the extension reconcilers leave in the state of the pass for the status updaters:
\* the gateways that they create a configuration for, and the issues.
IstioExtensionRuns(w, E) == "istio" \in Installed(w) /\ ExtensionEvents(E, "EnvoyFilter")

EnvoyGatewayExtensionRuns(w, E) ==
    "envoygateway" \in Installed(w) /\ ExtensionEvents(E, "EnvoyExtensionPolicy")

\* StateIstioExtensionsModified and StateEnvoyGatewayExtensionsModified
WasmModified(w, E) ==
    (IF IstioExtensionRuns(w, E)
       THEN Modified(w, "EnvoyFilter", "wasm", IstioWasmConfigs(w, E)) ELSE {})
    \cup (IF EnvoyGatewayExtensionRuns(w, E)
       THEN Modified(w, "EnvoyExtensionPolicy", "wasm", EnvoyGatewayWasmConfigs(w, E)) ELSE {})

\* StateCELValidationErrors: one entry, that of the reconciler that stores issues last.
CELIssues(w, E, last) ==
    LET istio == IF IstioExtensionRuns(w, E) THEN InvalidSpecs(w, E, "istio") ELSE {}
        envoygateway ==
          IF EnvoyGatewayExtensionRuns(w, E) THEN InvalidSpecs(w, E, "envoygateway") ELSE {} IN
    IF istio = {} \/ (last = "envoygateway" /\ envoygateway # {}) THEN envoygateway ELSE istio

-----------------------------------------------------------------------------
\* targetIsInEffectivePolicyPath
InEffectivePolicyPath(w, E, g) ==
    \/ HasEffective(w, E) /\ g \in GatewaysIn(DOMAIN EffectiveAuthPolicies(w, E)
                                   \cup DOMAIN EffectiveRateLimitPolicies(w, E)
                                   \cup DOMAIN EffectiveTokenRateLimitPolicies(w, E))
    \/ HasPipelineForTarget(w, g)

\* parseTracingEndpoint: an endpoint without a host gives no cluster.
TracingClusters(w, E, class) ==
    [g \in {h \in GatewaysOf(w, class) : /\ Kuadrant(w).tracing \notin {"none", "bad"}
                                         /\ InEffectivePolicyPath(w, E, h)} |->
       [endpoint |-> Kuadrant(w).tracing]]

\* IstioTracingClusterReconciler.Reconcile and EnvoyGatewayTracingClusterReconciler.Reconcile
ReconcileTracing(w, E, class, kind) ==
    IF On(E, {"Kuadrant", "GatewayClass", "Gateway", kind}) /\ HasKuadrant(w)
      THEN ReconcilePerGateway(w, kind, "tracing", TracingClusters(w, E, class)) ELSE <<>>

ReconcileIstioTracing(w, E) == ReconcileTracing(w, E, "istio", "EnvoyFilter")

ReconcileEnvoyGatewayTracing(w, E) == ReconcileTracing(w, E, "envoygateway", "EnvoyPatchPolicy")

=============================================================================
