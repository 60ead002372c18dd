------------------------------ MODULE AuthPlane ------------------------------
(***************************************************************************)
(* AuthPolicies in the data plane: the AuthConfigs that Authorino reads,   *)
(* the clusters that let gateways reach Authorino, and the status of the   *)
(* policies.                                                               *)
(***************************************************************************)
EXTENDS DataPlane

(***************************************************************************)
(* AuthConfigsReconciler: one AuthConfig per path that an AuthPolicy       *)
(* governs.  The object's spec is that of the policy.                      *)
(***************************************************************************)
\* Faulty: no subscription to the policies.
AuthConfigEventsNoPolicy(E) == On(E, GatewayKinds \cup {"AuthConfig"})

AuthConfigEvents(E) == On(E, GatewayKinds \cup {"AuthPolicy", "AuthConfig"})

AuthConfigsRun(w, E) == AuthConfigEvents(E) /\ Authorino(w) # Absent /\ HasEffective(w, E)

desiredAuthConfigs(w, E) ==
    LET eff == EffectiveAuthPolicies(w, E) IN
    [path \in DOMAIN eff |-> w.AuthPolicy[eff[path]].spec]

\* reconcileAuthConfigForPath, of a path whose AuthConfig is not up to date.
reconcileAuthConfigForPath(w, path, spec) ==
    LET old == w.AuthConfig[path] IN
    IF old = Absent
      THEN Write("create", "AuthConfig", path, [spec |-> spec, ready |-> FALSE], "retry")
      ELSE Write("update", "AuthConfig", path, [old EXCEPT !.spec = spec], "retry")

modifiedAuthConfigs(w, E) ==
    IF ~AuthConfigsRun(w, E) THEN {}
    ELSE LET desired == desiredAuthConfigs(w, E) IN
         {path \in DOMAIN desired : \/ w.AuthConfig[path] = Absent
                                    \/ w.AuthConfig[path].spec # desired[path]}

ReconcileAuthConfigs(w, E) ==
    IF ~AuthConfigsRun(w, E) THEN <<>>
    ELSE LET desired == desiredAuthConfigs(w, E) IN
         InTurn({reconcileAuthConfigForPath(w, path, desired[path])
                   : path \in modifiedAuthConfigs(w, E)})
         \o InTurn({Delete("AuthConfig", path, "retry")
                      : path \in Named(w, "AuthConfig") \ DOMAIN desired})

-----------------------------------------------------------------------------
\* The gateways of a class on whose paths there is an effective AuthPolicy.
AuthGateways(w, E, class) ==
    GatewaysIn(DOMAIN EffectiveAuthPolicies(w, E)) \cap GatewaysOf(w, class)

\* The cluster that leads to Authorino, with or without a TLS transport socket.
AuthCluster(w, mtls) == [port |-> Authorino(w).port, mtls |-> mtls]

\* IstioAuthClusterReconciler.Reconcile
IstioAuthClusterRuns(w, E) ==
    On(E, GatewayKinds \cup {"AuthPolicy", "EnvoyFilter"})
    /\ Authorino(w) # Absent /\ HasEffective(w, E)

\* Faulty: the transport of the cluster does not follow the Kuadrant resource.
IstioAuthClustersPlain(w, E) ==
    [g \in AuthGateways(w, E, "istio") |-> AuthCluster(w, FALSE)]

IstioAuthClusters(w, E) ==
    [g \in AuthGateways(w, E, "istio") |-> AuthCluster(w, "authorino" \in Kuadrant(w).mtls)]

ReconcileIstioAuthClusters(w, E) ==
    IF IstioAuthClusterRuns(w, E)
      THEN ReconcilePerGateway(w, "EnvoyFilter", "auth", IstioAuthClusters(w, E)) ELSE <<>>

\* EnvoyGatewayAuthClusterReconciler.Reconcile: no mTLS.
EnvoyGatewayAuthClusterRuns(w, E) ==
    On(E, GatewayKinds \cup {"AuthPolicy", "EnvoyPatchPolicy"})
    /\ Authorino(w) # Absent /\ HasEffective(w, E)

EnvoyGatewayAuthClusters(w, E) ==
    [g \in AuthGateways(w, E, "envoygateway") |-> AuthCluster(w, FALSE)]

ReconcileEnvoyGatewayAuthClusters(w, E) ==
    IF EnvoyGatewayAuthClusterRuns(w, E)
      THEN ReconcilePerGateway(w, "EnvoyPatchPolicy", "auth", EnvoyGatewayAuthClusters(w, E))
      ELSE <<>>

AuthClustersModified(w, E) ==
    (IF IstioAuthClusterRuns(w, E)
       THEN Modified(w, "EnvoyFilter", "auth", IstioAuthClusters(w, E)) ELSE {})
    \cup (IF EnvoyGatewayAuthClusterRuns(w, E)
       THEN Modified(w, "EnvoyPatchPolicy", "auth", EnvoyGatewayAuthClusters(w, E)) ELSE {})

-----------------------------------------------------------------------------
(***************************************************************************)
(* AuthPolicyStatusUpdater.                                                *)
(***************************************************************************)
AuthStatusEvents(E) ==
    On(E, GatewayKinds \cup {"AuthPolicy", "AuthConfig", "EnvoyFilter", "EnvoyPatchPolicy",
                             "EnvoyExtensionPolicy"})

\* What is to be in place on the paths that a policy affects; wasm gives the gateways whose
\* wasm filter the pass creates.
AuthInSync(w, E, affected, wasm, first) ==
    /\ Authorino(w).ready
    /\ \A path \in affected : /\ w.AuthConfig[path] # Absent
                              /\ path \notin modifiedAuthConfigs(w, E)
                              /\ w.AuthConfig[path].ready
    /\ \A g \in GatewaysIn(affected) :
         GatewayInSync(w, "auth", g, AuthClustersModified(w, E), wasm, first)

\* enforcedCondition, of an accepted policy
AuthEnforced(w, E, n, wasm, first) ==
    LET eff == EffectiveAuthPolicies(w, E)
        paths == ReadyPaths(w, "AuthPolicy", n, eff)
        affected == {path \in paths : eff[path] = n} IN
    IF ~HasKuadrant(w) THEN "SystemResource"
    ELSE IF ~HasEffective(w, E) THEN "Unknown"
    ELSE IF affected = {} THEN IF paths = {} THEN "NoRoutes" ELSE "Overridden"
    ELSE IF Authorino(w) = Absent THEN "SystemResource"
    ELSE IF ~AuthInSync(w, E, affected, wasm, first) THEN "OutOfSync"
    ELSE IF affected = paths THEN "true" ELSE "partial"

\* The status is written even if it has not changed: a pointer is compared with a value.
UpdateAuthStatuses(w, E, wasm, first) ==
    IF AuthStatusEvents(E)
      THEN InTurn({Write("update", "AuthPolicy", n,
                         PolicyStatus(w, "AuthPolicy", n, AuthValidated(E),
                                      AuthEnforced(w, E, n, wasm, first)), "retry")
                     : n \in Named(w, "AuthPolicy")})
      ELSE <<>>

=============================================================================
