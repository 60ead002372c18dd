------------------------------ MODULE Workflow ------------------------------
(***************************************************************************)
(* The workflow of the data plane policies and of the operands             *)
(* (data_plane_policies_workflow.go, state_of_the_world.go): which tasks   *)
(* the operator runs and which kinds it watches, by what is installed when *)
(* it boots, and the writes of a pass.                                     *)
(***************************************************************************)
EXTENDS GatewayPlane, OperandPlane

\* The kinds that are watched, and their links in the topology, by the options of the boot.
CoreKinds == {"Kuadrant", "Deployment", "AuthPolicy", "RateLimitPolicy", "TokenRateLimitPolicy"}

GatewayAPIKinds == {"GatewayClass", "Gateway", "HTTPRoute", "GRPCRoute"}

IstioKinds == {"EnvoyFilter", "PeerAuthentication"}

EnvoyGatewayKinds == {"EnvoyPatchPolicy", "EnvoyExtensionPolicy"}

LimitadorKinds == {"Limitador"}

AuthorinoKinds == {"Authorino", "AuthConfig"}

\* The registrations of extensions, which ask for a pass through the Kuadrant resource.
ExtensionKinds == {"Extension"}

\* BootOptionsBuilder.getOptions
Watched(installed) ==
    UNION {CoreKinds, ExtensionKinds,
           IF "gatewayapi" \in installed THEN GatewayAPIKinds ELSE {},
           IF "istio" \in installed THEN IstioKinds ELSE {},
           IF "envoygateway" \in installed THEN EnvoyGatewayKinds ELSE {},
           IF "limitador" \in installed THEN LimitadorKinds ELSE {},
           IF "authorino" \in installed THEN AuthorinoKinds ELSE {}}

\* getKuadrantWatcherPredicate, and the generation predicates of the policies: an update
\* of the status alone asks for no pass.
SpecOf(kind, obj) ==
    CASE kind = "Kuadrant" -> <<obj.mtls, obj.tracing, obj.mode>>
      [] kind \in {"AuthPolicy", "RateLimitPolicy", "TokenRateLimitPolicy"} ->
           <<obj.target, obj.spec, obj.override>>
      [] OTHER -> obj

StatusOnly(kind, old, new) ==
    old # Absent /\ new # Absent /\ SpecOf(kind, old) = SpecOf(kind, new)

-----------------------------------------------------------------------------
\* NewDataPlanePoliciesWorkflow
IstioTasks(w, E) ==
    <<ReconcileIstioAuthClusters(w, E), ReconcileIstioRateLimitClusters(w, E),
      ReconcileIstioTracing(w, E), ReconcileIstioExtension(w, E)>>

EnvoyGatewayTasks(w, E) ==
    <<ReconcileEnvoyGatewayAuthClusters(w, E), ReconcileEnvoyGatewayRateLimitClusters(w, E),
      ReconcileEnvoyGatewayTracing(w, E), ReconcileEnvoyGatewayExtension(w, E)>>

MeshTasks(w, E) ==
    <<ReconcilePeerAuthentication(w, E), ReconcileLimitadorIntegration(w, E),
      ReconcileAuthorinoIntegration(w, E)>>

If(condition, tasks) == IF condition THEN tasks ELSE <<>>

DataPlaneTasks(w, E) ==
    LET installed == Installed(w) IN
    <<ReconcileAuthConfigs(w, E), ReconcileLimits(w, E)>>
    \o If("istio" \in installed, IstioTasks(w, E))
    \o If("envoygateway" \in installed, EnvoyGatewayTasks(w, E))
    \o If({"istio", "authorino", "limitador"} \subseteq installed, MeshTasks(w, E))

StatusTasks(w, E, first, last) ==
    LET wasm == WasmModified(w, E)
        issues == CELIssues(w, E, last) IN
    <<UpdateAuthStatuses(w, E, wasm, first),
      UpdateRateLimitStatuses(w, E, wasm, issues, first),
      UpdateTokenStatuses(w, E, wasm, issues, first)>>

OperandTasks(w, E) ==
    LET installed == Installed(w) IN
    If("limitador" \in installed, <<ReconcileLimitador(w, E)>>)
    \o If("authorino" \in installed, <<ReconcileAuthorino(w, E)>>)

(***************************************************************************)
(* BootOptionsBuilder.Reconciler.  The tasks of a workflow run             *)
(* concurrently: their writes come in the order of the tasks or in the     *)
(* opposite one, and the operands before or after the policies.            *)
(***************************************************************************)
Passes(w, E) ==
    {FlattenSeq((IF forward THEN OperandTasks(w, E) \o DataPlaneTasks(w, E)
                 ELSE Reverse(DataPlaneTasks(w, E)))
                \o StatusTasks(w, E, first, IF forward THEN "envoygateway" ELSE "istio")
                \o If(~forward, OperandTasks(w, E))
                \o <<UpdateKuadrantStatus(w, E)>>)
       : forward \in BOOLEAN,
         first \in IF "envoygateway" \in Installed(w) THEN {"auth", "ratelimit"} ELSE {"auth"}}

\* A registration by an extension reaches the operator as an update of the Kuadrant resource.
PassEvents(w, E) ==
    IF On(E, ExtensionKinds) /\ HasKuadrant(w) THEN E \cup {<<"Kuadrant", "update">>} ELSE E

PassPlans(w, E) == Passes(w, PassEvents(w, E))

=============================================================================
