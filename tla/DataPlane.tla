------------------------------ MODULE DataPlane ------------------------------
(***************************************************************************)
(* What the tasks of the data plane policies workflow                      *)
(* (data_plane_policies_workflow.go) have in common: the topology, the     *)
(* validators, the effective policies, and the form of a reconciler that   *)
(* keeps one object per gateway.  A task is a function of the topology w   *)
(* and the events E of its pass; it yields a sequence of writes.           *)
(*                                                                         *)
(* A gateway has one listener and a route one rule, so that a path of the  *)
(* topology is a gateway and a route.  The rules of a policy are one, its  *)
(* specification.  The merge of policies is the subject of EffectivePolicy *)
(* and is atomic here.                                                     *)
(***************************************************************************)
EXTENDS Objects, Naturals, Sequences, FiniteSets, SequencesExt

-----------------------------------------------------------------------------
\* The topology.

\* GetKuadrantFromTopology, of one Kuadrant resource at most.
Kuadrant(w) == w.Kuadrant["kuadrant"]

HasKuadrant(w) == Kuadrant(w) # Absent

\* GetAuthorinoFromTopology and GetLimitadorFromTopology: children of the Kuadrant.
Authorino(w) == IF HasKuadrant(w) THEN w.Authorino["authorino"] ELSE Absent

Limitador(w) == IF HasKuadrant(w) THEN w.Limitador["limitador"] ELSE Absent

Routes(w) == Named(w, "HTTPRoute") \cup Named(w, "GRPCRoute")

ClassOf(w, g) == w.Gateway[g].class

GatewaysOf(w, class) == {g \in Named(w, "Gateway") : ClassOf(w, g) = class}

\* A path begins at the class of its gateway, which may be missing.
PathsOver(w, routes) == (Named(w, "Gateway") \ GatewaysOf(w, "none")) \X routes

Paths(w) == PathsOver(w, Routes(w))

RouteReady(w, r) ==
    IF r \in Named(w, "HTTPRoute") THEN w.HTTPRoute[r].ready ELSE w.GRPCRoute[r].ready

PathReady(w, path) == w.Gateway[path[1]].ready /\ RouteReady(w, path[2])

-----------------------------------------------------------------------------
GatewayKinds == {"Kuadrant", "GatewayClass", "Gateway", "HTTPRoute", "GRPCRoute"}

\* dataPlaneEffectivePoliciesEventMatchers
EffectiveEvents(E) ==
    On(E, GatewayKinds \cup {"RateLimitPolicy", "TokenRateLimitPolicy", "Limitador",
                             "AuthPolicy", "AuthConfig", "EnvoyFilter", "EnvoyPatchPolicy",
                             "EnvoyExtensionPolicy"})

ValidatorEventsOf(E, kind, routes) ==
    On(E, {"Gateway"} \cup routes) \/ OnType(E, kind, {"create", "update"})

-----------------------------------------------------------------------------
(***************************************************************************)
(* The validators.  Their verdict holds for the pass; in a pass without    *)
(* validation the Accepted condition of the policy's status stands in,     *)
(* whose reason is lost, and a policy without the condition counts as      *)
(* neither accepted nor refused.                                           *)
(***************************************************************************)
Targeted(w, p) == p.target \in Named(w, "Gateway") \cup Routes(w)

\* isMissingDependency: what is installed is found out once, when the operator boots.
Installed(w) == w.Installed["crds"]

GatewayProviders == {"istio", "envoygateway"}

MissingDependency(w, operator) ==
    ~({"gatewayapi", operator} \subseteq Installed(w)) \/ Installed(w) \cap GatewayProviders = {}

OperatorOf(kind) == IF kind = "AuthPolicy" THEN "authorino" ELSE "limitador"

Verdict(w, kind, p) ==
    IF MissingDependency(w, OperatorOf(kind)) THEN "MissingDependency"
    ELSE IF Targeted(w, p) THEN "true" ELSE "TargetNotFound"

\* Faulty: without validation in the pass a policy counts as not accepted.
AcceptedStatusForgets(w, kind, validated, p) ==
    IF validated THEN Verdict(w, kind, p) ELSE "Unknown"

\* AuthPolicyValidator.Validate and authPolicyAcceptedStatusFunc, and the same of the
\* other kinds.
AcceptedStatus(w, kind, validated, p) ==
    IF validated THEN Verdict(w, kind, p)
    ELSE IF p.accepted \in {"true", "none"} THEN p.accepted ELSE "Unknown"

AuthValidated(E) == ValidatorEventsOf(E, "AuthPolicy", {"HTTPRoute", "GRPCRoute"})

RateLimitValidated(E) == ValidatorEventsOf(E, "RateLimitPolicy", {"HTTPRoute", "GRPCRoute"})

TokenValidated(E) == ValidatorEventsOf(E, "TokenRateLimitPolicy", {"HTTPRoute"})

AcceptedOf(w, kind, validated) ==
    {n \in Named(w, kind) : AcceptedStatus(w, kind, validated, w[kind][n]) = "true"}

AcceptedAuthPolicies(w, E) == AcceptedOf(w, "AuthPolicy", AuthValidated(E))

AcceptedRateLimitPolicies(w, E) == AcceptedOf(w, "RateLimitPolicy", RateLimitValidated(E))

AcceptedTokenRateLimitPolicies(w, E) ==
    AcceptedOf(w, "TokenRateLimitPolicy", TokenValidated(E))

-----------------------------------------------------------------------------
(***************************************************************************)
(* The effective policies of a kind: from a path to the policy that wins   *)
(* there.  The policy of a route replaces the one of its gateway unless    *)
(* that one overrides.                                                     *)
(***************************************************************************)
InPath(w, kind, n, path) == w[kind][n].target \in {path[1], path[2]}

Governing(w, kind, policies, path) ==
    LET At(t) == {n \in policies : w[kind][n].target = t}
        winners == {n \in At(path[1]) : w[kind][n].override} IN
    IF winners # {} THEN winners
    ELSE IF At(path[2]) # {} THEN At(path[2]) ELSE At(path[1])

EffectivePolicies(w, kind, policies, paths) ==
    [path \in {q \in paths : Governing(w, kind, policies, q) # {}} |->
       CHOOSE n \in Governing(w, kind, policies, path) : TRUE]

\* CalculateEffectiveAuthPolicies
EffectiveAuthPolicies(w, E) ==
    EffectivePolicies(w, "AuthPolicy", AcceptedAuthPolicies(w, E), Paths(w))

\* EffectiveRateLimitPolicyReconciler
EffectiveRateLimitPolicies(w, E) ==
    EffectivePolicies(w, "RateLimitPolicy", AcceptedRateLimitPolicies(w, E), Paths(w))

\* EffectiveTokenRateLimitPolicyReconciler: the rules of HTTP routes alone.
EffectiveTokenRateLimitPolicies(w, E) ==
    EffectivePolicies(w, "TokenRateLimitPolicy", AcceptedTokenRateLimitPolicies(w, E),
                      PathsOver(w, Named(w, "HTTPRoute")))

\* The reconcilers of effective policies put them into the state of the pass if they run,
\* and find a Kuadrant resource.
HasEffective(w, E) == HasKuadrant(w) /\ EffectiveEvents(E)

GatewaysIn(paths) == {path[1] : path \in paths}

-----------------------------------------------------------------------------
\* Writes to different objects, in some order.
InTurn(set) == SetToSeq(set)

\* EnvoyFilter resources have no status; the others wait for their controller.
NewObject(kind, config) ==
    IF kind = "EnvoyFilter" THEN [config |-> config] ELSE [config |-> config, programmed |-> FALSE]

(***************************************************************************)
(* The reconcilers that keep, for each of some gateways, one object of a   *)
(* kind: desired gives their configurations.  Objects of the component     *)
(* that are not desired are stale.  Failures are recorded.                 *)
(***************************************************************************)
ReconcilePerGateway(w, kind, component, desired) ==
    LET Old(g) == w[kind][<<component, g>>]
        created == {g \in DOMAIN desired : Old(g) = Absent}
        changed == {g \in DOMAIN desired \ created : Old(g).config # desired[g]}
        stale == {n \in Named(w, kind) : n[1] = component /\ n[2] \notin DOMAIN desired} IN
    InTurn({Write("create", kind, <<component, g>>, NewObject(kind, desired[g]), "retry")
              : g \in created}
           \cup {Write("update", kind, <<component, g>>, [Old(g) EXCEPT !.config = desired[g]],
                       "retry") : g \in changed})
    \o InTurn({Delete(kind, n, "retry") : n \in stale})

\* The gateways that the reconciler signals as modified: those it creates an object for.
Modified(w, kind, component, desired) ==
    {g \in DOMAIN desired : w[kind][<<component, g>>] = Absent}

\* gatewayComponentsToSyncWithName
ToSyncByName(w, kind, component, g, modified) ==
    g \in modified \/ w[kind][<<component, g>>] = Absent

\* gatewayComponentsToSync: some object of the kind that the gateway has, whatever its
\* component, is to have the condition; first is the component that is found first.
ToSync(w, kind, g, modified, first) ==
    LET found == {n \in Named(w, kind) : n[2] = g}
        obj == IF <<first, g>> \in found THEN <<first, g>> ELSE CHOOSE n \in found : TRUE IN
    g \in modified \/ found = {} \/ ~w[kind][obj].programmed

\* UpdateStatus of one policy.  No error counts as accepted in the condition, and a policy
\* that nobody has validated has none.
PolicyStatus(w, kind, n, validated, enforced) ==
    LET verdict == AcceptedStatus(w, kind, validated, w[kind][n]) IN
    [w[kind][n] EXCEPT !.accepted = IF verdict = "none" THEN "true" ELSE verdict,
                       !.enforced = IF verdict = "true" THEN enforced ELSE "none"]

\* The paths of policy n that are ready and have an effective policy.
ReadyPaths(w, kind, n, eff) == {path \in DOMAIN eff : InPath(w, kind, n, path) /\ PathReady(w, path)}

\* The configuration of a gateway that is to be in place: its cluster and its wasm filter.
GatewayInSync(w, component, g, clusters, wasm, first) ==
    CASE ClassOf(w, g) = "istio" ->
           /\ ~ToSyncByName(w, "EnvoyFilter", component, g, clusters)
           /\ ~ToSyncByName(w, "EnvoyFilter", "wasm", g, wasm)
      [] ClassOf(w, g) = "envoygateway" ->
           /\ ~ToSync(w, "EnvoyPatchPolicy", g, clusters, first)
           /\ ~ToSync(w, "EnvoyExtensionPolicy", g, wasm, "wasm")
      [] OTHER -> FALSE

=============================================================================
