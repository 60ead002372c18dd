--------------------------- MODULE DataPlaneWorld ---------------------------
(***************************************************************************)
(* The data plane policies and the operands in a cluster: the passes of    *)
(* StateOfTheWorld with the tasks of Workflow, among the controllers of    *)
(* Authorino, Limitador, Istio, Envoy Gateway and the garbage collector.   *)
(***************************************************************************)
EXTENDS StateOfTheWorld, Workflow

\* Plans and Filtered of StateOfTheWorld.
DataPlanePlans(w, E) == PassPlans(w, E)

Unnoticed(kind, old, new) ==
    kind \notin Watched(Installed(world)) \/ StatusOnly(kind, old, new)

-----------------------------------------------------------------------------
\* The other controllers.

Set(w, kind, n, obj) == [w EXCEPT ![kind][n] = obj]

\* The Authorino and the Limitador operator deploy an instance and report on it; Authorino
\* reports on the AuthConfigs.
OperatorResponses(w) ==
    {[w EXCEPT !.Authorino[n].ready = TRUE, !.AuthorinoDeployment["deployment"] = [sidecar |-> FALSE]]
       : n \in {m \in Named(w, "Authorino") : ~w.Authorino[m].ready}}
    \cup {[w EXCEPT !.Limitador[n].ready = TRUE, !.Limitador[n].service = TRUE,
                    !.Deployment["deployment"] = [sidecar |-> FALSE]]
       : n \in {m \in Named(w, "Limitador") : ~w.Limitador[m].ready}}
    \cup {[w EXCEPT !.AuthConfig[n].ready = TRUE]
       : n \in {m \in Named(w, "AuthConfig") : ~w.AuthConfig[m].ready}}

\* Envoy Gateway programs all that it is given, at once.
ProgrammedResponses(w) ==
    LET kinds == {"EnvoyPatchPolicy", "EnvoyExtensionPolicy"}
        Programmed(kind) == [n \in DOMAIN w[kind] |->
          IF w[kind][n] = Absent THEN Absent ELSE [w[kind][n] EXCEPT !.programmed = TRUE]]
        all == [k \in DOMAIN w |-> IF k \in kinds THEN Programmed(k) ELSE w[k]] IN
    {all} \ {w}

\* The objects of a gateway go with it, and the operands with the Kuadrant resource.
Orphans(w) ==
    UNION {{<<kind, n>> : n \in {m \in Named(w, kind) : w.Gateway[m[2]] = Absent}}
             : kind \in {"EnvoyFilter", "EnvoyPatchPolicy", "EnvoyExtensionPolicy"}}
    \cup UNION {{<<kind, n>> : n \in {m \in Named(w, kind) : ~HasKuadrant(w)}}
             : kind \in {"Authorino", "Limitador", "PeerAuthentication"}}
    \cup {<<"Deployment", n>> : n \in {m \in Named(w, "Deployment") : Named(w, "Limitador") = {}}}
    \cup {<<"AuthorinoDeployment", n>>
             : n \in {m \in Named(w, "AuthorinoDeployment") : Named(w, "Authorino") = {}}}

Collected(w) ==
    IF Orphans(w) = {} THEN {}
    ELSE {[k \in DOMAIN w |-> [n \in DOMAIN w[k] |-> IF <<k, n>> \in Orphans(w) THEN Absent ELSE w[k][n]]]}

Controllers(w) == OperatorResponses(w) \cup ProgrammedResponses(w) \cup Collected(w)

-----------------------------------------------------------------------------
\* What there is to say of a cluster at rest, when no write was given up on the way.

Settled == AtRest /\ lost = {}

\* The operands have been there, and ready, all the time.  The tasks that depend on an
\* operand do not all subscribe to it.
Kept == world.Installed["operands"] = "kept"

\* The policy of a kind that is to govern a path, whatever the statuses say; none if {}.
Due(kind, path) ==
    IF path \in Paths(world) /\ (kind = "TokenRateLimitPolicy" => path[2] \in Named(world, "HTTPRoute"))
      THEN Governing(world, kind, Named(world, kind), path) ELSE {}

\* Authorino is told of the policy that governs each path and of no other: one AuthConfig
\* per gateway and route, with the specification of that policy (AuthConfigsReconciler),
\* whichever of the policies, the gateway, the route or the AuthConfigs have come, gone or
\* changed on the way, and whichever events led to the passes.  This is so where Authorino
\* was there all the time: the reconciler does nothing without it and does not subscribe to
\* it, so that AuthConfigs may be missing after an Authorino that comes late.
AuthConfigsMatch ==
    Settled /\ Kept =>
      \A path \in DOMAIN world.AuthConfig :
        LET obj == world.AuthConfig[path] IN
        IF Due("AuthPolicy", path) = {} THEN obj = Absent
        ELSE obj # Absent /\ \E n \in Due("AuthPolicy", path) : obj.spec = world.AuthPolicy[n].spec

\* The actions of a request on a path, as the configuration in the cluster gives them.
KindOfExtension(g) == IF ClassOf(world, g) = "istio" THEN "EnvoyFilter" ELSE "EnvoyExtensionPolicy"

ConfiguredActions(path) ==
    LET obj == world[KindOfExtension(path[1])][<<"wasm", path[1]>>] IN
    IF obj = Absent \/ path[2] \notin DOMAIN obj.config.sets THEN <<>> ELSE obj.config.sets[path[2]]

\* The policies of Due that the gateways can evaluate: predicates that speak of "auth" need
\* an AuthPolicy on the path.
Usable(kind, path) ==
    {n \in Due(kind, path) : world[kind][n].spec.uses = "predicates" => Due("AuthPolicy", path) # {}}

\* The gateways apply the policies that govern each path and no others: the configuration
\* of the wasm filter has the actions of these policies, in the mode that the Kuadrant
\* resource asks for (buildWasmConfigs of both extension reconcilers).
WasmMatches ==
    Settled /\ HasKuadrant(world) =>
      \A path \in Paths(world) :
        LET actions == ConfiguredActions(path)
            Of(service) == {actions[i].policy : i \in {j \in DOMAIN actions : actions[j].service = service}}
            mode == IF Kuadrant(world).mode = "Reservation" THEN "reserve" ELSE "check" IN
        /\ Of("auth") = Due("AuthPolicy", path)
        /\ Of("ratelimit") = Usable("RateLimitPolicy", path)
        /\ Of(mode) = Usable("TokenRateLimitPolicy", path)

\* Limitador has the limits of the policies that govern the paths and no others
\* (LimitadorLimitsReconciler), although the reconciler of its deployment applies the same
\* resource in the same pass.
LimitsMatch ==
    Settled /\ Limitador(world) # Absent =>
      Limitador(world).limits =
        UNION {UNION {{<<path[2], kind, n, world[kind][n].spec.rate>> : n \in Due(kind, path)}
                        : path \in Paths(world)} : kind \in {"RateLimitPolicy", "TokenRateLimitPolicy"}}

\* A gateway reaches Authorino where a policy asks for it, by the transport that the
\* Kuadrant resource asks for, and not where none does.
ClusterOf(component, g) ==
    world[IF ClassOf(world, g) = "istio" THEN "EnvoyFilter" ELSE "EnvoyPatchPolicy"][<<component, g>>]

AuthReachable ==
    Settled /\ Kept =>
      \A g \in Named(world, "Gateway") :
        LET asked == \E r \in Routes(world) : Due("AuthPolicy", <<g, r>>) # {}
            mtls == ClassOf(world, g) = "istio" /\ "authorino" \in Kuadrant(world).mtls IN
        IF asked THEN ClusterOf("auth", g) # Absent /\ ClusterOf("auth", g).config.mtls = mtls
                 ELSE ClusterOf("auth", g) = Absent

RateLimitClusterDue(g) ==
    \E r \in Routes(world) : Due("RateLimitPolicy", <<g, r>>) \cup Due("TokenRateLimitPolicy", <<g, r>>) # {}

\* The same of Limitador, whose cluster needs the service that the status of the resource
\* tells (both rate limit cluster reconcilers).
RateLimitReachable ==
    Settled /\ Kept =>
      \A g \in Named(world, "Gateway") : (ClusterOf("ratelimit", g) # Absent) = RateLimitClusterDue(g)

\* What a path needs for an AuthPolicy to be enforced there.
AuthInPlace(path) ==
    /\ world.AuthConfig[path] # Absent /\ world.AuthConfig[path].ready
    /\ ClusterOf("auth", path[1]) # Absent
    /\ \E i \in DOMAIN ConfiguredActions(path) : ConfiguredActions(path)[i].service = "auth"

\* The Enforced condition of an AuthPolicy tells whether it is in force: true exactly if
\* all is in place on the ready paths that it governs, and it governs some.
AuthStatusCurrent ==
    Settled /\ Kept =>
      \A n \in Named(world, "AuthPolicy") :
        LET paths == {path \in Paths(world) : n \in Due("AuthPolicy", path) /\ PathReady(world, path)} IN
        (world.AuthPolicy[n].enforced \in {"true", "partial"})
          <=> (paths # {} /\ \A path \in paths : AuthInPlace(path))

\* The same of the policies that limit, whose services are in the configuration of the
\* gateways.
LimitInPlace(kind, n, path) ==
    /\ ClusterOf("ratelimit", path[1]) # Absent
    /\ \E i \in DOMAIN ConfiguredActions(path) :
         LET action == ConfiguredActions(path)[i] IN
         action.policy = n /\ (action.service = "ratelimit") = (kind = "RateLimitPolicy")

LimitStatusRight(kind, n) ==
    LET paths == {path \in Paths(world) : n \in Due(kind, path) /\ PathReady(world, path)} IN
    (world[kind][n].enforced \in {"true", "partial"})
       <=> (paths # {} /\ \A path \in paths : LimitInPlace(kind, n, path))

\* Its Enforced condition tells whether a limit that the gateways can evaluate is in force.
LimitStatusCurrent ==
    Settled /\ Kept =>
      \A kind \in {"RateLimitPolicy", "TokenRateLimitPolicy"} : \A n \in Named(world, kind) :
        (\A path \in Paths(world) : n \in Due(kind, path) => n \in Usable(kind, path))
          => LimitStatusRight(kind, n)

\* Gateways, operands and mesh agree on mutual TLS: exactly the operands have a sidecar for
\* which it is enabled and that some AuthPolicy or RateLimitPolicy needs, the mesh demands it
\* (PeerAuthentication) exactly if there is one, and a gateway uses it only where a sidecar
\* answers.  TokenRateLimitPolicies alone are the exception: they make the clusters of the
\* gateways, mutual TLS included, and neither the sidecar of Limitador nor the
\* PeerAuthentication.
Sidecars ==
    {c \in {"authorino", "limitador"} :
       LET kind == IF c = "authorino" THEN "AuthorinoDeployment" ELSE "Deployment" IN
       \E n \in Named(world, kind) : world[kind][n].sidecar}

UsesMTLS(component) ==
    \E g \in GatewaysOf(world, "istio") :
      ClusterOf(component, g) # Absent /\ ClusterOf(component, g).config.mtls

MeshAgrees ==
    Settled /\ Kept =>
      /\ Sidecars = {c \in Kuadrant(world).mtls :
                       \E path \in Paths(world) :
                         Due(IF c = "authorino" THEN "AuthPolicy" ELSE "RateLimitPolicy", path) # {}}
      /\ (Named(world, "PeerAuthentication") # {}) = (Sidecars # {})
      /\ UsesMTLS("auth") => "authorino" \in Sidecars
      /\ UsesMTLS("ratelimit") =>
            \/ "limitador" \in Sidecars
            \/ \A path \in Paths(world) : Due("RateLimitPolicy", path) = {}

\* The status of the Kuadrant resource tells whether the operands are ready.
KuadrantStatusCurrent ==
    Settled /\ HasKuadrant(world) =>
      (Kuadrant(world).ready = "Ready") =
         (/\ Named(world, "Limitador") # {} /\ Limitador(world).ready
          /\ Named(world, "Authorino") # {} /\ Authorino(world).ready)

\* Once the operator has settled, the gateways reach exactly the services that policies ask
\* for, by a transport that the services and the mesh expect, with the exceptions told there:
\* AuthReachable, RateLimitReachable and MeshAgrees.
ServicesReachable == AuthReachable /\ RateLimitReachable /\ MeshAgrees

\* Once the operator has settled, every status tells how things are: AuthStatusCurrent,
\* LimitStatusCurrent and KuadrantStatusCurrent.
StatusCurrent == AuthStatusCurrent /\ LimitStatusCurrent /\ KuadrantStatusCurrent

\* A pass takes an AuthConfig away only when no policy that is known to be accepted governs
\* its path in the topology of the pass, also a pass that does not validate the policies:
\* requests are not left unprotected in between.
NoFlapping ==
    [][\A path \in DOMAIN world.AuthConfig :
         (plan' # plan /\ world.AuthConfig[path] # Absent /\ world'.AuthConfig[path] = Absent) =>
           \/ path \notin Paths(topology)
           \/ \A n \in Named(topology, "AuthPolicy") :
                InPath(topology, "AuthPolicy", n, path) => topology.AuthPolicy[n].accepted # "true"]_worldVars

=============================================================================
