---------------------------- MODULE MCDataPlane ----------------------------
(***************************************************************************)
(* Scenarios of the data plane for TLC.  The scenario is a constant of the *)
(* world, as is what the operator finds installed.                         *)
(***************************************************************************)
EXTENDS DataPlaneWorld, TLC

\* A policy or a route that a user deletes and creates again is a new object.
Policy(target, spec) ==
    [target |-> target, spec |-> spec, override |-> FALSE, accepted |-> "none", enforced |-> "none",
     uid |-> 1]

Again(obj) == [obj EXCEPT !.uid = 2]

Limit(rate) == [rate |-> rate, uses |-> "nothing"]

Using(what, limit) == [limit EXCEPT !.uses = what]

NewRoute == [ready |-> TRUE, uid |-> 1]

NewGateway(class) == [class |-> class, ready |-> TRUE]

ReadyAuthorino == [NewAuthorino("none") EXCEPT !.ready = TRUE]

ReadyLimitador == [NewLimitador("none") EXCEPT !.ready = TRUE, !.service = TRUE]

Components == {"auth", "ratelimit", "tracing", "upstream"}

AbsentAll(names) == [n \in names |-> Absent]

\* A cluster of gateways and routes with a Kuadrant resource, and no policies.
Cluster(scenario, installed, gateways, routes) ==
    LET Per(provider, components) ==
          AbsentAll(IF provider \in installed THEN components \X DOMAIN gateways ELSE {}) IN
    [Scenario |-> [scenario |-> scenario],
     Installed |-> [crds |-> {"gatewayapi", "limitador", "authorino"} \cup installed,
                   operands |-> "kept"],
     Kuadrant |-> [kuadrant |-> [mtls |-> {}, tracing |-> "none", mode |-> "Optimistic",
                                 ready |-> "none", mtlsStatus |-> {}]],
     Authorino |-> [authorino |-> ReadyAuthorino],
     Limitador |-> [limitador |-> ReadyLimitador],
     Deployment |-> [deployment |-> [sidecar |-> FALSE]],
     AuthorinoDeployment |-> [deployment |-> [sidecar |-> FALSE]],
     GatewayClass |-> [class |-> "class"],
     Gateway |-> gateways,
     HTTPRoute |-> [r \in routes |-> NewRoute],
     GRPCRoute |-> [r \in {} |-> Absent],
     AuthPolicy |-> [pg |-> Absent, pr |-> Absent],
     RateLimitPolicy |-> [lr |-> Absent],
     TokenRateLimitPolicy |-> [tg |-> Absent],
     AuthConfig |-> AbsentAll((DOMAIN gateways) \X routes),
     EnvoyFilter |-> Per("istio", Components \cup {"wasm"}),
     EnvoyPatchPolicy |-> Per("envoygateway", Components),
     EnvoyExtensionPolicy |-> Per("envoygateway", {"wasm"}),
     PeerAuthentication |-> [default |-> Absent],
     Extension |-> [ext |-> Absent]]

Istio(scenario) == Cluster(scenario, {"istio"}, [g |-> NewGateway("istio")], {"r"})

EnvoyGateway(scenario) ==
    Cluster(scenario, {"envoygateway"}, [g |-> NewGateway("envoygateway")], {"r"})

GatewayPolicy == Policy("g", "s1")

Auth == Set(Istio("auth"), "AuthPolicy", "pg", GatewayPolicy)

Limits ==
    Set(Set(EnvoyGateway("limits"), "RateLimitPolicy", "lr", Policy("r", Limit(1))),
        "TokenRateLimitPolicy", "tg", Policy("g", Limit(2)))

\* The operator makes the operands itself.
Cold ==
    [Set(Istio("cold"), "RateLimitPolicy", "lr", Policy("r", Limit(1)))
       EXCEPT !.Installed["operands"] = "late", !.Authorino = [authorino |-> Absent], !.Limitador = [limitador |-> Absent],
              !.Deployment = [deployment |-> Absent], !.AuthorinoDeployment = [deployment |-> Absent]]

\* Mutual TLS between the gateways and the operands.
Mesh ==
    [Set(Set(Set(Istio("mesh"), "AuthPolicy", "pg", GatewayPolicy),
             "RateLimitPolicy", "lr", Policy("r", Using("counters", Limit(1)))),
         "TokenRateLimitPolicy", "tg", Policy("g", Limit(2)))
       EXCEPT !.Kuadrant["kuadrant"].mtls = {"authorino", "limitador"}]

\* Gateways of both classes, extensions and tracing.
Mixed ==
    Set(Cluster("mixed", {"istio", "envoygateway"},
                [g |-> NewGateway("istio"), h |-> NewGateway("envoygateway")], {"r"}),
        "AuthPolicy", "pr", Policy("r", "s2"))

Registered(target, upstream, pipeline) ==
    [target |-> target, upstream |-> upstream, pipeline |-> pipeline]

\* A gateway whose class is not there yet.
Classless ==
    Set(Cluster("classless", {"istio", "envoygateway"}, [g |-> NewGateway("none")], {"r"}),
        "Extension", "ext", Registered("g", TRUE, TRUE))

MCStart == {Auth, Limits, Cold, Mesh, Mixed, Classless}

Toggle(w, kind, n, obj) == Set(w, kind, n, IF w[kind][n] = Absent THEN Again(obj) ELSE Absent)

Deleted(w, kind) == {Set(w, kind, n, Absent) : n \in Named(w, kind)}

\* A field of an object, if it is there.
Edited(w, kind, n, f, v) ==
    IF w[kind][n] = Absent THEN {} ELSE {[w EXCEPT ![kind][n][f] = v]}

EditsOf(w, scenario) ==
    CASE scenario = "auth" ->
           {Toggle(w, "AuthPolicy", "pg", GatewayPolicy), Toggle(w, "AuthPolicy", "pr", Policy("r", "s2")),
            Toggle(w, "HTTPRoute", "r", NewRoute)}
           \cup Edited(w, "AuthPolicy", "pg", "override", TRUE)
           \cup Deleted(w, "AuthConfig") \cup Deleted(w, "EnvoyFilter")
      [] scenario = "limits" ->
           {Toggle(w, "TokenRateLimitPolicy", "tg", Policy("g", Limit(2)))}
           \cup Edited(w, "RateLimitPolicy", "lr", "spec", Using("predicates", Limit(1)))
           \cup Edited(w, "Kuadrant", "kuadrant", "mode", "Reservation")
           \cup Edited(w, "Limitador", "limitador", "limits", {})
           \cup Deleted(w, "EnvoyPatchPolicy")
      [] scenario = "cold" ->
           Deleted(w, "Gateway") \cup Deleted(w, "Kuadrant")
      [] scenario = "mesh" ->
           {Toggle(w, "AuthPolicy", "pg", GatewayPolicy)}
           \cup Deleted(w, "RateLimitPolicy") \cup Deleted(w, "TokenRateLimitPolicy")
           \cup Edited(w, "Kuadrant", "kuadrant", "mtls", {})
           \cup Edited(w, "Kuadrant", "kuadrant", "mtls", {"authorino"})
      [] scenario = "mixed" ->
           {Set(w, "Extension", "ext", Registered("g", TRUE, TRUE)),
            Set(w, "Extension", "ext", Registered("r", FALSE, TRUE)),
            Toggle(w, "AuthPolicy", "pr", Policy("r", "s2"))}
           \cup Deleted(w, "Extension")
           \cup Edited(w, "Kuadrant", "kuadrant", "tracing", "plain")
      [] scenario = "classless" ->
           Edited(w, "Gateway", "g", "class", "istio") \cup Deleted(w, "Extension")

\* The scenarios with the longest passes get one change.
MCMaxChanges(w) == IF w.Scenario["scenario"] \in {"cold", "mesh", "mixed", "classless"} THEN 1 ELSE 2

MCEdits(w) == EditsOf(w, w.Scenario["scenario"]) \ {w}

=============================================================================
