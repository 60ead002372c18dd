----------------------------- MODULE MCPlatform -----------------------------
(***************************************************************************)
(* Scenarios of the platform tasks for TLC, each with the objects that its *)
(* tasks are about.                                                        *)
(***************************************************************************)
EXTENDS PlatformWorld, TLC

NoneOf(names) == [n \in names |-> Absent]

Nothing == NoneOf({})

NewGateway(class, ns) == [class |-> class, ns |-> ns, ready |-> TRUE, affected |-> <<>>]

NewRoute(gateways) == [ready |-> TRUE, affected |-> [g \in gateways |-> <<>>]]

NewPolicy(target) == [target |-> target, spec |-> "s", override |-> FALSE, accepted |-> "none", enforced |-> "none"]

NewKuadrant(observability) == [observability |-> observability, tracing |-> "none", mtls |-> {}]

Operands == {"authorino", "limitador"}

\* A cluster in which a Kuadrant resource has just been created, by an Istio gateway.
Platform(scenario, installed) ==
    [Scenario |-> [scenario |-> scenario, versionChanged |-> FALSE],
     Installed |-> [crds |-> {"gatewayapi", "istio", "limitador", "authorino"} \cup installed,
                    imageOverride |-> "none"],
     Kuadrant |-> [kuadrant |-> NewKuadrant(FALSE)],
     Authorino |-> [authorino |-> Absent],
     Limitador |-> [limitador |-> Absent],
     Deployment |-> NoneOf(Operands),
     NetworkPolicy |-> NoneOf({"kuadrant-authorino", "kuadrant-limitador"}),
     GatewayClass |-> [istio |-> "class", envoygateway |-> "class"],
     Gateway |-> [g |-> NewGateway("istio", "a"), h |-> Absent],
     HTTPRoute |-> Nothing, GRPCRoute |-> Nothing,
     AuthPolicy |-> Nothing, AuthConfig |-> Nothing,
     EnvoyFilter |-> NoneOf({"auth", "wasm"} \X {"g", "h"}),
     ServiceMonitor |-> Nothing, PodMonitor |-> Nothing,
     ConfigMap |-> [topology |-> Absent],
     ClusterVersion |-> [version |-> Absent],
     ConsoleNetworkPolicy |-> [console |-> Absent], Service |-> [console |-> Absent],
     PluginDeployment |-> [console |-> Absent], ConsolePlugin |-> [console |-> Absent],
     LegacyConfigMap |-> [console |-> Absent]]

\* A cluster without the operators of Authorino and Limitador.
WithoutOperands(w) ==
    [w EXCEPT !.Installed["crds"] = @ \ Operands]

Operators == {RootDeployment, "dns-operator"}

\* The operands are deployed; the dns operator lacks the port that its policy is for.
Network ==
    [Platform("network", {}) EXCEPT
       !.Authorino["authorino"] = [NewAuthorino("none") EXCEPT !.ready = TRUE],
       !.Limitador["limitador"] = [NewLimitador("none") EXCEPT !.ready = TRUE],
       !.Deployment = [d \in Operands \cup Operators |-> [ports |-> d # "dns-operator"]],
       !.NetworkPolicy = NoneOf(DOMAIN @ \cup Operators)]

\* Authorino is deployed while the operator is running.
Cold ==
    [Platform("cold", {}) EXCEPT
       !.Installed["crds"] = @ \ {"limitador"},
       !.Deployment = [d \in Operands \cup {RootDeployment} |-> IF d \in Operands THEN Absent ELSE [ports |-> TRUE]],
       !.NetworkPolicy = NoneOf(DOMAIN @ \cup {RootDeployment})]

Monitors ==
    [WithoutOperands(Platform("monitors", {"prometheus"})) EXCEPT
       !.Kuadrant["kuadrant"].observability = TRUE,
       !.ServiceMonitor = NoneOf({"kuadrant-operator", "authorino"}),
       !.PodMonitor = NoneOf({LimitadorMonitor, <<"istio", "a">>, <<"envoygateway", "b">>})]

Console ==
    [WithoutOperands(Platform("console", {"consoleplugin"})) EXCEPT
       !.Kuadrant = [kuadrant |-> Absent], !.ClusterVersion["version"] = "v1",
       !.LegacyConfigMap["console"] = "nginx"]

\* A version of OpenShift for which there is no image.
Unsupported == [Console EXCEPT !.ClusterVersion["version"] = "unsupported"]

\* An operator started with an image, where there is no version.
Overridden ==
    [Console EXCEPT !.Scenario["scenario"] = "overridden", !.Installed["imageOverride"] = "image",
                    !.ClusterVersion["version"] = Absent]

\* Policies of both gateways of a route.
Discover ==
    LET gateways == {"g", "h"} IN
    [WithoutOperands(Platform("discover", {})) EXCEPT
       !.Installed["crds"] = @ \cup {"authorino"},
       !.Kuadrant = [kuadrant |-> Absent],
       !.Gateway["h"] = NewGateway("istio", "a"),
       !.HTTPRoute = [r |-> NewRoute(gateways)],
       !.AuthPolicy = [pg |-> NewPolicy("g"), ph |-> NewPolicy("h"), pr |-> Absent],
       !.AuthConfig = NoneOf(gateways \X {"r"})]

MCStart == {Network, Cold, Monitors, Console, Unsupported, Overridden, Discover}

-----------------------------------------------------------------------------
Put(w, kind, n, obj) == [w EXCEPT ![kind][n] = obj]

Toggled(w, kind, n, obj) == Put(w, kind, n, IF w[kind][n] = Absent THEN obj ELSE Absent)

Removed(w, kind) == {Put(w, kind, n, Absent) : n \in Named(w, kind)}

Changed(w, kind, n, f, v) == IF w[kind][n] = Absent THEN {} ELSE {[w EXCEPT ![kind][n][f] = v]}

EditsOf(w, scenario) ==
    CASE scenario = "network" ->
           {Toggled(w, "Gateway", "g", NewGateway("istio", "a")),
            Toggled(w, "Gateway", "h", NewGateway("istio", "b"))}
           \cup Removed(w, "NetworkPolicy")
           \cup Changed(w, "Authorino", "authorino", "port", "user")
      [] scenario = "cold" ->
           {Toggled(w, "Gateway", "h", NewGateway("istio", "b")),
            Toggled(w, "Kuadrant", "kuadrant", NewKuadrant(FALSE))}
      [] scenario = "monitors" ->
           {Toggled(w, "Gateway", "g", NewGateway("istio", "a")),
            Toggled(w, "Gateway", "h", NewGateway("envoygateway", "b")),
            Toggled(w, "Kuadrant", "kuadrant", NewKuadrant(TRUE)),
            Toggled(w, "GatewayClass", "istio", "class")}
           \cup Changed(w, "Kuadrant", "kuadrant", "observability", FALSE)
           \cup Removed(w, "PodMonitor")
           \cup UNION {Changed(w, "PodMonitor", m, "changed", TRUE) : m \in DOMAIN w.PodMonitor}
      [] scenario \in {"console", "overridden"} ->
           Removed(w, "ConfigMap") \cup Removed(w, "ConsoleNetworkPolicy") \cup Removed(w, "ConsolePlugin")
           \cup {[Put(w, "ClusterVersion", "version", v) EXCEPT !.Scenario["versionChanged"] = TRUE]
                   : v \in {"v1", "v2", Absent} \ {w.ClusterVersion["version"]}}
      [] scenario = "discover" ->
           {Toggled(w, "AuthPolicy", "pg", NewPolicy("g")), Toggled(w, "AuthPolicy", "pr", NewPolicy("r")),
            Toggled(w, "Gateway", "g", NewGateway("istio", "a")),
            Toggled(w, "HTTPRoute", "r", NewRoute(DOMAIN w.Gateway))}

MCEdits(w) == EditsOf(w, w.Scenario["scenario"]) \ {w}

MCMaxChanges(w) == IF w.Scenario["scenario"] \in {"network", "cold", "overridden"} THEN 2 ELSE 3

=============================================================================
