---------------------------- MODULE PlatformPlane ----------------------------
(***************************************************************************)
(* The tasks of a pass that look after the platform rather than after the  *)
(* policies: the topology ConfigMap, the monitors, the network policies of *)
(* the operands and of the operators, the console plugin, and the          *)
(* conditions that tell gateways and routes which policies affect them.    *)
(* As in DataPlane a task is a function of the topology w and the events E *)
(* of its pass, and yields a sequence of writes.  What a task lists comes  *)
(* in the order of the topology, which keeps its items in Go maps: it may  *)
(* be another one each time.                                               *)
(***************************************************************************)
EXTENDS AuthPlane, OperandPlane

CONSTANT MaxTopology  \* the objects that a ConfigMap has room for (maxTopologyBytes)

-----------------------------------------------------------------------------
(***************************************************************************)
(* TopologyReconciler, which comes before all other tasks: the ConfigMap   *)
(* holds the objects of the topology, or a placeholder if they are too     *)
(* many.  Its errors are returned.                                         *)
(***************************************************************************)
\* Objects of the console plugin that nobody watches, and constants of the model.
Unwatched == {"Service", "PluginDeployment", "LegacyConfigMap", "Installed", "Scenario"}

InTopology(w) == {o \in Objects(w) : o[1] \notin Unwatched}

\* topologyData
TopologyData(w) ==
    LET oversized == Cardinality(InTopology(w)) > MaxTopology IN
    [oversized |-> oversized, data |-> IF oversized THEN {} ELSE InTopology(w)]

ReconcileTopology(w) ==
    LET old == w.ConfigMap["topology"]
        shown == TopologyData(w) IN
    IF old = Absent THEN <<Write("create", "ConfigMap", "topology", shown, "abort")>>
    ELSE IF old # shown THEN <<Write("replace", "ConfigMap", "topology", shown, "abort")>>
    ELSE <<>>

-----------------------------------------------------------------------------
(***************************************************************************)
(* ObservabilityReconciler.  A monitor is only ever created or deleted:    *)
(* its fields are those that a user may have changed.  The monitors of the *)
(* operators and of Authorino are ServiceMonitors, named after what they   *)
(* monitor; those of Limitador and of the gateways are PodMonitors, named  *)
(* after what they monitor and their namespace.                            *)
(***************************************************************************)
NewMonitor == [changed |-> FALSE]

OperatorMonitors(w) == (DOMAIN w.ServiceMonitor) \ {"authorino"}

authorinoMonitorBuild == Write("ensure", "ServiceMonitor", "authorino", NewMonitor, "abort")

LimitadorMonitor == <<"limitador", "kuadrant-system">>

limitMonitorBuild == Write("ensure", "PodMonitor", LimitadorMonitor, NewMonitor, "abort")

istioPodMonitorBuild(ns) == <<"istio", ns>>

envoyStatsMonitorBuild(ns) == <<"envoygateway", ns>>

\* wantedPMs: the monitors of the gateways, of the classes that a provider controls.
GatewayMonitors(w) ==
    {LET gateway == w.Gateway[g] IN
     IF gateway.class = "istio" THEN istioPodMonitorBuild(gateway.ns) ELSE envoyStatsMonitorBuild(gateway.ns)
       : g \in {h \in Named(w, "Gateway") :
                  ClassOf(w, h) \in Named(w, "GatewayClass") \cap GatewayProviders}}

\* Faulty: the creation of a PodMonitor leads to a pass, too.
ObservabilityEventsAll(E) ==
    \/ On(E, {"Kuadrant", "Gateway", "PodMonitor"})
    \/ OnType(E, "ServiceMonitor", {"delete"})
    \/ OnType(E, "GatewayClass", {"create", "delete"})

ObservabilityEvents(E) ==
    \/ On(E, {"Kuadrant", "Gateway"})
    \/ \E kind \in {"ServiceMonitor", "PodMonitor"} : OnType(E, kind, {"delete"})
    \/ OnType(E, "GatewayClass", {"create", "delete"})

\* deleteAllMonitors, which stops at the first failure.
deleteAllMonitors(monitors) ==
    InTurn({Write("remove", m[1], m[2], Absent, "stop") : m \in monitors})

MonitorsOf(w, kind) == {kind} \X Named(w, kind)

\* The monitors of the operators, of Limitador and of Authorino, whose failures are returned.
\* Without the API of Prometheus the first one fails.
createMonitors(w) ==
    IF "prometheus" \notin Installed(w) THEN <<Abort("ServiceMonitor", "authorino")>>
    ELSE InTurn({Write("ensure", "ServiceMonitor", m, NewMonitor, "abort") : m \in OperatorMonitors(w)})
         \o <<limitMonitorBuild, authorinoMonitorBuild>>

\* Faulty: the monitors of gateways that are gone stay.
ReconcileMonitorsKeep(w, E) ==
    IF ~ObservabilityEvents(E) THEN <<>>
    ELSE IF ~HasKuadrant(w) \/ ~Kuadrant(w).observability
      THEN deleteAllMonitors(MonitorsOf(w, "ServiceMonitor") \cup MonitorsOf(w, "PodMonitor"))
    ELSE createMonitors(w)
         \o InTurn({Write("ensure", "PodMonitor", m, NewMonitor, "log") : m \in GatewayMonitors(w)})

\* ObservabilityReconciler.Reconcile.  The monitor of Limitador is not among the wanted
\* ones: a pass that finds it deletes it.
ReconcileMonitors(w, E) ==
    IF ~ObservabilityEvents(E) THEN <<>>
    ELSE IF ~HasKuadrant(w) \/ ~Kuadrant(w).observability
      THEN deleteAllMonitors(MonitorsOf(w, "ServiceMonitor") \cup MonitorsOf(w, "PodMonitor"))
    ELSE createMonitors(w)
         \o InTurn({Write("ensure", "PodMonitor", m, NewMonitor, "log") : m \in GatewayMonitors(w)})
         \o deleteAllMonitors({m \in MonitorsOf(w, "PodMonitor") : m[2] \notin GatewayMonitors(w)})

-----------------------------------------------------------------------------
(***************************************************************************)
(* The network policies.  A policy admits traffic from some namespaces, to *)
(* a port; the ports that are open to all namespaces, and the selector of  *)
(* the pods, are left out.  An update is written even if nothing has       *)
(* changed: an empty list of peers is compared with none.  If only the     *)
(* order of the peers has, this is a change of the specification, too.     *)
(***************************************************************************)
\* gatewayNamespacePeers, in any order.
GatewayNamespaces(w) == {w.Gateway[g].ns : g \in Named(w, "Gateway")}

\* mergeNetworkPolicy and writePolicyToCluster.
WritePolicy(w, name, from, port) ==
    LET policy == [from |-> from, port |-> port] IN
    Write(IF w.NetworkPolicy[name] = Absent THEN "create" ELSE "update", "NetworkPolicy", name, policy, "log")

AnyPolicy == {"NetworkPolicy", "ConsoleNetworkPolicy"}

NetworkPolicyEvents(E) ==
    \/ \E kind \in {"Kuadrant", "Gateway"} : OnType(E, kind, {"create", "delete"})
    \/ \E kind \in {"Authorino", "Limitador"} : OnType(E, kind, {"create", "update"})
    \/ On(E, AnyPolicy)

\* hasLinkedDeployment, of the deployment that has the name of the operand.
Deployed(w, instance, name) == instance # Absent /\ w.Deployment[name] # Absent

generateAuthorinoNetworkPolicy(w, peers) ==
    IF Deployed(w, Authorino(w), "authorino")
      THEN <<WritePolicy(w, "kuadrant-authorino", peers["authorino"], Authorino(w).port)>> ELSE <<>>

generateLimitadorNetworkPolicy(w, peers) ==
    IF Deployed(w, Limitador(w), "limitador")
      THEN <<WritePolicy(w, "kuadrant-limitador", peers["limitador"], "default")>> ELSE <<>>

\* NetworkPolicyReconciler.Reconcile
ReconcileNetworkPolicies(w, E, peers) ==
    IF HasKuadrant(w) /\ NetworkPolicyEvents(E)
      THEN generateAuthorinoNetworkPolicy(w, peers) \o generateLimitadorNetworkPolicy(w, peers) ELSE <<>>

RootDeployment == "kuadrant-operator"

\* The deployments that are linked to that of the operator.
OperatorDeployments == {"dns-operator", "authorino-operator", "limitador-operator"}

\* commonOperatorPolicy and kuadrantOperatorPolicy.  Without a port that it looks for the
\* default is taken, and nothing is written.
OperatorPolicy(w, name, peers) ==
    LET from == IF name = RootDeployment THEN peers[name] ELSE <<>> IN
    IF w.Deployment[name].ports THEN <<WritePolicy(w, name, from, "default")>> ELSE <<>>

\* Faulty: no subscription to the network policies.
OperatorPolicyEventsNoPolicy(E) == On(E, {"Deployment"})

OperatorPolicyEvents(E) == On(E, AnyPolicy \cup {"Deployment"})

\* OperatorNetworkPolicyReconciler.Reconcile
ReconcileOperatorPolicies(w, E, peers) ==
    LET deployments == Named(w, "Deployment") IN
    IF RootDeployment \in deployments /\ OperatorPolicyEvents(E)
      THEN FlattenSeq([i \in 1..Cardinality(OperatorDeployments \cap deployments) |->
                         OperatorPolicy(w, InTurn(OperatorDeployments \cap deployments)[i], peers)])
           \o OperatorPolicy(w, RootDeployment, peers)
      ELSE <<>>

-----------------------------------------------------------------------------
(***************************************************************************)
(* ConsolePluginReconciler, where the API of the console is installed: the *)
(* network policy, the service, the deployment and the plugin, in this     *)
(* order, each of them created, updated or deleted; any failure is         *)
(* returned.  The image depends on the version of OpenShift, unless the    *)
(* operator was started with another one.  The task does not subscribe to  *)
(* the version.                                                            *)
(***************************************************************************)
\* Faulty: no subscription to the creation of the ConfigMap.
ConsolePluginEventsNoCreate(E) ==
    On(E, {"ConsolePlugin", "ConsoleNetworkPolicy"}) \/ OnType(E, "ConfigMap", {"delete"})

ConsolePluginEvents(E) ==
    On(E, {"ConsolePlugin", "ConsoleNetworkPolicy"}) \/ OnType(E, "ConfigMap", {"create", "delete"})

imageOverride(w) == w.Installed["imageOverride"]

\* The plugin needs the topology, and an image: consolePluginSupported.
ConsolePluginWanted(w) ==
    /\ w.ConfigMap["topology"] # Absent
    /\ w.ClusterVersion["version"] # Absent \/ imageOverride(w) # "none"

\* consolePluginImageURL; GetConsolePluginImageForVersion has none for some versions.
PluginImage(w) == IF imageOverride(w) # "none" THEN imageOverride(w) ELSE w.ClusterVersion["version"]

\* ReconcileResource of BaseReconciler, of one of the objects of the plugin.
ReconcileResource(kind, wanted, fields) ==
    IF wanted THEN Write("apply", kind, "console", Applied(fields, fields), "abort")
              ELSE Delete(kind, "console", "abort")

PluginNetworkPolicy(wanted) == ReconcileResource("ConsoleNetworkPolicy", wanted, [owner |-> "topology"])

PluginService(wanted) == ReconcileResource("Service", wanted, [port |-> "default"])

PluginDeployment(wanted, image) == ReconcileResource("PluginDeployment", wanted, [image |-> image])

ConsolePlugin(wanted) == ReconcileResource("ConsolePlugin", wanted, [service |-> "console"])

LegacyNginxConfigMap == Delete("LegacyConfigMap", "console", "abort")

\* Faulty: the network policy comes last.
RunConsolePluginOpen(w) ==
    LET wanted == ConsolePluginWanted(w) IN
    <<PluginService(wanted), PluginDeployment(wanted, PluginImage(w)), LegacyNginxConfigMap,
      ConsolePlugin(wanted), PluginNetworkPolicy(wanted)>>

\* ConsolePluginReconciler.Run
RunConsolePlugin(w) ==
    LET wanted == ConsolePluginWanted(w)
        image == PluginImage(w) IN
    <<PluginNetworkPolicy(wanted), PluginService(wanted)>>
    \o IF wanted /\ image = "unsupported" THEN <<Abort("PluginDeployment", "console")>>
       ELSE <<PluginDeployment(wanted, image), LegacyNginxConfigMap, ConsolePlugin(wanted)>>

ReconcileConsolePlugin(w, E) ==
    IF "consoleplugin" \in Installed(w) /\ ConsolePluginEvents(E) THEN RunConsolePlugin(w) ELSE <<>>

-----------------------------------------------------------------------------
(***************************************************************************)
(* The discoverability of policies: a condition on a gateway names the     *)
(* accepted policies that target it, one on a parent of a route those that *)
(* target the route or any gateway of the route.  A message lists them in  *)
(* the order of the path.  AuthPolicies stand for the five kinds.          *)
(* Failures are logged.                                                    *)
(***************************************************************************)
\* PoliciesInPath: the accepted policies of each target in turn, those of one target in the
\* order of their creation, at different times.
PoliciesInPath(w, E, path) ==
    LET At(target) == {n \in AcceptedAuthPolicies(w, E) : w.AuthPolicy[n].target = target} IN
    FlattenSeq([i \in DOMAIN path |-> InTurn(At(path[i]))])

\* GatewayPolicyDiscoverabilityReconciler.reconcile: the status is written even if it has
\* not changed.
UpdateGatewayConditions(w, E) ==
    LET New(g) == [w.Gateway[g] EXCEPT !.affected = PoliciesInPath(w, E, <<g>>)] IN
    IF ~On(E, {"Gateway", "AuthPolicy"}) THEN <<>>
    ELSE InTurn({Write("update", "Gateway", g, New(g), "log") : g \in Named(w, "Gateway")})

\* addPolicyConditions and removePolicyConditions: the parents of gateways that are not in
\* the path of the route are left alone.
RouteConditions(w, E, r, gateways) ==
    LET affected == PoliciesInPath(w, E, <<r>> \o gateways) IN
    [g \in DOMAIN w.Gateway |-> IF g \in Range(gateways) THEN affected ELSE w.HTTPRoute[r].affected[g]]

\* Faulty: no subscription to the policies.
RouteConditionEventsNoPolicy(E) == On(E, {"Gateway", "HTTPRoute"})

RouteConditionEvents(E) == On(E, {"Gateway", "HTTPRoute", "AuthPolicy"})

\* RoutePolicyDiscoverabilityReconciler.reconcile
UpdateRouteConditions(w, E, gateways) ==
    LET New(r) == [w.HTTPRoute[r] EXCEPT !.affected = RouteConditions(w, E, r, gateways)] IN
    IF ~RouteConditionEvents(E) THEN <<>>
    ELSE InTurn({Write("update", "HTTPRoute", r, New(r), "log")
                   : r \in {s \in Named(w, "HTTPRoute") : New(s) # w.HTTPRoute[s]}})

-----------------------------------------------------------------------------
(***************************************************************************)
(* The writes of a pass.  Of the data plane only the operands and the      *)
(* status of the policies matter to these tasks.                           *)
(***************************************************************************)
PlatformTasks(w, E, peers) ==
    <<ReconcileMonitors(w, E), ReconcileNetworkPolicies(w, E, peers), ReconcileOperatorPolicies(w, E, peers),
      ReconcileConsolePlugin(w, E), UpdateAuthStatuses(w, E, {}, "auth"),
      IF "limitador" \in Installed(w) THEN ReconcileLimitador(w, E) ELSE <<>>,
      IF "authorino" \in Installed(w) THEN ReconcileAuthorino(w, E) ELSE <<>>>>

\* The orders in which a pass may list things: the peers, anew for each of the policies, and
\* the gateways of a route.
Orders(w) ==
    [peers : [{"authorino", "limitador", RootDeployment} -> SetToSeqs(GatewayNamespaces(w))],
     gateways : SetToSeqs(Named(w, "Gateway"))]

PlatformPasses(w, E) ==
    LET Pass(forward, o) ==
          LET tasks == PlatformTasks(w, E, o.peers) IN
          FlattenSeq(<<ReconcileTopology(w)>>
                     \o (IF forward THEN tasks ELSE Reverse(tasks))
                     \o <<UpdateGatewayConditions(w, E), UpdateRouteConditions(w, E, o.gateways)>>) IN
    {Pass(forward, o) : forward \in BOOLEAN, o \in Orders(w)}

=============================================================================
