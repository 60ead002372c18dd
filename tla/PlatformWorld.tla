---------------------------- MODULE PlatformWorld ----------------------------
(***************************************************************************)
(* The platform tasks in a cluster: the passes of StateOfTheWorld with the *)
(* tasks of PlatformPlane, among the operators of Authorino and Limitador  *)
(* and the garbage collector.                                              *)
(***************************************************************************)
EXTENDS StateOfTheWorld, PlatformPlane

\* What the watches see of an object: those of Kuadrant resources and of policies look at
\* the specification, and that of the topology ConfigMap at its existence, as it looks for
\* changes of a generation, which ConfigMaps do not have.
Seen(kind, obj) ==
    CASE kind = "Kuadrant" -> obj.observability
      [] kind = "AuthPolicy" -> <<obj.target, obj.spec>>
      [] kind = "ConfigMap" -> "exists"
      [] OTHER -> obj

PlatformUnnoticed(kind, old, new) ==
    \/ kind \in Unwatched
    \/ old # Absent /\ new # Absent /\ Seen(kind, old) = Seen(kind, new)

-----------------------------------------------------------------------------
\* The operators of the operands deploy an instance, and then report that it is ready.
OperandDeployments(w) ==
    {[w EXCEPT !.Deployment[d] = [ports |-> TRUE]]
       : d \in {c \in DOMAIN w.Deployment \cap {"authorino", "limitador"} :
                  /\ w.Deployment[c] = Absent
                  /\ IF c = "authorino" THEN Authorino(w) # Absent ELSE Limitador(w) # Absent}}

OperandReports(w) ==
    {[w EXCEPT !.Authorino[n].ready = TRUE]
       : n \in {m \in Named(w, "Authorino") : ~w.Authorino[m].ready /\ w.Deployment["authorino"] # Absent}}
    \cup {[w EXCEPT !.Limitador[n].ready = TRUE]
       : n \in {m \in Named(w, "Limitador") : ~w.Limitador[m].ready /\ w.Deployment["limitador"] # Absent}}

\* What goes with its owner.
Ownerless(w) ==
    LET Gone(kind, n, present) == IF n \in Named(w, kind) /\ ~present THEN {<<kind, n>>} ELSE {}
        authorino == Named(w, "Authorino") # {}
        limitador == Named(w, "Limitador") # {} IN
    UNION {Gone("Authorino", "authorino", HasKuadrant(w)), Gone("Limitador", "limitador", HasKuadrant(w)),
           Gone("Deployment", "authorino", authorino), Gone("Deployment", "limitador", limitador),
           Gone("NetworkPolicy", "kuadrant-authorino", authorino),
           Gone("NetworkPolicy", "kuadrant-limitador", limitador),
           Gone("ConsoleNetworkPolicy", "console", Named(w, "ConfigMap") # {})}

GarbageCollected(w) ==
    LET gone == Ownerless(w) IN
    IF gone = {} THEN {}
    ELSE {[k \in DOMAIN w |-> [n \in DOMAIN w[k] |-> IF <<k, n>> \in gone THEN Absent ELSE w[k][n]]]}

PlatformResponses(w) == OperandDeployments(w) \cup OperandReports(w) \cup GarbageCollected(w)

-----------------------------------------------------------------------------
\* What there is to say of a cluster at rest, when no write was given up on the way.
AllDone == AtRest /\ lost = {}

Observed == HasKuadrant(world) /\ Kuadrant(world).observability

\* The monitors are those of the components and of the gateways that there are if
\* observability is enabled, and none if not (ObservabilityReconciler), whichever of the
\* gateways, the Kuadrant resource or the monitors have come, gone or changed on the way;
\* the monitor of Limitador, too, which the passes delete and create in turn.
MonitorsMatch ==
    AllDone =>
      /\ Named(world, "ServiceMonitor") = IF Observed THEN DOMAIN world.ServiceMonitor ELSE {}
      /\ Named(world, "PodMonitor") = IF Observed THEN GatewayMonitors(world) \cup {LimitadorMonitor} ELSE {}

OperandPolicy(c) == IF c = "authorino" THEN "kuadrant-authorino" ELSE "kuadrant-limitador"

\* The operands admit traffic from the namespaces of the gateways, from all of them and from
\* no other, on the ports that they listen at (NetworkPolicyReconciler), although nothing
\* leads from the creation of a deployment to this task.
OperandsAdmitGateways ==
    AllDone /\ HasKuadrant(world) =>
      \A c \in {"authorino", "limitador"} \cap Named(world, "Deployment") :
        LET policy == world.NetworkPolicy[OperandPolicy(c)] IN
        /\ policy # Absent
        /\ Range(policy.from) = GatewayNamespaces(world)
        /\ c = "authorino" => policy.port = Authorino(world).port

\* The operator admits the gateways, which fetch the wasm module from it
\* (OperatorNetworkPolicyReconciler).  The task subscribes to no gateway: it learns of
\* gateways from the changes of the network policies of the operands.
OperatorAdmitsGateways ==
    AllDone /\ HasKuadrant(world)
      /\ (\E c \in {"authorino", "limitador"} : OperandPolicy(c) \in Named(world, "NetworkPolicy")) =>
      \A d \in Named(world, "Deployment") \cap {RootDeployment} :
        world.Deployment[d].ports =>
          world.NetworkPolicy[d] # Absent /\ Range(world.NetworkPolicy[d].from) = GatewayNamespaces(world)

\* The operands and the operator admit the gateways: OperandsAdmitGateways and
\* OperatorAdmitsGateways.
GatewaysAdmitted == OperandsAdmitGateways /\ OperatorAdmitsGateways

PluginParts == {"ConsoleNetworkPolicy", "Service", "PluginDeployment", "ConsolePlugin"}

\* The version of the cluster has changed since the operator started.
VersionChanged(w) == w.Scenario["versionChanged"]

\* The parts of the console plugin are all there or all gone (ConsolePluginReconciler), and
\* as long as the version of the cluster has not changed they are there exactly if the
\* topology is and there is an image for them, of the version of the cluster or the one that
\* the operator was started with; although the topology comes back in the same pass that
\* takes the plugin away.  The task does not subscribe to the version: one that comes, goes
\* or changes later on has no effect until something else leads to this task.
ConsolePluginMatches ==
    AllDone /\ "consoleplugin" \in Installed(world) =>
      LET present == {kind \in PluginParts : Named(world, kind) # {}} IN
      /\ present \in {{}, PluginParts}
      /\ ~VersionChanged(world) =>
           /\ present = IF ConsolePluginWanted(world) THEN PluginParts ELSE {}
           /\ present # {} => world.PluginDeployment["console"].image = PluginImage(world)

\* "Apply ingress protection before starting the backend" (ConsolePluginReconciler.Run): when
\* the deployment of the plugin comes up its network policy is there, unless somebody has
\* taken it away since the pass began.
BackendProtected ==
    [][(Named(world, "PluginDeployment") = {} /\ Named(world', "PluginDeployment") # {})
         => \/ Named(world, "ConsoleNetworkPolicy") # {}
            \/ <<"ConsoleNetworkPolicy", "console">> \in touched]_worldVars

\* The conditions tell which policies affect a gateway, and a parent of a route names those
\* that affect the route there; a policy of another gateway may be named, too, but none that
\* affects the route nowhere (the discoverability reconcilers).
AffectedShown ==
    AllDone =>
      /\ \A g \in Named(world, "Gateway") :
           Range(world.Gateway[g].affected) = {n \in Named(world, "AuthPolicy") : world.AuthPolicy[n].target = g}
      /\ \A g \in Named(world, "Gateway"), r \in Named(world, "HTTPRoute") :
           LET At(targets) == {n \in Named(world, "AuthPolicy") : world.AuthPolicy[n].target \in targets}
               shown == Range(world.HTTPRoute[r].affected[g]) IN
           At({g, r}) \subseteq shown /\ shown \subseteq At({r} \cup Named(world, "Gateway"))

\* The ConfigMap shows the objects that there are, and nothing but that they are too many if
\* it has no room for them (TopologyReconciler), although its own creation changes what there
\* is to show.
TopologyShown ==
    AllDone =>
      LET shown == world.ConfigMap["topology"] IN
      /\ shown # Absent
      /\ shown.oversized = (Cardinality(InTopology(world)) > MaxTopology)
      /\ ~shown.oversized => shown.data = InTopology(world)

\* What the operator shows to users, in the conditions of gateways and routes and in the
\* ConfigMap, is so: AffectedShown and TopologyShown.
StateShown == AffectedShown /\ TopologyShown

-----------------------------------------------------------------------------
\* An object without the order of what it lists.
Unordered(kind, obj) ==
    CASE kind = "NetworkPolicy" -> [obj EXCEPT !.from = Range(@)]
      [] kind = "HTTPRoute" -> [obj EXCEPT !.affected = [g \in DOMAIN @ |-> Range(@[g])]]
      [] OTHER -> obj

\* A pass begins, and one of its writes changes nothing but an order.
PassBegins == Idle /\ ((trigger /\ ~trigger') \/ again' # again)

Reorders ==
    \E i \in DOMAIN plan' :
      LET x == plan'[i]
          old == world[x.kind][x.name] IN
      /\ x.op = "update"
      /\ x.value # old /\ Unordered(x.kind, x.value) = Unordered(x.kind, old)

\* The passes that the operator's own writes cause come to an end, unless from some time on
\* every single one of them happens to list the namespaces of gateways, or the gateways of a
\* route whose policies it names in a condition, in another order than the one before: the
\* order is that of a Go map, it counts when the lists are compared (mergeNetworkPolicy,
\* addPolicyConditions), and what is written leads to the next pass.  Nothing else keeps the
\* passes going.
PlatformSettles == <>[]AtRest \/ <>[][PassBegins => Reorders]_worldVars

=============================================================================
