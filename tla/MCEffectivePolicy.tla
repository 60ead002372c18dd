-------------------------- MODULE MCEffectivePolicy --------------------------
(***************************************************************************)
(* From policies to requests: what the policies of a path come to, which   *)
(* action set a request is served with, and what it meets there.  A        *)
(* behaviour is about one of them.                                         *)
(*                                                                         *)
(* Merging: three policies on a path of two targetables, with up to two    *)
(* rules each: enough for two policies on the same object, for an override *)
(* above an override, and for a rule that some of the policies lack.       *)
(*                                                                         *)
(* Requests: up to two limits and up to two token limits, with and without *)
(* predicates, that speak of authentication in a predicate, in a counter,  *)
(* in the amount to reserve or not at all; data bound by extensions;       *)
(* pipelines of two calls and two other entries over both phases.          *)
(*                                                                         *)
(* Action sets: two routes on one or both of two listeners, of one or two  *)
(* rules, with hostnames that cover each other; matches that differ in one *)
(* respect, and requests that meet several of them.                        *)
(***************************************************************************)
EXTENDS EffectivePolicy, WasmRequest, RouteMatches, FiniteSetsExt

MCPolicies == 1..3
MCLevels == 1..2

VARIABLE focus

-----------------------------------------------------------------------------
MCLimit(id, predicates, counters, reservation) ==
    [id |-> id, predicates |-> predicates, counters |-> counters, reservation |-> reservation]

User == {[key |-> "user", reads |-> {"auth"}]}
Address == {[key |-> "address", reads |-> {}]}

\* Limits of one policy, in the order of their names.  Only token limits have reservations.
MCLimits(a, b) ==
    { <<>>,
      <<MCLimit(a, NoPredicates, Address, {})>>,
      <<MCLimit(a, {"auth"}, Address, {}), MCLimit(b, NoPredicates, {}, {"undeclared"})>>,
      <<MCLimit(a, {}, Address, {"auth"}), MCLimit(b, {}, {}, {})>>,
      <<MCLimit(a, NoPredicates, {}, {"auth"}), MCLimit(b, {}, User, {})>> }

MCBindings == {[key |-> "region", reads |-> {}], [key |-> "user", reads |-> {"auth"}],
               [key |-> "model", reads |-> {"response"}]}

MCPaths ==
    [auth : {"none", "always", "when"}, limits : MCLimits("l1", "l2"), tokens : MCLimits("t1", "t2"),
     mode : {"Reservation", "Optimistic"}, bindings : {{}, MCBindings}]

MCCall(method, var) == [kind |-> "grpc", method |-> method, var |-> var, mentions |-> {}]
MCEntry(kind, mentions) == [kind |-> kind, method |-> "", var |-> "", mentions |-> mentions]

MCCalls == {MCCall("m1", "a"), MCCall("m1", "b"), MCCall("m2", "b"), MCCall("m2", "")}
MCEntries == MCCalls \cup {MCEntry("deny", S) : S \in SUBSET {"a", "b"}}

\* Two entries of a phase are never the same.
MCPhase(kinds) == {<<>>} \cup {<<e>> : e \in kinds} \cup {s \in kinds \X kinds : s[1] # s[2]}

MCPipelines ==
    [request : MCPhase(MCEntries),
     response : MCPhase(MCCalls \cup {MCEntry("headers", S) : S \in SUBSET {"a", "b"}})]

-----------------------------------------------------------------------------
AnyListener == [name |-> 1, hostname |-> <<Wild>>]
DomainListener == [name |-> 2, hostname |-> <<Wild, 1>>]
MCListeners == {AnyListener, DomainListener}

MCMatch(type, value, method, headers, query) ==
    [path |-> Path(type, value), method |-> method, headers |-> headers, query |-> query]
MCGRPCMatch(service, rpc, type) ==
    [service |-> service, rpc |-> rpc, type |-> type, headers |-> {}]

Slash == <<"/">>
Foo == <<"/", "foo">>
MCQuery(value) == [name |-> "q", value |-> value]

\* Rules of HTTPRoutes and of GRPCRoutes.
MCRules ==
    { << <<>> >>,
      << <<MCMatch("PathPrefix", Foo, "any", {}, <<>>)>> >>,
      << <<MCMatch("PathPrefix", Foo, "GET", {}, <<>>)>>,
         <<MCMatch("PathPrefix", Foo, "any", {"h"}, <<>>)>> >>,
      << <<MCMatch("Exact", Foo, "any", {}, <<>>),
           MCMatch("RegularExpression", Slash, "any", {}, <<>>)>> >>,
      << <<MCMatch("PathPrefix", Slash, "any", {}, <<MCQuery("x"), MCQuery("y")>>),
           MCMatch("PathPrefix", Slash, "any", {}, <<MCQuery("y")>>)>> >> }
MCGRPCRules ==
    { << <<>> >>,
      << <<MCGRPCMatch(<<"foo">>, <<>>, "Exact"), MCGRPCMatch(<<>>, <<"bar">>, "Exact")>> >>,
      << <<MCGRPCMatch(<<"foo">>, <<"bar">>, "Exact")>>,
         <<MCGRPCMatch(<<"foo">>, <<"bar">>, "RegularExpression")>> >> }

MCHostnames == {<<>>, << <<2, 1>>, <<2, 1>> >>, << <<Wild, 1>>, <<Wild, 2, 1>> >>}

MCRoutes(name, created) ==
    [kind : {"HTTPRoute"}, name : {name}, created : created, hostnames : MCHostnames, rules : MCRules]
    \cup [kind : {"GRPCRoute"}, name : {name}, created : created, hostnames : {<<>>}, rules : MCGRPCRules]

\* The first route is on both listeners.
MCGatewayRoutes ==
    {[l \in MCListeners |-> IF l = AnyListener THEN {a, b} ELSE {a}] :
        a \in MCRoutes(1, {1}), b \in MCRoutes(2, {1, 0})}

MCRequests ==
    [host : {<<2, 1>>, <<3, 2, 1>>}, path : {Foo, Foo \o <<"/", "bar">>}, method : {"GET"},
     headers : {{}, {"h"}}, query : {{}, {MCQuery("y")}}]

\* Policies have effect on this many paths.
MaxCovered == 3

NoRoutes == [l \in MCListeners |-> {}]

-----------------------------------------------------------------------------
NoPipeline == [request |-> <<>>, response |-> <<>>]
NoPath == [auth |-> "none", limits |-> <<>>, tokens |-> <<>>, mode |-> "Optimistic", bindings |-> {}]

Conditional(p) ==
    {l.id : l \in {k \in LimitsOf(p) : k.predicates # NoPredicates}}
    \cup (IF p.auth = "when" THEN {"auth"} ELSE {})

NoRequest == RequestInit(NoPath, {}, NoPipeline)
NoMatches == MatchInit(NoRoutes, {})

\* No policies to merge.
NoMerge ==
    /\ policy = [p \in Policies |-> [level |-> 1, section |-> "neither", strategy |-> "atomic",
                                     rules |-> RuleIDs, state |-> "deleted"]]
    /\ todo = {} /\ effective = [r \in RuleIDs |-> NoSource]

MCInit ==
    \/ focus = "policies" /\ Init /\ NoRequest /\ NoMatches
    \/ /\ focus = "routes" /\ NoMerge /\ NoRequest
       /\ \E routes \in GatewayRoutes : \E covered \in kSubset(MaxCovered, PathsOf(routes)) :
             MatchInit(routes, covered)
    \/ /\ focus = "request" /\ NoMerge /\ NoMatches
       /\ \/ \E p \in Paths : \E m \in SUBSET Conditional(p) : RequestInit(p, m, NoPipeline)
          \/ \E pl \in Pipelines : RequestInit(NoPath, {}, pl)

MCNext ==
    \/ focus = "policies" /\ Next /\ UNCHANGED <<requestVars, matchVars, focus>>
    \/ focus = "routes" /\ MatchNext /\ UNCHANGED <<vars, requestVars, focus>>
    \/ focus = "request" /\ RequestNext /\ UNCHANGED <<vars, matchVars, focus>>

MCSpec == MCInit /\ [][MCNext]_<<vars, requestVars, matchVars, focus>>
=============================================================================
