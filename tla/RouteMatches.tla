---------------------------- MODULE RouteMatches ----------------------------
(***************************************************************************)
(* The action sets of a gateway: one for each hostname and match of a rule *)
(* of a route (BuildActionSetsForPath in internal/wasm/utils.go), sorted   *)
(* by specificity (SortableHTTPRouteMatchConfigs in                        *)
(* internal/gatewayapi/types.go).  The filter serves a request with the    *)
(* first one whose conditions hold.                                        *)
(*                                                                         *)
(* A hostname is a sequence of labels, numbers in lexicographic order, and *)
(* Wild is "*".  A path is a sequence of pieces, "/" or a piece of a name; *)
(* its length stands for the number of characters.  Names of routes and    *)
(* listeners are numbers, in lexicographic order.                          *)
(***************************************************************************)
EXTENDS Integers, SequencesExt

CONSTANTS
    Listeners,      \* the listeners of the gateway: [name, hostname]
    GatewayRoutes,  \* the routes that may be attached to each of them
    Requests        \* requests: [host, path, method, headers, query]

VARIABLES
    gatewayRoutes,  \* the routes attached to each of the listeners
    pendingPaths,   \* the paths with effective policies that have no action sets yet
    configs,        \* the action sets in the order they were added
    sorted          \* the configuration of the filter

matchVars == <<gatewayRoutes, pendingPaths, configs, sorted>>

-----------------------------------------------------------------------------
\* Hostnames

Wild == 0

IsWildCarded(n) == Head(n) = Wild

SubsetOf(n, o) ==
    IF IsWildCarded(o) THEN Len(n) >= Len(o) /\ IsSuffix(Tail(o), n) ELSE n = o

Lexicographic(s, t) ==
    \E i \in DOMAIN s : s[i] < t[i] /\ \A j \in 1..(i - 1) : s[j] = t[j]

\* Faulty: wildcards are compared before the number of labels.
CompareWildcardsFirst(h1, h2) ==
    IF IsWildCarded(h1) # IsWildCarded(h2) THEN IsWildCarded(h1)
    ELSE IF Len(h1) # Len(h2) THEN Len(h1) > Len(h2)
    ELSE Lexicographic(h1, h2)

CompareHostnamesSpecificity(h1, h2) ==
    IF Len(h1) # Len(h2) THEN Len(h1) > Len(h2)
    ELSE IF IsWildCarded(h1) # IsWildCarded(h2) THEN ~IsWildCarded(h1)
    ELSE Lexicographic(h1, h2)

\* A listener without hostname takes any.
HostnamesFromListenerAndHTTPRoute(listener, route) ==
    IF route.hostnames = <<>> THEN <<listener.hostname>>
    ELSE FlattenSeq([i \in DOMAIN route.hostnames |->
                       IF SubsetOf(route.hostnames[i], listener.hostname) THEN <<route.hostnames[i]>>
                       ELSE <<>>])

-----------------------------------------------------------------------------
\* Matches of HTTPRoutes and GRPCRoutes.  The match of an HTTPRoute has a path, a method or "any",
\* headers and query parameters; that of a GRPCRoute a service and a method, empty if not given.

Path(type, value) == [type |-> type, value |-> value]
NoPathMatch == Path("none", <<>>)

CatchAll == [path |-> Path("PathPrefix", <<"/">>), method |-> "any", headers |-> {}, query |-> <<>>]
EmptyGRPCMatch == [service |-> <<>>, rpc |-> <<>>, type |-> "Exact", headers |-> {}]

MatchesOf(route, rule) ==
    IF route.rules[rule] # <<>> THEN route.rules[rule]
    ELSE IF route.kind = "HTTPRoute" THEN <<CatchAll>> ELSE <<EmptyGRPCMatch>>

\* A repeated query parameter is looked at once.
QueryPredicates(query) ==
    {query[i] : i \in {k \in DOMAIN query : \A j \in 1..(k - 1) : query[j].name # query[k].name}}

PredicatesFromHTTPRouteMatch(match) ==
    [path |-> match.path, method |-> match.method, headers |-> match.headers,
     query |-> QueryPredicates(match.query)]

predicateFromGRPCMethod(match) ==
    LET slash == <<"/">> IN
    IF match.service = <<>> /\ match.rpc = <<>> THEN NoPathMatch
    ELSE IF match.service = <<>> THEN Path("AnyService", match.rpc)
    ELSE IF match.type = "RegularExpression"
    THEN Path("RegularExpression", slash \o match.service \o slash \o match.rpc)
    ELSE IF match.rpc = <<>> THEN Path("PathPrefix", slash \o match.service \o slash)
    ELSE Path("Exact", slash \o match.service \o slash \o match.rpc)

PredicatesFromGRPCRouteMatch(match) ==
    [path |-> predicateFromGRPCMethod(match), method |-> "any", headers |-> match.headers, query |-> {}]

\* For sorting only.
ConvertGRPCRouteMatchToHTTP(match) ==
    LET both == match.service # <<>> /\ match.rpc # <<>>
        value == IF both THEN <<"/">> \o match.service \o <<"/">> \o match.rpc
                 ELSE <<"/">> \o match.service \o match.rpc
    IN [path |-> IF match.service = <<>> /\ match.rpc = <<>> THEN NoPathMatch
                 ELSE IF match.type = "RegularExpression" THEN Path("RegularExpression", value)
                 ELSE Path(IF both THEN "Exact" ELSE "PathPrefix", value),
        method |-> "any", headers |-> match.headers, query |-> <<>>]

-----------------------------------------------------------------------------
\* What the API server admits: matches of HTTPRoutes have a path with a value, by default, and names
\* are unique.

Hostnames == Seq(Nat) \ {<<>>}

\* The literals are named for the provers, that do not know them as strings.
Texts == STRING \cup {"/", "any"}

HTTPMatches ==
    [path : [type : {"Exact", "PathPrefix", "RegularExpression"}, value : Seq(Texts) \ {<<>>}],
     method : Texts, headers : SUBSET Texts, query : Seq([name : Texts, value : Texts])]

GRPCMatches ==
    [service : Seq(Texts), rpc : Seq(Texts), type : {"Exact", "RegularExpression"},
     headers : SUBSET Texts]

Routes(kind, matches) ==
    [kind : {kind}, name : Nat, created : Nat, hostnames : Seq(Hostnames), rules : Seq(Seq(matches))]

RouteOK(route) ==
    /\ route \in Routes("HTTPRoute", HTTPMatches) \cup Routes("GRPCRoute", GRPCMatches)
    /\ \A i \in DOMAIN route.rules : \A j \in DOMAIN route.rules[i] :
          IsFiniteSet(route.rules[i][j].headers)

ASSUME ListenersAssumption ==
    /\ Listeners \subseteq [name : Nat, hostname : Hostnames]
    /\ \A l, m \in Listeners : l.name = m.name => l = m

ASSUME RoutesAssumption ==
    \A routes \in GatewayRoutes : \A l \in Listeners :
       /\ \A r \in routes[l] : RouteOK(r)
       /\ \A m \in Listeners : \A r \in routes[l], s \in routes[m] : r.name = s.name => r = s

-----------------------------------------------------------------------------
\* BuildActionSetsForPath.  A path is a listener, a route and the index of a rule of the route;
\* of the identifiers of two paths that are otherwise alike, only the listener differs.

ActionSetNameForPath(path, index, host) == <<path.listener.name, path.route.name, path.rule, index, host>>

Config(path, host, index, match) ==
    [host |-> host, created |-> path.route.created, route |-> path.route.name, rule |-> path.rule,
     index |-> index, identifier |-> path.listener.name,
     name |-> ActionSetNameForPath(path, index, host),
     match |-> IF path.route.kind = "HTTPRoute" THEN match ELSE ConvertGRPCRouteMatchToHTTP(match),
     predicates |-> IF path.route.kind = "HTTPRoute" THEN PredicatesFromHTTPRouteMatch(match)
                    ELSE PredicatesFromGRPCRouteMatch(match)]

BuildActionSetsForPath(path) ==
    LET hosts == HostnamesFromListenerAndHTTPRoute(path.listener, path.route)
        matches == MatchesOf(path.route, path.rule)
    IN FlattenSeq([h \in DOMAIN hosts |->
                     [j \in DOMAIN matches |-> Config(path, hosts[h], j, matches[j])]])

-----------------------------------------------------------------------------
\* SortableHTTPRouteMatchConfigs

PathRank(type) ==
    CASE type = "Exact" -> 3 [] type = "RegularExpression" -> 2 [] type = "PathPrefix" -> 1 [] OTHER -> 0

pathMatchCount(path) == Len(path.value)

Method(c) == IF c.match.method = "any" THEN 0 ELSE 1

\* What two matches of a hostname are compared by, pairs of numbers of which the lesser comes first.
\* Types of paths are compared when both have one.  A match without method comes before one that
\* has a method.
MatchKeys(c, d) ==
    LET p == c.match.path
        q == d.match.path
    IN << IF "none" \in {p.type, q.type} THEN <<0, 0>> ELSE <<PathRank(q.type), PathRank(p.type)>>,
          <<pathMatchCount(q), pathMatchCount(p)>>,
          <<Method(c), Method(d)>>,
          <<Cardinality(d.match.headers), Cardinality(c.match.headers)>>,
          <<Len(d.match.query), Len(c.match.query)>> >>

\* Faulty: the last tie breaker is missing.
RouteKeysNoIdentifier(c, d) ==
    << <<c.created, d.created>>, <<c.route, d.route>>, <<c.rule, d.rule>>, <<c.index, d.index>> >>

RouteKeys(c, d) ==
    << <<c.created, d.created>>, <<c.route, d.route>>, <<c.rule, d.rule>>, <<c.index, d.index>>,
       <<c.identifier, d.identifier>> >>

\* The first keys that differ decide.
Decide(keys) ==
    \E i \in DOMAIN keys : keys[i][1] < keys[i][2] /\ \A j \in 1..(i - 1) : keys[j][1] = keys[j][2]

Tie(keys) == \A i \in DOMAIN keys : keys[i][1] = keys[i][2]

Less(c, d) ==
    IF c.host # d.host THEN CompareHostnamesSpecificity(c.host, d.host)
    ELSE Decide(MatchKeys(c, d)) \/ (Tie(MatchKeys(c, d)) /\ Decide(RouteKeys(c, d)))

\* sort.Sort, for few elements: each is moved down as long as it is less than the one before it.
Insert(list, c) ==
    LET stops == {i \in DOMAIN list : ~Less(c, list[i])}
        last == IF stops = {} THEN 0 ELSE CHOOSE i \in stops : \A j \in stops : j <= i
    IN InsertAt(list, last + 1, c)

InsertAll(cs) ==
    LET lists[n \in 0..Len(cs)] == IF n = 0 THEN <<>> ELSE Insert(lists[n - 1], cs[n])
    IN lists[Len(cs)]

-----------------------------------------------------------------------------
PathsOf(routes) ==
    UNION {UNION {{[listener |-> l, route |-> r, rule |-> i] : i \in DOMAIN r.rules} :
                  r \in routes[l]} : l \in Listeners}

\* `routes`: the routes of each listener; `covered`: the paths that policies have effect on.
MatchInit(routes, covered) ==
    /\ gatewayRoutes = routes
    /\ pendingPaths = covered
    /\ configs = <<>>
    /\ sorted = <<>>

\* GroupedHTTPRouteMatchConfigs.Add, for paths that come in any order, out of a map.
AddPath(p) ==
    /\ p \in pendingPaths
    /\ pendingPaths' = pendingPaths \ {p}
    /\ configs' = configs \o BuildActionSetsForPath(p)
    /\ UNCHANGED <<gatewayRoutes, sorted>>

\* GroupedHTTPRouteMatchConfigs.Sorted
SortConfigs ==
    /\ pendingPaths = {} /\ Len(sorted) < Len(configs)
    /\ sorted' = InsertAll(configs)
    /\ UNCHANGED <<gatewayRoutes, pendingPaths, configs>>

MatchNext ==
    \/ \E p \in pendingPaths : AddPath(p)
    \/ SortConfigs

MatchSpec ==
    /\ \E routes \in GatewayRoutes : \E covered \in SUBSET PathsOf(routes) : MatchInit(routes, covered)
    /\ [][MatchNext]_matchVars

-----------------------------------------------------------------------------
\* The filter

\* A regular expression is, here, a text and anything that follows it.
PathHolds(path, url) ==
    CASE path.type = "none" -> TRUE
      [] path.type = "Exact" -> url = path.value
      [] path.type = "AnyService" -> \E x \in Range(url) \ {"/"} : url = <<"/", x, "/">> \o path.value
      [] OTHER -> IsPrefix(path.value, url)

ConditionsHold(c, r) ==
    /\ SubsetOf(r.host, c.host)
    /\ PathHolds(c.predicates.path, r.path)
    /\ c.predicates.method \in {"any", r.method}
    /\ c.predicates.headers \subseteq r.headers
    /\ c.predicates.query \subseteq r.query

\* The action sets that a request could be served with, and the first of them, that it is served with.
Candidates(r) == {i \in DOMAIN sorted : ConditionsHold(sorted[i], r)}
First(candidates) == {i \in candidates : \A j \in candidates : i <= j}

-----------------------------------------------------------------------------
\* Properties

\* The action sets of a gateway come in one order whatever the order in which the effective policies
\* are walked: each is less than all that follow, but for itself where a hostname is given twice
\* (Less is a strict order on them that leaves no two of them equal).  Otherwise the configuration
\* differs from pass to pass and is written for nothing.
OneOrder ==
    \A i, j \in DOMAIN sorted : i < j => Less(sorted[i], sorted[j]) \/ sorted[i] = sorted[j]

\* A request is served with the most specific hostname that covers it and, among the HTTP matches of
\* that hostname, with an exact path if one matches, and otherwise with the longest prefix of those
\* that match.
MostSpecificServed ==
    \A r \in Requests :
       LET candidates == Candidates(r) IN
       \A k \in First(candidates), i \in candidates :
          LET c == sorted[i]
              s == sorted[k]
              IsHTTP(x) == x.predicates.path = x.match.path
          IN /\ SubsetOf(c.host, s.host) => c.host = s.host
             /\ c.host = s.host /\ IsHTTP(c) /\ IsHTTP(s) =>
                   /\ c.match.path.type = "Exact" => s.match.path.type = "Exact"
                   /\ c.match.path.type = "PathPrefix" /\ s.match.path.type = "PathPrefix" =>
                         Len(c.match.path.value) <= Len(s.match.path.value)

\* "the existing SortableHTTPRouteMatchConfigs comparator which implements Gateway API's specificity
\* rules" (internal/wasm/utils.go): of two matches with the same path, a request with the method that
\* one of them asks for is served with that one.
MethodServed ==
    \A r \in Requests :
       LET candidates == Candidates(r) IN
       \A k \in First(candidates), i \in candidates :
       /\ sorted[i].host = sorted[k].host /\ sorted[i].match.path = sorted[k].match.path
       /\ Method(sorted[i]) = 1
       => Method(sorted[k]) = 1
=============================================================================
