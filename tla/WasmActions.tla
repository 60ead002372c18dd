---------------------------- MODULE WasmActions ----------------------------
(***************************************************************************)
(* From the effective policies of a path to the actions that the filter of *)
(* the gateway carries out: the action specs of internal/wasm/             *)
(* action_spec.go, the helpers that make one of a limit, the body of       *)
(* buildWasmConfigs for one path, and the translation of the pipelines of  *)
(* extensions in internal/extension/registry.go.                           *)
(*                                                                         *)
(* An expression is the set of things it reads: "auth" is what             *)
(* authentication has found, "response" the body of the response, and what *)
(* does not compile reads something "undeclared".  A limit is a record:    *)
(* its identifier, what its predicates read (NoPredicates if it has none), *)
(* the expressions of its counters, with what they read, and what the      *)
(* amount and the time to live of its reservation read.                    *)
(***************************************************************************)
EXTENDS Integers, SequencesExt

NoPredicates == {"nothing"}

\* ResponseBodyJSONTotalTokensCEL
TotalTokens == {"response"}

Reads(expressions) == UNION {e.reads : e \in expressions}

-----------------------------------------------------------------------------
\* The specs of the policies.  `data` has a record for each limit: its predicates, and its
\* entries, keys with the expression of the value.

Entry(key, reads) == [key |-> key, reads |-> reads]

\* wasmDataFromLimit
LimitData(limit) == {Entry(limit.id, {})} \cup limit.counters

ConditionalData(limit, entries) ==
    [limit |-> limit.id, predicates |-> limit.predicates, entries |-> entries]

ActionSpec(service, data) ==
    [service |-> service, data |-> data, reservation |-> {}, bindings |-> {}, sequential |-> FALSE]

wasmActionSpecFromLimit(limit) ==
    ActionSpec("ratelimit", {ConditionalData(limit, LimitData(limit))})

\* Both phases have an addend of hits of their own: none, and the tokens used.
tokenCheckReportSpecs(limit) ==
    << ActionSpec("check", {ConditionalData(limit, LimitData(limit) \cup {Entry("hits_addend", {})})}),
       ActionSpec("report", {ConditionalData(limit, LimitData(limit)
                                                     \cup {Entry("hits_addend", TotalTokens)})}) >>

tokenReservationSpecs(limit) ==
    << [ActionSpec("reserve", {ConditionalData(limit, LimitData(limit))})
          EXCEPT !.reservation = limit.reservation],
       ActionSpec("commit", {ConditionalData(limit, LimitData(limit))}) >>

wasmActionSpecsFromTokenLimit(limit, mode) ==
    IF mode = "Reservation" THEN tokenReservationSpecs(limit) ELSE tokenCheckReportSpecs(limit)

buildWasmActionSpecsForRateLimit(limits) ==
    [i \in DOMAIN limits |-> wasmActionSpecFromLimit(limits[i])]

buildWasmActionSpecsForTokenRateLimit(limits, mode) ==
    FlattenSeq([i \in DOMAIN limits |-> wasmActionSpecsFromTokenLimit(limits[i], mode)])

-----------------------------------------------------------------------------
\* Where the limits go, before or after authentication.

\* Faulty: counters are not looked at.
HasAuthAccessPredicates(spec) == \E cd \in spec.data : "auth" \in cd.predicates

HasAuthAccess(spec) ==
    \E cd \in spec.data : "auth" \in cd.predicates \cup Reads(cd.entries)

specsHaveAuthAccess(specs) == \E i \in DOMAIN specs : HasAuthAccess(specs[i])

\* Faulty: limits before authentication run with it.
PlaceSpecsInParallel(specs, new, hasAuth) ==
    IF specsHaveAuthAccess(new) THEN specs \o new ELSE new \o specs

PlaceSpecs(specs, new, hasAuth) ==
    IF specsHaveAuthAccess(new) THEN specs \o new
    ELSE [i \in DOMAIN new |-> [new[i] EXCEPT !.sequential = hasAuth]] \o specs

-----------------------------------------------------------------------------
\* The data that extensions bind to requests, each binding with what its expression reads.

IsGuard(spec) == spec.service \notin {"report", "commit"}

ProducedStorePaths(spec) == IF spec.service = "auth" THEN {"auth"} ELSE {}

availableBindings(bindings, pending, guard) ==
    {b \in bindings : b.reads \cap pending = {} /\ ~(guard /\ "response" \in b.reads)}

\* What comes after the spec has not been produced; what the spec produces itself has.
AttachBindings(specs, bindings) ==
    [i \in DOMAIN specs |->
       LET pending == UNION {ProducedStorePaths(specs[j]) : j \in {k \in DOMAIN specs : k > i}} IN
       [specs[i] EXCEPT !.bindings = availableBindings(bindings, pending, IsGuard(specs[i]))]]

-----------------------------------------------------------------------------
\* mergeAndVerifySpecs

IsMergeableService(service) == service \in {"ratelimit", "check", "report"}

\* Faulty: the service of the specs is not compared.
MergeAnySpec(merged, spec) ==
    IF merged # <<>> /\ IsMergeableService(Last(merged).service)
    THEN Front(merged) \o <<[Last(merged) EXCEPT !.data = @ \cup spec.data]>>
    ELSE Append(merged, spec)

\* The limits of a path are all of the same scope, the namespace of its route.
MergeSpec(merged, spec) ==
    IF merged # <<>> /\ Last(merged).service = spec.service /\ IsMergeableService(spec.service)
    THEN Front(merged) \o <<[Last(merged) EXCEPT !.data = @ \cup spec.data]>>
    ELSE Append(merged, spec)

\* A key with two values makes the whole configuration fail.
HasDuplicateKey(spec) ==
    \E a, b \in UNION {cd.entries : cd \in spec.data} : a.key = b.key /\ a.reads # b.reads

mergeAndVerifySpecs(specs) ==
    LET merged == FoldLeft(MergeSpec, <<>>, specs) IN
    IF \E i \in DOMAIN merged : HasDuplicateKey(merged[i]) THEN <<>> ELSE merged

-----------------------------------------------------------------------------
\* NewRootValidatorBuilder and PushPolicyBinding: the validator of a path knows of "auth" if an
\* AuthPolicy is effective there.
Declared(hasAuth) == {"response"} \cup NoPredicates \cup (IF hasAuth THEN {"auth"} ELSE {})

\* Counters and bindings are not validated.
ValidateWasmActionSpec(spec, hasAuth) ==
    spec.reservation \cup UNION {cd.predicates : cd \in spec.data} \subseteq Declared(hasAuth)

-----------------------------------------------------------------------------
\* Build and BuildActions: the actions, and the one that stores the body for those who read it.

\* buildActionPredicate, buildDescriptorPredicate and buildRateLimitPredicate: an action is carried
\* out if one of its limits has no predicates, or predicates that hold.
buildRateLimitPredicate(data, matched) ==
    \E cd \in data : cd.predicates = NoPredicates \/ cd.limit \in matched

\* conditionalDataToDescriptor: the limits that the request counts for.
conditionalDataToDescriptor(data, matched) ==
    {cd.limit : cd \in {c \in data : c.predicates = NoPredicates \/ c.limit \in matched}}

\* What the actions of a spec read when they are carried out.  A commit reads the tokens used;
\* authentication forwards the expressions of its bindings as they are.
SpecReads(spec) ==
    UNION {cd.predicates \cup Reads(cd.entries) : cd \in spec.data}
    \cup (IF spec.service = "commit" THEN TotalTokens ELSE {})
    \cup (IF spec.service = "auth" THEN {} ELSE Reads(spec.bindings))

Build(spec) ==
    [service |-> spec.service, guard |-> IsGuard(spec), sequential |-> spec.sequential,
     data |-> spec.data, reads |-> SpecReads(spec) \ NoPredicates, reservation |-> spec.reservation]

StoreBody ==
    [service |-> "store", guard |-> FALSE, sequential |-> FALSE, data |-> {}, reads |-> {},
     reservation |-> {}]

BuildActions(specs) ==
    LET built == [i \in DOMAIN specs |-> Build(specs[i])] IN
    IF \E i \in DOMAIN built : "response" \in built[i].reads THEN <<StoreBody>> \o built ELSE built

-----------------------------------------------------------------------------
\* buildWasmActionSpecsForAuth: the predicates are those of the policy.
buildWasmActionSpecsForAuth(path) ==
    IF path.auth = "none" THEN <<>>
    ELSE << ActionSpec("auth", {[limit |-> "auth", entries |-> {},
                                 predicates |-> IF path.auth = "when" THEN {} ELSE NoPredicates]}) >>

\* buildWasmConfigs, for the effective policies of one path: what there is of authentication, the
\* limits, the token limits and how they are enforced, and the data bound by extensions.
SpecsForPath(path) ==
    LET auth == buildWasmActionSpecsForAuth(path)
        Valid(spec) == ValidateWasmActionSpec(spec, auth # <<>>)
        limits == PlaceSpecs(auth, buildWasmActionSpecsForRateLimit(path.limits), auth # <<>>)
        all == PlaceSpecs(limits, buildWasmActionSpecsForTokenRateLimit(path.tokens, path.mode),
                          auth # <<>>)
    IN SelectSeq(mergeAndVerifySpecs(AttachBindings(all, path.bindings)), Valid)

ActionsForPath(path) == BuildActions(SpecsForPath(path))

-----------------------------------------------------------------------------
(***************************************************************************)
(* translatePipelineToActions.  An entry of a pipeline is a record: kind   *)
(* "grpc" with a method and a variable for the reply, or another kind with *)
(* the variables its expressions mention.                                  *)
(***************************************************************************)
IsCall(entry) == entry.kind = "grpc"

\* Producers, in the order of the entries.
Producers(entries) == SelectSeq(entries, LAMBDA e : IsCall(e) /\ e.var # "")

\* The first call whose variable is mentioned.
Matching(entry, producers) == {i \in DOMAIN producers : producers[i].var \in entry.mentions}

HasProducer(entry, producers) == ~IsCall(entry) /\ Matching(entry, producers) # {}

producerFor(entry, producers) ==
    producers[CHOOSE i \in Matching(entry, producers) : \A j \in Matching(entry, producers) : i <= j]

OnReply(method, entries, producers) ==
    SelectSeq(entries, LAMBDA e : HasProducer(e, producers)
                                  /\ producerFor(e, producers).method = method)

PipelineAction(entry, onReply) == [entry |-> entry, onReply |-> onReply]

\* A method is called once, however often it is listed.
EmitEntry(entries, producers, result, entry) ==
    IF IsCall(entry)
    THEN IF \E i \in DOMAIN result : IsCall(result[i].entry) /\ result[i].entry.method = entry.method
         THEN result
         ELSE Append(result, PipelineAction(entry, OnReply(entry.method, entries, producers)))
    ELSE IF HasProducer(entry, producers) THEN result ELSE Append(result, PipelineAction(entry, <<>>))

\* Faulty: variables of the request phase only.
translateRequestVars(request, response) ==
    LET entries == request \o response
        Emit(result, e) == EmitEntry(request, Producers(entries), result, e)
    IN FoldLeft(Emit, <<>>, entries)

translatePipelineToActions(request, response) ==
    LET entries == request \o response
        Emit(result, e) == EmitEntry(entries, Producers(entries), result, e)
    IN FoldLeft(Emit, <<>>, entries)
=============================================================================
