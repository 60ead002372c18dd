---------------------------- MODULE WasmRequest ----------------------------
(***************************************************************************)
(* The life of one request under the actions of its path.  The filter that *)
(* carries out the actions, Authorino and Limitador are external: they are *)
(* modelled from what action_spec.go asks of them.                         *)
(*                                                                         *)
(* Actions that are guards run before the request goes on, in the order of *)
(* the list; one that is not sequential does not wait for its reply, but   *)
(* for what it reads.  The other actions run one by one when the response  *)
(* is there.  A refused request may or may not come to its response phase. *)
(***************************************************************************)
EXTENDS WasmActions

CONSTANTS
    Paths,      \* the paths of a request, as SpecsForPath takes them
    Pipelines   \* the pipelines of extensions: [request, response]

VARIABLES
    path,       \* the path of the request
    pipeline,   \* the pipeline of an extension for it
    matched,    \* the limits (and "auth") with predicates that hold for the request
    actions,    \* the actions of the path
    calls,      \* how far each of them is: "waiting", "sent", "answered" or "skipped"
    store,      \* the store of the filter: "auth", "tokens", and limits with a reservation
    refused,    \* the service that has the request refused, or "no"
    phase,      \* "request", "response" or "over"
    tokens,     \* whether the response says how many tokens were used
    sent        \* the limits, and what for, that Limitador was asked about

requestVars == <<path, pipeline, matched, actions, calls, store, refused, phase, tokens, sent>>

Finished == {"answered", "skipped"}

LimitsOf(p) == Range(p.limits) \cup Range(p.tokens)

RequestInit(p, m, pl) ==
    /\ path = p
    /\ pipeline = pl
    /\ matched = m
    /\ actions = ActionsForPath(p)
    /\ calls = [i \in DOMAIN ActionsForPath(p) |-> "waiting"]
    /\ store = {}
    /\ refused = "no"
    /\ phase = "request"
    /\ tokens = FALSE
    /\ sent = <<>>

Holds(i) == buildRateLimitPredicate(actions[i].data, matched)
Descriptor(i) == conditionalDataToDescriptor(actions[i].data, matched)

\* The calls to Limitador for limits S.  `id` says if there is an identifier of a reservation and
\* `amount` if the tokens are known.
Messages(service, S, id, amount) ==
    SetToSeq({[service |-> service, limit |-> l, id |-> id, amount |-> amount] : l \in S})

-----------------------------------------------------------------------------
\* The request phase

\* An action with predicates that do not hold is skipped.
Dispatch(i) ==
    /\ phase = "request" /\ refused = "no"
    /\ actions[i].guard /\ calls[i] = "waiting"
    /\ \A j \in DOMAIN actions : j < i /\ actions[j].guard =>
          /\ calls[j] # "waiting"
          /\ \/ actions[j].sequential
             \/ actions[j].service = "auth" /\ "auth" \in actions[i].reads \cup actions[i].reservation
             => calls[j] \in Finished
    /\ calls' = [calls EXCEPT ![i] = IF Holds(i) THEN "sent" ELSE "skipped"]
    /\ sent' = IF Holds(i) /\ actions[i].service # "auth"
               THEN sent \o Messages(actions[i].service, Descriptor(i), FALSE, FALSE) ELSE sent
    /\ UNCHANGED <<path, pipeline, matched, actions, store, refused, phase, tokens>>

Answer(i) ==
    /\ phase = "request" /\ refused = "no"
    /\ calls[i] = "sent"
    /\ calls' = [calls EXCEPT ![i] = "answered"]
    /\ UNCHANGED <<path, pipeline, matched, actions, phase, tokens, sent>>

\* buildAuthOnReply
AuthReply(i) ==
    /\ Answer(i) /\ actions[i].service = "auth"
    /\ \/ store' = store \cup {"auth"} /\ UNCHANGED refused
       \/ refused' = "auth" /\ UNCHANGED store

\* buildRateLimitOnReply
LimitReply(i) ==
    /\ Answer(i) /\ actions[i].service \in {"ratelimit", "check"}
    /\ refused' \in {"no", actions[i].service}
    /\ UNCHANGED store

\* buildReserveOnReply: an answer may lack the identifier.
ReserveReply(i) ==
    /\ Answer(i) /\ actions[i].service = "reserve"
    /\ \/ refused' = "reserve" /\ UNCHANGED store
       \/ store' \in {store, store \cup Descriptor(i)} /\ UNCHANGED refused

\* No answer, or one that is none of the above: the failure mode of the service, a setting of the
\* operator, decides if the request goes on.
NoReply(i) ==
    /\ Answer(i)
    /\ refused' \in {"no", "failure"}
    /\ UNCHANGED store

-----------------------------------------------------------------------------
\* The response phase

\* The response of the upstream, whose body may be of any kind, or that of the filter.
Respond ==
    /\ phase = "request"
    /\ \/ /\ refused = "no"
          /\ \A i \in DOMAIN actions : actions[i].guard => calls[i] \in Finished
          /\ phase' = "response"
          /\ tokens' \in BOOLEAN
       \/ /\ refused # "no"
          /\ phase' \in {"response", "over"}
          /\ UNCHANGED tokens
    /\ UNCHANGED <<path, pipeline, matched, actions, calls, store, refused, sent>>

RunsNow(i) ==
    /\ phase = "response"
    /\ ~actions[i].guard /\ calls[i] = "waiting"
    /\ \A j \in DOMAIN actions : j < i /\ ~actions[j].guard => calls[j] # "waiting"
    /\ UNCHANGED <<path, pipeline, matched, actions, refused, phase, tokens>>

StoreResponse(i) ==
    /\ RunsNow(i) /\ actions[i].service = "store"
    /\ calls' = [calls EXCEPT ![i] = "answered"]
    /\ store' = IF tokens THEN store \cup {"tokens"} ELSE store
    /\ UNCHANGED sent

\* A report has no message without the number of tokens.
Report(i) ==
    /\ RunsNow(i) /\ actions[i].service = "report"
    /\ calls' = [calls EXCEPT ![i] = IF Holds(i) THEN "answered" ELSE "skipped"]
    /\ sent' = IF Holds(i) /\ "tokens" \in store
               THEN sent \o Messages("report", Descriptor(i), FALSE, TRUE) ELSE sent
    /\ UNCHANGED store

\* Faulty: only what is held is committed.
buildCommitPredicateHeld(i) == Holds(i) /\ \E cd \in actions[i].data : cd.limit \in store
buildCommitPredicate(i) ==
    Holds(i) /\ \E cd \in actions[i].data : cd.limit \in store \/ "tokens" \in store

\* buildCommit, buildCommitRequest and buildCommitOnReply
Commit(i) ==
    /\ RunsNow(i) /\ actions[i].service = "commit"
    /\ calls' = [calls EXCEPT ![i] = IF buildCommitPredicate(i) THEN "answered" ELSE "skipped"]
    /\ sent' = IF buildCommitPredicate(i)
               THEN sent \o Messages("commit", Descriptor(i), Descriptor(i) \subseteq store,
                                     "tokens" \in store)
               ELSE sent
    /\ UNCHANGED store

End ==
    /\ phase = "response"
    /\ \A i \in DOMAIN actions : ~actions[i].guard => calls[i] # "waiting"
    /\ phase' = "over"
    /\ UNCHANGED <<path, pipeline, matched, actions, calls, store, refused, tokens, sent>>

RequestNext ==
    \/ \E i \in DOMAIN actions :
          \/ Dispatch(i) \/ AuthReply(i) \/ LimitReply(i) \/ ReserveReply(i) \/ NoReply(i)
          \/ StoreResponse(i) \/ Report(i) \/ Commit(i)
    \/ Respond
    \/ End

-----------------------------------------------------------------------------
\* Properties

ReadsAuth(l) == "auth" \in l.predicates \cup Reads(l.counters)

\* Nothing is read before it is there, on any path: an action whose predicates, counters or bound
\* data speak of "auth" is carried out only after the call to Authorino of that path has been
\* answered or skipped, and one that reads the body of the response only after the body has been
\* stored (HasAuthAccess, AttachBindings and BuildActions, with buildWasmConfigs that orders them).
\* A request refused on its way may come to the response phase without authentication.  The
\* amount and the time to live of a reservation are no reason to authenticate first, as
\* HasAuthAccess does not look at them: what they read is there if a predicate or a counter of a
\* token limit of the path speaks of "auth" as well.
DataReady ==
    \A i, j \in DOMAIN actions :
       calls[i] \in {"sent", "answered"} =>
          /\ /\ actions[j].service = "auth"
             /\ \/ "auth" \in actions[i].reads
                \/ "auth" \in actions[i].reservation /\ \E l \in Range(path.tokens) : ReadsAuth(l)
             /\ refused = "no" \/ actions[i].guard
             => calls[j] \in Finished
          /\ "response" \in actions[i].reads =>
                \E k \in DOMAIN actions : actions[k].service = "store" /\ calls[k] = "answered"

\* "pre auth rate limiting" (istio_extension_reconciler.go): a request that is refused by limits
\* that say nothing of authentication does not reach Authorino.
RefusedBeforeAuth ==
    \A i \in DOMAIN actions :
       /\ actions[i].service = "auth" /\ calls[i] # "waiting"
       => /\ refused = "ratelimit" =>
                \E l \in Range(path.limits) : ReadsAuth(l)
          /\ refused \in {"check", "reserve"} =>
                \E l \in Range(path.tokens) : ReadsAuth(l)

\* The limit applies to the request.
Applies(l) == l.predicates = NoPredicates \/ l.id \in matched

Count(service, l) == Cardinality({k \in DOMAIN sent : sent[k].service = service /\ sent[k].limit = l.id})

\* An expression that speaks of authentication where there is none is not valid.
Invalid(reads) == "undeclared" \in reads \/ (path.auth = "none" /\ "auth" \in reads)

\* Merging and validating the specs of a path loses no limit that is valid there and counts none
\* twice: a request that has come to its end has been checked once against each limit that applies
\* to it, and its tokens are reported once where the response tells them; a limit that does not
\* apply has heard nothing of it.  A limit with an invalid predicate is discarded, and the other
\* rate limits of the path with it, as they are in one spec; an invalid reservation is not made.
LimitsCounted ==
    /\ \A l \in LimitsOf(path), s \in {"ratelimit", "check", "reserve", "report", "commit"} :
          Count(s, l) <= (IF Applies(l) THEN 1 ELSE 0)
    /\ phase = "over" /\ refused = "no" =>
          /\ (\A l \in Range(path.limits) : ~Invalid(l.predicates)) =>
                \A l \in Range(path.limits) : Applies(l) => Count("ratelimit", l) = 1
          /\ \A l \in Range(path.tokens) : Applies(l) /\ ~Invalid(l.predicates) =>
                IF path.mode = "Reservation" THEN Count("reserve", l) = 1 \/ Invalid(l.reservation)
                ELSE Count("check", l) = 1 /\ (tokens => Count("report", l) = 1)

\* The table in the comment of buildCommit: when the response phase is over, a limit with a
\* reservation has had one commit with its identifier, for the tokens used if they are known and
\* for none otherwise; a limit without one has had one commit without identifier if the tokens are
\* known, and none otherwise, whether or not the reservation was valid.  A limit with an invalid
\* predicate has neither reservation nor commit.
ReservationsSettled ==
    phase = "over" /\ path.mode = "Reservation"
      /\ (\A i \in DOMAIN actions : ~actions[i].guard => calls[i] # "waiting") =>
       \A l \in Range(path.tokens) :
          IF Applies(l) /\ ~Invalid(l.predicates) /\ (l.id \in store \/ tokens)
          THEN /\ Count("commit", l) = 1
               /\ \A k \in DOMAIN sent : sent[k].service = "commit" /\ sent[k].limit = l.id =>
                     sent[k].id = (l.id \in store) /\ sent[k].amount = tokens
          ELSE Count("commit", l) = 0

\* Nothing of a committed pipeline is lost or doubled in the action set (translatePipelineToActions):
\* a method is called once; any other entry is there once, in its place if it mentions no variable
\* of a call, and otherwise among the replies of a method with a variable that it mentions, whatever
\* the phases of the two.
PipelineKept ==
    LET entries == pipeline.request \o pipeline.response
        result == translatePipelineToActions(pipeline.request, pipeline.response)
        AtTop(e) == {k \in DOMAIN result : result[k].entry = e}
        Below(e) == {<<k, m>> \in (DOMAIN result) \X (1..Len(entries)) :
                        m \in DOMAIN result[k].onReply /\ result[k].onReply[m] = e}
        Vars(method) == {x.var : x \in {y \in Range(entries) : IsCall(y) /\ y.method = method}}
        Variables == {x.var : x \in {y \in Range(entries) : IsCall(y)}}
    IN \A e \in Range(entries) :
          IF IsCall(e)
          THEN Cardinality({k \in DOMAIN result :
                   IsCall(result[k].entry) /\ result[k].entry.method = e.method}) = 1
          ELSE IF e.mentions \cap Variables = {}
          THEN Cardinality(AtTop(e)) = 1 /\ Below(e) = {}
          ELSE /\ AtTop(e) = {} /\ Cardinality(Below(e)) = 1
               /\ \A b \in Below(e) : e.mentions \cap Vars(result[b[1]].entry.method) # {}
=============================================================================
