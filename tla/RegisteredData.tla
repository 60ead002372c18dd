--------------------------- MODULE RegisteredData ---------------------------
(***************************************************************************)
(* The store of what the policies of one extension kind have registered    *)
(* with the operator (internal/extension/registry.go).  The store has four *)
(* mutexes; each operator below is one critical section of the code, so    *)
(* the modules that use it interleave at exactly the places where the code *)
(* releases a lock.  Subscriptions, behind a mutex of their own, are in    *)
(* the module Subscriptions.                                               *)
(*                                                                         *)
(* A binding's expression, a message template and the fields of an action  *)
(* are left out: nothing in the store depends on them.  An endpoint stands *)
(* for the (URL, Service, Method) of an upstream, and cacheKeyOf for the   *)
(* (ClusterName, Service) that the code derives from it, which different   *)
(* endpoints may share.                                                    *)
(***************************************************************************)
CONSTANTS
    Policies,    \* the ResourceIDs of the kind
    Names,       \* the names an extension gives its action methods
    Endpoints,   \* (URL, Service, Method)
    CacheKeys,   \* (ClusterName, Service)
    cacheKeyOf,  \* the ProtoCacheKey of an endpoint
    Plain        \* a pipeline action that calls no method (deny, fail, ...)

ASSUME EndpointsAssumption == cacheKeyOf \in [Endpoints -> CacheKeys]
ASSUME PlainAssumption == Plain \notin Names

VARIABLES
    dataProviders,       \* policies with a registered mutator
    registeredUpstreams, \* the keys of the registered action methods
    protoCache,          \* the ProtoCacheKeys with a cached descriptor set
    pipelineActions,     \* what a policy committed, both phases together
    pipelineTargetRefs   \* policies whose target references are stored

dataVars == <<dataProviders, registeredUpstreams, protoCache,
               pipelineActions, pipelineTargetRefs>>

RegisteredUpstreamKey == [policy : Policies, name : Names, endpoint : Endpoints]

Actions == Names \cup {Plain}

DataTypeOK ==
    /\ dataProviders \subseteq Policies
    /\ registeredUpstreams \subseteq RegisteredUpstreamKey
    /\ protoCache \subseteq CacheKeys
    /\ pipelineActions \in [Policies -> SUBSET Actions]
    /\ pipelineTargetRefs \subseteq Policies

NewRegisteredDataStore ==
    /\ dataProviders = {}
    /\ registeredUpstreams = {}
    /\ protoCache = {}
    /\ pipelineActions = [p \in Policies |-> {}]
    /\ pipelineTargetRefs = {}

-----------------------------------------------------------------------------

UpstreamsOf(ps) == {k \in registeredUpstreams : k.policy \in ps}

CacheKeysOf(ks) == {cacheKeyOf[k.endpoint] : k \in ks}

HasUpstreamName(p, n) == \E k \in UpstreamsOf({p}) : k.name = n

\* Another key of the same policy uses the name of this one.
IsUpstreamNameTaken(key) ==
    \E k \in registeredUpstreams :
        k.policy = key.policy /\ k.name = key.name /\ k # key

Set(p) ==
    /\ dataProviders' = dataProviders \cup {p}
    /\ UNCHANGED <<registeredUpstreams, protoCache,
                   pipelineActions, pipelineTargetRefs>>

\* The write relies on a check made before an unlock.
SetUpstreamIfNameWasAvailable(key) ==
    /\ registeredUpstreams' = registeredUpstreams \cup {key}
    /\ protoCache' = protoCache \cup {cacheKeyOf[key.endpoint]}
    /\ UNCHANGED <<dataProviders, pipelineActions, pipelineTargetRefs>>

\* Checks the name and writes in one critical section; disabled when the name
\* is taken, where the code returns false and writes nothing.
SetUpstreamIfNameAvailable(key) ==
    /\ ~IsUpstreamNameTaken(key)
    /\ registeredUpstreams' = registeredUpstreams \cup {key}
    /\ protoCache' = protoCache \cup {cacheKeyOf[key.endpoint]}
    /\ UNCHANGED <<dataProviders, pipelineActions, pipelineTargetRefs>>

ReplacePipelineActions(p, actions) ==
    /\ pipelineActions' = [pipelineActions EXCEPT ![p] = actions]
    /\ UNCHANGED <<dataProviders, registeredUpstreams, protoCache,
                   pipelineTargetRefs>>

SetPipelineTargetRefs(p) ==
    /\ pipelineTargetRefs' = pipelineTargetRefs \cup {p}
    /\ UNCHANGED <<dataProviders, registeredUpstreams, protoCache,
                   pipelineActions>>

\* The descriptors go with the cleared upstreams, whoever else uses them.
ClearPolicyDataWithCache(ps) ==
    /\ dataProviders' = dataProviders \ ps
    /\ registeredUpstreams' = registeredUpstreams \ UpstreamsOf(ps)
    /\ protoCache' = protoCache \ CacheKeysOf(UpstreamsOf(ps))
    /\ pipelineActions' =
          [p \in Policies |-> IF p \in ps THEN {} ELSE pipelineActions[p]]
    /\ pipelineTargetRefs' = pipelineTargetRefs \ ps

\* All four mutexes are held, so this is one step.  A descriptor set goes with
\* the last upstream that refers to it.
ClearPolicyData(ps) ==
    LET left == registeredUpstreams \ UpstreamsOf(ps) IN
    /\ dataProviders' = dataProviders \ ps
    /\ registeredUpstreams' = left
    /\ protoCache' = protoCache
                        \ (CacheKeysOf(UpstreamsOf(ps)) \ CacheKeysOf(left))
    /\ pipelineActions' =
          [p \in Policies |-> IF p \in ps THEN {} ELSE pipelineActions[p]]
    /\ pipelineTargetRefs' = pipelineTargetRefs \ ps

\* The mutators, upstreams and pipeline actions that ClearPolicyData would
\* count; target references are cleared but not counted.
Counted(ps) ==
    \/ dataProviders \cap ps # {}
    \/ UpstreamsOf(ps) # {}
    \/ \E p \in ps : pipelineActions[p] # {}

\* Only policies with a mutator or an upstream are looked for.
PolicyIDsWithoutPipeline ==
    dataProviders \cup {k.policy : k \in registeredUpstreams}

\* The policies that have anything in the store.
PolicyIDsForKind ==
    dataProviders \cup {k.policy : k \in registeredUpstreams}
                  \cup {p \in Policies : pipelineActions[p] # {}}
                  \cup pipelineTargetRefs

-----------------------------------------------------------------------------
(***************************************************************************)
(* A name stands for one endpoint within a policy, although the handler    *)
(* that registers it checks the name, spends seconds in gRPC reflection    *)
(* and only then writes (SetUpstreamIfNameAvailable).  mutateWasmConfig    *)
(* finds the service of an action by the name alone.                       *)
(***************************************************************************)
NamesUnique ==
    \A k1, k2 \in registeredUpstreams :
        k1.policy = k2.policy /\ k1.name = k2.name => k1 = k2

(***************************************************************************)
(* The descriptor cache holds the descriptors of the registered upstreams, *)
(* all of them and no other: clearing a policy neither takes a descriptor  *)
(* set from another policy (ClearPolicyData checks what is still           *)
(* referenced) nor leaves one that no clear will ever remove.              *)
(***************************************************************************)
CacheExact == protoCache = CacheKeysOf(registeredUpstreams)
=============================================================================
