----------------------- MODULE ExtensionServiceProofs -----------------------
(***************************************************************************)
(* The invariants of the store, for any number of policies, methods and    *)
(* handlers in flight.  Those of the upstreams and the descriptor cache    *)
(* are inductive by themselves, because each critical section              *)
(* re-establishes them.  Those that relate the store to the policies of    *)
(* the cluster are not: what a handler may still write depends on the      *)
(* place it has reached and on the session it was called in, and the       *)
(* second part of the module carries that along (ServiceInv).  The third   *)
(* follows a change from the store to the rendered configuration.          *)
(***************************************************************************)
EXTENDS ExtensionService, ConfigTrigger, TLAPS

StoreInv == NamesUnique /\ CacheExact

\* A step that changes neither the upstreams nor the descriptors.
LEMMA SameUpstreams ==
  ASSUME StoreInv, UNCHANGED <<registeredUpstreams, protoCache>>
  PROVE  StoreInv'
  BY DEF StoreInv, NamesUnique, CacheExact, CacheKeysOf

\* Registering an action method under the lock.
LEMMA SetUpstreamInv ==
  ASSUME StoreInv, NEW key, SetUpstreamIfNameAvailable(key)
  PROVE  StoreInv'
<1>1. NamesUnique'
  BY DEF StoreInv, NamesUnique, SetUpstreamIfNameAvailable, IsUpstreamNameTaken
<1>2. CacheExact'
  BY DEF StoreInv, CacheExact, CacheKeysOf, SetUpstreamIfNameAvailable
<1> QED
  BY <1>1, <1>2 DEF StoreInv

\* Clearing policies: a descriptor goes exactly with its last upstream.
LEMMA ClearInv ==
  ASSUME StoreInv, NEW ps, ClearPolicyData(ps)
  PROVE  StoreInv'
<1> DEFINE gone == UpstreamsOf(ps)
           left == registeredUpstreams \ gone
<1>1. registeredUpstreams' = left
  BY DEF ClearPolicyData
<1>2. protoCache' = protoCache \ (CacheKeysOf(gone) \ CacheKeysOf(left))
  BY DEF ClearPolicyData
<1>3. gone \subseteq registeredUpstreams
  BY DEF UpstreamsOf
<1> HIDE DEF gone
<1>4. NamesUnique'
  BY <1>1 DEF StoreInv, NamesUnique
<1>5. CacheKeysOf(registeredUpstreams) = CacheKeysOf(gone) \cup CacheKeysOf(left)
  BY <1>3 DEF CacheKeysOf
<1>6. protoCache' = CacheKeysOf(left)
  BY <1>2, <1>5 DEF StoreInv, CacheExact
<1>7. CacheExact'
  BY <1>1, <1>6 DEF CacheExact, CacheKeysOf
<1> QED
  BY <1>4, <1>7 DEF StoreInv

\* Every step of the service keeps the store in order.
LEMMA StepStoreInv == StoreInv /\ [Next]_vars => StoreInv'
<1> SUFFICES ASSUME StoreInv, [Next]_vars PROVE StoreInv'
  OBVIOUS
<1>1. ASSUME NEW c \in Slots, RegisterActionMethod(c) PROVE StoreInv'
  BY <1>1, SetUpstreamInv DEF RegisterActionMethod
<1>2. ASSUME NEW c \in Slots, ClearPolicy(c) PROVE StoreInv'
  BY <1>2, ClearInv DEF ClearPolicy
<1>3. ASSUME NEW c \in Slots, pruneStalePolicies(c) PROVE StoreInv'
  BY <1>3, ClearInv DEF pruneStalePolicies
<1>4. ASSUME NEW c \in Slots,
             RegisterMutator(c) \/ CommitActions(c) \/ CommitTargetRefs(c)
      PROVE  UNCHANGED <<registeredUpstreams, protoCache>>
  BY <1>4 DEF RegisterMutator, Set, CommitActions, ReplacePipelineActions,
              CommitTargetRefs, SetPipelineTargetRefs
<1>5. ASSUME NEW c \in Slots, StartWork(c) \/ StartHandshake(c)
      PROVE  UNCHANGED <<registeredUpstreams, protoCache>>
  BY <1>5 DEF StartWork, StartHandshake, Start, dataVars
<1>6. ASSUME NEW c \in Slots,
             \/ CheckName(c) \/ ReflectionFails(c) \/ NameTaken(c)
             \/ validateActions(c) \/ InvalidActions(c) \/ TriggerFails(c)
             \/ Triggered(c) \/ ListStale(c)
      PROVE  UNCHANGED <<registeredUpstreams, protoCache>>
  BY <1>6 DEF CheckName, ReflectionFails, NameTaken, Refuse, validateActions,
              InvalidActions, TriggerFails, Triggered, ListStale, dataVars
<1>7. ASSUME SessionLost \/ PolicyCreated \/ PolicyGone \/ UNCHANGED vars
      PROVE  UNCHANGED <<registeredUpstreams, protoCache>>
  BY <1>7 DEF SessionLost, PolicyCreated, PolicyGone, vars, dataVars
<1> QED
  BY <1>1, <1>2, <1>3, <1>4, <1>5, <1>6, <1>7, SameUpstreams DEF Next

(***************************************************************************)
(* However handlers of any number of sessions interleave, a method name    *)
(* stands for one endpoint of its policy: the check before the slow        *)
(* reflection is not relied on, the one that shares the lock with the      *)
(* write is (SetUpstreamIfNameAvailable).                                  *)
(***************************************************************************)
THEOREM UpstreamNames == Spec => []NamesUnique
<1>1. Init => StoreInv
  BY DEF Init, NewRegisteredDataStore, StoreInv, NamesUnique, CacheExact,
         CacheKeysOf
<1>2. StoreInv => NamesUnique
  BY DEF StoreInv
<1> QED
  BY <1>1, <1>2, StepStoreInv, PTL DEF Spec

(***************************************************************************)
(* The descriptor cache always holds exactly the descriptors of the        *)
(* registered upstreams: clearing policies never takes one that another    *)
(* policy uses and never leaves one behind (ClearPolicyData).              *)
(***************************************************************************)
THEOREM DescriptorCache == Spec => []CacheExact
<1>1. Init => StoreInv
  BY DEF Init, NewRegisteredDataStore, StoreInv, NamesUnique, CacheExact,
         CacheKeysOf
<1>2. StoreInv => CacheExact
  BY DEF StoreInv
<1> QED
  BY <1>1, <1>2, StepStoreInv, PTL DEF Spec

-----------------------------------------------------------------------------
(***************************************************************************)
(* What the store has of a policy while handlers interleave.  The places   *)
(* that handlers have reached carry the argument: what a handler found out *)
(* in one critical section still holds in its next one, unless a handler   *)
(* of a lost session has written in between, which strayed records.        *)
(***************************************************************************)
Ops == {"RegisterMutator", "RegisterActionMethod", "PipelineCommit",
        "ClearPolicy", "Handshake"}

Places == {"start", "reflect", "replace", "refs", "clear", "trigger"}

Args == RegisteredUpstreamKey \cup (SUBSET Actions) \cup (SUBSET Policies)

CallRecord == [op : Ops, policy : Policies \cup {Idle}, arg : Args,
               at : Places, orphan : BOOLEAN]

\* What a call is made with, by its operation.
ProperCall(k) ==
    /\ k.op # "Handshake" => k.policy \in Policies
    /\ k.op = "RegisterActionMethod" =>
          k.arg \in RegisteredUpstreamKey /\ k.arg.policy = k.policy
    /\ k.op = "PipelineCommit" => k.arg \subseteq Actions
    /\ k.op = "Handshake" => k.arg \subseteq Policies

CallsOK ==
    /\ calls \in [Slots -> CallRecord \cup {Idle}]
    /\ \A c \in InFlight : ProperCall(calls[c])

\* The extension works under a session, on one call at a time and on policies
\* that exist; it handshakes without a session, naming policies that exist.
ClientOK ==
    /\ exists \subseteq Policies
    /\ \A c, d \in Working : c = d
    /\ \A c, d \in Handshaking : c = d
    /\ Working # {} => session
    /\ Handshaking # {} => ~session
    /\ \A c \in Working : calls[c].policy \in exists
    /\ \A c \in Handshaking : calls[c].at = "start" => calls[c].arg \subseteq exists

\* The store has nothing of a policy.
Bare(p) ==
    /\ p \notin dataProviders
    /\ UpstreamsOf({p}) = {}
    /\ pipelineActions[p] = {}
    /\ p \notin pipelineTargetRefs

\* Policies of which the store may have nothing once a prune is over.
Unexpected == Policies \ (exists \cup strayed)

\* A policy whose finalizer is about to go has been cleared.
ClearsDone ==
    \A c \in Working : calls[c].op = "ClearPolicy" /\ calls[c].at = "trigger"
        => calls[c].policy \in strayed \/ Bare(calls[c].policy)

\* A prune has listed all that it has to clear, and then cleared it.
PrunesDone ==
    \A c \in Handshaking :
        /\ calls[c].at = "clear" => \A p \in Unexpected \ calls[c].arg : Bare(p)
        /\ calls[c].at = "trigger" => \A p \in Unexpected : Bare(p)

StrayInv ==
    /\ session => \A p \in Unexpected : Bare(p)
    /\ ClearsDone
    /\ PrunesDone

\* What a commit has validated but not written yet is still valid.
CommitsValid ==
    \A c \in Working : calls[c].op = "PipelineCommit" /\ calls[c].at = "replace"
        => calls[c].policy \in strayed \/ Valid(calls[c].policy, calls[c].arg)

BackedInv == ActionsBacked /\ CommitsValid

ServiceInv == DataTypeOK /\ CallsOK /\ ClientOK /\ StrayInv /\ BackedInv

LEMMA CallFacts ==
  ASSUME CallsOK, NEW c \in InFlight
  PROVE  /\ c \in Slots
         /\ calls[c] \in CallRecord
         /\ ProperCall(calls[c])
<1>1. c \in Slots /\ calls[c] # Idle
  BY DEF InFlight
<1> QED
  BY <1>1 DEF CallsOK

LEMMA IdleFacts ==
  /\ Idle \notin CallRecord
  /\ \A op \in Ops, p \in Policies \cup {Idle}, arg \in Args : Call(op, p, arg) \in CallRecord
BY DEF Idle, CallRecord, Ops, Call, Places

\* The record of c changes to another one of the same operation and session.
LEMMA ChangedCall ==
  ASSUME CallsOK, NEW c \in InFlight, NEW k \in CallRecord, ProperCall(k),
         k.op = calls[c].op, k.orphan = calls[c].orphan,
         calls' = [calls EXCEPT ![c] = k]
  PROVE  /\ CallsOK'
         /\ InFlight' = InFlight /\ Working' = Working /\ Handshaking' = Handshaking
         /\ calls'[c] = k
         /\ \A d \in InFlight \ {c} : calls'[d] = calls[d]
<1>1. c \in Slots /\ k # Idle
  BY IdleFacts, CallFacts
<1>2. calls' \in [Slots -> CallRecord \cup {Idle}]
  BY <1>1 DEF CallsOK
<1>3. /\ calls'[c] = k
      /\ \A d \in Slots \ {c} : calls'[d] = calls[d]
  BY <1>1 DEF CallsOK
<1>4. InFlight' = InFlight
  BY <1>1, <1>3 DEF InFlight
<1>5. \A d \in InFlight : ProperCall(calls'[d])
  BY <1>3 DEF CallsOK, InFlight
<1>6. CallsOK'
  BY <1>2, <1>4, <1>5 DEF CallsOK, ProperCall
<1>7. Working' = Working /\ Handshaking' = Handshaking
  BY <1>3, <1>4 DEF Working, Handshaking, InFlight
<1> QED
  BY <1>3, <1>4, <1>6, <1>7 DEF InFlight

\* A handler goes on to another place.
LEMMA MovedCall ==
  ASSUME CallsOK, NEW c \in InFlight, NEW place \in Places, Move(c, place)
  PROVE  /\ CallsOK'
         /\ InFlight' = InFlight /\ Working' = Working /\ Handshaking' = Handshaking
         /\ calls'[c].at = place /\ calls'[c].op = calls[c].op
         /\ calls'[c].policy = calls[c].policy /\ calls'[c].arg = calls[c].arg
         /\ \A d \in InFlight \ {c} : calls'[d] = calls[d]
<1> DEFINE k == [calls[c] EXCEPT !.at = place]
<1>1. calls' = [calls EXCEPT ![c] = k]
  BY CallFacts DEF Move, CallsOK
<1>2. /\ k \in CallRecord /\ k.at = place /\ k.op = calls[c].op /\ k.orphan = calls[c].orphan
      /\ k.policy = calls[c].policy /\ k.arg = calls[c].arg
  BY CallFacts DEF CallRecord
<1>3. ProperCall(k)
  BY <1>2, CallFacts DEF ProperCall
<1> HIDE DEF k
<1> QED
  BY <1>1, <1>2, <1>3, ChangedCall, Zenon

\* A handler returns.
LEMMA EndedCall ==
  ASSUME CallsOK, NEW c \in InFlight, calls' = [calls EXCEPT ![c] = Idle]
  PROVE  /\ CallsOK'
         /\ InFlight' = InFlight \ {c}
         /\ Working' = Working \ {c}
         /\ Handshaking' = Handshaking \ {c}
         /\ \A d \in InFlight \ {c} : calls'[d] = calls[d]
<1>1. c \in Slots
  BY CallFacts
<1>2. calls' \in [Slots -> CallRecord \cup {Idle}]
  BY <1>1 DEF CallsOK
<1>3. /\ calls'[c] = Idle
      /\ \A d \in Slots \ {c} : calls'[d] = calls[d]
  BY <1>1 DEF CallsOK
<1>4. InFlight' = InFlight \ {c}
  BY <1>3 DEF InFlight
<1>5. \A d \in InFlight' : calls'[d] = calls[d]
  BY <1>3, <1>4 DEF InFlight
<1>6. CallsOK'
  BY <1>2, <1>4, <1>5 DEF CallsOK, ProperCall
<1> QED
  BY <1>4, <1>5, <1>6 DEF Working, Handshaking

\* A call comes in.
LEMMA NewCall ==
  ASSUME CallsOK, NEW c \in Slots, NEW op \in Ops, NEW p \in Policies \cup {Idle},
         NEW arg \in Args, ProperCall(Call(op, p, arg)),
         calls[c] = Idle, calls' = [calls EXCEPT ![c] = Call(op, p, arg)]
  PROVE  /\ CallsOK'
         /\ Working' = IF op = "Handshake" THEN Working ELSE Working \cup {c}
         /\ Handshaking' = IF op = "Handshake" THEN Handshaking \cup {c} ELSE Handshaking
         /\ c \notin InFlight
         /\ calls'[c] = Call(op, p, arg)
         /\ \A d \in InFlight : calls'[d] = calls[d]
<1> DEFINE k == Call(op, p, arg)
<1>1. k \in CallRecord /\ k # Idle
  BY IdleFacts
<1>2. k.op = op /\ k.orphan = FALSE
  BY DEF Call
<1> HIDE DEF k
<1>3. calls' \in [Slots -> CallRecord \cup {Idle}]
  BY <1>1 DEF CallsOK, k
<1>4. /\ calls'[c] = k
      /\ \A d \in Slots \ {c} : calls'[d] = calls[d]
  BY DEF CallsOK, k
<1>5. InFlight' = InFlight \cup {c} /\ c \notin InFlight
  BY <1>1, <1>4 DEF InFlight
<1>6. \A d \in InFlight : calls'[d] = calls[d]
  BY <1>4, <1>5 DEF InFlight
<1>7. ProperCall(k)
  BY DEF k
<1>8. CallsOK'
  BY <1>3, <1>4, <1>5, <1>6, <1>7 DEF CallsOK, ProperCall
<1>9. /\ Working' = IF op = "Handshake" THEN Working ELSE Working \cup {c}
      /\ Handshaking' = IF op = "Handshake" THEN Handshaking \cup {c} ELSE Handshaking
  BY <1>2, <1>4, <1>5, <1>6 DEF Working, Handshaking
<1> QED
  BY <1>4, <1>5, <1>6, <1>8, <1>9 DEF k

-----------------------------------------------------------------------------
\* A step leaves what the store has of a policy as it is.
Unaltered(p) ==
    /\ p \in dataProviders' <=> p \in dataProviders
    /\ UpstreamsOf({p})' = UpstreamsOf({p})
    /\ pipelineActions'[p] = pipelineActions[p]
    /\ p \in pipelineTargetRefs' <=> p \in pipelineTargetRefs

LEMMA UnalteredFacts ==
  ASSUME NEW p, Unaltered(p)
  PROVE  /\ Bare(p)' <=> Bare(p)
         /\ \A n : HasUpstreamName(p, n)' <=> HasUpstreamName(p, n)
         /\ pipelineActions'[p] = pipelineActions[p]
BY DEF Unaltered, Bare, HasUpstreamName, UpstreamsOf

LEMMA StoreUntouched ==
  ASSUME UNCHANGED dataVars
  PROVE  /\ DataTypeOK => DataTypeOK'
         /\ \A p : Unaltered(p)
BY DEF dataVars, Unaltered, DataTypeOK, UpstreamsOf

\* The critical sections that write what one policy registers.
LEMMA StoreWritten ==
  ASSUME DataTypeOK, NEW q \in Policies,
         \/ Set(q)
         \/ \E key \in RegisteredUpstreamKey :
               key.policy = q /\ SetUpstreamIfNameAvailable(key)
         \/ \E actions \in SUBSET Actions : ReplacePipelineActions(q, actions)
         \/ SetPipelineTargetRefs(q)
  PROVE  /\ DataTypeOK'
         /\ \A p \in Policies \ {q} : Unaltered(p)
<1>1. CASE Set(q)
  BY <1>1 DEF Set, DataTypeOK, Unaltered, UpstreamsOf
<1>2. CASE SetPipelineTargetRefs(q)
  BY <1>2 DEF SetPipelineTargetRefs, DataTypeOK, Unaltered, UpstreamsOf
<1>3. ASSUME NEW actions \in SUBSET Actions, ReplacePipelineActions(q, actions)
      PROVE  /\ DataTypeOK'
             /\ \A p \in Policies \ {q} : Unaltered(p)
  BY <1>3 DEF ReplacePipelineActions, DataTypeOK, Unaltered, UpstreamsOf
<1>4. ASSUME NEW key \in RegisteredUpstreamKey, key.policy = q, SetUpstreamIfNameAvailable(key)
      PROVE  /\ DataTypeOK'
             /\ \A p \in Policies \ {q} : Unaltered(p)
  <2>1. cacheKeyOf[key.endpoint] \in CacheKeys
    BY EndpointsAssumption DEF RegisteredUpstreamKey
  <2>2. DataTypeOK'
    BY <1>4, <2>1 DEF SetUpstreamIfNameAvailable, DataTypeOK
  <2>3. \A p \in Policies \ {q} : UpstreamsOf({p})' = UpstreamsOf({p})
    BY <1>4 DEF SetUpstreamIfNameAvailable, UpstreamsOf
  <2> QED
    BY <1>4, <2>2, <2>3 DEF SetUpstreamIfNameAvailable, Unaltered
<1> QED
  BY <1>1, <1>2, <1>3, <1>4

LEMMA StoreCleared ==
  ASSUME DataTypeOK, NEW ps, ClearPolicyData(ps)
  PROVE  /\ DataTypeOK'
         /\ \A p \in Policies \cap ps : Bare(p)'
         /\ \A p \in Policies \ ps : Unaltered(p)
<1>1. DataTypeOK'
  BY DEF ClearPolicyData, DataTypeOK
<1>2. registeredUpstreams' = {k \in registeredUpstreams : k.policy \notin ps}
  BY DEF ClearPolicyData, UpstreamsOf
<1>3. /\ \A p \in Policies \cap ps : UpstreamsOf({p})' = {}
      /\ \A p \in Policies \ ps : UpstreamsOf({p})' = UpstreamsOf({p})
  BY <1>2 DEF UpstreamsOf
<1>4. \A p \in Policies \cap ps : Bare(p)'
  BY <1>3, Zenon DEF ClearPolicyData, Bare
<1>5. \A p \in Policies \ ps : Unaltered(p)
  BY <1>3 DEF ClearPolicyData, Unaltered
<1> QED
  BY <1>1, <1>4, <1>5

-----------------------------------------------------------------------------
LEMMA InitService == Init => ServiceInv
<1> SUFFICES ASSUME Init PROVE ServiceInv
  OBVIOUS
<1>1. InFlight = {} /\ Working = {} /\ Handshaking = {}
  BY DEF Init, InFlight, Working, Handshaking
<1>2. DataTypeOK
  BY DEF Init, NewRegisteredDataStore, DataTypeOK
<1>3. CallsOK
  BY <1>1 DEF Init, CallsOK
<1>4. ClientOK /\ StrayInv
  BY <1>1 DEF Init, ClientOK, StrayInv, ClearsDone, PrunesDone
<1>5. BackedInv
  BY <1>1 DEF Init, NewRegisteredDataStore, BackedInv, ActionsBacked, CommitsValid
<1> QED
  BY <1>2, <1>3, <1>4, <1>5 DEF ServiceInv

\* A handler that has found out something, or whose trigger is refused, goes on.
LEMMA GoOnStep ==
  ASSUME ServiceInv, NEW c \in Slots,
         CheckName(c) \/ validateActions(c) \/ TriggerFails(c)
  PROVE  ServiceInv'
<1>1. PICK place \in {"reflect", "replace", "start"} :
         /\ Move(c, place)
         /\ calls[c].op \in {"RegisterActionMethod", "PipelineCommit"}
         /\ place = "replace" => Valid(calls[c].policy, calls[c].arg)
  BY DEF CheckName, validateActions, TriggerFails, At
<1>2. c \in InFlight /\ UNCHANGED <<dataVars, exists, session, strayed>>
  BY Zenon DEF CheckName, validateActions, TriggerFails, At
<1>3. /\ CallsOK'
      /\ Working' = Working /\ Handshaking' = Handshaking
      /\ calls'[c].at = place /\ calls'[c].op = calls[c].op
      /\ calls'[c].policy = calls[c].policy /\ calls'[c].arg = calls[c].arg
      /\ \A d \in InFlight \ {c} : calls'[d] = calls[d]
  BY <1>1, <1>2, MovedCall DEF ServiceInv, Places
<1>4. DataTypeOK' /\ \A p : Unaltered(p)
  BY <1>2, StoreUntouched DEF ServiceInv
<1>5. Working \subseteq InFlight /\ Handshaking \subseteq InFlight \ {c}
  BY <1>1, Zenon DEF Working, Handshaking
<1>6. ClientOK'
  BY <1>2, <1>3, <1>5 DEF ServiceInv, ClientOK
<1>7. Unexpected' = Unexpected
  BY <1>2 DEF Unexpected
<1>8. StrayInv'
  BY <1>1, <1>2, <1>3, <1>4, <1>5, <1>7, UnalteredFacts, Zenon DEF ServiceInv, StrayInv, ClearsDone, PrunesDone
<1>9. ActionsBacked'
  BY <1>2, <1>4, UnalteredFacts, Zenon DEF ServiceInv, BackedInv, ActionsBacked
<1>10. CommitsValid'
  BY <1>1, <1>2, <1>3, <1>4, <1>5, UnalteredFacts, ZenonT(40) DEF ServiceInv, BackedInv, CommitsValid, Valid
<1> QED
  BY <1>3, <1>4, <1>6, <1>8, <1>9, <1>10 DEF ServiceInv, BackedInv

\* A handler returns without having written.
LEMMA RefuseStep ==
  ASSUME ServiceInv, NEW c \in Slots,
         ReflectionFails(c) \/ NameTaken(c) \/ InvalidActions(c)
  PROVE  ServiceInv'
<1>1. c \in InFlight /\ Refuse(c)
  BY DEF ReflectionFails, NameTaken, InvalidActions, At
<1>2. UNCHANGED <<dataVars, exists, session, strayed>>
  BY <1>1 DEF Refuse
<1>3. /\ CallsOK'
      /\ Working' = Working \ {c}
      /\ Handshaking' = Handshaking \ {c}
      /\ \A d \in InFlight \ {c} : calls'[d] = calls[d]
  BY <1>1, EndedCall, Zenon DEF ServiceInv, Refuse
<1>4. DataTypeOK' /\ \A p : Unaltered(p)
  BY <1>2, StoreUntouched DEF ServiceInv
<1>5. Working \subseteq InFlight /\ Handshaking \subseteq InFlight
  BY DEF Working, Handshaking
<1>6. ClientOK'
  BY <1>2, <1>3, <1>5 DEF ServiceInv, ClientOK
<1>7. Unexpected' = Unexpected
  BY <1>2 DEF Unexpected
<1>8. StrayInv'
  BY <1>2, <1>3, <1>4, <1>5, <1>7, UnalteredFacts, Zenon DEF ServiceInv, StrayInv, ClearsDone, PrunesDone
<1>9. ActionsBacked'
  BY <1>2, <1>4, UnalteredFacts, Zenon DEF ServiceInv, BackedInv, ActionsBacked
<1>10. CommitsValid'
  BY <1>2, <1>3, <1>4, <1>5, UnalteredFacts, Zenon DEF ServiceInv, BackedInv, CommitsValid, Valid
<1> QED
  BY <1>3, <1>4, <1>6, <1>8, <1>9, <1>10 DEF ServiceInv, BackedInv

\* A call comes in: of the extension's reconciliation, or a handshake.
LEMMA StartStep ==
  ASSUME ServiceInv, NEW c \in Slots, StartWork(c) \/ StartHandshake(c)
  PROVE  ServiceInv'
<1> DEFINE Fits(op, p, arg) ==
             /\ Start(c, op, p, arg)
             /\ ProperCall(Call(op, p, arg))
             /\ IF op = "Handshake" THEN ~session /\ Handshaking = {} /\ arg = exists
                                    ELSE session /\ Working = {} /\ p \in exists
<1>1. PICK op \in Ops, p \in Policies \cup {Idle}, arg \in Args : Fits(op, p, arg)
  <2>1. \A op, p, arg : LET k == Call(op, p, arg) IN k.op = op /\ k.policy = p /\ k.arg = arg
    BY DEF Call
  <2>2. exists \subseteq Policies /\ \A ps \in SUBSET Policies : ps \in Args
    BY Zenon DEF Args, ServiceInv, ClientOK
  <2>3. CASE StartHandshake(c)
    BY <2>1, <2>2, <2>3 DEF StartHandshake, Ops, ProperCall
  <2>4. ASSUME StartWork(c), NEW p \in exists, NEW op \in {"ClearPolicy", "RegisterMutator"},
               Start(c, op, p, {})
        PROVE  Fits(op, p, {})
    BY <2>1, <2>2, <2>4 DEF StartWork, ProperCall
  <2>5. ASSUME StartWork(c), NEW k \in Methods, k.policy \in exists,
               Start(c, "RegisterActionMethod", k.policy, k)
        PROVE  k \in Args /\ Fits("RegisterActionMethod", k.policy, k)
    <3>1. k \in RegisteredUpstreamKey
      BY RequestsAssumption, Zenon
    <3> QED
      BY <2>1, <2>2, <2>5, <3>1 DEF StartWork, ProperCall, Args
  <2>6. ASSUME StartWork(c), NEW r \in Commits, r.policy \in exists,
               Start(c, "PipelineCommit", r.policy, r.actions)
        PROVE  r.actions \in Args /\ Fits("PipelineCommit", r.policy, r.actions)
    <3>1. r.actions \subseteq Actions
      BY RequestsAssumption, Zenon
    <3> QED
      BY <2>1, <2>2, <2>6, <3>1 DEF StartWork, ProperCall, Args
  <2>7. CASE StartWork(c)
    <3> HIDE DEF Fits
    <3> QED
      BY <2>2, <2>4, <2>5, <2>6, <2>7 DEF StartWork, Ops
  <2> QED
    BY <2>3, <2>7
<1>2. calls[c] = Idle /\ UNCHANGED <<dataVars, exists, session, strayed>>
  BY <1>1 DEF Start
<1>3. /\ CallsOK'
      /\ Working' = IF op = "Handshake" THEN Working ELSE Working \cup {c}
      /\ Handshaking' = IF op = "Handshake" THEN Handshaking \cup {c} ELSE Handshaking
      /\ c \notin InFlight
      /\ calls'[c] = Call(op, p, arg)
      /\ \A d \in InFlight : calls'[d] = calls[d]
  BY <1>1, NewCall, Zenon DEF ServiceInv, Start
<1>4. DataTypeOK' /\ \A q : Unaltered(q)
  BY <1>2, StoreUntouched DEF ServiceInv
<1>5. Working \subseteq InFlight /\ Handshaking \subseteq InFlight
  BY Zenon DEF Working, Handshaking
<1>6. calls'[c].at = "start" /\ calls'[c].policy = p /\ calls'[c].arg = arg
  BY <1>3 DEF Call
<1>7. ClientOK'
  BY <1>1, <1>2, <1>3, <1>5, <1>6 DEF ServiceInv, ClientOK
<1>8. Unexpected' = Unexpected
  BY <1>2, Zenon DEF Unexpected
<1>9. StrayInv'
  BY <1>2, <1>3, <1>4, <1>5, <1>6, <1>8, UnalteredFacts, Zenon DEF ServiceInv, StrayInv, ClearsDone, PrunesDone
<1>10. ActionsBacked'
  BY <1>2, <1>4, UnalteredFacts, Zenon DEF ServiceInv, BackedInv, ActionsBacked
<1>11. CommitsValid'
  BY <1>2, <1>3, <1>4, <1>5, <1>6, UnalteredFacts DEF ServiceInv, BackedInv, CommitsValid, Valid
<1> QED
  BY <1>3, <1>4, <1>7, <1>9, <1>10, <1>11 DEF ServiceInv, BackedInv

\* The policies that two calls are about, when the one writes: the other is not of the
\* extension's reconciliation, or the writer is an orphan.
LEMMA OtherCalls ==
  ASSUME ServiceInv, NEW c \in InFlight, ~calls[c].orphan
  PROVE  /\ Working \subseteq {c}
         /\ Handshaking \subseteq {c}
         /\ calls[c].op # "Handshake" => c \in Working /\ calls[c].policy \in exists
         /\ calls[c].op = "Handshake" => c \in Handshaking
<1>1. IF calls[c].op = "Handshake" THEN c \in Handshaking ELSE c \in Working
  BY Zenon DEF Working, Handshaking
<1> QED
  BY <1>1 DEF ServiceInv, ClientOK

\* A handler writes what its policy registers, and goes on.
LEMMA WriteStep ==
  ASSUME ServiceInv, NEW c \in Slots,
         \/ RegisterMutator(c) \/ RegisterActionMethod(c)
         \/ CommitActions(c) \/ CommitTargetRefs(c)
  PROVE  ServiceInv'
<1>0. PICK q : q = calls[c].policy
  BY Zenon
<1>1. PICK place \in {"trigger", "refs"} : Move(c, place)
  BY Zenon DEF RegisterMutator, RegisterActionMethod, CommitActions, CommitTargetRefs
<1>2. /\ c \in InFlight
      /\ calls[c].op \in {"RegisterMutator", "RegisterActionMethod", "PipelineCommit"}
      /\ Written(c, {q})
  BY <1>0, Zenon DEF RegisterMutator, RegisterActionMethod, CommitActions, CommitTargetRefs, At
<1>3. /\ q \in Policies
      /\ calls[c].op = "RegisterActionMethod" =>
            calls[c].arg \in RegisteredUpstreamKey /\ calls[c].arg.policy = q
      /\ calls[c].op = "PipelineCommit" => calls[c].arg \subseteq Actions
  BY <1>0, <1>2, CallFacts, Zenon DEF ServiceInv, ProperCall
<1>4. /\ strayed' = IF calls[c].orphan THEN strayed \cup {q} ELSE strayed
      /\ UNCHANGED <<exists, session>>
  BY <1>2, Zenon DEF Written
<1>5. /\ CallsOK'
      /\ Working' = Working /\ Handshaking' = Handshaking
      /\ calls'[c].at = place /\ calls'[c].op = calls[c].op
      /\ calls'[c].policy = calls[c].policy /\ calls'[c].arg = calls[c].arg
      /\ \A d \in InFlight \ {c} : calls'[d] = calls[d]
  BY <1>1, <1>2, MovedCall, Zenon DEF ServiceInv, Places
<1>6. DataTypeOK' /\ \A p \in Policies \ {q} : Unaltered(p)
  BY <1>0, <1>3, StoreWritten, Zenon
  DEF ServiceInv, RegisterMutator, RegisterActionMethod, CommitActions, CommitTargetRefs, At
<1>7. /\ Working \subseteq InFlight /\ Handshaking \subseteq InFlight \ {c}
      /\ \A d \in Working : calls[d].policy \in Policies
  BY <1>2, CallFacts, Zenon DEF Working, Handshaking, ServiceInv, ProperCall
<1>8. \/ calls[c].orphan
      \/ Working \subseteq {c} /\ Handshaking = {} /\ q \in exists
  BY <1>0, <1>2, <1>7, OtherCalls, Zenon
<1>9. ClientOK'
  BY <1>4, <1>5, <1>7 DEF ServiceInv, ClientOK
<1>10. Unexpected' \subseteq Unexpected \ {q}
  BY <1>4, <1>8, Zenon DEF Unexpected
<1>11. \A p \in Unexpected' : Bare(p)' <=> Bare(p)
  BY <1>6, <1>10, UnalteredFacts DEF Unexpected
<1>12. session' => \A p \in Unexpected' : Bare(p)'
  BY <1>4, <1>10, <1>11, Zenon DEF ServiceInv, StrayInv
<1>13. ClearsDone'
  BY <1>2, <1>4, <1>5, <1>6, <1>7, <1>8, UnalteredFacts, SMTT(20)
  DEF ServiceInv, StrayInv, ClearsDone
<1>14. PrunesDone'
  BY <1>5, <1>7, <1>10, <1>11, Zenon DEF ServiceInv, StrayInv, PrunesDone
<1>15. ASSUME ~calls[c].orphan, q \notin strayed, NEW n \in pipelineActions'[q] \ {Plain}
       PROVE  HasUpstreamName(q, n)'
  <2>1. \A m \in pipelineActions[q] \ {Plain} : HasUpstreamName(q, m)
    BY <1>3, <1>15 DEF ServiceInv, BackedInv, ActionsBacked
  <2>2. CASE CommitActions(c)
    <3>1. c \in Working /\ calls[c].op = "PipelineCommit" /\ calls[c].at = "replace"
      BY <1>2, <1>15, <2>2, OtherCalls, Zenon DEF CommitActions, At
    <3>2. \A m \in calls[c].arg \ {Plain} : HasUpstreamName(q, m)
      BY <1>0, <1>15, <3>1, Zenon DEF ServiceInv, BackedInv, CommitsValid, Valid
    <3>3. pipelineActions'[q] = calls[c].arg /\ registeredUpstreams' = registeredUpstreams
      BY <1>0, <1>3, <2>2, Zenon DEF CommitActions, ReplacePipelineActions, ServiceInv, DataTypeOK
    <3> QED
      BY <1>15, <3>2, <3>3, Zenon DEF HasUpstreamName, UpstreamsOf
  <2>3. CASE \/ RegisterActionMethod(c) \/ RegisterMutator(c) \/ CommitTargetRefs(c)
    <3>1. pipelineActions' = pipelineActions /\ registeredUpstreams \subseteq registeredUpstreams'
      BY <2>3 DEF RegisterActionMethod, SetUpstreamIfNameAvailable, RegisterMutator, Set,
                  CommitTargetRefs, SetPipelineTargetRefs
    <3> QED
      BY <1>15, <2>1, <3>1, Zenon DEF HasUpstreamName, UpstreamsOf
  <2> QED
    BY <2>2, <2>3, Zenon
<1>16. ActionsBacked'
  BY <1>3, <1>4, <1>6, <1>15, UnalteredFacts, Zenon DEF ServiceInv, BackedInv, ActionsBacked
<1>17. CommitsValid'
  <2> SUFFICES ASSUME NEW d \in Working, calls'[d].op = "PipelineCommit", calls'[d].at = "replace",
                      calls'[d].policy \notin strayed'
               PROVE  Valid(calls[d].policy, calls[d].arg)'
    BY <1>5, Zenon DEF CommitsValid
  <2>1. d # c /\ d \in InFlight \ {c} /\ calls[c].orphan
    BY <1>1, <1>5, <1>7, <1>8, Zenon
  <2>2. calls'[d] = calls[d] /\ calls[d].policy \in Policies \ {q} /\ calls[d].policy \notin strayed
    BY <1>4, <1>5, <1>7, <2>1, Zenon
  <2>3. Valid(calls[d].policy, calls[d].arg)
    BY <2>2, Zenon DEF ServiceInv, BackedInv, CommitsValid
  <2>4. \A n : HasUpstreamName(calls[d].policy, n)' <=> HasUpstreamName(calls[d].policy, n)
    BY <1>6, <2>2, UnalteredFacts, Zenon
  <2> QED
    BY <2>2, <2>3, <2>4 DEF Valid
<1> QED
  BY <1>5, <1>6, <1>9, <1>12, <1>13, <1>14, <1>16, <1>17 DEF ServiceInv, StrayInv, BackedInv

\* A handler that has just cleared the policies ps goes on to its trigger, or a handler
\* returns, when it has cleared or (ps is empty) triggered.
LEMMA ClearedStep ==
  ASSUME ServiceInv, NEW c \in InFlight, NEW ps \in SUBSET Policies,
         DataTypeOK',
         \A p \in ps : Bare(p)',
         \A p \in Policies \ ps : Unaltered(p),
         strayed' = IF calls[c].orphan THEN strayed \cup ps ELSE strayed \ ps,
         \/ /\ calls[c].at = "trigger"
            /\ ps = {}
         \/ /\ calls[c].op = "ClearPolicy"
            /\ ps = {calls[c].policy}
         \/ /\ calls[c].op = "Handshake"
            /\ calls[c].at = "clear"
            /\ ps = calls[c].arg,
         \/ Return(c)
         \/ /\ Move(c, "trigger")
            /\ UNCHANGED <<exists, session>>
  PROVE  ServiceInv'
<1>1. /\ CallsOK'
      /\ \A d \in InFlight \ {c} : calls'[d] = calls[d]
      /\ \/ /\ Return(c)
            /\ Working' = Working \ {c} /\ Handshaking' = Handshaking \ {c}
         \/ /\ Move(c, "trigger")
            /\ Working' = Working /\ Handshaking' = Handshaking
            /\ calls'[c].at = "trigger" /\ calls'[c].op = calls[c].op
            /\ calls'[c].policy = calls[c].policy
            /\ UNCHANGED <<exists, session>>
  BY EndedCall, MovedCall, Zenon DEF ServiceInv, Return, Places
<1>2. /\ Working \subseteq InFlight /\ Handshaking \subseteq InFlight
      /\ \A d \in Working : calls[d].policy \in Policies /\ calls[d].op # "Handshake"
      /\ \A d \in Handshaking : calls[d].op = "Handshake"
  BY CallFacts, Zenon DEF Working, Handshaking, ServiceInv, ProperCall
<1>3. calls[c].orphan => c \notin Working /\ c \notin Handshaking
  BY Zenon DEF Working, Handshaking
<1>4. ~calls[c].orphan =>
        /\ Working \subseteq {c} /\ Handshaking \subseteq {c}
        /\ IF calls[c].op = "Handshake" THEN c \in Handshaking ELSE c \in Working
  BY OtherCalls, Zenon
<1>5. exists' = IF Return(c) /\ c \in Working /\ calls[c].op = "ClearPolicy"
                   THEN exists \ {calls[c].policy} ELSE exists
  BY <1>1, Zenon DEF Return
<1>6. session' <=> (session \/ (Return(c) /\ c \in Handshaking))
  <2>1. CASE Return(c)
    BY <2>1, Zenon DEF Return
  <2>2. CASE ~Return(c)
    BY <2>2
  <2> QED
    BY <2>1, <2>2
<1>7. ASSUME ~calls[c].orphan, NEW p \in Unexpected'
      PROVE  Bare(p)'
  <2>1. CASE p \in ps
    BY <2>1, Zenon
  <2>2. CASE p \notin ps
    <3>1. p \in Policies /\ p \notin strayed /\ p \notin exists' /\ (Bare(p) => Bare(p)')
      BY <1>7, <2>2, UnalteredFacts, Zenon DEF Unexpected
    <3>2. CASE calls[c].op = "Handshake"
      BY <1>4, <1>5, <1>7, <2>2, <3>1, <3>2, <1>2, SMTT(20)
      DEF ServiceInv, StrayInv, PrunesDone, Unexpected
    <3>3. CASE calls[c].op # "Handshake" /\ p \notin exists
      BY <1>4, <1>7, <3>1, <3>3, Zenon DEF ServiceInv, ClientOK, StrayInv, Unexpected
    <3>4. CASE calls[c].op # "Handshake" /\ p \in exists
      <4>1. p = calls[c].policy /\ calls[c].op = "ClearPolicy" /\ c \in Working
        BY <1>5, <3>1, <3>4, Zenon
      <4> QED
        BY <2>2, <3>1, <4>1, Zenon DEF ServiceInv, StrayInv, ClearsDone
    <3> QED
      BY <3>2, <3>3, <3>4, Zenon
  <2> QED
    BY <2>1, <2>2, Zenon
<1>8. ASSUME calls[c].orphan
      PROVE  /\ Unexpected' \subseteq Unexpected
             /\ \A p \in Unexpected' : Bare(p)' <=> Bare(p)
  <2>1. Unexpected' \subseteq Unexpected \ ps
    BY <1>3, <1>5, <1>8, Zenon DEF Unexpected
  <2> QED
    BY <2>1, UnalteredFacts, Zenon DEF Unexpected
<1>9. ClientOK'
  <2>1. CASE calls[c].orphan
    BY <1>1, <1>2, <1>3, <1>5, <1>6, <2>1, Zenon DEF ServiceInv, ClientOK
  <2>2. CASE ~calls[c].orphan /\ calls[c].op = "Handshake"
    BY <1>1, <1>2, <1>4, <1>5, <1>6, <2>2, Zenon DEF ServiceInv, ClientOK
  <2>3. CASE ~calls[c].orphan /\ calls[c].op # "Handshake"
    BY <1>1, <1>2, <1>4, <1>5, <1>6, <2>3, Zenon DEF ServiceInv, ClientOK
  <2> QED
    BY <2>1, <2>2, <2>3, Zenon
<1>10. session' => \A p \in Unexpected' : Bare(p)'
  BY <1>3, <1>6, <1>7, <1>8, Zenon DEF ServiceInv, StrayInv
<1>11. ClearsDone'
  <2>1. CASE calls[c].orphan
    <3>1. \A d \in Working' : d \in Working /\ calls'[d] = calls[d]
      BY <1>1, <1>2, <1>3, <2>1, Zenon
    <3> QED
      BY <1>2, <2>1, <3>1, UnalteredFacts, Zenon DEF ServiceInv, StrayInv, ClearsDone
  <2>2. CASE ~calls[c].orphan
    <3>1. ASSUME NEW d \in Working', calls'[d].op = "ClearPolicy"
          PROVE  (calls[d].policy \in strayed \/ Bare(calls[d].policy))'
      <4>1. d = c /\ c \in Working /\ calls[c].op = "ClearPolicy"
        BY <1>1, <1>4, <2>2, <3>1, Zenon
      <4> QED
        BY <1>2, <1>1, <2>2, <4>1, UnalteredFacts, Zenon DEF ServiceInv, StrayInv, ClearsDone
    <3> QED
      BY <3>1 DEF ClearsDone
  <2> QED
    BY <2>1, <2>2, Zenon
<1>12. PrunesDone'
  <2>1. CASE calls[c].orphan
    <3>1. \A d \in Handshaking' : d \in Handshaking /\ calls'[d] = calls[d]
      BY <1>1, <1>2, <1>3, <2>1, Zenon
    <3> QED
      BY <1>8, <2>1, <3>1, Zenon DEF ServiceInv, StrayInv, PrunesDone
  <2> QED
    BY <1>7, <2>1, Zenon DEF PrunesDone
<1>13. ActionsBacked'
  <2>1. \A p \in ps : pipelineActions'[p] = {}
    BY Zenon DEF Bare
  <2>2. \A p \in Policies \ strayed' : p \in ps \/ p \notin strayed
    BY Zenon
  <2> QED
    BY <2>1, <2>2, UnalteredFacts DEF ServiceInv, BackedInv, ActionsBacked
<1>14. CommitsValid'
  <2>1. ASSUME NEW d \in Working', calls'[d].at = "replace"
        PROVE  d \in Working /\ calls'[d] = calls[d] /\ calls[c].orphan
    BY <1>1, <1>2, <1>3, <1>4, <2>1, Zenon
  <2> QED
    BY <1>2, <2>1, UnalteredFacts, Zenon DEF ServiceInv, BackedInv, CommitsValid, Valid
<1> QED
  BY <1>1, <1>9, <1>10, <1>11, <1>12, <1>13, <1>14, Zenon DEF ServiceInv, StrayInv, BackedInv

\* A handler clears, or returns after its trigger.
LEMMA FinishStep ==
  ASSUME ServiceInv, NEW c \in Slots,
         Triggered(c) \/ ClearPolicy(c) \/ pruneStalePolicies(c)
  PROVE  ServiceInv'
<1>1. CASE Triggered(c)
  <2>1. c \in InFlight /\ calls[c].at = "trigger" /\ Return(c) /\ UNCHANGED <<dataVars, strayed>>
    BY <1>1 DEF Triggered
  <2>2. DataTypeOK' /\ \A p : Unaltered(p)
    BY <2>1, StoreUntouched, Zenon DEF ServiceInv
  <2>3. {} \in SUBSET Policies /\ strayed' = IF calls[c].orphan THEN strayed \cup {} ELSE strayed \ {}
    BY <2>1
  <2> QED
    BY <2>1, <2>2, <2>3, ClearedStep, Zenon
<1>2. CASE ClearPolicy(c) \/ pruneStalePolicies(c)
  <2>1. PICK ps :
          /\ ClearPolicyData(ps) /\ Cleared(c, ps)
          /\ \/ calls[c].op = "ClearPolicy" /\ ps = {calls[c].policy}
             \/ calls[c].op = "Handshake" /\ calls[c].at = "clear" /\ ps = calls[c].arg
    BY <1>2, Zenon DEF ClearPolicy, pruneStalePolicies, At
  <2>2. c \in InFlight
    BY <1>2, Zenon DEF ClearPolicy, pruneStalePolicies, At
  <2>3. ps \in SUBSET Policies
    BY <2>1, <2>2, CallFacts, Zenon DEF ServiceInv, ProperCall
  <2>4. /\ DataTypeOK'
        /\ \A p \in ps : Bare(p)'
        /\ \A p \in Policies \ ps : Unaltered(p)
    BY <2>1, <2>3, StoreCleared, Zenon DEF ServiceInv
  <2>5. /\ strayed' = IF calls[c].orphan THEN strayed \cup ps ELSE strayed \ ps
        /\ \/ Return(c)
           \/ Move(c, "trigger") /\ UNCHANGED <<exists, session>>
    BY <2>1, Zenon DEF Cleared
  <2> QED
    BY <2>1, <2>2, <2>3, <2>4, <2>5, ClearedStep, Zenon
<1> QED
  BY <1>1, <1>2, Zenon

\* A prune lists what the store has and the handshake did not name.
LEMMA ListStep ==
  ASSUME ServiceInv, NEW c \in Slots, ListStale(c)
  PROVE  ServiceInv'
<1>1. PICK ps : ps = PolicyIDsForKind \ calls[c].arg
  BY Zenon
<1>2. /\ c \in InFlight /\ calls[c].op = "Handshake" /\ calls[c].at = "start"
      /\ UNCHANGED <<dataVars, exists, session, strayed>>
  BY DEF ListStale, At
<1>3. PolicyIDsForKind \subseteq Policies
  BY DEF ServiceInv, DataTypeOK, PolicyIDsForKind, RegisteredUpstreamKey
<1>4. ps \in SUBSET Policies /\ ps \in Args
  BY <1>1, <1>3 DEF Args
<1> DEFINE k == [calls[c] EXCEPT !.at = "clear", !.arg = ps]
<1>5. calls' = [calls EXCEPT ![c] = k]
  BY <1>1, <1>2, CallFacts, Zenon DEF ListStale, ServiceInv, CallsOK
<1>6. /\ k \in CallRecord /\ k.at = "clear" /\ k.arg = ps
      /\ k.op = calls[c].op /\ k.orphan = calls[c].orphan /\ k.policy = calls[c].policy
  <2>1. "clear" \in Places
    BY DEF Places
  <2> QED
    BY <1>2, <1>4, <2>1, CallFacts, Zenon DEF CallRecord, ServiceInv
<1>7. ProperCall(k)
  BY <1>2, <1>4, <1>6 DEF ProperCall
<1> HIDE DEF k
<1>8. /\ CallsOK'
      /\ Working' = Working /\ Handshaking' = Handshaking
      /\ calls'[c] = k
      /\ \A d \in InFlight \ {c} : calls'[d] = calls[d]
  BY <1>2, <1>5, <1>6, <1>7, ChangedCall, Zenon DEF ServiceInv
<1>9. DataTypeOK' /\ \A p : Unaltered(p)
  BY <1>2, StoreUntouched, Zenon DEF ServiceInv
<1>10. Working \subseteq InFlight \ {c} /\ Handshaking \subseteq InFlight
  BY <1>2, Zenon DEF Working, Handshaking
<1>11. ClientOK'
  BY <1>2, <1>6, <1>8, <1>10, ZenonT(40) DEF ServiceInv, ClientOK
<1>12. Unexpected' = Unexpected
  BY <1>2 DEF Unexpected
<1>13. c \in Handshaking => \A p \in Unexpected \ ps : Bare(p)
  <2>1. c \in Handshaking => calls[c].arg \subseteq exists
    BY <1>2 DEF ServiceInv, ClientOK
  <2>2. \A p \in Policies \ PolicyIDsForKind : Bare(p)
    BY DEF PolicyIDsForKind, Bare, UpstreamsOf
  <2> QED
    BY <1>1, <2>1, <2>2, Zenon DEF Unexpected
<1>14. PrunesDone'
  BY <1>6, <1>8, <1>9, <1>10, <1>12, <1>13, UnalteredFacts, ZenonT(40) DEF ServiceInv, StrayInv, PrunesDone
<1>15. ClearsDone' /\ (session' => \A p \in Unexpected' : Bare(p)')
  BY <1>2, <1>8, <1>9, <1>10, <1>12, UnalteredFacts, Zenon DEF ServiceInv, StrayInv, ClearsDone
<1>16. ActionsBacked'
  BY <1>2, <1>9, UnalteredFacts, Zenon DEF ServiceInv, BackedInv, ActionsBacked
<1>17. CommitsValid'
  BY <1>2, <1>8, <1>9, <1>10, UnalteredFacts, ZenonT(40) DEF ServiceInv, BackedInv, CommitsValid, Valid
<1> QED
  BY <1>8, <1>9, <1>11, <1>14, <1>15, <1>16, <1>17 DEF ServiceInv, StrayInv, BackedInv

\* The session is lost: the calls in flight become orphans.
LEMMA LostStep ==
  ASSUME ServiceInv, SessionLost
  PROVE  ServiceInv'
<1>1. UNCHANGED <<dataVars, exists, strayed>> /\ ~session'
  BY DEF SessionLost
<1>2. ASSUME NEW c \in InFlight
      PROVE  /\ calls'[c] = [calls[c] EXCEPT !.orphan = TRUE]
             /\ calls'[c] \in CallRecord /\ calls'[c].orphan /\ ProperCall(calls'[c])
  <2>1. c \in Slots /\ calls[c] \in CallRecord /\ ProperCall(calls[c])
    BY CallFacts DEF ServiceInv
  <2>2. calls'[c] = [calls[c] EXCEPT !.orphan = TRUE]
    BY <2>1 DEF SessionLost
  <2>3. /\ calls'[c] \in CallRecord /\ calls'[c].orphan
        /\ calls'[c].op = calls[c].op /\ calls'[c].policy = calls[c].policy
        /\ calls'[c].arg = calls[c].arg
    BY <2>1, <2>2, Zenon DEF CallRecord
  <2> QED
    BY <2>1, <2>2, <2>3 DEF ProperCall
<1>3. \A c \in Slots \ InFlight : calls'[c] = Idle
  BY DEF SessionLost
<1>4. calls' = [c \in Slots |-> calls'[c]]
  BY DEF SessionLost
<1>5. InFlight' = InFlight
  BY <1>2, <1>3, IdleFacts, Zenon DEF InFlight
<1>6. CallsOK'
  <2>1. calls' \in [Slots -> CallRecord \cup {Idle}]
    BY <1>2, <1>3, <1>4, Zenon
  <2> QED
    BY <1>2, <1>5, <2>1, Zenon DEF CallsOK, ProperCall
<1>7. Working' = {} /\ Handshaking' = {}
  BY <1>2, <1>5, Zenon DEF Working, Handshaking
<1>8. DataTypeOK' /\ \A p : Unaltered(p)
  BY <1>1, StoreUntouched DEF ServiceInv
<1>9. ClientOK' /\ StrayInv' /\ CommitsValid'
  BY <1>1, <1>7, Zenon DEF ServiceInv, ClientOK, StrayInv, ClearsDone, PrunesDone, CommitsValid
<1>10. ActionsBacked'
  BY <1>1, <1>8, UnalteredFacts, Zenon DEF ServiceInv, BackedInv, ActionsBacked
<1> QED
  BY <1>6, <1>8, <1>9, <1>10 DEF ServiceInv, BackedInv

\* A policy comes, or goes while nobody serves it; or nothing happens.
LEMMA PolicyStep ==
  ASSUME ServiceInv, PolicyCreated \/ PolicyGone \/ UNCHANGED vars
  PROVE  ServiceInv'
<1>1. UNCHANGED <<dataVars, calls, session, strayed>>
  BY Zenon DEF PolicyCreated, PolicyGone, vars
<1>2. /\ exists' \subseteq Policies
      /\ exists \subseteq exists' \/ (~session /\ Handshaking = {})
  BY Zenon DEF PolicyCreated, PolicyGone, vars, ServiceInv, ClientOK
<1>3. InFlight' = InFlight /\ Working' = Working /\ Handshaking' = Handshaking
  BY <1>1 DEF InFlight, Working, Handshaking
<1>4. CallsOK'
  BY <1>1, <1>3, Zenon DEF ServiceInv, CallsOK, ProperCall
<1>5. DataTypeOK' /\ \A p : Unaltered(p)
  BY <1>1, StoreUntouched, Zenon DEF ServiceInv
<1>6. ClientOK'
  BY <1>1, <1>2, <1>3 DEF ServiceInv, ClientOK
<1>7. exists \subseteq exists' => Unexpected' \subseteq Unexpected
  BY <1>1 DEF Unexpected
<1>8. StrayInv'
  <2>1. session' => \A p \in Unexpected' : Bare(p)'
    BY <1>1, <1>2, <1>5, <1>7, UnalteredFacts, Zenon DEF ServiceInv, StrayInv
  <2>2. ClearsDone'
    BY <1>1, <1>3, <1>5, UnalteredFacts, Zenon DEF ServiceInv, StrayInv, ClearsDone
  <2>3. PrunesDone'
    BY <1>1, <1>2, <1>3, <1>5, <1>7, UnalteredFacts, Zenon DEF ServiceInv, StrayInv, PrunesDone
  <2> QED
    BY <2>1, <2>2, <2>3 DEF StrayInv
<1>9. ActionsBacked' /\ CommitsValid'
  BY <1>1, <1>3, <1>5, UnalteredFacts, Zenon
  DEF ServiceInv, BackedInv, ActionsBacked, CommitsValid, Valid
<1> QED
  BY <1>4, <1>5, <1>6, <1>8, <1>9, Zenon DEF ServiceInv, BackedInv

LEMMA StepService == ServiceInv /\ [Next]_vars => ServiceInv'
<1> SUFFICES ASSUME ServiceInv, [Next]_vars
             PROVE  ServiceInv'
  OBVIOUS
<1>1. ASSUME NEW c \in Slots, StartWork(c) \/ StartHandshake(c)
      PROVE  ServiceInv'
  BY <1>1, StartStep
<1>2. ASSUME NEW c \in Slots, CheckName(c) \/ validateActions(c) \/ TriggerFails(c)
      PROVE  ServiceInv'
  BY <1>2, GoOnStep
<1>3. ASSUME NEW c \in Slots, ReflectionFails(c) \/ NameTaken(c) \/ InvalidActions(c)
      PROVE  ServiceInv'
  BY <1>3, RefuseStep
<1>4. ASSUME NEW c \in Slots, \/ RegisterMutator(c) \/ RegisterActionMethod(c)
                              \/ CommitActions(c) \/ CommitTargetRefs(c)
      PROVE  ServiceInv'
  BY <1>4, WriteStep
<1>5. ASSUME NEW c \in Slots, Triggered(c) \/ ClearPolicy(c) \/ pruneStalePolicies(c)
      PROVE  ServiceInv'
  BY <1>5, FinishStep
<1>6. ASSUME NEW c \in Slots, ListStale(c)
      PROVE  ServiceInv'
  BY <1>6, ListStep
<1>7. CASE SessionLost
  BY <1>7, LostStep
<1>8. CASE PolicyCreated \/ PolicyGone \/ UNCHANGED vars
  BY <1>8, PolicyStep
<1> QED
  BY <1>1, <1>2, <1>3, <1>4, <1>5, <1>6, <1>7, <1>8 DEF Next

(***************************************************************************)
(* While an extension holds a session the store has data only of policies  *)
(* that exist, orphans' writes aside: for any number of policies, methods  *)
(* and calls in flight, the prune of a handshake and ClearPolicy leave     *)
(* nothing behind.                                                         *)
(***************************************************************************)
THEOREM NothingLeftBehind == Spec => []NoStrayData
<1>1. ServiceInv => NoStrayData
  BY Zenon DEF ServiceInv, StrayInv, Unexpected, Bare, NoStrayData
<1> QED
  BY <1>1, InitService, StepService, PTL DEF Spec

(***************************************************************************)
(* A stored pipeline calls only registered methods, although               *)
(* PipelineCommit checks the names in one critical section and writes in   *)
(* another.                                                                *)
(***************************************************************************)
THEOREM PipelinesBacked == Spec => []ActionsBacked
<1>1. ServiceInv => ActionsBacked
  BY DEF ServiceInv, BackedInv
<1> QED
  BY <1>1, InitService, StepService, PTL DEF Spec

-----------------------------------------------------------------------------
(***************************************************************************)
(* That a change is rendered, for any number of handlers.                  *)
(*                                                                         *)
(* ConfigCurrent says something only of states where nothing is under way. *)
(* The inductive invariant says of every state who will see to it that a   *)
(* changed part is read: a waiting event of a task that reads it, the      *)
(* running reconciliation if it has still to come to the part, or the      *)
(* handler that changed it and has still to trigger.  A handler whose      *)
(* update will conflict with another trigger is not among them: that       *)
(* trigger came after the handler's write, so its event covers the write.  *)
(***************************************************************************)
\* The handler of c has still to trigger for r.
Owes(c, r) ==
    /\ r \in Scope(handler[c].op)
    /\ \/ handler[c].at \in {"refs", "list"}
       \/ handler[c].at = "update" /\ handler[c].since # "trigger"
       \/ handler[c].op = "PipelineCommit" /\ handler[c].at = "write"

\* The waiting events lead to a task that reads r.
Awaited(r) == \E task \in event : r \in StepsOf(task)

\* Every changed part is going to be read, or has been left behind.
Covered ==
    \A r \in unrendered :
        \/ r \in lost
        \/ Awaited(r)
        \/ r \in toRead
        \/ \E c \in Calls : Owes(c, r)

TriggerInv == TriggerTypeOK /\ Covered

\* What the parts of the store are read by, and what the tasks read.
LEMMA ReadsFacts ==
  /\ \A part \in Parts : ReadsOf(part) \subseteq Reads
  /\ \A task \in {"AuthConfigs", "Extension"} : StepsOf(task) \subseteq Reads
  /\ \A task \in Tasks : StepsOf(task) \subseteq Reads \cup {"status"}
  /\ \A r \in Reads : r # "status" /\ \E task \in Tasks : r \in StepsOf(task)
  /\ \A r \in Reads : r \in Scope("ClearPolicy")
  BY DEF Parts, ReadsOf, Reads, StepsOf, Tasks, Scope

\* The initial state: nothing has changed yet.
LEMMA TriggerInitially == TriggerInit => TriggerInv
<1> SUFFICES ASSUME TriggerInit PROVE TriggerInv
  OBVIOUS
<1>1. handler \in [Calls -> HandlerStates]
  BY Zenon DEF TriggerInit, NoHandler, HandlerStates
<1>2. \A c \in Calls : handler[c].since # "nothing" => handler[c].at = "update"
  BY DEF TriggerInit, NoHandler
<1>3. toRead = {} /\ unrendered = {} /\ event = {} /\ lost = {}
  BY Zenon DEF TriggerInit
<1> QED
  BY <1>1, <1>2, <1>3, Zenon DEF TriggerTypeOK, TriggerInv, Covered

\* A handler that starts.
LEMMA BeginTriggerInv ==
  ASSUME TriggerInv, NEW c \in Calls,
         NEW op \in {"RegisterMutator", "RegisterActionMethod",
                     "PipelineCommit", "ClearPolicy"},
         Begin(c, op)
  PROVE  TriggerInv'
<1>1. handler \in [Calls -> HandlerStates]
  BY DEF TriggerInv, TriggerTypeOK
<1>2. handler' = [handler EXCEPT ![c] = [NoHandler EXCEPT !.op = op, !.at = "write"]]
  BY DEF Begin
<1>3. \A d \in Calls : d # c => handler'[d] = handler[d]
  BY <1>1, <1>2, Zenon
<1>4. handler'[c] = [op |-> op, at |-> "write", since |-> "nothing"]
  BY <1>1, <1>2, Zenon DEF NoHandler
<1>5. handler[c] = NoHandler
  BY DEF Begin
<1>6. event' = event /\ toRead' = toRead /\ unrendered' = unrendered /\ lost' = lost
  BY DEF Begin
<1>7. TriggerTypeOK'
  <2>1. [op |-> op, at |-> "write", since |-> "nothing"] \in HandlerStates
    BY DEF HandlerStates
  <2>2. handler' \in [Calls -> HandlerStates]
    BY <1>1, <1>2, <1>4, <2>1, Zenon DEF NoHandler
  <2>3. \A d \in Calls : handler'[d].since # "nothing" => handler'[d].at = "update"
    BY <1>3, <1>4 DEF TriggerInv, TriggerTypeOK
  <2> QED
    BY <1>6, <2>2, <2>3, Zenon DEF TriggerInv, TriggerTypeOK
<1>8. \A r \in unrendered : ~Owes(c, r)
  BY <1>5 DEF Owes, NoHandler
<1>9. \A r, d : d \in Calls /\ d # c /\ Owes(d, r) => Owes(d, r)'
  BY <1>3 DEF Owes
<1> QED
  BY <1>6, <1>7, <1>8, <1>9, Zenon DEF TriggerInv, Covered, Awaited

\* A write: the handler goes on to a place where it still has to trigger for
\* what it has changed, or has changed nothing.
LEMMA WriteTriggerInv ==
  ASSUME TriggerInv, NEW c \in Calls, NEW parts \in SUBSET Parts,
         NEW place \in {"refs", "list", "return"},
         handler[c].at \in {"write", "refs"},
         \A part \in parts : ReadsOf(part) \subseteq Scope(handler[c].op),
         place = "return" => parts = {} /\ handler[c].op = "ClearPolicy"
                                        /\ handler[c].at = "write",
         Write(c, parts, place)
  PROVE  TriggerInv'
<1>1. handler \in [Calls -> HandlerStates]
  BY DEF TriggerInv, TriggerTypeOK
<1>2. \A d \in Calls : d # c => handler'[d] = handler[d]
  BY <1>1, Zenon DEF Write
<1>3. handler'[c] = IF place = "return" THEN NoHandler
                    ELSE [handler[c] EXCEPT !.at = place]
  BY <1>1, Zenon DEF Write
<1>4. handler[c].since = "nothing"
  BY Zenon DEF TriggerInv, TriggerTypeOK
<1>5. UNION {ReadsOf(part) : part \in parts} \subseteq Reads
  BY ReadsFacts
<1>6. event' = event /\ toRead' = toRead /\ lost' = lost
  BY DEF Write
<1>7. unrendered' = unrendered \cup UNION {ReadsOf(part) : part \in parts}
  BY DEF Write
<1>8. TriggerTypeOK'
  <2>1. handler' \in [Calls -> HandlerStates]
    BY DEF Write, TriggerInv, TriggerTypeOK, NoHandler, HandlerStates
  <2>2. \A d \in Calls : handler'[d].since # "nothing" => handler'[d].at = "update"
    BY <1>1, <1>2, <1>3, <1>4 DEF TriggerInv, TriggerTypeOK, NoHandler, HandlerStates
  <2>3. unrendered' \subseteq Reads
    BY <1>5, <1>7, Zenon DEF TriggerInv, TriggerTypeOK
  <2> QED
    BY <1>6, <2>1, <2>2, <2>3, Zenon DEF TriggerInv, TriggerTypeOK
<1>9. \A r, d : d \in Calls /\ d # c /\ Owes(d, r) => Owes(d, r)'
  BY <1>2 DEF Owes
<1>10. CASE place = "return"
  <2>1. \A r : ~Owes(c, r)
    BY <1>10 DEF Owes
  <2>2. unrendered' = unrendered
    BY <1>7, <1>10, Zenon
  <2> QED
    BY <1>6, <1>8, <1>9, <2>1, <2>2, Zenon DEF TriggerInv, Covered, Awaited
<1>11. CASE place # "return"
  <2>1. handler'[c].op = handler[c].op /\ handler'[c].at = place
    BY <1>1, <1>3, <1>11 DEF HandlerStates
  <2>2. \A r : r \in Scope(handler[c].op) => Owes(c, r)'
    BY <1>11, <2>1 DEF Owes
  <2>3. \A r : Owes(c, r) => Owes(c, r)'
    BY <2>2, Zenon DEF Owes
  <2>4. \A r \in UNION {ReadsOf(part) : part \in parts} : Owes(c, r)'
    BY <2>2, Zenon
  <2>5. \A r \in unrendered' : r \in unrendered \/ Owes(c, r)'
    BY <1>7, <2>4, Zenon
  <2>6. \A r, d : d \in Calls /\ Owes(d, r) => Owes(d, r)'
    BY <1>9, <2>3, Zenon
  <2> QED
    BY <1>6, <1>8, <2>5, <2>6, Zenon DEF TriggerInv, Covered, Awaited
<1> QED
  BY <1>10, <1>11, Zenon

\* A handler moves, and what it no longer owes is left behind.
LEMMA MoveTriggerInv ==
  ASSUME TriggerInv, NEW c \in Calls, NEW h \in HandlerStates,
         h.since # "nothing" => h.at = "update",
         handler' = [handler EXCEPT ![c] = h],
         event' = event, toRead' = toRead, unrendered' = unrendered,
         lost \subseteq lost', lost' \subseteq Reads,
         \A r \in unrendered : Owes(c, r) => Owes(c, r)' \/ r \in lost'
  PROVE  TriggerInv'
<1>1. handler \in [Calls -> HandlerStates]
  BY DEF TriggerInv, TriggerTypeOK
<1>2. \A d \in Calls : d # c => handler'[d] = handler[d]
  BY <1>1, Zenon
<1>3. handler'[c] = h
  BY <1>1, Zenon
<1>4. handler' \in [Calls -> HandlerStates]
  BY <1>1, Zenon
<1>5. \A d \in Calls : handler'[d].since # "nothing" => handler'[d].at = "update"
  BY <1>2, <1>3, Zenon DEF TriggerInv, TriggerTypeOK
<1>6. TriggerTypeOK'
  BY <1>4, <1>5, Zenon DEF TriggerInv, TriggerTypeOK
<1>7. \A r, d : d \in Calls /\ d # c /\ Owes(d, r) => Owes(d, r)'
  BY <1>2 DEF Owes
<1> QED
  BY <1>6, <1>7, Zenon DEF TriggerInv, Covered, Awaited

\* A change of the Kuadrant resource, by a trigger or otherwise.
LEMMA OvertakenFacts ==
  ASSUME NEW hs \in [Calls -> HandlerStates],
         \A c \in Calls : hs[c].since # "nothing" => hs[c].at = "update",
         NEW change \in {"change", "trigger"}
  PROVE  /\ Overtaken(hs, change) \in [Calls -> HandlerStates]
         /\ \A c \in Calls : Overtaken(hs, change)[c].since # "nothing"
                             => Overtaken(hs, change)[c].at = "update"
         /\ \A c \in Calls :
               /\ Overtaken(hs, change)[c].op = hs[c].op
               /\ Overtaken(hs, change)[c].at = hs[c].at
               /\ change = "change" /\ hs[c].since # "trigger"
                     => Overtaken(hs, change)[c].since # "trigger"
  BY ZenonT(40) DEF Overtaken, HandlerStates

\* A task that is cut short leaves behind what it was to read.
LEMMA FailTaskInv == TriggerInv /\ FailTask => TriggerInv'
<1> SUFFICES ASSUME TriggerInv, FailTask PROVE TriggerInv'
  OBVIOUS
<1> PICK task \in {"AuthConfigs", "Extension"} :
           /\ toRead' \in {toRead \ StepsOf(task), toRead \ (StepsOf(task) \cup {"status"})}
           /\ unrendered' = unrendered \cup StepsOf(task)
           /\ lost' = lost \cup StepsOf(task)
  BY Zenon DEF FailTask
<1>1. handler' = handler /\ event' = event
  BY DEF FailTask
<1>2. StepsOf(task) \subseteq Reads
  BY ReadsFacts
<1>3. toRead' \subseteq toRead /\ \A r \in toRead : r \in toRead' \/ r \in StepsOf(task) \/ r = "status"
  BY Zenon
<1>4. TriggerTypeOK'
  BY <1>1, <1>2, <1>3, Zenon DEF TriggerInv, TriggerTypeOK
<1>5. \A r \in unrendered : r # "status"
  BY ReadsFacts DEF TriggerInv, TriggerTypeOK
<1>6. \A r, d : Owes(d, r) => Owes(d, r)'
  BY <1>1 DEF Owes
<1>7. \A r : Awaited(r) => Awaited(r)'
  BY <1>1 DEF Awaited
<1>8. \A r \in unrendered' : r \in unrendered \/ r \in lost'
  BY Zenon
<1>9. \A r : r \in lost \/ r \in StepsOf(task) => r \in lost'
  BY Zenon
<1> QED
  BY <1>3, <1>4, <1>5, <1>6, <1>7, <1>8, <1>9, Zenon DEF TriggerInv, Covered

\* Every step keeps the invariant.
LEMMA TriggerStep == TriggerInv /\ [TriggerNext]_triggerVars => TriggerInv'
<1> SUFFICES ASSUME TriggerInv, [TriggerNext]_triggerVars PROVE TriggerInv'
  OBVIOUS
<1>0. {"mutators"} \in SUBSET Parts /\ {"upstreams"} \in SUBSET Parts /\ {"pipeline"} \in SUBSET Parts
  BY DEF Parts
<1>1. ASSUME NEW c \in Calls, RegisterMutatorCall(c) PROVE TriggerInv'
  <2>1. CASE Begin(c, "RegisterMutator")
    BY <2>1, BeginTriggerInv, Zenon
  <2>2. CASE /\ handler[c].op = "RegisterMutator" /\ handler[c].at = "write"
             /\ Write(c, {"mutators"}, "list")
    <3>1. \A part \in {"mutators"} : ReadsOf(part) \subseteq Scope(handler[c].op)
      BY <2>2 DEF Scope
    <3> QED
      BY <1>0, <2>2, <3>1, WriteTriggerInv, Zenon
  <2> QED
    BY <1>1, <2>1, <2>2, Zenon DEF RegisterMutatorCall
<1>2. ASSUME NEW c \in Calls, RegisterActionMethodCall(c) PROVE TriggerInv'
  <2>1. CASE Begin(c, "RegisterActionMethod")
    BY <2>1, BeginTriggerInv, Zenon
  <2>2. CASE /\ handler[c].op = "RegisterActionMethod" /\ handler[c].at = "write"
             /\ Write(c, {"upstreams"}, "list")
    <3>1. \A part \in {"upstreams"} : ReadsOf(part) \subseteq Scope(handler[c].op)
      BY <2>2 DEF Scope
    <3> QED
      BY <1>0, <2>2, <3>1, WriteTriggerInv, Zenon
  <2> QED
    BY <1>2, <2>1, <2>2, Zenon DEF RegisterActionMethodCall
<1>3. ASSUME NEW c \in Calls, PipelineCommitCall(c) PROVE TriggerInv'
  <2>1. CASE Begin(c, "PipelineCommit")
    BY <2>1, BeginTriggerInv, Zenon
  <2>2. CASE handler[c].op = "PipelineCommit" /\ handler[c].at = "write" /\ Write(c, {"pipeline"}, "refs")
    <3>1. \A part \in {"pipeline"} : ReadsOf(part) \subseteq Scope(handler[c].op)
      BY <2>2 DEF Scope
    <3> QED
      BY <1>0, <2>2, <3>1, WriteTriggerInv, Zenon
  <2>3. CASE handler[c].op = "PipelineCommit" /\ handler[c].at = "refs" /\ Write(c, {"pipeline"}, "list")
    <3>1. \A part \in {"pipeline"} : ReadsOf(part) \subseteq Scope(handler[c].op)
      BY <2>3 DEF Scope
    <3> QED
      BY <1>0, <2>3, <3>1, WriteTriggerInv, Zenon
  <2> QED
    BY <1>3, <2>1, <2>2, <2>3, Zenon DEF PipelineCommitCall
<1>4. ASSUME NEW c \in Calls, ClearPolicyCall(c) PROVE TriggerInv'
  <2>1. CASE Begin(c, "ClearPolicy")
    BY <2>1, BeginTriggerInv, Zenon
  <2>2. CASE /\ handler[c].op = "ClearPolicy"
             /\ handler[c].at = "write"
             /\ \E cleared \in SUBSET Parts :
                   Write(c, cleared,
                         IF ClearsNothing(cleared) THEN "return" ELSE "list")
    <3> PICK cleared \in SUBSET Parts :
               Write(c, cleared,
                     IF ClearsNothing(cleared) THEN "return" ELSE "list")
      BY <2>2, Zenon
    <3>0. \A part \in cleared : ReadsOf(part) \subseteq Scope(handler[c].op)
      BY <2>2, ReadsFacts
    <3>1. CASE cleared = {}
      BY <2>2, <3>0, <3>1, WriteTriggerInv, Zenon DEF ClearsNothing
    <3>2. CASE cleared # {}
      BY <2>2, <3>0, <3>2, WriteTriggerInv, Zenon DEF ClearsNothing
    <3> QED
      BY <3>1, <3>2, Zenon
  <2> QED
    BY <1>4, <2>1, <2>2, Zenon DEF ClearPolicyCall
<1>5. ASSUME NEW c \in Calls, ListKuadrants(c) PROVE TriggerInv'
  <2> DEFINE h == [handler[c] EXCEPT !.at = "update"]
  <2>0. handler[c] \in HandlerStates /\ handler[c].at = "list" /\ handler[c].since = "nothing"
    BY <1>5 DEF ListKuadrants, TriggerInv, TriggerTypeOK
  <2>1. handler' = [handler EXCEPT ![c] = h] /\ handler'[c] = h
    BY <1>5 DEF ListKuadrants, TriggerInv, TriggerTypeOK
  <2>2. h \in HandlerStates /\ h.op = handler[c].op /\ h.since = "nothing" /\ h.at = "update"
    BY <2>0 DEF HandlerStates
  <2> HIDE DEF h
  <2>3. \A r : Owes(c, r) => Owes(c, r)'
    BY <2>1, <2>2 DEF Owes
  <2>4. lost' \subseteq Reads
    BY <1>5, Zenon DEF ListKuadrants, TriggerInv, TriggerTypeOK
  <2> QED
    BY <1>5, <2>1, <2>2, <2>3, <2>4, MoveTriggerInv, Zenon DEF ListKuadrants
<1>6. ASSUME NEW c \in Calls, Trigger(c) PROVE TriggerInv'
  <2> DEFINE hs == [handler EXCEPT ![c] = NoHandler]
  <2>1. /\ hs \in [Calls -> HandlerStates]
        /\ \A d \in Calls : hs[d].since # "nothing" => hs[d].at = "update"
    BY DEF TriggerInv, TriggerTypeOK, NoHandler, HandlerStates
  <2>2. handler' = Overtaken(hs, "trigger") /\ event' = Tasks
    BY <1>6 DEF Trigger, Subscribed
  <2> HIDE DEF hs
  <2>3. /\ handler' \in [Calls -> HandlerStates]
        /\ \A d \in Calls : handler'[d].since # "nothing" => handler'[d].at = "update"
    BY <2>1, <2>2, OvertakenFacts, Zenon
  <2>4. TriggerTypeOK'
    BY <1>6, <2>2, <2>3, Zenon DEF Trigger, TriggerInv, TriggerTypeOK
  <2>5. unrendered' \subseteq Reads
    BY <2>4, Zenon DEF TriggerTypeOK
  <2> QED
    BY <2>2, <2>4, <2>5, ReadsFacts, Zenon DEF TriggerInv, Covered, Awaited
<1>7. ASSUME NEW c \in Calls, handler[c].at \in {"list", "update"}, Failed(c) PROVE TriggerInv'
  <2>0. handler[c] \in HandlerStates
    BY DEF TriggerInv, TriggerTypeOK
  <2>1. CASE handler[c].op = "PipelineCommit"
    <3> DEFINE h == [handler[c] EXCEPT !.at = "write", !.since = "nothing"]
    <3>1. handler' = [handler EXCEPT ![c] = h] /\ handler'[c] = h /\ lost' = lost
      BY <1>7, <2>1, Zenon DEF Failed, TriggerInv, TriggerTypeOK
    <3>2. h \in HandlerStates /\ h.op = "PipelineCommit" /\ h.at = "write" /\ h.since = "nothing"
      BY <2>0, <2>1, Zenon DEF HandlerStates
    <3> HIDE DEF h
    <3>3. \A r : Owes(c, r) => Owes(c, r)'
      BY <2>1, <3>1, <3>2 DEF Owes
    <3>4. lost' \subseteq Reads
      BY <3>1, Zenon DEF TriggerInv, TriggerTypeOK
    <3> QED
      BY <1>7, <3>1, <3>2, <3>3, <3>4, MoveTriggerInv, Zenon DEF Failed
  <2>2. CASE handler[c].op # "PipelineCommit"
    <3>1. handler' = [handler EXCEPT ![c] = NoHandler]
      BY <1>7, <2>2, Zenon DEF Failed
    <3>2. NoHandler \in HandlerStates /\ NoHandler.since = "nothing"
      BY DEF NoHandler, HandlerStates
    <3>3. lost \subseteq lost' /\ lost' \subseteq Reads
      BY <1>7, Zenon DEF Failed, TriggerInv, TriggerTypeOK
    <3>4. \A r \in unrendered : Owes(c, r) => r \in lost'
      <4> SUFFICES ASSUME NEW r \in unrendered, Owes(c, r) PROVE r \in lost'
        BY Zenon
      <4>1. handler[c].since # "trigger"
        BY <1>7 DEF Owes, TriggerInv, TriggerTypeOK
      <4>2. r \in Scope(handler[c].op)
        BY DEF Owes
      <4> QED
        BY <1>7, <2>2, <4>1, <4>2, Zenon DEF Failed
    <3> QED
      BY <1>7, <3>1, <3>2, <3>3, <3>4, MoveTriggerInv, Zenon DEF Failed
  <2> QED
    BY <2>1, <2>2, Zenon
<1>8. CASE StartReconcile
  <2>1. handler' = handler /\ unrendered' = unrendered /\ lost' = lost /\ toRead = {} /\ event' = {}
    BY <1>8, Zenon DEF StartReconcile
  <2>2. toRead' = UNION {StepsOf(task) : task \in event}
    BY <1>8, Zenon DEF StartReconcile
  <2>3. \A r : Awaited(r) => r \in toRead'
    BY <2>2, Zenon DEF Awaited
  <2>4. toRead' \subseteq Reads \cup {"status"}
    BY <2>2, ReadsFacts, Zenon DEF TriggerInv, TriggerTypeOK
  <2>5. TriggerTypeOK'
    BY <2>1, <2>4, Zenon DEF TriggerInv, TriggerTypeOK
  <2>6. \A r, d : Owes(d, r) => Owes(d, r)'
    BY <2>1 DEF Owes
  <2> QED
    BY <2>1, <2>3, <2>5, <2>6, Zenon DEF TriggerInv, Covered
<1>9. CASE ReadStore
  <2> PICK r \in toRead \ {"status"} : /\ toRead' = toRead \ {r}
                                      /\ unrendered' = unrendered \ {r}
                                      /\ lost' = lost \ {r}
    BY <1>9, Zenon DEF ReadStore
  <2>1. handler' = handler /\ event' = event
    BY <1>9, Zenon DEF ReadStore
  <2>2. TriggerTypeOK'
    BY <2>1, Zenon DEF TriggerInv, TriggerTypeOK
  <2>3. \A q, d : Owes(d, q) => Owes(d, q)'
    BY <2>1 DEF Owes
  <2>4. \A q : Awaited(q) => Awaited(q)'
    BY <2>1 DEF Awaited
  <2> QED
    BY <2>1, <2>2, <2>3, <2>4, Zenon DEF TriggerInv, Covered
<1>10. ASSUME Overtaken(handler, "change") = handler' \/ handler' = handler,
              unrendered' = unrendered, lost' = lost,
              event' \subseteq Tasks, event \subseteq event',
              toRead' \subseteq toRead, toRead \subseteq toRead' \cup {"status"}
       PROVE  TriggerInv'
  <2>1. /\ handler' \in [Calls -> HandlerStates]
        /\ \A d \in Calls : handler'[d].since # "nothing" => handler'[d].at = "update"
        /\ \A d \in Calls :
               /\ handler'[d].op = handler[d].op
               /\ handler'[d].at = handler[d].at
               /\ handler[d].since # "trigger" => handler'[d].since # "trigger"
    <3>1. CASE handler' = handler
      BY <3>1, Zenon DEF TriggerInv, TriggerTypeOK
    <3>2. CASE handler' = Overtaken(handler, "change")
      <4>1. /\ handler \in [Calls -> HandlerStates]
            /\ \A d \in Calls : handler[d].since # "nothing" => handler[d].at = "update"
        BY Zenon DEF TriggerInv, TriggerTypeOK
      <4> QED
        BY <3>2, <4>1, OvertakenFacts
    <3> QED
      BY <1>10, <3>1, <3>2, Zenon
  <2>2. TriggerTypeOK'
    BY <1>10, <2>1, Zenon DEF TriggerInv, TriggerTypeOK
  <2>3. \A r, d : d \in Calls /\ Owes(d, r) => Owes(d, r)'
    BY <2>1 DEF Owes
  <2>4. \A r : Awaited(r) => Awaited(r)'
    BY <1>10, Zenon DEF Awaited
  <2>5. \A r \in unrendered : r # "status"
    BY ReadsFacts, Zenon DEF TriggerInv, TriggerTypeOK
  <2> QED
    BY <1>10, <2>2, <2>3, <2>4, <2>5, Zenon DEF TriggerInv, Covered
<1>11. CASE KuadrantStatusUpdate
  <2>1. event' \subseteq Tasks /\ event \subseteq event'
    BY <1>11, Zenon DEF KuadrantStatusUpdate, TriggerInv, TriggerTypeOK
  <2> QED
    BY <1>10, <1>11, <2>1, Zenon DEF KuadrantStatusUpdate
<1>12. CASE OtherEvent
  <2>1. event' \subseteq Tasks /\ event \subseteq event'
    BY <1>12 DEF OtherEvent, TriggerInv, TriggerTypeOK, Subscribed, EventKinds, Tasks
  <2> QED
    BY <1>10, <1>12, <2>1, Zenon DEF OtherEvent
<1>13. CASE KuadrantEvent
  <2>1. event' \subseteq Tasks /\ event \subseteq event'
    BY <1>13 DEF KuadrantEvent, TriggerInv, TriggerTypeOK, Subscribed
  <2> QED
    BY <1>10, <1>13, <2>1, Zenon DEF KuadrantEvent
<1>14. CASE UNCHANGED triggerVars
  <2>1. event' \subseteq Tasks /\ event \subseteq event'
    BY <1>14, Zenon DEF triggerVars, TriggerInv, TriggerTypeOK
  <2> QED
    BY <1>10, <1>14, <2>1, Zenon DEF triggerVars
<1>15. CASE FailTask
  BY <1>15, FailTaskInv, Zenon
<1>16. ASSUME NEW c \in Calls, Refused(c) PROVE TriggerInv'
  BY <1>7, <1>16 DEF Refused
<1>17. ASSUME NEW c \in Calls, CallFails(c) PROVE TriggerInv'
  BY <1>7, <1>17, Zenon DEF CallFails
<1> QED
  BY <1>1, <1>2, <1>3, <1>4, <1>5, <1>6, <1>8, <1>9, <1>11,
     <1>12, <1>13, <1>14, <1>15, <1>16, <1>17, Zenon DEF TriggerNext

(***************************************************************************)
(* Any number of handlers, writing, triggering and giving up in any order  *)
(* with the reconciliations, leave nothing unrendered when the operator    *)
(* comes to rest, but for what a failed trigger or a failed task left      *)
(* behind (TriggerReconciliation).                                         *)
(***************************************************************************)
THEOREM ChangesReachConfig == TriggerSpec => []ConfigCurrent
<1>1. TriggerInv => ConfigCurrent
  <2> SUFFICES ASSUME TriggerInv, Quiet PROVE unrendered \subseteq lost
    BY DEF ConfigCurrent
  <2>1. \A c \in Calls : handler[c] = NoHandler
    BY Zenon DEF Quiet, Running
  <2>2. \A c \in Calls : \A r : ~Owes(c, r)
    BY <2>1 DEF Owes, NoHandler
  <2>3. toRead = {} /\ event = {}
    BY DEF Quiet
  <2> QED
    BY <2>2, <2>3, Zenon DEF TriggerInv, Covered, Awaited
<1> QED
  BY <1>1, TriggerInitially, TriggerStep, PTL DEF TriggerSpec
=============================================================================
