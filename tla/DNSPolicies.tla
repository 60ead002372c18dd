----------------------------- MODULE DNSPolicies -----------------------------
(***************************************************************************)
(* The DNS workflow (internal/controller/dns_workflow.go): the validator,  *)
(* the effective policies reconciler, which keeps a DNSRecord per listener *)
(* of a gateway, and the status updater.                                   *)
(*                                                                         *)
(* policy-machinery reconciles when a watch lets an event through.  It     *)
(* then lists everything, and the events of the pass are the differences   *)
(* to the last list.  The watch of policies drops changes of the status    *)
(* (GenerationChangedPredicate): they start no pass, and count as updates  *)
(* of the policy in the next one.                                          *)
(*                                                                         *)
(* A pass works on a topology, a snapshot of the cluster.  It reads        *)
(* nothing else, so what it writes is decided when it begins; the writes   *)
(* happen one by one while users, the garbage collector and the DNS        *)
(* operator change the cluster.  An update carries the resource version of *)
(* the snapshot and conflicts when the object has changed since.           *)
(*                                                                         *)
(* A member of DNSPolicySet stands for a UID: a policy that is deleted and *)
(* created again under its name is another member.                         *)
(***************************************************************************)
EXTENDS PolicyLife, Sequences

CONSTANTS DNSPolicySet,      \* UIDs of DNS policies
          ListenerSet,       \* listener names of the one gateway
          DNSHosts,          \* hostnames
          DNSSpecs,          \* specifications of policies, see DNSSpecType
          DNSInitial,        \* those of policies present when the operator starts
          NoHost, NoRecord,
          MaxDNSChanges      \* changes to the cluster, failed calls and restarts

\* What a policy may ask for.  lb is the load balancing: none ("simple"), or
\* one of two weights.  exclude says which status addresses are excluded.
DNSSpecType == [target  : ListenerSet \cup {"gateway"},
                lb      : {"simple", "weight1", "weight2"},
                exclude : {"none", "all", "malformed"}]

\* The reasons of the Accepted condition ("none" before it is set), and the Enforced
\* condition: which records are ready, and the contextual error.
DNSReasons == {"none", "Accepted", "TargetNotFound", "Conflicted", "Invalid", "Unknown"}

DNSEnforcement == {"none", "no", "some", "all"} \X {"", "NoAddresses", "NoRoutes"}

DNSPolicyType == [spec : DNSSpecs, born : Nat, deleting : BOOLEAN,
                  accepted : DNSReasons, enforced : DNSEnforcement]

ASSUME DNSAssumption ==
    /\ IsFiniteSet(DNSPolicySet) /\ IsFiniteSet(ListenerSet)
    /\ DNSSpecs \subseteq DNSSpecType /\ DNSInitial \subseteq DNSSpecs
    /\ Unborn \notin DNSPolicyType /\ Gone \notin DNSPolicyType
    /\ NoHost \notin DNSHosts
    /\ MaxDNSChanges \in Nat

VARIABLES
    dnsPolicy,    \* a member of DNSPolicyType, or Unborn or Gone
    dnsListener,  \* hostname and whether routes are attached, or Gone
    dnsAddresses, \* whether the gateway has status addresses
    dnsRecord,    \* of a listener: [spec, owner, deleting, failing], or NoRecord
    dnsEvents,    \* kinds of the objects that changed since the last list
    dnsTrigger,   \* an event that a watch let through waits for a pass
    dnsPass,      \* the events of the running pass, {} when none runs
    dnsPlan,      \* the writes to records that the pass has still to do
    dnsStatuses,  \* the statuses that it writes after them
    dnsDirty,     \* policies and records changed since the pass began
    dnsFailed,    \* the pass has recorded an error
    dnsRetry,     \* the events of the scheduled retry, {} when none is
    dnsLost,      \* a failure that nothing will retry
    dnsChanges    \* counts what MaxDNSChanges bounds

dnsVars == <<dnsPolicy, dnsListener, dnsAddresses, dnsRecord, dnsEvents,
             dnsTrigger, dnsPass, dnsPlan, dnsStatuses, dnsDirty, dnsFailed, dnsRetry,
             dnsLost, dnsChanges>>

DNSKinds == {"Gateway", "DNSPolicy", "DNSRecord"}

NotEnforced == <<"none", "">>

-----------------------------------------------------------------------------
\* The topology.  t is a snapshot: policies, listeners, addresses, records.

DNSTopology == [policy |-> dnsPolicy, listener |-> dnsListener,
                addresses |-> dnsAddresses, record |-> dnsRecord]

Exists(t, l) == t.listener[l] # Gone

\* LinkListenerToDNSRecord: by name, so the record of a listener is named by it.
LinkListenerToDNSRecord(t, l) == Exists(t, l) /\ t.record[l] # NoRecord

\* LinkDNSPolicyToDNSRecord: by the UID of the owner.
LinkDNSPolicyToDNSRecord(t, p) ==
    {l \in ListenerSet : t.record[l] # NoRecord /\ t.record[l].owner = p}

\* listenersForPolicy: a listener that has a policy of its own, accepted or
\* not, is left to it.
listenersForPolicy(t, p) ==
    LET target == t.policy[p].spec.target
    IN  {l \in ListenerSet : /\ Exists(t, l)
                             /\ \/ target = l
                                \/ target = "gateway" /\ AttachedTo(t.policy, l) = {}}

-----------------------------------------------------------------------------
\* The validator.

validateDNS(t, p) ==
    IF ~isTargetRefsFound(t.policy, t.listener, p) THEN "TargetNotFound"
    ELSE IF isConflict(t.policy, p) THEN "Conflicted"
    ELSE IF t.policy[p].spec.exclude = "malformed" THEN "Invalid"
    ELSE "Accepted"

\* dnsPolicyAcceptedStatusFunc: the verdict of this pass or, when the validator did
\* not run in it, of the status.  An error read from the status has lost its type,
\* and the status updater will give it the reason Unknown.
dnsPolicyAccepted(t, validated, p) ==
    IF validated THEN validateDNS(t, p)
    ELSE IF t.policy[p].accepted \in {"none", "Accepted"} THEN t.policy[p].accepted
    ELSE "Unknown"

-----------------------------------------------------------------------------
\* The effective policies reconciler.

\* desiredDNSRecord: the specification, which has endpoints only if addresses remain.
desiredDNSRecord(t, p, l) ==
    [host |-> t.listener[l].host, lb |-> t.policy[p].spec.lb]

HasEndpoints(t, p) == t.addresses /\ t.policy[p].spec.exclude # "all"

\* RemoveExcludedStatusAddresses parses the exclusions for each address there is.
ExclusionsFail(t, p) == t.addresses /\ t.policy[p].spec.exclude = "malformed"

RecordType(lb) == IF lb = "simple" THEN "A" ELSE "CNAME"

canUpdateDNSRecord(current, desired) ==
    /\ current.host = desired.host
    /\ RecordType(current.lb) = RecordType(desired.lb)

ListenerTurnAlwaysUpdates(t, spec, p, l) ==
    LET desired == desiredDNSRecord(t, p, l)
        wanted  == t.listener[l].routes /\ HasEndpoints(t, p)
    IN  IF desired.host = NoHost \/ ExclusionsFail(t, p) THEN "skip"
        ELSE IF ~LinkListenerToDNSRecord(t, l)
             THEN IF wanted THEN "create" ELSE "skip"
        ELSE IF ~wanted THEN "delete"
        ELSE IF ~canUpdateDNSRecord(spec[l], desired) THEN "replace"
        ELSE "update"

\* One turn of the loop over the listeners: what is done to the listener's
\* record.  spec gives the record specifications of the topology, which an
\* update of this pass has overwritten in place.
ListenerTurn(t, spec, p, l) ==
    LET desired == desiredDNSRecord(t, p, l)
        wanted  == t.listener[l].routes /\ HasEndpoints(t, p)
    IN  IF desired.host = NoHost \/ ExclusionsFail(t, p) THEN "skip"
        ELSE IF ~LinkListenerToDNSRecord(t, l)
             THEN IF wanted THEN "create" ELSE "skip"
        ELSE IF ~wanted THEN "delete"
        ELSE IF ~canUpdateDNSRecord(spec[l], desired) THEN "replace"
        ELSE IF spec[l] = desired THEN "skip"
        ELSE "update"

\* deleteRecord does nothing to a record that is being deleted.
deleteRecord(t, l) ==
    IF t.record[l].deleting THEN <<>> ELSE <<[op |-> "delete", record |-> l]>>

\* The loops over policies and listeners, turns being their pairs in order.  A
\* record that cannot be updated is deleted, and the policy's loop is left.
reconcileTurn(t, acc, turn) ==
    LET p == turn[1]
        l == turn[2]
        does == ListenerTurn(t, acc.spec, p, l)
        desired == desiredDNSRecord(t, p, l)
    IN  IF p \in acc.left THEN acc
        ELSE [plan |-> acc.plan \o
                 (CASE does = "skip" -> <<>>
                    [] does \in {"delete", "replace"} -> deleteRecord(t, l)
                    [] does = "create" ->
                         <<[op |-> "create", record |-> l, spec |-> desired, owner |-> p]>>
                    [] does = "update" ->
                         <<[op |-> "update", record |-> l, spec |-> desired]>>),
              spec |-> IF does = "update" THEN [acc.spec EXCEPT ![l] = desired] ELSE acc.spec,
              left |-> IF does = "replace" THEN acc.left \cup {p} ELSE acc.left]

isOrphanByOwner(t, l) ==
    /\ t.record[l] # NoRecord
    /\ ~Exists(t, l) \/ t.record[l].owner \notin Present(t.policy)

\* deleteOrphanDNSRecords.  A policy reaches a record, besides by owning it,
\* through a listener it targets or whose gateway it targets.
isOrphan(t, l) ==
    /\ t.record[l] # NoRecord
    /\ LET owner == t.record[l].owner
       IN  \/ ~Exists(t, l)
           \/ owner \notin Present(t.policy)
           \/ t.policy[owner].spec.target \notin {l, "gateway"}

deleteOrphanDNSRecords(t) ==
    LET orphans == InOrder({l \in ListenerSet : isOrphan(t, l) /\ ~t.record[l].deleting})
    IN  [i \in DOMAIN orphans |-> [op |-> "delete", record |-> orphans[i]]]

\* The policies the loop does not skip.
Effective(t, validated) ==
    {p \in Present(t.policy) : /\ ~t.policy[p].deleting
                        /\ dnsPolicyAccepted(t, validated, p) = "Accepted"}

\* The turns of a pass, policy by policy in some order, each with its listeners.
DNSTurns(t, validated) ==
    LET pairs == {x \in Effective(t, validated) \X ListenerSet : x[2] \in listenersForPolicy(t, x[1])}
    IN  {turns \in Orders(pairs) :
           \A i, j, k \in DOMAIN turns :
             i < j /\ j < k /\ turns[i][1] = turns[k][1] => turns[j][1] = turns[i][1]}

\* The loops begin with the specifications of the topology.
LoopStart(t) ==
    [plan |-> <<>>, left |-> {},
     spec |-> [l \in {l \in ListenerSet : t.record[l] # NoRecord} |-> t.record[l].spec]]

reconcileLoop(t, turns) ==
    LET acc[n \in 0..Len(turns)] ==
          IF n = 0 THEN LoopStart(t) ELSE reconcileTurn(t, acc[n - 1], turns[n])
    IN  acc

reconcileDNS(t, turns) == reconcileLoop(t, turns)[Len(turns)].plan \o deleteOrphanDNSRecords(t)

-----------------------------------------------------------------------------
\* The status updater.

\* The contextual error the reconciler leaves for a policy.
policyError(t, p) ==
    LET hosted == {l \in listenersForPolicy(t, p) : t.listener[l].host # NoHost}
    IN  IF hosted = {} \/ ~t.addresses THEN "NoAddresses"
        ELSE IF \A l \in hosted : ~t.listener[l].routes THEN "NoRoutes"
        ELSE IF ~HasEndpoints(t, p) THEN "NoAddresses"
        ELSE ""

\* enforcedCondition: by the records that say that they are not ready.
enforcedCondition(t, p) ==
    LET records  == LinkDNSPolicyToDNSRecord(t, p)
        notReady == {l \in records : t.record[l].failing}
    IN  IF records # {} /\ notReady = records THEN "no"
        ELSE IF notReady # {} THEN "some"
        ELSE "all"

\* updateStatus for one policy.  A missing condition is no error, and
\* AcceptedCondition makes it Accepted although accepted is false.
updateStatus(t, validated, p) ==
    LET verdict == dnsPolicyAccepted(t, validated, p)
    IN  [policy |-> p,
         accepted |-> IF verdict = "none" THEN "Accepted" ELSE verdict,
         enforced |-> IF verdict # "Accepted" THEN NotEnforced
                      ELSE <<enforcedCondition(t, p), policyError(t, p)>>]

updateStatuses(t, validated) ==
    LET ps == InOrder({p \in Present(t.policy) : ~t.policy[p].deleting})
    IN  [i \in DOMAIN ps |-> updateStatus(t, validated, ps[i])]

-----------------------------------------------------------------------------
\* A pass.

DNSIdle == dnsPass = {}

CountDNSChange == dnsChanges < MaxDNSChanges /\ dnsChanges' = dnsChanges + 1

ValidatorEventsOfGateway == {"Gateway"}

\* The subscription of the validator; the reconciler and the status updater
\* have DNSRecord in theirs as well, which are all the kinds there are.
ValidatorEvents == {"Gateway", "DNSPolicy"}

\* A pass with the events es takes the topology of that moment, and no retry is left.
StartDNSPass(es) ==
    LET validated == es \cap ValidatorEvents # {}
        t == DNSTopology
    IN  /\ DNSIdle /\ es # {}
        /\ \E turns \in DNSTurns(t, validated) : dnsPlan' = reconcileDNS(t, turns)
        /\ dnsStatuses' = updateStatuses(t, validated)
        /\ dnsLost' = (dnsLost /\ ~validated)
        /\ dnsPass' = es
        /\ dnsRetry' = {}
        /\ dnsDirty' = {}
        /\ dnsFailed' = FALSE
        /\ UNCHANGED <<dnsPolicy, dnsListener, dnsAddresses, dnsRecord>>

\* A pass takes the changes since the last one, and cancels the retry.  What triggers
\* it may be an event for the rest of the operator.
BeginDNSPass ==
    /\ StartDNSPass(dnsEvents)
    /\ \/ dnsTrigger /\ UNCHANGED dnsChanges
       \/ ~dnsTrigger /\ CountDNSChange
    /\ dnsEvents' = {} /\ dnsTrigger' = FALSE

\* The timer of the retry fires: a pass with the events of the one that failed.
RetryDNSPass ==
    /\ StartDNSPass(dnsRetry)
    /\ UNCHANGED <<dnsEvents, dnsTrigger, dnsChanges>>

\* A pass for the rest of the operator alone cancels the retry as well, and its error
\* handler takes the errors that it has not seen for resolved.
OtherDNSPass ==
    /\ DNSIdle /\ dnsRetry # {} /\ dnsEvents = {}
    /\ CountDNSChange
    /\ dnsRetry' = {}
    /\ dnsLost' = TRUE
    /\ UNCHANGED <<dnsPolicy, dnsListener, dnsAddresses, dnsRecord, dnsEvents, dnsTrigger,
                   dnsPass, dnsPlan, dnsStatuses, dnsDirty, dnsFailed>>

\* An object is changed: its event, and the mark that makes an update with the
\* resource version of the snapshot conflict.
DNSChanged(kind, x) ==
    /\ dnsEvents' = dnsEvents \cup {kind} /\ dnsTrigger' = TRUE
    /\ dnsDirty' = IF DNSIdle THEN {} ELSE dnsDirty \cup {<<kind, x>>}

RecordChanged(l, r) ==
    /\ dnsRecord' = [dnsRecord EXCEPT ![l] = r]
    /\ DNSChanged("DNSRecord", l)
    /\ UNCHANGED dnsPolicy

\* Whether the API server carries out a call.
Admitted(w) ==
    CASE w.op = "create" -> dnsRecord[w.record] = NoRecord
      [] w.op = "update" -> dnsRecord[w.record] # NoRecord /\ <<"DNSRecord", w.record>> \notin dnsDirty
      [] w.op = "delete" -> TRUE

\* Deleting a record only marks it: the DNS operator has a finalizer on it.
PerformDNS(w) ==
    \/ /\ w.op = "create"
       /\ RecordChanged(w.record, [spec |-> w.spec, owner |-> w.owner,
                                   deleting |-> FALSE, failing |-> FALSE])
    \/ /\ w.op = "update"
       /\ RecordChanged(w.record, [dnsRecord[w.record] EXCEPT !.spec = w.spec])
    \/ /\ w.op = "delete"
       /\ IF dnsRecord[w.record] = NoRecord
          THEN UNCHANGED <<dnsRecord, dnsEvents, dnsTrigger, dnsDirty, dnsPolicy>>
          ELSE RecordChanged(w.record, [dnsRecord[w.record] EXCEPT !.deleting = TRUE])

\* The next write of the reconciler, whose failures are recorded for a retry.
WriteRecord ==
    /\ dnsPlan # <<>>
    /\ dnsPlan' = Tail(dnsPlan)
    /\ LET w == Head(dnsPlan)
       IN  \/ Admitted(w) /\ PerformDNS(w) /\ UNCHANGED <<dnsFailed, dnsChanges>>
           \/ /\ \/ ~Admitted(w) /\ UNCHANGED dnsChanges
                 \/ CountDNSChange
              /\ dnsFailed' = TRUE
              /\ UNCHANGED <<dnsPolicy, dnsRecord, dnsEvents, dnsTrigger, dnsDirty>>
    /\ UNCHANGED <<dnsListener, dnsAddresses, dnsPass, dnsStatuses, dnsRetry, dnsLost>>

\* A status is written.  One that stays the same is no update.
SetDNSStatus(w) ==
    /\ dnsPolicy' = [dnsPolicy EXCEPT ![w.policy].accepted = w.accepted,
                                      ![w.policy].enforced = w.enforced]
    /\ dnsEvents' = IF dnsPolicy' = dnsPolicy THEN dnsEvents ELSE dnsEvents \cup {"DNSPolicy"}

DNSStatusAdmitted(w) ==
    dnsPolicy[w.policy] # Gone /\ <<"DNSPolicy", w.policy>> \notin dnsDirty

\* The next write of the status updater, which only logs its failures.
WriteDNSStatus ==
    /\ dnsPlan = <<>> /\ dnsStatuses # <<>>
    /\ dnsStatuses' = Tail(dnsStatuses)
    /\ LET w == Head(dnsStatuses)
       IN  \/ DNSStatusAdmitted(w) /\ SetDNSStatus(w) /\ UNCHANGED <<dnsLost, dnsChanges>>
           \/ /\ \/ ~DNSStatusAdmitted(w) /\ UNCHANGED <<dnsLost, dnsChanges>>
                 \/ CountDNSChange /\ dnsLost' = TRUE
              /\ UNCHANGED <<dnsPolicy, dnsEvents>>
    /\ UNCHANGED <<dnsListener, dnsAddresses, dnsRecord, dnsTrigger, dnsPass, dnsPlan,
                   dnsDirty, dnsFailed, dnsRetry>>

DNSPassOver ==
    /\ dnsPass' = {}
    /\ dnsFailed' = FALSE
    /\ dnsDirty' = {}
    /\ UNCHANGED <<dnsPolicy, dnsListener, dnsAddresses, dnsRecord, dnsEvents, dnsTrigger>>

\* The error handler schedules a retry with the events of the pass, or gives up errors
\* that have been retried maxRetryAttempts times; how often they have been is left open.
EndDNSPass ==
    /\ ~DNSIdle /\ dnsPlan = <<>> /\ dnsStatuses = <<>>
    /\ \/ ~dnsFailed /\ UNCHANGED <<dnsRetry, dnsLost, dnsChanges>>
       \/ dnsFailed /\ dnsRetry' = dnsPass /\ UNCHANGED <<dnsLost, dnsChanges>>
       \/ dnsFailed /\ CountDNSChange /\ dnsLost' = TRUE /\ UNCHANGED dnsRetry
    /\ DNSPassOver
    /\ UNCHANGED <<dnsPlan, dnsStatuses>>

\* A task returns an error, here when the UID of the cluster cannot be had or anywhere
\* else in the operator: the rest of the pass is cancelled, the error handler with it.
AbortDNSPass ==
    /\ ~DNSIdle
    /\ CountDNSChange
    /\ dnsPlan' = <<>> /\ dnsStatuses' = <<>>
    /\ dnsLost' = TRUE
    /\ DNSPassOver
    /\ UNCHANGED dnsRetry

\* The operator restarts; the informers deliver everything anew.
RestartDNS ==
    /\ CountDNSChange
    /\ dnsPass' = {} /\ dnsPlan' = <<>> /\ dnsStatuses' = <<>>
    /\ dnsFailed' = FALSE /\ dnsDirty' = {}
    /\ dnsEvents' = DNSKinds /\ dnsTrigger' = TRUE
    /\ dnsRetry' = {}
    /\ UNCHANGED <<dnsPolicy, dnsListener, dnsAddresses, dnsRecord, dnsLost>>

-----------------------------------------------------------------------------
\* The cluster: users, the garbage collector, the DNS operator.

PassFrame == UNCHANGED <<dnsPass, dnsPlan, dnsStatuses, dnsFailed, dnsRetry, dnsLost>>

PolicyChanged(p, v) ==
    /\ dnsPolicy' = [dnsPolicy EXCEPT ![p] = v]
    /\ DNSChanged("DNSPolicy", p)
    /\ UNCHANGED <<dnsListener, dnsAddresses, dnsRecord>>
    /\ PassFrame

NewDNSPolicy(s, b) == [spec |-> s, born |-> b, deleting |-> FALSE,
                       accepted |-> "none", enforced |-> NotEnforced]

UserCreatesPolicy(p) ==
    /\ dnsPolicy[p] = Unborn
    /\ CountDNSChange
    /\ \E s \in DNSSpecs, b \in Births(dnsPolicy) : PolicyChanged(p, NewDNSPolicy(s, b))

UserEditsPolicy(p) ==
    /\ p \in Present(dnsPolicy) /\ ~dnsPolicy[p].deleting
    /\ CountDNSChange
    /\ \E s \in DNSSpecs \ {dnsPolicy[p].spec} :
         PolicyChanged(p, [dnsPolicy[p] EXCEPT !.spec = s])

\* Deletion in the background removes the policy at once, in the foreground
\* when its records are gone.
UserDeletesPolicy(p) ==
    /\ p \in Present(dnsPolicy) /\ ~dnsPolicy[p].deleting
    /\ CountDNSChange
    /\ \/ PolicyChanged(p, Gone)
       \/ PolicyChanged(p, [dnsPolicy[p] EXCEPT !.deleting = TRUE])

PolicyFinalized(p) ==
    /\ p \in Present(dnsPolicy) /\ dnsPolicy[p].deleting
    /\ LinkDNSPolicyToDNSRecord(DNSTopology, p) = {}
    /\ PolicyChanged(p, Gone)
    /\ UNCHANGED dnsChanges

\* A listener changes its hostname, gains or loses its routes, comes or goes; the
\* gateway gets or loses its addresses.
GatewayChanges ==
    /\ CountDNSChange
    /\ \/ /\ \E l \in ListenerSet, v \in {Gone} \cup [host : DNSHosts \cup {NoHost}, routes : BOOLEAN] :
               /\ v # dnsListener[l]
               /\ dnsListener' = [dnsListener EXCEPT ![l] = v]
          /\ UNCHANGED dnsAddresses
       \/ dnsAddresses' = ~dnsAddresses /\ UNCHANGED dnsListener
    /\ dnsEvents' = dnsEvents \cup {"Gateway"} /\ dnsTrigger' = TRUE
    /\ UNCHANGED <<dnsPolicy, dnsRecord, dnsDirty>>
    /\ PassFrame

RecordFrame == UNCHANGED <<dnsListener, dnsAddresses>> /\ PassFrame

CollectRecord(l) ==
    /\ dnsRecord[l] # NoRecord /\ ~dnsRecord[l].deleting
    /\ \/ dnsPolicy[dnsRecord[l].owner] = Gone
       \/ dnsPolicy[dnsRecord[l].owner] # Gone /\ dnsPolicy[dnsRecord[l].owner].deleting
    /\ RecordChanged(l, [dnsRecord[l] EXCEPT !.deleting = TRUE])
    /\ UNCHANGED dnsChanges
    /\ RecordFrame

RecordFinalized(l) ==
    /\ dnsRecord[l] # NoRecord /\ dnsRecord[l].deleting
    /\ RecordChanged(l, NoRecord)
    /\ UNCHANGED dnsChanges
    /\ RecordFrame

\* The DNS operator publishes the record, or fails to.
RecordReported(l) ==
    /\ dnsRecord[l] # NoRecord
    /\ CountDNSChange
    /\ RecordChanged(l, [dnsRecord[l] EXCEPT !.failing = ~@])
    /\ RecordFrame

-----------------------------------------------------------------------------
DNSInit ==
    /\ dnsPolicy \in [DNSPolicySet -> {Unborn} \cup {NewDNSPolicy(s, 0) : s \in DNSInitial}]
    /\ dnsListener = [l \in ListenerSet |->
                        [host |-> CHOOSE h \in DNSHosts : TRUE, routes |-> TRUE]]
    /\ dnsAddresses = TRUE
    /\ dnsRecord = [l \in ListenerSet |-> NoRecord]
    /\ dnsEvents = DNSKinds /\ dnsTrigger = TRUE
    /\ dnsPass = {} /\ dnsPlan = <<>> /\ dnsStatuses = <<>> /\ dnsDirty = {}
    /\ dnsFailed = FALSE /\ dnsRetry = {} /\ dnsLost = FALSE
    /\ dnsChanges = 0

DNSOperate ==
    BeginDNSPass \/ RetryDNSPass \/ WriteRecord \/ WriteDNSStatus \/ EndDNSPass

DNSCollect ==
    \/ \E p \in DNSPolicySet : PolicyFinalized(p)
    \/ \E l \in ListenerSet : CollectRecord(l) \/ RecordFinalized(l)

DNSNext ==
    \/ DNSOperate
    \/ OtherDNSPass
    \/ AbortDNSPass
    \/ RestartDNS
    \/ DNSCollect
    \/ \E p \in DNSPolicySet :
         UserCreatesPolicy(p) \/ UserEditsPolicy(p) \/ UserDeletesPolicy(p)
    \/ GatewayChanges
    \/ \E l \in ListenerSet : RecordReported(l)

DNSWaits == DNSIdle /\ ~dnsTrigger /\ dnsRetry = {}

\* Weak fairness of DNSOperate, spelled out: it is enabled unless the operator waits, idle
\* with nothing that triggers a pass, and it is what changes the pass or its plan (but
\* for a bounded number of restarts and aborts).
DNSFairness ==
    /\ \/ []<>DNSWaits
       \/ []<><<<<dnsPass, dnsPlan, dnsStatuses>>' # <<dnsPass, dnsPlan, dnsStatuses>>>>_dnsVars
    /\ WF_dnsVars(DNSCollect)

DNSSpec == DNSInit /\ [][DNSNext]_dnsVars /\ DNSFairness

-----------------------------------------------------------------------------
\* Nothing waits to be done: no pass, trigger or retry, no object on its way out.
DNSAtRest ==
    /\ DNSWaits
    /\ \A l \in ListenerSet : dnsRecord[l] # NoRecord =>
         /\ ~dnsRecord[l].deleting
         /\ dnsPolicy[dnsRecord[l].owner] # Gone
         /\ ~dnsPolicy[dnsRecord[l].owner].deleting

\* The effective policies reconciler keeps the records (reconcile and
\* deleteOrphanDNSRecords): at rest a listener that a valid policy covers, with hostname,
\* routes and addresses, has a record with what that policy asks for; and no
\* record is left without a listener or without a policy that reaches it.  This holds
\* whatever happened during the passes, although a record that cannot be updated
\* makes the loop leave the other listeners, and although a pass cancels the retry
\* of the one before.  Excepted is what dnsLost says: a failure that was given up, lost its
\* retry to a pass that did not run the workflow, or came with an aborted pass, until
\* a pass with the validator.
DNSRecordsMatch ==
    LET t == DNSTopology IN
    DNSAtRest /\ ~dnsLost =>
      /\ \A p \in Present(t.policy), l \in ListenerSet :
           /\ ~dnsPolicy[p].deleting /\ validateDNS(t, p) = "Accepted"
           /\ l \in listenersForPolicy(t, p)
           /\ dnsListener[l].host # NoHost /\ dnsListener[l].routes /\ HasEndpoints(t, p)
           => dnsRecord[l] # NoRecord /\ dnsRecord[l].spec = desiredDNSRecord(t, p, l)
      /\ \A l \in ListenerSet : dnsRecord[l] # NoRecord =>
           /\ Exists(t, l)
           /\ dnsRecord[l].owner \in Present(t.policy)
           /\ t.policy[dnsRecord[l].owner].spec.target \in {l, "gateway"}

\* The status updater, which falls back to the last verdict when the validator did
\* not run (dnsPolicyAcceptedStatusFunc): at rest a policy is reported accepted
\* exactly if it is valid now, and enforced according to its records.
DNSStatusCurrent ==
    LET t == DNSTopology IN
    DNSAtRest /\ ~dnsLost =>
      \A p \in Present(t.policy) :
        LET valid == validateDNS(t, p) = "Accepted" IN
        ~dnsPolicy[p].deleting =>
          /\ (dnsPolicy[p].accepted = "Accepted") = valid
          /\ dnsPolicy[p].enforced =
               IF valid THEN <<enforcedCondition(t, p), policyError(t, p)>> ELSE NotEnforced

=============================================================================
