----------------------------- MODULE TLSPolicies -----------------------------
(***************************************************************************)
(* The TLS workflow (internal/controller/tls_workflow.go): the validator,  *)
(* the effective policies reconciler, which keeps a cert-manager           *)
(* Certificate per listener of a gateway, and the status updater.          *)
(*                                                                         *)
(* Passes are as in DNSPolicies: started by the events that the watches    *)
(* let through, with the changes since the last list as their events, and  *)
(* with writes that are decided when the pass begins.  The three           *)
(* reconcilers subscribe to different events here, and a pass may run any  *)
(* of them without the others.                                             *)
(***************************************************************************)
EXTENDS PolicyLife, Sequences

CONSTANTS TLSPolicySet,     \* UIDs of TLS policies
          TLSListenerSet,   \* listener names of the one gateway
          TLSBlocks,        \* what a listener's TLS block may be, see TLSBlockType
          TLSFirstBlock,    \* the one the listeners begin with
          IssuerSet,
          TLSSpecs,         \* specifications of policies
          NoCert,
          MaxTLSChanges     \* changes to the cluster, failed calls and restarts

\* A listener's certificateRefs: names of secrets.  None stands for every listener that
\* validateGatewayListenerBlock refuses.
MaxRefs == 2

TLSBlockType == UNION {[1..n -> {"secret1", "secret2"}] : n \in 0..MaxRefs}

TLSPolicyType == [spec : TLSSpecs, born : Nat, deleting : BOOLEAN,
                  accepted : {"none", "Accepted", "TargetNotFound", "Conflicted", "Invalid"},
                  enforced : {"none", "yes", "no"}]

ASSUME TLSAssumption ==
    /\ IsFiniteSet(TLSPolicySet) /\ IsFiniteSet(TLSListenerSet)
    /\ Unborn \notin TLSPolicyType /\ Gone \notin TLSPolicyType
    /\ TLSBlocks \subseteq TLSBlockType /\ TLSFirstBlock \in TLSBlocks
    /\ TLSSpecs \subseteq [target : TLSListenerSet \cup {"gateway"}, issuer : IssuerSet]
    /\ MaxTLSChanges \in Nat

VARIABLES
    tlsPolicy,    \* a member of TLSPolicyType, or Unborn or Gone
    tlsListener,  \* the TLS block of a listener, or Gone
    tlsIssuer,    \* an issuer is absent, present or ready
    tlsCert,      \* of a listener: [spec, owner, ready], or NoCert
    tlsEvents,    \* kinds of the objects that changed since the last list
    tlsTrigger,   \* an event that a watch let through waits for a pass
    tlsPass,      \* the events of the running pass, {} when none runs
    tlsPlan,      \* the writes to certificates that the pass has still to do
    tlsStatuses,  \* the statuses that it writes after them
    tlsDirty,     \* policies and certificates changed since the pass began
    tlsFailed,    \* the pass has recorded an error
    tlsRetry,     \* the events of the scheduled retry, {} when none is
    tlsLost,      \* a failure that nothing will retry
    tlsMissed,    \* a change that came with no event for all three reconcilers
    tlsChanges    \* counts what MaxTLSChanges bounds

tlsVars == <<tlsPolicy, tlsListener, tlsIssuer, tlsCert, tlsEvents, tlsTrigger,
             tlsPass, tlsPlan, tlsStatuses, tlsDirty, tlsFailed, tlsRetry, tlsLost,
             tlsMissed, tlsChanges>>

\* "TLSPolicy" stands for the creation and the update of a policy.
TLSKinds == {"Gateway", "TLSPolicy", "TLSPolicyDeleted", "Certificate", "Issuer"}

-----------------------------------------------------------------------------
\* The topology.  t is a snapshot: policies, listeners, issuers, certificates.

TLSTopology == [policy |-> tlsPolicy, listener |-> tlsListener,
                issuer |-> tlsIssuer, cert |-> tlsCert]

\* validateGatewayListenerBlock, of a listener that there is.
ValidBlock(t, l) == t.listener[l] \notin {Gone, <<>>}

\* getTLSPoliciesForListener: the policies of the listener, valid or not, else the
\* gateway's.
getTLSPoliciesForListener(t, l) ==
    IF AttachedTo(t.policy, l) # {} THEN AttachedTo(t.policy, l)
                                    ELSE AttachedTo(t.policy, "gateway")

\* LinkListenerToCertificateFunc: by the names of the gateway and of the listener.
LinkListenerToCertificate(t, l) ==
    t.cert[l] # NoCert /\ t.listener[l] \notin {Gone, <<>>}

-----------------------------------------------------------------------------
\* The validator.

\* isIssuerFound: the issuer is a child of the policy, through the links by the name,
\* the kind and, for an Issuer, the namespace of the reference.
isIssuerFound(t, p) == t.issuer[t.policy[p].spec.issuer] # "absent"

ValidateTLS(t, p) ==
    IF ~isTargetRefsFound(t.policy, t.listener, p) THEN "TargetNotFound"
    ELSE IF isConflict(t.policy, p) THEN "Conflicted"
    ELSE IF ~isIssuerFound(t, p) THEN "Invalid"
    ELSE "Accepted"

\* IsTLSPolicyValid: its first result, and the reason its error leads to.  When the
\* validator did not run in the pass there is no error, whatever the status says.
IsTLSPolicyValid(t, validated, p) ==
    IF validated THEN ValidateTLS(t, p) = "Accepted"
                 ELSE t.policy[p].accepted = "Accepted"

ValidityReason(t, validated, p) ==
    IF validated THEN ValidateTLS(t, p) ELSE "Accepted"

-----------------------------------------------------------------------------
\* The effective policies reconciler.

\* buildCertManagerCertificate and translatePolicy: named after the listener, whatever
\* the secret.
buildCertManagerCertificate(t, turn) ==
    [op |-> "create", cert |-> turn[1], owner |-> turn[3],
     spec |-> [secret |-> t.listener[turn[1]][turn[2]], issuer |-> t.policy[turn[3]].spec.issuer]]

\* The turns of the three loops: every reference of a listener and every valid policy.
CertTurns(t, validated) ==
    {x \in TLSListenerSet \X (1..MaxRefs) \X Present(t.policy) :
       /\ ValidBlock(t, x[1]) /\ x[2] \in DOMAIN t.listener[x[1]]
       /\ x[3] \in getTLSPoliciesForListener(t, x[1])
       /\ ~t.policy[x[3]].deleting
       /\ IsTLSPolicyValid(t, validated, x[3])}

\* Their order, the listeners being at the places ls and the policies at the places ps.
TurnBefore(x, y, ls, ps) ==
    \/ ls[x[1]] < ls[y[1]]
    \/ x[1] = y[1] /\ (x[2] < y[2] \/ (x[2] = y[2] /\ ps[x[3]] < ps[y[3]]))

TurnsInOrder(turns, ls, ps) ==
    LET place(x) == Cardinality({y \in turns : TurnBefore(y, x, ls, ps)})
    IN  [n \in 1..Cardinality(turns) |-> CHOOSE x \in turns : place(x) = n - 1]

\* The turns of a pass, for some order of the policies and of the listeners.
TLSTurns(t, validated) ==
    {TurnsInOrder(CertTurns(t, validated), ls, ps) :
       ls \in Places(TLSListenerSet), ps \in Places(Present(t.policy))}

\* One turn of reconcileCertificates.  An update overwrites the specification in the
\* topology, where the next target of the same name finds it.
reconcileCertificate(t, acc, target) ==
    LET l == target.cert
    IN  IF ~LinkListenerToCertificate(t, l)
        THEN [plan |-> Append(acc.plan, target), spec |-> acc.spec]
        ELSE IF acc.spec[l] = target.spec THEN acc
        ELSE [plan |-> Append(acc.plan, [op |-> "update", cert |-> l, spec |-> target.spec]),
              spec |-> [acc.spec EXCEPT ![l] = target.spec]]

OrphanedCertsOfListeners(t, turns) ==
    {l \in TLSListenerSet : /\ LinkListenerToCertificate(t, l)
                            /\ \A i \in DOMAIN turns : turns[i][1] # l}

\* Certificates of the topology that no target expects.
OrphanedCerts(t, turns) ==
    {l \in TLSListenerSet : t.cert[l] # NoCert /\ \A i \in DOMAIN turns : turns[i][1] # l}

CertLoopStart(t) ==
    [plan |-> <<>>,
     spec |-> [l \in {l \in TLSListenerSet : t.cert[l] # NoCert} |-> t.cert[l].spec]]

reconcileCertificates(t, turns) ==
    LET acc[n \in 0..Len(turns)] ==
          IF n = 0 THEN CertLoopStart(t)
          ELSE reconcileCertificate(t, acc[n - 1], buildCertManagerCertificate(t, turns[n]))
    IN  acc

ReconcileTLS(t, turns) ==
    LET orphans == InOrder(OrphanedCerts(t, turns))
    IN  reconcileCertificates(t, turns)[Len(turns)].plan
        \o [i \in DOMAIN orphans |-> [op |-> "delete", cert |-> orphans[i]]]

-----------------------------------------------------------------------------
\* The status updater.

isIssuerReady(t, p) == t.issuer[t.policy[p].spec.issuer] = "ready"

\* isCertificatesReady: for the listeners that have the policy or whose gateway has it,
\* a listener with a policy of its own included.
isCertificatesReady(t, p) ==
    LET target == t.policy[p].spec.target
        listeners == {l \in TLSListenerSet : t.listener[l] # Gone /\ target \in {l, "gateway"}}
    IN  /\ listeners # {}
        /\ \A l \in listeners : ValidBlock(t, l) =>
             LinkListenerToCertificate(t, l) /\ t.cert[l].ready

UpdateTLSStatus(t, validated, p) ==
    LET reason == ValidityReason(t, validated, p)
    IN  [policy |-> p, accepted |-> reason,
         enforced |-> IF reason # "Accepted" THEN "none"
                      ELSE IF isIssuerReady(t, p) /\ isCertificatesReady(t, p) THEN "yes"
                      ELSE "no"]

UpdateTLSStatuses(t, validated) ==
    LET ps == InOrder({p \in Present(t.policy) : ~t.policy[p].deleting})
    IN  [i \in DOMAIN ps |-> UpdateTLSStatus(t, validated, ps[i])]

-----------------------------------------------------------------------------
\* A pass.

TLSIdle == tlsPass = {}

CountTLSChange == tlsChanges < MaxTLSChanges /\ tlsChanges' = tlsChanges + 1

\* The subscriptions of the three.  The deletion of a policy is no event for the
\* validator and the status updater, and an issuer none for the reconciler.
TLSValidatorEvents == {"Gateway", "TLSPolicy", "Issuer"}
TLSReconcilerEvents == {"Gateway", "TLSPolicy", "TLSPolicyDeleted", "Certificate"}
TLSStatusEvents == {"Gateway", "TLSPolicy", "Certificate", "Issuer"}

\* A pass with the events es takes the topology of that moment, and no retry is left.
\* stale says that it does not make good what failed before, unless all three run.
StartTLSPass(es, stale) ==
    LET t == TLSTopology
        validated == es \cap TLSValidatorEvents # {}
        reconciled == es \cap TLSReconcilerEvents # {}
    IN  /\ TLSIdle /\ es # {}
        /\ \E turns \in TLSTurns(t, validated) :
             tlsPlan' = IF reconciled THEN ReconcileTLS(t, turns) ELSE <<>>
        /\ tlsStatuses' = IF es \cap TLSStatusEvents # {}
                            THEN UpdateTLSStatuses(t, validated) ELSE <<>>
        /\ tlsMissed' = IF validated /\ reconciled THEN FALSE
                        ELSE tlsMissed \/ es \cap {"Issuer", "TLSPolicyDeleted"} # {}
        /\ tlsLost' = IF validated /\ reconciled THEN FALSE
                      ELSE tlsLost \/ stale
        /\ tlsPass' = es
        /\ tlsRetry' = {}
        /\ tlsDirty' = {}
        /\ tlsFailed' = FALSE
        /\ UNCHANGED <<tlsPolicy, tlsListener, tlsIssuer, tlsCert>>

\* A pass takes the changes since the last one, and cancels the retry, which is lost if
\* the reconciler does not run.  What triggers it may be an event for the rest of the operator.
BeginTLSPass ==
    /\ StartTLSPass(tlsEvents, tlsRetry # {} /\ tlsEvents \cap TLSReconcilerEvents = {})
    /\ \/ tlsTrigger /\ UNCHANGED tlsChanges
       \/ ~tlsTrigger /\ CountTLSChange
    /\ tlsEvents' = {} /\ tlsTrigger' = FALSE

\* The timer of the retry fires: a pass with the events of the one that failed.  Without
\* the validator it goes by the statuses, although those written since are not verdicts.
RetryTLSPass ==
    /\ StartTLSPass(tlsRetry, "TLSPolicy" \in tlsEvents)
    /\ UNCHANGED <<tlsEvents, tlsTrigger, tlsChanges>>

\* A pass for the rest of the operator alone cancels the retry as well, and its error
\* handler takes the errors that it has not seen for resolved.
OtherTLSPass ==
    /\ TLSIdle /\ tlsRetry # {} /\ tlsEvents = {}
    /\ CountTLSChange
    /\ tlsRetry' = {}
    /\ tlsLost' = TRUE
    /\ UNCHANGED <<tlsPolicy, tlsListener, tlsIssuer, tlsCert, tlsEvents, tlsTrigger,
                   tlsPass, tlsPlan, tlsStatuses, tlsDirty, tlsFailed, tlsMissed>>

TLSChanged(kind, x) ==
    /\ tlsEvents' = tlsEvents \cup {kind} /\ tlsTrigger' = TRUE
    /\ tlsDirty' = IF TLSIdle THEN {} ELSE tlsDirty \cup {<<kind, x>>}

CertChanged(l, c) ==
    /\ tlsCert' = [tlsCert EXCEPT ![l] = c]
    /\ TLSChanged("Certificate", l)
    /\ UNCHANGED tlsPolicy

\* Whether the API server carries out a call.
TLSAdmitted(w) ==
    CASE w.op = "create" -> tlsCert[w.cert] = NoCert
      [] w.op = "update" -> tlsCert[w.cert] # NoCert /\ <<"Certificate", w.cert>> \notin tlsDirty
      [] w.op = "delete" -> TRUE

\* cert-manager issues a certificate anew when its specification changes.
PerformTLS(w) ==
    \/ /\ w.op = "create"
       /\ CertChanged(w.cert, [spec |-> w.spec, owner |-> w.owner, ready |-> FALSE])
    \/ /\ w.op = "update"
       /\ CertChanged(w.cert, [tlsCert[w.cert] EXCEPT !.spec = w.spec, !.ready = FALSE])
    \/ /\ w.op = "delete"
       /\ IF tlsCert[w.cert] = NoCert
          THEN UNCHANGED <<tlsCert, tlsEvents, tlsTrigger, tlsDirty, tlsPolicy>>
          ELSE CertChanged(w.cert, NoCert)

\* The next write of the reconciler, whose failures are recorded for a retry.
WriteCert ==
    /\ tlsPlan # <<>>
    /\ tlsPlan' = Tail(tlsPlan)
    /\ LET w == Head(tlsPlan)
       IN  \/ TLSAdmitted(w) /\ PerformTLS(w) /\ UNCHANGED <<tlsFailed, tlsChanges>>
           \/ /\ \/ ~TLSAdmitted(w) /\ UNCHANGED tlsChanges
                 \/ CountTLSChange
              /\ tlsFailed' = TRUE
              /\ UNCHANGED <<tlsPolicy, tlsCert, tlsEvents, tlsTrigger, tlsDirty>>
    /\ UNCHANGED <<tlsListener, tlsIssuer, tlsPass, tlsStatuses, tlsRetry, tlsLost, tlsMissed>>

\* A status is written.  One that stays the same is no update.
SetTLSStatus(w) ==
    /\ tlsPolicy' = [tlsPolicy EXCEPT ![w.policy].accepted = w.accepted,
                                      ![w.policy].enforced = w.enforced]
    /\ tlsEvents' = IF tlsPolicy' = tlsPolicy THEN tlsEvents ELSE tlsEvents \cup {"TLSPolicy"}

TLSStatusAdmitted(w) ==
    tlsPolicy[w.policy] # Gone /\ <<"TLSPolicy", w.policy>> \notin tlsDirty

\* The next write of the status updater, which only logs its failures, and a conflict not
\* even that.
WriteTLSStatus ==
    /\ tlsPlan = <<>> /\ tlsStatuses # <<>>
    /\ tlsStatuses' = Tail(tlsStatuses)
    /\ LET w == Head(tlsStatuses)
       IN  \/ TLSStatusAdmitted(w) /\ SetTLSStatus(w) /\ UNCHANGED <<tlsLost, tlsChanges>>
           \/ /\ \/ ~TLSStatusAdmitted(w) /\ UNCHANGED <<tlsLost, tlsChanges>>
                 \/ CountTLSChange /\ tlsLost' = TRUE
              /\ UNCHANGED <<tlsPolicy, tlsEvents>>
    /\ UNCHANGED <<tlsListener, tlsIssuer, tlsCert, tlsTrigger, tlsPass, tlsPlan, tlsDirty,
                   tlsFailed, tlsRetry, tlsMissed>>

TLSPassOver ==
    /\ tlsPass' = {}
    /\ tlsFailed' = FALSE
    /\ tlsDirty' = {}
    /\ UNCHANGED <<tlsPolicy, tlsListener, tlsIssuer, tlsCert, tlsEvents, tlsTrigger, tlsMissed>>

\* The error handler schedules a retry with the events of the pass, or gives up errors
\* that have been retried maxRetryAttempts times; how often they have been is left open.
EndTLSPass ==
    /\ ~TLSIdle /\ tlsPlan = <<>> /\ tlsStatuses = <<>>
    /\ \/ ~tlsFailed /\ UNCHANGED <<tlsRetry, tlsLost, tlsChanges>>
       \/ tlsFailed /\ tlsRetry' = tlsPass /\ UNCHANGED <<tlsLost, tlsChanges>>
       \/ tlsFailed /\ CountTLSChange /\ tlsLost' = TRUE /\ UNCHANGED tlsRetry
    /\ TLSPassOver
    /\ UNCHANGED <<tlsPlan, tlsStatuses>>

\* A task anywhere in the operator returns an error: the rest of the pass is cancelled,
\* the error handler with it.
AbortTLSPass ==
    /\ ~TLSIdle
    /\ CountTLSChange
    /\ tlsPlan' = <<>> /\ tlsStatuses' = <<>>
    /\ tlsLost' = TRUE
    /\ TLSPassOver
    /\ UNCHANGED tlsRetry

\* The operator restarts, and the first list is a list of creations.
RestartTLS ==
    /\ CountTLSChange
    /\ tlsPass' = {} /\ tlsPlan' = <<>> /\ tlsStatuses' = <<>>
    /\ tlsFailed' = FALSE /\ tlsDirty' = {}
    /\ tlsEvents' = TLSKinds \ {"TLSPolicyDeleted"} /\ tlsTrigger' = TRUE
    /\ tlsRetry' = {}
    /\ UNCHANGED <<tlsPolicy, tlsListener, tlsIssuer, tlsCert, tlsLost, tlsMissed>>

-----------------------------------------------------------------------------
\* The cluster: users, the garbage collector, cert-manager.

TLSPassFrame ==
    UNCHANGED <<tlsPass, tlsPlan, tlsStatuses, tlsFailed, tlsRetry, tlsLost, tlsMissed>>

TLSPolicyChanged(p, v) ==
    /\ tlsPolicy' = [tlsPolicy EXCEPT ![p] = v]
    /\ TLSChanged(IF v = Gone THEN "TLSPolicyDeleted" ELSE "TLSPolicy", p)
    /\ UNCHANGED <<tlsListener, tlsIssuer, tlsCert>>
    /\ TLSPassFrame

NewTLSPolicy(s, b) == [spec |-> s, born |-> b, deleting |-> FALSE,
                       accepted |-> "none", enforced |-> "none"]

UserCreatesTLSPolicy(p) ==
    /\ tlsPolicy[p] = Unborn
    /\ CountTLSChange
    /\ \E s \in TLSSpecs, b \in Births(tlsPolicy) : TLSPolicyChanged(p, NewTLSPolicy(s, b))

UserEditsTLSPolicy(p) ==
    /\ p \in Present(tlsPolicy) /\ ~tlsPolicy[p].deleting
    /\ CountTLSChange
    /\ \E s \in TLSSpecs \ {tlsPolicy[p].spec} :
         TLSPolicyChanged(p, [tlsPolicy[p] EXCEPT !.spec = s])

\* Deletion in the background removes the policy at once, in the foreground
\* when its certificates are gone.
UserDeletesTLSPolicy(p) ==
    /\ p \in Present(tlsPolicy) /\ ~tlsPolicy[p].deleting
    /\ CountTLSChange
    /\ \/ TLSPolicyChanged(p, Gone)
       \/ TLSPolicyChanged(p, [tlsPolicy[p] EXCEPT !.deleting = TRUE])

CertsOwnedBy(p) == {l \in TLSListenerSet : tlsCert[l] # NoCert /\ tlsCert[l].owner = p}

TLSPolicyFinalized(p) ==
    /\ p \in Present(tlsPolicy) /\ tlsPolicy[p].deleting
    /\ CertsOwnedBy(p) = {}
    /\ TLSPolicyChanged(p, Gone)
    /\ UNCHANGED tlsChanges

\* A listener or an issuer comes, goes or changes.
ListenerChanges(l) ==
    /\ CountTLSChange
    /\ \E v \in ({Gone} \cup TLSBlocks) \ {tlsListener[l]} :
         tlsListener' = [tlsListener EXCEPT ![l] = v]
    /\ tlsEvents' = tlsEvents \cup {"Gateway"} /\ tlsTrigger' = TRUE
    /\ UNCHANGED <<tlsPolicy, tlsIssuer, tlsCert, tlsDirty>>
    /\ TLSPassFrame

IssuerChanges(i) ==
    /\ CountTLSChange
    /\ \E v \in {"absent", "present", "ready"} \ {tlsIssuer[i]} :
         tlsIssuer' = [tlsIssuer EXCEPT ![i] = v]
    /\ tlsEvents' = tlsEvents \cup {"Issuer"} /\ tlsTrigger' = TRUE
    /\ UNCHANGED <<tlsPolicy, tlsListener, tlsCert, tlsDirty>>
    /\ TLSPassFrame

CollectCert(l) ==
    /\ tlsCert[l] # NoCert
    /\ \/ tlsPolicy[tlsCert[l].owner] = Gone
       \/ tlsPolicy[tlsCert[l].owner] # Gone /\ tlsPolicy[tlsCert[l].owner].deleting
    /\ CertChanged(l, NoCert)
    /\ UNCHANGED <<tlsListener, tlsIssuer, tlsChanges>>
    /\ TLSPassFrame

\* cert-manager issues the certificate, or fails to renew it.
CertReported(l) ==
    /\ tlsCert[l] # NoCert
    /\ CountTLSChange
    /\ CertChanged(l, [tlsCert[l] EXCEPT !.ready = ~@])
    /\ UNCHANGED <<tlsListener, tlsIssuer>>
    /\ TLSPassFrame

-----------------------------------------------------------------------------
TLSInit ==
    /\ tlsPolicy \in [TLSPolicySet -> {Unborn} \cup {NewTLSPolicy(s, 0) : s \in TLSSpecs}]
    /\ Cardinality(Present(tlsPolicy)) <= 1
    /\ tlsListener = [l \in TLSListenerSet |-> TLSFirstBlock]
    /\ tlsIssuer = [i \in IssuerSet |-> "ready"]
    /\ tlsCert = [l \in TLSListenerSet |-> NoCert]
    /\ tlsEvents = TLSKinds \ {"TLSPolicyDeleted"} /\ tlsTrigger = TRUE
    /\ tlsPass = {} /\ tlsPlan = <<>> /\ tlsStatuses = <<>> /\ tlsDirty = {}
    /\ tlsFailed = FALSE /\ tlsRetry = {} /\ tlsLost = FALSE /\ tlsMissed = FALSE
    /\ tlsChanges = 0

TLSOperate == BeginTLSPass \/ RetryTLSPass \/ WriteCert \/ WriteTLSStatus \/ EndTLSPass

TLSCollect ==
    \/ \E p \in TLSPolicySet : TLSPolicyFinalized(p)
    \/ \E l \in TLSListenerSet : CollectCert(l)

TLSNext ==
    \/ TLSOperate
    \/ OtherTLSPass
    \/ AbortTLSPass
    \/ RestartTLS
    \/ TLSCollect
    \/ \E p \in TLSPolicySet :
         UserCreatesTLSPolicy(p) \/ UserEditsTLSPolicy(p) \/ UserDeletesTLSPolicy(p)
    \/ \E l \in TLSListenerSet : ListenerChanges(l) \/ CertReported(l)
    \/ \E i \in IssuerSet : IssuerChanges(i)

TLSWaits == TLSIdle /\ ~tlsTrigger /\ tlsRetry = {}

\* Weak fairness of TLSOperate, spelled out as in DNSPolicies.
TLSFairness ==
    /\ \/ []<>TLSWaits
       \/ []<><<<<tlsPass, tlsPlan, tlsStatuses>>' # <<tlsPass, tlsPlan, tlsStatuses>>>>_tlsVars
    /\ WF_tlsVars(TLSCollect)

TLSSpec == TLSInit /\ [][TLSNext]_tlsVars /\ TLSFairness

-----------------------------------------------------------------------------
\* Nothing waits to be done: no pass, trigger or retry, no object on its way out.
TLSAtRest ==
    /\ TLSWaits
    /\ \A p \in Present(tlsPolicy) : ~tlsPolicy[p].deleting
    /\ \A l \in TLSListenerSet : tlsCert[l] # NoCert => tlsPolicy[tlsCert[l].owner] # Gone

\* Listeners for which the reconciler writes one certificate twice in a pass.
Doubled == \E l \in TLSListenerSet : tlsListener[l] # Gone /\ Len(tlsListener[l]) > 1

\* What the valid policies ask for, as a set of targets.
WantedCerts ==
    LET t == TLSTopology
    IN  {[cert |-> x[1],
          spec |-> [secret |-> t.listener[x[1]][x[2]], issuer |-> t.policy[x[3]].spec.issuer]] :
         x \in {y \in TLSListenerSet \X (1..MaxRefs) \X Present(tlsPolicy) :
                  /\ ValidBlock(t, y[1]) /\ y[2] \in DOMAIN t.listener[y[1]]
                  /\ y[3] \in getTLSPoliciesForListener(t, y[1])
                  /\ ValidateTLS(t, y[3]) = "Accepted"}}

ActualCerts ==
    {[cert |-> l, spec |-> tlsCert[l].spec] : l \in {l \in TLSListenerSet : tlsCert[l] # NoCert}}

\* The effective policies reconciler keeps the certificates (Reconcile and
\* reconcileCertificates): at rest they are exactly what the policies that are valid now
\* ask for, whatever came between the writes of the passes, and although a pass
\* without the validator takes the policies' word for their validity.  Excepted are the
\* changes that no pass with all three reconcilers has seen (tlsMissed), and the failures
\* that were given up, lost their retry to a pass that did not run the reconciler, came
\* with an aborted pass, or were retried by the statuses of a pass without the validator,
\* until a pass with all three (tlsLost).
TLSCertificatesMatch ==
    TLSAtRest /\ ~tlsLost /\ ~tlsMissed => ActualCerts = WantedCerts

\* The status updater (enforcedCondition) runs on other events than the reconciler: at
\* rest no policy is reported enforced unless its issuer is ready and every listener it
\* reaches has a certificate that is ready.
TLSEnforcedBacked ==
    TLSAtRest /\ ~tlsLost =>
        \A p \in Present(tlsPolicy) : tlsPolicy[p].enforced = "yes" =>
            isIssuerReady(TLSTopology, p) /\ isCertificatesReady(TLSTopology, p)

=============================================================================
