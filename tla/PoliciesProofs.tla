---------------------------- MODULE PoliciesProofs ----------------------------
(***************************************************************************)
(* The TLS workflow, and the DNS and the TLS workflow together.            *)
(*                                                                         *)
(* Whenever the operator is at rest, TLS policies that are reported        *)
(* enforced are backed by their issuer and their certificates, and the     *)
(* certificates are exactly those that the valid policies ask for.  What a *)
(* pass plans is a recursive function of the order of its turns; that the  *)
(* order goes through all of them follows from counting the turns before   *)
(* each.                                                                   *)
(***************************************************************************)
EXTENDS Policies, DNSPoliciesProofs

\* Conflicts and attachments depend on the specifications, the creation times and the
\* deletion marks of policies alone.
TLSAlike(f, g, S) ==
    /\ Present(f) \subseteq S /\ Present(g) = Present(f)
    /\ \A p \in S : g[p].spec = f[p].spec /\ g[p].born = f[p].born /\ g[p].deleting = f[p].deleting

LEMMA TLSSameLife ==
    ASSUME NEW f, NEW g, NEW S, TLSAlike(f, g, S)
    PROVE  /\ \A p \in S : isConflict(g, p) <=> isConflict(f, p)
           /\ \A l : AttachedTo(g, l) = AttachedTo(f, l)
  BY DEF TLSAlike, isConflict, AttachedTo

-----------------------------------------------------------------------------
TLSStatusType == [policy : TLSPolicySet,
                  accepted : {"Accepted", "TargetNotFound", "Conflicted", "Invalid"},
                  enforced : {"none", "yes", "no"}]

TLSTypeOK ==
    /\ tlsPolicy \in [TLSPolicySet -> {Unborn, Gone} \cup TLSPolicyType]
    /\ tlsStatuses \in Seq(TLSStatusType)
    /\ tlsTrigger \in BOOLEAN /\ tlsFailed \in BOOLEAN /\ tlsLost \in BOOLEAN

TLSPassOK ==
    /\ tlsTrigger => tlsEvents # {}
    /\ TLSIdle => tlsStatuses = <<>>
    /\ \A i \in DOMAIN tlsStatuses : tlsPolicy[tlsStatuses[i].policy] # Unborn
    /\ \A p \in TLSPolicySet :
         <<"TLSPolicy", p>> \in tlsDirty => tlsTrigger /\ "TLSPolicy" \in tlsEvents

TLSBacked(p) == isIssuerReady(TLSTopology, p) /\ isCertificatesReady(TLSTopology, p)

TLSLive(p) == p \in Present(tlsPolicy) /\ ~tlsPolicy[p].deleting

TLSPlanned(p) == \E i \in DOMAIN tlsStatuses : tlsStatuses[i].policy = p

\* The next pass will write the statuses.
TLSUpdates == tlsTrigger /\ tlsEvents \cap TLSStatusEvents # {}

AllEnforcedBacked ==
    /\ \A i \in DOMAIN tlsStatuses :
         tlsStatuses[i].enforced = "yes" /\ tlsPolicy[tlsStatuses[i].policy] # Gone
           => TLSBacked(tlsStatuses[i].policy)
    /\ \A p \in TLSPolicySet :
         TLSLive(p) /\ tlsPolicy[p].enforced = "yes" => TLSPlanned(p) \/ TLSBacked(p)

TLSStatusInv ==
    /\ TLSTypeOK
    /\ TLSPassOK
    /\ tlsLost \/ TLSUpdates \/ AllEnforcedBacked

\* A change waits that a pass with all three reconcilers will see, or that will be missed.
TLSPending == tlsEvents \cap {"Gateway", "TLSPolicy", "TLSPolicyDeleted", "Issuer"} # {}

TLSValid(p) == ValidateTLS(TLSTopology, p) = "Accepted"

\* The statuses tell the valid policies, now or once the running pass has written them.
VerdictRight(p, accepted) == accepted = "Accepted" <=> TLSValid(p)

VerdictsRight ==
    \A p \in TLSPolicySet : TLSLive(p) =>
        \/ VerdictRight(p, tlsPolicy[p].accepted)
        \/ /\ TLSPlanned(p)
           /\ \A i \in DOMAIN tlsStatuses :
                tlsStatuses[i].policy = p => VerdictRight(p, tlsStatuses[i].accepted)

CertsRight == (\A p \in Present(tlsPolicy) : ~tlsPolicy[p].deleting) => ActualCerts = WantedCerts

\* The next write of the pass changes a certificate, and so asks for another pass, or fails.
TLSWriteTells ==
    tlsPlan # <<>> /\ (Head(tlsPlan).op = "delete" => tlsCert[Head(tlsPlan).cert] # NoCert)

\* A pass without the validator goes by the statuses, which are right unless a change waits.
\* Unless a pass is asked for, the certificates are right when the pass has nothing to write.
TLSCertInv ==
    /\ TLSStatusInv
    /\ tlsMissed \in BOOLEAN /\ tlsEvents \subseteq TLSKinds /\ tlsPass \subseteq TLSKinds
    /\ tlsRetry \subseteq TLSKinds
    /\ tlsTrigger \/ tlsEvents \subseteq {"TLSPolicy"}
    /\ TLSIdle => tlsPlan = <<>> /\ ~tlsFailed
    /\ tlsLost \/ tlsMissed \/ TLSPending \/ VerdictsRight
    /\ \/ tlsLost \/ tlsMissed \/ tlsTrigger \/ tlsRetry # {} \/ tlsFailed
       \/ TLSWriteTells
       \/ tlsPlan = <<>> /\ CertsRight

-----------------------------------------------------------------------------
\* The statuses that the TLS status updater plans are those of the policies that are there
\* and not being deleted, and they say enforced of backed ones only.
LEMMA TLSStatusesPlanned ==
    ASSUME TLSTypeOK, NEW validated \in BOOLEAN
    PROVE  LET us == UpdateTLSStatuses(TLSTopology, validated) IN
           /\ us \in Seq(TLSStatusType)
           /\ \A i \in DOMAIN us : TLSLive(us[i].policy) /\ (us[i].enforced = "yes" => TLSBacked(us[i].policy))
           /\ \A i \in DOMAIN us : us[i].accepted = ValidityReason(TLSTopology, validated, us[i].policy)
           /\ \A p \in TLSPolicySet : TLSLive(p) => \E i \in DOMAIN us : us[i].policy = p
<1> DEFINE t == TLSTopology
           S == {p \in Present(t.policy) : ~t.policy[p].deleting}
           ps == InOrder(S)
           us == UpdateTLSStatuses(TLSTopology, validated)
<1>1. t.policy = tlsPolicy /\ DOMAIN tlsPolicy = TLSPolicySet
  BY DEF TLSTopology, TLSTypeOK
<1>2. S \subseteq TLSPolicySet /\ \A p : p \in S <=> TLSLive(p)
  BY <1>1 DEF Present, TLSLive
<1>3. IsFiniteSet(S)
  BY <1>2, TLSAssumption, FS_Subset
<1>4. /\ ps \in Seq(S) /\ DOMAIN ps = 1..Len(ps)
      /\ \A i \in DOMAIN ps : ps[i] \in S
      /\ \A x \in S : \E i \in DOMAIN ps : ps[i] = x
  BY <1>3, AllInOrder, Zenon
<1>5. us = [i \in DOMAIN ps |-> UpdateTLSStatus(t, validated, ps[i])]
  BY DEF UpdateTLSStatuses
<1>6. ASSUME NEW p \in S
      PROVE  /\ UpdateTLSStatus(t, validated, p) \in TLSStatusType
             /\ UpdateTLSStatus(t, validated, p).policy = p
             /\ UpdateTLSStatus(t, validated, p).accepted = ValidityReason(t, validated, p)
             /\ UpdateTLSStatus(t, validated, p).enforced = "yes" => TLSBacked(p)
  <2>1. ValidityReason(t, validated, p) \in {"Accepted", "TargetNotFound", "Conflicted", "Invalid"}
    BY Zenon DEF ValidityReason, ValidateTLS
  <2> QED
    BY <1>2, <2>1 DEF UpdateTLSStatus, TLSStatusType, TLSBacked
<1>7. us \in Seq(TLSStatusType)
  BY <1>4, <1>5, <1>6
<1>8. \A i \in DOMAIN us : /\ us[i].policy = ps[i] /\ (us[i].enforced = "yes" => TLSBacked(ps[i]))
                           /\ us[i].accepted = ValidityReason(t, validated, ps[i])
  BY <1>4, <1>5, <1>6
<1>9. DOMAIN us = DOMAIN ps
  BY <1>5
<1> HIDE DEF us, ps, S
<1>10. \A i \in DOMAIN us : TLSLive(us[i].policy) /\ (us[i].enforced = "yes" => TLSBacked(us[i].policy))
  BY <1>2, <1>4, <1>8, <1>9, Zenon
<1>11. \A p \in TLSPolicySet : TLSLive(p) => \E i \in DOMAIN us : us[i].policy = p
  BY <1>2, <1>4, <1>8, <1>9, Zenon
<1>12. \A i \in DOMAIN us : us[i].accepted = ValidityReason(TLSTopology, validated, us[i].policy)
  BY <1>8
<1> QED
  BY <1>7, <1>10, <1>11, <1>12, Zenon DEF us

\* A step that changes no object and nothing that is left to write keeps the invariant.
LEMMA QuietTLSStep ==
    ASSUME TLSStatusInv, TLSTypeOK', TLSPassOK',
           UNCHANGED <<tlsPolicy, tlsListener, tlsIssuer, tlsCert, tlsStatuses>>,
           tlsLost => tlsLost', TLSUpdates => TLSUpdates'
    PROVE  TLSStatusInv'
<1>1. \A p : TLSLive(p)' = TLSLive(p) /\ TLSPlanned(p)' = TLSPlanned(p)
  BY DEF TLSLive, TLSPlanned
<1>2. TLSTopology' = TLSTopology
  BY DEF TLSTopology
<1>3. \A p : TLSBacked(p)' = TLSBacked(p)
  BY <1>2 DEF TLSBacked
<1>4. AllEnforcedBacked => AllEnforcedBacked'
  BY <1>1, <1>3 DEF AllEnforcedBacked
<1> QED
  BY <1>4 DEF TLSStatusInv

LEMMA TLSInitially == TLSInit => TLSStatusInv
<1> SUFFICES ASSUME TLSInit PROVE TLSStatusInv
  OBVIOUS
<1>1. \A s \in TLSSpecs : NewTLSPolicy(s, 0) \in TLSPolicyType
  BY DEF NewTLSPolicy, TLSPolicyType
<1>2. tlsPolicy \in [TLSPolicySet -> {Unborn, Gone} \cup TLSPolicyType]
  BY <1>1 DEF TLSInit
<1>3. TLSTypeOK
  <2>1. tlsStatuses = <<>> /\ tlsTrigger = TRUE /\ tlsFailed = FALSE /\ tlsLost = FALSE
    BY DEF TLSInit
  <2>2. tlsStatuses \in Seq(TLSStatusType)
    BY <2>1
  <2> QED
    BY <1>2, <2>1, <2>2, Zenon DEF TLSTypeOK
<1>4. TLSPassOK
  <2>1. tlsDirty = {} /\ tlsEvents = TLSKinds \ {"TLSPolicyDeleted"} /\ tlsStatuses = <<>>
    BY Zenon DEF TLSInit
  <2>2. DOMAIN tlsStatuses = {} /\ tlsEvents # {}
    BY <2>1 DEF TLSKinds
  <2> QED
    BY <2>1, <2>2, Zenon DEF TLSPassOK
<1>5. TLSUpdates
  BY Zenon DEF TLSInit, TLSUpdates, TLSKinds, TLSStatusEvents
<1> QED
  BY <1>3, <1>4, <1>5, Zenon DEF TLSStatusInv

\* A policy changes.  If it is removed no pass is asked to write statuses: the other
\* policies are backed as before, and its own has nowhere to be.
LEMMA TLSPolicyStep ==
    ASSUME TLSStatusInv, NEW p \in TLSPolicySet, NEW v \in {Gone} \cup TLSPolicyType,
           TLSPolicyChanged(p, v)
    PROVE  TLSStatusInv'
<1>1. TLSTypeOK'
  BY DEF TLSStatusInv, TLSTypeOK, TLSPolicyChanged, TLSChanged, TLSPassFrame
<1>2. v # Unborn
  BY TLSAssumption, LifeAssumption, Zenon
<1>3. TLSPassOK'
  BY <1>2 DEF TLSStatusInv, TLSTypeOK, TLSPassOK, TLSPolicyChanged, TLSChanged, TLSPassFrame, TLSIdle
<1>4. CASE v # Gone
  <2>1. TLSUpdates'
    BY <1>4 DEF TLSPolicyChanged, TLSChanged, TLSUpdates, TLSStatusEvents
  <2> QED
    BY <1>1, <1>3, <2>1, Zenon DEF TLSStatusInv
<1>5. CASE v = Gone
  <2>1. /\ DOMAIN tlsPolicy = TLSPolicySet /\ DOMAIN tlsPolicy' = TLSPolicySet
        /\ tlsPolicy'[p] = Gone /\ \A q \in TLSPolicySet \ {p} : tlsPolicy'[q] = tlsPolicy[q]
        /\ UNCHANGED <<tlsListener, tlsIssuer, tlsCert, tlsStatuses, tlsLost>>
    BY <1>5 DEF TLSStatusInv, TLSTypeOK, TLSPolicyChanged, TLSPassFrame
  <2>2. TLSUpdates => TLSUpdates'
    BY DEF TLSPolicyChanged, TLSChanged, TLSUpdates
  <2>3. ~TLSLive(p)' /\ \A q \in TLSPolicySet \ {p} : TLSLive(q)' <=> TLSLive(q)
    BY <2>1, Zenon DEF TLSLive, Present
  <2>4. \A q \in TLSPolicySet \ {p} : TLSBacked(q)' <=> TLSBacked(q)
    <3>1. /\ TLSTopology.policy = tlsPolicy /\ TLSTopology.listener = tlsListener
          /\ TLSTopology.issuer = tlsIssuer /\ TLSTopology.cert = tlsCert
          /\ TLSTopology'.policy = tlsPolicy' /\ TLSTopology'.listener = tlsListener
          /\ TLSTopology'.issuer = tlsIssuer /\ TLSTopology'.cert = tlsCert
      BY <2>1 DEF TLSTopology
    <3> QED
      BY <2>1, <3>1 DEF TLSBacked, isIssuerReady, isCertificatesReady, ValidBlock,
                        LinkListenerToCertificate
  <2>5. \A i \in DOMAIN tlsStatuses : tlsStatuses[i].policy \in TLSPolicySet
    <3>1. \A i \in DOMAIN tlsStatuses : tlsStatuses[i] \in TLSStatusType
      BY DEF TLSStatusInv, TLSTypeOK
    <3> QED
      BY <3>1 DEF TLSStatusType
  <2>6. \A q : TLSPlanned(q)' = TLSPlanned(q)
    BY <2>1, Zenon DEF TLSPlanned
  <2>7. AllEnforcedBacked => AllEnforcedBacked'
    BY <2>1, <2>3, <2>4, <2>5, <2>6, TLSAssumption, LifeAssumption, Zenon DEF AllEnforcedBacked
  <2> QED
    BY <1>1, <1>3, <2>1, <2>2, <2>7, Zenon DEF TLSStatusInv
<1> QED
  BY <1>4, <1>5

\* A listener or an issuer changes: the next pass writes the statuses.
LEMMA TLSWorldStep ==
    ASSUME TLSStatusInv,
           \/ \E l \in TLSListenerSet : ListenerChanges(l)
           \/ \E i \in IssuerSet : IssuerChanges(i)
    PROVE  TLSStatusInv'
<1>1. /\ UNCHANGED <<tlsPolicy, tlsDirty, tlsPass, tlsStatuses, tlsFailed, tlsLost>>
      /\ tlsTrigger' = TRUE /\ \E e \in {"Gateway", "Issuer"} : tlsEvents' = tlsEvents \cup {e}
  BY DEF ListenerChanges, IssuerChanges, TLSPassFrame
<1>2. TLSTypeOK'
  BY <1>1 DEF TLSStatusInv, TLSTypeOK
<1>3. TLSPassOK'
  BY <1>1 DEF TLSStatusInv, TLSPassOK, TLSIdle
<1>4. TLSUpdates'
  BY <1>1 DEF TLSUpdates, TLSStatusEvents
<1> QED
  BY <1>2, <1>3, <1>4, Zenon DEF TLSStatusInv

\* So it does when a certificate changes.
LEMMA TLSCertStep ==
    ASSUME TLSStatusInv, NEW l, NEW c, CertChanged(l, c),
           UNCHANGED <<tlsPass, tlsStatuses, tlsLost>>, tlsFailed' \in BOOLEAN
    PROVE  TLSStatusInv'
<1>1. TLSTypeOK'
  BY DEF TLSStatusInv, TLSTypeOK, CertChanged, TLSChanged
<1>2. TLSPassOK'
  BY DEF TLSStatusInv, TLSPassOK, CertChanged, TLSChanged, TLSIdle
<1>3. TLSUpdates'
  BY DEF CertChanged, TLSChanged, TLSUpdates, TLSStatusEvents
<1> QED
  BY <1>1, <1>2, <1>3, Zenon DEF TLSStatusInv

\* A write of the effective policies reconciler.
LEMMA TLSWriteCertStep ==
    ASSUME TLSStatusInv, WriteCert
    PROVE  TLSStatusInv'
<1> DEFINE w == Head(tlsPlan)
<1>1. UNCHANGED <<tlsListener, tlsIssuer, tlsPass, tlsStatuses, tlsLost>>
  BY DEF WriteCert
<1>2. tlsFailed' \in BOOLEAN
  BY Zenon DEF WriteCert, TLSStatusInv, TLSTypeOK
<1>3. CASE UNCHANGED <<tlsPolicy, tlsCert, tlsEvents, tlsTrigger, tlsDirty>>
  <2>1. TLSTypeOK'
    BY <1>1, <1>2, <1>3, Zenon DEF TLSStatusInv, TLSTypeOK
  <2>2. TLSPassOK'
    BY <1>1, <1>3, Zenon DEF TLSStatusInv, TLSPassOK, TLSIdle
  <2>3. TLSUpdates => TLSUpdates'
    BY <1>3 DEF TLSUpdates
  <2> QED
    BY <1>1, <1>3, <2>1, <2>2, <2>3, QuietTLSStep, Zenon
<1>4. CASE \E l, c : CertChanged(l, c)
  BY <1>1, <1>2, <1>4, TLSCertStep, Zenon
<1>5. \/ UNCHANGED <<tlsPolicy, tlsCert, tlsEvents, tlsTrigger, tlsDirty>>
      \/ \E l, c : CertChanged(l, c)
  <2>1. CASE PerformTLS(w)
    <3>1. CASE CertChanged(w.cert, [spec |-> w.spec, owner |-> w.owner, ready |-> FALSE])
      BY <3>1
    <3>2. CASE CertChanged(w.cert, [tlsCert[w.cert] EXCEPT !.spec = w.spec, !.ready = FALSE])
      BY <3>2
    <3>3. CASE CertChanged(w.cert, NoCert)
      BY <3>3
    <3> QED
      BY <2>1, <3>1, <3>2, <3>3, Zenon DEF PerformTLS
  <2>2. CASE UNCHANGED <<tlsPolicy, tlsCert, tlsEvents, tlsTrigger, tlsDirty>>
    BY <2>2
  <2> QED
    BY <2>1, <2>2, Zenon DEF WriteCert
<1> QED
  BY <1>3, <1>4, <1>5, Zenon

\* The events of a pass are those that were pending, or those of the retry.
TLSTakes(es, stale) ==
    \/ es = tlsEvents /\ tlsEvents' = {} /\ tlsTrigger' = FALSE
    \/ es = tlsRetry /\ (stale <=> "TLSPolicy" \in tlsEvents) /\ UNCHANGED <<tlsEvents, tlsTrigger>>

LEMMA TLSStarts ==
    ASSUME BeginTLSPass \/ RetryTLSPass
    PROVE  \E es : \E stale \in BOOLEAN : StartTLSPass(es, stale) /\ TLSTakes(es, stale)
<1>1. CASE BeginTLSPass
  <2> DEFINE stale == tlsRetry # {} /\ tlsEvents \cap TLSReconcilerEvents = {}
  <2>1. StartTLSPass(tlsEvents, stale) /\ TLSTakes(tlsEvents, stale) /\ stale \in BOOLEAN
    BY <1>1, Zenon DEF BeginTLSPass, TLSTakes
  <2> HIDE DEF stale
  <2> QED
    BY <2>1, Zenon
<1>2. CASE RetryTLSPass
  <2> DEFINE stale == "TLSPolicy" \in tlsEvents
  <2>1. StartTLSPass(tlsRetry, stale) /\ TLSTakes(tlsRetry, stale)
    BY <1>2, Zenon DEF RetryTLSPass, TLSTakes
  <2>2. stale \in BOOLEAN
    OBVIOUS
  <2> HIDE DEF stale
  <2> QED
    BY <2>1, <2>2, Zenon
<1> QED
  BY <1>1, <1>2, Zenon

\* A pass begins.  With the status updater in it what it plans is backed; without, no
\* object has changed that the statuses depend on, nor has the validator run.
LEMMA TLSBeginStep ==
    ASSUME TLSStatusInv, NEW es, NEW stale \in BOOLEAN, StartTLSPass(es, stale), TLSTakes(es, stale)
    PROVE  TLSStatusInv'
<1> DEFINE validated == es \cap TLSValidatorEvents # {}
           reconciled == es \cap TLSReconcilerEvents # {}
           us == UpdateTLSStatuses(TLSTopology, validated)
<1>1. /\ TLSIdle /\ es # {}
      /\ tlsPass' = es
      /\ tlsDirty' = {} /\ tlsFailed' = FALSE
      /\ tlsLost' = IF validated /\ reconciled THEN FALSE ELSE tlsLost \/ stale
      /\ tlsStatuses' = IF es \cap TLSStatusEvents # {} THEN us ELSE <<>>
      /\ UNCHANGED <<tlsPolicy, tlsListener, tlsIssuer, tlsCert>>
  BY Zenon DEF StartTLSPass
<1>t. /\ tlsTrigger' \in BOOLEAN
      /\ tlsTrigger' => tlsEvents' # {}
      /\ es \cap TLSStatusEvents = {} /\ TLSUpdates => TLSUpdates'
  <2>1. (tlsTrigger => tlsEvents # {}) /\ tlsTrigger \in BOOLEAN
    BY Zenon DEF TLSStatusInv, TLSTypeOK, TLSPassOK
  <2>2. CASE UNCHANGED <<tlsEvents, tlsTrigger>>
    BY <2>1, <2>2, Zenon DEF TLSUpdates
  <2>3. CASE es = tlsEvents /\ tlsEvents' = {} /\ tlsTrigger' = FALSE
    BY <2>3, Zenon DEF TLSUpdates
  <2> QED
    BY <2>2, <2>3, Zenon DEF TLSTakes
<1>2. /\ us \in Seq(TLSStatusType)
      /\ \A i \in DOMAIN us : TLSLive(us[i].policy) /\ (us[i].enforced = "yes" => TLSBacked(us[i].policy))
      /\ \A p \in TLSPolicySet : TLSLive(p) => \E i \in DOMAIN us : us[i].policy = p
  BY TLSStatusesPlanned, Zenon DEF TLSStatusInv
<1> HIDE DEF us
<1>3. tlsStatuses = <<>>
  BY <1>1 DEF TLSStatusInv, TLSPassOK
<1>4. TLSTypeOK'
  <2>1. tlsStatuses' \in Seq(TLSStatusType)
    BY <1>1, <1>2
  <2>2. tlsLost' \in BOOLEAN
    BY <1>1, Zenon DEF TLSStatusInv, TLSTypeOK
  <2> QED
    BY <1>1, <1>t, <2>1, <2>2, Zenon DEF TLSStatusInv, TLSTypeOK
<1>5. TLSPassOK'
  <2>1. \A i \in DOMAIN us : tlsPolicy[us[i].policy] # Unborn
    BY <1>2, Zenon DEF TLSLive, Present
  <2>2. \A i \in DOMAIN tlsStatuses' : tlsPolicy'[tlsStatuses'[i].policy] # Unborn
    BY <1>1, <2>1
  <2> QED
    BY <1>1, <1>t, <2>2, Zenon DEF TLSPassOK, TLSIdle
<1>6. TLSTopology' = TLSTopology
  BY <1>1, Zenon DEF TLSTopology
<1>7. \A p : TLSLive(p)' = TLSLive(p) /\ TLSBacked(p)' = TLSBacked(p)
  BY <1>1, <1>6, Zenon DEF TLSLive, TLSBacked
<1>8. CASE es \cap TLSStatusEvents # {}
  <2>1. tlsStatuses' = us
    BY <1>1, <1>8, Zenon
  <2>2. \A p \in TLSPolicySet : TLSLive(p)' => TLSPlanned(p)'
    BY <1>2, <1>7, <2>1, Zenon DEF TLSPlanned
  <2>3. AllEnforcedBacked'
    BY <1>2, <1>7, <2>1, <2>2, Zenon DEF AllEnforcedBacked
  <2> QED
    BY <1>4, <1>5, <2>3, Zenon DEF TLSStatusInv
<1>9. CASE es \cap TLSStatusEvents = {}
  <2>1. ~validated /\ (TLSUpdates => TLSUpdates')
    BY <1>9, <1>t, Zenon DEF TLSStatusEvents, TLSValidatorEvents
  <2>2. UNCHANGED tlsStatuses
    BY <1>1, <1>3, <1>9, Zenon
  <2>3. AllEnforcedBacked => AllEnforcedBacked'
    BY <1>1, <1>7, <2>2, Zenon DEF AllEnforcedBacked, TLSPlanned
  <2>4. tlsLost => tlsLost'
    BY <1>1, <2>1, Zenon DEF TLSStatusInv, TLSTypeOK
  <2> QED
    BY <1>4, <1>5, <2>1, <2>3, <2>4, Zenon DEF TLSStatusInv
<1> QED
  BY <1>8, <1>9, Zenon

\* A status is written: neither what backs a policy nor its validity depends on it.
LEMMA TLSStatusKeeps ==
    ASSUME TLSTypeOK, NEW w \in TLSStatusType, tlsPolicy[w.policy] \in TLSPolicyType, SetTLSStatus(w),
           UNCHANGED <<tlsListener, tlsIssuer, tlsCert>>
    PROVE  /\ tlsPolicy' \in [TLSPolicySet -> {Unborn, Gone} \cup TLSPolicyType]
           /\ tlsPolicy'[w.policy] \in TLSPolicyType
           /\ tlsPolicy'[w.policy].enforced = w.enforced /\ tlsPolicy'[w.policy].accepted = w.accepted
           /\ \A p \in TLSPolicySet \ {w.policy} : tlsPolicy'[p] = tlsPolicy[p]
           /\ \A p \in TLSPolicySet : (TLSLive(p)' <=> TLSLive(p)) /\ (TLSBacked(p)' <=> TLSBacked(p))
           /\ \A p \in TLSPolicySet : TLSValid(p)' <=> TLSValid(p)
           /\ TLSAlike(tlsPolicy, tlsPolicy', TLSPolicySet)
<1>1. PICK q \in TLSPolicySet, a \in {"Accepted", "TargetNotFound", "Conflicted", "Invalid"},
           e \in {"none", "yes", "no"} : q = w.policy /\ a = w.accepted /\ e = w.enforced
  BY DEF TLSStatusType
<1>2. tlsPolicy[q] \in TLSPolicyType /\ tlsPolicy' = [tlsPolicy EXCEPT ![q].accepted = a, ![q].enforced = e]
  BY <1>1 DEF SetTLSStatus
<1>3. /\ DOMAIN tlsPolicy = TLSPolicySet /\ DOMAIN tlsPolicy' = TLSPolicySet
      /\ tlsPolicy'[q] = [tlsPolicy[q] EXCEPT !.accepted = a, !.enforced = e]
      /\ \A p \in TLSPolicySet \ {q} : tlsPolicy'[p] = tlsPolicy[p]
  BY <1>2 DEF TLSTypeOK
<1>4. /\ tlsPolicy'[q] \in TLSPolicyType /\ tlsPolicy'[q].enforced = e /\ tlsPolicy'[q].accepted = a
      /\ tlsPolicy'[q].spec = tlsPolicy[q].spec /\ tlsPolicy'[q].deleting = tlsPolicy[q].deleting
      /\ tlsPolicy'[q].born = tlsPolicy[q].born
  BY <1>2, <1>3, Zenon DEF TLSPolicyType
<1>5. tlsPolicy' \in [TLSPolicySet -> {Unborn, Gone} \cup TLSPolicyType]
  BY <1>2, <1>3, <1>4, Zenon DEF TLSTypeOK
<1>6. \A p \in TLSPolicySet : /\ tlsPolicy'[p].spec = tlsPolicy[p].spec
                              /\ tlsPolicy'[p].deleting = tlsPolicy[p].deleting
                              /\ tlsPolicy'[p].born = tlsPolicy[p].born
                              /\ p \in Present(tlsPolicy') <=> p \in Present(tlsPolicy)
  BY <1>2, <1>3, <1>4, TLSAssumption, ZenonT(40) DEF Present
<1>7. \A p \in TLSPolicySet : TLSLive(p)' <=> TLSLive(p)
  BY <1>6 DEF TLSLive
<1>8. /\ TLSTopology.policy = tlsPolicy /\ TLSTopology.listener = tlsListener
      /\ TLSTopology.issuer = tlsIssuer /\ TLSTopology.cert = tlsCert
      /\ TLSTopology'.policy = tlsPolicy' /\ TLSTopology'.listener = tlsListener
      /\ TLSTopology'.issuer = tlsIssuer /\ TLSTopology'.cert = tlsCert
  BY Zenon DEF TLSTopology
<1>9. \A p \in TLSPolicySet : TLSBacked(p)' <=> TLSBacked(p)
  BY <1>6, <1>8 DEF TLSBacked, isIssuerReady, isCertificatesReady, ValidBlock, LinkListenerToCertificate
<1>10. TLSAlike(tlsPolicy, tlsPolicy', TLSPolicySet)
  BY <1>3, <1>6, Zenon DEF TLSAlike, Present
<1>11. ASSUME NEW p \in TLSPolicySet PROVE TLSValid(p)' <=> TLSValid(p)
  <2>1. isConflict(tlsPolicy', p) <=> isConflict(tlsPolicy, p)
    BY <1>10, TLSSameLife, Zenon
  <2>2. isTargetRefsFound(tlsPolicy', tlsListener, p) <=> isTargetRefsFound(tlsPolicy, tlsListener, p)
    BY <1>6, Zenon DEF isTargetRefsFound
  <2>3. isIssuerFound(TLSTopology', p) <=> isIssuerFound(TLSTopology, p)
    BY <1>6, <1>8 DEF isIssuerFound
  <2> QED
    BY <1>8, <2>1, <2>2, <2>3, Zenon DEF TLSValid, ValidateTLS
<1> QED
  BY <1>1, <1>3, <1>4, <1>5, <1>7, <1>9, <1>10, <1>11, Zenon

LEMMA TLSWriteStatusStep ==
    ASSUME TLSStatusInv, WriteTLSStatus
    PROVE  TLSStatusInv'
<1> DEFINE w == Head(tlsStatuses)
<1>1. /\ tlsStatuses # <<>> /\ tlsStatuses' = Tail(tlsStatuses)
      /\ UNCHANGED <<tlsListener, tlsIssuer, tlsCert, tlsTrigger, tlsPass, tlsDirty, tlsFailed>>
  BY DEF WriteTLSStatus
<1>2. /\ tlsStatuses' \in Seq(TLSStatusType)
      /\ 1 \in DOMAIN tlsStatuses /\ w = tlsStatuses[1] /\ w \in TLSStatusType
      /\ \A i \in DOMAIN tlsStatuses' : i + 1 \in DOMAIN tlsStatuses /\ tlsStatuses'[i] = tlsStatuses[i + 1]
      /\ \A i \in DOMAIN tlsStatuses :
           i = 1 \/ (i - 1 \in DOMAIN tlsStatuses' /\ tlsStatuses'[i - 1] = tlsStatuses[i])
  BY <1>1, TailFacts, Zenon DEF TLSStatusInv, TLSTypeOK
<1> HIDE DEF w
<1>3. w.policy \in TLSPolicySet
  BY <1>2 DEF TLSStatusType
<1>4. \A p : TLSPlanned(p) => TLSPlanned(p)' \/ p = w.policy
  BY <1>2, Zenon DEF TLSPlanned
<1>5. /\ tlsPolicy[w.policy] # Unborn
      /\ <<"TLSPolicy", w.policy>> \in tlsDirty => TLSUpdates
  BY <1>2, <1>3, Zenon DEF TLSStatusInv, TLSPassOK, TLSUpdates, TLSStatusEvents
<1>6. ~TLSIdle'
  BY <1>1 DEF TLSStatusInv, TLSPassOK, TLSIdle
<1>7. CASE UNCHANGED <<tlsPolicy, tlsEvents>> /\ (tlsLost' = TRUE \/ (UNCHANGED tlsLost /\ ~TLSStatusAdmitted(w)))
  <2>1. TLSTypeOK'
    BY <1>1, <1>2, <1>7, Zenon DEF TLSStatusInv, TLSTypeOK
  <2>2. TLSPassOK'
    <3>1. \A i \in DOMAIN tlsStatuses' : tlsPolicy'[tlsStatuses'[i].policy] # Unborn
      BY <1>2, <1>7 DEF TLSStatusInv, TLSPassOK
    <3> QED
      BY <1>1, <1>6, <1>7, <3>1, Zenon DEF TLSStatusInv, TLSPassOK
  <2>3. TLSTopology' = TLSTopology /\ TLSUpdates' = TLSUpdates
    BY <1>1, <1>7, Zenon DEF TLSTopology, TLSUpdates
  <2>4. \A p : TLSLive(p)' = TLSLive(p) /\ TLSBacked(p)' = TLSBacked(p)
    BY <1>7, <2>3, Zenon DEF TLSLive, TLSBacked
  <2>5. tlsLost' \/ (UNCHANGED tlsLost /\ (TLSUpdates \/ ~TLSLive(w.policy)))
    BY <1>5, <1>7, Zenon DEF TLSStatusAdmitted, TLSLive, Present
  <2>6. ~TLSLive(w.policy) /\ AllEnforcedBacked => AllEnforcedBacked'
    BY <1>2, <1>4, <1>7, <2>4 DEF AllEnforcedBacked
  <2> QED
    BY <2>1, <2>2, <2>3, <2>5, <2>6, Zenon DEF TLSStatusInv
<1>8. CASE TLSStatusAdmitted(w) /\ SetTLSStatus(w) /\ UNCHANGED tlsLost
  <2>1. TLSTypeOK /\ tlsPolicy[w.policy] \in TLSPolicyType /\ tlsPolicy[w.policy] # Gone
    BY <1>3, <1>5, <1>8, Zenon DEF TLSStatusInv, TLSTypeOK, TLSStatusAdmitted
  <2>2. \A i \in DOMAIN tlsStatuses : tlsStatuses[i].policy \in TLSPolicySet
    <3>1. \A i \in DOMAIN tlsStatuses : tlsStatuses[i] \in TLSStatusType
      BY <2>1 DEF TLSTypeOK
    <3> QED
      BY <3>1, Zenon DEF TLSStatusType
  <2>3. /\ tlsPolicy' \in [TLSPolicySet -> {Unborn, Gone} \cup TLSPolicyType]
        /\ tlsPolicy'[w.policy] \in TLSPolicyType /\ tlsPolicy'[w.policy].enforced = w.enforced
        /\ \A p \in TLSPolicySet \ {w.policy} : tlsPolicy'[p] = tlsPolicy[p]
        /\ \A p \in TLSPolicySet : (TLSLive(p)' <=> TLSLive(p)) /\ (TLSBacked(p)' <=> TLSBacked(p))
    BY <1>1, <1>2, <1>8, <2>1, TLSStatusKeeps, Zenon
  <2>4. tlsEvents \subseteq tlsEvents'
    BY <1>8, Zenon DEF SetTLSStatus
  <2>5. TLSTypeOK'
    BY <1>1, <1>2, <1>8, <2>3, Zenon DEF TLSStatusInv, TLSTypeOK
  <2>6. TLSPassOK'
    <3>1. \A p \in TLSPolicySet : tlsPolicy[p] # Unborn => tlsPolicy'[p] # Unborn
      BY <2>3, TLSAssumption, Zenon
    <3>2. \A i \in DOMAIN tlsStatuses' : tlsPolicy'[tlsStatuses'[i].policy] # Unborn
      BY <1>2, <2>2, <3>1 DEF TLSStatusInv, TLSPassOK
    <3> QED
      BY <1>1, <1>6, <2>4, <3>2, Zenon DEF TLSStatusInv, TLSPassOK
  <2>7. TLSUpdates => TLSUpdates'
    BY <1>1, <2>4, Zenon DEF TLSUpdates
  <2>8. \A p \in TLSPolicySet : tlsPolicy'[p] # Gone => tlsPolicy[p] # Gone
    BY <2>1, <2>3, Zenon
  <2>9. ASSUME AllEnforcedBacked PROVE AllEnforcedBacked'
    <3>1. (\A i \in DOMAIN tlsStatuses :
             tlsStatuses[i].enforced = "yes" /\ tlsPolicy[tlsStatuses[i].policy] # Gone
               => TLSBacked(tlsStatuses[i].policy))'
      BY <1>2, <2>2, <2>3, <2>8, <2>9 DEF AllEnforcedBacked
    <3>2. w.enforced = "yes" => TLSBacked(w.policy)
      BY <1>2, <2>1, <2>9, Zenon DEF AllEnforcedBacked
    <3>3. \A p \in TLSPolicySet :
            TLSLive(p)' /\ tlsPolicy'[p].enforced = "yes" => TLSPlanned(p)' \/ TLSBacked(p)'
      <4> SUFFICES ASSUME NEW p \in TLSPolicySet, TLSLive(p)', tlsPolicy'[p].enforced = "yes"
                   PROVE  TLSPlanned(p)' \/ TLSBacked(p)
        BY <2>3, Zenon
      <4>1. CASE p = w.policy
        BY <2>3, <3>2, <4>1, Zenon
      <4>2. CASE p # w.policy
        BY <1>4, <2>3, <2>9, <4>2, Zenon DEF AllEnforcedBacked
      <4> QED
        BY <4>1, <4>2, Zenon
    <3> QED
      BY <3>1, <3>3, Zenon DEF AllEnforcedBacked
  <2> QED
    BY <1>8, <2>5, <2>6, <2>7, <2>9, Zenon DEF TLSStatusInv
<1> QED
  BY <1>7, <1>8, Zenon DEF WriteTLSStatus, w

\* The pass is over, or a pass that is not of the workflow has cancelled the retry.
LEMMA TLSEndStep ==
    ASSUME TLSStatusInv, EndTLSPass \/ OtherTLSPass
    PROVE  TLSStatusInv'
<1>1. /\ UNCHANGED <<tlsPolicy, tlsListener, tlsIssuer, tlsCert, tlsStatuses, tlsEvents, tlsTrigger>>
      /\ tlsFailed' \in {FALSE, tlsFailed}
      /\ tlsLost' \in {TRUE, tlsLost}
      /\ tlsDirty' \in {{}, tlsDirty}
      /\ TLSIdle' => tlsStatuses = <<>>
  BY Zenon DEF EndTLSPass, OtherTLSPass, TLSPassOver, TLSStatusInv, TLSPassOK
<1>2. TLSTypeOK'
  BY <1>1, Zenon DEF TLSStatusInv, TLSTypeOK
<1>3. TLSPassOK'
  BY <1>1 DEF TLSStatusInv, TLSPassOK
<1>4. tlsLost => tlsLost'
  BY <1>1, Zenon
<1>5. TLSUpdates => TLSUpdates'
  BY <1>1, Zenon DEF TLSUpdates
<1> QED
  BY <1>1, <1>2, <1>3, <1>4, <1>5, QuietTLSStep, Zenon

\* The pass is cut off, and is known to be lost.
LEMMA TLSAbortStep ==
    ASSUME TLSStatusInv, AbortTLSPass
    PROVE  TLSStatusInv'
<1>1. /\ tlsStatuses' = <<>> /\ tlsFailed' = FALSE /\ tlsLost' = TRUE /\ tlsDirty' = {}
      /\ UNCHANGED <<tlsPolicy, tlsEvents, tlsTrigger>>
  BY Zenon DEF AbortTLSPass, TLSPassOver
<1>2. tlsStatuses' \in Seq(TLSStatusType)
  BY <1>1
<1>3. TLSTypeOK'
  BY <1>1, <1>2, Zenon DEF TLSStatusInv, TLSTypeOK
<1>4. TLSPassOK'
  BY <1>1 DEF TLSStatusInv, TLSPassOK
<1> QED
  BY <1>1, <1>3, <1>4, Zenon DEF TLSStatusInv

\* After a restart the first pass writes the statuses.
LEMMA TLSRestartStep ==
    ASSUME TLSStatusInv, RestartTLS
    PROVE  TLSStatusInv'
<1>1. TLSTypeOK'
  <2>1. tlsStatuses' = <<>> /\ tlsTrigger' = TRUE /\ tlsFailed' = FALSE /\ UNCHANGED <<tlsPolicy, tlsLost>>
    BY DEF RestartTLS
  <2>2. tlsStatuses' \in Seq(TLSStatusType)
    BY <2>1
  <2> QED
    BY <2>1, <2>2, Zenon DEF TLSStatusInv, TLSTypeOK
<1>2. TLSPassOK'
  <2>1. tlsStatuses' = <<>> /\ tlsDirty' = {} /\ tlsEvents' = TLSKinds \ {"TLSPolicyDeleted"}
    BY Zenon DEF RestartTLS
  <2>2. DOMAIN tlsStatuses' = {}
    BY <2>1
  <2>3. "Gateway" \in tlsEvents'
    BY <2>1 DEF TLSKinds
  <2> QED
    BY <2>1, <2>2, <2>3, Zenon DEF TLSPassOK
<1>3. TLSUpdates'
  BY Zenon DEF RestartTLS, TLSUpdates, TLSKinds, TLSStatusEvents
<1> QED
  BY <1>1, <1>2, <1>3, Zenon DEF TLSStatusInv

\* Every step of the TLS workflow keeps the statuses backed.
LEMMA TLSStep == TLSStatusInv /\ [TLSNext]_tlsVars => TLSStatusInv'
<1> SUFFICES ASSUME TLSStatusInv, [TLSNext]_tlsVars PROVE TLSStatusInv'
  OBVIOUS
<1>1. ASSUME NEW p \in TLSPolicySet,
             \/ UserCreatesTLSPolicy(p) \/ UserEditsTLSPolicy(p)
             \/ UserDeletesTLSPolicy(p) \/ TLSPolicyFinalized(p)
      PROVE  TLSStatusInv'
  <2>1. CASE UserCreatesTLSPolicy(p)
    <3>1. PICK s \in TLSSpecs, b \in Births(tlsPolicy) : TLSPolicyChanged(p, NewTLSPolicy(s, b))
      BY <2>1, Zenon DEF UserCreatesTLSPolicy
    <3>2. \A q \in Present(tlsPolicy) : tlsPolicy[q].born \in Nat
      BY Zenon DEF TLSStatusInv, TLSTypeOK, Present, TLSPolicyType
    <3>3. b \in Nat
      BY <3>2 DEF Births
    <3>4. NewTLSPolicy(s, b) \in TLSPolicyType
      BY <3>3, Zenon DEF NewTLSPolicy, TLSPolicyType
    <3> QED
      BY <3>1, <3>4, TLSPolicyStep, Zenon
  <2>2. ASSUME p \in Present(tlsPolicy)
        PROVE  tlsPolicy[p] \in TLSPolicyType
    BY <2>2, Zenon DEF TLSStatusInv, TLSTypeOK, Present
  <2>3. CASE UserEditsTLSPolicy(p)
    <3>1. PICK s \in TLSSpecs : TLSPolicyChanged(p, [tlsPolicy[p] EXCEPT !.spec = s])
      BY <2>3, Zenon DEF UserEditsTLSPolicy
    <3>2. [tlsPolicy[p] EXCEPT !.spec = s] \in TLSPolicyType
      BY <2>2, <2>3, Zenon DEF UserEditsTLSPolicy, TLSPolicyType
    <3> QED
      BY <3>1, <3>2, TLSPolicyStep, Zenon
  <2>4. CASE UserDeletesTLSPolicy(p)
    <3>1. [tlsPolicy[p] EXCEPT !.deleting = TRUE] \in TLSPolicyType
      BY <2>2, <2>4, Zenon DEF UserDeletesTLSPolicy, TLSPolicyType
    <3> QED
      BY <2>4, <3>1, TLSPolicyStep, Zenon DEF UserDeletesTLSPolicy
  <2>5. CASE TLSPolicyFinalized(p)
    BY <2>5, TLSPolicyStep, Zenon DEF TLSPolicyFinalized
  <2> QED
    BY <1>1, <2>1, <2>3, <2>4, <2>5, Zenon
<1>2. ASSUME NEW l \in TLSListenerSet, CollectCert(l) \/ CertReported(l)
      PROVE  TLSStatusInv'
  <2>1. PICK c : CertChanged(l, c)
    BY <1>2, Zenon DEF CollectCert, CertReported
  <2>2. UNCHANGED <<tlsPass, tlsStatuses, tlsLost, tlsFailed>>
    BY <1>2, Zenon DEF CollectCert, CertReported, TLSPassFrame
  <2>3. tlsFailed' \in BOOLEAN
    BY <2>2, Zenon DEF TLSStatusInv, TLSTypeOK
  <2> QED
    BY <2>1, <2>2, <2>3, TLSCertStep, Zenon
<1>3. CASE UNCHANGED tlsVars
  <2>1. TLSTypeOK' /\ TLSPassOK' /\ (TLSUpdates => TLSUpdates')
    BY <1>3, Zenon DEF tlsVars, TLSStatusInv, TLSTypeOK, TLSPassOK, TLSIdle, TLSUpdates
  <2> QED
    BY <1>3, <2>1, QuietTLSStep, Zenon DEF tlsVars
<1>4. ASSUME BeginTLSPass \/ RetryTLSPass PROVE TLSStatusInv'
  BY <1>4, TLSStarts, TLSBeginStep, Zenon
<1> QED
  BY <1>1, <1>2, <1>3, <1>4, TLSWriteCertStep, TLSWriteStatusStep, TLSEndStep, TLSAbortStep,
     TLSRestartStep, TLSWorldStep, Zenon DEF TLSNext, TLSOperate, TLSCollect

\* The invariant says what is wanted.
LEMMA TLSInvSuffices == TLSStatusInv => TLSEnforcedBacked
<1> SUFFICES ASSUME TLSStatusInv, TLSAtRest, ~tlsLost,
                    NEW p \in Present(tlsPolicy), tlsPolicy[p].enforced = "yes"
             PROVE  TLSBacked(p)
  BY Zenon DEF TLSEnforcedBacked, TLSBacked
<1>1. p \in TLSPolicySet /\ TLSLive(p)
  BY Zenon DEF Present, TLSLive, TLSStatusInv, TLSTypeOK, TLSAtRest
<1>2. ~TLSPlanned(p) /\ ~TLSUpdates
  BY DEF TLSPlanned, TLSUpdates, TLSStatusInv, TLSPassOK, TLSAtRest, TLSWaits
<1> QED
  BY <1>1, <1>2, Zenon DEF TLSStatusInv, AllEnforcedBacked

-----------------------------------------------------------------------------
\* A finite set that is totally ordered: the number of members before a member tells it from
\* the others, and takes every value below the cardinality.
StrictOrder(S, B) ==
    /\ \A x \in S : <<x, x>> \notin B
    /\ \A x, y, z \in S : <<x, y>> \in B /\ <<y, z>> \in B => <<x, z>> \in B
    /\ \A x, y \in S : x = y \/ <<x, y>> \in B \/ <<y, x>> \in B

LEMMA Ranked ==
    ASSUME NEW S, IsFiniteSet(S), NEW B, StrictOrder(S, B)
    PROVE  [x \in S |-> Cardinality({y \in S : <<y, x>> \in B})] \in Bijection(S, 0..(Cardinality(S) - 1))
<1> DEFINE below(x) == {y \in S : <<y, x>> \in B}
           n == Cardinality(S)
           rank == [x \in S |-> Cardinality(below(x))]
<1>1. n \in Nat
  BY FS_CardinalityType
<1>2. \A x \in S : IsFiniteSet(below(x)) /\ Cardinality(below(x)) \in Nat
  BY FS_Subset, FS_CardinalityType, Zenon
<1>3. \A x \in S : Cardinality(below(x)) < n
  <2> TAKE x \in S
  <2>1. below(x) \subseteq S /\ below(x) # S
    BY Zenon DEF StrictOrder
  <2> HIDE DEF below
  <2>2. Cardinality(below(x)) <= n /\ Cardinality(below(x)) # n
    BY <2>1, FS_Subset, Zenon
  <2> QED
    BY <1>1, <1>2, <2>2
<1>4. \A x, y \in S : <<x, y>> \in B => Cardinality(below(x)) < Cardinality(below(y))
  <2> SUFFICES ASSUME NEW x \in S, NEW y \in S, <<x, y>> \in B
               PROVE  Cardinality(below(x)) < Cardinality(below(y))
    OBVIOUS
  <2>1. below(x) \subseteq below(y) /\ below(x) # below(y)
    BY Zenon DEF StrictOrder
  <2> HIDE DEF below
  <2>2. Cardinality(below(x)) <= Cardinality(below(y)) /\ Cardinality(below(x)) # Cardinality(below(y))
    BY <1>2, <2>1, FS_Subset, Zenon
  <2> QED
    BY <1>2, <2>2
<1>5. rank \in [S -> 0..(n - 1)]
  <2> HIDE DEF below, n
  <2>1. \A x \in S : Cardinality(below(x)) \in 0..(n - 1)
    BY <1>1, <1>2, <1>3
  <2> QED
    BY <2>1, Zenon
<1>6. \A x, y \in S : rank[x] = rank[y] => x = y
  <2> SUFFICES ASSUME NEW x \in S, NEW y \in S, x # y PROVE rank[x] # rank[y]
    OBVIOUS
  <2>1. <<x, y>> \in B \/ <<y, x>> \in B
    BY Zenon DEF StrictOrder
  <2>2. rank[x] = Cardinality(below(x)) /\ rank[y] = Cardinality(below(y))
    BY Zenon
  <2> HIDE DEF rank, below
  <2>3. rank[x] < rank[y] \/ rank[y] < rank[x]
    BY <1>4, <2>1, <2>2, Zenon
  <2>4. rank[x] \in Nat /\ rank[y] \in Nat
    BY <1>2, <2>2, Zenon
  <2> QED
    BY <2>3, <2>4
<1> HIDE DEF rank, n
<1>7. rank \in Injection(S, 0..(n - 1))
  BY <1>5, <1>6 DEF Injection, IsInjective
<1>8. IsFiniteSet(0..(n - 1)) /\ Cardinality(0..(n - 1)) = n
  BY <1>1, FS_Interval
<1>9. rank \in Surjection(S, 0..(n - 1))
  BY <1>7, <1>8, FS_Injection, Zenon DEF n
<1> QED
  BY <1>7, <1>9, Zenon DEF Bijection, rank, n

\* The turns of a pass are all the turns there are.
LEMMA AllCertTurns ==
    ASSUME TLSTypeOK, NEW validated, NEW turns \in TLSTurns(TLSTopology, validated)
    PROVE  /\ turns \in Seq(CertTurns(TLSTopology, validated))
           /\ \A x \in CertTurns(TLSTopology, validated) : \E k \in 1..Len(turns) : turns[k] = x
<1> DEFINE t == TLSTopology
           S == CertTurns(t, validated)
           N == Cardinality(S)
<1>1. Present(t.policy) \subseteq TLSPolicySet
  BY Zenon DEF Present, TLSTopology, TLSTypeOK
<1>2. S \subseteq TLSListenerSet \X (1..MaxRefs) \X Present(t.policy)
  BY Zenon DEF CertTurns
<1>3. IsFiniteSet(S)
  <2> DEFINE grid == TLSListenerSet \X ((1..MaxRefs) \X Present(t.policy))
             nest == [x \in S |-> <<x[1], <<x[2], x[3]>>>>]
  <2>0. MaxRefs \in Int /\ 1 \in Int
    BY DEF MaxRefs
  <2>1. IsFiniteSet(1..MaxRefs)
    BY <2>0, FS_Interval, Zenon
  <2>2. IsFiniteSet(Present(t.policy))
    BY <1>1, TLSAssumption, FS_Subset, Zenon
  <2>3. IsFiniteSet((1..MaxRefs) \X Present(t.policy))
    BY <2>1, <2>2, FS_Product, Zenon
  <2>4. IsFiniteSet(grid)
    BY <2>3, TLSAssumption, FS_Product, Zenon
  <2>5. \A x \in S : /\ x[1] \in TLSListenerSet /\ x[2] \in 1..MaxRefs /\ x[3] \in Present(t.policy)
                     /\ x = <<x[1], x[2], x[3]>>
    BY <1>2
  <2> HIDE DEF S, t
  <2>6. nest \in [S -> grid] /\ \A x, y \in S : nest[x] = nest[y] => x = y
    BY <2>5, Zenon
  <2>7. nest \in Injection(S, grid)
    BY <2>6, Zenon DEF Injection, IsInjective
  <2> QED
    BY <2>4, <2>7, FS_Injection, Zenon
<1>4. PICK ls \in Places(TLSListenerSet), ps \in Places(Present(t.policy)) :
        turns = TurnsInOrder(S, ls, ps)
  BY DEF TLSTurns
<1> DEFINE B == {xy \in S \X S : TurnBefore(xy[1], xy[2], ls, ps)}
           rank == [x \in S |-> Cardinality({y \in S : <<y, x>> \in B})]
<1>5. /\ \A l \in TLSListenerSet : ls[l] \in Nat
      /\ \A k, l \in TLSListenerSet : ls[k] = ls[l] => k = l
      /\ \A p \in Present(t.policy) : ps[p] \in Nat
      /\ \A p, q \in Present(t.policy) : ps[p] = ps[q] => p = q
  BY DEF Places, Bijection, Injection, IsInjective
<1>6. \A x \in S : x[1] \in TLSListenerSet /\ x[2] \in Nat /\ x[3] \in Present(t.policy) /\ x = <<x[1], x[2], x[3]>>
  BY <1>2
<1>7. \A x, y \in S : <<x, y>> \in B <=> TurnBefore(x, y, ls, ps)
  BY Zenon
<1> HIDE DEF S, t, B
<1>8. StrictOrder(S, B)
  <2>1. \A x \in S : ~TurnBefore(x, x, ls, ps)
    BY <1>5, <1>6 DEF TurnBefore
  <2>2. \A x, y, z \in S : TurnBefore(x, y, ls, ps) /\ TurnBefore(y, z, ls, ps) => TurnBefore(x, z, ls, ps)
    BY <1>5, <1>6 DEF TurnBefore
  <2>3. ASSUME NEW x \in S, NEW y \in S, ~TurnBefore(x, y, ls, ps), ~TurnBefore(y, x, ls, ps)
        PROVE  x = y
    <3>1. x[1] = y[1]
      BY <1>5, <1>6, <2>3 DEF TurnBefore
    <3>2. x[2] = y[2]
      BY <1>6, <2>3, <3>1 DEF TurnBefore
    <3>3. x[3] = y[3]
      BY <1>5, <1>6, <2>3, <3>1, <3>2 DEF TurnBefore
    <3> QED
      BY <1>6, <3>1, <3>2, <3>3, Zenon
  <2> QED
    BY <1>7, <2>1, <2>2, <2>3, Zenon DEF StrictOrder
<1>9. rank \in Bijection(S, 0..(N - 1))
  BY <1>3, <1>8, Ranked, Zenon
<1>10. N \in Nat
  BY <1>3, FS_CardinalityType, Zenon
<1>11. \A x \in S : rank[x] = Cardinality({y \in S : TurnBefore(y, x, ls, ps)})
  <2> SUFFICES ASSUME NEW x \in S
               PROVE  {y \in S : <<y, x>> \in B} = {y \in S : TurnBefore(y, x, ls, ps)}
    BY Zenon
  <2> QED
    BY <1>7
<1> HIDE DEF rank, N
<1>12. /\ \A x \in S : rank[x] \in 0..(N - 1)
       /\ \A x, y \in S : rank[x] = rank[y] => x = y
       /\ \A m \in 0..(N - 1) : \E x \in S : rank[x] = m
  BY <1>9, Zenon DEF Bijection, Injection, Surjection, IsInjective
<1>13. \A n \in 1..N : turns[n] \in S /\ rank[turns[n]] = n - 1
  <2> SUFFICES ASSUME NEW n \in 1..N PROVE turns[n] \in S /\ rank[turns[n]] = n - 1
    OBVIOUS
  <2>1. n - 1 \in 0..(N - 1)
    BY <1>10
  <2>2. turns[n] = CHOOSE x \in S : Cardinality({y \in S : TurnBefore(y, x, ls, ps)}) = n - 1
    BY <1>4, Zenon DEF TurnsInOrder, N
  <2>3. \E x \in S : Cardinality({y \in S : TurnBefore(y, x, ls, ps)}) = n - 1
    BY <1>11, <1>12, <2>1
  <2>4. turns[n] \in S /\ Cardinality({y \in S : TurnBefore(y, turns[n], ls, ps)}) = n - 1
    BY <2>2, <2>3, Zenon
  <2> QED
    BY <1>11, <2>4, Zenon
<1>14. turns \in [1..N -> S]
  BY <1>4, <1>13, Zenon DEF TurnsInOrder, N
<1>15. turns \in Seq(S) /\ Len(turns) = N
  BY <1>10, <1>14
<1>16. ASSUME NEW x \in S PROVE \E k \in 1..N : turns[k] = x
  <2>1. rank[x] \in 0..(N - 1) /\ rank[x] + 1 \in 1..N /\ (rank[x] + 1) - 1 = rank[x]
    BY <1>10, <1>12
  <2>2. turns[rank[x] + 1] = x
    BY <1>12, <1>13, <2>1
  <2> QED
    BY <2>1, <2>2, Zenon
<1> QED
  BY <1>15, <1>16, Zenon DEF S, t

\* The loop over the targets: its recursion has a solution, and so the accumulator of a turn
\* is what reconcileCertificate makes of the one before.
CertTurn(t, acc, turn) == reconcileCertificate(t, acc, buildCertManagerCertificate(t, turn))

LEMMA CertLoopExists ==
    ASSUME NEW t, NEW turns, Len(turns) \in Nat
    PROVE  \E f : f = [n \in 0..Len(turns) |->
                         IF n = 0 THEN CertLoopStart(t) ELSE CertTurn(t, f[n - 1], turns[n])]
<1> DEFINE N == Len(turns)
           F(m, f) == f = [n \in 0..m |->
                             IF n = 0 THEN CertLoopStart(t) ELSE CertTurn(t, f[n - 1], turns[n])]
           S == {m \in Nat : m \in 0..N => \E f : F(m, f)}
<1>1. 0 \in S
  <2>1. F(0, [n \in 0..0 |-> CertLoopStart(t)])
    OBVIOUS
  <2> QED
    BY <2>1, Zenon
<1>2. ASSUME NEW m \in Nat, m \in S PROVE m + 1 \in S
  <2> SUFFICES ASSUME m + 1 \in 0..N PROVE \E f : F(m + 1, f)
    OBVIOUS
  <2>1. PICK f : F(m, f)
    BY <1>2
  <2> DEFINE g == [n \in 0..(m + 1) |->
                     IF n = m + 1 THEN CertTurn(t, f[m], turns[m + 1]) ELSE f[n]]
  <2>2. \A n \in 0..m : f[n] = IF n = 0 THEN CertLoopStart(t) ELSE CertTurn(t, f[n - 1], turns[n])
    BY <2>1, Zenon
  <2>3. \A n \in 0..m : g[n] = f[n]
    OBVIOUS
  <2>4. g[m + 1] = CertTurn(t, g[m], turns[m + 1])
    BY <2>3
  <2>5. \A n \in 0..(m + 1) : g[n] = IF n = 0 THEN CertLoopStart(t) ELSE CertTurn(t, g[n - 1], turns[n])
    <3> TAKE n \in 0..(m + 1)
    <3>1. CASE n = m + 1
      BY <3>1, <2>4
    <3>2. CASE n # m + 1
      <4>1. n \in 0..m /\ (n # 0 => n - 1 \in 0..m)
        BY <3>2
      <4> HIDE DEF g
      <4> QED
        BY <2>2, <2>3, <4>1, Zenon
    <3> QED
      BY <3>1, <3>2, Zenon
  <2>6. F(m + 1, g)
    <3>1. g = [n \in 0..(m + 1) |-> g[n]]
      OBVIOUS
    <3> HIDE DEF g
    <3> QED
      BY <2>5, <3>1, Zenon
  <2> QED
    BY <2>6, Zenon
<1>3. Nat \subseteq S
  <2> HIDE DEF S
  <2> QED
    BY <1>1, <1>2, Induct, Zenon
<1> QED
  BY <1>3

LEMMA CertLoopStep ==
    ASSUME NEW t, NEW turns, Len(turns) \in Nat
    PROVE  /\ reconcileCertificates(t, turns)[0] = CertLoopStart(t)
           /\ \A n \in Nat : n < Len(turns) =>
                reconcileCertificates(t, turns)[n + 1] = CertTurn(t, reconcileCertificates(t, turns)[n], turns[n + 1])
<1> DEFINE acc == reconcileCertificates(t, turns)
<1>1. acc = [n \in 0..Len(turns) |-> IF n = 0 THEN CertLoopStart(t) ELSE CertTurn(t, acc[n - 1], turns[n])]
  BY CertLoopExists, Zenon DEF reconcileCertificates, CertTurn
<1> HIDE DEF acc
<1>2. \A n \in 0..Len(turns) : acc[n] = IF n = 0 THEN CertLoopStart(t) ELSE CertTurn(t, acc[n - 1], turns[n])
  BY <1>1
<1>3. ASSUME NEW n \in Nat, n < Len(turns)
      PROVE  acc[n + 1] = CertTurn(t, acc[n], turns[n + 1])
  <2>1. n + 1 \in 0..Len(turns) /\ n + 1 # 0 /\ (n + 1) - 1 = n
    BY <1>3
  <2> QED
    BY <1>2, <2>1, Zenon
<1> QED
  BY <1>2, <1>3 DEF acc

\* The writes that a pass may plan for the turns T: it deletes only certificates that it has seen.
TLSWrites(t, T) ==
    {[op |-> "delete", cert |-> l] : l \in {l \in TLSListenerSet : t.cert[l] # NoCert}}
    \cup {buildCertManagerCertificate(t, x) : x \in T}
    \cup {[op |-> "update", cert |-> x[1], spec |-> buildCertManagerCertificate(t, x).spec] : x \in T}

\* One turn finds its certificate as it should be, or adds a write to the plan.
CertTurnOutcome(t, T, acc, turn) ==
    LET next == CertTurn(t, acc, turn)
    IN  \/ /\ next = acc
           /\ LinkListenerToCertificate(t, turn[1])
           /\ acc.spec[turn[1]] = buildCertManagerCertificate(t, turn).spec
        \/ \E w \in TLSWrites(t, T) : next.plan = Append(acc.plan, w)

LEMMA SeenDeleted ==
    ASSUME NEW t, NEW T, NEW w \in TLSWrites(t, T), w.op = "delete"
    PROVE  t.cert[w.cert] # NoCert
<1>1. ASSUME NEW x \in T, w = buildCertManagerCertificate(t, x) PROVE FALSE
  BY <1>1, Zenon DEF buildCertManagerCertificate
<1>2. ASSUME NEW x \in T, NEW s, w = [op |-> "update", cert |-> x[1], spec |-> s] PROVE FALSE
  BY <1>2, Zenon
<1>3. PICK l \in TLSListenerSet : t.cert[l] # NoCert /\ w = [op |-> "delete", cert |-> l]
  BY <1>1, <1>2, Zenon DEF TLSWrites
<1> QED
  BY <1>3, Zenon

LEMMA CertTurnPlans ==
    ASSUME NEW t, NEW T, NEW acc, NEW turn \in T
    PROVE  CertTurnOutcome(t, T, acc, turn)
<1> DEFINE target == buildCertManagerCertificate(t, turn)
           l == turn[1]
           next == CertTurn(t, acc, turn)
           update == [op |-> "update", cert |-> l, spec |-> target.spec]
<1>1. target.cert = l
  BY DEF buildCertManagerCertificate
<1>2. target \in TLSWrites(t, T) /\ update \in TLSWrites(t, T)
  BY Zenon DEF TLSWrites
<1> HIDE DEF target, l
<1>3. CASE ~LinkListenerToCertificate(t, l)
  <2>1. next = [plan |-> Append(acc.plan, target), spec |-> acc.spec]
    BY <1>1, <1>3, Zenon DEF CertTurn, reconcileCertificate, target
  <2>2. next.plan = Append(acc.plan, target)
    BY <2>1
  <2> QED
    BY <1>2, <2>2, Zenon DEF CertTurnOutcome
<1>4. CASE LinkListenerToCertificate(t, l) /\ acc.spec[l] = target.spec
  <2>1. next = acc
    BY <1>1, <1>4, Zenon DEF CertTurn, reconcileCertificate, target
  <2> QED
    BY <1>4, <2>1, Zenon DEF CertTurnOutcome, target, l
<1>5. CASE LinkListenerToCertificate(t, l) /\ acc.spec[l] # target.spec
  <2>1. next = [plan |-> Append(acc.plan, update), spec |-> [acc.spec EXCEPT ![l] = target.spec]]
    BY <1>1, <1>5, Zenon DEF CertTurn, reconcileCertificate, target
  <2>2. next.plan = Append(acc.plan, update)
    BY <2>1
  <2> QED
    BY <1>2, <2>2, Zenon DEF CertTurnOutcome
<1> QED
  BY <1>3, <1>4, <1>5, Zenon

LEMMA CertLoopPlans ==
    ASSUME NEW t, NEW T, NEW turns \in Seq(T)
    PROVE  \A n \in 0..Len(turns) : reconcileCertificates(t, turns)[n].plan \in Seq(TLSWrites(t, T))
<1> DEFINE acc == reconcileCertificates(t, turns)
           S == {n \in Nat : n <= Len(turns) => acc[n].plan \in Seq(TLSWrites(t, T))}
<1>1. /\ Len(turns) \in Nat /\ acc[0] = CertLoopStart(t)
      /\ \A n \in Nat : n < Len(turns) => acc[n + 1] = CertTurn(t, acc[n], turns[n + 1])
  BY CertLoopStep
<1> HIDE DEF acc
<1>2. 0 \in S
  <2>1. acc[0].plan = <<>>
    BY <1>1 DEF CertLoopStart
  <2>2. acc[0].plan \in Seq(TLSWrites(t, T))
    BY <2>1
  <2> QED
    BY <2>2, Zenon
<1>3. ASSUME NEW n \in Nat, n \in S PROVE n + 1 \in S
  <2> SUFFICES ASSUME n < Len(turns) PROVE acc[n + 1].plan \in Seq(TLSWrites(t, T))
    BY <1>1
  <2>1. acc[n].plan \in Seq(TLSWrites(t, T)) /\ acc[n + 1] = CertTurn(t, acc[n], turns[n + 1])
    BY <1>1, <1>3
  <2>2. turns[n + 1] \in T
    BY <1>1
  <2>3. CertTurnOutcome(t, T, acc[n], turns[n + 1])
    BY <2>2, CertTurnPlans, Zenon
  <2>4. acc[n + 1] = acc[n] \/ \E w \in TLSWrites(t, T) : acc[n + 1].plan = Append(acc[n].plan, w)
    BY <2>1, <2>3, Zenon DEF CertTurnOutcome
  <2>5. CASE acc[n + 1] = acc[n]
    BY <2>1, <2>5, Zenon
  <2>6. ASSUME NEW w \in TLSWrites(t, T), acc[n + 1].plan = Append(acc[n].plan, w)
        PROVE  acc[n + 1].plan \in Seq(TLSWrites(t, T))
    BY <2>1, <2>6
  <2> QED
    BY <2>4, <2>5, <2>6, Zenon
<1>4. Nat \subseteq S
  <2> HIDE DEF S
  <2> QED
    BY <1>2, <1>3, Induct, Zenon
<1> QED
  BY <1>1, <1>4 DEF acc

\* If the loop plans nothing then every turn found the certificate of the topology as it
\* should be.
LEMMA NothingToIssue ==
    ASSUME NEW t, NEW T, NEW turns \in Seq(T), \A x \in T : x[1] \in TLSListenerSet,
           reconcileCertificates(t, turns)[Len(turns)].plan = <<>>
    PROVE  \A k \in 1..Len(turns) :
             /\ LinkListenerToCertificate(t, turns[k][1])
             /\ t.cert[turns[k][1]].spec = buildCertManagerCertificate(t, turns[k]).spec
<1> DEFINE acc == reconcileCertificates(t, turns)
           Right(k) == /\ LinkListenerToCertificate(t, turns[k][1])
                       /\ t.cert[turns[k][1]].spec = buildCertManagerCertificate(t, turns[k]).spec
           S == {n \in Nat : n <= Len(turns) /\ acc[n].plan = <<>> =>
                               acc[n] = CertLoopStart(t) /\ \A k \in 1..n : Right(k)}
<1>1. /\ Len(turns) \in Nat /\ acc[0] = CertLoopStart(t)
      /\ \A n \in Nat : n < Len(turns) => acc[n + 1] = CertTurn(t, acc[n], turns[n + 1])
  BY CertLoopStep
<1>2. \A n \in 0..Len(turns) : acc[n].plan \in Seq(TLSWrites(t, T))
  BY CertLoopPlans, Zenon
<1>3. acc[Len(turns)].plan = <<>>
  BY Zenon
<1> HIDE DEF acc, Right
<1>4. 0 \in S
  BY <1>1
<1>5. ASSUME NEW n \in Nat, n \in S PROVE n + 1 \in S
  <2> SUFFICES ASSUME n < Len(turns), acc[n + 1].plan = <<>>
               PROVE  acc[n + 1] = CertLoopStart(t) /\ \A k \in 1..(n + 1) : Right(k)
    BY <1>1
  <2> DEFINE turn == turns[n + 1]
             l == turn[1]
  <2>1. /\ acc[n + 1] = CertTurn(t, acc[n], turn) /\ turn \in T /\ l \in TLSListenerSet
        /\ acc[n].plan \in Seq(TLSWrites(t, T))
    BY <1>1, <1>2
  <2> HIDE DEF turn, l
  <2>2. CertTurnOutcome(t, T, acc[n], turn)
    BY <2>1, CertTurnPlans, Zenon
  <2>3. ASSUME NEW w \in TLSWrites(t, T) PROVE Append(acc[n].plan, w) # <<>>
    <3>1. Len(Append(acc[n].plan, w)) = Len(acc[n].plan) + 1 /\ Len(acc[n].plan) \in Nat
      BY <2>1
    <3>2. SUFFICES ASSUME Append(acc[n].plan, w) = <<>> PROVE FALSE
      BY Zenon
    <3>3. Len(Append(acc[n].plan, w)) = 0
      BY <3>2
    <3> QED
      BY <3>1, <3>3
  <2>4. /\ acc[n + 1] = acc[n]
        /\ LinkListenerToCertificate(t, l)
        /\ acc[n].spec[l] = buildCertManagerCertificate(t, turn).spec
    BY <2>1, <2>2, <2>3, Zenon DEF CertTurnOutcome, l
  <2>5. acc[n] = CertLoopStart(t) /\ \A k \in 1..n : Right(k)
    <3>1. n <= Len(turns) /\ acc[n].plan = <<>>
      BY <1>1, <2>4, SMTT(20)
    <3> QED
      BY <1>5, <3>1, ZenonT(40)
  <2>6. CertLoopStart(t).spec[l] = t.cert[l].spec
    BY <2>1, <2>4, Zenon DEF CertLoopStart, LinkListenerToCertificate
  <2>7. Right(n + 1)
    BY <2>4, <2>5, <2>6, Zenon DEF Right, turn, l
  <2>8. \A k \in 1..(n + 1) : k \in 1..n \/ k = n + 1
    OBVIOUS
  <2>9. \A k \in 1..(n + 1) : Right(k)
    BY <2>5, <2>7, <2>8, Zenon
  <2> QED
    BY <2>4, <2>5, <2>9, Zenon
<1>6. Nat \subseteq S
  <2> HIDE DEF S
  <2> QED
    BY <1>4, <1>5, Induct, Zenon
<1>7. \A k \in 1..Len(turns) : Right(k)
  BY <1>1, <1>3, <1>6
<1> QED
  BY <1>7, Zenon DEF Right

\* The whole plan: what may be in it, and what it means that it is empty.
LEMMA ReconcileTLSPlans ==
    ASSUME NEW t, NEW T, NEW turns \in Seq(T)
    PROVE  /\ ReconcileTLS(t, turns) \in Seq(TLSWrites(t, T))
           /\ ReconcileTLS(t, turns) = <<>> =>
                /\ reconcileCertificates(t, turns)[Len(turns)].plan = <<>>
                /\ OrphanedCerts(t, turns) = {}
<1> DEFINE plan == reconcileCertificates(t, turns)[Len(turns)].plan
           O == OrphanedCerts(t, turns)
           orphans == InOrder(O)
           deletes == [i \in DOMAIN orphans |-> [op |-> "delete", cert |-> orphans[i]]]
<1>1. plan \in Seq(TLSWrites(t, T))
  BY CertLoopPlans
<1>2. O \subseteq TLSListenerSet /\ \A l \in O : t.cert[l] # NoCert
  BY Zenon DEF OrphanedCerts
<1>3. IsFiniteSet(O)
  BY <1>2, TLSAssumption, FS_Subset, Zenon
<1>4. \A l \in O : [op |-> "delete", cert |-> l] \in TLSWrites(t, T)
  BY <1>2, Zenon DEF TLSWrites
<1>5. ReconcileTLS(t, turns) = plan \o deletes
  BY Zenon DEF ReconcileTLS
<1> HIDE DEF O
<1>6. /\ orphans \in Seq(O) /\ DOMAIN orphans = 1..Len(orphans)
      /\ \A i \in DOMAIN orphans : orphans[i] \in O
      /\ \A l \in O : \E i \in DOMAIN orphans : orphans[i] = l
  BY <1>3, AllInOrder, Zenon
<1> HIDE DEF plan, orphans
<1>7. deletes \in Seq(TLSWrites(t, T)) /\ (deletes = <<>> => O = {})
  BY <1>4, <1>6
<1> HIDE DEF deletes
<1>8. plan \o deletes \in Seq(TLSWrites(t, T))
  BY <1>1, <1>7
<1>9. plan \o deletes = <<>> => plan = <<>> /\ deletes = <<>>
  <2> SUFFICES ASSUME plan \o deletes = <<>> PROVE plan = <<>> /\ deletes = <<>>
    OBVIOUS
  <2>1. Len(plan \o deletes) = Len(plan) + Len(deletes) /\ Len(plan \o deletes) = 0
    BY <1>1, <1>7
  <2> QED
    BY <1>1, <1>7, <2>1
<1> QED
  BY <1>5, <1>7, <1>8, <1>9, Zenon DEF plan, O

\* A pass that goes by the right verdicts and finds nothing to write has found the
\* certificates right.
LEMMA NothingIssued ==
    ASSUME TLSTypeOK, NEW validated, NEW turns \in TLSTurns(TLSTopology, validated),
           \A p \in TLSPolicySet : TLSLive(p) => (IsTLSPolicyValid(TLSTopology, validated, p) <=> TLSValid(p)),
           ReconcileTLS(TLSTopology, turns) = <<>>
    PROVE  CertsRight
<1> DEFINE t == TLSTopology
           T == CertTurns(t, validated)
           W == {y \in TLSListenerSet \X (1..MaxRefs) \X Present(tlsPolicy) :
                  /\ ValidBlock(t, y[1]) /\ y[2] \in DOMAIN t.listener[y[1]]
                  /\ y[3] \in getTLSPoliciesForListener(t, y[1])
                  /\ ValidateTLS(t, y[3]) = "Accepted"}
           target(x) == [secret |-> t.listener[x[1]][x[2]], issuer |-> t.policy[x[3]].spec.issuer]
<1> SUFFICES ASSUME \A p \in Present(tlsPolicy) : ~tlsPolicy[p].deleting
             PROVE  ActualCerts = WantedCerts
  BY Zenon DEF CertsRight
<1>1. t.policy = tlsPolicy /\ t.cert = tlsCert
  BY Zenon DEF TLSTopology
<1>2. \A p \in Present(tlsPolicy) : p \in TLSPolicySet /\ TLSLive(p)
  BY DEF Present, TLSLive, TLSTypeOK
<1>3. T = W
  <2>1. \A p \in Present(tlsPolicy) : ~tlsPolicy[p].deleting /\ (IsTLSPolicyValid(t, validated, p) <=> ValidateTLS(t, p) = "Accepted")
    BY <1>2, Zenon DEF TLSValid
  <2>2. \A x : x \in TLSListenerSet \X (1..MaxRefs) \X Present(tlsPolicy) => x[3] \in Present(tlsPolicy)
    OBVIOUS
  <2> HIDE DEF t
  <2> QED
    BY <1>1, <2>1, <2>2, Zenon DEF CertTurns
<1>4. WantedCerts = {[cert |-> x[1], spec |-> target(x)] : x \in W}
  BY Zenon DEF WantedCerts
<1>5. \A x \in T : x[1] \in TLSListenerSet
  BY Zenon DEF CertTurns
<1>6. turns \in Seq(T) /\ \A x \in T : \E k \in 1..Len(turns) : turns[k] = x
  BY AllCertTurns
<1>7. \A x \in T : buildCertManagerCertificate(t, x).spec = target(x)
  BY Zenon DEF buildCertManagerCertificate
<1>8. \A l \in TLSListenerSet : tlsCert[l] # NoCert => \E i \in 1..Len(turns) : turns[i][1] = l
  <2>1. OrphanedCerts(t, turns) = {}
    BY <1>6, ReconcileTLSPlans, Zenon
  <2>2. DOMAIN turns = 1..Len(turns)
    BY <1>6
  <2>3. \A l \in TLSListenerSet : t.cert[l] # NoCert => ~(\A i \in DOMAIN turns : turns[i][1] # l)
    BY <2>1 DEF OrphanedCerts
  <2> HIDE DEF t
  <2> QED
    BY <1>1, <2>2, <2>3, Zenon
<1>9. \A x \in T : tlsCert[x[1]] # NoCert /\ tlsCert[x[1]].spec = target(x)
  <2>1. reconcileCertificates(t, turns)[Len(turns)].plan = <<>>
    BY <1>6, ReconcileTLSPlans, Zenon
  <2> HIDE DEF t, T, target
  <2>t. turns \in Seq(T)
    BY <1>6, Zenon
  <2>2. \A k \in 1..Len(turns) : /\ LinkListenerToCertificate(t, turns[k][1])
                                 /\ t.cert[turns[k][1]].spec = buildCertManagerCertificate(t, turns[k]).spec
    BY <1>5, <2>t, <2>1, NothingToIssue, Zenon
  <2> QED
    BY <1>1, <1>6, <1>7, <2>2, ZenonT(40) DEF LinkListenerToCertificate
<1> HIDE DEF t, T, W, target
<1>10. ASSUME NEW c \in ActualCerts PROVE c \in WantedCerts
  <2>1. PICK l \in TLSListenerSet : tlsCert[l] # NoCert /\ c = [cert |-> l, spec |-> tlsCert[l].spec]
    BY <1>10 DEF ActualCerts
  <2>2. PICK x \in T : x[1] = l
    <3>1. PICK i \in 1..Len(turns) : turns[i][1] = l
      BY <1>8, <2>1, Zenon
    <3>2. turns[i] \in T
      BY <1>6
    <3> QED
      BY <3>1, <3>2, Zenon
  <2>3. c = [cert |-> x[1], spec |-> target(x)]
    BY <1>9, <2>1, <2>2, ZenonT(40)
  <2> QED
    BY <1>3, <1>4, <2>3, ZenonT(40)
<1>11. ASSUME NEW c \in WantedCerts PROVE c \in ActualCerts
  <2>1. PICK x \in T : c = [cert |-> x[1], spec |-> target(x)]
    BY <1>3, <1>4, Zenon
  <2>2. x[1] \in TLSListenerSet /\ tlsCert[x[1]] # NoCert /\ c = [cert |-> x[1], spec |-> tlsCert[x[1]].spec]
    BY <1>5, <1>9, <2>1, Zenon
  <2> QED
    BY <2>2 DEF ActualCerts
<1> QED
  BY <1>10, <1>11, Zenon

\* What the certificates have to be does not depend on the statuses.
LEMMA CertsKeep ==
    ASSUME TLSAlike(tlsPolicy, tlsPolicy', TLSPolicySet), UNCHANGED <<tlsListener, tlsCert>>,
           \A p \in TLSPolicySet : TLSValid(p)' <=> TLSValid(p), CertsRight
    PROVE  CertsRight'
<1> DEFINE t == TLSTopology
<1>1. /\ t.policy = tlsPolicy /\ t.listener = tlsListener
      /\ t'.policy = tlsPolicy' /\ t'.listener = tlsListener
  BY Zenon DEF TLSTopology
<1>2. /\ Present(tlsPolicy') = Present(tlsPolicy) /\ Present(tlsPolicy) \subseteq TLSPolicySet
      /\ \A p \in TLSPolicySet : tlsPolicy'[p].spec = tlsPolicy[p].spec /\ tlsPolicy'[p].deleting = tlsPolicy[p].deleting
  BY DEF TLSAlike
<1>3. \A l : getTLSPoliciesForListener(t', l) = getTLSPoliciesForListener(t, l)
  <2>1. \A l : AttachedTo(tlsPolicy', l) = AttachedTo(tlsPolicy, l)
    BY TLSSameLife, Zenon
  <2> HIDE DEF t
  <2> QED
    BY <1>1, <2>1, Zenon DEF getTLSPoliciesForListener
<1>4. \A l : ValidBlock(t', l) <=> ValidBlock(t, l)
  BY <1>1, Zenon DEF ValidBlock
<1>5. \A p \in TLSPolicySet : ValidateTLS(t', p) = "Accepted" <=> ValidateTLS(t, p) = "Accepted"
  BY DEF TLSValid
<1> DEFINE grid == TLSListenerSet \X (1..MaxRefs) \X Present(tlsPolicy)
           W(u) == {y \in grid : /\ ValidBlock(u, y[1]) /\ y[2] \in DOMAIN u.listener[y[1]]
                                  /\ y[3] \in getTLSPoliciesForListener(u, y[1])
                                  /\ ValidateTLS(u, y[3]) = "Accepted"}
           target(u, x) == [cert |-> x[1],
                            spec |-> [secret |-> u.listener[x[1]][x[2]], issuer |-> u.policy[x[3]].spec.issuer]]
<1>6. WantedCerts = {target(t, x) : x \in W(t)} /\ WantedCerts' = {target(t', x) : x \in W(t')}
  BY <1>2, Zenon DEF WantedCerts
<1>7. \A x \in grid : x[3] \in TLSPolicySet
  BY <1>2, Zenon
<1> HIDE DEF t, grid
<1>8. W(t') = W(t)
  BY <1>1, <1>3, <1>4, <1>5, <1>7, Zenon
<1>9. \A x \in W(t) : target(t', x) = target(t, x)
  BY <1>1, <1>2, <1>7, Zenon
<1> HIDE DEF W, target
<1>10. WantedCerts' = WantedCerts
  BY <1>6, <1>8, <1>9, Zenon
<1>11. ActualCerts' = ActualCerts
  BY Zenon DEF ActualCerts
<1> QED
  BY <1>2, <1>10, <1>11, Zenon DEF CertsRight

-----------------------------------------------------------------------------
LEMMA CertsSame ==
    ASSUME CertsRight, UNCHANGED <<tlsPolicy, tlsListener, tlsIssuer, tlsCert>>
    PROVE  CertsRight'
<1>1. TLSTopology' = TLSTopology
  BY Zenon DEF TLSTopology
<1>2. WantedCerts' = WantedCerts
  BY <1>1, Zenon DEF WantedCerts
<1>3. ActualCerts' = ActualCerts
  BY Zenon DEF ActualCerts
<1> QED
  BY <1>2, <1>3, Zenon DEF CertsRight

LEMMA VerdictsKeep ==
    ASSUME VerdictsRight, UNCHANGED <<tlsPolicy, tlsListener, tlsIssuer, tlsStatuses>>
    PROVE  VerdictsRight'
<1>1. \A p : TLSValid(p)' <=> TLSValid(p)
  BY Zenon DEF TLSValid, ValidateTLS, isIssuerFound, TLSTopology
<1>2. \A p : (TLSLive(p)' <=> TLSLive(p)) /\ (TLSPlanned(p)' <=> TLSPlanned(p))
  BY Zenon DEF TLSLive, TLSPlanned
<1>3. \A p, x : VerdictRight(p, x)' <=> VerdictRight(p, x)
  BY <1>1, Zenon DEF VerdictRight
<1> QED
  BY <1>2, <1>3, Zenon DEF VerdictsRight

\* A pass begins: it goes by its own verdicts, or by those of the statuses, which are right
\* unless a change waits.
LEMMA TLSBeginCerts ==
    ASSUME TLSCertInv, NEW es, NEW stale \in BOOLEAN, StartTLSPass(es, stale), TLSTakes(es, stale),
           ~tlsLost', ~tlsMissed', es \cap TLSValidatorEvents # {} \/ ~TLSPending'
    PROVE  /\ VerdictsRight'
           /\ TLSWriteTells' \/ (tlsPlan' = <<>> /\ CertsRight')
<1> DEFINE t == TLSTopology
           validated == es \cap TLSValidatorEvents # {}
           reconciled == es \cap TLSReconcilerEvents # {}
           us == UpdateTLSStatuses(t, validated)
<1>1. /\ TLSIdle /\ es # {}
      /\ tlsStatuses' = IF es \cap TLSStatusEvents # {} THEN us ELSE <<>>
      /\ UNCHANGED <<tlsPolicy, tlsListener, tlsIssuer, tlsCert>>
  BY Zenon DEF StartTLSPass
<1>2. TLSTypeOK /\ tlsLost \in BOOLEAN /\ tlsMissed \in BOOLEAN /\ es \subseteq TLSKinds
  BY Zenon DEF TLSCertInv, TLSStatusInv, TLSTypeOK, TLSTakes
<1>3. reconciled /\ (validated \/ (~tlsLost /\ ~tlsMissed /\ ~TLSPending))
  <2>1. CASE validated /\ reconciled
    BY <2>1, Zenon
  <2>2. CASE ~(validated /\ reconciled)
    <3>1. ~tlsLost /\ ~tlsMissed /\ es \cap {"Issuer", "TLSPolicyDeleted"} = {}
      BY <1>2, <2>2, Zenon DEF StartTLSPass
    <3>2. "Gateway" \notin es /\ "TLSPolicy" \notin es
      BY <2>2, Zenon DEF TLSValidatorEvents, TLSReconcilerEvents
    <3>3. es = {"Certificate"}
      BY <1>1, <1>2, <3>1, <3>2, Zenon DEF TLSKinds
    <3>4. ~TLSPending
      <4>1. CASE es = tlsEvents
        BY <3>3, <4>1, Zenon DEF TLSPending
      <4>2. CASE UNCHANGED tlsEvents
        BY <3>3, <4>2, Zenon DEF TLSPending, TLSValidatorEvents
      <4> QED
        BY <4>1, <4>2, Zenon DEF TLSTakes
    <3> QED
      BY <3>1, <3>3, <3>4, Zenon DEF TLSReconcilerEvents
  <2> QED
    BY <2>1, <2>2, Zenon
<1>4. PICK turns \in TLSTurns(t, validated) : tlsPlan' = ReconcileTLS(t, turns)
  BY <1>3 DEF StartTLSPass
<1>5. /\ \A i \in DOMAIN us : us[i].accepted = ValidityReason(t, validated, us[i].policy)
      /\ \A p \in TLSPolicySet : TLSLive(p) => \E i \in DOMAIN us : us[i].policy = p
  BY <1>2, TLSStatusesPlanned, Zenon
<1>6. t' = t /\ t.policy = tlsPolicy /\ t.cert = tlsCert
  BY <1>1, Zenon DEF TLSTopology
<1>7. validated => es \cap TLSStatusEvents # {}
  BY Zenon DEF TLSValidatorEvents, TLSStatusEvents
<1>8. turns \in Seq(CertTurns(t, validated))
  BY <1>2, <1>4, AllCertTurns, Zenon
<1> HIDE DEF us, validated, t
<1>9. ~validated => \A p \in TLSPolicySet : TLSLive(p) => VerdictRight(p, tlsPolicy[p].accepted)
  <2>1. ~validated => VerdictsRight
    BY <1>3, Zenon DEF TLSCertInv
  <2>2. \A p : ~TLSPlanned(p)
    BY <1>1 DEF TLSPlanned, TLSCertInv, TLSStatusInv, TLSPassOK
  <2> QED
    BY <2>1, <2>2, Zenon DEF VerdictsRight
<1>10. \A p \in TLSPolicySet : TLSLive(p) => (IsTLSPolicyValid(t, validated, p) <=> TLSValid(p))
  BY <1>6, <1>9, Zenon DEF IsTLSPolicyValid, VerdictRight, TLSValid, t
<1>11. \A p, x : (TLSLive(p)' <=> TLSLive(p)) /\ (VerdictRight(p, x)' <=> VerdictRight(p, x))
  BY <1>1, <1>6, Zenon DEF TLSLive, VerdictRight, TLSValid, t
<1>12. VerdictsRight'
  <2>1. CASE ~validated
    BY <1>1, <1>9, <1>11, <2>1, Zenon DEF VerdictsRight
  <2>2. CASE validated
    <3>1. tlsStatuses' = us
      BY <1>1, <1>7, <2>2, Zenon
    <3>2. \A i \in DOMAIN us : VerdictRight(us[i].policy, us[i].accepted)
      BY <1>5, <2>2, Zenon DEF VerdictRight, ValidityReason, TLSValid, t
    <3>3. \A p \in TLSPolicySet : TLSLive(p)' => TLSPlanned(p)'
      BY <1>5, <1>11, <3>1, Zenon DEF TLSPlanned
    <3>4. (\A i \in DOMAIN tlsStatuses : VerdictRight(tlsStatuses[i].policy, tlsStatuses[i].accepted))'
      BY <1>11, <3>1, <3>2, Zenon
    <3> QED
      BY <3>3, <3>4, Zenon DEF VerdictsRight
  <2> QED
    BY <2>1, <2>2, Zenon
<1>13. CASE tlsPlan' # <<>>
  <2> DEFINE w == Head(tlsPlan')
  <2>1. w \in TLSWrites(t, CertTurns(t, validated))
    BY <1>4, <1>8, <1>13, ReconcileTLSPlans
  <2> HIDE DEF w
  <2>2. w.op = "delete" => tlsCert[w.cert] # NoCert
    BY <1>6, <2>1, SeenDeleted, Zenon
  <2> QED
    BY <1>1, <1>12, <1>13, <2>2, ZenonT(40) DEF TLSWriteTells, w
<1>14. CASE tlsPlan' = <<>>
  <2>1. CertsRight
    BY <1>2, <1>4, <1>10, <1>14, NothingIssued, Zenon DEF t
  <2>2. CertsRight'
    BY <1>1, <2>1, CertsSame, ZenonT(40)
  <2> QED
    BY <1>12, <1>14, <2>2, Zenon
<1> QED
  BY <1>13, <1>14, Zenon

\* A status is written: it says what the one before said, or the change waits.
LEMMA TLSWriteVerdicts ==
    ASSUME TLSCertInv, WriteTLSStatus, ~tlsLost', ~TLSPending', VerdictsRight
    PROVE  VerdictsRight'
<1> DEFINE w == Head(tlsStatuses)
<1>1. /\ tlsStatuses # <<>> /\ tlsStatuses' = Tail(tlsStatuses)
      /\ UNCHANGED <<tlsListener, tlsIssuer, tlsCert>>
  BY Zenon DEF WriteTLSStatus
<1>2. /\ 1 \in DOMAIN tlsStatuses /\ w = tlsStatuses[1] /\ w \in TLSStatusType
      /\ \A i \in DOMAIN tlsStatuses' : i + 1 \in DOMAIN tlsStatuses /\ tlsStatuses'[i] = tlsStatuses[i + 1]
      /\ \A i \in DOMAIN tlsStatuses :
           i = 1 \/ (i - 1 \in DOMAIN tlsStatuses' /\ tlsStatuses'[i - 1] = tlsStatuses[i])
  BY <1>1, TailFacts, ZenonT(40) DEF TLSCertInv, TLSStatusInv, TLSTypeOK
<1> HIDE DEF w
<1>3. w.policy \in TLSPolicySet /\ tlsPolicy[w.policy] # Unborn
  BY <1>2 DEF TLSStatusType, TLSCertInv, TLSStatusInv, TLSPassOK
<1>4. UNCHANGED tlsPolicy /\ (TLSLive(w.policy) => tlsPolicy[w.policy].accepted = w.accepted)
  <2>1. CASE UNCHANGED <<tlsPolicy, tlsEvents>> /\ ~TLSStatusAdmitted(w)
    <3>1. <<"TLSPolicy", w.policy>> \in tlsDirty => TLSPending'
      BY <1>3, <2>1, Zenon DEF TLSPending, TLSCertInv, TLSStatusInv, TLSPassOK
    <3>2. tlsPolicy[w.policy] = Gone
      BY <2>1, <3>1, Zenon DEF TLSStatusAdmitted
    <3> QED
      BY <2>1, <3>2, Zenon DEF TLSLive, Present
  <2>2. CASE TLSStatusAdmitted(w) /\ SetTLSStatus(w)
    <3>1. UNCHANGED tlsPolicy
      BY <2>2, Zenon DEF SetTLSStatus, TLSPending
    <3>2. TLSTypeOK /\ tlsPolicy[w.policy] \in TLSPolicyType
      BY <1>3, <2>2, Zenon DEF TLSCertInv, TLSStatusInv, TLSTypeOK, TLSStatusAdmitted
    <3>3. tlsPolicy'[w.policy].accepted = w.accepted
      BY <1>1, <1>2, <2>2, <3>2, TLSStatusKeeps, Zenon
    <3> QED
      BY <3>1, <3>3, Zenon
  <2> QED
    BY <2>1, <2>2, Zenon DEF WriteTLSStatus, w
<1>5. \A p, x : (TLSLive(p)' <=> TLSLive(p)) /\ (VerdictRight(p, x)' <=> VerdictRight(p, x))
  BY <1>1, <1>4, Zenon DEF TLSLive, VerdictRight, TLSValid, TLSTopology
<1>6. ASSUME NEW p \in TLSPolicySet, TLSLive(p), ~VerdictRight(p, tlsPolicy[p].accepted)
      PROVE  /\ TLSPlanned(p)'
             /\ \A i \in DOMAIN tlsStatuses' :
                  tlsStatuses'[i].policy = p => VerdictRight(p, tlsStatuses'[i].accepted)
  <2>1. /\ TLSPlanned(p)
        /\ \A i \in DOMAIN tlsStatuses :
             tlsStatuses[i].policy = p => VerdictRight(p, tlsStatuses[i].accepted)
    BY <1>6, Zenon DEF VerdictsRight
  <2>2. p # w.policy
    BY <1>2, <1>4, <1>6, <2>1, Zenon
  <2>3. TLSPlanned(p)'
    BY <1>2, <2>1, <2>2, ZenonT(40) DEF TLSPlanned
  <2>4. \A i \in DOMAIN tlsStatuses' :
          tlsStatuses'[i].policy = p => VerdictRight(p, tlsStatuses'[i].accepted)
    BY <1>2, <2>1, SMTT(20)
  <2> QED
    BY <2>3, <2>4, Zenon
<1> QED
  BY <1>4, <1>5, <1>6, Zenon DEF VerdictsRight

\* A write of the reconciler changes no more than a certificate, and asks for a pass or fails.
LEMMA TLSWriteCerts ==
    ASSUME TLSCertInv, WriteCert
    PROVE  /\ UNCHANGED <<tlsPolicy, tlsListener, tlsIssuer, tlsPass, tlsStatuses, tlsRetry, tlsLost, tlsMissed>>
           /\ tlsEvents \subseteq tlsEvents' /\ tlsEvents' \subseteq TLSKinds
           /\ tlsTrigger' \/ UNCHANGED tlsEvents
           /\ (tlsTrigger => tlsTrigger') /\ (tlsFailed => tlsFailed')
           /\ TLSWriteTells => tlsTrigger' \/ tlsFailed'
<1> DEFINE w == Head(tlsPlan)
<1>1. UNCHANGED <<tlsListener, tlsIssuer, tlsPass, tlsStatuses, tlsRetry, tlsLost, tlsMissed>>
  BY Zenon DEF WriteCert
<1>2. tlsTrigger \in BOOLEAN /\ tlsFailed \in BOOLEAN /\ tlsEvents \subseteq TLSKinds
  BY Zenon DEF TLSCertInv, TLSStatusInv, TLSTypeOK
<1>3. CASE PerformTLS(w) /\ UNCHANGED tlsFailed
  <2>1. (\E l, c : CertChanged(l, c)) \/ (~TLSWriteTells /\ UNCHANGED <<tlsPolicy, tlsEvents, tlsTrigger>>)
    <3>1. w.op = "delete" /\ tlsCert[w.cert] = NoCert => ~TLSWriteTells
      BY Zenon DEF TLSWriteTells
    <3> HIDE DEF w
    <3>2. CASE CertChanged(w.cert, [spec |-> w.spec, owner |-> w.owner, ready |-> FALSE])
      BY <3>2
    <3>3. CASE CertChanged(w.cert, [tlsCert[w.cert] EXCEPT !.spec = w.spec, !.ready = FALSE])
      BY <3>3, Zenon
    <3>4. CASE CertChanged(w.cert, NoCert)
      BY <3>4, Zenon
    <3> QED
      BY <1>3, <3>1, <3>2, <3>3, <3>4, Zenon DEF PerformTLS
  <2>2. CASE \E l, c : CertChanged(l, c)
    <3>1. UNCHANGED tlsPolicy /\ tlsEvents' = tlsEvents \cup {"Certificate"} /\ tlsTrigger' = TRUE
      BY <2>2, Zenon DEF CertChanged, TLSChanged
    <3> QED
      BY <1>1, <1>2, <1>3, <3>1, Zenon DEF TLSKinds
  <2> QED
    BY <1>1, <1>2, <1>3, <2>1, <2>2, Zenon
<1>4. CASE tlsFailed' = TRUE /\ UNCHANGED <<tlsPolicy, tlsEvents, tlsTrigger>>
  BY <1>1, <1>2, <1>4, Zenon
<1> QED
  BY <1>3, <1>4, Zenon DEF WriteCert

\* Every step of the TLS workflow keeps the certificates right or asks for a pass.
LEMMA TLSCertsStep == TLSCertInv /\ [TLSNext]_tlsVars => TLSCertInv'
<1> SUFFICES ASSUME TLSCertInv, [TLSNext]_tlsVars PROVE TLSCertInv'
  OBVIOUS
<1>1. TLSStatusInv'
  BY TLSStep, Zenon DEF TLSCertInv
<1>2. /\ TLSTypeOK /\ tlsTrigger \in BOOLEAN /\ tlsFailed \in BOOLEAN /\ tlsLost \in BOOLEAN
      /\ tlsMissed \in BOOLEAN /\ tlsEvents \subseteq TLSKinds /\ tlsPass \subseteq TLSKinds
      /\ tlsRetry \subseteq TLSKinds /\ (tlsTrigger \/ tlsEvents \subseteq {"TLSPolicy"})
  BY Zenon DEF TLSCertInv, TLSStatusInv, TLSTypeOK
<1>3. CASE TLSPassFrame /\ tlsTrigger' /\ tlsEvents \subseteq tlsEvents' /\ tlsEvents' \subseteq TLSKinds
           /\ (TLSPending' \/ UNCHANGED <<tlsPolicy, tlsListener, tlsIssuer>>)
  <2>1. TLSPending => TLSPending'
    BY <1>3, Zenon DEF TLSPending
  <2>2. VerdictsRight => TLSPending' \/ VerdictsRight'
    BY <1>3, VerdictsKeep, Zenon DEF TLSPassFrame
  <2>3. tlsLost \/ tlsMissed \/ TLSPending \/ VerdictsRight
    BY Zenon DEF TLSCertInv
  <2>4. TLSIdle => tlsPlan = <<>> /\ ~tlsFailed
    BY Zenon DEF TLSCertInv
  <2>5. UNCHANGED <<tlsPass, tlsPlan, tlsFailed, tlsRetry, tlsLost, tlsMissed>>
    BY <1>3, Zenon DEF TLSPassFrame
  <2>6. TLSIdle' => tlsPlan' = <<>> /\ ~tlsFailed'
    BY <2>4, <2>5, Zenon DEF TLSIdle
  <2>7. tlsLost' \/ tlsMissed' \/ TLSPending' \/ VerdictsRight'
    BY <2>1, <2>2, <2>3, <2>5, Zenon
  <2> QED
    BY <1>1, <1>2, <1>3, <2>5, <2>6, <2>7, Zenon DEF TLSCertInv
<1>4. CASE BeginTLSPass \/ RetryTLSPass
  <2>0. PICK es : \E stale \in BOOLEAN : StartTLSPass(es, stale) /\ TLSTakes(es, stale)
    BY <1>4, TLSStarts, Zenon
  <2>1. PICK stale \in BOOLEAN : StartTLSPass(es, stale) /\ TLSTakes(es, stale)
    BY <2>0, Zenon
  <2>2. ~TLSIdle' /\ tlsPass' = es /\ tlsRetry' = {}
    BY <2>1, Zenon DEF StartTLSPass, TLSIdle
  <2>3. tlsMissed' \in BOOLEAN
    BY <1>2, <2>1, Zenon DEF StartTLSPass
  <2>4. /\ es \subseteq TLSKinds /\ tlsEvents' \subseteq TLSKinds
        /\ tlsTrigger' \/ tlsEvents' \subseteq {"TLSPolicy"}
    <3>1. CASE es = tlsEvents /\ tlsEvents' = {}
      BY <1>2, <3>1
    <3>2. CASE es = tlsRetry /\ UNCHANGED <<tlsEvents, tlsTrigger>>
      <4>1. tlsTrigger' \/ tlsEvents' \subseteq {"TLSPolicy"}
        BY <1>2, <3>2, Zenon
      <4> QED
        BY <1>2, <3>2, <4>1, Zenon
    <3> QED
      BY <2>1, <3>1, <3>2, Zenon DEF TLSTakes
  <2> DEFINE validated == es \cap TLSValidatorEvents # {}
  <2>5. ASSUME ~tlsLost', ~validated, TLSPending' PROVE tlsTrigger'
    <3>1. ~stale
      BY <1>2, <2>1, <2>5, Zenon DEF StartTLSPass
    <3>2. "TLSPolicy" \notin tlsEvents'
      BY <2>1, <3>1, Zenon DEF TLSTakes
    <3> QED
      BY <2>4, <2>5, <3>2, Zenon DEF TLSPending
  <2>6. ASSUME ~tlsLost', ~tlsMissed', validated \/ ~TLSPending'
        PROVE  VerdictsRight' /\ (TLSWriteTells' \/ (tlsPlan' = <<>> /\ CertsRight'))
    BY <2>1, <2>6, TLSBeginCerts, Zenon
  <2> HIDE DEF validated
  <2> QED
    BY <1>1, <2>2, <2>3, <2>4, <2>5, <2>6, Zenon DEF TLSCertInv
<1>5. CASE WriteCert
  <2>1. ~TLSIdle' /\ tlsPlan # <<>>
    BY <1>5, Zenon DEF WriteCert, TLSCertInv, TLSIdle
  <2>2. /\ UNCHANGED <<tlsPolicy, tlsListener, tlsIssuer, tlsPass, tlsStatuses, tlsRetry, tlsLost, tlsMissed>>
        /\ tlsEvents \subseteq tlsEvents' /\ tlsEvents' \subseteq TLSKinds
        /\ tlsTrigger' \/ UNCHANGED tlsEvents
        /\ (tlsTrigger => tlsTrigger') /\ (tlsFailed => tlsFailed')
        /\ TLSWriteTells => tlsTrigger' \/ tlsFailed'
    BY <1>5, TLSWriteCerts, Zenon
  <2>3. (TLSPending => TLSPending') /\ (VerdictsRight => VerdictsRight')
    BY <2>2, VerdictsKeep, Zenon DEF TLSPending
  <2> QED
    BY <1>1, <1>2, <2>1, <2>2, <2>3, Zenon DEF TLSCertInv
<1>6. CASE WriteTLSStatus
  <2> DEFINE w == Head(tlsStatuses)
  <2>1. /\ tlsStatuses # <<>> /\ tlsPlan = <<>>
        /\ UNCHANGED <<tlsListener, tlsIssuer, tlsCert, tlsTrigger, tlsPass, tlsPlan, tlsFailed, tlsRetry,
                       tlsMissed>>
    BY <1>6, Zenon DEF WriteTLSStatus
  <2>2. ~TLSIdle' /\ ~TLSWriteTells
    BY <2>1, Zenon DEF TLSCertInv, TLSStatusInv, TLSPassOK, TLSIdle, TLSWriteTells
  <2>3. tlsLost => tlsLost'
    BY <1>2, <1>6, Zenon DEF WriteTLSStatus
  <2>4. /\ tlsEvents \subseteq tlsEvents' /\ tlsEvents' \subseteq TLSKinds
        /\ tlsTrigger' \/ tlsEvents' \subseteq {"TLSPolicy"}
    <3>1. tlsEvents' \in {tlsEvents, tlsEvents \cup {"TLSPolicy"}}
      BY <1>6, Zenon DEF WriteTLSStatus, SetTLSStatus
    <3>2. tlsTrigger' \/ tlsEvents \subseteq {"TLSPolicy"}
      BY <1>2, <2>1, Zenon
    <3>3. tlsEvents \subseteq tlsEvents' /\ tlsEvents' \subseteq TLSKinds
      BY <1>2, <3>1 DEF TLSKinds
    <3> QED
      BY <3>1, <3>2, <3>3, Zenon
  <2>5. TLSPending => TLSPending'
    BY <2>4, Zenon DEF TLSPending
  <2>6. VerdictsRight => tlsLost' \/ TLSPending' \/ VerdictsRight'
    BY <1>6, TLSWriteVerdicts, Zenon
  <2>7. ASSUME CertsRight PROVE CertsRight'
    <3>1. CASE UNCHANGED tlsPolicy
      BY <2>1, <2>7, <3>1, CertsSame, Zenon
    <3>2. CASE TLSStatusAdmitted(w) /\ SetTLSStatus(w)
      <4>1. 1 \in DOMAIN tlsStatuses /\ w = tlsStatuses[1] /\ w \in TLSStatusType
        BY <1>2, <2>1, TailFacts, ZenonT(40) DEF TLSTypeOK
      <4>2. tlsPolicy[w.policy] # Unborn
        BY <4>1, Zenon DEF TLSCertInv, TLSStatusInv, TLSPassOK
      <4>3. tlsPolicy[w.policy] \in TLSPolicyType
        <5>1. w.policy \in TLSPolicySet
          BY <4>1, Zenon DEF TLSStatusType
        <5> QED
          BY <1>2, <3>2, <4>2, <5>1, Zenon DEF TLSTypeOK, TLSStatusAdmitted
      <4> HIDE DEF w
      <4>4. /\ \A p \in TLSPolicySet : TLSValid(p)' <=> TLSValid(p)
            /\ TLSAlike(tlsPolicy, tlsPolicy', TLSPolicySet)
        BY <1>2, <2>1, <3>2, <4>1, <4>3, TLSStatusKeeps, Zenon
      <4> QED
        BY <2>1, <2>7, <4>4, CertsKeep, Zenon
    <3> QED
      BY <1>6, <3>1, <3>2, Zenon DEF WriteTLSStatus
  <2> QED
    BY <1>1, <1>2, <2>1, <2>2, <2>3, <2>4, <2>5, <2>6, <2>7, Zenon DEF TLSCertInv
<1>7. CASE EndTLSPass
  <2>1. /\ tlsPlan' = <<>> /\ tlsPlan = <<>> /\ ~tlsFailed' /\ tlsPass' = {}
        /\ UNCHANGED <<tlsPolicy, tlsListener, tlsIssuer, tlsCert, tlsStatuses, tlsEvents, tlsTrigger,
                       tlsMissed>>
        /\ \/ ~tlsFailed /\ UNCHANGED <<tlsRetry, tlsLost>>
           \/ tlsRetry' = tlsPass /\ tlsPass # {} /\ UNCHANGED tlsLost
           \/ tlsLost' /\ UNCHANGED tlsRetry
    BY <1>7, Zenon DEF EndTLSPass, TLSPassOver, TLSIdle
  <2>2. ~TLSWriteTells /\ (TLSPending => TLSPending') /\ (VerdictsRight => VerdictsRight')
    BY <2>1, VerdictsKeep, Zenon DEF TLSWriteTells, TLSPending
  <2>3. CertsRight => CertsRight'
    BY <2>1, CertsSame, Zenon
  <2>4. tlsTrigger' \/ tlsEvents' \subseteq {"TLSPolicy"}
    BY <1>2, <2>1, Zenon
  <2>5. tlsRetry' \subseteq TLSKinds /\ tlsEvents' \subseteq TLSKinds /\ tlsPass' \subseteq TLSKinds
    BY <1>2, <2>1
  <2>6. tlsLost' \/ tlsMissed' \/ TLSPending' \/ VerdictsRight'
    <3>1. tlsMissed => tlsMissed'
      BY <1>2, <2>1, Zenon
    <3>2. tlsLost => tlsLost'
      <4>1. UNCHANGED tlsLost \/ tlsLost'
        BY <2>1, Zenon
      <4> QED
        BY <1>2, <4>1, Zenon
    <3> QED
      BY <2>2, <3>1, <3>2, Zenon DEF TLSCertInv
  <2>7. \/ tlsLost' \/ tlsMissed' \/ tlsTrigger' \/ tlsRetry' # {}
        \/ tlsPlan' = <<>> /\ CertsRight'
    <3>1. CASE ~tlsFailed /\ UNCHANGED <<tlsRetry, tlsLost>>
      <4>1. tlsLost \/ tlsMissed \/ tlsTrigger \/ tlsRetry # {} \/ CertsRight
        BY <2>2, <3>1, Zenon DEF TLSCertInv
      <4> QED
        BY <1>2, <2>1, <2>3, <3>1, <4>1, Zenon
    <3>2. CASE tlsRetry' = tlsPass /\ tlsPass # {}
      BY <3>2, Zenon
    <3> QED
      BY <2>1, <3>1, <3>2, Zenon
  <2> QED
    BY <1>1, <1>2, <2>1, <2>4, <2>5, <2>6, <2>7, Zenon DEF TLSCertInv
<1>8. CASE RestartTLS
  <2>1. TLSPending' /\ tlsTrigger' /\ tlsPlan' = <<>> /\ ~tlsFailed' /\ tlsPass' = {} /\ tlsEvents' \subseteq TLSKinds
        /\ tlsRetry' = {} /\ UNCHANGED tlsMissed
    BY <1>8, Zenon DEF RestartTLS, TLSPending, TLSKinds
  <2> QED
    BY <1>1, <1>2, <2>1, Zenon DEF TLSCertInv
<1>9. CASE UNCHANGED tlsVars
  <2>1. UNCHANGED <<tlsPolicy, tlsListener, tlsIssuer, tlsCert, tlsEvents, tlsTrigger, tlsPass, tlsPlan,
                    tlsStatuses, tlsFailed, tlsRetry, tlsLost, tlsMissed>>
    BY <1>9, Zenon DEF tlsVars
  <2>2. (TLSPending => TLSPending') /\ (VerdictsRight => VerdictsRight')
    BY <2>1, VerdictsKeep, Zenon DEF TLSPending
  <2>3. (TLSWriteTells => TLSWriteTells') /\ (CertsRight => CertsRight')
    BY <2>1, CertsSame, Zenon DEF TLSWriteTells
  <2> QED
    BY <1>1, <1>2, <2>1, <2>2, <2>3, Zenon DEF TLSCertInv, TLSIdle
<1>10. ASSUME NEW p, NEW v, TLSPolicyChanged(p, v)
       PROVE  TLSCertInv'
  <2>1. \E kind \in {"TLSPolicy", "TLSPolicyDeleted"} : tlsEvents' = tlsEvents \cup {kind}
    BY <1>10, Zenon DEF TLSPolicyChanged, TLSChanged
  <2> QED
    BY <1>2, <1>3, <1>10, <2>1, Zenon DEF TLSPolicyChanged, TLSChanged, TLSPending, TLSKinds
<1>11. ASSUME NEW p \in TLSPolicySet,
              \/ UserCreatesTLSPolicy(p) \/ UserEditsTLSPolicy(p)
              \/ UserDeletesTLSPolicy(p) \/ TLSPolicyFinalized(p)
       PROVE  TLSCertInv'
  <2>1. \E v : TLSPolicyChanged(p, v)
    BY <1>11, Zenon DEF UserCreatesTLSPolicy, UserEditsTLSPolicy, UserDeletesTLSPolicy, TLSPolicyFinalized
  <2> QED
    BY <1>10, <2>1, Zenon
<1>12. ASSUME NEW l \in TLSListenerSet, CollectCert(l) \/ CertReported(l)
       PROVE  TLSCertInv'
  <2>1. /\ TLSPassFrame /\ UNCHANGED <<tlsPolicy, tlsListener, tlsIssuer>>
        /\ tlsTrigger' = TRUE /\ tlsEvents' = tlsEvents \cup {"Certificate"}
    BY <1>12, Zenon DEF CollectCert, CertReported, CertChanged, TLSChanged
  <2> QED
    BY <1>2, <1>3, <2>1, Zenon DEF TLSKinds
<1>13. CASE (\E l \in TLSListenerSet : ListenerChanges(l)) \/ (\E i \in IssuerSet : IssuerChanges(i))
  <2>1. /\ TLSPassFrame /\ tlsTrigger' = TRUE
        /\ \E kind \in {"Gateway", "Issuer"} : tlsEvents' = tlsEvents \cup {kind}
    BY <1>13, Zenon DEF ListenerChanges, IssuerChanges
  <2> QED
    BY <1>2, <1>3, <2>1, Zenon DEF TLSPending, TLSKinds
<1>14. CASE OtherTLSPass
  <2>1. /\ tlsLost' /\ tlsRetry' = {}
        /\ UNCHANGED <<tlsEvents, tlsTrigger, tlsPass, tlsPlan, tlsFailed, tlsMissed>>
    BY <1>14, Zenon DEF OtherTLSPass
  <2> QED
    BY <1>1, <1>2, <2>1, Zenon DEF TLSCertInv, TLSIdle
<1>15. CASE AbortTLSPass
  <2>1. /\ tlsLost' /\ tlsPass' = {} /\ tlsPlan' = <<>> /\ ~tlsFailed'
        /\ UNCHANGED <<tlsEvents, tlsTrigger, tlsRetry, tlsMissed>>
    BY <1>15, Zenon DEF AbortTLSPass, TLSPassOver
  <2> QED
    BY <1>1, <1>2, <2>1, Zenon DEF TLSCertInv
<1> QED
  BY <1>4, <1>5, <1>6, <1>7, <1>8, <1>9, <1>11, <1>12, <1>13, <1>14, <1>15, Zenon
  DEF TLSNext, TLSOperate, TLSCollect

LEMMA TLSCertsInitially == TLSInit => TLSCertInv
<1>1. TLSInit => /\ tlsTrigger /\ tlsPlan = <<>> /\ ~tlsFailed /\ TLSPending
                 /\ tlsMissed = FALSE /\ tlsEvents \subseteq TLSKinds /\ tlsPass = {} /\ tlsRetry = {}
  BY Zenon DEF TLSInit, TLSPending, TLSKinds
<1> QED
  BY <1>1, TLSInitially, Zenon DEF TLSCertInv

\* The invariant says what is wanted.
LEMMA TLSCertsSuffice == TLSCertInv => TLSCertificatesMatch
  BY DEF TLSCertInv, TLSCertificatesMatch, TLSAtRest, TLSWaits, TLSWriteTells, CertsRight

-----------------------------------------------------------------------------
\* The status updater of TLS policies (enforcedCondition): at rest no policy is reported
\* enforced unless its issuer is ready and every listener it reaches has a certificate that
\* is ready, although the updater does not run on every event, unless a failure was lost.
THEOREM TLSStatusesBacked == TLSSpec => []TLSEnforcedBacked
<1>1. TLSSpec => []TLSStatusInv
  BY TLSInitially, TLSStep, PTL DEF TLSSpec
<1> QED
  BY <1>1, TLSInvSuffices, PTL

\* The effective policies reconciler of TLS policies (Reconcile, reconcileCertificates): at
\* rest the certificates are exactly those that the policies valid now ask for, whatever the
\* order of its loops, although a pass cancels the retry of the one before, and although a pass
\* without the validator goes by the statuses, which the status updater may have overwritten
\* without a verdict, unless a failure was lost (tlsLost) or a change missed (tlsMissed).
THEOREM CertificatesKept == TLSSpec => []TLSCertificatesMatch
<1>1. TLSSpec => []TLSCertInv
  BY TLSCertsInitially, TLSCertsStep, PTL DEF TLSSpec
<1> QED
  BY <1>1, TLSCertsSuffice, PTL

-----------------------------------------------------------------------------
\* The status updaters of both workflows together: the statuses of policies are current at
\* rest.
THEOREM StatusesCurrent == PoliciesSpec => []PolicyStatusCurrent
<1>1. PoliciesInit => DNSStatusInv /\ TLSStatusInv
  BY DNSInitially, TLSInitially, Zenon DEF PoliciesInit
<1>2. [PoliciesNext]_policiesVars => [DNSNext]_dnsVars /\ [TLSNext]_tlsVars
  BY DEF PoliciesNext, policiesVars
<1>3. DNSStatusInv /\ TLSStatusInv => PolicyStatusCurrent
  BY DNSInvSuffices, TLSInvSuffices, Zenon DEF PolicyStatusCurrent
<1> QED
  BY <1>1, <1>2, <1>3, DNSStep, TLSStep, PTL DEF PoliciesSpec

=============================================================================
