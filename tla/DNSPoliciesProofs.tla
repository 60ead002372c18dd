-------------------------- MODULE DNSPoliciesProofs --------------------------
(***************************************************************************)
(* The statuses of DNS policies are current and their records right        *)
(* whenever the operator is at rest, for any number of policies and        *)
(* listeners and without a bound on the changes.  A pass writes what it    *)
(* found when it began, possibly without a verdict of its own; the         *)
(* inductive invariant says of every policy that its status, or the status *)
(* that the running pass will still write, is right now, or that a pass    *)
(* that will put it right is on its way.  What a pass does to the records  *)
(* is a recursive function over the turns of its loops, and facts about it *)
(* are proved by induction over the turns (Induct).                        *)
(***************************************************************************)
EXTENDS DNSPolicies, LoopProofs

\* Conflicts and attachments depend on the specifications, the creation times and the
\* deletion marks of policies alone.
DNSAlike(f, g, S) ==
    /\ Present(f) \subseteq S /\ Present(g) = Present(f)
    /\ \A p \in S : g[p].spec = f[p].spec /\ g[p].born = f[p].born /\ g[p].deleting = f[p].deleting

LEMMA DNSSameLife ==
    ASSUME NEW f, NEW g, NEW S, DNSAlike(f, g, S)
    PROVE  /\ \A p \in S : isConflict(g, p) <=> isConflict(f, p)
           /\ \A l : AttachedTo(g, l) = AttachedTo(f, l)
  BY DEF DNSAlike, isConflict, AttachedTo

-----------------------------------------------------------------------------
DNSStatusType == [policy : DNSPolicySet, accepted : DNSReasons, enforced : DNSEnforcement]

DNSTypeOK ==
    /\ dnsPolicy \in [DNSPolicySet -> {Unborn, Gone} \cup DNSPolicyType]
    /\ dnsStatuses \in Seq(DNSStatusType)
    /\ dnsTrigger \in BOOLEAN /\ dnsFailed \in BOOLEAN /\ dnsLost \in BOOLEAN

\* What a pass has to know: an event comes with its trigger, no status is left to a pass
\* that is over, and a policy that has changed since the pass began has its event.
DNSPassOK ==
    /\ dnsTrigger => dnsEvents # {}
    /\ DNSIdle => dnsStatuses = <<>>
    /\ \A i \in DOMAIN dnsStatuses : dnsPolicy[dnsStatuses[i].policy] # Unborn
    /\ \A p \in DNSPolicySet :
         <<"DNSPolicy", p>> \in dnsDirty => dnsTrigger /\ "DNSPolicy" \in dnsEvents

DNSValid(p) == validateDNS(DNSTopology, p) = "Accepted"

DNSLive(p) == p \in Present(dnsPolicy) /\ ~dnsPolicy[p].deleting

DNSPlanned(p) == \E i \in DOMAIN dnsStatuses : dnsStatuses[i].policy = p

\* The next pass will validate.
DNSValidates == dnsTrigger /\ dnsEvents \cap ValidatorEvents # {}

AcceptedRight(p, accepted) == accepted # "none" /\ (accepted = "Accepted" <=> DNSValid(p))

EnforcedRight(p, enforced) ==
    enforced = IF DNSValid(p) THEN <<enforcedCondition(DNSTopology, p), policyError(DNSTopology, p)>>
                              ELSE NotEnforced

AllAcceptedRight ==
    /\ \A i \in DOMAIN dnsStatuses : AcceptedRight(dnsStatuses[i].policy, dnsStatuses[i].accepted)
    /\ \A p \in DNSPolicySet : DNSLive(p) => DNSPlanned(p) \/ AcceptedRight(p, dnsPolicy[p].accepted)

AllEnforcedRight ==
    /\ \A i \in DOMAIN dnsStatuses : EnforcedRight(dnsStatuses[i].policy, dnsStatuses[i].enforced)
    /\ \A p \in DNSPolicySet : DNSLive(p) => DNSPlanned(p) \/ EnforcedRight(p, dnsPolicy[p].enforced)

\* A pass that does not validate puts the Enforced condition right, but only from a right
\* Accepted condition.
DNSStatusInv ==
    /\ DNSTypeOK
    /\ DNSPassOK
    /\ dnsLost \/ DNSValidates \/ AllAcceptedRight
    /\ dnsLost \/ dnsTrigger \/ AllEnforcedRight

\* The records are what the valid policies ask for, once those being deleted are gone.
DNSRecordsRight ==
    LET t == DNSTopology IN
    (\A l \in ListenerSet : dnsRecord[l] # NoRecord => ~dnsRecord[l].deleting) =>
      /\ \A p \in DNSPolicySet, l \in ListenerSet :
           /\ DNSLive(p) /\ DNSValid(p)
           /\ l \in listenersForPolicy(t, p)
           /\ dnsListener[l].host # NoHost /\ dnsListener[l].routes /\ HasEndpoints(t, p)
           => dnsRecord[l] # NoRecord /\ dnsRecord[l].spec = desiredDNSRecord(t, p, l)
      /\ \A l \in ListenerSet : ~isOrphan(t, l)

\* The next write of the pass changes a record, and so asks for another pass, or fails.
DNSWriteTells ==
    dnsPlan # <<>> /\ (Head(dnsPlan).op = "delete" => dnsRecord[Head(dnsPlan).record] # NoRecord)

\* Unless a pass is asked for the records are right when the pass has nothing to write.
DNSRecordInv ==
    /\ DNSStatusInv
    /\ DNSIdle => dnsPlan = <<>> /\ ~dnsFailed
    /\ \/ dnsLost \/ dnsTrigger \/ dnsRetry # {} \/ dnsFailed \/ DNSWriteTells
       \/ dnsPlan = <<>> /\ DNSRecordsRight

-----------------------------------------------------------------------------
\* The statuses that a pass plans are those of the policies that are there and not being
\* deleted, of each of them one.
LEMMA DNSStatusesPlanned ==
    ASSUME DNSTypeOK, NEW validated \in BOOLEAN
    PROVE  LET us == updateStatuses(DNSTopology, validated) IN
           /\ us \in Seq(DNSStatusType)
           /\ \A i \in DOMAIN us : /\ DNSLive(us[i].policy)
                                   /\ us[i] = updateStatus(DNSTopology, validated, us[i].policy)
           /\ \A p \in DNSPolicySet : DNSLive(p) => \E i \in DOMAIN us : us[i].policy = p
<1> DEFINE t == DNSTopology
           S == {p \in Present(t.policy) : ~t.policy[p].deleting}
           ps == InOrder(S)
           us == updateStatuses(DNSTopology, validated)
<1>1. t.policy = dnsPolicy /\ DOMAIN dnsPolicy = DNSPolicySet
  BY DEF DNSTopology, DNSTypeOK
<1>2. S \subseteq DNSPolicySet /\ \A p : p \in S <=> DNSLive(p)
  BY <1>1 DEF Present, DNSLive
<1>3. IsFiniteSet(S)
  BY <1>2, DNSAssumption, FS_Subset
<1>4. /\ ps \in Seq(S) /\ DOMAIN ps = 1..Len(ps)
      /\ \A i \in DOMAIN ps : ps[i] \in S
      /\ \A x \in S : \E i \in DOMAIN ps : ps[i] = x
  BY <1>3, AllInOrder, Zenon
<1>5. us = [i \in DOMAIN ps |-> updateStatus(t, validated, ps[i])]
  BY DEF updateStatuses
<1>6. ASSUME NEW p \in S
      PROVE  /\ updateStatus(t, validated, p) \in DNSStatusType
             /\ updateStatus(t, validated, p).policy = p
  <2>1. dnsPolicy[p] \in DNSPolicyType /\ dnsPolicy[p].accepted \in DNSReasons
    BY <1>1, <1>2 DEF Present, DNSTypeOK, DNSPolicyType
  <2>2. dnsPolicyAccepted(t, validated, p) \in DNSReasons
    BY <1>1, <2>1 DEF dnsPolicyAccepted, validateDNS, DNSReasons
  <2>3. /\ enforcedCondition(t, p) \in {"none", "no", "some", "all"}
        /\ policyError(t, p) \in {"", "NoAddresses", "NoRoutes"}
    BY DEF enforcedCondition, policyError
  <2> QED
    BY <1>2, <2>2, <2>3, Zenon DEF updateStatus, DNSStatusType, DNSEnforcement, NotEnforced, DNSReasons
<1>7. us \in Seq(DNSStatusType)
  BY <1>4, <1>5, <1>6
<1>8. \A i \in DOMAIN us : us[i].policy = ps[i] /\ us[i] = updateStatus(t, validated, ps[i])
  BY <1>4, <1>5, <1>6
<1>9. DOMAIN us = DOMAIN ps
  BY <1>5
<1> HIDE DEF us, ps, S
<1>10. \A i \in DOMAIN us : /\ DNSLive(us[i].policy)
                            /\ us[i] = updateStatus(DNSTopology, validated, us[i].policy)
  BY <1>2, <1>4, <1>8, <1>9
<1>11. \A p \in DNSPolicySet : DNSLive(p) => \E i \in DOMAIN us : us[i].policy = p
  BY <1>2, <1>4, <1>8, <1>9
<1> QED
  BY <1>7, <1>10, <1>11 DEF us

\* A step that changes neither policies nor listeners nor what is left to write keeps the
\* invariant: the verdicts stay, and if records or addresses change a pass is asked for.
LEMMA QuietDNSStep ==
    ASSUME DNSStatusInv, DNSTypeOK', DNSPassOK',
           UNCHANGED <<dnsPolicy, dnsListener, dnsStatuses>>,
           dnsLost => dnsLost', DNSValidates => DNSValidates',
           dnsTrigger' \/ UNCHANGED <<dnsAddresses, dnsRecord, dnsTrigger>>
    PROVE  DNSStatusInv'
<1>1. \A p : DNSLive(p)' = DNSLive(p) /\ DNSPlanned(p)' = DNSPlanned(p)
  BY DEF DNSLive, DNSPlanned
<1>2. \A p : DNSValid(p)' = DNSValid(p)
  BY DEF DNSValid, validateDNS, DNSTopology
<1>3. \A p, a : AcceptedRight(p, a)' = AcceptedRight(p, a)
  BY <1>2 DEF AcceptedRight
<1>4. AllAcceptedRight => AllAcceptedRight'
  BY <1>1, <1>3 DEF AllAcceptedRight
<1>5. ASSUME UNCHANGED <<dnsAddresses, dnsRecord>>, AllEnforcedRight
      PROVE  AllEnforcedRight'
  <2>1. DNSTopology' = DNSTopology
    BY <1>5 DEF DNSTopology
  <2>2. \A p, e : EnforcedRight(p, e)' = EnforcedRight(p, e)
    BY <1>2, <2>1 DEF EnforcedRight
  <2> QED
    BY <1>1, <1>5, <2>2 DEF AllEnforcedRight
<1> QED
  BY <1>4, <1>5 DEF DNSStatusInv

LEMMA DNSInitially == DNSInit => DNSStatusInv
<1> SUFFICES ASSUME DNSInit PROVE DNSStatusInv
  OBVIOUS
<1>1. \A s \in DNSInitial : NewDNSPolicy(s, 0) \in DNSPolicyType
  BY DNSAssumption, Zenon DEF NewDNSPolicy, DNSPolicyType, DNSReasons, DNSEnforcement, NotEnforced
<1>2. dnsPolicy \in [DNSPolicySet -> {Unborn, Gone} \cup DNSPolicyType]
  BY <1>1 DEF DNSInit
<1>3. DNSTypeOK
  <2>1. dnsStatuses = <<>> /\ dnsTrigger = TRUE /\ dnsFailed = FALSE /\ dnsLost = FALSE
    BY DEF DNSInit
  <2>2. dnsStatuses \in Seq(DNSStatusType)
    BY <2>1
  <2> QED
    BY <1>2, <2>1, <2>2, Zenon DEF DNSTypeOK
<1>4. DNSPassOK
  BY DEF DNSInit, DNSPassOK, DNSKinds
<1>5. DNSValidates
  BY DEF DNSInit, DNSValidates, DNSKinds, ValidatorEvents
<1> QED
  BY <1>3, <1>4, <1>5 DEF DNSStatusInv, DNSValidates

\* A policy changes: the next pass validates.
LEMMA DNSPolicyStep ==
    ASSUME DNSStatusInv, NEW p \in DNSPolicySet, NEW v \in {Gone} \cup DNSPolicyType,
           PolicyChanged(p, v)
    PROVE  DNSStatusInv'
<1>1. DNSTypeOK'
  BY DEF DNSStatusInv, DNSTypeOK, PolicyChanged, DNSChanged, PassFrame
<1>2. v # Unborn
  BY DNSAssumption, LifeAssumption
<1>3. DNSPassOK'
  BY <1>2 DEF DNSStatusInv, DNSTypeOK, DNSPassOK, PolicyChanged, DNSChanged, PassFrame, DNSIdle
<1>4. dnsTrigger' /\ DNSValidates'
  BY DEF PolicyChanged, DNSChanged, DNSValidates, ValidatorEvents
<1> QED
  BY <1>1, <1>3, <1>4 DEF DNSStatusInv

\* So do the listeners or the addresses of the gateway.
LEMMA DNSGatewayStep ==
    ASSUME DNSStatusInv, GatewayChanges
    PROVE  DNSStatusInv'
<1>1. DNSTypeOK'
  BY DEF DNSStatusInv, DNSTypeOK, GatewayChanges, PassFrame
<1>2. DNSPassOK'
  BY DEF DNSStatusInv, DNSPassOK, GatewayChanges, PassFrame, DNSIdle
<1>3. dnsTrigger' /\ DNSValidates'
  BY DEF GatewayChanges, DNSValidates, ValidatorEvents
<1> QED
  BY <1>1, <1>2, <1>3 DEF DNSStatusInv

\* A record changes, by a write of the pass or by the DNS operator or the garbage collector.
LEMMA DNSRecordStep ==
    ASSUME DNSStatusInv, NEW l, NEW r, RecordChanged(l, r),
           UNCHANGED <<dnsListener, dnsPass, dnsStatuses, dnsLost>>, dnsFailed' \in BOOLEAN
    PROVE  DNSStatusInv'
<1>1. DNSTypeOK'
  BY DEF DNSStatusInv, DNSTypeOK, RecordChanged, DNSChanged
<1>2. DNSPassOK'
  BY DEF DNSStatusInv, DNSPassOK, RecordChanged, DNSChanged, DNSIdle
<1>3. dnsTrigger' /\ (DNSValidates => DNSValidates')
  BY DEF RecordChanged, DNSChanged, DNSValidates
<1> QED
  BY <1>1, <1>2, <1>3, QuietDNSStep DEF RecordChanged

\* A write of the effective policies reconciler.
LEMMA DNSWriteRecordStep ==
    ASSUME DNSStatusInv, WriteRecord
    PROVE  DNSStatusInv'
<1> DEFINE w == Head(dnsPlan)
<1>1. UNCHANGED <<dnsListener, dnsAddresses, dnsPass, dnsStatuses, dnsLost>>
  BY DEF WriteRecord
<1>2. dnsFailed' \in BOOLEAN
  BY Zenon DEF WriteRecord, DNSStatusInv, DNSTypeOK
<1>3. CASE UNCHANGED <<dnsPolicy, dnsRecord, dnsEvents, dnsTrigger, dnsDirty>>
  <2>1. DNSTypeOK'
    BY <1>1, <1>2, <1>3 DEF DNSStatusInv, DNSTypeOK
  <2>2. DNSPassOK'
    BY <1>1, <1>3 DEF DNSStatusInv, DNSPassOK, DNSIdle
  <2>3. DNSValidates => DNSValidates'
    BY <1>3 DEF DNSValidates
  <2> QED
    BY <1>1, <1>3, <2>1, <2>2, <2>3, QuietDNSStep, Zenon
<1>4. CASE \E l, r : RecordChanged(l, r)
  BY <1>1, <1>2, <1>4, DNSRecordStep
<1>5. \/ UNCHANGED <<dnsPolicy, dnsRecord, dnsEvents, dnsTrigger, dnsDirty>>
      \/ \E l, r : RecordChanged(l, r)
  <2>1. CASE PerformDNS(w)
    <3>1. CASE w.op = "create" /\ RecordChanged(w.record, [spec |-> w.spec, owner |-> w.owner,
                                       deleting |-> FALSE, failing |-> FALSE])
      BY <3>1
    <3>2. CASE RecordChanged(w.record, [dnsRecord[w.record] EXCEPT !.spec = w.spec])
      BY <3>2
    <3>3. CASE RecordChanged(w.record, [dnsRecord[w.record] EXCEPT !.deleting = TRUE])
      BY <3>3
    <3> QED
      BY <2>1, <3>1, <3>2, <3>3 DEF PerformDNS
  <2>2. CASE UNCHANGED <<dnsPolicy, dnsRecord, dnsEvents, dnsTrigger, dnsDirty>>
    BY <2>2
  <2> QED
    BY <2>1, <2>2 DEF WriteRecord
<1> QED
  BY <1>3, <1>4, <1>5

\* The events of a pass are those that were pending, or those of the retry.
DNSTakes(es) ==
    \/ es = dnsEvents /\ dnsEvents' = {} /\ dnsTrigger' = FALSE
    \/ UNCHANGED <<dnsEvents, dnsTrigger>>

LEMMA DNSStarts ==
    ASSUME BeginDNSPass \/ RetryDNSPass
    PROVE  \E es : StartDNSPass(es) /\ DNSTakes(es)
  BY Zenon DEF BeginDNSPass, RetryDNSPass, DNSTakes

\* A pass begins.  With the validator in it all statuses that it plans are right; without,
\* the Accepted conditions were right already, and it goes by them, or the next pass validates.
LEMMA DNSBeginStep ==
    ASSUME DNSStatusInv, NEW es, StartDNSPass(es), DNSTakes(es)
    PROVE  DNSStatusInv'
<1> DEFINE t == DNSTopology
           validated == es \cap ValidatorEvents # {}
<1>1. /\ DNSIdle /\ es # {}
      /\ dnsPass' = es
      /\ dnsDirty' = {} /\ dnsFailed' = FALSE
      /\ UNCHANGED <<dnsPolicy, dnsListener, dnsAddresses, dnsRecord>>
  BY DEF StartDNSPass
<1>2. /\ dnsStatuses' = updateStatuses(t, validated)
      /\ dnsLost' = (dnsLost /\ ~validated)
  BY Zenon DEF StartDNSPass
<1>t. /\ dnsTrigger' \in BOOLEAN
      /\ dnsTrigger' => dnsEvents' # {}
      /\ DNSValidates' => dnsTrigger'
      /\ ~validated /\ DNSValidates => DNSValidates'
  <2>1. (dnsTrigger => dnsEvents # {}) /\ dnsTrigger \in BOOLEAN
    BY Zenon DEF DNSStatusInv, DNSTypeOK, DNSPassOK
  <2>2. CASE UNCHANGED <<dnsEvents, dnsTrigger>>
    BY <2>1, <2>2, Zenon DEF DNSValidates
  <2>3. CASE es = dnsEvents /\ dnsEvents' = {} /\ dnsTrigger' = FALSE
    BY <2>3, Zenon DEF DNSValidates
  <2> QED
    BY <2>2, <2>3, Zenon DEF DNSTakes
<1> DEFINE us == updateStatuses(t, validated)
<1>3. /\ us \in Seq(DNSStatusType)
      /\ \A i \in DOMAIN us : DNSLive(us[i].policy) /\ us[i] = updateStatus(t, validated, us[i].policy)
      /\ \A p \in DNSPolicySet : DNSLive(p) => \E i \in DOMAIN us : us[i].policy = p
  BY DNSStatusesPlanned, ZenonT(40) DEF DNSStatusInv
<1>4. \A p : DNSLive(p)' = DNSLive(p) /\ DNSValid(p)' = DNSValid(p)
  BY <1>1 DEF DNSLive, DNSValid, DNSTopology
<1>5. DNSTopology' = DNSTopology
  BY <1>1 DEF DNSTopology
<1>6. DNSTypeOK'
  BY <1>1, <1>2, <1>3, <1>t, Zenon DEF DNSStatusInv, DNSTypeOK
<1>7. DNSPassOK'
  <2>2. \A i \in DOMAIN us : dnsPolicy[us[i].policy] # Unborn
    BY <1>3 DEF DNSLive, Present
  <2> QED
    BY <1>1, <1>2, <1>t, <2>2 DEF DNSPassOK, DNSIdle
<1> HIDE DEF us, validated
<1>8. \A p \in DNSPolicySet : DNSLive(p)' => DNSPlanned(p)'
  BY <1>2, <1>3, <1>4, Zenon DEF DNSPlanned, us
<1>9. ASSUME ~dnsLost', ~DNSValidates'
      PROVE  AllAcceptedRight' /\ AllEnforcedRight'
  <2>1. dnsLost => validated
    BY <1>2, <1>9, Zenon DEF DNSStatusInv, DNSTypeOK
  <2>2. ASSUME NEW p, DNSLive(p)
        PROVE  LET u == updateStatus(t, validated, p) IN
               AcceptedRight(p, u.accepted) /\ EnforcedRight(p, u.enforced)
    <3> DEFINE verdict == dnsPolicyAccepted(t, validated, p)
               u == updateStatus(t, validated, p)
    <3>1. p \in DNSPolicySet /\ t.policy = dnsPolicy
      BY <2>2 DEF DNSLive, Present, DNSStatusInv, DNSTypeOK, DNSTopology
    <3>2. verdict # "none" /\ (verdict = "Accepted" <=> DNSValid(p))
      <4>1. CASE validated
        BY <4>1 DEF dnsPolicyAccepted, DNSValid, validateDNS
      <4>2. CASE ~validated
        <5>1. ~dnsLost /\ ~DNSValidates
          BY <1>9, <1>t, <2>1, <4>2, Zenon
        <5>2. ~DNSPlanned(p)
          BY <1>1 DEF DNSPlanned, DNSStatusInv, DNSPassOK
        <5>3. AcceptedRight(p, dnsPolicy[p].accepted)
          BY <2>2, <3>1, <5>1, <5>2, Zenon DEF DNSStatusInv, AllAcceptedRight
        <5> QED
          BY <3>1, <4>2, <5>3 DEF dnsPolicyAccepted, AcceptedRight
      <4> QED
        BY <4>1, <4>2
    <3>3. u = [policy |-> p,
               accepted |-> IF verdict = "none" THEN "Accepted" ELSE verdict,
               enforced |-> IF verdict # "Accepted" THEN NotEnforced
                            ELSE <<enforcedCondition(t, p), policyError(t, p)>>]
      BY DEF updateStatus
    <3> HIDE DEF verdict
    <3> QED
      BY <3>2, <3>3 DEF AcceptedRight, EnforcedRight
  <2>3. \A i \in DOMAIN us : /\ AcceptedRight(us[i].policy, us[i].accepted)
                             /\ EnforcedRight(us[i].policy, us[i].enforced)
    BY <1>3, <2>2, Zenon DEF us
  <2>4. \A p, x : /\ AcceptedRight(p, x)' = AcceptedRight(p, x)
                  /\ EnforcedRight(p, x)' = EnforcedRight(p, x)
    BY <1>4, <1>5 DEF AcceptedRight, EnforcedRight
  <2> QED
    BY <1>2, <1>8, <2>3, <2>4 DEF AllAcceptedRight, AllEnforcedRight, us
<1> QED
  BY <1>6, <1>7, <1>9, <1>t, Zenon DEF DNSStatusInv

\* The pass is over, or a pass that is not of the workflow has cancelled the retry.
LEMMA DNSEndStep ==
    ASSUME DNSStatusInv, EndDNSPass \/ OtherDNSPass
    PROVE  DNSStatusInv'
<1>1. /\ UNCHANGED <<dnsPolicy, dnsListener, dnsAddresses, dnsRecord, dnsStatuses, dnsEvents, dnsTrigger>>
      /\ dnsFailed' \in {FALSE, dnsFailed}
      /\ dnsLost' \in {TRUE, dnsLost}
      /\ dnsDirty' \in {{}, dnsDirty}
      /\ DNSIdle' => dnsStatuses = <<>>
  BY Zenon DEF EndDNSPass, OtherDNSPass, DNSPassOver, DNSStatusInv, DNSPassOK
<1>2. DNSTypeOK'
  BY <1>1, Zenon DEF DNSStatusInv, DNSTypeOK
<1>3. DNSPassOK'
  BY <1>1 DEF DNSStatusInv, DNSPassOK
<1>4. (DNSValidates => DNSValidates') /\ (dnsLost => dnsLost')
  <2>1. dnsLost => dnsLost'
    BY <1>1, Zenon
  <2>2. DNSValidates => DNSValidates'
    BY <1>1, Zenon DEF DNSValidates
  <2> QED
    BY <2>1, <2>2
<1> QED
  BY <1>1, <1>2, <1>3, <1>4, QuietDNSStep, Zenon

\* The pass is cut off, and is known to be lost.
LEMMA DNSAbortStep ==
    ASSUME DNSStatusInv, AbortDNSPass
    PROVE  DNSStatusInv'
<1>1. /\ dnsStatuses' = <<>> /\ dnsFailed' = FALSE /\ dnsLost' = TRUE /\ dnsDirty' = {}
      /\ UNCHANGED <<dnsPolicy, dnsEvents, dnsTrigger>>
  BY Zenon DEF AbortDNSPass, DNSPassOver
<1>2. dnsStatuses' \in Seq(DNSStatusType)
  BY <1>1
<1>3. DNSTypeOK'
  BY <1>1, <1>2, Zenon DEF DNSStatusInv, DNSTypeOK
<1>4. DNSPassOK'
  BY <1>1 DEF DNSStatusInv, DNSPassOK
<1> QED
  BY <1>1, <1>3, <1>4, Zenon DEF DNSStatusInv

\* After a restart the first pass validates.
LEMMA DNSRestartStep ==
    ASSUME DNSStatusInv, RestartDNS
    PROVE  DNSStatusInv'
<1>1. DNSTypeOK'
  <2>1. dnsStatuses' = <<>> /\ dnsTrigger' = TRUE /\ dnsFailed' = FALSE /\ UNCHANGED <<dnsPolicy, dnsLost>>
    BY DEF RestartDNS
  <2>2. dnsStatuses' \in Seq(DNSStatusType)
    BY <2>1
  <2> QED
    BY <2>1, <2>2, Zenon DEF DNSStatusInv, DNSTypeOK
<1>2. DNSPassOK'
  BY DEF RestartDNS, DNSPassOK, DNSKinds
<1>3. dnsTrigger' /\ DNSValidates'
  BY DEF RestartDNS, DNSValidates, DNSKinds, ValidatorEvents
<1> QED
  BY <1>1, <1>2, <1>3 DEF DNSStatusInv

\* A status is written: neither the verdicts nor what is to be reported depends on it.
LEMMA DNSStatusKeeps ==
    ASSUME DNSTypeOK, NEW w \in DNSStatusType, dnsPolicy[w.policy] \in DNSPolicyType, SetDNSStatus(w),
           UNCHANGED <<dnsListener, dnsAddresses, dnsRecord>>
    PROVE  /\ dnsPolicy' \in [DNSPolicySet -> {Unborn, Gone} \cup DNSPolicyType]
           /\ dnsPolicy'[w.policy] \in DNSPolicyType
           /\ dnsPolicy'[w.policy].accepted = w.accepted /\ dnsPolicy'[w.policy].enforced = w.enforced
           /\ \A p \in DNSPolicySet \ {w.policy} : dnsPolicy'[p] = dnsPolicy[p]
           /\ \A p \in DNSPolicySet : DNSLive(p)' = DNSLive(p)
           /\ \A p \in DNSPolicySet :
                /\ DNSValid(p)' = DNSValid(p)
                /\ enforcedCondition(DNSTopology, p)' = enforcedCondition(DNSTopology, p)
                /\ policyError(DNSTopology, p)' = policyError(DNSTopology, p)
                /\ listenersForPolicy(DNSTopology, p)' = listenersForPolicy(DNSTopology, p)
                /\ HasEndpoints(DNSTopology, p)' <=> HasEndpoints(DNSTopology, p)
           /\ DNSAlike(dnsPolicy, dnsPolicy', DNSPolicySet)
<1> DEFINE t == DNSTopology
<1>q. PICK q \in DNSPolicySet, a \in DNSReasons, e \in DNSEnforcement :
         q = w.policy /\ a = w.accepted /\ e = w.enforced
  BY DEF DNSStatusType
<1>0. dnsPolicy[q] \in DNSPolicyType /\ dnsPolicy' = [dnsPolicy EXCEPT ![q].accepted = a, ![q].enforced = e]
  BY <1>q DEF SetDNSStatus
<1>1. /\ DOMAIN dnsPolicy = DNSPolicySet /\ DOMAIN dnsPolicy' = DNSPolicySet
      /\ dnsPolicy'[q] = [dnsPolicy[q] EXCEPT !.accepted = a, !.enforced = e]
      /\ \A p \in DNSPolicySet \ {q} : dnsPolicy'[p] = dnsPolicy[p]
  BY <1>0 DEF DNSTypeOK
<1>2. /\ dnsPolicy'[q] \in DNSPolicyType
      /\ dnsPolicy'[q].accepted = a /\ dnsPolicy'[q].enforced = e
      /\ dnsPolicy'[q].spec = dnsPolicy[q].spec /\ dnsPolicy'[q].born = dnsPolicy[q].born
      /\ dnsPolicy'[q].deleting = dnsPolicy[q].deleting
  BY <1>0, <1>1, Zenon DEF DNSPolicyType
<1>3. dnsPolicy' \in [DNSPolicySet -> {Unborn, Gone} \cup DNSPolicyType]
  BY <1>0, <1>1, <1>2 DEF DNSTypeOK
<1>4. Present(dnsPolicy') = Present(dnsPolicy) /\ Present(dnsPolicy) \subseteq DNSPolicySet
  <2>1. \A p \in DNSPolicySet : dnsPolicy'[p] \in {Unborn, Gone} <=> dnsPolicy[p] \in {Unborn, Gone}
    BY <1>0, <1>1, <1>2, DNSAssumption, ZenonT(40)
  <2> QED
    BY <1>1, <2>1 DEF Present
<1>5. \A p \in DNSPolicySet : /\ dnsPolicy'[p].spec = dnsPolicy[p].spec
                              /\ dnsPolicy'[p].born = dnsPolicy[p].born
                              /\ dnsPolicy'[p].deleting = dnsPolicy[p].deleting
  BY <1>1, <1>2, Zenon
<1>6. \A p \in DNSPolicySet : DNSLive(p)' = DNSLive(p)
  BY <1>4, <1>5 DEF DNSLive
<1>7. /\ t.policy = dnsPolicy /\ t.listener = dnsListener /\ t.record = dnsRecord /\ t.addresses = dnsAddresses
      /\ t'.policy = dnsPolicy' /\ t'.listener = dnsListener /\ t'.record = dnsRecord
      /\ t'.addresses = dnsAddresses
  BY DEF DNSTopology
<1>8. DNSAlike(dnsPolicy, dnsPolicy', DNSPolicySet)
  BY <1>4, <1>5, Zenon DEF DNSAlike
<1>9. ASSUME NEW p \in DNSPolicySet
      PROVE  /\ DNSValid(p)' = DNSValid(p)
             /\ enforcedCondition(t, p)' = enforcedCondition(t, p)
             /\ policyError(t, p)' = policyError(t, p)
             /\ listenersForPolicy(t, p)' = listenersForPolicy(t, p)
             /\ HasEndpoints(t, p)' <=> HasEndpoints(t, p)
  <2> HIDE DEF t
  <2>1. p \in DNSPolicySet /\ DNSAlike(dnsPolicy, dnsPolicy', DNSPolicySet)
    BY <1>8, Zenon
  <2>2. isTargetRefsFound(t'.policy, t'.listener, p) = isTargetRefsFound(t.policy, t.listener, p)
    BY <1>5, <1>7, <2>1, Zenon DEF isTargetRefsFound
  <2>3. isConflict(dnsPolicy', p) <=> isConflict(dnsPolicy, p)
    BY <2>1, DNSSameLife, Zenon
  <2>4. validateDNS(t', p) = validateDNS(t, p)
    BY <1>5, <1>7, <2>1, <2>2, <2>3, Zenon DEF validateDNS
  <2>5. LinkDNSPolicyToDNSRecord(t', p) = LinkDNSPolicyToDNSRecord(t, p)
    BY <1>7 DEF LinkDNSPolicyToDNSRecord
  <2>6. enforcedCondition(t', p) = enforcedCondition(t, p)
    BY <1>7, <2>5, Zenon DEF enforcedCondition
  <2>7. \A l : AttachedTo(dnsPolicy', l) = AttachedTo(dnsPolicy, l)
    BY <2>1, DNSSameLife, Zenon
  <2>8. listenersForPolicy(t', p) = listenersForPolicy(t, p)
    BY <1>5, <1>7, <2>1, <2>7, Zenon DEF listenersForPolicy, Exists
  <2>9. HasEndpoints(t', p) <=> HasEndpoints(t, p)
    BY <1>5, <1>7, <2>1 DEF HasEndpoints
  <2>10. policyError(t', p) = policyError(t, p)
    <3> DEFINE hosted(x) == {l \in listenersForPolicy(x, p) : x.listener[l].host # NoHost}
    <3>1. hosted(t') = hosted(t)
      BY <1>7, <2>8
    <3>2. (\A l \in hosted(t') : ~t'.listener[l].routes) <=> (\A l \in hosted(t) : ~t.listener[l].routes)
      BY <1>7, <3>1, Zenon
    <3>3. (hosted(t') = {} \/ ~t'.addresses) <=> (hosted(t) = {} \/ ~t.addresses)
      BY <1>7, <3>1, Zenon
    <3> QED
      BY <2>9, <3>2, <3>3, Zenon DEF policyError
  <2> QED
    BY <2>4, <2>6, <2>8, <2>9, <2>10, Zenon DEF DNSValid, t
<1> QED
  BY <1>q, <1>1, <1>2, <1>3, <1>6, <1>8, <1>9, Zenon

LEMMA DNSWriteStatusStep ==
    ASSUME DNSStatusInv, WriteDNSStatus
    PROVE  DNSStatusInv'
<1> DEFINE w == Head(dnsStatuses)
<1>1. /\ dnsStatuses # <<>> /\ dnsStatuses' = Tail(dnsStatuses)
      /\ UNCHANGED <<dnsListener, dnsAddresses, dnsRecord, dnsTrigger, dnsPass, dnsDirty, dnsFailed>>
  BY DEF WriteDNSStatus
<1>2. /\ dnsStatuses' \in Seq(DNSStatusType)
      /\ 1 \in DOMAIN dnsStatuses /\ w = dnsStatuses[1] /\ w \in DNSStatusType
      /\ \A i \in DOMAIN dnsStatuses' : i + 1 \in DOMAIN dnsStatuses /\ dnsStatuses'[i] = dnsStatuses[i + 1]
      /\ \A i \in DOMAIN dnsStatuses :
           i = 1 \/ (i - 1 \in DOMAIN dnsStatuses' /\ dnsStatuses'[i - 1] = dnsStatuses[i])
  BY <1>1, TailFacts DEF DNSStatusInv, DNSTypeOK
<1> HIDE DEF w
<1>3. w.policy \in DNSPolicySet /\ w.accepted \in DNSReasons /\ w.enforced \in DNSEnforcement
  BY <1>2 DEF DNSStatusType
<1>4. \A p : DNSPlanned(p) => DNSPlanned(p)' \/ p = w.policy
  BY <1>2 DEF DNSPlanned
<1>5. /\ dnsPolicy[w.policy] # Unborn
      /\ <<"DNSPolicy", w.policy>> \in dnsDirty => DNSValidates
  BY <1>2, <1>3, Zenon DEF DNSStatusInv, DNSPassOK, DNSValidates, ValidatorEvents
<1>6. ~DNSIdle'
  BY <1>1 DEF DNSStatusInv, DNSPassOK, DNSIdle
<1>7. CASE UNCHANGED <<dnsPolicy, dnsEvents>> /\ (dnsLost' = TRUE \/ (UNCHANGED dnsLost /\ ~DNSStatusAdmitted(w)))
  <2>1. DNSTypeOK'
    BY <1>1, <1>2, <1>7, Zenon DEF DNSStatusInv, DNSTypeOK
  <2>2. DNSPassOK'
    <3>1. \A i \in DOMAIN dnsStatuses' : dnsPolicy'[dnsStatuses'[i].policy] # Unborn
      BY <1>2, <1>7 DEF DNSStatusInv, DNSPassOK
    <3> QED
      BY <1>1, <1>6, <1>7, <3>1, Zenon DEF DNSStatusInv, DNSPassOK
  <2>3. DNSTopology' = DNSTopology /\ DNSValidates' = DNSValidates
    BY <1>1, <1>7 DEF DNSTopology, DNSValidates
  <2>4. \A p : DNSLive(p)' = DNSLive(p) /\ DNSValid(p)' = DNSValid(p)
    BY <1>7, <2>3, Zenon DEF DNSLive, DNSValid
  <2>5. \A p, x : /\ AcceptedRight(p, x)' = AcceptedRight(p, x)
                  /\ EnforcedRight(p, x)' = EnforcedRight(p, x)
    BY <2>3, <2>4, Zenon DEF AcceptedRight, EnforcedRight
  <2>6. dnsLost' \/ (UNCHANGED dnsLost /\ (DNSValidates \/ ~DNSLive(w.policy)))
    BY <1>5, <1>7, Zenon DEF DNSStatusAdmitted, DNSLive, Present
  <2>7. ~DNSLive(w.policy) /\ AllAcceptedRight => AllAcceptedRight'
    BY <1>2, <1>4, <1>7, <2>4, <2>5, Zenon DEF AllAcceptedRight
  <2>8. ~DNSLive(w.policy) /\ AllEnforcedRight => AllEnforcedRight'
    BY <1>2, <1>4, <1>7, <2>4, <2>5, Zenon DEF AllEnforcedRight
  <2> QED
    BY <1>1, <2>1, <2>2, <2>3, <2>6, <2>7, <2>8, Zenon DEF DNSStatusInv, DNSValidates
<1>8. CASE DNSStatusAdmitted(w) /\ SetDNSStatus(w) /\ UNCHANGED dnsLost
  <2>1. DNSTypeOK /\ dnsPolicy[w.policy] \in DNSPolicyType
    BY <1>3, <1>5, <1>8, Zenon DEF DNSStatusInv, DNSTypeOK, DNSStatusAdmitted
  <2>2. \A i \in DOMAIN dnsStatuses : dnsStatuses[i].policy \in DNSPolicySet
    <3>1. \A i \in DOMAIN dnsStatuses : dnsStatuses[i] \in DNSStatusType
      BY <2>1 DEF DNSTypeOK
    <3> QED
      BY <3>1 DEF DNSStatusType
  <2>3. /\ dnsPolicy' \in [DNSPolicySet -> {Unborn, Gone} \cup DNSPolicyType]
        /\ dnsPolicy'[w.policy] \in DNSPolicyType
        /\ dnsPolicy'[w.policy].accepted = w.accepted /\ dnsPolicy'[w.policy].enforced = w.enforced
        /\ \A p \in DNSPolicySet \ {w.policy} : dnsPolicy'[p] = dnsPolicy[p]
        /\ \A p \in DNSPolicySet : DNSLive(p)' = DNSLive(p)
        /\ \A p \in DNSPolicySet :
             /\ DNSValid(p)' = DNSValid(p)
             /\ enforcedCondition(DNSTopology, p)' = enforcedCondition(DNSTopology, p)
             /\ policyError(DNSTopology, p)' = policyError(DNSTopology, p)
    BY <1>1, <1>2, <1>8, <2>1, DNSStatusKeeps, Zenon
  <2>4. dnsEvents \subseteq dnsEvents'
    BY <1>8, Zenon DEF SetDNSStatus
  <2>5. DNSTypeOK'
    BY <1>1, <1>2, <1>8, <2>3, Zenon DEF DNSStatusInv, DNSTypeOK
  <2>6. DNSPassOK'
    <3>2. \A p \in DNSPolicySet : dnsPolicy[p] # Unborn => dnsPolicy'[p] # Unborn
      BY <2>3, DNSAssumption, Zenon
    <3>3. \A i \in DOMAIN dnsStatuses' : dnsPolicy'[dnsStatuses'[i].policy] # Unborn
      BY <1>2, <2>2, <3>2 DEF DNSStatusInv, DNSPassOK
    <3> QED
      BY <1>1, <1>6, <2>4, <3>3, Zenon DEF DNSStatusInv, DNSPassOK
  <2>7. DNSValidates => DNSValidates'
    BY <1>1, <2>4, Zenon DEF DNSValidates
  <2>8. \A p \in DNSPolicySet : \A x : /\ AcceptedRight(p, x)' = AcceptedRight(p, x)
                                       /\ EnforcedRight(p, x)' = EnforcedRight(p, x)
    BY <2>3, Zenon DEF AcceptedRight, EnforcedRight
  <2>10. ASSUME AllAcceptedRight PROVE AllAcceptedRight'
    <3>1. (\A i \in DOMAIN dnsStatuses : AcceptedRight(dnsStatuses[i].policy, dnsStatuses[i].accepted))'
      BY <1>2, <2>2, <2>8, <2>10, SMTT(20) DEF AllAcceptedRight
    <3>2. AcceptedRight(w.policy, w.accepted)
      BY <1>2, <2>10, Zenon DEF AllAcceptedRight
    <3>3. \A p \in DNSPolicySet : DNSLive(p)' => DNSPlanned(p)' \/ AcceptedRight(p, dnsPolicy[p].accepted)'
      <4> SUFFICES ASSUME NEW p \in DNSPolicySet, DNSLive(p)'
                   PROVE  DNSPlanned(p)' \/ AcceptedRight(p, dnsPolicy'[p].accepted)
        BY <2>8, Zenon
      <4>1. CASE p = w.policy
        BY <2>3, <3>2, <4>1, Zenon
      <4>2. CASE p # w.policy
        BY <1>4, <2>3, <2>10, <4>2, Zenon DEF AllAcceptedRight
      <4> QED
        BY <4>1, <4>2, Zenon
    <3> QED
      BY <3>1, <3>3, Zenon DEF AllAcceptedRight
  <2>11. ASSUME AllEnforcedRight PROVE AllEnforcedRight'
    <3>1. (\A i \in DOMAIN dnsStatuses : EnforcedRight(dnsStatuses[i].policy, dnsStatuses[i].enforced))'
      BY <1>2, <2>2, <2>8, <2>11 DEF AllEnforcedRight
    <3>2. EnforcedRight(w.policy, w.enforced)
      BY <1>2, <2>11, Zenon DEF AllEnforcedRight
    <3>3. \A p \in DNSPolicySet : DNSLive(p)' => DNSPlanned(p)' \/ EnforcedRight(p, dnsPolicy[p].enforced)'
      <4> SUFFICES ASSUME NEW p \in DNSPolicySet, DNSLive(p)'
                   PROVE  DNSPlanned(p)' \/ EnforcedRight(p, dnsPolicy'[p].enforced)
        BY <2>8, Zenon
      <4>1. CASE p = w.policy
        BY <2>3, <3>2, <4>1, Zenon
      <4>2. CASE p # w.policy
        BY <1>4, <2>3, <2>11, <4>2, Zenon DEF AllEnforcedRight
      <4> QED
        BY <4>1, <4>2
    <3> QED
      BY <3>1, <3>3, Zenon DEF AllEnforcedRight
  <2> QED
    BY <1>1, <1>8, <2>5, <2>6, <2>7, <2>10, <2>11, Zenon DEF DNSStatusInv
<1> QED
  BY <1>7, <1>8, Zenon DEF WriteDNSStatus, w

\* Every step of the DNS workflow keeps the statuses right.
LEMMA DNSStep == DNSStatusInv /\ [DNSNext]_dnsVars => DNSStatusInv'
<1> SUFFICES ASSUME DNSStatusInv, [DNSNext]_dnsVars PROVE DNSStatusInv'
  OBVIOUS
<1>1. ASSUME NEW p \in DNSPolicySet,
             UserCreatesPolicy(p) \/ UserEditsPolicy(p) \/ UserDeletesPolicy(p) \/ PolicyFinalized(p)
      PROVE  DNSStatusInv'
  <2>1. CASE UserCreatesPolicy(p)
    <3>1. PICK s \in DNSSpecs, b \in Births(dnsPolicy) : PolicyChanged(p, NewDNSPolicy(s, b))
      BY <2>1 DEF UserCreatesPolicy
    <3>2. \A q \in Present(dnsPolicy) : dnsPolicy[q].born \in Nat
      BY Zenon DEF DNSStatusInv, DNSTypeOK, Present, DNSPolicyType
    <3>3. b \in Nat
      BY <3>2 DEF Births
    <3>4. NewDNSPolicy(s, b) \in DNSPolicyType
      BY <3>3, Zenon DEF NewDNSPolicy, DNSPolicyType, DNSReasons, DNSEnforcement, NotEnforced
    <3> QED
      BY <3>1, <3>4, DNSPolicyStep
  <2>2. ASSUME p \in Present(dnsPolicy)
        PROVE  dnsPolicy[p] \in DNSPolicyType
    BY <2>2 DEF DNSStatusInv, DNSTypeOK, Present
  <2>3. CASE UserEditsPolicy(p)
    <3>1. PICK s \in DNSSpecs : PolicyChanged(p, [dnsPolicy[p] EXCEPT !.spec = s])
      BY <2>3 DEF UserEditsPolicy
    <3>2. [dnsPolicy[p] EXCEPT !.spec = s] \in DNSPolicyType
      BY <2>2, <2>3 DEF UserEditsPolicy, DNSPolicyType
    <3> QED
      BY <3>1, <3>2, DNSPolicyStep
  <2>4. CASE UserDeletesPolicy(p)
    <3>1. [dnsPolicy[p] EXCEPT !.deleting = TRUE] \in DNSPolicyType
      BY <2>2, <2>4, Zenon DEF UserDeletesPolicy, DNSPolicyType
    <3> QED
      BY <2>4, <3>1, DNSPolicyStep, Zenon DEF UserDeletesPolicy
  <2>5. CASE PolicyFinalized(p)
    BY <2>5, DNSPolicyStep DEF PolicyFinalized
  <2> QED
    BY <1>1, <2>1, <2>3, <2>4, <2>5, Zenon
<1>2. ASSUME NEW l \in ListenerSet, CollectRecord(l) \/ RecordFinalized(l) \/ RecordReported(l)
      PROVE  DNSStatusInv'
  <2>1. PICK r : RecordChanged(l, r)
    BY <1>2, Zenon DEF CollectRecord, RecordFinalized, RecordReported
  <2>2. UNCHANGED <<dnsListener, dnsPass, dnsStatuses, dnsLost, dnsFailed>>
    BY <1>2, Zenon DEF CollectRecord, RecordFinalized, RecordReported, RecordFrame, PassFrame
  <2>3. dnsFailed' \in BOOLEAN
    BY <2>2, Zenon DEF DNSStatusInv, DNSTypeOK
  <2> QED
    BY <2>1, <2>2, <2>3, DNSRecordStep, Zenon
<1>3. CASE UNCHANGED dnsVars
  <2>1. DNSTypeOK' /\ DNSPassOK' /\ (DNSValidates => DNSValidates')
    BY <1>3, Zenon DEF dnsVars, DNSStatusInv, DNSTypeOK, DNSPassOK, DNSIdle, DNSValidates
  <2> QED
    BY <1>3, <2>1, QuietDNSStep, Zenon DEF dnsVars
<1>4. ASSUME BeginDNSPass \/ RetryDNSPass PROVE DNSStatusInv'
  BY <1>4, DNSStarts, DNSBeginStep, Zenon
<1> QED
  BY <1>1, <1>2, <1>3, <1>4, DNSWriteRecordStep, DNSWriteStatusStep, DNSEndStep, DNSAbortStep,
     DNSRestartStep, DNSGatewayStep, Zenon DEF DNSNext, DNSOperate, DNSCollect

\* The invariant says what is wanted.
LEMMA DNSInvSuffices == DNSStatusInv => DNSStatusCurrent
<1> SUFFICES ASSUME DNSStatusInv, DNSAtRest, ~dnsLost,
                    NEW p \in Present(dnsPolicy), ~dnsPolicy[p].deleting
             PROVE  /\ (dnsPolicy[p].accepted = "Accepted") = (validateDNS(DNSTopology, p) = "Accepted")
                    /\ dnsPolicy[p].enforced =
                         IF validateDNS(DNSTopology, p) = "Accepted"
                         THEN <<enforcedCondition(DNSTopology, p), policyError(DNSTopology, p)>> ELSE NotEnforced
  BY Zenon DEF DNSStatusCurrent, DNSTopology
<1>1. p \in DNSPolicySet /\ DNSLive(p)
  BY Zenon DEF Present, DNSLive, DNSStatusInv, DNSTypeOK
<1>2. DNSIdle /\ ~dnsTrigger
  BY Zenon DEF DNSAtRest, DNSWaits
<1>3. ~DNSPlanned(p) /\ ~DNSValidates
  BY <1>2 DEF DNSPlanned, DNSValidates, DNSStatusInv, DNSPassOK
<1>4. AcceptedRight(p, dnsPolicy[p].accepted) /\ EnforcedRight(p, dnsPolicy[p].enforced)
  BY <1>1, <1>2, <1>3, Zenon DEF DNSStatusInv, AllAcceptedRight, AllEnforcedRight
<1> QED
  BY <1>4, Zenon DEF AcceptedRight, EnforcedRight, DNSValid

-----------------------------------------------------------------------------
\* The loops over policies and listeners: their recursion has a solution, and so the
\* accumulator of a turn is what reconcileTurn makes of the one before.
LEMMA LoopExists ==
    ASSUME NEW t, NEW turns, Len(turns) \in Nat
    PROVE  \E f : f = [n \in 0..Len(turns) |->
                         IF n = 0 THEN LoopStart(t) ELSE reconcileTurn(t, f[n - 1], turns[n])]
<1> DEFINE N == Len(turns)
           F(m, f) == f = [n \in 0..m |->
                             IF n = 0 THEN LoopStart(t) ELSE reconcileTurn(t, f[n - 1], turns[n])]
           S == {m \in Nat : m \in 0..N => \E f : F(m, f)}
<1>1. 0 \in S
  <2>1. F(0, [n \in 0..0 |-> LoopStart(t)])
    OBVIOUS
  <2> QED
    BY <2>1, Zenon
<1>2. ASSUME NEW m \in Nat, m \in S PROVE m + 1 \in S
  <2> SUFFICES ASSUME m + 1 \in 0..N PROVE \E f : F(m + 1, f)
    OBVIOUS
  <2>1. PICK f : F(m, f)
    BY <1>2
  <2> DEFINE g == [n \in 0..(m + 1) |->
                     IF n = m + 1 THEN reconcileTurn(t, f[m], turns[m + 1]) ELSE f[n]]
  <2>2. \A n \in 0..m : f[n] = IF n = 0 THEN LoopStart(t) ELSE reconcileTurn(t, f[n - 1], turns[n])
    BY <2>1
  <2>3. \A n \in 0..m : g[n] = f[n]
    OBVIOUS
  <2>4. g[m + 1] = reconcileTurn(t, g[m], turns[m + 1])
    BY <2>3
  <2>5. \A n \in 0..(m + 1) : g[n] = IF n = 0 THEN LoopStart(t) ELSE reconcileTurn(t, g[n - 1], turns[n])
    <3> TAKE n \in 0..(m + 1)
    <3>1. CASE n = m + 1
      BY <3>1, <2>4
    <3>2. CASE n # m + 1
      <4>1. n \in 0..m /\ (n # 0 => n - 1 \in 0..m)
        BY <3>2
      <4> HIDE DEF g
      <4> QED
        BY <2>2, <2>3, <4>1, Zenon
    <3> QED
      BY <3>1, <3>2, Zenon
  <2>6. F(m + 1, g)
    <3>1. g = [n \in 0..(m + 1) |-> g[n]]
      OBVIOUS
    <3> HIDE DEF g
    <3> QED
      BY <2>5, <3>1, Zenon
  <2> QED
    BY <2>6, Zenon
<1>3. Nat \subseteq S
  <2> HIDE DEF S
  <2> QED
    BY <1>1, <1>2, Induct, Zenon
<1> QED
  BY <1>3

LEMMA LoopStep ==
    ASSUME NEW t, NEW turns, Len(turns) \in Nat
    PROVE  /\ reconcileLoop(t, turns)[0] = LoopStart(t)
           /\ \A n \in Nat : n < Len(turns) =>
                reconcileLoop(t, turns)[n + 1] = reconcileTurn(t, reconcileLoop(t, turns)[n], turns[n + 1])
<1> DEFINE acc == reconcileLoop(t, turns)
<1>1. acc = [n \in 0..Len(turns) |-> IF n = 0 THEN LoopStart(t) ELSE reconcileTurn(t, acc[n - 1], turns[n])]
  BY LoopExists DEF reconcileLoop
<1> HIDE DEF acc
<1>2. \A n \in 0..Len(turns) : acc[n] = IF n = 0 THEN LoopStart(t) ELSE reconcileTurn(t, acc[n - 1], turns[n])
  BY <1>1
<1>3. ASSUME NEW n \in Nat, n < Len(turns)
      PROVE  acc[n + 1] = reconcileTurn(t, acc[n], turns[n + 1])
  <2>1. n + 1 \in 0..Len(turns) /\ n + 1 # 0 /\ (n + 1) - 1 = n
    BY <1>3
  <2> QED
    BY <1>2, <2>1
<1> QED
  BY <1>2, <1>3 DEF acc

\* The writes that a pass may plan: it deletes only records that it has seen.
DNSWrites(t) ==
    {[op |-> "delete", record |-> l] : l \in {l \in ListenerSet : t.record[l] # NoRecord}}
    \cup {[op |-> "create", record |-> l, spec |-> desiredDNSRecord(t, p, l), owner |-> p] :
            p \in DNSPolicySet, l \in ListenerSet}
    \cup {[op |-> "update", record |-> l, spec |-> desiredDNSRecord(t, p, l)] :
            p \in DNSPolicySet, l \in ListenerSet}

LEMMA SeenRecordDeleted ==
    ASSUME NEW t, NEW w \in DNSWrites(t), w.op = "delete"
    PROVE  t.record[w.record] # NoRecord
<1>1. ASSUME NEW l, NEW s, NEW p, w = [op |-> "create", record |-> l, spec |-> s, owner |-> p] PROVE FALSE
  BY <1>1, Zenon
<1>2. ASSUME NEW l, NEW s, w = [op |-> "update", record |-> l, spec |-> s] PROVE FALSE
  BY <1>2, Zenon
<1>3. PICK l \in ListenerSet : t.record[l] # NoRecord /\ w = [op |-> "delete", record |-> l]
  BY <1>1, <1>2 DEF DNSWrites
<1> QED
  BY <1>3

\* One turn: what it adds to the plan, and that it adds something unless there is nothing
\* to do or the record is being deleted.
TurnOutcome(t, acc, turn) ==
    LET does == ListenerTurn(t, acc.spec, turn[1], turn[2])
        next == reconcileTurn(t, acc, turn)
    IN  /\ \E ws \in Seq(DNSWrites(t)) :
             /\ next.plan = acc.plan \o ws
             /\ ws = <<>> => does = "skip" \/ (t.record[turn[2]] # NoRecord /\ t.record[turn[2]].deleting)
        /\ does = "skip" => next.spec = acc.spec /\ next.left = acc.left

LEMMA TurnPlans ==
    ASSUME NEW t, NEW acc, NEW turn \in DNSPolicySet \X ListenerSet, turn[1] \notin acc.left
    PROVE  TurnOutcome(t, acc, turn)
<1> DEFINE p == turn[1]
           l == turn[2]
           does == ListenerTurn(t, acc.spec, p, l)
           next == reconcileTurn(t, acc, turn)
           desired == desiredDNSRecord(t, p, l)
           ws == CASE does = "skip" -> <<>>
                   [] does \in {"delete", "replace"} -> deleteRecord(t, l)
                   [] does = "create" ->
                        <<[op |-> "create", record |-> l, spec |-> desired, owner |-> p]>>
                   [] does = "update" ->
                        <<[op |-> "update", record |-> l, spec |-> desired]>>
<1>1. p \in DNSPolicySet /\ l \in ListenerSet
  OBVIOUS
<1>2. does \in {"skip", "create", "delete", "replace", "update"}
  BY Zenon DEF ListenerTurn
<1>3. does \in {"delete", "replace"} => t.record[l] # NoRecord
  BY DEF ListenerTurn, LinkListenerToDNSRecord
<1> HIDE DEF p, l
<1>4. next = [plan |-> acc.plan \o ws,
              spec |-> IF does = "update" THEN [acc.spec EXCEPT ![l] = desired] ELSE acc.spec,
              left |-> IF does = "replace" THEN acc.left \cup {p} ELSE acc.left]
  BY Zenon DEF reconcileTurn, p, l
<1> HIDE DEF does, desired
<1>5. /\ [op |-> "create", record |-> l, spec |-> desired, owner |-> p] \in DNSWrites(t)
      /\ [op |-> "update", record |-> l, spec |-> desired] \in DNSWrites(t)
      /\ t.record[l] # NoRecord => [op |-> "delete", record |-> l] \in DNSWrites(t)
  BY <1>1, SMTT(20) DEF DNSWrites, desired
<1>6. ws \in Seq(DNSWrites(t)) /\ (ws = <<>> => does = "skip" \/ (t.record[l] # NoRecord /\ t.record[l].deleting))
  <2>1. CASE does = "skip"
    BY <2>1
  <2>2. CASE does \in {"delete", "replace"}
    BY <1>3, <1>5, <2>2 DEF deleteRecord
  <2>3. CASE does = "create"
    BY <1>5, <2>3
  <2>4. CASE does = "update"
    BY <1>5, <2>4
  <2> QED
    BY <1>2, <2>1, <2>2, <2>3, <2>4, Zenon
<1> HIDE DEF ws, next
<1>7. next.plan = acc.plan \o ws /\ (does = "skip" => next.spec = acc.spec /\ next.left = acc.left)
  BY <1>4, Zenon
<1> QED
  BY <1>6, <1>7, Zenon DEF TurnOutcome, does, next, p, l

LEMMA LoopPlans ==
    ASSUME NEW t, NEW turns \in Seq(DNSPolicySet \X ListenerSet)
    PROVE  \A n \in 0..Len(turns) : reconcileLoop(t, turns)[n].plan \in Seq(DNSWrites(t))
<1> DEFINE acc == reconcileLoop(t, turns)
           S == {n \in Nat : n <= Len(turns) => acc[n].plan \in Seq(DNSWrites(t))}
<1>1. /\ Len(turns) \in Nat /\ acc[0] = LoopStart(t)
      /\ \A n \in Nat : n < Len(turns) => acc[n + 1] = reconcileTurn(t, acc[n], turns[n + 1])
  BY LoopStep
<1> HIDE DEF acc
<1>2. 0 \in S
  <2>1. acc[0].plan = <<>>
    BY <1>1 DEF LoopStart
  <2>2. acc[0].plan \in Seq(DNSWrites(t))
    BY <2>1
  <2> QED
    BY <2>2, Zenon
<1>3. ASSUME NEW n \in Nat, n \in S PROVE n + 1 \in S
  <2> SUFFICES ASSUME n < Len(turns) PROVE acc[n + 1].plan \in Seq(DNSWrites(t))
    BY <1>1
  <2>1. acc[n].plan \in Seq(DNSWrites(t)) /\ acc[n + 1] = reconcileTurn(t, acc[n], turns[n + 1])
    BY <1>1, <1>3
  <2>2. turns[n + 1] \in DNSPolicySet \X ListenerSet
    BY <1>1
  <2>3. CASE turns[n + 1][1] \in acc[n].left
    BY <2>1, <2>3, Zenon DEF reconcileTurn
  <2>4. CASE turns[n + 1][1] \notin acc[n].left
    <3>1. TurnOutcome(t, acc[n], turns[n + 1])
      BY <2>2, <2>4, TurnPlans, Zenon
    <3>2. PICK ws \in Seq(DNSWrites(t)) : acc[n + 1].plan = acc[n].plan \o ws
      BY <2>1, <3>1, Zenon DEF TurnOutcome
    <3> QED
      BY <2>1, <3>2
  <2> QED
    BY <2>3, <2>4, Zenon
<1>4. Nat \subseteq S
  <2> HIDE DEF S
  <2> QED
    BY <1>2, <1>3, Induct, Zenon
<1> QED
  BY <1>1, <1>4 DEF acc

\* If the loops plan nothing, no record being deleted, then there was nothing to do in any
\* turn, all of which saw the records of the topology.
LEMMA NothingToDo ==
    ASSUME NEW t, NEW turns \in Seq(DNSPolicySet \X ListenerSet),
           \A l \in ListenerSet : t.record[l] # NoRecord => ~t.record[l].deleting,
           reconcileLoop(t, turns)[Len(turns)].plan = <<>>
    PROVE  \A k \in 1..Len(turns) : ListenerTurn(t, LoopStart(t).spec, turns[k][1], turns[k][2]) = "skip"
<1> DEFINE acc == reconcileLoop(t, turns)
           Skips(k) == ListenerTurn(t, LoopStart(t).spec, turns[k][1], turns[k][2]) = "skip"
           S == {n \in Nat : n <= Len(turns) /\ acc[n].plan = <<>> =>
                               acc[n] = LoopStart(t) /\ \A k \in 1..n : Skips(k)}
<1>1. /\ Len(turns) \in Nat /\ acc[0] = LoopStart(t)
      /\ \A n \in Nat : n < Len(turns) => acc[n + 1] = reconcileTurn(t, acc[n], turns[n + 1])
  BY LoopStep
<1>2. \A n \in 0..Len(turns) : acc[n].plan \in Seq(DNSWrites(t))
  BY LoopPlans, Zenon
<1>3. acc[Len(turns)].plan = <<>>
  BY Zenon
<1> HIDE DEF acc, Skips
<1>4. 0 \in S
  BY <1>1
<1>5. ASSUME NEW n \in Nat, n \in S PROVE n + 1 \in S
  <2> SUFFICES ASSUME n < Len(turns), acc[n + 1].plan = <<>>
               PROVE  acc[n + 1] = LoopStart(t) /\ \A k \in 1..(n + 1) : Skips(k)
    BY <1>1
  <2> DEFINE turn == turns[n + 1]
  <2>1. /\ acc[n + 1] = reconcileTurn(t, acc[n], turn) /\ turn \in DNSPolicySet \X ListenerSet
        /\ acc[n].plan \in Seq(DNSWrites(t)) /\ (acc[n].plan = <<>> => acc[n] = LoopStart(t))
    BY <1>1, <1>2, <1>5
  <2> HIDE DEF turn
  <2>2. turn[1] \notin acc[n].left
    <3>1. SUFFICES ASSUME turn[1] \in acc[n].left PROVE FALSE
      BY Zenon
    <3>2. acc[n + 1] = acc[n]
      BY <2>1, <3>1, Zenon DEF reconcileTurn
    <3>3. acc[n].left = {}
      BY <2>1, <3>2, SMTT(20) DEF LoopStart
    <3> QED
      BY <3>1, <3>3, Zenon
  <2>3. PICK ws \in Seq(DNSWrites(t)) :
          /\ acc[n + 1].plan = acc[n].plan \o ws
          /\ ws = <<>> => \/ ListenerTurn(t, acc[n].spec, turn[1], turn[2]) = "skip"
                          \/ t.record[turn[2]] # NoRecord /\ t.record[turn[2]].deleting
    <3>1. TurnOutcome(t, acc[n], turn)
      BY <2>1, <2>2, TurnPlans, Zenon
    <3> QED
      BY <2>1, <3>1, Zenon DEF TurnOutcome
  <2>4. acc[n].plan = <<>> /\ ws = <<>>
    <3>1. Len(acc[n].plan \o ws) = Len(acc[n].plan) + Len(ws) /\ Len(acc[n].plan \o ws) = 0
      BY <2>1, <2>3
    <3> QED
      BY <2>1, <3>1
  <2>5. acc[n] = LoopStart(t) /\ \A k \in 1..n : Skips(k)
    BY <1>5, <2>4
  <2>6. turn[2] \in ListenerSet
    BY <2>1, Zenon
  <2>7. ListenerTurn(t, LoopStart(t).spec, turn[1], turn[2]) = "skip"
    BY <2>3, <2>4, <2>5, <2>6, Zenon
  <2>8. acc[n + 1] = LoopStart(t)
    <3>1. /\ LoopStart(t).plan = <<>> /\ LoopStart(t).left = {}
          /\ LoopStart(t) = [plan |-> <<>>, left |-> {}, spec |-> LoopStart(t).spec]
      BY Zenon DEF LoopStart
    <3>2. <<>> \o <<>> = <<>>
      OBVIOUS
    <3> QED
      BY <2>1, <2>5, <2>7, <3>1, <3>2, Zenon DEF reconcileTurn
  <2>9. Skips(n + 1)
    BY <2>7, Zenon DEF Skips, turn
  <2> QED
    BY <2>5, <2>8, <2>9
<1>6. Nat \subseteq S
  <2> HIDE DEF S
  <2> QED
    BY <1>4, <1>5, Induct, Zenon
<1>7. \A k \in 1..Len(turns) : Skips(k)
  BY <1>1, <1>3, <1>6
<1> QED
  BY <1>7, Zenon DEF Skips

\* The whole plan: what may be in it, and what it means that it is empty.
LEMMA ReconcilePlans ==
    ASSUME NEW t, NEW turns \in Seq(DNSPolicySet \X ListenerSet)
    PROVE  /\ reconcileDNS(t, turns) \in Seq(DNSWrites(t))
           /\ reconcileDNS(t, turns) = <<>> =>
                /\ reconcileLoop(t, turns)[Len(turns)].plan = <<>>
                /\ \A l \in ListenerSet : isOrphan(t, l) => t.record[l].deleting
<1> DEFINE plan == reconcileLoop(t, turns)[Len(turns)].plan
           O == {l \in ListenerSet : isOrphan(t, l) /\ ~t.record[l].deleting}
           orphans == InOrder(O)
           deletes == [i \in DOMAIN orphans |-> [op |-> "delete", record |-> orphans[i]]]
<1>1. plan \in Seq(DNSWrites(t))
  BY LoopPlans
<1>2. IsFiniteSet(O)
  BY DNSAssumption, FS_Subset, Zenon
<1> HIDE DEF O
<1>3. /\ orphans \in Seq(O) /\ DOMAIN orphans = 1..Len(orphans)
      /\ \A i \in DOMAIN orphans : orphans[i] \in O
      /\ \A l \in O : \E i \in DOMAIN orphans : orphans[i] = l
  BY <1>2, AllInOrder, Zenon
<1>4. \A l \in O : [op |-> "delete", record |-> l] \in DNSWrites(t)
  <2>1. \A l \in O : l \in ListenerSet /\ t.record[l] # NoRecord
    BY DEF isOrphan, O
  <2> QED
    BY <2>1 DEF DNSWrites
<1>5. reconcileDNS(t, turns) = plan \o deletes
  BY Zenon DEF reconcileDNS, deleteOrphanDNSRecords, O
<1> HIDE DEF plan, orphans
<1>6. deletes \in Seq(DNSWrites(t)) /\ (deletes = <<>> => O = {})
  BY <1>3, <1>4
<1> HIDE DEF deletes
<1>7. plan \o deletes \in Seq(DNSWrites(t))
  BY <1>1, <1>6
<1>8. plan \o deletes = <<>> => plan = <<>> /\ deletes = <<>>
  <2> SUFFICES ASSUME plan \o deletes = <<>> PROVE plan = <<>> /\ deletes = <<>>
    OBVIOUS
  <2>1. Len(plan \o deletes) = Len(plan) + Len(deletes) /\ Len(plan \o deletes) = 0
    BY <1>1, <1>6
  <2> QED
    BY <1>1, <1>6, <2>1
<1> QED
  BY <1>5, <1>6, <1>7, <1>8, Zenon DEF plan, O

\* The turns of a pass are those of the policies it takes for accepted and their listeners.
LEMMA AllTurns ==
    ASSUME DNSTypeOK, NEW validated, NEW turns \in DNSTurns(DNSTopology, validated)
    PROVE  /\ turns \in Seq(DNSPolicySet \X ListenerSet)
           /\ \A p \in Effective(DNSTopology, validated) : \A l \in listenersForPolicy(DNSTopology, p) :
                \E k \in 1..Len(turns) : turns[k] = <<p, l>>
<1> DEFINE t == DNSTopology
           pairs == {x \in Effective(t, validated) \X ListenerSet : x[2] \in listenersForPolicy(t, x[1])}
<1>1. Effective(t, validated) \subseteq DNSPolicySet
  BY DEF Effective, Present, DNSTopology, DNSTypeOK
<1>2. pairs \subseteq DNSPolicySet \X ListenerSet
  BY <1>1, Zenon
<1>3. IsFiniteSet(pairs)
  <2>1. IsFiniteSet(DNSPolicySet \X ListenerSet)
    BY DNSAssumption, FS_Product, Zenon
  <2> QED
    BY <1>2, <2>1, FS_Subset, Zenon
<1>4. turns \in Orders(pairs)
  BY ZenonT(40) DEF DNSTurns
<1>5. \A p \in Effective(t, validated) : \A l \in listenersForPolicy(t, p) : <<p, l>> \in pairs
  BY DEF listenersForPolicy
<1> HIDE DEF pairs, t
<1>6. /\ turns \in Seq(pairs) /\ DOMAIN turns = 1..Len(turns)
      /\ \A x \in pairs : \E k \in DOMAIN turns : turns[k] = x
  BY <1>3, <1>4, OrderFacts, Zenon
<1>7. turns \in Seq(DNSPolicySet \X ListenerSet)
  BY <1>2, <1>6
<1> QED
  BY <1>5, <1>6, <1>7, Zenon DEF t

\* A pass that goes by the right verdicts and finds nothing to write has found the records right.
LEMMA NothingPlanned ==
    ASSUME DNSTypeOK, NEW validated, NEW turns \in DNSTurns(DNSTopology, validated),
           \A p \in DNSPolicySet : DNSLive(p) /\ DNSValid(p) => p \in Effective(DNSTopology, validated),
           reconcileDNS(DNSTopology, turns) = <<>>
    PROVE  DNSRecordsRight
<1> DEFINE t == DNSTopology
<1>1. /\ t.policy = dnsPolicy /\ t.listener = dnsListener /\ t.record = dnsRecord /\ t.addresses = dnsAddresses
  BY Zenon DEF DNSTopology
<1>2. /\ turns \in Seq(DNSPolicySet \X ListenerSet)
      /\ \A p \in Effective(t, validated) : \A l \in listenersForPolicy(t, p) :
           \E k \in 1..Len(turns) : turns[k] = <<p, l>>
  BY AllTurns, Zenon
<1>3. /\ reconcileLoop(t, turns)[Len(turns)].plan = <<>>
      /\ \A l \in ListenerSet : isOrphan(t, l) => t.record[l].deleting
  BY <1>2, ReconcilePlans, ZenonT(40)
<1> SUFFICES ASSUME \A l \in ListenerSet : dnsRecord[l] # NoRecord => ~dnsRecord[l].deleting
             PROVE  /\ \A p \in DNSPolicySet, l \in ListenerSet :
                         /\ DNSLive(p) /\ DNSValid(p)
                         /\ l \in listenersForPolicy(t, p)
                         /\ dnsListener[l].host # NoHost /\ dnsListener[l].routes /\ HasEndpoints(t, p)
                         => dnsRecord[l] # NoRecord /\ dnsRecord[l].spec = desiredDNSRecord(t, p, l)
                    /\ \A l \in ListenerSet : ~isOrphan(t, l)
  BY DEF DNSRecordsRight
<1>4. \A l \in ListenerSet : ~isOrphan(t, l)
  BY <1>1, <1>3, Zenon DEF isOrphan
<1>5. \A k \in 1..Len(turns) : ListenerTurn(t, LoopStart(t).spec, turns[k][1], turns[k][2]) = "skip"
  BY <1>1, <1>2, <1>3, NothingToDo, Zenon
<1>6. ASSUME NEW p \in DNSPolicySet, NEW l \in ListenerSet, DNSLive(p), DNSValid(p),
             l \in listenersForPolicy(t, p),
             dnsListener[l].host # NoHost, dnsListener[l].routes, HasEndpoints(t, p)
      PROVE  dnsRecord[l] # NoRecord /\ dnsRecord[l].spec = desiredDNSRecord(t, p, l)
  <2>1. PICK k \in 1..Len(turns) : turns[k] = <<p, l>>
    BY <1>2, <1>6, Zenon
  <2>2. ListenerTurn(t, LoopStart(t).spec, p, l) = "skip"
    BY <1>5, <2>1
  <2>3. ~ExclusionsFail(t, p)
    BY <1>6, Zenon DEF DNSValid, validateDNS, ExclusionsFail
  <2>4. desiredDNSRecord(t, p, l).host # NoHost
    BY <1>1, <1>6, Zenon DEF desiredDNSRecord
  <2>5. LinkListenerToDNSRecord(t, l)
    BY <1>1, <1>6, <2>2, <2>3, <2>4, Zenon DEF ListenerTurn
  <2>6. LoopStart(t).spec[l] = desiredDNSRecord(t, p, l)
    BY <1>1, <1>6, <2>2, <2>3, <2>4, <2>5, Zenon DEF ListenerTurn
  <2>7. dnsRecord[l] # NoRecord
    BY <1>1, <2>5, Zenon DEF LinkListenerToDNSRecord
  <2>8. LoopStart(t).spec[l] = dnsRecord[l].spec
    BY <1>1, <2>7 DEF LoopStart
  <2> QED
    BY <2>6, <2>7, <2>8, Zenon
<1> QED
  BY <1>4, <1>6, Zenon

\* A status is written: what the records have to be does not depend on it.
LEMMA DNSRecordsKeep ==
    ASSUME DNSTypeOK, NEW w \in DNSStatusType, dnsPolicy[w.policy] \in DNSPolicyType, SetDNSStatus(w),
           UNCHANGED <<dnsListener, dnsAddresses, dnsRecord>>, DNSRecordsRight
    PROVE  DNSRecordsRight'
<1> DEFINE t == DNSTopology
<1>1. /\ \A p \in DNSPolicySet : DNSLive(p)' = DNSLive(p)
      /\ \A p \in DNSPolicySet :
           /\ DNSValid(p)' = DNSValid(p)
           /\ listenersForPolicy(t, p)' = listenersForPolicy(t, p)
           /\ HasEndpoints(t, p)' <=> HasEndpoints(t, p)
      /\ DNSAlike(dnsPolicy, dnsPolicy', DNSPolicySet)
  BY DNSStatusKeeps, Zenon
<1>2. /\ t.policy = dnsPolicy /\ t.listener = dnsListener /\ t.record = dnsRecord
      /\ t'.policy = dnsPolicy' /\ t'.listener = dnsListener /\ t'.record = dnsRecord
  BY Zenon DEF DNSTopology
<1>3. \A p \in DNSPolicySet : \A l : desiredDNSRecord(t, p, l)' = desiredDNSRecord(t, p, l)
  BY <1>1, <1>2, Zenon DEF desiredDNSRecord, DNSAlike
<1>4. \A l : isOrphan(t, l)' <=> isOrphan(t, l)
  <2>1. /\ Present(dnsPolicy') = Present(dnsPolicy) /\ Present(dnsPolicy) \subseteq DNSPolicySet
        /\ \A p \in DNSPolicySet : dnsPolicy'[p].spec = dnsPolicy[p].spec
    BY <1>1, Zenon DEF DNSAlike
  <2>2. \A l : Exists(t, l)' <=> Exists(t, l)
    BY <1>2 DEF Exists
  <2> HIDE DEF t
  <2> QED
    BY <1>2, <2>1, <2>2, SMTT(20) DEF isOrphan
<1> HIDE DEF t
<1> SUFFICES ASSUME \A l \in ListenerSet : dnsRecord[l] # NoRecord => ~dnsRecord[l].deleting
             PROVE  /\ \A p \in DNSPolicySet, l \in ListenerSet :
                         /\ DNSLive(p)' /\ DNSValid(p)'
                         /\ l \in listenersForPolicy(t, p)'
                         /\ dnsListener[l].host # NoHost /\ dnsListener[l].routes /\ HasEndpoints(t, p)'
                         => dnsRecord[l] # NoRecord /\ dnsRecord[l].spec = desiredDNSRecord(t, p, l)'
                    /\ \A l \in ListenerSet : ~isOrphan(t, l)'
  BY Zenon DEF DNSRecordsRight, t
<1>5. /\ \A p \in DNSPolicySet, l \in ListenerSet :
           /\ DNSLive(p) /\ DNSValid(p)
           /\ l \in listenersForPolicy(t, p)
           /\ dnsListener[l].host # NoHost /\ dnsListener[l].routes /\ HasEndpoints(t, p)
           => dnsRecord[l] # NoRecord /\ dnsRecord[l].spec = desiredDNSRecord(t, p, l)
      /\ \A l \in ListenerSet : ~isOrphan(t, l)
  BY Zenon DEF DNSRecordsRight, t
<1> QED
  BY <1>1, <1>3, <1>4, <1>5, Zenon

\* A pass begins: it goes by its own verdicts, or by those of the statuses, which are right
\* unless another pass is asked for.
LEMMA DNSBeginRecords ==
    ASSUME DNSRecordInv, NEW es, StartDNSPass(es), DNSTakes(es), ~dnsLost', ~dnsTrigger'
    PROVE  DNSWriteTells' \/ (dnsPlan' = <<>> /\ DNSRecordsRight')
<1> DEFINE t == DNSTopology
           validated == es \cap ValidatorEvents # {}
<1>1. PICK turns \in DNSTurns(t, validated) : dnsPlan' = reconcileDNS(t, turns)
  BY Zenon DEF StartDNSPass
<1>2. /\ dnsLost => validated
      /\ DNSIdle
      /\ UNCHANGED <<dnsPolicy, dnsListener, dnsAddresses, dnsRecord>>
  <2>1. dnsLost \in BOOLEAN
    BY Zenon DEF DNSRecordInv, DNSStatusInv, DNSTypeOK
  <2> QED
    BY <2>1, Zenon DEF StartDNSPass
<1>3. DNSTypeOK /\ turns \in Seq(DNSPolicySet \X ListenerSet)
  BY AllTurns, Zenon DEF DNSRecordInv, DNSStatusInv
<1>4. t' = t /\ t.record = dnsRecord
  BY <1>2, Zenon DEF DNSTopology
<1> HIDE DEF validated
<1>5. CASE dnsPlan' # <<>>
  <2> DEFINE w == Head(dnsPlan')
  <2>1. w \in DNSWrites(t)
    BY <1>1, <1>3, <1>5, ReconcilePlans
  <2> HIDE DEF w
  <2>2. w.op = "delete" => dnsRecord[w.record] # NoRecord
    BY <1>4, <2>1, SeenRecordDeleted, Zenon
  <2> QED
    BY <1>2, <1>5, <2>2, Zenon DEF DNSWriteTells, w
<1>6. CASE dnsPlan' = <<>>
  <2>1. ASSUME NEW p \in DNSPolicySet, DNSLive(p), DNSValid(p)
        PROVE  p \in Effective(t, validated)
    <3>1. p \in Present(t.policy) /\ ~t.policy[p].deleting /\ t.policy = dnsPolicy
      BY <2>1, Zenon DEF DNSLive, DNSTopology
    <3>2. CASE validated
      BY <2>1, <3>1, <3>2, Zenon DEF Effective, dnsPolicyAccepted, DNSValid
    <3>3. CASE ~validated
      <4>1. ~dnsLost /\ ~DNSValidates
        <5>1. CASE es = dnsEvents
          BY <1>2, <3>3, <5>1, Zenon DEF DNSValidates, validated
        <5>2. CASE UNCHANGED dnsTrigger
          BY <1>2, <1>3, <3>3, <5>2, Zenon DEF DNSValidates, DNSTypeOK
        <5> QED
          BY <5>1, <5>2, Zenon DEF DNSTakes
      <4>2. ~DNSPlanned(p)
        BY <1>2 DEF DNSPlanned, DNSRecordInv, DNSStatusInv, DNSPassOK
      <4>3. dnsPolicy[p].accepted = "Accepted"
        BY <2>1, <4>1, <4>2, Zenon DEF DNSRecordInv, DNSStatusInv, AllAcceptedRight, AcceptedRight
      <4> QED
        BY <3>1, <3>3, <4>3, Zenon DEF Effective, dnsPolicyAccepted
    <3> QED
      BY <3>2, <3>3, Zenon
  <2>2. DNSRecordsRight
    BY <1>1, <1>3, <1>6, <2>1, NothingPlanned, Zenon
  <2>3. DNSRecordsRight'
    <3>1. \A p \in DNSPolicySet : DNSLive(p)' = DNSLive(p) /\ DNSValid(p)' = DNSValid(p)
      BY <1>2, <1>4, Zenon DEF DNSLive, DNSValid
    <3> QED
      BY <1>2, <1>4, <2>2, <3>1, Zenon DEF DNSRecordsRight
  <2> QED
    BY <1>6, <2>3, Zenon
<1> QED
  BY <1>5, <1>6, Zenon

\* A write of the reconciler asks for a pass or fails.
LEMMA DNSWriteRecords ==
    ASSUME DNSRecordInv, WriteRecord, DNSWriteTells
    PROVE  dnsTrigger' \/ dnsFailed'
<1> DEFINE w == Head(dnsPlan)
<1>1. CASE PerformDNS(w)
  <2>1. \E l, r : RecordChanged(l, r)
    <3>1. w.op = "delete" => dnsRecord[w.record] # NoRecord
      BY Zenon DEF DNSWriteTells
    <3> HIDE DEF w
    <3>2. CASE RecordChanged(w.record, [spec |-> w.spec, owner |-> w.owner,
                                       deleting |-> FALSE, failing |-> FALSE])
      BY <3>2
    <3>3. CASE RecordChanged(w.record, [dnsRecord[w.record] EXCEPT !.spec = w.spec])
      BY <3>3
    <3>4. CASE RecordChanged(w.record, [dnsRecord[w.record] EXCEPT !.deleting = TRUE])
      BY <3>4, Zenon
    <3> QED
      BY <1>1, <3>1, <3>2, <3>3, <3>4, Zenon DEF PerformDNS
  <2> QED
    BY <2>1, Zenon DEF RecordChanged, DNSChanged
<1>2. CASE dnsFailed' = TRUE
  BY <1>2, Zenon
<1> QED
  BY <1>1, <1>2, Zenon DEF WriteRecord

\* Every step of the DNS workflow keeps the records right or asks for a pass.
LEMMA DNSRecordsStep == DNSRecordInv /\ [DNSNext]_dnsVars => DNSRecordInv'
<1> SUFFICES ASSUME DNSRecordInv, [DNSNext]_dnsVars PROVE DNSRecordInv'
  OBVIOUS
<1>1. DNSStatusInv'
  BY DNSStep, Zenon DEF DNSRecordInv
<1>2. DNSTypeOK /\ dnsTrigger \in BOOLEAN /\ dnsFailed \in BOOLEAN /\ dnsLost \in BOOLEAN
  BY Zenon DEF DNSRecordInv, DNSStatusInv, DNSTypeOK
<1>3. CASE PassFrame /\ dnsTrigger'
  BY <1>1, <1>3, Zenon DEF DNSRecordInv, PassFrame, DNSIdle
<1>4. CASE BeginDNSPass \/ RetryDNSPass
  <2>1. PICK es : StartDNSPass(es) /\ DNSTakes(es)
    BY <1>4, DNSStarts, Zenon
  <2>2. ~DNSIdle'
    BY <2>1, Zenon DEF StartDNSPass, DNSIdle
  <2> QED
    BY <1>1, <2>1, <2>2, DNSBeginRecords, Zenon DEF DNSRecordInv
<1>5. CASE WriteRecord
  <2>1. ~DNSIdle' /\ dnsPlan # <<>> /\ UNCHANGED <<dnsRetry, dnsLost>>
    BY <1>5, Zenon DEF WriteRecord, DNSRecordInv, DNSIdle
  <2>2. CASE DNSWriteTells
    BY <1>1, <1>5, <2>1, <2>2, DNSWriteRecords, Zenon DEF DNSRecordInv
  <2>3. CASE dnsTrigger \/ dnsFailed
    <3>1. (dnsTrigger => dnsTrigger') /\ (dnsFailed => dnsFailed')
      BY <1>2, <1>5 DEF WriteRecord, PerformDNS, RecordChanged, DNSChanged
    <3> QED
      BY <1>1, <2>1, <2>3, <3>1, Zenon DEF DNSRecordInv
  <2> QED
    BY <1>1, <2>1, <2>2, <2>3, Zenon DEF DNSRecordInv
<1>6. CASE WriteDNSStatus
  <2> DEFINE w == Head(dnsStatuses)
  <2>1. /\ dnsStatuses # <<>> /\ dnsPlan = <<>>
        /\ UNCHANGED <<dnsListener, dnsAddresses, dnsRecord, dnsTrigger, dnsPass, dnsPlan, dnsFailed,
                       dnsRetry>>
    BY <1>6, Zenon DEF WriteDNSStatus
  <2>2. ~DNSIdle'
    BY <2>1 DEF DNSRecordInv, DNSStatusInv, DNSPassOK, DNSIdle
  <2>3. dnsLost => dnsLost'
    BY <1>2, <1>6, Zenon DEF WriteDNSStatus
  <2>4. ~DNSWriteTells
    BY <2>1, Zenon DEF DNSWriteTells
  <2>5. ASSUME DNSRecordsRight PROVE DNSRecordsRight'
    <3>1. CASE UNCHANGED dnsPolicy
      <4>1. DNSTopology' = DNSTopology
        BY <2>1, <3>1, Zenon DEF DNSTopology
      <4>2. \A p : DNSLive(p)' = DNSLive(p) /\ DNSValid(p)' = DNSValid(p)
        BY <3>1, <4>1, Zenon DEF DNSLive, DNSValid
      <4> QED
        BY <2>1, <2>5, <4>1, <4>2, Zenon DEF DNSRecordsRight
    <3>2. CASE DNSStatusAdmitted(w) /\ SetDNSStatus(w)
      <4>1. 1 \in DOMAIN dnsStatuses /\ w = dnsStatuses[1] /\ w \in DNSStatusType
        BY <1>2, <2>1, TailFacts, Zenon DEF DNSTypeOK
      <4>2. dnsPolicy[w.policy] # Unborn
        BY <4>1, Zenon DEF DNSRecordInv, DNSStatusInv, DNSPassOK
      <4>3. dnsPolicy[w.policy] \in DNSPolicyType
        <5>1. w.policy \in DNSPolicySet
          BY <4>1, Zenon DEF DNSStatusType
        <5> QED
          BY <1>2, <3>2, <4>2, <5>1, Zenon DEF DNSTypeOK, DNSStatusAdmitted
      <4> HIDE DEF w
      <4> QED
        BY <1>2, <2>1, <2>5, <3>2, <4>1, <4>3, DNSRecordsKeep, Zenon
    <3> QED
      BY <1>6, <3>1, <3>2, Zenon DEF WriteDNSStatus
  <2> QED
    BY <1>1, <2>1, <2>2, <2>3, <2>4, <2>5, Zenon DEF DNSRecordInv
<1>7. CASE EndDNSPass
  <2>1. /\ dnsPlan' = <<>> /\ ~dnsFailed'
        /\ UNCHANGED <<dnsPolicy, dnsListener, dnsAddresses, dnsRecord, dnsTrigger, dnsPlan>>
        /\ \/ ~dnsFailed /\ UNCHANGED <<dnsRetry, dnsLost>>
           \/ dnsRetry' # {}
           \/ dnsLost'
    BY <1>7, Zenon DEF EndDNSPass, DNSPassOver, DNSIdle
  <2>2. DNSTopology' = DNSTopology /\ ~DNSWriteTells
    BY <2>1, Zenon DEF DNSTopology, DNSWriteTells
  <2>3. \A p : DNSLive(p)' = DNSLive(p) /\ DNSValid(p)' = DNSValid(p)
    BY <2>1, <2>2, Zenon DEF DNSLive, DNSValid
  <2>4. DNSRecordsRight => DNSRecordsRight'
    BY <2>1, <2>2, <2>3, Zenon DEF DNSRecordsRight
  <2>5. dnsTrigger \in BOOLEAN /\ dnsLost \in BOOLEAN
    BY Zenon DEF DNSRecordInv, DNSStatusInv, DNSTypeOK
  <2>6. dnsLost' \/ dnsTrigger' \/ dnsRetry' # {} \/ DNSRecordsRight'
    <3>1. CASE ~dnsFailed /\ UNCHANGED <<dnsRetry, dnsLost>>
      <4>1. dnsLost \/ dnsTrigger \/ dnsRetry # {} \/ DNSRecordsRight
        BY <2>2, <3>1, Zenon DEF DNSRecordInv
      <4> QED
        BY <2>1, <2>4, <2>5, <3>1, <4>1, Zenon
    <3> QED
      BY <2>1, <3>1, Zenon
  <2> QED
    BY <1>1, <2>1, <2>6, Zenon DEF DNSRecordInv
<1>8. CASE RestartDNS \/ AbortDNSPass
  BY <1>1, <1>8, Zenon DEF RestartDNS, AbortDNSPass, DNSPassOver, DNSRecordInv
<1>13. CASE OtherDNSPass
  BY <1>1, <1>13, Zenon DEF OtherDNSPass, DNSRecordInv, DNSIdle
<1>9. CASE UNCHANGED dnsVars
  <2>1. UNCHANGED <<dnsPolicy, dnsListener, dnsAddresses, dnsRecord, dnsTrigger, dnsPass, dnsPlan,
                    dnsFailed, dnsRetry, dnsLost>>
    BY <1>9, Zenon DEF dnsVars
  <2>2. DNSTopology' = DNSTopology
    BY <2>1, Zenon DEF DNSTopology
  <2>3. \A p : DNSLive(p)' = DNSLive(p) /\ DNSValid(p)' = DNSValid(p)
    BY <2>1, <2>2, Zenon DEF DNSLive, DNSValid
  <2>4. (DNSRecordsRight => DNSRecordsRight') /\ (DNSWriteTells => DNSWriteTells')
    BY <2>1, <2>2, <2>3, Zenon DEF DNSRecordsRight, DNSWriteTells
  <2> QED
    BY <1>1, <2>1, <2>4, Zenon DEF DNSRecordInv, DNSIdle
<1>10. ASSUME NEW p \in DNSPolicySet,
              UserCreatesPolicy(p) \/ UserEditsPolicy(p) \/ UserDeletesPolicy(p) \/ PolicyFinalized(p)
       PROVE  PassFrame /\ dnsTrigger'
  BY <1>10, Zenon DEF UserCreatesPolicy, UserEditsPolicy, UserDeletesPolicy, PolicyFinalized,
               PolicyChanged, DNSChanged
<1>11. ASSUME NEW l \in ListenerSet, CollectRecord(l) \/ RecordFinalized(l) \/ RecordReported(l)
       PROVE  PassFrame /\ dnsTrigger'
  BY <1>11, Zenon DEF CollectRecord, RecordFinalized, RecordReported, RecordFrame, RecordChanged, DNSChanged
<1>12. GatewayChanges => PassFrame /\ dnsTrigger'
  BY DEF GatewayChanges
<1> QED
  BY <1>3, <1>4, <1>5, <1>6, <1>7, <1>8, <1>9, <1>10, <1>11, <1>12, <1>13, Zenon
  DEF DNSNext, DNSOperate, DNSCollect

LEMMA DNSRecordsInitially == DNSInit => DNSRecordInv
<1>1. DNSInit => dnsTrigger /\ dnsPlan = <<>> /\ ~dnsFailed
  BY Zenon DEF DNSInit
<1> QED
  BY <1>1, DNSInitially, Zenon DEF DNSRecordInv

\* The invariant says what is wanted.
LEMMA DNSRecordsSuffice == DNSRecordInv => DNSRecordsMatch
<1> SUFFICES ASSUME DNSRecordInv, DNSAtRest, ~dnsLost PROVE DNSRecordsMatch
  BY Zenon DEF DNSRecordsMatch
<1> DEFINE t == DNSTopology
<1>1. t.policy = dnsPolicy
  BY Zenon DEF DNSTopology
<1>2. /\ DNSIdle /\ ~dnsTrigger /\ dnsRetry = {}
      /\ \A l \in ListenerSet : dnsRecord[l] # NoRecord => ~dnsRecord[l].deleting
  BY Zenon DEF DNSAtRest, DNSWaits
<1>3. DNSRecordsRight
  BY <1>2, Zenon DEF DNSRecordInv, DNSWriteTells
<1>4. \A l \in ListenerSet : dnsRecord[l] # NoRecord =>
        /\ Exists(t, l)
        /\ dnsRecord[l].owner \in Present(t.policy)
        /\ t.policy[dnsRecord[l].owner].spec.target \in {l, "gateway"}
  BY <1>2, <1>3, Zenon DEF DNSRecordsRight, isOrphan, DNSTopology
<1>5. \A p \in Present(t.policy) : ~dnsPolicy[p].deleting => p \in DNSPolicySet /\ DNSLive(p)
  BY <1>1, Zenon DEF DNSLive, Present, DNSRecordInv, DNSStatusInv, DNSTypeOK
<1>6. \A p \in Present(t.policy), l \in ListenerSet :
        /\ ~dnsPolicy[p].deleting /\ validateDNS(t, p) = "Accepted"
        /\ l \in listenersForPolicy(t, p)
        /\ dnsListener[l].host # NoHost /\ dnsListener[l].routes /\ HasEndpoints(t, p)
        => dnsRecord[l] # NoRecord /\ dnsRecord[l].spec = desiredDNSRecord(t, p, l)
  BY <1>2, <1>3, <1>5, Zenon DEF DNSRecordsRight, DNSValid
<1> QED
  BY <1>4, <1>6, Zenon DEF DNSRecordsMatch

-----------------------------------------------------------------------------
\* The status updater of DNS policies (updateStatus, dnsPolicyAcceptedStatusFunc): at rest
\* a policy is reported accepted exactly if it is valid now, and enforced according to its
\* records, whatever passes ran without the validator, conflicted or were repeated, unless
\* a failure was lost since the last pass with the validator (dnsLost).
THEOREM DNSStatusesCurrent == DNSSpec => []DNSStatusCurrent
<1>1. DNSSpec => []DNSStatusInv
  BY DNSInitially, DNSStep, PTL DEF DNSSpec
<1> QED
  BY <1>1, DNSInvSuffices, PTL

\* The effective policies reconciler of DNS policies (reconcile, deleteOrphanDNSRecords): at
\* rest every listener that a valid policy covers has the record that the policy asks for, and
\* no record is left without its listener and policy, whatever the order of the loops, and
\* although a record that cannot be updated ends the loop over the policy's listeners, and
\* although a pass cancels the retry of the one before, unless a failure was lost (dnsLost).
THEOREM DNSRecordsKept == DNSSpec => []DNSRecordsMatch
<1>1. DNSSpec => []DNSRecordInv
  BY DNSRecordsInitially, DNSRecordsStep, PTL DEF DNSSpec
<1> QED
  BY <1>1, DNSRecordsSuffice, PTL

=============================================================================
