------------------------------ MODULE Policies ------------------------------
(***************************************************************************)
(* The DNS and the TLS workflow together.  They share no object but the    *)
(* gateway, and neither reads what the other writes: a behaviour explores  *)
(* one of them, chosen at the start, and leaves the other alone.           *)
(***************************************************************************)
EXTENDS DNSPolicies, TLSPolicies

VARIABLE workflow

PoliciesInit ==
    /\ workflow \in {"dns", "tls"}
    /\ DNSInit /\ (workflow = "tls" => Present(dnsPolicy) = {})
    /\ TLSInit /\ (workflow = "dns" => Present(tlsPolicy) = {})

PoliciesNext ==
    /\ \/ workflow = "dns" /\ DNSNext /\ UNCHANGED tlsVars
       \/ workflow = "tls" /\ TLSNext /\ UNCHANGED dnsVars
    /\ UNCHANGED workflow

policiesVars == <<dnsVars, tlsVars, workflow>>

passes == <<dnsPass, dnsPlan, dnsStatuses, tlsPass, tlsPlan, tlsStatuses>>

\* DNSFairness of the one workflow and TLSFairness of the other, in one formula; there is
\* nothing to collect for the workflow that is left alone.
PoliciesFairness ==
    /\ \/ []<>IF workflow = "dns" THEN DNSWaits ELSE TLSWaits
       \/ []<><<passes' # passes>>_policiesVars
    /\ WF_dnsVars(DNSCollect)
    /\ WF_tlsVars(TLSCollect)

PoliciesSpec == PoliciesInit /\ [][PoliciesNext]_policiesVars /\ PoliciesFairness

\* At rest the status of the policies is current, of DNS policies (DNSStatusCurrent) and of
\* TLS policies that are reported enforced (TLSEnforcedBacked).
PolicyStatusCurrent == DNSStatusCurrent /\ TLSEnforcedBacked

\* The passes that the operator's own writes to records and certificates cause come to
\* an end once users leave the cluster alone.  Excepted are tied policies: a pass that
\* runs without the validator may take a DNS policy in conflict for accepted, which changes
\* its status, and so the next pass validates it.  Excepted are listeners with several
\* certificateRefs, whose certificates have one name and replace each other for ever.
PoliciesSettle ==
    <>[]IF workflow = "dns" THEN Tied(dnsPolicy) \/ DNSAtRest
                            ELSE Tied(tlsPolicy) \/ Doubled \/ TLSAtRest

=============================================================================
