---------------------------- MODULE OperandPlane ----------------------------
(***************************************************************************)
(* The Authorino and the Limitador instances that a Kuadrant resource      *)
(* asks for, their part in the Istio mesh (sidecars and                    *)
(* PeerAuthentication), and the status of the Kuadrant resource.           *)
(***************************************************************************)
EXTENDS DataPlane

NewAuthorino(tracing) == [ready |-> FALSE, port |-> "default", tracing |-> tracing]

\* An apply by the operator: its fields, and the object that it makes of them.
Applied(fields, fresh) == [fields |-> fields, fresh |-> fresh]

\* AuthorinoReconciler.Reconcile.  An instance that is there already is only given the
\* tracing endpoint, which is taken over if it had none when listed.
ReconcileAuthorino(w, E) ==
    LET old == Authorino(w)
        tracing == Kuadrant(w).tracing
        forced == old.tracing = "none" /\ tracing # "none" IN
    IF ~HasKuadrant(w) \/ ~(OnType(E, "Kuadrant", {"create", "update"}) \/ On(E, {"Authorino"}))
      THEN <<>>
    ELSE IF old = Absent
      THEN <<Write("ensure", "Authorino", "authorino", NewAuthorino(tracing), "retry")>>
    ELSE <<Write(IF forced THEN "apply" ELSE "claim", "Authorino", "authorino",
                 Applied([tracing |-> tracing], NewAuthorino(tracing)), "abort")>>

NewLimitador(tracing) ==
    [limits |-> {}, ready |-> FALSE, service |-> FALSE, reservations |-> TRUE, tracing |-> tracing]

\* Faulty: the limits are applied, too.
ReconcileLimitadorLimits(w, E) ==
    LET tracing == Kuadrant(w).tracing IN
    IF HasKuadrant(w) /\ (OnType(E, "Kuadrant", {"create", "update"}) \/ On(E, {"Limitador"}))
      THEN <<Write("apply", "Limitador", "limitador",
                   Applied([tracing |-> tracing, limits |-> {}], NewLimitador(tracing)), "either")>>
      ELSE <<>>

\* LimitadorReconciler.Reconcile: the endpoint of a user is left alone.  The error of the apply
\* is recorded, and that of the second one, after a conflict over fields, is returned.
ReconcileLimitador(w, E) ==
    LET tracing == Kuadrant(w).tracing IN
    IF HasKuadrant(w) /\ (OnType(E, "Kuadrant", {"create", "update"}) \/ On(E, {"Limitador"}))
      THEN <<Write("claim", "Limitador", "limitador",
                   Applied([tracing |-> tracing], NewLimitador(tracing)), "either")>>
      ELSE <<>>

-----------------------------------------------------------------------------
\* Both Istio integrations and the PeerAuthentication ask for mTLS where it is enabled and
\* there are effective policies.
AuthorinoMTLS(w, E) ==
    "authorino" \in Kuadrant(w).mtls /\ DOMAIN EffectiveAuthPolicies(w, E) # {}

LimitadorMTLS(w, E) ==
    "limitador" \in Kuadrant(w).mtls /\ DOMAIN EffectiveRateLimitPolicies(w, E) # {}

\* PeerAuthenticationReconciler.Run: without effective policies in the state it fails.
ReconcilePeerAuthentication(w, E) ==
    IF ~(HasKuadrant(w) /\ On(E, {"Kuadrant", "GatewayClass", "Gateway", "HTTPRoute",
                                  "RateLimitPolicy", "AuthPolicy", "PeerAuthentication"}))
      THEN <<>>
    ELSE IF ~HasEffective(w, E) THEN <<Abort("PeerAuthentication", "default")>>
    ELSE IF LimitadorMTLS(w, E) \/ AuthorinoMTLS(w, E)
      THEN <<Write("ensure", "PeerAuthentication", "default", [mode |-> "STRICT"], "abort")>>
    ELSE <<Delete("PeerAuthentication", "default", "abort")>>

\* Only the deployment of Limitador is part of the topology.
Sidecar(kind, inject) == Write("patch", kind, "deployment", [sidecar |-> inject], "abort")

\* LimitadorIstioIntegrationReconciler.Run
ReconcileLimitadorIntegration(w, E) ==
    IF ~(HasKuadrant(w) /\ On(E, {"Kuadrant", "Limitador", "GatewayClass", "Gateway", "HTTPRoute",
                                  "RateLimitPolicy"}))
      THEN <<>>
    ELSE IF ~HasEffective(w, E) THEN <<Abort("Deployment", "deployment")>>
    ELSE IF Limitador(w) = Absent \/ w.Deployment["deployment"] = Absent THEN <<>>
    ELSE <<Sidecar("Deployment", LimitadorMTLS(w, E))>>

\* AuthorinoIstioIntegrationReconciler.Run: it computes the effective policies if it must,
\* and looks for the deployment in the cluster.
ReconcileAuthorinoIntegration(w, E) ==
    IF HasKuadrant(w) /\ On(E, {"Kuadrant", "Authorino", "GatewayClass", "Gateway", "HTTPRoute",
                                "AuthPolicy"})
      THEN <<Sidecar("AuthorinoDeployment", AuthorinoMTLS(w, E))>> ELSE <<>>

-----------------------------------------------------------------------------
\* readyCondition
KuadrantReady(w) ==
    IF MissingDependency(w, "authorino") \/ MissingDependency(w, "limitador")
      THEN "MissingDependency"
    ELSE IF Limitador(w) = Absent \/ ~Limitador(w).ready THEN "LimitadorNotReady"
    ELSE IF Authorino(w) = Absent \/ ~Authorino(w).ready THEN "AuthorinoNotReady"
    ELSE "Ready"

\* mtlsAuthorino and mtlsLimitador: no, if the pass has no effective policies.
MTLSStatus(w, E) ==
    {c \in {"authorino", "limitador"} :
       HasEffective(w, E) /\ IF c = "authorino" THEN AuthorinoMTLS(w, E) ELSE LimitadorMTLS(w, E)}

KuadrantStatusEvents(E) ==
    \/ \E k \in {"Authorino", "Kuadrant", "Limitador"} : OnType(E, k, {"create", "update"})
    \/ On(E, {"GatewayClass", "Gateway", "HTTPRoute"})

\* KuadrantStatusUpdater.Reconcile: only a status that has changed, and a failure is ignored.
UpdateKuadrantStatus(w, E) ==
    LET new == [Kuadrant(w) EXCEPT !.ready = KuadrantReady(w), !.mtlsStatus = MTLSStatus(w, E)] IN
    IF KuadrantStatusEvents(E) /\ HasKuadrant(w) /\ new # Kuadrant(w)
      THEN <<Write("update", "Kuadrant", "kuadrant", new, "log")>> ELSE <<>>

=============================================================================
