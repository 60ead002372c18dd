----------------------------- MODULE MCRecovery -----------------------------
(***************************************************************************)
(* What brings the operator back to where it should be after a failure:    *)
(* the retries of writes that failed, and the control plane with its       *)
(* bootstrap after a restart.  A behaviour is about one of them.           *)
(*                                                                         *)
(* Retries: two reconcilers, each with a kind of its own, that both watch  *)
(* gateways.                                                               *)
(*                                                                         *)
(* Control plane: a component whose objects are all to be kept, and one    *)
(* that OLM had installed elsewhere, of which only the CRDs are.           *)
(***************************************************************************)
EXTENDS ReconciliationErrors, ControlPlane

CONSTANTS r1, r2, filter1, filter2, gateway

VARIABLE focus

MCWatches == [r \in Reconcilers |->
    {gateway} \cup IF r = r1 THEN {filter1} ELSE {filter2}]
MCOwns == [r \in Reconcilers |-> IF r = r1 THEN filter1 ELSE filter2]

MCCharts == <<"dns-operator", "mcp-gateway">>

MCInit ==
    /\ focus \in {"retries", "control plane"}
    /\ Init
    /\ ControlPlaneInit
    /\ focus = "retries" => ~olmInstalled

MCNext ==
    \/ focus = "retries" /\ Next /\ UNCHANGED <<focus, controlPlaneVars>>
    \/ focus = "control plane" /\ ControlPlaneNext /\ UNCHANGED <<focus, vars>>

MCSpec == MCInit /\ [][MCNext]_<<focus, vars, controlPlaneVars>>
=============================================================================
