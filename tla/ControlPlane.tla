---------------------------- MODULE ControlPlane ----------------------------
(***************************************************************************)
(* The control plane: the operator brings its child operators up from the  *)
(* charts in its image (internal/controlplane).  Three of its parts meet   *)
(* on the same objects of the cluster:                                     *)
(*                                                                         *)
(*  - before the manager starts, main applies the CRDs of the components;  *)
(*  - the bootstrap of the leader creates the KuadrantControlPlane, takes  *)
(*    the components over from OLM, which had installed them one by one    *)
(*    before, and frees the Kuadrant resources of a legacy finalizer;      *)
(*  - the reconciler deploys the components and reports on them.           *)
(*                                                                         *)
(* OLM owns what it installed through a ClusterServiceVersion (CSV): what  *)
(* is owned by a CSV, and by nothing else, goes with it.                   *)
(***************************************************************************)
EXTENDS Naturals, Sequences, FiniteSets

CONSTANTS
    Components,  \* the names of the components
    Charts,      \* the components in the order of allComponents
    Migrations,  \* those that OLM may have installed, in the order of Cleanup
    Kuadrants,   \* the Kuadrant resources of the cluster
    MaxFaults    \* how often a call fails, the operator crashes or a user changes something

ASSUME ComponentsAssumption ==
    /\ Charts \in Seq(Components)
    /\ Migrations \in Seq({"dns-operator", "mcp-gateway", "authorino-operator", "limitador-operator"} \cap Components)
    /\ Migrations # <<>>

VARIABLES
    olmInstalled,  \* OLM is installed
    subscriptions, \* components with a Subscription
    csvs,          \* components with a CSV
    present,       \* the objects of a component, by kind
    csvOwned,      \* those with an owner reference to the CSV
    kcpOwner,      \* the uid of the KuadrantControlPlane that owns an object, or 0
    established,   \* components with an established CRD
    available,     \* components with an available Deployment
    kcp,           \* the uid of the KuadrantControlPlane, or 0
    uids,          \* the last uid given
    status,        \* its status
    legacy,        \* Kuadrant resources with the legacy finalizer
    boot,          \* where main and the bootstrap are
    rec,           \* where the reconciler is
    queue,         \* the work queue holds a request for the KuadrantControlPlane
    faults         \* faults, crashes and changes so far

olmVars == <<olmInstalled, subscriptions, csvs>>
objectVars == <<present, csvOwned, kcpOwner, established, available>>
kcpVars == <<kcp, uids, status>>
controlPlaneVars == <<olmVars, objectVars, kcpVars, legacy, boot, rec, queue, faults>>

-----------------------------------------------------------------------------
(***************************************************************************)
(* The objects of a component: its CRDs, as one; its Deployment; the       *)
(* ConfigMap that users may edit; and one for all others.                  *)
(***************************************************************************)
ObjectKinds == {"crd", "other", "configmap", "deployment"}

\* The kinds with a watch of the reconciler.
Watched == {"crd", "deployment"}

\* What a chart has besides CRDs, by install order.
Resources(c) == IF c = "dns-operator" THEN <<"other", "configmap", "deployment">> ELSE <<"other", "deployment">>

\* What the migration of a component strips of its owner reference to the CSV, in this order.
StripOrder(c) ==
    CASE c = "dns-operator" -> <<"deployment", "crd", "configmap">>
      [] c = "mcp-gateway" -> <<"crd">>
      [] c \in {"authorino-operator", "limitador-operator"} -> <<"deployment", "crd">>
      [] OTHER -> <<>>

Stripped(c) == {StripOrder(c)[j] : j \in DOMAIN StripOrder(c)}

\* The garbage collector deletes an object that has owners, none of which exists.
Garbage(c, r) ==
    /\ r \in present[c]
    /\ r \in csvOwned[c] \/ kcpOwner[c][r] # 0
    /\ r \in csvOwned[c] => c \notin csvs
    /\ kcpOwner[c][r] # 0 => kcpOwner[c][r] # kcp

-----------------------------------------------------------------------------
\* main, from its beginning: no leader yet, no reconciler.
MainStart == [pc |-> "apply", at |-> 1, step |-> 1, olm |-> FALSE, failed |-> FALSE,
          todo |-> {}, errors |-> FALSE]

NoRequest == [pc |-> "idle", at |-> 1, uid |-> 0, failed |-> FALSE]

NoStatus == [reason |-> "none", ready |-> {}, crds |-> {}]

Leading == boot.pc \notin {"apply", "wait", "elect"}

\* A watch of the reconciler notices something.
Notices == queue' = (queue \/ Leading)

Exits == boot' = MainStart /\ rec' = NoRequest /\ queue' = FALSE

Fault == faults < MaxFaults /\ faults' = faults + 1

\* Before the first start of this version: OLM has installed the components and runs, or there is
\* no OLM.
ControlPlaneInit ==
    /\ olmInstalled \in BOOLEAN
    /\ subscriptions = IF olmInstalled THEN {Migrations[i] : i \in DOMAIN Migrations} ELSE {}
    /\ csvs = subscriptions
    /\ present = [c \in Components |->
                    IF c \notin csvs THEN {}
                    ELSE IF c = "mcp-gateway" THEN {"crd", "other"}
                    ELSE {"crd"} \cup {Resources(c)[j] : j \in DOMAIN Resources(c)}]
    /\ csvOwned = present
    /\ kcpOwner = [c \in Components |-> [r \in ObjectKinds |-> 0]]
    /\ established = csvs
    /\ available = {c \in csvs : "deployment" \in present[c]}
    /\ kcp = 0 /\ uids = 0 /\ status = NoStatus
    /\ legacy = Kuadrants
    /\ boot = MainStart /\ rec = NoRequest /\ queue = FALSE
    /\ faults = 0

-----------------------------------------------------------------------------
(***************************************************************************)
(* Server-side apply.  CRDs are applied without an owner, and keep those   *)
(* that they have; on other objects the reference to the control plane     *)
(* replaces the one that the operator applied before, next to that of a    *)
(* CSV.                                                                    *)
(***************************************************************************)
ApplyCRD(c) ==
    /\ present' = [present EXCEPT ![c] = @ \cup {"crd"}]
    /\ UNCHANGED <<csvOwned, kcpOwner, established, available>>

ApplyResources(c, applied, uid) ==
    /\ present' = [present EXCEPT ![c] = @ \cup applied]
    /\ kcpOwner' = [kcpOwner EXCEPT ![c] = [r \in ObjectKinds |-> IF r \in applied THEN uid ELSE @[r]]]
    /\ UNCHANGED <<csvOwned, established, available>>

\* main: ApplyCRDsForComponents, without a leader.
BootApply ==
    /\ boot.pc = "apply"
    /\ \/ /\ boot.at <= Len(Charts)
          /\ ApplyCRD(Charts[boot.at])
          /\ boot' = [boot EXCEPT !.pc = "wait"]
          /\ UNCHANGED <<rec, queue, faults>>
       \/ /\ boot.at > Len(Charts)
          /\ boot' = [boot EXCEPT !.pc = "elect"]
          /\ UNCHANGED <<objectVars, rec, queue, faults>>
       \/ Fault /\ Exits /\ UNCHANGED objectVars
    /\ UNCHANGED <<olmVars, kcpVars, legacy>>

\* WaitForCRDs: polls until it reads that the CRD is established, or for 30 seconds.
BootWait ==
    /\ boot.pc = "wait"
    /\ \/ /\ Charts[boot.at] \in established
          /\ boot' = [boot EXCEPT !.pc = "apply", !.at = @ + 1]
          /\ UNCHANGED <<rec, queue, faults>>
       \/ Fault /\ Exits
    /\ UNCHANGED <<olmVars, objectVars, kcpVars, legacy>>

\* The operator becomes the leader; the watches list what there is.
Elected ==
    /\ boot.pc = "elect"
    /\ boot' = [boot EXCEPT !.pc = "ensure"]
    /\ queue' = TRUE
    /\ UNCHANGED <<olmVars, objectVars, kcpVars, legacy, rec, faults>>

NewControlPlane == kcp' = uids + 1 /\ uids' = uids + 1 /\ status' = NoStatus

\* ensureDefaultControlPlane; when it fails the bootstrap ends with an error, and so does the manager.
EnsureControlPlane ==
    /\ boot.pc = "ensure"
    /\ \/ /\ IF kcp = 0 THEN NewControlPlane /\ queue' = TRUE ELSE UNCHANGED <<kcpVars, queue>>
          /\ boot' = [boot EXCEPT !.pc = "detect"]
          /\ UNCHANGED <<rec, faults>>
       \/ Fault /\ Exits /\ UNCHANGED kcpVars
    /\ UNCHANGED <<olmVars, objectVars, legacy>>

-----------------------------------------------------------------------------
(***************************************************************************)
(* Cleanup of OLM's resources, one component after the other.              *)
(***************************************************************************)
Migrating == Migrations[boot.at]

\* The first component from the i-th, or the end of the migration.
Migrate(i, failed) ==
    boot' = [boot EXCEPT !.at = i, !.step = 1, !.failed = failed,
                         !.pc = IF i <= Len(Migrations) THEN "strip" ELSE "finalizers"]

\* isOLMInstalled: when the discovery fails OLM is taken for not installed.
DetectOLM ==
    /\ boot.pc = "detect"
    /\ \/ /\ IF olmInstalled
             THEN boot' = [boot EXCEPT !.at = 1, !.olm = TRUE, !.pc = "strip"]
             ELSE boot' = [boot EXCEPT !.pc = "finalizers"]
          /\ UNCHANGED faults
       \/ boot' = [boot EXCEPT !.pc = "finalizers"] /\ Fault
    /\ UNCHANGED <<olmVars, objectVars, kcpVars, legacy, rec, queue>>

\* Faulty: the migration goes on after a strip that failed.
StripFailureSkipped == boot' = [boot EXCEPT !.step = @ + 1]

\* An error ends the migration of the component; the others go on.
MigrationFails == Migrate(boot.at + 1, TRUE)

\* stripResource for the next resource, which may not exist; then the deletions.
StripResource ==
    /\ boot.pc = "strip"
    /\ IF boot.step <= Len(StripOrder(Migrating))
       THEN \/ /\ csvOwned' = [csvOwned EXCEPT ![Migrating] = @ \ {StripOrder(Migrating)[boot.step]}]
               /\ boot' = [boot EXCEPT !.step = @ + 1]
               /\ UNCHANGED faults
            \/ MigrationFails /\ Fault /\ UNCHANGED csvOwned
       ELSE boot' = [boot EXCEPT !.pc = "subscription"] /\ UNCHANGED <<csvOwned, faults>>
    /\ queue' = (queue \/ \E r \in Watched : r \in csvOwned[Migrating] \ csvOwned'[Migrating])
    /\ UNCHANGED <<olmVars, present, kcpOwner, established, available, kcpVars, legacy, rec>>

\* Faulty: a component whose Subscription is gone is taken for migrated.
DeleteSubscriptionFirst ==
    /\ boot.pc = "subscription"
    /\ IF Migrating \in subscriptions
       THEN boot' = [boot EXCEPT !.pc = "csv"] ELSE Migrate(boot.at + 1, boot.failed)
    /\ subscriptions' = subscriptions \ {Migrating}
    /\ UNCHANGED <<olmInstalled, csvs, objectVars, kcpVars, legacy, rec, queue, faults>>

\* deleteSubscriptionForPackage: finds it or not.
DeleteSubscription ==
    /\ boot.pc = "subscription"
    /\ \/ /\ subscriptions' = subscriptions \ {Migrating}
          /\ boot' = [boot EXCEPT !.pc = "csv"]
          /\ UNCHANGED faults
       \/ MigrationFails /\ Fault /\ UNCHANGED subscriptions
    /\ UNCHANGED <<olmInstalled, csvs, objectVars, kcpVars, legacy, rec, queue>>

\* deleteCSVForPackage
DeleteCSV ==
    /\ boot.pc = "csv"
    /\ \/ /\ csvs' = csvs \ {Migrating}
          /\ Migrate(boot.at + 1, boot.failed)
          /\ UNCHANGED faults
       \/ MigrationFails /\ Fault /\ UNCHANGED csvs
    /\ UNCHANGED <<olmInstalled, subscriptions, objectVars, kcpVars, legacy, rec, queue>>

-----------------------------------------------------------------------------
(***************************************************************************)
(* The legacy finalizer.  A pass lists the Kuadrant resources that have it *)
(* and takes it away from one after the other; passes go on until one has  *)
(* no error.                                                               *)
(***************************************************************************)
ListKuadrants ==
    /\ boot.pc = "finalizers"
    /\ boot' = [boot EXCEPT !.pc = "remove", !.todo = legacy, !.errors = FALSE]
    /\ UNCHANGED <<olmVars, objectVars, kcpVars, legacy, rec, queue, faults>>

\* A resource that has gone meanwhile counts as done.
RemoveFinalizer ==
    /\ boot.pc = "remove"
    /\ \E k \in boot.todo :
         \/ /\ legacy' = legacy \ {k}
            /\ boot' = [boot EXCEPT !.todo = @ \ {k}]
            /\ UNCHANGED faults
         \/ boot' = [boot EXCEPT !.todo = @ \ {k}, !.errors = TRUE] /\ Fault /\ UNCHANGED legacy
    /\ UNCHANGED <<olmVars, objectVars, kcpVars, rec, queue>>

PassEnds ==
    /\ boot.pc = "remove" /\ boot.todo = {}
    /\ boot' = [boot EXCEPT !.pc = IF boot.errors THEN "finalizers" ELSE "done"]
    /\ UNCHANGED <<olmVars, objectVars, kcpVars, legacy, rec, queue, faults>>

-----------------------------------------------------------------------------
(***************************************************************************)
(* The reconciler, for the KuadrantControlPlane of the default name, the   *)
(* only one that it serves.  It reads the resource, deploys the components *)
(* one after the other, whichever of them fail, and writes the status.     *)
(***************************************************************************)
Deploying == Charts[rec.at]

\* The first component from the i-th, or the end of deployComponents.
Deploy(i, failed) ==
    rec' = [rec EXCEPT !.at = i, !.failed = failed, !.pc = IF i <= Len(Charts) THEN "apply" ELSE "status"]

\* A control plane that is gone is not created again.
ReconcileControlPlane ==
    /\ Leading /\ rec.pc = "idle" /\ queue
    /\ queue' = FALSE
    /\ rec' = IF kcp = 0 THEN NoRequest ELSE [pc |-> "apply", at |-> 1, uid |-> kcp, failed |-> FALSE]
    /\ UNCHANGED <<olmVars, objectVars, kcpVars, legacy, boot, faults>>

\* DeployComponent: its chart is rendered and the CRDs are applied.
DeployCRD ==
    /\ rec.pc = "apply"
    /\ \/ /\ ApplyCRD(Deploying)
          /\ rec' = [rec EXCEPT !.pc = "wait"]
          /\ UNCHANGED faults
       \/ Deploy(rec.at + 1, TRUE) /\ Fault /\ UNCHANGED objectVars
    /\ queue' = (queue \/ present' # present)
    /\ UNCHANGED <<olmVars, kcpVars, legacy, boot>>

WaitForCRD ==
    /\ rec.pc = "wait"
    /\ \/ Deploying \in established /\ rec' = [rec EXCEPT !.pc = "resources"] /\ UNCHANGED faults
       \/ Deploy(rec.at + 1, TRUE) /\ Fault
    /\ UNCHANGED <<olmVars, objectVars, kcpVars, legacy, boot, queue>>

\* The resources are applied in order, up to the first that fails.
DeployResources ==
    LET c == Deploying
        Applied(n) == {Resources(c)[j] : j \in 1..n}
    IN
    /\ rec.pc = "resources"
    /\ \E n \in 0..Len(Resources(c)) :
         /\ ApplyResources(c, Applied(n), rec.uid)
         /\ Deploy(rec.at + 1, rec.failed \/ n < Len(Resources(c)))
         /\ IF n = Len(Resources(c)) THEN UNCHANGED faults ELSE Fault
         /\ queue' = (queue \/ \E r \in Watched \cap Applied(n) : r \notin present[c] \/ kcpOwner[c][r] # rec.uid)
    /\ UNCHANGED <<olmVars, kcpVars, legacy, boot>>

\* buildComponentStatuses, and the Ready condition of updateStatus, with the CRDs that are seen to be
\* established.
StatusNow(failed, seen) ==
    [reason |-> IF failed THEN "DeployFailed"
                ELSE IF \E i \in DOMAIN Charts : Charts[i] \notin available THEN "ComponentsUnhealthy"
                ELSE "ComponentsHealthy",
     ready |-> available,
     crds |-> seen]

\* Faulty: a status that could not be written is not written again.
StatusDropped == queue' = queue

\* A status that could not be written, or a component that failed, puts the request back.
StatusRetried == queue' = TRUE

\* A CRD that cannot be read counts as not established.  The resource has been read at the beginning,
\* so that the update is refused if it has gone or is another one; or if another update of it came in
\* between.
UpdateStatus ==
    /\ rec.pc = "status"
    /\ rec' = NoRequest
    /\ \/ /\ kcp = rec.uid
          /\ \/ status' = StatusNow(rec.failed, established) /\ UNCHANGED faults
             \/ \E c \in established : status' = StatusNow(rec.failed, established \ {c}) /\ Fault
          /\ IF rec.failed THEN StatusRetried ELSE queue' = (queue \/ status' # status)
       \/ kcp # rec.uid /\ StatusRetried /\ UNCHANGED <<status, faults>>
       \/ StatusRetried /\ Fault /\ UNCHANGED status
    /\ UNCHANGED <<olmVars, objectVars, kcp, uids, legacy, boot>>

\* After five minutes.
Resync ==
    /\ Leading /\ ~queue /\ kcp # 0
    /\ queue' = TRUE
    /\ UNCHANGED <<olmVars, objectVars, kcpVars, legacy, boot, rec, faults>>

-----------------------------------------------------------------------------
(***************************************************************************)
(* The cluster.                                                            *)
(***************************************************************************)
Remove(c, r) ==
    /\ present' = [present EXCEPT ![c] = @ \ {r}]
    /\ csvOwned' = [csvOwned EXCEPT ![c] = @ \ {r}]
    /\ kcpOwner' = [kcpOwner EXCEPT ![c][r] = 0]
    /\ established' = IF r = "crd" THEN established \ {c} ELSE established
    /\ available' = IF r = "deployment" THEN available \ {c} ELSE available
    /\ IF r \in Watched THEN Notices ELSE UNCHANGED queue
    /\ UNCHANGED <<olmVars, kcpVars, legacy, boot, rec>>

Collect(c, r) == Garbage(c, r) /\ Remove(c, r) /\ UNCHANGED faults

\* The API server establishes a CRD.
Establish(c) ==
    /\ "crd" \in present[c] /\ c \notin established
    /\ established' = established \cup {c} /\ Notices
    /\ UNCHANGED <<olmVars, present, csvOwned, kcpOwner, available, kcpVars, legacy, boot, rec, faults>>

BecomesAvailable(c) ==
    /\ "deployment" \in present[c] /\ c \notin available
    /\ available' = available \cup {c} /\ Notices
    /\ UNCHANGED <<olmVars, present, csvOwned, kcpOwner, established, kcpVars, legacy, boot, rec, faults>>

Fails(c) ==
    /\ c \in available /\ available' = available \ {c} /\ Notices /\ Fault
    /\ UNCHANGED <<olmVars, present, csvOwned, kcpOwner, established, kcpVars, legacy, boot, rec>>

UserDeletes(c, r) == r \in present[c] \ {"crd"} /\ Remove(c, r) /\ Fault

UserDeletesControlPlane ==
    /\ kcp # 0 /\ kcp' = 0 /\ status' = NoStatus /\ UNCHANGED uids /\ Notices /\ Fault
    /\ UNCHANGED <<olmVars, objectVars, legacy, boot, rec>>

UserCreatesControlPlane ==
    /\ kcp = 0 /\ NewControlPlane /\ Notices /\ Fault
    /\ UNCHANGED <<olmVars, objectVars, legacy, boot, rec>>

\* Somebody takes the finalizer away by hand.
UserRemovesFinalizer(k) ==
    /\ k \in legacy /\ legacy' = legacy \ {k} /\ Fault
    /\ UNCHANGED <<olmVars, objectVars, kcpVars, boot, rec, queue>>

Crash ==
    /\ boot # MainStart /\ Fault /\ Exits
    /\ UNCHANGED <<olmVars, objectVars, kcpVars, legacy>>

-----------------------------------------------------------------------------
Bootstrap ==
    \/ BootApply \/ BootWait \/ Elected \/ EnsureControlPlane
    \/ DetectOLM \/ StripResource \/ DeleteSubscription \/ DeleteCSV
    \/ ListKuadrants \/ RemoveFinalizer \/ PassEnds

Reconciler == ReconcileControlPlane \/ DeployCRD \/ WaitForCRD \/ DeployResources \/ UpdateStatus \/ Resync

Cluster ==
    \/ \E c \in Components :
         \/ Establish(c) \/ BecomesAvailable(c) \/ Fails(c)
         \/ \E r \in ObjectKinds : Collect(c, r) \/ UserDeletes(c, r)
    \/ UserDeletesControlPlane \/ UserCreatesControlPlane
    \/ \E k \in Kuadrants : UserRemovesFinalizer(k)
    \/ Crash

ControlPlaneNext == Bootstrap \/ Reconciler \/ Cluster

ControlPlaneSpec == ControlPlaneInit /\ [][ControlPlaneNext]_controlPlaneVars

-----------------------------------------------------------------------------
(***************************************************************************)
(* Nothing that the migration is to keep is ever garbage because of it,    *)
(* wherever it fails or the operator crashes between stripping the objects *)
(* and deleting the CSV that owned them ("deleting them first would        *)
(* cascade-delete the resources the previous steps were protecting"), and  *)
(* whatever the reconciler applies meanwhile.  A CRD, whose deletion would *)
(* delete all its resources, is never garbage; another object may be, when *)
(* the control plane that came to own it is deleted.                       *)
(***************************************************************************)
ResourcesKept ==
    \A c \in Components : \A r \in Stripped(c) \cup {"crd"} :
        Garbage(c, r) => r # "crd" /\ kcpOwner[c][r] # 0

(***************************************************************************)
(* A bootstrap that has come to its end without an error has left nothing  *)
(* undone, also if earlier ones ended half way: no Subscription, no CSV    *)
(* and no reference to one remains (Cleanup, where OLM was found), and no  *)
(* Kuadrant resource has the legacy finalizer, which nothing else would    *)
(* remove (runDeveloperPortalCleanup).                                     *)
(***************************************************************************)
BootstrapComplete ==
    /\ boot.pc \in {"finalizers", "remove", "done"} /\ boot.olm /\ ~boot.failed =>
         \A i \in DOMAIN Migrations :
            LET c == Migrations[i] IN
            c \notin subscriptions /\ c \notin csvs /\ Stripped(c) \cap csvOwned[c] = {}
    /\ boot.pc = "done" => legacy = {}

(***************************************************************************)
(* When the reconciler has nothing to do the CRDs and Deployments of all   *)
(* components are there, the latter owned by the control plane that there  *)
(* is, and its status tells which of them are ready and no CRD as          *)
(* established that is not, whatever has been deleted, has failed or was   *)
(* refused on the way (Reconcile, with the watches of SetupWithManager).   *)
(* A CRD that could not be read may be shown as not established until the  *)
(* next resync.                                                            *)
(***************************************************************************)
ControlPlaneShown ==
    Leading /\ rec.pc = "idle" /\ ~queue /\ kcp # 0 =>
      /\ \A i \in DOMAIN Charts :
           Watched \subseteq present[Charts[i]] /\ kcpOwner[Charts[i]]["deployment"] = kcp
      /\ \E seen \in SUBSET established : status = StatusNow(FALSE, seen)

=============================================================================
