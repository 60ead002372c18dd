---------------------------- MODULE RecoveryProofs ----------------------------
(***************************************************************************)
(* What brings the operator back to where it should be: the retries of     *)
(* writes that failed, and the bootstrap of the control plane.             *)
(***************************************************************************)
EXTENDS ReconciliationErrors, ControlPlane, TLAPS

-----------------------------------------------------------------------------
(***************************************************************************)
(* That tracked errors are retried and that the retry reaches them, for    *)
(* every set of reconcilers and kinds and every number of attempts.        *)
(*                                                                         *)
(* Neither is inductive.  What a pass has in its registry comes from       *)
(* reconcilers that the events of the pass made run, so those events are   *)
(* there (not none) and match these reconcilers when HandleErrors copies   *)
(* them into the retry.                                                    *)
(***************************************************************************)
\* The reconcilers of a pass, and those with an error in its registry,
\* subscribe to one of its events; outside a pass there are none.
PassCovers ==
    /\ \A r \in pass.todo : pass.running /\ Subscribed(r, pass.events)
    /\ \A k \in registry : pass.running /\ Subscribed(k[1], pass.events)

RetryInv == TypeOK /\ PassCovers /\ TrackedIsRetried /\ RetryReachesFailed

(***************************************************************************)
(* The invariant holds before the first pass.                              *)
(***************************************************************************)
LEMMA RetryInitially == Init => RetryInv
  <1> SUFFICES ASSUME Init PROVE RetryInv
    OBVIOUS
  <1>1. TypeOK
    <2>1. /\ pass \in [running : BOOLEAN, events : SUBSET Kinds,
                       todo : SUBSET Reconcilers]
          /\ retryCount \in [Keys -> 0..(maxRetryAttempts - 1)]
          /\ changes \in 0..MaxChanges
      BY WatchesAssumption, BoundsAssumption DEF Init, Idle, NoEvents
    <2>2. /\ desired \in [Reconcilers -> Specs \cup {Absent}]
          /\ actual \in [Reconcilers -> Specs \cup {Absent}]
          /\ aborted \in BOOLEAN
      BY DEF Init
    <2> QED
      BY <2>1, <2>2 DEF Init, TypeOK, NoEvents
  <1>2. PassCovers
    BY DEF Init, PassCovers, Idle
  <1>3. TrackedIsRetried
    BY DEF Init, TrackedIsRetried
  <1>4. RetryReachesFailed
    BY DEF Init, RetryReachesFailed
  <1> QED
    BY <1>1, <1>2, <1>3, <1>4 DEF RetryInv

(***************************************************************************)
(* Every step keeps the types; a count of retries goes up only below       *)
(* maxRetryAttempts.                                                       *)
(***************************************************************************)
LEMMA RetryTypes == TypeOK /\ [Next]_vars => TypeOK'
  <1> SUFFICES ASSUME TypeOK, [Next]_vars PROVE TypeOK'
    OBVIOUS
  <1> USE WatchesAssumption, BoundsAssumption
  <1>1. ASSUME NEW r \in Reconcilers, NothingToDo(r) PROVE TypeOK'
    BY <1>1 DEF TypeOK, NothingToDo, Done, clusterVars, trackerVars, Keys
  <1>2. ASSUME NEW r \in Reconcilers, WriteSucceeds(r) PROVE TypeOK'
    BY <1>2 DEF TypeOK, WriteSucceeds, Done, clusterVars, trackerVars, Keys
  <1>3. ASSUME NEW r \in Reconcilers, WriteFails(r) PROVE TypeOK'
    <2>1. Operation(r) \in Operations
      BY DEF Operation, Operations
    <2>2. <<r, Operation(r)>> \in Keys /\ {r} \X {Operation(r)} \subseteq Keys
      BY <2>1 DEF Keys
    <2> HIDE DEF Keys
    <2> QED
      BY <1>3, <2>2 DEF TypeOK, WriteFails, Done, clusterVars, trackerVars
  <1>4. CASE HandleErrors
    <2>1. ASSUME NEW k \in Keys
          PROVE  retryCount'[k] \in 0..(maxRetryAttempts - 1)
      BY <1>4 DEF TypeOK, HandleErrors, UpdateFromRegistry, GiveUp, ShouldRetry
    <2>2. retryCount' \in [Keys -> 0..(maxRetryAttempts - 1)]
      <3>1. retryCount' = [k \in Keys |-> retryCount'[k]]
        BY <1>4 DEF HandleErrors, UpdateFromRegistry
      <3> QED
        BY <2>1, <3>1
    <2> QED
      BY <1>4, <2>2
      DEF TypeOK, HandleErrors, UpdateFromRegistry, ScheduleRetry, Idle,
          NoEvents, clusterVars
  <1>5. CASE Reconcile
    BY <1>5 DEF TypeOK, Reconcile, Start, NoEvents, clusterVars, trackerVars
  <1>6. CASE TimerFires
    BY <1>6 DEF TypeOK, TimerFires, NoEvents, clusterVars, trackerVars
  <1>7. CASE Propagate
    BY <1>7 DEF TypeOK, Propagate, Start, clusterVars, trackerVars
  <1>8. CASE DesiredChanges
    BY <1>8 DEF TypeOK, DesiredChanges, Change, trackerVars
  <1>9. CASE DependencyChanges
    BY <1>9 DEF TypeOK, DependencyChanges, Change, trackerVars
  <1>10. CASE OtherEvent
    BY <1>10 DEF TypeOK, OtherEvent, Change, trackerVars
  <1>11. CASE OperatorRestarts
    <2>1. /\ pass' \in [running : BOOLEAN, events : SUBSET Kinds,
                        todo : SUBSET Reconcilers]
          /\ retryCount' \in [Keys -> 0..(maxRetryAttempts - 1)]
          /\ changes' \in 0..MaxChanges
      BY <1>11 DEF TypeOK, OperatorRestarts, Change, Idle, NoEvents
    <2>2. /\ events' \subseteq Kinds
          /\ registry' \subseteq Keys
          /\ tracked' \subseteq Keys
          /\ retryTimer' \subseteq Kinds
          /\ propagate' \subseteq SUBSET Kinds
          /\ failed' \subseteq Keys
          /\ aborted' \in BOOLEAN
      BY <1>11 DEF OperatorRestarts, NoEvents
    <2> QED
      BY <1>11, <2>1, <2>2 DEF TypeOK, OperatorRestarts
  <1>13. CASE PassAborts
    BY <1>13
    DEF TypeOK, PassAborts, Change, Idle, NoEvents, trackerVars
  <1>12. CASE UNCHANGED vars
    BY <1>12 DEF TypeOK, vars, clusterVars, trackerVars
  <1> QED
    BY <1>1, <1>2, <1>3, <1>4, <1>5, <1>6, <1>7, <1>8, <1>9, <1>10, <1>11,
       <1>12, <1>13 DEF Next

(***************************************************************************)
(* Every step keeps the rest of the invariant.                             *)
(***************************************************************************)
LEMMA RetryStep == RetryInv /\ [Next]_vars => RetryInv'
  <1> SUFFICES ASSUME RetryInv, [Next]_vars PROVE RetryInv'
    OBVIOUS
  <1>0. TypeOK'
    BY RetryTypes DEF RetryInv
  <1> DEFINE Rest == PassCovers /\ TrackedIsRetried /\ RetryReachesFailed
  <1> SUFFICES Rest'
    BY <1>0 DEF RetryInv
  <1>1. ASSUME NEW r \in Reconcilers,
               NothingToDo(r) \/ WriteSucceeds(r) \/ WriteFails(r)
        PROVE  Rest'
    <2>1. /\ r \in pass.todo
          /\ pass' = [pass EXCEPT !.todo = @ \ {r}]
          /\ registry' \subseteq registry \cup {<<r, Operation(r)>>}
          /\ UNCHANGED <<tracked, retryTimer, propagate, aborted>>
      BY <1>1
      DEF NothingToDo, WriteSucceeds, WriteFails, Done, trackerVars
    <2>2. /\ pass'.running = pass.running
          /\ pass'.events = pass.events
          /\ pass'.todo \subseteq pass.todo
          /\ pass.running
      BY <2>1 DEF RetryInv, TypeOK, PassCovers
    <2>3. PassCovers'
      BY <2>1, <2>2 DEF RetryInv, PassCovers, Subscribed
    <2>4. TrackedIsRetried'
      BY <2>2 DEF TrackedIsRetried
    <2>5. RetryReachesFailed'
      BY <2>1 DEF RetryInv, RetryReachesFailed, Subscribed
    <2> QED
      BY <2>3, <2>4, <2>5
  <1>2. CASE HandleErrors
    <2>1. /\ tracked' \subseteq registry
          /\ pass' = Idle
          /\ registry' = {}
          /\ UNCHANGED propagate
          /\ tracked' # {} => retryTimer' = pass.events
      BY <1>2
      DEF HandleErrors, UpdateFromRegistry, ScheduleRetry, ShouldRequeue
    <2>2. PassCovers'
      BY <2>1 DEF PassCovers, Idle
    <2>3. \A k \in tracked' : Subscribed(k[1], pass.events)
      BY <2>1 DEF RetryInv, PassCovers
    <2>4. TrackedIsRetried'
      BY <2>1, <2>3 DEF TrackedIsRetried, Subscribed, NoEvents
    <2>5. RetryReachesFailed'
      BY <2>1, <2>3 DEF RetryReachesFailed, Subscribed
    <2> QED
      BY <2>2, <2>4, <2>5
  <1>3. ASSUME NEW es, Start(es), retryTimer' \in {retryTimer, NoEvents}
        PROVE  Rest'
    <2>1. /\ pass'.running
          /\ pass'.events = es
          /\ pass'.todo = {r \in Reconcilers : Subscribed(r, es)}
          /\ registry' = registry
          /\ ~pass.running
          /\ UNCHANGED tracked
      BY <1>3 DEF Start, trackerVars
    <2>2. registry = {}
      BY <2>1 DEF RetryInv, PassCovers
    <2>3. PassCovers'
      BY <2>1, <2>2 DEF PassCovers, Subscribed
    <2>4. TrackedIsRetried'
      BY <2>1 DEF TrackedIsRetried
    <2>5. RetryReachesFailed'
      BY <1>3, <2>1 DEF RetryInv, RetryReachesFailed, Subscribed
    <2> QED
      BY <2>3, <2>4, <2>5
  <1>4. CASE TimerFires
    <2>1. /\ retryTimer' = NoEvents
          /\ tracked # {} => propagate' # {}
          /\ UNCHANGED <<tracked, pass, registry, aborted>>
      BY <1>4 DEF TimerFires, ShouldRequeue, trackerVars
    <2> QED
      BY <2>1
      DEF RetryInv, PassCovers, TrackedIsRetried, RetryReachesFailed, Subscribed
  <1>5. CASE OperatorRestarts
    BY <1>5
    DEF OperatorRestarts, PassCovers, TrackedIsRetried, RetryReachesFailed,
        Idle
  <1>6. CASE UNCHANGED <<tracked, pass, registry, retryTimer, propagate, aborted>>
    BY <1>6
    DEF RetryInv, PassCovers, TrackedIsRetried, RetryReachesFailed, Subscribed
  <1>7. Reconcile \/ Propagate =>
          \E es : Start(es) /\ retryTimer' \in {retryTimer, NoEvents}
    BY Zenon DEF Reconcile, Propagate
  <1>8. \/ DesiredChanges
        \/ DependencyChanges
        \/ OtherEvent
        \/ UNCHANGED vars
        => UNCHANGED <<tracked, pass, registry, retryTimer, propagate, aborted>>
    BY DEF DesiredChanges, DependencyChanges, OtherEvent, vars, trackerVars
  <1>9. CASE PassAborts
    <2>1. /\ pass' = Idle
          /\ registry' = {}
          /\ aborted'
          /\ UNCHANGED <<tracked, retryTimer>>
      BY <1>9 DEF PassAborts, trackerVars
    <2>2. PassCovers'
      BY <2>1 DEF PassCovers, Idle
    <2>3. TrackedIsRetried'
      BY <2>1 DEF TrackedIsRetried
    <2>4. RetryReachesFailed'
      BY <2>1 DEF RetryInv, RetryReachesFailed, Subscribed
    <2> QED
      BY <2>2, <2>3, <2>4
  <1> HIDE DEF Rest
  <1> QED
    BY <1>1, <1>2, <1>3, <1>4, <1>5, <1>6, <1>7, <1>8, <1>9 DEF Next

(***************************************************************************)
(* While an error is tracked, a pass runs, is scheduled or is about to     *)
(* start (ScheduleRetry, cancelPendingRetry, AfterFunc), unless the last   *)
(* pass ended without its error handler (PassAborts).                      *)
(***************************************************************************)
THEOREM ErrorsAreRetried == Spec => []TrackedIsRetried
  <1>1. RetryInv => TrackedIsRetried
    BY DEF RetryInv
  <1> QED
    BY RetryInitially, RetryStep, <1>1, PTL DEF Spec

(***************************************************************************)
(* The scheduled retry runs each reconciler that has an error tracked      *)
(* (ScheduleRetry copies the events of the pass that recorded it).         *)
(***************************************************************************)
THEOREM RetriesReachErrors == Spec => []RetryReachesFailed
  <1>1. RetryInv => RetryReachesFailed
    BY DEF RetryInv
  <1> QED
    BY RetryInitially, RetryStep, <1>1, PTL DEF Spec

-----------------------------------------------------------------------------
(***************************************************************************)
(* The bootstrap of the control plane, for any components, any number of   *)
(* Kuadrant resources and any faults, crashes and changes: what the        *)
(* migration is to keep is never garbage, and a bootstrap that ends        *)
(* without an error has left nothing undone.                               *)
(*                                                                         *)
(* The argument: subscriptions, CSVs, references to CSVs and legacy        *)
(* finalizers only become fewer.  So what the bootstrap has seen done      *)
(* stays done, whoever acts next, and the invariant only has to say what   *)
(* is done at each of its steps.                                           *)
(*                                                                         *)
(* And of the reconciler: with nothing left to do it has the CRDs and the  *)
(* Deployments in place and reported on, by an invariant that says how far *)
(* a reconciliation has come while no watch has noticed anything.          *)
(***************************************************************************)
Early == {"apply", "wait", "elect", "ensure", "detect"}
Migration == {"strip", "subscription", "csv"}
Late == {"finalizers", "remove", "done"}

BootType ==
    [pc : Early \cup Migration \cup Late, at : Nat, step : Nat, olm : BOOLEAN, failed : BOOLEAN,
     todo : SUBSET Kuadrants, errors : BOOLEAN]

RecType == [pc : {"idle", "apply", "wait", "resources", "status"}, at : Nat, uid : Nat, failed : BOOLEAN]

ControlPlaneType ==
    /\ csvOwned \in [Components -> SUBSET ObjectKinds]
    /\ kcpOwner \in [Components -> [ObjectKinds -> Nat]]
    /\ legacy \subseteq Kuadrants
    /\ kcp \in Nat /\ uids \in Nat
    /\ rec \in RecType
    /\ boot \in BootType

\* Nothing of OLM is left of a component.
Migrated(c) == c \notin subscriptions /\ c \notin csvs /\ Stripped(c) \cap csvOwned[c] = {}

\* No CRD is owned by a control plane, and what is to be kept is owned by no CSV that is gone.
Kept ==
    /\ \A c \in Components : kcpOwner[c]["crd"] = 0
    /\ \A c \in Components : c \notin csvs => csvOwned[c] \cap (Stripped(c) \cup {"crd"}) = {}

\* What is done at each step of the bootstrap.
StepsDone ==
    /\ boot.pc \in Early => ~boot.olm /\ boot.step = 1
    /\ boot.pc \in Migration => boot.at \in 1..Len(Migrations)
    /\ boot.pc = "strip" =>
         \A j \in DOMAIN StripOrder(Migrating) : j < boot.step => StripOrder(Migrating)[j] \notin csvOwned[Migrating]
    /\ boot.pc \in {"subscription", "csv"} => Stripped(Migrating) \cap csvOwned[Migrating] = {}
    /\ boot.pc = "csv" => Migrating \notin subscriptions
    /\ boot.pc \in Migration /\ ~boot.failed => \A i \in 1..(boot.at - 1) : Migrated(Migrations[i])
    /\ boot.pc \in Late /\ boot.olm /\ ~boot.failed => \A i \in 1..Len(Migrations) : Migrated(Migrations[i])
    /\ boot.pc = "remove" /\ ~boot.errors => legacy \subseteq boot.todo
    /\ boot.pc = "done" => legacy = {}

ControlPlaneInvariant == ControlPlaneType /\ Kept /\ StepsDone

-----------------------------------------------------------------------------
\* What the charts and the migrations name (allComponents, the migrate functions).
LEMMA StripOrders ==
    \A c : /\ StripOrder(c) \in Seq(ObjectKinds)
           /\ c \in {"dns-operator", "mcp-gateway", "authorino-operator", "limitador-operator"} => "crd" \in Stripped(c)
<1> SUFFICES ASSUME NEW c
             PROVE /\ StripOrder(c) \in Seq(ObjectKinds)
                   /\ c \in {"dns-operator", "mcp-gateway", "authorino-operator", "limitador-operator"}
                        => "crd" \in Stripped(c)
  OBVIOUS
<1>1. CASE c = "dns-operator"
  <2>1. StripOrder(c) = <<"deployment", "crd", "configmap">>
    BY <1>1 DEF StripOrder
  <2>2. StripOrder(c) \in Seq(ObjectKinds) /\ 2 \in DOMAIN StripOrder(c) /\ StripOrder(c)[2] = "crd"
    BY <2>1 DEF ObjectKinds
  <2> QED BY <2>2 DEF Stripped
<1>2. CASE c = "mcp-gateway"
  <2>1. StripOrder(c) = <<"crd">>
    BY <1>2 DEF StripOrder
  <2>2. StripOrder(c) \in Seq(ObjectKinds) /\ 1 \in DOMAIN StripOrder(c) /\ StripOrder(c)[1] = "crd"
    BY <2>1 DEF ObjectKinds
  <2> QED BY <2>2 DEF Stripped
<1>3. CASE c \in {"authorino-operator", "limitador-operator"}
  <2>1. StripOrder(c) = <<"deployment", "crd">>
    BY <1>3 DEF StripOrder
  <2>2. StripOrder(c) \in Seq(ObjectKinds) /\ 2 \in DOMAIN StripOrder(c) /\ StripOrder(c)[2] = "crd"
    BY <2>1 DEF ObjectKinds
  <2> QED BY <2>2 DEF Stripped
<1>4. CASE c \notin {"dns-operator", "mcp-gateway", "authorino-operator", "limitador-operator"}
  <2>1. StripOrder(c) = <<>>
    BY <1>4 DEF StripOrder
  <2> QED BY <2>1, <1>4
<1> QED BY <1>1, <1>2, <1>3, <1>4

\* A component's CRDs are not among the resources that are applied with an owner.
LEMMA ResourcesAreNotCRDs ==
    \A c : \A j \in 1..Len(Resources(c)) : Resources(c)[j] \in ObjectKinds \ {"crd"}
BY DEF Resources, ObjectKinds

\* The component of a migration is a component, with CRDs to strip.
LEMMA MigratedComponents ==
    \A i \in 1..Len(Migrations) : Migrations[i] \in Components /\ "crd" \in Stripped(Migrations[i])
BY StripOrders, ComponentsAssumption

-----------------------------------------------------------------------------
\* Initially nothing is done, and everything with an owner has its CSV.
LEMMA InvariantInitially == ControlPlaneInit => ControlPlaneInvariant
<1> SUFFICES ASSUME ControlPlaneInit PROVE ControlPlaneInvariant
  OBVIOUS
<1>1. csvOwned \in [Components -> SUBSET ObjectKinds]
  <2>1. \A c : {"crd"} \cup {Resources(c)[j] : j \in DOMAIN Resources(c)} \subseteq ObjectKinds
    BY DEF Resources, ObjectKinds
  <2> QED BY <2>1, Zenon DEF ControlPlaneInit, ObjectKinds
<1>2. ControlPlaneType
  BY <1>1 DEF ControlPlaneInit, ControlPlaneType, BootType, RecType, MainStart, NoRequest, Early
<1>3. Kept
  BY DEF ControlPlaneInit, Kept, ObjectKinds
<1>4. StepsDone
  BY DEF ControlPlaneInit, StepsDone, MainStart, Early, Migration, Late
<1> QED BY <1>2, <1>3, <1>4 DEF ControlPlaneInvariant

-----------------------------------------------------------------------------
\* Subscriptions, CSVs, references to CSVs and legacy finalizers only become fewer.
Fewer ==
    /\ subscriptions' \subseteq subscriptions
    /\ csvs' \subseteq csvs
    /\ \A c \in Components : csvOwned'[c] \subseteq csvOwned[c]
    /\ legacy' \subseteq legacy

\* A step of the reconciler leads to one of its states.
LEMMA DeployType ==
    ASSUME rec \in RecType, NEW i \in Nat, NEW f \in BOOLEAN, Deploy(i, f)
    PROVE  rec' \in RecType
<1>1. CASE i <= Len(Charts)
  BY <1>1, Zenon DEF Deploy, RecType
<1>2. CASE ~(i <= Len(Charts))
  BY <1>2, Zenon DEF Deploy, RecType
<1> QED BY <1>1, <1>2

LEMMA RecTypeKept ==
    ASSUME rec \in RecType, kcp \in Nat, Reconciler
    PROVE  rec' \in RecType
<1>1. rec.at + 1 \in Nat
  BY DEF RecType
<1>2. CASE ReconcileControlPlane
  BY <1>2 DEF ReconcileControlPlane, NoRequest, RecType
<1>3. CASE DeployCRD
  <2>1. CASE rec' = [rec EXCEPT !.pc = "wait"]
    BY <2>1 DEF RecType
  <2>2. CASE Deploy(rec.at + 1, TRUE)
    BY <1>1, <2>2, DeployType, Zenon
  <2> QED BY <1>3, <2>1, <2>2, Zenon DEF DeployCRD
<1>4. CASE WaitForCRD
  <2>1. CASE rec' = [rec EXCEPT !.pc = "resources"]
    BY <2>1 DEF RecType
  <2>2. CASE Deploy(rec.at + 1, TRUE)
    BY <1>1, <2>2, DeployType, Zenon
  <2> QED BY <1>4, <2>1, <2>2, Zenon DEF WaitForCRD
<1>5. CASE DeployResources
  <2>1. PICK n : Deploy(rec.at + 1, rec.failed \/ n < Len(Resources(Deploying)))
    BY <1>5 DEF DeployResources
  <2>2. (rec.failed \/ n < Len(Resources(Deploying))) \in BOOLEAN
    OBVIOUS
  <2> QED BY <1>1, <2>1, <2>2, DeployType, Zenon
<1>6. CASE UpdateStatus
  BY <1>6 DEF UpdateStatus, NoRequest, RecType
<1>7. CASE Resync
  BY <1>7 DEF Resync
<1> QED BY <1>2, <1>3, <1>4, <1>5, <1>6, <1>7 DEF Reconciler

\* The reconciler and the cluster leave the bootstrap where it is, or end it.
LEMMA OthersKeep ==
    ASSUME ControlPlaneInvariant, Reconciler \/ Cluster
    PROVE  /\ ControlPlaneType' /\ Fewer
           /\ csvs' = csvs
           /\ \A c \in Components : kcpOwner'[c]["crd"] = 0
           /\ boot' = boot \/ boot' = MainStart
<1> DEFINE Goal == /\ ControlPlaneType' /\ Fewer
                   /\ csvs' = csvs
                   /\ \A c \in Components : kcpOwner'[c]["crd"] = 0
                   /\ boot' = boot \/ boot' = MainStart
<1> USE DEF ControlPlaneInvariant, ControlPlaneType, Kept, Fewer, olmVars, kcpVars, objectVars
<1>1. ASSUME ReconcileControlPlane \/ DeployCRD \/ WaitForCRD \/ UpdateStatus \/ Resync PROVE Goal
  <2>1. UNCHANGED <<olmVars, csvOwned, kcpOwner, legacy, kcp, uids, boot>>
    BY <1>1, Zenon DEF ReconcileControlPlane, DeployCRD, WaitForCRD, UpdateStatus, Resync, ApplyCRD
  <2>2. rec' \in RecType
    BY <1>1, RecTypeKept DEF Reconciler
  <2> QED BY <2>1, <2>2
<1>2. ASSUME DeployResources PROVE Goal
  <2> DEFINE R == Resources(Deploying)
  <2>1. PICK n \in 0..Len(R) : /\ ApplyResources(Deploying, {R[j] : j \in 1..n}, rec.uid)
                               /\ Deploy(rec.at + 1, rec.failed \/ n < Len(R))
    BY <1>2, Zenon DEF DeployResources
  <2>2. "crd" \notin {R[j] : j \in 1..n}
    <3>1. Len(R) \in Nat
      BY DEF Resources
    <3> QED BY <3>1, ResourcesAreNotCRDs
  <2>3. UNCHANGED <<olmVars, kcpVars, legacy, boot, csvOwned>>
    BY <1>2, <2>1, Zenon DEF DeployResources, ApplyResources
  <2>4. kcpOwner' \in [Components -> [ObjectKinds -> Nat]]
    <3>1. rec.uid \in Nat
      BY DEF RecType
    <3>2. \A c \in Components : kcpOwner'[c] \in [ObjectKinds -> Nat]
      BY <2>1, <3>1 DEF ApplyResources
    <3>3. kcpOwner' = [c \in Components |-> kcpOwner'[c]]
      BY <2>1, Zenon DEF ApplyResources
    <3> QED BY <3>2, <3>3
  <2>5. \A c \in Components : kcpOwner'[c]["crd"] = 0
    BY <2>1, <2>2 DEF ApplyResources, ObjectKinds
  <2>6. rec' \in RecType
    BY <1>2, RecTypeKept DEF Reconciler
  <2> QED BY <2>3, <2>4, <2>5, <2>6
<1>3. ASSUME NEW c \in Components, Establish(c) \/ BecomesAvailable(c) \/ Fails(c) PROVE Goal
  BY <1>3 DEF Establish, BecomesAvailable, Fails
<1>4. ASSUME NEW c \in Components, NEW r \in ObjectKinds, Collect(c, r) \/ UserDeletes(c, r) PROVE Goal
  <2>1. Remove(c, r)
    BY <1>4 DEF Collect, UserDeletes
  <2>2. UNCHANGED <<olmVars, kcpVars, legacy, boot, rec>>
    BY <2>1 DEF Remove
  <2>3. csvOwned' \in [Components -> SUBSET ObjectKinds] /\ \A d \in Components : csvOwned'[d] \subseteq csvOwned[d]
    BY <2>1 DEF Remove
  <2>4. kcpOwner' \in [Components -> [ObjectKinds -> Nat]] /\ \A d \in Components : kcpOwner'[d]["crd"] = 0
    BY <2>1 DEF Remove, ObjectKinds
  <2> QED BY <2>2, <2>3, <2>4
<1>5. ASSUME UserDeletesControlPlane \/ UserCreatesControlPlane PROVE Goal
  BY <1>5 DEF UserDeletesControlPlane, UserCreatesControlPlane, NewControlPlane
<1>6. ASSUME NEW k \in Kuadrants, UserRemovesFinalizer(k) PROVE Goal
  BY <1>6, Zenon DEF UserRemovesFinalizer
<1>7. ASSUME Crash PROVE Goal
  BY <1>7, Zenon DEF Crash, Exits, MainStart, NoRequest, BootType, RecType, Early
<1> QED BY <1>1, <1>2, <1>3, <1>4, <1>5, <1>6, <1>7, Zenon DEF Reconciler, Cluster

\* What is migrated stays so.
LEMMA MigratedStays ==
    ASSUME Fewer, NEW i \in 1..Len(Migrations), Migrated(Migrations[i])
    PROVE  Migrated(Migrations[i])'
<1> DEFINE c == Migrations[i]
<1>1. c \in Components
  BY MigratedComponents
<1>2. subscriptions' \subseteq subscriptions /\ csvs' \subseteq csvs /\ csvOwned'[c] \subseteq csvOwned[c]
  BY <1>1 DEF Fewer
<1>3. c \notin subscriptions /\ c \notin csvs /\ Stripped(c) \cap csvOwned[c] = {}
  BY Zenon DEF Migrated
<1> QED BY <1>2, <1>3 DEF Migrated

\* What was done at a step of the bootstrap remains done while the bootstrap is there.
LEMMA DoneStays ==
    ASSUME StepsDone, Fewer, boot \in BootType, boot' = boot
    PROVE  StepsDone'
<1>1. (boot.pc \in Early => ~boot.olm /\ boot.step = 1)'
  BY DEF StepsDone
<1>2. (boot.pc \in Migration => boot.at \in 1..Len(Migrations))'
  BY Zenon DEF StepsDone
<1>3. ASSUME boot.pc \in Migration
      PROVE  Migrating' = Migrating /\ csvOwned'[Migrating] \subseteq csvOwned[Migrating]
  BY <1>3, MigratedComponents, Zenon DEF StepsDone, Fewer, Migrating
<1>4. (boot.pc = "strip" =>
         \A j \in DOMAIN StripOrder(Migrating) : j < boot.step => StripOrder(Migrating)[j] \notin csvOwned[Migrating])'
  BY <1>3, Zenon DEF StepsDone, Migration
<1>5. (boot.pc \in {"subscription", "csv"} => Stripped(Migrating) \cap csvOwned[Migrating] = {})'
  BY <1>3, ZenonT(40) DEF StepsDone, Migration
<1>6. (boot.pc = "csv" => Migrating \notin subscriptions)'
  BY <1>3 DEF StepsDone, Migration, Fewer
<1>7. (boot.pc \in Migration /\ ~boot.failed => \A i \in 1..(boot.at - 1) : Migrated(Migrations[i]))'
  <2> SUFFICES ASSUME boot.pc \in Migration, ~boot.failed, NEW i \in 1..(boot.at - 1)
               PROVE  Migrated(Migrations[i])'
    OBVIOUS
  <2>1. i \in 1..Len(Migrations) /\ Migrated(Migrations[i])
    BY ComponentsAssumption DEF StepsDone
  <2> QED BY <2>1, MigratedStays
<1>8. (boot.pc \in Late /\ boot.olm /\ ~boot.failed => \A i \in 1..Len(Migrations) : Migrated(Migrations[i]))'
  BY MigratedStays, Zenon DEF StepsDone
<1>9. (boot.pc = "remove" /\ ~boot.errors => legacy \subseteq boot.todo)' /\ (boot.pc = "done" => legacy = {})'
  BY DEF StepsDone, Fewer
<1> QED BY <1>1, <1>2, <1>4, <1>5, <1>6, <1>7, <1>8, <1>9, Zenon DEF StepsDone

\* So what was done at the step of the bootstrap remains done.
LEMMA OthersPreserve ==
    ASSUME ControlPlaneInvariant, Reconciler \/ Cluster
    PROVE  ControlPlaneInvariant'
<1>1. /\ ControlPlaneType' /\ Fewer /\ csvs' = csvs
      /\ \A c \in Components : kcpOwner'[c]["crd"] = 0
      /\ boot' = boot \/ boot' = MainStart
  BY OthersKeep, Zenon
<1>2. Kept'
  BY <1>1 DEF ControlPlaneInvariant, Kept, Fewer
<1>3. StepsDone'
  <2>1. CASE boot' = MainStart
    BY <2>1 DEF StepsDone, MainStart, Early, Migration, Late
  <2>2. CASE boot' = boot
    BY <1>1, <2>2, DoneStays DEF ControlPlaneInvariant, ControlPlaneType
  <2> QED BY <1>1, <2>1, <2>2, Zenon
<1> QED BY <1>1, <1>2, <1>3 DEF ControlPlaneInvariant

-----------------------------------------------------------------------------
\* Before the migration nothing has to be done; the steps up to it change none of its objects.
LEMMA EarlySteps ==
    ASSUME ControlPlaneInvariant, BootApply \/ BootWait \/ Elected \/ EnsureControlPlane
    PROVE  ControlPlaneInvariant'
<1>1. /\ csvOwned' = csvOwned /\ kcpOwner' = kcpOwner /\ legacy' = legacy /\ csvs' = csvs
      /\ subscriptions' = subscriptions
  BY DEF BootApply, BootWait, Elected, EnsureControlPlane, ApplyCRD, olmVars, objectVars
<1>2. kcp' \in Nat /\ uids' \in Nat
  BY DEF ControlPlaneInvariant, ControlPlaneType, BootApply, BootWait, Elected, EnsureControlPlane, NewControlPlane, kcpVars
<1>3. rec' = rec \/ rec' = NoRequest
  BY DEF BootApply, BootWait, Elected, EnsureControlPlane, Exits
<1>4. rec' \in RecType
  <2>1. rec \in RecType /\ NoRequest \in RecType
    BY DEF ControlPlaneInvariant, ControlPlaneType, NoRequest, RecType
  <2> QED BY <1>3, <2>1
<1>5. \/ boot' = MainStart
      \/ /\ boot.pc \in Early
         /\ \/ \E pc \in Early : boot' = [boot EXCEPT !.pc = pc]
            \/ boot' = [boot EXCEPT !.pc = "apply", !.at = @ + 1]
  BY DEF BootApply, BootWait, Elected, EnsureControlPlane, Exits, Early
<1>6. boot' \in BootType /\ boot'.pc \in Early /\ ~boot'.olm /\ boot'.step = 1
  <2>1. boot \in BootType
    BY DEF ControlPlaneInvariant, ControlPlaneType
  <2>2. CASE boot' = MainStart
    BY <2>2 DEF BootType, MainStart, Early
  <2>3. ASSUME boot.pc \in Early, NEW pc \in Early, boot' = [boot EXCEPT !.pc = pc]
        PROVE  boot' \in BootType /\ boot'.pc \in Early /\ ~boot'.olm /\ boot'.step = 1
    <3>1. ~boot.olm /\ boot.step = 1
      BY <2>3 DEF ControlPlaneInvariant, StepsDone
    <3> QED BY <2>1, <2>3, <3>1 DEF BootType
  <2>4. CASE boot.pc \in Early /\ boot' = [boot EXCEPT !.pc = "apply", !.at = @ + 1]
    <3>1. ~boot.olm /\ boot.step = 1
      BY <2>4 DEF ControlPlaneInvariant, StepsDone
    <3>2. "apply" \in Early
      BY DEF Early
    <3>3. boot.at + 1 \in Nat /\ boot' = [[boot EXCEPT !.pc = "apply"] EXCEPT !.at = boot.at + 1]
      BY <2>1, <2>4 DEF BootType
    <3> QED BY <2>1, <3>1, <3>2, <3>3, Zenon DEF BootType
  <2> QED BY <1>5, <2>2, <2>3, <2>4
<1>7. ControlPlaneType'
  BY <1>1, <1>2, <1>4, <1>6, Zenon DEF ControlPlaneInvariant, ControlPlaneType
<1>8. Kept'
  BY <1>1, Zenon DEF ControlPlaneInvariant, Kept
<1>9. StepsDone'
  BY <1>6 DEF StepsDone, Early, Migration, Late
<1> QED BY <1>7, <1>8, <1>9 DEF ControlPlaneInvariant

\* The migration goes on with a component after those that are migrated, or one has failed.
LEMMA NextMigration ==
    ASSUME boot \in BootType, NEW i \in 1..(Len(Migrations) + 1), NEW f \in BOOLEAN,
           Migrate(i, f),
           ~f => (\A j \in 1..(i - 1) : Migrated(Migrations[j]))'
    PROVE  boot' \in BootType /\ StepsDone'
<1> Len(Migrations) \in Nat
  BY ComponentsAssumption
<1>1. CASE i <= Len(Migrations)
  <2>1. boot' = [boot EXCEPT !.at = i, !.step = 1, !.failed = f, !.pc = "strip"]
    BY <1>1 DEF Migrate
  <2>2. boot' \in BootType /\ boot'.pc = "strip" /\ boot'.at = i /\ boot'.step = 1 /\ boot'.failed = f
    <3>1. "strip" \in Migration /\ i \in Nat
      BY DEF Migration
    <3> QED BY <2>1, <3>1, Zenon DEF BootType
  <2>3. StripOrder(Migrating') \in Seq(ObjectKinds)
    BY StripOrders
  <2>4. \A j \in DOMAIN StripOrder(Migrating') : ~(j < 1)
    BY <2>3
  <2> QED BY <1>1, <2>2, <2>4 DEF StepsDone, Early, Migration, Late
<1>2. CASE ~(i <= Len(Migrations))
  <2>1. boot' = [boot EXCEPT !.at = i, !.step = 1, !.failed = f, !.pc = "finalizers"]
    BY <1>2 DEF Migrate
  <2>2. boot' \in BootType /\ boot'.pc = "finalizers" /\ boot'.failed = f
    <3>1. "finalizers" \in Late /\ i \in Nat
      BY DEF Late
    <3> QED BY <2>1, <3>1, Zenon DEF BootType
  <2>3. i - 1 = Len(Migrations)
    BY <1>2
  <2> QED BY <2>2, <2>3 DEF StepsDone, Early, Migration, Late
<1> QED BY <1>1, <1>2

\* The steps that deal with OLM.
LEMMA MigrationSteps ==
    ASSUME ControlPlaneInvariant, DetectOLM \/ StripResource \/ DeleteSubscription \/ DeleteCSV
    PROVE  ControlPlaneInvariant'
<1> DEFINE c == Migrating
<1>1. boot \in BootType /\ StepsDone /\ Kept /\ Len(Migrations) \in Nat \ {0}
  BY ComponentsAssumption DEF ControlPlaneInvariant, ControlPlaneType
<1>2. /\ kcpOwner' = kcpOwner /\ legacy' = legacy /\ kcp' = kcp /\ uids' = uids /\ rec' = rec
      /\ subscriptions' \subseteq subscriptions /\ csvs' \subseteq csvs
  BY Zenon DEF DetectOLM, StripResource, DeleteSubscription, DeleteCSV, olmVars, objectVars, kcpVars
<1>3. ASSUME boot.pc \in Migration
      PROVE  /\ boot.at \in 1..Len(Migrations) /\ boot.at + 1 \in 1..(Len(Migrations) + 1)
             /\ c \in Components /\ "crd" \in Stripped(c) /\ boot.at \in Nat /\ boot.step \in Nat /\ boot.failed \in BOOLEAN
  BY <1>1, <1>3, MigratedComponents DEF StepsDone, Migrating, BootType
<1>4. /\ csvOwned' \in [Components -> SUBSET ObjectKinds]
      /\ \A d \in Components : csvOwned'[d] \subseteq csvOwned[d]
  BY <1>3, ZenonT(40) DEF ControlPlaneInvariant, ControlPlaneType, DetectOLM, StripResource, DeleteSubscription, DeleteCSV,
       objectVars, Migration
<1>5. Fewer
  BY <1>2, <1>4 DEF Fewer
<1>6. ASSUME MigrationFails, boot.pc \in Migration
      PROVE  boot' \in BootType /\ StepsDone'
  BY <1>1, <1>3, <1>6, NextMigration, Zenon DEF MigrationFails
<1>7. boot' \in BootType /\ StepsDone'
  <2>1. CASE DetectOLM
    <3>1. boot.pc = "detect" /\ ~boot.olm /\ boot.step = 1
      BY <1>1, <2>1 DEF DetectOLM, StepsDone, Early
    <3>2. CASE boot' = [boot EXCEPT !.at = 1, !.olm = TRUE, !.pc = "strip"]
      <4>1. boot' \in BootType /\ boot'.pc = "strip" /\ boot'.at = 1 /\ boot'.step = 1
        BY <1>1, <3>1, <3>2, Zenon DEF BootType, Migration
      <4>2. StripOrder(Migrating') \in Seq(ObjectKinds)
        BY StripOrders
      <4>3. \A j \in DOMAIN StripOrder(Migrating') : ~(j < 1)
        BY <4>2
      <4>4. 1..(boot'.at - 1) = {}
        BY <4>1
      <4> QED BY <1>1, <4>1, <4>3, <4>4 DEF StepsDone, Early, Migration, Late
    <3>3. CASE boot' = [boot EXCEPT !.pc = "finalizers"]
      <4>1. boot' \in BootType /\ boot'.pc = "finalizers" /\ ~boot'.olm
        BY <1>1, <3>1, <3>3 DEF BootType, Late
      <4> QED BY <4>1 DEF StepsDone, Early, Migration, Late
    <3> QED BY <2>1, <3>2, <3>3 DEF DetectOLM
  <2>2. CASE StripResource
    <3>1. boot.pc = "strip" /\ boot.pc \in Migration
      BY <2>2, Zenon DEF StripResource, Migration
    <3>2. \A j \in DOMAIN StripOrder(c) : j < boot.step => StripOrder(c)[j] \notin csvOwned[c]
      BY <1>1, <3>1 DEF StepsDone
    <3>3. ASSUME ~boot.failed
          PROVE  \A i \in 1..(boot.at - 1) : Migrated(Migrations[i])'
      <4>1. \A i \in 1..(boot.at - 1) : Migrated(Migrations[i])
        BY <1>1, <3>1, <3>3 DEF StepsDone
      <4> QED BY <1>3, <1>5, <3>1, <4>1, MigratedStays
    <3>4. CASE /\ boot.step <= Len(StripOrder(c))
               /\ csvOwned' = [csvOwned EXCEPT ![c] = @ \ {StripOrder(c)[boot.step]}]
               /\ boot' = [boot EXCEPT !.step = @ + 1]
      <4>1. /\ boot' \in BootType /\ boot'.pc = "strip" /\ boot'.at = boot.at /\ boot'.step = boot.step + 1
            /\ boot'.failed = boot.failed
        BY <1>1, <1>3, <3>1, <3>4 DEF BootType
      <4>2. Migrating' = c
        BY <4>1 DEF Migrating
      <4>3. csvOwned'[c] = csvOwned[c] \ {StripOrder(c)[boot.step]}
        BY <1>3, <3>1, <3>4, Zenon DEF ControlPlaneInvariant, ControlPlaneType
      <4>4. \A j \in DOMAIN StripOrder(c) : j < boot.step + 1 => StripOrder(c)[j] \notin csvOwned'[c]
        <5> SUFFICES ASSUME NEW j \in DOMAIN StripOrder(c), j < boot.step + 1
                     PROVE  StripOrder(c)[j] \notin csvOwned'[c]
          OBVIOUS
        <5>1. j \in Nat /\ boot.step \in Nat
          BY <1>3, <3>1, StripOrders
        <5>2. j < boot.step \/ j = boot.step
          BY <5>1
        <5> QED BY <3>2, <4>3, <5>2, Zenon
      <4> QED BY <1>3, <3>1, <3>3, <4>1, <4>2, <4>4, Zenon DEF StepsDone, Early, Migration, Late
    <3>5. CASE ~(boot.step <= Len(StripOrder(c))) /\ boot' = [boot EXCEPT !.pc = "subscription"] /\ csvOwned' = csvOwned
      <4>1. boot' \in BootType /\ boot'.pc = "subscription" /\ boot'.at = boot.at /\ boot'.failed = boot.failed
        BY <1>1, <3>5 DEF BootType, Migration
      <4>2. Migrating' = c
        BY <4>1 DEF Migrating
      <4>3. StripOrder(c) \in Seq(ObjectKinds) /\ boot.step \in Nat
        BY <1>3, <3>1, StripOrders
      <4>4. \A j \in DOMAIN StripOrder(c) : j < boot.step
        BY <3>5, <4>3
      <4>5. Stripped(c) \cap csvOwned[c] = {}
        BY <3>2, <4>4 DEF Stripped
      <4> QED BY <1>3, <3>1, <3>3, <3>5, <4>1, <4>2, <4>5 DEF StepsDone, Early, Migration, Late
    <3> QED BY <1>6, <2>2, <3>1, <3>4, <3>5 DEF StripResource
  <2>3. CASE DeleteSubscription
    <3>1. boot.pc = "subscription" /\ boot.pc \in Migration /\ csvOwned' = csvOwned
      BY <2>3 DEF DeleteSubscription, Migration, objectVars
    <3>2. ASSUME ~boot.failed
          PROVE  \A i \in 1..(boot.at - 1) : Migrated(Migrations[i])'
      <4>1. \A i \in 1..(boot.at - 1) : Migrated(Migrations[i])
        BY <1>1, <3>1, <3>2, Zenon DEF StepsDone
      <4> QED BY <1>3, <1>5, <3>1, <4>1, MigratedStays
    <3>3. Stripped(c) \cap csvOwned[c] = {}
      BY <1>1, <3>1 DEF StepsDone
    <3>4. CASE subscriptions' = subscriptions \ {c} /\ boot' = [boot EXCEPT !.pc = "csv"]
      <4>1. boot' \in BootType /\ boot'.pc = "csv" /\ boot'.at = boot.at /\ boot'.failed = boot.failed
        BY <1>1, <3>4 DEF BootType, Migration
      <4>2. Migrating' = c
        BY <4>1 DEF Migrating
      <4> QED BY <1>3, <3>1, <3>2, <3>3, <3>4, <4>1, <4>2 DEF StepsDone, Early, Migration, Late
    <3> QED BY <1>6, <2>3, <3>1, <3>4 DEF DeleteSubscription
  <2>4. CASE DeleteCSV
    <3>1. /\ boot.pc = "csv" /\ boot.pc \in Migration
          /\ csvOwned' = csvOwned /\ subscriptions' = subscriptions
      BY <2>4 DEF DeleteCSV, Migration, objectVars
    <3>2. CASE csvs' = csvs \ {c} /\ Migrate(boot.at + 1, boot.failed)
      <4> PICK d \in Components : d = c
        BY <1>3, <3>1, Zenon
      <4>1. Migrated(d)'
        BY <1>1, <3>1, <3>2 DEF StepsDone, Migrated
      <4>2. ASSUME ~boot.failed, NEW i \in 1..boot.at
            PROVE  Migrated(Migrations[i])'
        <5>1. CASE i = boot.at
          BY <4>1, <5>1 DEF Migrating
        <5>2. CASE i # boot.at
          <6>1. i \in 1..(boot.at - 1) /\ i \in 1..Len(Migrations)
            BY <1>3, <3>1, <5>2
          <6>2. Migrated(Migrations[i])
            BY <1>1, <3>1, <4>2, <6>1 DEF StepsDone
          <6> QED BY <1>5, <6>1, <6>2, MigratedStays
        <5> QED BY <5>1, <5>2
      <4>3. boot.at + 1 - 1 = boot.at
        BY <1>3, <3>1
      <4> QED BY <1>1, <1>3, <3>1, <3>2, <4>2, <4>3, NextMigration
    <3> QED BY <1>6, <2>4, <3>1, <3>2 DEF DeleteCSV
  <2> QED BY <2>1, <2>2, <2>3, <2>4
<1>8. Kept'
  <2>1. CASE DetectOLM \/ StripResource \/ DeleteSubscription
    <3>1. csvs' = csvs
      BY <2>1, Zenon DEF DetectOLM, StripResource, DeleteSubscription, olmVars
    <3> QED BY <1>1, <1>2, <1>4, <3>1, Zenon DEF Kept
  <2>2. CASE DeleteCSV
    <3>1. csvs \ {c} \subseteq csvs' /\ csvOwned' = csvOwned /\ boot.pc = "csv"
      BY <2>2, Zenon DEF DeleteCSV, objectVars
    <3>2. Stripped(c) \cap csvOwned[c] = {} /\ "crd" \in Stripped(c)
      BY <1>1, <1>3, <3>1, Zenon DEF StepsDone, Migration
    <3> QED BY <1>1, <1>2, <3>1, <3>2, Zenon DEF Kept
  <2> QED BY <2>1, <2>2, Zenon
<1> QED BY <1>2, <1>4, <1>7, <1>8 DEF ControlPlaneInvariant, ControlPlaneType

\* The steps that deal with the legacy finalizer.
LEMMA FinalizerSteps ==
    ASSUME ControlPlaneInvariant, ListKuadrants \/ RemoveFinalizer \/ PassEnds
    PROVE  ControlPlaneInvariant'
<1>1. boot \in BootType /\ StepsDone /\ Kept /\ legacy \subseteq Kuadrants
  BY DEF ControlPlaneInvariant, ControlPlaneType
<1>2. /\ kcpOwner' = kcpOwner /\ csvOwned' = csvOwned /\ csvs' = csvs /\ subscriptions' = subscriptions
      /\ kcp' = kcp /\ uids' = uids /\ rec' = rec /\ legacy' \subseteq legacy
  BY Zenon DEF ListKuadrants, RemoveFinalizer, PassEnds, olmVars, objectVars, kcpVars
<1>3. /\ boot' \in BootType /\ boot'.olm = boot.olm /\ boot'.failed = boot.failed
      /\ boot.pc \in Late /\ boot'.pc \in Late
      /\ boot'.pc = "remove" /\ ~boot'.errors => legacy' \subseteq boot'.todo
      /\ boot'.pc = "done" => legacy' = {}
  <2>1. CASE ListKuadrants
    BY <1>1, <2>1, Zenon DEF ListKuadrants, BootType, Late
  <2>2. CASE RemoveFinalizer
    <3>1. boot.pc = "remove" /\ boot.pc \in Late /\ (~boot.errors => legacy \subseteq boot.todo)
      BY <1>1, <2>2, Zenon DEF RemoveFinalizer, StepsDone, Late
    <3>2. PICK k \in boot.todo :
            \/ legacy' = legacy \ {k} /\ boot' = [boot EXCEPT !.todo = @ \ {k}]
            \/ boot' = [boot EXCEPT !.todo = @ \ {k}, !.errors = TRUE] /\ legacy' = legacy
      BY <2>2, Zenon DEF RemoveFinalizer
    <3>3. CASE legacy' = legacy \ {k} /\ boot' = [boot EXCEPT !.todo = @ \ {k}]
      BY <1>1, <3>1, <3>3 DEF BootType
    <3>4. CASE boot' = [boot EXCEPT !.todo = @ \ {k}, !.errors = TRUE] /\ legacy' = legacy
      BY <1>1, <3>1, <3>4, Zenon DEF BootType
    <3> QED BY <3>2, <3>3, <3>4
  <2>3. CASE PassEnds
    <3>1. boot.pc = "remove" /\ boot.todo = {} /\ (~boot.errors => legacy = {}) /\ legacy' = legacy
      BY <1>1, <2>3 DEF PassEnds, StepsDone
    <3>2. CASE boot' = [boot EXCEPT !.pc = "finalizers"]
      BY <1>1, <3>1, <3>2 DEF BootType, Late
    <3>3. CASE boot' = [boot EXCEPT !.pc = "done"] /\ ~boot.errors
      BY <1>1, <3>1, <3>3, Zenon DEF BootType, Late
    <3> QED BY <2>3, <3>2, <3>3 DEF PassEnds
  <2> QED BY <2>1, <2>2, <2>3
<1>4. StepsDone'
  BY <1>1, <1>2, <1>3, Zenon DEF StepsDone, Early, Migration, Late, Migrated
<1>5. Kept'
  BY <1>1, <1>2 DEF Kept
<1> QED BY <1>1, <1>2, <1>3, <1>4, <1>5 DEF ControlPlaneInvariant, ControlPlaneType

-----------------------------------------------------------------------------
\* The invariant holds in every reachable state: the bootstrap finds what it has done still done,
\* whoever acts in between, and no object that the migration is to keep is left to a CSV that is gone.
THEOREM BootstrapInvariant == ControlPlaneSpec => []ControlPlaneInvariant
<1>1. ControlPlaneInvariant /\ [ControlPlaneNext]_controlPlaneVars => ControlPlaneInvariant'
  <2> SUFFICES ASSUME ControlPlaneInvariant, [ControlPlaneNext]_controlPlaneVars
               PROVE  ControlPlaneInvariant'
    OBVIOUS
  <2>1. CASE Bootstrap
    BY <2>1, EarlySteps, MigrationSteps, FinalizerSteps DEF Bootstrap
  <2>2. CASE Reconciler \/ Cluster
    BY <2>2, OthersPreserve
  <2>3. CASE UNCHANGED controlPlaneVars
    BY <2>3, Zenon DEF controlPlaneVars, olmVars, objectVars, kcpVars, ControlPlaneInvariant, ControlPlaneType, Kept, StepsDone,
         Migrated, Migrating
  <2> QED BY <2>1, <2>2, <2>3 DEF ControlPlaneNext
<1> QED BY <1>1, InvariantInitially, PTL DEF ControlPlaneSpec

\* No CRD, and nothing that the migration of a component is to keep, is garbage because a CSV is
\* gone (Cleanup, the migrate functions), for any components, faults, crashes and changes.
THEOREM MigrationKeepsResources == ControlPlaneSpec => []ResourcesKept
<1>1. ControlPlaneInvariant => ResourcesKept
  BY DEF ControlPlaneInvariant, Kept, ResourcesKept, Garbage
<1> QED BY <1>1, BootstrapInvariant, PTL

\* A bootstrap that ends without an error has left no Subscription, no CSV, no reference to one and
\* no legacy finalizer (Cleanup, runDeveloperPortalCleanup).
THEOREM BootstrapLeavesNothing == ControlPlaneSpec => []BootstrapComplete
<1>1. DOMAIN Migrations = 1..Len(Migrations)
  BY ComponentsAssumption
<1>2. ControlPlaneInvariant => BootstrapComplete
  BY <1>1 DEF ControlPlaneInvariant, StepsDone, Late, Migrated, BootstrapComplete
<1> QED BY <1>2, BootstrapInvariant, PTL

-----------------------------------------------------------------------------
(***************************************************************************)
(* What the reconciler reports.  While it deploys, an empty work queue     *)
(* says that no watch has noticed anything since it read the control       *)
(* plane: what it has deployed so far is still there, and belongs to the   *)
(* control plane that there still is.                                      *)
(***************************************************************************)
ObjectsOK == present \in [Components -> SUBSET ObjectKinds] /\ queue \in BOOLEAN

Deployed(c) == Watched \subseteq present[c] /\ kcpOwner[c]["deployment"] = kcp

\* The reconciler runs in the leader, and writes the status after the last component.
Serving == (rec.pc # "idle" => Leading) /\ (rec.pc = "status" => rec.at > Len(Charts))

Progress ==
    rec.pc # "idle" /\ ~queue /\ ~rec.failed /\ kcp = rec.uid =>
      /\ \A i \in DOMAIN Charts : i < rec.at => Deployed(Charts[i])
      /\ rec.pc \in {"wait", "resources"} /\ rec.at \in DOMAIN Charts => "crd" \in present[Deploying]

ShownInvariant == ObjectsOK /\ Serving /\ Progress /\ ControlPlaneShown

LEMMA ChartFacts ==
    /\ Len(Charts) \in Nat
    /\ DOMAIN Charts = 1..Len(Charts)
    /\ \A i \in DOMAIN Charts : Charts[i] \in Components
BY ComponentsAssumption

LEMMA ShownInitially == ControlPlaneInit => ShownInvariant
<1> SUFFICES ASSUME ControlPlaneInit PROVE ShownInvariant
  OBVIOUS
<1>1. present \in [Components -> SUBSET ObjectKinds]
  <2>1. \A c : {"crd"} \cup {Resources(c)[j] : j \in DOMAIN Resources(c)} \subseteq ObjectKinds
    BY DEF Resources, ObjectKinds
  <2> QED BY <2>1, Zenon DEF ControlPlaneInit, ObjectKinds
<1> QED
  BY <1>1, Zenon DEF ControlPlaneInit, ShownInvariant, ObjectsOK, Serving, Progress, ControlPlaneShown, NoRequest,
              MainStart, Leading

\* The operator is not the leader.
LEMMA NoLeaderStep ==
    ASSUME ObjectsOK', rec'.pc = "idle", ~Leading'
    PROVE  ShownInvariant'
BY Zenon DEF ShownInvariant, Serving, Progress, ControlPlaneShown

\* A watch notices something, or a request is put back.
LEMMA NoticedStep ==
    ASSUME ShownInvariant, ObjectsOK', queue',
           rec' = rec \/ rec' = NoRequest, Leading => Leading'
    PROVE  ShownInvariant'
<1>1. Serving'
  BY DEF ShownInvariant, Serving, NoRequest
<1> QED
  BY <1>1, Zenon DEF ShownInvariant, Progress, ControlPlaneShown

\* Nothing that matters to the reconciler changes.
LEMMA QuietStep ==
    ASSUME ShownInvariant, ObjectsOK',
           UNCHANGED <<kcp, status, established, available, rec, queue>>,
           \A c \in Components : /\ present[c] \cap Watched \subseteq present'[c]
                                 /\ kcpOwner'[c]["deployment"] = kcpOwner[c]["deployment"],
           Leading' <=> Leading
    PROVE  ShownInvariant'
<1>1. \A i \in DOMAIN Charts : Deployed(Charts[i]) => Deployed(Charts[i])'
  BY ChartFacts, Zenon DEF Deployed
<1>2. Serving'
  BY DEF ShownInvariant, Serving
<1>3. Deploying' = Deploying /\ (rec.at \in DOMAIN Charts => Deploying \in Components)
  BY ChartFacts, Zenon DEF Deploying
<1>4. Progress'
  BY <1>1, <1>3 DEF ShownInvariant, Progress, Watched
<1>5. ControlPlaneShown'
  <2>1. \A seen : StatusNow(FALSE, seen)' = StatusNow(FALSE, seen)
    BY DEF StatusNow
  <2> QED BY <1>1, <2>1, Zenon DEF ShownInvariant, ControlPlaneShown, Deployed
<1> QED BY <1>2, <1>4, <1>5, Zenon DEF ShownInvariant

LEMMA BootShown ==
    ASSUME ControlPlaneInvariant, ShownInvariant, Bootstrap
    PROVE  ShownInvariant'
<1>1. boot \in BootType /\ ObjectsOK
  BY DEF ControlPlaneInvariant, ControlPlaneType, ShownInvariant
<1>2. \A pc : LET b == [boot EXCEPT !.pc = pc] IN b.pc = pc
  BY <1>1 DEF BootType
<1>3. ~Leading => rec.pc = "idle"
  BY DEF ShownInvariant, Serving
<1>4. CASE Exits /\ UNCHANGED objectVars
  BY <1>1, <1>4, NoLeaderStep, Zenon DEF Exits, MainStart, NoRequest, Leading, ObjectsOK, objectVars
<1>5. CASE BootApply \/ BootWait
  <2>1. CASE ~Exits
    <3>1. boot'.pc \in {"apply", "wait", "elect"} /\ ~Leading /\ rec' = rec /\ queue' = queue
      BY <1>1, <1>5, <2>1, Zenon DEF BootApply, BootWait, BootType, Leading
    <3>2. present' \in [Components -> SUBSET ObjectKinds]
      BY <1>1, <1>5, <2>1 DEF BootApply, BootWait, ApplyCRD, ObjectsOK, ObjectKinds, objectVars
    <3> QED BY <1>1, <1>3, <3>1, <3>2, NoLeaderStep DEF Leading, ObjectsOK
  <2>2. CASE Exits
    <3>1. present' \in [Components -> SUBSET ObjectKinds]
      BY <1>1, <1>5 DEF BootApply, BootWait, ApplyCRD, ObjectsOK, ObjectKinds, objectVars
    <3> QED BY <2>2, <3>1, NoLeaderStep, Zenon DEF Exits, MainStart, NoRequest, Leading, ObjectsOK
  <2> QED BY <2>1, <2>2
<1>6. CASE Elected
  <2>1. ~Leading /\ queue' = TRUE /\ rec' = rec /\ UNCHANGED objectVars
    BY <1>6 DEF Elected, Leading
  <2> QED BY <1>1, <2>1, NoticedStep DEF ObjectsOK, objectVars
<1>7. CASE EnsureControlPlane /\ ~(Exits /\ UNCHANGED objectVars)
  <2>1. /\ boot'.pc = "detect" /\ boot.pc = "ensure" /\ rec' = rec /\ UNCHANGED objectVars
        /\ queue' = TRUE \/ UNCHANGED <<kcpVars, queue>>
    BY <1>2, <1>7, Zenon DEF EnsureControlPlane
  <2>2. Leading /\ Leading'
    BY <2>1 DEF Leading
  <2> QED BY <1>1, <2>1, <2>2, NoticedStep, QuietStep, Zenon DEF ObjectsOK, objectVars, kcpVars
<1>8. CASE DetectOLM \/ StripResource \/ DeleteSubscription \/ DeleteCSV \/ ListKuadrants \/ RemoveFinalizer \/ PassEnds
  <2>1. Leading /\ Leading'
    <3>1. Leading
      BY <1>8, Zenon DEF DetectOLM, StripResource, DeleteSubscription, DeleteCSV, ListKuadrants, RemoveFinalizer, PassEnds, Leading
    <3>2. boot'.pc = boot.pc \/ boot'.pc \in {"strip", "subscription", "csv", "finalizers", "remove", "done"}
      BY <1>1, <1>8, Zenon DEF DetectOLM, StripResource, DeleteSubscription, DeleteCSV, ListKuadrants, RemoveFinalizer,
                        PassEnds, Migrate, MigrationFails, BootType
    <3> QED BY <3>1, <3>2 DEF Leading
  <2>2. /\ UNCHANGED <<kcp, status, established, available, rec, present, kcpOwner>>
        /\ queue' = TRUE \/ queue' = queue
    BY <1>1, <1>8, Zenon DEF DetectOLM, StripResource, DeleteSubscription, DeleteCSV, ListKuadrants, RemoveFinalizer, PassEnds,
                      objectVars, kcpVars, ObjectsOK
  <2> QED BY <1>1, <2>1, <2>2, NoticedStep, QuietStep, Zenon DEF ObjectsOK
<1> QED BY <1>4, <1>5, <1>6, <1>7, <1>8 DEF Bootstrap

\* Where deployComponents goes on.
LEMMA DeployFacts ==
    ASSUME rec \in RecType, NEW i \in Nat, NEW f, Deploy(i, f)
    PROVE  /\ rec'.at = i /\ rec'.failed = f /\ rec'.uid = rec.uid
           /\ rec'.pc \in {"apply", "status"}
           /\ rec'.pc = "status" => i > Len(Charts)
BY ChartFacts DEF Deploy, RecType

\* A component that failed; whatever else is deployed, the request will be put back.
LEMMA FailedStep ==
    ASSUME ControlPlaneType, ShownInvariant, ObjectsOK', rec.pc # "idle", Deploy(rec.at + 1, TRUE), boot' = boot
    PROVE  ShownInvariant'
<1>1. rec \in RecType /\ rec.at + 1 \in Nat
  BY DEF ControlPlaneType, RecType
<1>2. rec'.failed /\ rec'.pc # "idle" /\ (rec'.pc = "status" => rec'.at > Len(Charts))
  BY <1>1, DeployFacts, Zenon
<1> QED BY <1>2, Zenon DEF ShownInvariant, Serving, Leading, Progress, ControlPlaneShown

LEMMA RecFacts == ControlPlaneType => rec \in RecType /\ rec.at \in Nat /\ rec.at + 1 \in Nat
BY DEF ControlPlaneType, RecType

LEMMA ResourceFacts ==
    ASSUME NEW c
    PROVE  /\ Len(Resources(c)) \in Nat /\ Len(Resources(c)) \in 1..Len(Resources(c))
           /\ Resources(c)[Len(Resources(c))] = "deployment"
           /\ \A n \in 0..Len(Resources(c)) : ~(n < Len(Resources(c))) => n = Len(Resources(c))
BY DEF Resources

\* Everything in the chart of a component has been applied.
LEMMA ResourcesShown ==
    ASSUME ControlPlaneType, ShownInvariant, NEW n \in 0..Len(Resources(Deploying)), rec.pc = "resources",
           ApplyResources(Deploying, {Resources(Deploying)[j] : j \in 1..n}, rec.uid),
           Deploy(rec.at + 1, rec.failed \/ n < Len(Resources(Deploying))),
           queue' = (queue \/ \E r \in Watched \cap {Resources(Deploying)[j] : j \in 1..n} :
                                 r \notin present[Deploying] \/ kcpOwner[Deploying][r] # rec.uid),
           UNCHANGED <<kcpVars, boot>>
    PROVE  ShownInvariant'
<1> DEFINE R == Resources(Deploying)
           A == {R[j] : j \in 1..n}
<1>1. rec \in RecType /\ rec.at \in Nat /\ rec.at + 1 \in Nat
  BY RecFacts
<1>2. /\ rec'.at = rec.at + 1 /\ rec'.failed = (rec.failed \/ n < Len(R)) /\ rec'.uid = rec.uid
      /\ rec'.pc \in {"apply", "status"}
      /\ rec'.pc = "status" => rec.at + 1 > Len(Charts)
  BY <1>1, DeployFacts, Zenon
<1>3. A \subseteq ObjectKinds /\ Len(R) \in Nat
  BY DEF Resources, ObjectKinds
<1>4. n = Len(R) => "deployment" \in A
  <2>1. R[Len(R)] = "deployment" /\ Len(R) \in 1..Len(R)
    BY ResourceFacts
  <2> QED BY <2>1, Zenon
<1>5. ObjectsOK'
  BY <1>3, Zenon DEF ShownInvariant, ObjectsOK, ApplyResources
<1>6. Serving'
  BY <1>2, ZenonT(40) DEF ShownInvariant, Serving, Leading
<1>7. ControlPlaneShown'
  BY <1>2, Zenon DEF ControlPlaneShown
<1>8. ASSUME ~queue', ~rec'.failed, kcp' = rec'.uid, NEW i \in DOMAIN Charts, i < rec'.at
      PROVE  Deployed(Charts[i])'
  <2>1. kcp = rec.uid /\ kcp' = kcp /\ ~queue /\ ~rec.failed /\ n = Len(R)
    <3>1. ~queue /\ kcp = rec.uid /\ kcp' = kcp
      BY <1>2, <1>8, Zenon DEF kcpVars
    <3>2. ~rec.failed /\ ~(n < Len(R)) /\ n \in 0..Len(R)
      BY <1>2, <1>8, Zenon
    <3> QED BY <3>1, <3>2, ResourceFacts, Zenon
  <2>2. Charts[i] \in Components /\ "deployment" \in ObjectKinds
    BY ChartFacts, Zenon DEF ObjectKinds
  <2>3. /\ present[Charts[i]] \subseteq present'[Charts[i]]
        /\ kcpOwner'[Charts[i]]["deployment"] \in {kcpOwner[Charts[i]]["deployment"], rec.uid}
    BY <2>2, ZenonT(40) DEF ApplyResources, ControlPlaneType, ShownInvariant, ObjectsOK
  <2>4. CASE i < rec.at
    BY <2>1, <2>3, <2>4, Zenon DEF ShownInvariant, Progress, Deployed
  <2>5. CASE i = rec.at
    <3>1. Charts[i] = Deploying /\ "crd" \in present[Deploying]
      BY <2>1, <2>5, Zenon DEF ShownInvariant, Progress, Deploying
    <3>2. "deployment" \in present'[Charts[i]] /\ kcpOwner'[Charts[i]]["deployment"] = rec.uid
      BY <1>4, <2>1, <2>2, <3>1, ZenonT(40) DEF ApplyResources, ControlPlaneType, ShownInvariant, ObjectsOK
    <3> QED BY <2>1, <2>3, <3>1, <3>2, Zenon DEF Deployed, Watched
  <2>6. i \in Nat /\ rec.at \in Nat /\ i < rec.at + 1
    <3>1. \A k \in DOMAIN Charts : k \in Nat
      BY ONLY ChartFacts
    <3> QED BY <1>1, <1>2, <1>8, <3>1, Zenon
  <2>7. i < rec.at \/ i = rec.at
    BY ONLY <2>6
  <2> QED BY <2>4, <2>5, <2>7, ZenonT(40)
<1>9. Progress'
  <2>1. rec'.pc \notin {"idle", "wait", "resources"}
    BY <1>2
  <2> QED BY <1>8, <2>1, Zenon DEF Progress
<1> QED BY <1>5, <1>6, <1>7, <1>9, Zenon DEF ShownInvariant

LEMMA ReconcilerShown ==
    ASSUME ControlPlaneInvariant, ShownInvariant, Reconciler
    PROVE  ShownInvariant'
<1>1. ControlPlaneType /\ rec \in RecType /\ ObjectsOK
  BY DEF ControlPlaneInvariant, ControlPlaneType, ShownInvariant
<1>2. boot' = boot /\ (Leading' <=> Leading)
  BY Zenon DEF Reconciler, ReconcileControlPlane, DeployCRD, WaitForCRD, DeployResources, UpdateStatus, Resync, Leading
<1>3. CASE ReconcileControlPlane
  <2>1. ObjectsOK'
    BY <1>1, <1>3, Zenon DEF ReconcileControlPlane, ObjectsOK, objectVars
  <2>2. CASE kcp = 0
    BY <1>3, <2>1, <2>2, Zenon DEF ReconcileControlPlane, kcpVars, NoRequest, ShownInvariant, Serving, Progress, ControlPlaneShown
  <2>3. CASE kcp # 0
    <3>1. rec'.pc = "apply" /\ rec'.at = 1 /\ Leading
      BY <1>3, <2>3, Zenon DEF ReconcileControlPlane
    <3>2. Serving' /\ ControlPlaneShown'
      BY <1>2, <3>1, Zenon DEF Serving, ControlPlaneShown
    <3>3. Progress'
      BY <3>1, ChartFacts DEF Progress
    <3> QED BY <2>1, <3>2, <3>3, Zenon DEF ShownInvariant
  <2> QED BY <2>2, <2>3
<1>4. CASE DeployCRD
  <2>1. ObjectsOK'
    BY <1>1, <1>4, Zenon DEF DeployCRD, ApplyCRD, ObjectsOK, ObjectKinds, objectVars
  <2>2. CASE Deploy(rec.at + 1, TRUE)
    BY <1>1, <1>2, <1>4, <2>1, <2>2, FailedStep DEF DeployCRD
  <2>3. CASE rec' = [rec EXCEPT !.pc = "wait"] /\ ApplyCRD(Deploying)
    <3>1. /\ rec'.pc = "wait" /\ rec'.at = rec.at /\ rec'.failed = rec.failed /\ rec'.uid = rec.uid
          /\ rec.pc = "apply" /\ UNCHANGED <<kcpVars, kcpOwner>> /\ Deploying' = Deploying
      BY <1>1, <1>4, <2>3 DEF DeployCRD, RecType, ApplyCRD, Deploying
    <3>2. ~queue' => ~queue /\ present' = present
      BY <1>4, Zenon DEF DeployCRD
    <3>3. rec.at \in DOMAIN Charts => "crd" \in present'[Deploying]
      BY <1>1, <2>3, ChartFacts, Zenon DEF ApplyCRD, ObjectsOK, Deploying
    <3>4. Progress'
      BY <3>1, <3>2, <3>3 DEF ShownInvariant, Progress, Deployed, kcpVars
    <3> QED BY <1>2, <2>1, <3>1, <3>4, Zenon DEF ShownInvariant, Serving, ControlPlaneShown
  <2> QED BY <1>4, <2>2, <2>3, Zenon DEF DeployCRD
<1>5. CASE WaitForCRD
  <2>1. UNCHANGED <<objectVars, kcpVars, queue>> /\ rec.pc = "wait"
    BY <1>5 DEF WaitForCRD
  <2>2. ObjectsOK'
    BY <1>1, <2>1 DEF ObjectsOK, objectVars
  <2>3. CASE Deploy(rec.at + 1, TRUE)
    BY <1>1, <1>2, <2>1, <2>2, <2>3, FailedStep
  <2>4. CASE rec' = [rec EXCEPT !.pc = "resources"]
    <3>1. /\ rec'.pc = "resources" /\ rec'.at = rec.at /\ rec'.failed = rec.failed /\ rec'.uid = rec.uid
          /\ Deploying' = Deploying
      BY <1>1, <2>4 DEF RecType, Deploying
    <3> QED BY <1>2, <2>1, <2>2, <3>1, Zenon DEF ShownInvariant, Serving, Progress, Deployed, ControlPlaneShown, kcpVars, objectVars
  <2> QED BY <1>5, <2>3, <2>4, Zenon DEF WaitForCRD
<1>6. CASE DeployResources
  BY <1>1, <1>2, <1>6, ResourcesShown, Zenon DEF DeployResources
<1>7. CASE UpdateStatus
  <2>1. /\ rec' = NoRequest /\ rec.pc = "status" /\ UNCHANGED <<objectVars, kcp>>
        /\ queue' \in BOOLEAN
    BY <1>1, <1>7, Zenon DEF UpdateStatus, StatusRetried, ObjectsOK
  <2>2. ObjectsOK'
    BY <1>1, <2>1 DEF ObjectsOK, objectVars
  <2>3. CASE queue'
    BY <1>2, <2>1, <2>2, <2>3, NoticedStep, Zenon
  <2>4. CASE ~queue'
    <3>1. /\ kcp = rec.uid /\ ~rec.failed /\ ~queue
          /\ \E seen \in SUBSET established : status' = StatusNow(FALSE, seen)
      BY <1>1, <1>7, <2>4, Zenon DEF UpdateStatus, StatusRetried, ObjectsOK, RecType
    <3>2. \A i \in DOMAIN Charts : Deployed(Charts[i])
      <4>1. \A i \in DOMAIN Charts : i < rec.at
        BY <1>1, <2>1, ChartFacts DEF ShownInvariant, Serving, RecType
      <4> QED BY <2>1, <3>1, <4>1 DEF ShownInvariant, Progress
    <3>3. \A seen : StatusNow(FALSE, seen)' = StatusNow(FALSE, seen)
      BY <2>1 DEF StatusNow, objectVars
    <3>4. ControlPlaneShown'
      BY <2>1, <3>1, <3>2, <3>3, Zenon DEF ControlPlaneShown, Deployed, objectVars
    <3> QED BY <2>1, <2>2, <3>4 DEF ShownInvariant, Serving, Progress, NoRequest
  <2> QED BY <2>3, <2>4
<1>8. CASE Resync
  BY <1>1, <1>2, <1>8, NoticedStep, Zenon DEF Resync, ObjectsOK, objectVars
<1> QED BY <1>3, <1>4, <1>5, <1>6, <1>7, <1>8 DEF Reconciler

LEMMA ClusterShown ==
    ASSUME ControlPlaneInvariant, ShownInvariant, Cluster
    PROVE  ShownInvariant'
<1>1. ObjectsOK /\ (~Leading => rec.pc = "idle")
  BY DEF ShownInvariant, Serving
<1>2. ASSUME Notices, UNCHANGED <<boot, rec>>, present' \in [Components -> SUBSET ObjectKinds]
      PROVE  ShownInvariant'
  <2>1. ObjectsOK' /\ (Leading' <=> Leading) /\ (Leading => queue')
    BY <1>1, <1>2, Zenon DEF ObjectsOK, Notices, Leading
  <2> QED BY <1>1, <1>2, <2>1, NoticedStep, NoLeaderStep
<1>3. ASSUME NEW c \in Components, Establish(c) \/ BecomesAvailable(c) \/ Fails(c)
      PROVE  ShownInvariant'
  BY <1>1, <1>2, <1>3 DEF Establish, BecomesAvailable, Fails, ObjectsOK
<1>4. ASSUME NEW c \in Components, NEW r \in ObjectKinds, Collect(c, r) \/ UserDeletes(c, r)
      PROVE  ShownInvariant'
  <2>1. Remove(c, r)
    BY <1>4, Zenon DEF Collect, UserDeletes
  <2>2. present' \in [Components -> SUBSET ObjectKinds] /\ UNCHANGED <<kcpVars, boot, rec>>
    BY <1>1, <2>1, Zenon DEF Remove, ObjectsOK
  <2>3. CASE r \in Watched
    BY <1>2, <2>1, <2>2, <2>3, Zenon DEF Remove
  <2>4. CASE r \notin Watched
    <3>1. UNCHANGED <<established, available, queue>>
      BY <2>1, <2>4, Zenon DEF Remove, Watched
    <3>2. \A d \in Components : /\ present[d] \cap Watched \subseteq present'[d]
                                /\ kcpOwner'[d]["deployment"] = kcpOwner[d]["deployment"]
      BY <1>1, <2>1, <2>4 DEF Remove, ObjectsOK, Watched, ControlPlaneInvariant, ControlPlaneType
    <3> QED BY <1>1, <2>2, <3>1, <3>2, QuietStep, Zenon DEF ObjectsOK, kcpVars, Leading
  <2> QED BY <2>3, <2>4, Zenon
<1>5. CASE UserDeletesControlPlane \/ UserCreatesControlPlane
  BY <1>1, <1>2, <1>5, Zenon DEF UserDeletesControlPlane, UserCreatesControlPlane, ObjectsOK, objectVars
<1>6. ASSUME NEW k \in Kuadrants, UserRemovesFinalizer(k)
      PROVE  ShownInvariant'
  BY <1>1, <1>6, QuietStep DEF UserRemovesFinalizer, ObjectsOK, objectVars, kcpVars, Leading
<1>7. CASE Crash
  BY <1>1, <1>7, NoLeaderStep, Zenon DEF Crash, Exits, MainStart, NoRequest, Leading, ObjectsOK, objectVars
<1> QED BY <1>3, <1>4, <1>5, <1>6, <1>7 DEF Cluster

\* When the reconciler has nothing to do, every component is deployed for the control plane that
\* there is and the status says so, for any components and any number of faults, crashes and
\* changes: every change that could make it untrue is noticed by a watch, or puts the request back.
THEOREM StatusIsShown == ControlPlaneSpec => []ControlPlaneShown
<1>1. ControlPlaneInvariant /\ ShownInvariant /\ [ControlPlaneNext]_controlPlaneVars => ShownInvariant'
  <2> SUFFICES ASSUME ControlPlaneInvariant, ShownInvariant, [ControlPlaneNext]_controlPlaneVars
               PROVE  ShownInvariant'
    OBVIOUS
  <2>1. CASE UNCHANGED controlPlaneVars
    BY <2>1, QuietStep, Zenon DEF controlPlaneVars, objectVars, kcpVars, Leading, ShownInvariant, ObjectsOK
  <2> QED BY <2>1, BootShown, ReconcilerShown, ClusterShown DEF ControlPlaneNext
<1>2. ShownInvariant => ControlPlaneShown
  BY DEF ShownInvariant
<1> QED BY <1>1, <1>2, ShownInitially, BootstrapInvariant, PTL DEF ControlPlaneSpec
=============================================================================
