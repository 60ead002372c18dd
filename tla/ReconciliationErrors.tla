------------------------ MODULE ReconciliationErrors ------------------------
(***************************************************************************)
(* Failed writes and their retries (internal/controller: the reconcilers   *)
(* of the gateways' resources, reconciliation_errors.go and                *)
(* kuadrant_controller.go).  A pass of the operator runs the reconcilers   *)
(* whose subscription matches one of its events.  Each compares the        *)
(* resource it wants with the one in the topology and creates, updates or  *)
(* deletes it; a write that fails is recorded in the registry of the pass, *)
(* and the pass goes on.  At its end the handler merges the registry into  *)
(* the tracker that outlives passes and schedules a retry with the events  *)
(* of the pass.  The handler is the last step of the workflow: a task that *)
(* returns its error, as the topology reconciler does, ends the pass       *)
(* without it.                                                             *)
(***************************************************************************)
EXTENDS Integers

CONSTANTS
    Reconcilers,
    Kinds,              \* the kinds of the resources that are watched
    Watches,            \* the kinds that a reconciler subscribes to
    Owns,               \* the kind of the resource that a reconciler manages
    Specs,              \* what such a resource may hold
    Absent,             \* no resource
    maxRetryAttempts,
    MaxChanges          \* bounds changes of the cluster, restarts and aborts

ASSUME WatchesAssumption ==
    /\ Watches \in [Reconcilers -> SUBSET Kinds]
    /\ Owns \in [Reconcilers -> Kinds]
    /\ \A r \in Reconcilers : Owns[r] \in Watches[r]
ASSUME BoundsAssumption ==
    /\ maxRetryAttempts \in Nat \ {0}
    /\ MaxChanges \in Nat

VARIABLES
    desired,        \* what a reconciler computes from the topology
    ready,          \* the reconcilers that find what they depend on
    actual,         \* the resource in the cluster
    events,         \* the kinds with an event that no pass has seen
    pass,           \* the pass that runs
    registry,       \* its ErrorRegistry
    tracked,        \* the keys of PersistentErrorTracker
    retryCount,     \* and their RetryCount
    retryTimer,     \* the events of the scheduled retry
    propagate,      \* the events of retries whose timer has fired
    failed,         \* the writes last attempted in vain, and not given up
    aborted,        \* the last pass ended without its error handler
    changes         \* counts the changes, restarts and aborts

clusterVars == <<desired, ready, changes>>
trackerVars == <<tracked, retryCount>>
vars == <<clusterVars, actual, events, pass, registry, trackerVars, retryTimer,
          propagate, failed, aborted>>

Operations == {"create", "update", "delete"}

\* The Key of an error names a resource and an operation.
Keys == Reconcilers \X Operations

Change == changes < MaxChanges /\ changes' = changes + 1

NoEvents == {}
Idle == [running |-> FALSE, events |-> NoEvents, todo |-> {}]

-----------------------------------------------------------------------------
(***************************************************************************)
(* The reconcilers of a pass.                                              *)
(***************************************************************************)
Subscribed(r, es) == Watches[r] \cap es # {}

Operation(r) ==
    CASE actual[r] = Absent -> "create"
      [] desired[r] = Absent -> "delete"
      [] OTHER -> "update"

\* r has run and has failed to do ops.
Done(r, ops) ==
    /\ pass' = [pass EXCEPT !.todo = @ \ {r}]
    /\ failed' = {k \in failed : k[1] # r} \cup ({r} \X ops)

\* What it depends on is missing, or the resource is as it should be.
NothingToDo(r) ==
    /\ r \in pass.todo
    /\ r \in ready => actual[r] = desired[r]
    /\ Done(r, {})
    /\ UNCHANGED <<clusterVars, actual, events, registry, trackerVars,
                   retryTimer, propagate, aborted>>

WriteSucceeds(r) ==
    /\ r \in pass.todo
    /\ r \in ready
    /\ actual[r] # desired[r]
    /\ actual' = [actual EXCEPT ![r] = desired[r]]
    /\ events' = events \cup {Owns[r]}
    /\ Done(r, {})
    /\ UNCHANGED <<clusterVars, registry, trackerVars, retryTimer, propagate,
                   aborted>>

\* Record.
WriteFails(r) ==
    /\ r \in pass.todo
    /\ r \in ready
    /\ actual[r] # desired[r]
    /\ registry' = registry \cup {<<r, Operation(r)>>}
    /\ Done(r, {Operation(r)})
    /\ UNCHANGED <<clusterVars, actual, events, trackerVars, retryTimer,
                   propagate, aborted>>

\* A task of the workflow returns an error: the rest of the pass is cancelled,
\* the error handler with it, and the errors it recorded are forgotten.
PassAborts ==
    /\ Change
    /\ pass.running
    /\ pass' = Idle
    /\ registry' = {}
    /\ aborted' = TRUE
    /\ UNCHANGED <<desired, ready, actual, events, trackerVars, retryTimer,
                   propagate, failed>>

-----------------------------------------------------------------------------
(***************************************************************************)
(* PersistentErrorTracker and ReconciliationErrorHandler.                  *)
(***************************************************************************)
ShouldRetry(n) == n < maxRetryAttempts

GiveUp ==
    {k \in registry \cap tracked : ~ShouldRetry(retryCount[k] + 1)}

\* An error that no longer occurs stays tracked.
UpdateFromRegistryKeeps ==
    /\ tracked' = (tracked \cup registry) \ GiveUp
    /\ retryCount' = [k \in Keys |->
                        IF k \in (registry \cap tracked) \ GiveUp
                        THEN retryCount[k] + 1 ELSE 0]

\* New errors start at zero, those seen again count up, and those not seen
\* are taken for resolved.
UpdateFromRegistry ==
    /\ tracked' = registry \ GiveUp
    /\ retryCount' = [k \in Keys |->
                        IF k \in (registry \cap tracked) \ GiveUp
                        THEN retryCount[k] + 1 ELSE 0]

\* The delay of an error is positive, so that of the tracker is as long as it
\* has one; how long is left open.
ShouldRequeue(keys) == keys # {}

\* The retry is scheduled with the events that came during the pass.
ScheduleRetryLater == retryTimer' = events

\* The retry is scheduled with the events of the pass.
ScheduleRetry == retryTimer' = pass.events

HandleErrors ==
    /\ pass.running
    /\ pass.todo = {}
    /\ UpdateFromRegistry
    /\ IF registry # {} /\ ShouldRequeue(tracked')
       THEN ScheduleRetry ELSE UNCHANGED retryTimer
    /\ failed' = failed \ GiveUp
    /\ registry' = {}
    /\ pass' = Idle
    /\ aborted' = FALSE
    /\ UNCHANGED <<clusterVars, actual, events, propagate>>

-----------------------------------------------------------------------------
(***************************************************************************)
(* KuadrantController.  Passes follow one another.                         *)
(***************************************************************************)
Start(es) ==
    /\ ~pass.running
    /\ pass' = [running |-> TRUE, events |-> es,
                todo |-> {r \in Reconcilers : Subscribed(r, es)}]
    /\ UNCHANGED <<clusterVars, actual, registry, trackerVars, failed, aborted>>

\* A pass for new events cancels the retry.
Reconcile ==
    /\ events # NoEvents
    /\ Start(events)
    /\ events' = NoEvents
    /\ retryTimer' = NoEvents
    /\ UNCHANGED propagate

\* AfterFunc: nothing is left to retry, or Propagate waits for its pass.
TimerFires ==
    /\ retryTimer # NoEvents
    /\ propagate' = IF ShouldRequeue(tracked)
                    THEN propagate \cup {retryTimer} ELSE propagate
    /\ retryTimer' = NoEvents
    /\ UNCHANGED <<clusterVars, actual, events, pass, registry, trackerVars,
                   failed, aborted>>

Propagate ==
    /\ \E es \in propagate : Start(es) /\ propagate' = propagate \ {es}
    /\ UNCHANGED <<events, retryTimer>>

-----------------------------------------------------------------------------

\* A policy or a gateway changes what a reconciler wants.
DesiredChanges ==
    /\ Change
    /\ \E r \in Reconcilers :
          /\ \E s \in (Specs \cup {Absent}) \ {desired[r]} :
                desired' = [desired EXCEPT ![r] = s]
          /\ \E k \in Watches[r] : events' = events \cup {k}
    /\ UNCHANGED <<ready, actual, pass, registry, trackerVars, retryTimer,
                   propagate, failed, aborted>>

\* What a reconciler depends on comes or goes: Kuadrant, Authorino, Limitador.
DependencyChanges ==
    /\ Change
    /\ \E r \in Reconcilers :
          ready' = IF r \in ready THEN ready \ {r} ELSE ready \cup {r}
    /\ \E k \in Kinds : events' = events \cup {k}
    /\ UNCHANGED <<desired, actual, pass, registry, trackerVars, retryTimer,
                   propagate, failed, aborted>>

OtherEvent ==
    /\ Change
    /\ \E k \in Kinds : events' = events \cup {k}
    /\ UNCHANGED <<desired, ready, actual, pass, registry, trackerVars,
                   retryTimer, propagate, failed, aborted>>

\* A new operator process sees everything as created.
OperatorRestarts ==
    /\ Change
    /\ events' = Kinds
    /\ pass' = Idle
    /\ registry' = {}
    /\ tracked' = {}
    /\ retryCount' = [k \in Keys |-> 0]
    /\ retryTimer' = NoEvents
    /\ propagate' = {}
    /\ failed' = {}
    /\ aborted' = FALSE
    /\ UNCHANGED <<desired, ready, actual>>

Init ==
    /\ desired = [r \in Reconcilers |-> Absent]
    /\ ready = Reconcilers
    /\ actual = [r \in Reconcilers |-> Absent]
    /\ events = NoEvents
    /\ pass = Idle
    /\ registry = {}
    /\ tracked = {}
    /\ retryCount = [k \in Keys |-> 0]
    /\ retryTimer = NoEvents
    /\ propagate = {}
    /\ failed = {}
    /\ aborted = FALSE
    /\ changes = 0

Next ==
    \/ \E r \in Reconcilers : NothingToDo(r) \/ WriteSucceeds(r) \/ WriteFails(r)
    \/ PassAborts
    \/ HandleErrors
    \/ Reconcile
    \/ TimerFires
    \/ Propagate
    \/ DesiredChanges
    \/ DependencyChanges
    \/ OtherEvent
    \/ OperatorRestarts

Spec == Init /\ [][Next]_vars

-----------------------------------------------------------------------------

(***************************************************************************)
(* Type correctness.  A tracked error has been retried less often than     *)
(* maxRetryAttempts (UpdateFromRegistry gives up before that).             *)
(***************************************************************************)
TypeOK ==
    /\ desired \in [Reconcilers -> Specs \cup {Absent}]
    /\ ready \subseteq Reconcilers
    /\ actual \in [Reconcilers -> Specs \cup {Absent}]
    /\ events \subseteq Kinds
    /\ pass \in [running : BOOLEAN, events : SUBSET Kinds,
                 todo : SUBSET Reconcilers]
    /\ registry \subseteq Keys
    /\ tracked \subseteq Keys
    /\ retryCount \in [Keys -> 0..(maxRetryAttempts - 1)]
    /\ retryTimer \subseteq Kinds
    /\ propagate \subseteq SUBSET Kinds
    /\ failed \subseteq Keys
    /\ aborted \in BOOLEAN
    /\ changes \in 0..MaxChanges

(***************************************************************************)
(* While an error is tracked a pass is going to come: one runs, a retry is *)
(* scheduled or waits for its turn.  No sequence of passes, cancelled      *)
(* timers and retries leaves a tracked error without one, unless the last  *)
(* pass aborted: Reconcile has then cancelled the retry, and the handler   *)
(* that would schedule the next one has not run.                           *)
(***************************************************************************)
TrackedIsRetried ==
    tracked # {} =>
        \/ pass.running
        \/ retryTimer # NoEvents
        \/ propagate # {}
        \/ aborted

(***************************************************************************)
(* The scheduled retry runs every reconciler that has an error tracked:    *)
(* the events that ScheduleRetry copies match their subscriptions.         *)
(***************************************************************************)
RetryReachesFailed ==
    retryTimer # NoEvents => \A k \in tracked : Subscribed(k[1], retryTimer)

(***************************************************************************)
(* UpdateFromRegistry removes the errors it has not seen in the pass,      *)
(* since "they were successfully resolved": an error that leaves the       *)
(* tracker is not of a write that was last attempted in vain and not given *)
(* up.  It is not so: a pass for events that a reconciler does not         *)
(* subscribe to sees none of its errors, and has cancelled the retry.      *)
(***************************************************************************)
UnseenIsResolved == [][(tracked \ tracked') \cap failed' = {}]_vars
=============================================================================
