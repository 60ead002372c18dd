---------------------------- MODULE ConfigTrigger ----------------------------
(***************************************************************************)
(* How a change of the registered data reaches the data plane: the handler *)
(* that made it updates an annotation of the Kuadrant resource             *)
(* (Manager.TriggerReconciliation), the watcher of that resource lets the  *)
(* event through (AnnotationsChanged), and a reconciliation of the         *)
(* operator reads the store into the AuthConfigs and the wasm              *)
(* configuration.  Writes, triggers and reads interleave: the store has a  *)
(* lock per part, a reconciliation reads part after part, and the API      *)
(* server refuses an update of an object that has changed since it was     *)
(* read.                                                                   *)
(*                                                                         *)
(* Of the store (module RegisteredData) only which parts have changed      *)
(* since they were last read is kept.  There is at most one Kuadrant       *)
(* resource, which may come and go, and the calls of the API server may    *)
(* fail.                                                                   *)
(***************************************************************************)
CONSTANT Calls  \* the handlers that may run at a time

VARIABLES
    handler,    \* [op, at, since] of a running handler
    event,      \* the tasks that the waiting events lead to
    toRead,     \* what the running reconciliation has yet to do
    unrendered, \* what has changed since it was last read
    lost        \* of that, what a failed trigger or a failed task has left behind

triggerVars == <<handler, event, toRead, unrendered, lost>>

Parts == {"mutators", "upstreams", "pipeline"}

(***************************************************************************)
(* What the tasks of a reconciliation read, each behind a lock of its own. *)
(* AuthConfigs: the bindings (mutateAuthConfig).  Extension: the upstreams *)
(* (reconcileUpstreamClusters, then GetRelevantUpstreamKeys), the bindings *)
(* (GetRequestBindings), and the pipeline (hasRelevantPipelineActions,     *)
(* then GetPipelineActions with the target references).  What is written   *)
(* between the two looks at a part counts as not read.                     *)
(***************************************************************************)
StepsOf(task) ==
    CASE task = "AuthConfigs" -> {"authBindings"}
      [] task = "Extension"   -> {"upstreams", "requestBindings", "pipeline"}
      [] task = "Status"      -> {"status"}

Tasks == {"AuthConfigs", "Extension", "Status"}

Reads == StepsOf("AuthConfigs") \cup StepsOf("Extension")

\* The order of the Extension task.
Before(r) ==
    CASE r = "requestBindings" -> {"upstreams"}
      [] r = "pipeline" -> {"upstreams", "requestBindings"}
      [] OTHER -> {}

\* The target of an upstream is one of the target references of its policy's
\* pipeline, so skeletons depend on the pipeline alone.
ReadsOf(part) == IF part = "mutators" THEN {"authBindings", "requestBindings"} ELSE {part}

\* The tasks that subscribe to the events of a kind.
EventKinds == {"Kuadrant", "Gateway", "AuthPolicy", "RateLimitPolicy", "AuthConfig", "Authorino"}

Subscribed(kind) ==
    CASE kind \in {"Kuadrant", "Gateway"} -> Tasks
      [] kind = "AuthPolicy"      -> {"AuthConfigs", "Extension"}
      [] kind = "RateLimitPolicy" -> {"Extension"}
      [] kind = "AuthConfig"      -> {"AuthConfigs"}
      [] kind = "Authorino"       -> {"Status"}

NoHandler == [op |-> "none", at |-> "idle", since |-> "nothing"]

Running == {c \in Calls : handler[c] # NoHandler}

Begin(c, op) ==
    /\ handler[c] = NoHandler
    /\ handler' = [handler EXCEPT ![c] = [NoHandler EXCEPT !.op = op, !.at = "write"]]
    /\ UNCHANGED <<event, toRead, unrendered, lost>>

\* The handler of c changes some parts of the store, and goes on.
Write(c, parts, place) ==
    /\ unrendered' = unrendered \cup UNION {ReadsOf(part) : part \in parts}
    /\ handler' = [handler EXCEPT ![c] =
                     IF place = "return" THEN NoHandler ELSE [@ EXCEPT !.at = place]]
    /\ UNCHANGED <<event, toRead, lost>>

RegisterMutatorCall(c) ==
    \/ Begin(c, "RegisterMutator")
    \/ /\ handler[c].op = "RegisterMutator"
       /\ handler[c].at = "write"
       /\ Write(c, {"mutators"}, "list")

RegisterActionMethodCall(c) ==
    \/ Begin(c, "RegisterActionMethod")
    \/ /\ handler[c].op = "RegisterActionMethod"
       /\ handler[c].at = "write"
       /\ Write(c, {"upstreams"}, "list")

\* ReplacePipelineActions, then SetPipelineTargetRefs.
PipelineCommitCall(c) ==
    \/ Begin(c, "PipelineCommit")
    \/ /\ handler[c].op = "PipelineCommit"
       /\ handler[c].at = "write"
       /\ Write(c, {"pipeline"}, "refs")
    \/ /\ handler[c].op = "PipelineCommit"
       /\ handler[c].at = "refs"
       /\ Write(c, {"pipeline"}, "list")

\* The pipeline actions are not among the reasons to trigger.
ClearsNothingButActions(cleared) == cleared \subseteq {"pipeline"}

\* Nothing that was cleared is a reason to trigger: the counts of mutators,
\* upstreams and pipeline actions are zero.
ClearsNothing(cleared) == cleared = {}

\* ClearPolicy and pruneStalePolicies: ClearPolicyData in one step.
ClearPolicyCall(c) ==
    \/ Begin(c, "ClearPolicy")
    \/ /\ handler[c].op = "ClearPolicy"
       /\ handler[c].at = "write"
       /\ \E cleared \in SUBSET Parts :
             Write(c, cleared, IF ClearsNothing(cleared) THEN "return" ELSE "list")

-----------------------------------------------------------------------------
(***************************************************************************)
(* TriggerReconciliation lists the Kuadrant resources and updates the      *)
(* trigger annotations of what it has listed.                              *)
(***************************************************************************)
ListKuadrants(c) ==
    /\ handler[c].at = "list"
    /\ handler' = [handler EXCEPT ![c].at = "update"]
    /\ UNCHANGED <<event, toRead, unrendered, lost>>

\* The handlers hs after a change of the Kuadrant resource by a trigger or by
\* anything else.  One that has listed the resource will be refused; since
\* keeps that a trigger was among the changes.
Overtaken(hs, change) ==
    [c \in Calls |-> IF hs[c].at = "update" /\ hs[c].since # "trigger"
                        THEN [hs[c] EXCEPT !.since = change] ELSE hs[c]]

Trigger(c) ==
    /\ handler[c].at = "update"
    /\ handler[c].since = "nothing"
    /\ handler' = Overtaken([handler EXCEPT ![c] = NoHandler], "trigger")
    /\ event' = Subscribed("Kuadrant")
    /\ UNCHANGED <<toRead, unrendered, lost>>

\* What the handlers of an operation may have changed.
Scope(op) ==
    CASE op = "RegisterMutator"      -> ReadsOf("mutators")
      [] op = "RegisterActionMethod" -> ReadsOf("upstreams")
      [] op = "PipelineCommit"       -> ReadsOf("pipeline")
      [] OTHER -> Reads

\* TriggerReconciliation has returned an error.  PipelineCommit returns it, and
\* the reconciliation of the extension that called it runs again; the others
\* log it and succeed.  What they changed is left behind, unless another
\* trigger has been accepted since the list.
Failed(c) ==
    /\ handler' = [handler EXCEPT ![c] =
                     IF @.op = "PipelineCommit" THEN [@ EXCEPT !.at = "write", !.since = "nothing"]
                     ELSE NoHandler]
    /\ lost' = IF handler[c].op = "PipelineCommit" \/ handler[c].since = "trigger" THEN lost
               ELSE lost \cup (unrendered \cap Scope(handler[c].op))
    /\ UNCHANGED <<event, toRead, unrendered>>

\* The update conflicts.
Refused(c) ==
    /\ handler[c].at = "update"
    /\ handler[c].since # "nothing"
    /\ Failed(c)

\* A call of the API server fails, or there is no Kuadrant resource to list.
CallFails(c) ==
    /\ handler[c].at \in {"list", "update"}
    /\ Failed(c)

-----------------------------------------------------------------------------
(***************************************************************************)
(* The reconciliation of the operator: one at a time, the tasks that       *)
(* subscribe to its events beside each other, and the status of the        *)
(* Kuadrant resource at the end.                                           *)
(***************************************************************************)
StartReconcile ==
    /\ event # {}
    /\ toRead = {}
    /\ event' = {}
    /\ toRead' = UNION {StepsOf(task) : task \in event}
    /\ UNCHANGED <<handler, unrendered, lost>>

ReadStore ==
    /\ \E r \in toRead \ {"status"} :
          /\ Before(r) \cap toRead = {}
          /\ toRead' = toRead \ {r}
          /\ unrendered' = unrendered \ {r}
          /\ lost' = lost \ {r}
    /\ UNCHANGED <<handler, event>>

\* A task does not get to write what it reads: an earlier one or the task
\* itself returns an error, which ends the reconciliation, or a write fails,
\* or there is no Kuadrant resource and so no effective policy.
FailTask ==
    /\ \E task \in {"AuthConfigs", "Extension"} :
          /\ StepsOf(task) \cap toRead # {}
          /\ toRead' \in {toRead \ StepsOf(task), toRead \ (StepsOf(task) \cup {"status"})}
          /\ unrendered' = unrendered \cup StepsOf(task)
          /\ lost' = lost \cup StepsOf(task)
    /\ UNCHANGED <<handler, event>>

\* The status is written when it differs; the watcher drops the event.
KuadrantStatusUpdate ==
    /\ toRead = {"status"}
    /\ toRead' = {}
    /\ handler' \in {handler, Overtaken(handler, "change")}
    /\ UNCHANGED <<event, unrendered, lost>>

\* Another watched resource has changed, or a retry is due.
OtherEvent ==
    /\ \E kind \in EventKinds \ {"Kuadrant"} : event' = event \cup Subscribed(kind)
    /\ UNCHANGED <<handler, toRead, unrendered, lost>>

\* A user creates, changes or deletes the Kuadrant resource.
KuadrantEvent ==
    /\ handler' = Overtaken(handler, "change")
    /\ event' = Subscribed("Kuadrant")
    /\ UNCHANGED <<toRead, unrendered, lost>>

-----------------------------------------------------------------------------

TriggerInit ==
    /\ handler = [c \in Calls |-> NoHandler]
    /\ event = {}
    /\ toRead = {}
    /\ unrendered = {}
    /\ lost = {}

TriggerNext ==
    \/ \E c \in Calls :
          \/ RegisterMutatorCall(c)
          \/ RegisterActionMethodCall(c)
          \/ PipelineCommitCall(c)
          \/ ClearPolicyCall(c)
          \/ ListKuadrants(c)
          \/ Trigger(c)
          \/ Refused(c)
          \/ CallFails(c)
    \/ StartReconcile
    \/ ReadStore
    \/ FailTask
    \/ KuadrantStatusUpdate
    \/ OtherEvent
    \/ KuadrantEvent

TriggerSpec == TriggerInit /\ [][TriggerNext]_triggerVars

\* RegisterActionMethod alone, in a cluster with a Kuadrant resource where no
\* call and no task fails; only an update that conflicts is refused.
MethodNext ==
    \/ \E c \in Calls :
          RegisterActionMethodCall(c) \/ ListKuadrants(c) \/ Trigger(c) \/ Refused(c)
    \/ StartReconcile
    \/ ReadStore
    \/ KuadrantStatusUpdate
    \/ OtherEvent

MethodSpec == TriggerInit /\ [][MethodNext]_triggerVars

-----------------------------------------------------------------------------

HandlerStates ==
    [op : {"none", "RegisterMutator", "RegisterActionMethod", "PipelineCommit", "ClearPolicy"},
     at : {"idle", "write", "refs", "list", "update"},
     since : {"nothing", "change", "trigger"}]

(***************************************************************************)
(* Type correctness; what a handler noticed of the Kuadrant resource, it   *)
(* noticed between its list and its update.                                *)
(***************************************************************************)
TriggerTypeOK ==
    /\ handler \in [Calls -> HandlerStates]
    /\ \A c \in Calls : handler[c].since # "nothing" => handler[c].at = "update"
    /\ toRead \subseteq Reads \cup {"status"}
    /\ unrendered \subseteq Reads
    /\ event \subseteq Tasks
    /\ lost \subseteq Reads

\* Nothing is under way and nothing is waiting.
Quiet == Running = {} /\ event = {} /\ toRead = {}

(***************************************************************************)
(* When the operator comes to rest it has rendered all that was            *)
(* registered, but for what a failed trigger or a failed task left behind  *)
(* and nothing has read since.  Handlers write before they trigger; a      *)
(* reconciliation that read half of a change is followed by another; and   *)
(* of two triggers that conflict, the one that is accepted covers the      *)
(* change of the one that is refused (TriggerReconciliation).              *)
(***************************************************************************)
ConfigCurrent == Quiet => unrendered \subseteq lost

(***************************************************************************)
(* When the operator comes to rest, all that was registered is rendered.   *)
(* The action-pipeline design has RegisterActionMethod "Trigger            *)
(* reconciliation"; the handler answers with success when its update of    *)
(* the Kuadrant resource conflicts with an update of the status, which     *)
(* triggers nothing.                                                       *)
(***************************************************************************)
ChangesRendered == Quiet => unrendered = {}
=============================================================================
