---------------------------- MODULE Subscriptions ----------------------------
(***************************************************************************)
(* How an extension follows the topology.  Each reconciliation of the      *)
(* operator publishes the topology it has worked on (nilGuardedPointer,    *)
(* internal/extension/reconciler.go).  Resolve evaluates a CEL expression  *)
(* of a policy on it and keeps a subscription with the value; Subscribe, a *)
(* stream, evaluates the subscriptions on each new topology and sends an   *)
(* event for a policy whose value has changed; the extension then          *)
(* reconciles the policy, which resolves again.                            *)
(*                                                                         *)
(* A topology is represented by the value that the expression has on it:   *)
(* nothing else of it is observed, Err if it cannot be evaluated on it.    *)
(* Each policy subscribes one expression.                                  *)
(***************************************************************************)
EXTENDS Naturals

CONSTANTS
    Policies,   \* the policies of the kind
    Values,     \* what the expression may evaluate to
    First,      \* what it evaluates to at first
    Err,        \* the evaluation fails
    Nil,        \* no topology, no value, no message
    MaxEvents   \* bounds changes of the cluster, broken streams and restarts

ASSUME NilAssumption == Nil \notin Values \cup {Err}
ASSUME FirstAssumption == First \in Values
ASSUME MaxEventsAssumption == MaxEvents \in Nat

VARIABLES
    cluster,       \* the value in the cluster
    exists,        \* the policies in the cluster
    dag,           \* the pointer of BlockingDAG
    publishing,    \* what set has swapped in and has yet to send, or Nil
    subscriptions, \* the value stored with a policy's subscription, or Nil
    stream,        \* the Subscribe call
    wire,          \* events sent on the stream and not received
    queue,         \* the workqueue of the extension
    worker,        \* its reconciliation
    known,         \* what the extension last resolved for a policy
    dropped,       \* policies whose event went down with a stream
    events         \* counts the changes, breaks and restarts

clusterVars == <<cluster, exists, events>>
dagVars == <<dag, publishing>>
clientVars == <<wire, queue, worker, known, dropped>>
vars == <<clusterVars, dagVars, subscriptions, stream, clientVars>>

Outcomes == Values \cup {Err}
-----------------------------------------------------------------------------
(***************************************************************************)
(* nilGuardedPointer.  set swaps the pointer before it takes the lock and  *)
(* sends to the channels; only the reconciliation of the operator sets.    *)
(* The first value is not sent.  A channel holds one value.                *)
(***************************************************************************)
swap ==
    /\ publishing = Nil
    /\ dag' = cluster
    /\ publishing' = IF dag = Nil THEN Nil ELSE cluster
    /\ UNCHANGED <<clusterVars, subscriptions, stream, clientVars>>

\* A full channel is drained first.
sendLatest(buffered, x) == x

publish ==
    /\ publishing # Nil
    /\ stream' = IF stream.at = "down" THEN stream
                 ELSE [stream EXCEPT !.channel = sendLatest(@, publishing)]
    /\ publishing' = Nil
    /\ UNCHANGED <<clusterVars, dag, subscriptions, clientVars>>

-----------------------------------------------------------------------------
(***************************************************************************)
(* Subscribe.  topology is the one in hand, or the last one; found the     *)
(* subscriptions as read after it was received; todo those not yet         *)
(* compared; changed the one whose event is to be sent.                    *)
(***************************************************************************)
Down == [at |-> "down", channel |-> Nil, topology |-> Nil,
         found |-> [p \in Policies |-> Nil], todo |-> {}, changed |-> Nil]

\* newUpdateChannel.  What the pointer holds is not sent.
subscribe ==
    /\ stream.at = "down"
    /\ stream' = [Down EXCEPT !.at = "wait", !.topology = dag]
    /\ UNCHANGED <<clusterVars, dagVars, subscriptions, clientVars>>

receiveTopology ==
    /\ stream.at = "wait"
    /\ stream.channel # Nil
    /\ stream' = [stream EXCEPT !.at = "read", !.channel = Nil,
                                !.topology = stream.channel]
    /\ UNCHANGED <<clusterVars, dagVars, subscriptions, clientVars>>

GetSubscriptionsForPolicyKind ==
    /\ stream.at = "read"
    /\ stream' = [stream EXCEPT
                    !.at = "compare", !.found = subscriptions,
                    !.todo = {p \in Policies : subscriptions[p] # Nil}]
    /\ UNCHANGED <<clusterVars, dagVars, subscriptions, clientVars>>

\* No event for the same value, nor when Eval fails.
Unchanged ==
    /\ stream.at = "compare"
    /\ \E p \in stream.todo :
          /\ stream.topology \in {stream.found[p], Err}
          /\ stream' = [stream EXCEPT !.todo = @ \ {p}]
    /\ UNCHANGED <<clusterVars, dagVars, subscriptions, clientVars>>

\* Nothing is stored when the policy has been cleared in the meantime.
UpdateSubscriptionValue(p, v) ==
    subscriptions' = [subscriptions EXCEPT ![p] = IF @ = Nil THEN Nil ELSE v]

ValueChanged ==
    /\ stream.at = "compare"
    /\ \E p \in stream.todo :
          /\ stream.topology \notin {stream.found[p], Err}
          /\ UpdateSubscriptionValue(p, stream.topology)
          /\ stream' = [stream EXCEPT !.at = "send", !.changed = p,
                                      !.todo = @ \ {p}]
    /\ UNCHANGED <<clusterVars, dagVars, clientVars>>

Send ==
    /\ stream.at = "send"
    /\ wire' = wire \cup {stream.changed}
    /\ stream' = [stream EXCEPT !.at = "compare", !.changed = Nil]
    /\ UNCHANGED <<clusterVars, dagVars, subscriptions, queue, worker, known,
                   dropped>>

Compared ==
    /\ stream.at = "compare"
    /\ stream.todo = {}
    /\ stream' = [stream EXCEPT !.at = "wait",
                                !.found = [p \in Policies |-> Nil]]
    /\ UNCHANGED <<clusterVars, dagVars, subscriptions, clientVars>>

\* The connection breaks: Send fails, or Context is done, and Subscribe
\* returns; events on the way are gone.  The extension finds its session still
\* valid and subscribes again.
StreamBreaks ==
    /\ stream.at # "down"
    /\ events < MaxEvents
    /\ events' = events + 1
    /\ stream' = Down
    /\ wire' = {}
    /\ dropped' = dropped \cup wire \cup ({stream.changed} \ {Nil})
    /\ UNCHANGED <<cluster, exists, dagVars, subscriptions, queue, worker,
                   known>>

\* The session is gone: the next handshake clears the policies that the
\* extension does not list, and the extension replays those it does.
SessionLost ==
    /\ events < MaxEvents
    /\ events' = events + 1
    /\ stream' = Down
    /\ wire' = {}
    /\ dropped' = {}
    /\ subscriptions' = [p \in Policies |-> IF p \in exists THEN subscriptions[p]
                                            ELSE Nil]
    /\ queue' = queue \cup exists
    /\ UNCHANGED <<cluster, exists, dagVars, worker, known>>

-----------------------------------------------------------------------------
(***************************************************************************)
(* The extension: one reconciliation at a time, of a policy taken off the  *)
(* workqueue.  Resolve waits for a topology, evaluates, stores the         *)
(* subscription and answers.                                               *)
(***************************************************************************)
Resting == [policy |-> Nil, at |-> "idle", value |-> Nil]

receiveEvent ==
    /\ \E p \in wire : wire' = wire \ {p} /\ queue' = queue \cup {p}
    /\ UNCHANGED <<clusterVars, dagVars, subscriptions, stream, worker, known,
                   dropped>>

Reconcile ==
    /\ worker = Resting
    /\ \E p \in queue :
          /\ queue' = queue \ {p}
          /\ dropped' = dropped \ {p}
          /\ worker' = [Resting EXCEPT
                          !.policy = p,
                          !.at = IF p \in exists THEN "resolve" ELSE "clear"]
    /\ UNCHANGED <<clusterVars, dagVars, subscriptions, stream, wire, known>>

\* getWaitWithTimeout and Eval.
evaluate ==
    /\ worker.at = "resolve"
    /\ dag # Nil
    /\ worker' = [worker EXCEPT !.at = "store", !.value = dag]
    /\ UNCHANGED <<clusterVars, dagVars, subscriptions, stream, wire, queue,
                   known, dropped>>

\* No topology in time: the reconciliation fails and is not retried.
ResolveTimesOutForGood ==
    /\ worker.at = "resolve"
    /\ dag = Nil
    /\ worker' = Resting
    /\ UNCHANGED <<clusterVars, dagVars, subscriptions, stream, wire, queue,
                   known, dropped>>

\* No topology in time: the reconciliation fails and is retried.
ResolveTimesOut ==
    /\ worker.at = "resolve"
    /\ dag = Nil
    /\ queue' = queue \cup {worker.policy}
    /\ worker' = Resting
    /\ UNCHANGED <<clusterVars, dagVars, subscriptions, stream, wire, known,
                   dropped>>

\* Also when the evaluation has failed.
SetSubscription ==
    /\ worker.at = "store"
    /\ subscriptions' = [subscriptions EXCEPT ![worker.policy] = worker.value]
    /\ worker' = [worker EXCEPT !.at = "answer"]
    /\ UNCHANGED <<clusterVars, dagVars, stream, wire, queue, known, dropped>>

ResolveAnswers ==
    /\ worker.at = "answer"
    /\ worker.value # Err
    /\ known' = [known EXCEPT ![worker.policy] = worker.value]
    /\ worker' = Resting
    /\ UNCHANGED <<clusterVars, dagVars, subscriptions, stream, wire, queue,
                   dropped>>

\* The reconciliation fails and is retried.
ResolveFails ==
    /\ worker.at = "answer"
    /\ worker.value = Err
    /\ queue' = queue \cup {worker.policy}
    /\ worker' = Resting
    /\ UNCHANGED <<clusterVars, dagVars, subscriptions, stream, wire, known,
                   dropped>>

\* ClearPolicy deletes the subscriptions of a policy that is being deleted.
ClearPolicy ==
    /\ worker.at = "clear"
    /\ subscriptions' = [subscriptions EXCEPT ![worker.policy] = Nil]
    /\ known' = [known EXCEPT ![worker.policy] = Nil]
    /\ worker' = Resting
    /\ UNCHANGED <<clusterVars, dagVars, stream, wire, queue, dropped>>

-----------------------------------------------------------------------------

ClusterChanges ==
    /\ events < MaxEvents
    /\ events' = events + 1
    /\ cluster' \in Outcomes \ {cluster}
    /\ UNCHANGED <<exists, dagVars, subscriptions, stream, clientVars>>

PolicyChanges ==
    /\ events < MaxEvents
    /\ events' = events + 1
    /\ \E p \in Policies :
          /\ exists' = IF p \in exists THEN exists \ {p} ELSE exists \cup {p}
          /\ queue' = queue \cup {p}
    /\ UNCHANGED <<cluster, dagVars, subscriptions, stream, wire, worker, known,
                   dropped>>

\* Another operator process: no topology, no subscription and no session; the
\* call in progress fails.
OperatorRestarts ==
    /\ events < MaxEvents
    /\ events' = events + 1
    /\ dag' = Nil
    /\ publishing' = Nil
    /\ subscriptions' = [p \in Policies |-> Nil]
    /\ stream' = Down
    /\ wire' = {}
    /\ dropped' = {}
    /\ queue' = queue \cup exists \cup ({worker.policy} \ {Nil})
    /\ worker' = Resting
    /\ UNCHANGED <<cluster, exists, known>>

\* The policies ps are there, and n of the bounded events are spent.
Begin(ps, n) ==
    /\ cluster = First
    /\ exists = ps
    /\ dag = Nil
    /\ publishing = Nil
    /\ subscriptions = [p \in Policies |-> Nil]
    /\ stream = Down
    /\ wire = {}
    /\ queue = ps
    /\ worker = Resting
    /\ known = [p \in Policies |-> Nil]
    /\ dropped = {}
    /\ events = n

Init == Begin(Policies, 0)

Streaming ==
    \/ subscribe
    \/ receiveTopology
    \/ GetSubscriptionsForPolicyKind
    \/ Unchanged
    \/ ValueChanged
    \/ Send
    \/ Compared

Extension ==
    \/ receiveEvent
    \/ Reconcile
    \/ evaluate
    \/ ResolveTimesOut
    \/ SetSubscription
    \/ ResolveAnswers
    \/ ResolveFails
    \/ ClearPolicy

Next ==
    \/ swap
    \/ publish
    \/ Streaming
    \/ Extension
    \/ StreamBreaks
    \/ SessionLost
    \/ OperatorRestarts
    \/ ClusterChanges
    \/ PolicyChanges

Spec == Init /\ [][Next]_vars

(***************************************************************************)
(* The goroutine of the stream, the extension's connection and workqueue   *)
(* and the reconciliation of the operator all keep going; that another     *)
(* reconciliation of the operator follows is assumed of the cluster, whose *)
(* watched resources keep changing.                                        *)
(***************************************************************************)
Fairness ==
    /\ WF_vars(swap)
    /\ WF_vars(publish)
    /\ WF_vars(Streaming)
    /\ WF_vars(receiveEvent)
    /\ WF_vars(Extension)

FairSpec == Spec /\ Fairness

-----------------------------------------------------------------------------

(***************************************************************************)
(* The extension catches up with every change of the cluster once the next *)
(* topology is published, also with one that came between the evaluation   *)
(* and the store of a subscription (Resolve) or while the stream was down  *)
(* (newUpdateChannel sends nothing), unless the event went down with the   *)
(* stream or the expression can no longer be evaluated.                    *)
(***************************************************************************)
CatchesUp ==
    \A p \in Policies :
        <>[](p \in exists => \/ known[p] = cluster
                              \/ cluster = Err
                              \/ p \in dropped)
=============================================================================
