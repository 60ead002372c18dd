-------------------------- MODULE ExtensionService --------------------------
(***************************************************************************)
(* The handlers of the extension service that write registered data        *)
(* (internal/extension/manager.go), for the one extension that serves a    *)
(* kind.                                                                   *)
(*                                                                         *)
(* A call in flight is a record: the operation, its policy and argument,   *)
(* the place the handler has reached, and whether the session it was       *)
(* authenticated with is gone (orphan: nothing stops the handler).  The    *)
(* extension's controller runs one reconciliation at a time, the default   *)
(* of controller-runtime, and its supervisor handshakes beside it.  What   *)
(* the trigger at the end of a handler does is in the module               *)
(* ConfigTrigger; here it is the time before the handler returns.          *)
(***************************************************************************)
EXTENDS RegisteredData

CONSTANTS
    Slots,    \* the calls of the extension that may be in flight at a time
    Mutators, \* the policies it registers mutators for
    Methods,  \* the keys it registers
    Commits   \* the [policy, actions] it commits

ASSUME RequestsAssumption ==
    /\ Mutators \subseteq Policies
    /\ Methods \subseteq RegisteredUpstreamKey
    /\ Commits \subseteq [policy : Policies, actions : SUBSET Actions]

VARIABLES
    calls,    \* the calls in flight
    exists,   \* the policies of the kind in the cluster
    session,  \* the extension holds a session token
    strayed   \* policies written by orphans since they were last cleared

vars == <<dataVars, calls, exists, session, strayed>>

Idle == [op |-> "none"]

Call(op, p, arg) ==
    [op |-> op, policy |-> p, arg |-> arg, at |-> "start", orphan |-> FALSE]

InFlight == {c \in Slots : calls[c] # Idle}

Working == {c \in InFlight : ~calls[c].orphan /\ calls[c].op # "Handshake"}

Handshaking == {c \in InFlight : ~calls[c].orphan /\ calls[c].op = "Handshake"}

At(c, op, place) == c \in InFlight /\ calls[c].op = op /\ calls[c].at = place

Move(c, place) == calls' = [calls EXCEPT ![c].at = place]

\* The handler of c returns, to a client that is still there when it is no
\* orphan: an accepted handshake gives it a token, a cleared policy loses its
\* finalizer.
Return(c) ==
    /\ calls' = [calls EXCEPT ![c] = Idle]
    /\ session' = (session \/ c \in Handshaking)
    /\ exists' = IF c \in Working /\ calls[c].op = "ClearPolicy"
                    THEN exists \ {calls[c].policy} ELSE exists

\* The handler of c fails, having written nothing.
Refuse(c) ==
    /\ calls' = [calls EXCEPT ![c] = Idle]
    /\ UNCHANGED <<dataVars, exists, session, strayed>>

\* The handler of c has changed what the store has of the policies ps.
Written(c, ps) ==
    /\ strayed' = IF calls[c].orphan THEN strayed \cup ps ELSE strayed
    /\ UNCHANGED <<exists, session>>

\* The handler of c has cleared the policies ps; it triggers a reconciliation
\* before it returns when there is something to tell.
Cleared(c, ps) ==
    /\ strayed' = IF calls[c].orphan THEN strayed \cup ps ELSE strayed \ ps
    /\ IF Counted(ps) THEN Move(c, "trigger") /\ UNCHANGED <<exists, session>>
                      ELSE Return(c)

-----------------------------------------------------------------------------

Start(c, op, p, arg) ==
    /\ calls[c] = Idle
    /\ calls' = [calls EXCEPT ![c] = Call(op, p, arg)]
    /\ UNCHANGED <<dataVars, exists, session, strayed>>

\* The interceptor lets a call in when its session is valid; the controller
\* has one reconciliation, and so one call, at a time.
StartWork(c) ==
    /\ session
    /\ Working = {}
    /\ \/ \E p \in exists : Start(c, "ClearPolicy", p, {})
       \/ \E p \in Mutators \cap exists : Start(c, "RegisterMutator", p, {})
       \/ \E k \in Methods :
             /\ k.policy \in exists
             /\ Start(c, "RegisterActionMethod", k.policy, k)
       \/ \E r \in Commits :
             /\ r.policy \in exists
             /\ Start(c, "PipelineCommit", r.policy, r.actions)

\* A handshake names the policies of the informer cache.
StartHandshake(c) ==
    /\ ~session
    /\ Handshaking = {}
    /\ Start(c, "Handshake", Idle, exists)

-----------------------------------------------------------------------------
(***************************************************************************)
(* RegisterMutator: Set for the target reference, then the trigger.        *)
(***************************************************************************)
RegisterMutator(c) ==
    /\ At(c, "RegisterMutator", "start")
    /\ Set(calls[c].policy)
    /\ Written(c, {calls[c].policy})
    /\ Move(c, "trigger")

(***************************************************************************)
(* RegisterActionMethod: the fast-path check of the name; gRPC reflection, *)
(* which may fail; the check and the write in one critical section; the    *)
(* trigger.                                                                *)
(***************************************************************************)
CheckName(c) ==
    /\ At(c, "RegisterActionMethod", "start")
    /\ ~IsUpstreamNameTaken(calls[c].arg)
    /\ Move(c, "reflect")
    /\ UNCHANGED <<dataVars, exists, session, strayed>>

ReflectionFails(c) == At(c, "RegisterActionMethod", "reflect") /\ Refuse(c)

\* Either check of the name fails.
NameTaken(c) ==
    /\ c \in InFlight
    /\ calls[c].op = "RegisterActionMethod"
    /\ calls[c].at \in {"start", "reflect"}
    /\ IsUpstreamNameTaken(calls[c].arg)
    /\ Refuse(c)

RegisterActionMethod(c) ==
    /\ At(c, "RegisterActionMethod", "reflect")
    /\ SetUpstreamIfNameAvailable(calls[c].arg)
    /\ Written(c, {calls[c].policy})
    /\ Move(c, "trigger")

(***************************************************************************)
(* PipelineCommit: validateActions, ReplacePipelineActions and             *)
(* SetPipelineTargetRefs are three critical sections, then the trigger,    *)
(* whose failure has the extension commit again.                           *)
(***************************************************************************)
\* The method names are not looked up.
NoValidation(p, actions) == TRUE

Valid(p, actions) == \A n \in actions \ {Plain} : HasUpstreamName(p, n)

validateActions(c) ==
    /\ At(c, "PipelineCommit", "start")
    /\ Valid(calls[c].policy, calls[c].arg)
    /\ Move(c, "replace")
    /\ UNCHANGED <<dataVars, exists, session, strayed>>

InvalidActions(c) ==
    /\ At(c, "PipelineCommit", "start")
    /\ ~Valid(calls[c].policy, calls[c].arg)
    /\ Refuse(c)

CommitActions(c) ==
    /\ At(c, "PipelineCommit", "replace")
    /\ ReplacePipelineActions(calls[c].policy, calls[c].arg)
    /\ Written(c, {calls[c].policy})
    /\ Move(c, "refs")

CommitTargetRefs(c) ==
    /\ At(c, "PipelineCommit", "refs")
    /\ SetPipelineTargetRefs(calls[c].policy)
    /\ Written(c, {calls[c].policy})
    /\ Move(c, "trigger")

TriggerFails(c) ==
    /\ c \in Working
    /\ At(c, "PipelineCommit", "trigger")
    /\ Move(c, "start")
    /\ UNCHANGED <<dataVars, exists, session, strayed>>

\* The trigger has been sent; a failure of it is ignored.
Triggered(c) ==
    /\ c \in InFlight
    /\ calls[c].at = "trigger"
    /\ Return(c)
    /\ UNCHANGED <<dataVars, strayed>>

(***************************************************************************)
(* ClearPolicy clears everything at once.                                  *)
(***************************************************************************)
ClearPolicy(c) ==
    /\ At(c, "ClearPolicy", "start")
    /\ ClearPolicyData({calls[c].policy})
    /\ Cleared(c, {calls[c].policy})

(***************************************************************************)
(* pruneStalePolicies, in the handshake: PruneToOwned lists what the store *)
(* has (PolicyIDsForKind), releases the locks, and clears what the         *)
(* handshake did not name (ClearPolicyData).                               *)
(***************************************************************************)
ListStale(c) ==
    /\ At(c, "Handshake", "start")
    /\ calls' = [calls EXCEPT ![c].at = "clear",
                              ![c].arg = PolicyIDsForKind \ calls[c].arg]
    /\ UNCHANGED <<dataVars, exists, session, strayed>>

pruneStalePolicies(c) ==
    /\ At(c, "Handshake", "clear")
    /\ ClearPolicyData(calls[c].arg)
    /\ Cleared(c, calls[c].arg)

-----------------------------------------------------------------------------
(***************************************************************************)
(* The extension and its policies.  The session ends when the extension    *)
(* crashes, releases it, or is reaped; the handlers it had called go on.   *)
(* The two critical sections of a prune follow CreateSession at once and   *)
(* the session of an abandoned handshake has to expire before the next is  *)
(* accepted, so a prune is not outlived by its session.                    *)
(***************************************************************************)
SessionLost ==
    /\ session \/ InFlight # {}
    /\ \A c \in Handshaking : calls[c].at \in {"trigger"}
    /\ session' = FALSE
    /\ calls' = [c \in Slots |->
                    IF c \in InFlight THEN [calls[c] EXCEPT !.orphan = TRUE]
                                      ELSE Idle]
    /\ UNCHANGED <<dataVars, exists, strayed>>

PolicyCreated ==
    /\ \E p \in Policies \ exists : exists' = exists \cup {p}
    /\ UNCHANGED <<dataVars, calls, session, strayed>>

\* A policy without the extension's finalizer goes while nobody serves it.
PolicyGone ==
    /\ ~session
    /\ Handshaking = {}
    /\ \E p \in exists : exists' = exists \ {p}
    /\ UNCHANGED <<dataVars, calls, session, strayed>>

-----------------------------------------------------------------------------

Init ==
    /\ NewRegisteredDataStore
    /\ calls = [c \in Slots |-> Idle]
    /\ exists = {}
    /\ session = FALSE
    /\ strayed = {}

Next ==
    \/ \E c \in Slots :
          \/ StartWork(c)
          \/ StartHandshake(c)
          \/ RegisterMutator(c)
          \/ CheckName(c)
          \/ ReflectionFails(c)
          \/ NameTaken(c)
          \/ RegisterActionMethod(c)
          \/ validateActions(c)
          \/ InvalidActions(c)
          \/ CommitActions(c)
          \/ CommitTargetRefs(c)
          \/ TriggerFails(c)
          \/ Triggered(c)
          \/ ClearPolicy(c)
          \/ ListStale(c)
          \/ pruneStalePolicies(c)
    \/ SessionLost
    \/ PolicyCreated
    \/ PolicyGone

Spec == Init /\ [][Next]_vars

-----------------------------------------------------------------------------

(***************************************************************************)
(* Type correctness of the store and of the calls in flight; the           *)
(* extension's own calls are made one at a time and under a session.       *)
(***************************************************************************)
TypeOK ==
    /\ DataTypeOK
    /\ \A c \in InFlight :
          /\ calls[c].op \in {"RegisterMutator", "RegisterActionMethod",
                              "PipelineCommit", "ClearPolicy", "Handshake"}
          /\ calls[c].at \in {"start", "reflect", "replace", "refs", "clear",
                              "trigger"}
    /\ \A c, d \in Working : c = d
    /\ Working # {} => session
    /\ exists \subseteq Policies
    /\ strayed \subseteq Policies

(***************************************************************************)
(* While an extension holds a session, the store has data only of policies *)
(* that exist, apart from what handlers of an earlier session wrote after  *)
(* the prune: the prune sees every part of the store (PolicyIDsForKind),   *)
(* and a policy is cleared before it loses its finalizer.                  *)
(***************************************************************************)
NoStrayData ==
    session => \A p \in Policies \ (exists \cup strayed) :
                  /\ p \notin dataProviders
                  /\ UpstreamsOf({p}) = {}
                  /\ pipelineActions[p] = {}
                  /\ p \notin pipelineTargetRefs

(***************************************************************************)
(* A stored pipeline calls only registered methods: validateActions checks *)
(* the names in another critical section than ReplacePipelineActions       *)
(* writes in, and upstreams go only together with the actions that call    *)
(* them (ClearPolicyData).                                                 *)
(***************************************************************************)
ActionsBacked ==
    \A p \in Policies \ strayed :
        \A n \in pipelineActions[p] \ {Plain} : HasUpstreamName(p, n)
=============================================================================
