--------------------------- MODULE StateOfTheWorld ---------------------------
(***************************************************************************)
(* The passes of the operator's controller (state_of_the_world.go,         *)
(* kuadrant_controller.go), whatever their tasks.  The world maps a kind   *)
(* and a name to an object, or to Absent.  A watch notices a change that   *)
(* its predicate lets through and asks for a pass; the pass lists          *)
(* everything, its events are all differences with the list before, and    *)
(* its tasks work on that list, the topology.  What the tasks write is     *)
(* thus settled when the pass begins, one of Plans(topology, events), and  *)
(* the writes then interleave with what others do to the world.  A write   *)
(* has an operation, an object, a value, and what its failure leads to     *)
(* (retry, log, stop, abort, or either: retry or abort).                   *)
(*                                                                         *)
(* A failed write is recorded for a retry, or only logged, or returned: a  *)
(* returned error cancels what is left of the pass, the postcondition with *)
(* its error handler included.  A retry repeats the events of its pass on  *)
(* a new topology, and a pass that a watch asks for cancels it.  It is     *)
(* given up after more failures than MaxChanges allows.                    *)
(***************************************************************************)
EXTENDS Objects, Naturals, Sequences

CONSTANTS
    Start,              \* the worlds that the operator may start in
    Edits(_),           \* the worlds that one change by a user leads to
    Responses(_),       \* the worlds that one step of another controller leads to
    Plans(_, _),        \* the writes of a pass, of its topology and its events
    Filtered(_, _, _),  \* of a kind and two objects: no watch notices the change
    MaxChanges(_)       \* bounds the changes by users and the failed calls, of a start world

VARIABLES
    world,
    listed,    \* the objects that there were at the last list
    touched,   \* the objects that have changed since
    topology,  \* what the running pass works on, Absent when none runs
    trigger,   \* a watch has noticed a change since the last list
    events,    \* the events of the running pass
    plan,      \* the writes it has still to do
    failed,    \* it has recorded an error
    again,     \* the events that the retry timer will repeat
    lost,      \* the kinds of which a change left no event, or a write is left undone for good
    changes    \* counts what MaxChanges bounds

worldVars == <<world, listed, touched, topology, trigger, events, plan, failed, again, lost, changes>>

-----------------------------------------------------------------------------
Noticed(old, new) ==
    \E o \in Differ(old, new) : ~Filtered(o[1], old[o[1]][o[2]], new[o[1]][o[2]])

\* The world becomes w.
Becomes(w) ==
    /\ world' = w
    /\ touched' = touched \cup Differ(world, w)
    /\ trigger' = (trigger \/ Noticed(world, w))

Idle == plan = <<>>

-----------------------------------------------------------------------------
BeginPass(E) ==
    /\ plan' \in Plans(world, E)
    /\ topology' = IF plan' = <<>> THEN Absent ELSE world
    /\ events' = IF plan' = <<>> THEN {} ELSE E
    /\ UNCHANGED <<world, failed, changes>>

\* Whether tasks that E leads to run for F too.
Covers(F, E) == \A e \in E : \E f \in F : f[1] = e[1] /\ (f[2] = "delete") = (e[2] = "delete")

\* KuadrantController.Reconcile: the pending retry is cancelled, and its events are gone.
\* An object that came and went between two lists leaves no event.
Reconcile ==
    /\ Idle /\ trigger
    /\ trigger' = FALSE
    /\ listed' = Objects(world) /\ touched' = {}
    /\ again' = {}
    /\ LET E == EventsOf(listed, Objects(world), touched)
           unseen == {o[1] : o \in touched \ (listed \cup Objects(world))} IN
       /\ lost' = IF Covers(E, again) THEN lost \cup unseen ELSE DOMAIN world
       /\ BeginPass(E)

\* The function that ScheduleRetry gives to the timer.
Retry ==
    /\ Idle /\ again # {}
    /\ again' = {}
    /\ BeginPass(again)
    /\ UNCHANGED <<listed, touched, trigger, lost>>

\* The pass is over; its error handler, if it gets to run, schedules a retry.
EndPass(handler, fails) ==
    /\ plan' = <<>> /\ events' = {} /\ failed' = FALSE
    /\ topology' = Absent
    /\ again' = IF handler /\ fails THEN events ELSE again

Advance(rest, fails) ==
    IF rest = <<>> THEN EndPass(TRUE, fails)
    ELSE /\ plan' = rest
         /\ failed' = fails
         /\ UNCHANGED <<topology, events, again>>

\* What is left to do once x, the head of the plan, has failed: a task that stops at its
\* first failure leaves out the rest of its writes.
RestAfter(x) ==
    LET others == {i \in 2..Len(plan) : x.onFail # "stop" \/ plan[i].onFail # "stop"}
        next == IF others = {} THEN Len(plan) + 1 ELSE CHOOSE i \in others : \A j \in others : i <= j IN
    SubSeq(plan, next, Len(plan))

(***************************************************************************)
(* The operations: create; update and delete of what was listed; apply,    *)
(* which gives some fields and takes them over from other owners; claim,   *)
(* an apply that leaves them to a user who owns them; patch, of an object  *)
(* that is read first and may be gone; ensure, a creation of what is read  *)
(* first and may be there; remove and replace, of what must be there,      *)
(* whatever it has become; and abort, a task that returns an error.        *)
(***************************************************************************)
Taken(x) ==
    CASE x.op = "create" -> world[x.kind][x.name] = Absent
      [] x.op = "update" -> world[x.kind][x.name] = topology[x.kind][x.name]
      [] x.op \in {"remove", "replace"} -> world[x.kind][x.name] # Absent
      [] x.op = "abort"  -> FALSE
      [] OTHER -> TRUE

Given(old, fields) == [f \in DOMAIN old |-> IF f \in DOMAIN fields THEN fields[f] ELSE old[f]]

Unowned(old, fields) == [f \in {g \in DOMAIN fields : old[g] # "user"} |-> fields[f]]

\* What is in the cluster after the write.
Written(x) ==
    LET old == world[x.kind][x.name] IN
    CASE x.op \in {"create", "update", "replace"} -> x.value
      [] x.op \in {"delete", "remove"} -> Absent
      [] x.op = "ensure" -> IF old = Absent THEN x.value ELSE old
      [] x.op = "patch"  -> IF old = Absent THEN Absent ELSE Given(old, x.value)
      [] x.op \in {"apply", "claim"} ->
           IF old = Absent THEN x.value.fresh
           ELSE IF x.op = "apply" THEN Given(old, x.value.fields)
           ELSE Given(old, Unowned(old, x.value.fields))

Fails(x) ==
    /\ UNCHANGED <<world, touched, trigger>>
    /\ \/ /\ x.onFail \in {"abort", "either"}
          /\ EndPass(FALSE, TRUE)
          /\ lost' = DOMAIN world
       \/ /\ x.onFail # "abort"
          /\ Advance(RestAfter(x), failed \/ x.onFail \in {"retry", "either"})
          /\ lost' = IF x.onFail \in {"log", "stop"} THEN lost \cup {x.kind} ELSE lost

WriteNext ==
    /\ ~Idle
    /\ LET x == Head(plan) IN
       \/ /\ Taken(x)
          /\ Becomes([world EXCEPT ![x.kind][x.name] = Written(x)])
          /\ Advance(Tail(plan), failed)
          /\ UNCHANGED <<lost, changes>>
       \/ ~Taken(x) /\ Fails(x) /\ UNCHANGED changes
       \/ /\ Taken(x) /\ changes < MaxChanges(world)
          /\ changes' = changes + 1
          /\ Fails(x)
    /\ UNCHANGED listed

Edit ==
    /\ changes < MaxChanges(world)
    /\ changes' = changes + 1
    /\ \E w \in Edits(world) : Becomes(w)
    /\ UNCHANGED <<listed, topology, events, plan, failed, again, lost>>

Respond ==
    /\ \E w \in Responses(world) : Becomes(w)
    /\ UNCHANGED <<listed, topology, events, plan, failed, again, lost, changes>>

-----------------------------------------------------------------------------
\* The operator starts with nothing listed: all there is comes as a creation.
WorldInit ==
    /\ world \in Start
    /\ listed = {} /\ touched = Objects(world)
    /\ topology = Absent
    /\ trigger = TRUE
    /\ events = {} /\ plan = <<>> /\ failed = FALSE /\ again = {} /\ lost = {}
    /\ changes = 0

WorldNext == Reconcile \/ Retry \/ WriteNext \/ Edit \/ Respond

\* Nothing is left to do, and nothing is about to happen by itself.
AtRest == Idle /\ ~trigger /\ again = {} /\ Responses(world) = {}

Busy == ~Idle \/ trigger \/ again # {}

\* A pass that can start or go on does so, and other controllers do their part: a step that
\* is neither a write of a pass nor an edit is one of theirs.
WorldFairness ==
    /\ []<>~Busy \/ []<><<plan' # plan \/ again' # again \/ (trigger /\ ~trigger')>>_worldVars
    /\ []<>(Responses(world) = {}) \/ []<><<world' # world /\ plan' = plan /\ changes' = changes>>_worldVars

WorldSpec == WorldInit /\ [][WorldNext]_worldVars /\ WorldFairness

\* The passes that the operator's own writes cause come to an end: no task goes on undoing
\* what another one, or the task itself in an earlier pass, has written.
WorldSettles == <>[]AtRest

=============================================================================
