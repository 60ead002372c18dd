------------------------- MODULE MCExtensionService -------------------------
(***************************************************************************)
(* The two stores of the extension server, the sessions, under every       *)
(* operation in every order, and the registered data, under the handlers;  *)
(* and the triggers that make the operator render the data.  A behaviour   *)
(* is about one of them.                                                   *)
(*                                                                         *)
(* Sessions: two standalone extensions, a built-in and two policy kinds.   *)
(* The token of a deleted session may be reused, which no property below   *)
(* tells from a new one.                                                   *)
(*                                                                         *)
(* Data: two policies.  The first offers two endpoints for one method      *)
(* name; the second shares an endpoint, and so a descriptor, with the      *)
(* first.                                                                  *)
(*                                                                         *)
(* Triggers: two handlers at a time, so that two triggers and a change of  *)
(* the status can meet.                                                    *)
(***************************************************************************)
EXTENDS ExtensionService, SessionStore, ConfigTrigger, TLC

CONSTANTS p1, p2, m, e1, e2, k1, k2

VARIABLE focus

MCcacheKeyOf == [e \in {e1, e2} |-> IF e = e1 THEN k1 ELSE k2]

Key(p, e) == [policy |-> p, name |-> m, endpoint |-> e]

MCMethods == {Key(p1, e1), Key(p1, e2), Key(p2, e1)}

MCCommits == {[policy |-> p1, actions |-> {m}],
              [policy |-> p1, actions |-> {Plain}]}

\* A behaviour has either credentials or slots or triggers: the slots and the calls are named by
\* credentials, which keeps the permutations few.
Symmetry == Permutations(Tokens) \cup Permutations(Credentials)

\* Bounds of the triggers: no failure and no further call before what a failure left behind is
\* rendered, and one event waiting, which only one of the Kuadrant resource may join.
OneFailure == lost # {} => lost' \subseteq lost /\ Running' \subseteq Running

OneEvent == event # {} => event' \in {{}, event, Tasks}

MCInit ==
    /\ focus \in {"sessions", "data", "triggers"}
    /\ Init
    /\ NewSessionStore
    /\ TriggerInit

MCNext ==
    \/ focus = "sessions" /\ StoreNext /\ UNCHANGED <<focus, vars, triggerVars>>
    \/ focus = "data" /\ Next /\ UNCHANGED <<focus, storeVars, triggerVars>>
    \/ focus = "triggers" /\ TriggerNext /\ OneFailure /\ OneEvent
       /\ UNCHANGED <<focus, vars, storeVars>>

MCSpec == MCInit /\ [][MCNext]_<<focus, vars, storeVars, triggerVars>>
=============================================================================
