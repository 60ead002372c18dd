------------------------------ MODULE PolicyLife ------------------------------
(***************************************************************************)
(* What the workflows of the DNS and of the TLS policies share: policies   *)
(* as functions from UIDs, their targets (the one gateway of the model or  *)
(* one of its listeners), and the rule that the older of two policies with *)
(* one target wins.  Creation times have a resolution of a second, and two *)
(* policies may share one.                                                 *)
(***************************************************************************)
EXTENDS Loops

CONSTANTS Unborn, Gone   \* a policy not yet created; an object removed

ASSUME LifeAssumption == Unborn # Gone

Present(policy) == {p \in DOMAIN policy : policy[p] \notin {Unborn, Gone}}

\* isTargetRefsFound, of both validators.
isTargetRefsFound(policy, listener, p) ==
    LET target == policy[p].spec.target IN target = "gateway" \/ listener[target] # Gone

\* isConflict, of both validators.
isConflict(policy, p) ==
    \E q \in Present(policy) \ {p} : /\ ~policy[q].deleting
                                     /\ policy[q].born < policy[p].born
                                     /\ policy[q].spec.target = policy[p].spec.target

\* Policies that isConflict cannot rank.
Tied(policy) ==
    \E p, q \in Present(policy) : /\ p # q
                                  /\ policy[p].spec.target = policy[q].spec.target
                                  /\ policy[p].born = policy[q].born

AttachedTo(policy, l) == {p \in Present(policy) : policy[p].spec.target = l}

\* Creation times of a new policy: after the policies there are, or within the
\* same second as the last.
Births(policy) ==
    LET births == {0} \cup {policy[q].born : q \in Present(policy)}
        last   == {b \in births : \A c \in births : c <= b}
    IN  last \cup {b + 1 : b \in last}
=============================================================================
