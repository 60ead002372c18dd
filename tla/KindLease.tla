----------------------------- MODULE KindLease -----------------------------
(***************************************************************************)
(* What the operator promises about policy kinds: a kind is leased to at   *)
(* most one extension identity, an identity holds at most one lease, and   *)
(* nobody but its holder ends a lease that has not expired.                *)
(*                                                                         *)
(* SessionStore is shown to implement this specification.                  *)
(***************************************************************************)
CONSTANTS Identities, Kinds,
          Free      \* not an identity

VARIABLES owner,    \* owner[k]: the identity kind k is leased to, or Free
          expired   \* the leased kinds whose holder has been silent too long

vars == <<owner, expired>>

Leased == {k \in Kinds : owner[k] # Free}

Init == /\ owner = [k \in Kinds |-> Free]
        /\ expired = {}

(***************************************************************************)
(* The expired leases of a set of kinds end.                               *)
(***************************************************************************)
Lapse == \E gone \in SUBSET expired :
           /\ owner' = [k \in Kinds |-> IF k \in gone THEN Free ELSE owner[k]]
           /\ expired' = expired \ gone

(***************************************************************************)
(* i takes kind k. The kind is free or its lease has expired; so has any   *)
(* other lease of i, which ends in the same step.                          *)
(***************************************************************************)
Grant(i, k) ==
  LET own == {j \in Kinds : owner[j] = i} IN
  /\ k \in Leased => k \in expired
  /\ own \subseteq expired
  /\ owner' = [j \in Kinds |-> CASE j = k -> i
                                 [] j # k /\ j \in own -> Free
                                 [] OTHER -> owner[j]]
  /\ expired' = expired \ (own \cup {k})

Renew(k) == /\ owner' = owner
            /\ expired' = expired \ {k}

Expire == \E late \in SUBSET Leased :
            /\ owner' = owner
            /\ expired' = expired \cup late

(***************************************************************************)
(* The holder itself, or the operator that runs it, ends the lease.        *)
(***************************************************************************)
Release(i) ==
  LET own == {k \in Kinds : owner[k] = i} IN
  /\ owner' = [k \in Kinds |-> IF k \in own THEN Free ELSE owner[k]]
  /\ expired' = expired \ own

Next == \/ Lapse
        \/ Expire
        \/ \E k \in Kinds : Renew(k)
        \/ \E i \in Identities : Release(i) \/ \E k \in Kinds : Grant(i, k)

Spec == Init /\ [][Next]_vars
=============================================================================
