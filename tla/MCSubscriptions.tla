--------------------------- MODULE MCSubscriptions ---------------------------
(***************************************************************************)
(* One policy and up to three changes, broken streams and restarts, or two *)
(* policies and one of them: a stream compares and sends one policy after  *)
(* the other while the extension resolves.                                 *)
(***************************************************************************)
EXTENDS Subscriptions

CONSTANTS p1, p2

MCInit == Begin({p1}, 0) \/ Begin({p1, p2}, MaxEvents - 1)

\* The second policy may go but does not come: the first does both.
MCNext == Next /\ (p2 \in exists' => p2 \in exists)

MCSpec == MCInit /\ [][MCNext]_vars /\ Fairness
=============================================================================
