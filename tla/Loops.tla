---------------------------------- MODULE Loops ----------------------------------
(***************************************************************************)
(* Loops over the members of a set.                                        *)
(***************************************************************************)
EXTENDS Naturals, FiniteSets, Functions

\* The orders in which a loop may go through a set, Go's maps having none, the places
\* that the members have in them, and one of them.
Orders(S) == Bijection(1..Cardinality(S), S)

Places(S) == Bijection(S, 1..Cardinality(S))

InOrder(S) == CHOOSE seq \in Orders(S) : TRUE
=============================================================================
