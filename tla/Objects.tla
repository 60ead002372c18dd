------------------------------ MODULE Objects ------------------------------
(***************************************************************************)
(* The objects of a cluster: a world maps a kind and a name to an object,  *)
(* or to Absent, and two lists of it differ by resource events.  An object   *)
(* is its kind and its name.                                               *)
(***************************************************************************)
CONSTANT Absent  \* no object

Named(w, kind) == {n \in DOMAIN w[kind] : w[kind][n] # Absent}

Differ(old, new) ==
    UNION {{<<k, n>> : n \in {m \in DOMAIN old[k] : old[k][m] # new[k][m]}}
             : k \in {j \in DOMAIN old : old[j] # new[j]}}

Objects(w) == UNION {{<<k, n>> : n \in Named(w, k)} : k \in DOMAIN w}

\* The resource events of a list that finds objects new after one that found objects old,
\* when the objects touched have changed in between.
EventsOf(old, new, touched) ==
    {<<o[1], IF o \notin old THEN "create" ELSE IF o \notin new THEN "delete" ELSE "update">>
       : o \in touched \cap (old \cup new)}

\* A task runs when its subscription matches an event of the pass.
On(E, kinds) == \E e \in E : e[1] \in kinds

OnType(E, kind, types) == \E t \in types : <<kind, t>> \in E

-----------------------------------------------------------------------------
\* Writes: an operation, an object, a value, and what a failure leads to.

Write(op, kind, name, value, onFail) ==
    [op |-> op, kind |-> kind, name |-> name, value |-> value, onFail |-> onFail]

Delete(kind, name, onFail) == Write("delete", kind, name, Absent, onFail)

\* A task that returns an error about an object.
Abort(kind, name) == Write("abort", kind, name, Absent, "abort")

=============================================================================
