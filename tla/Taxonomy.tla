----------------------------- MODULE Taxonomy ------------------------------
(***************************************************************************)
(* What the dimension service promises: every live dimension has a slug of *)
(* its own and hangs under a live dimension or under none, and books are   *)
(* filed under live dimensions only.  Each operation is one step.          *)
(***************************************************************************)
CONSTANTS Dims, Slugs, Books, None

VARIABLES
    slug,       \* the slug of each dimension, None when it is not live
    parent,     \* the dimension it hangs under, or None
    filed,      \* the dimensions each book is filed under
    retired     \* dimensions that have been dropped

vars == <<slug, parent, filed, retired>>

Live == {d \in Dims : slug[d] # None}

Init ==
    /\ slug = [d \in Dims |-> None]
    /\ parent = [d \in Dims |-> None]
    /\ filed = [b \in Books |-> {}]
    /\ retired = {}

Free == Dims \ (Live \cup retired)
Unused == {s \in Slugs : \A d \in Live : slug[d] # s}

Add(d, s, p) ==
    /\ slug' = [slug EXCEPT ![d] = s]
    /\ parent' = [parent EXCEPT ![d] = p]
    /\ UNCHANGED <<filed, retired>>

\* What hangs under a dropped dimension comes to the top.
Drop(d) ==
    /\ slug' = [slug EXCEPT ![d] = None]
    /\ parent' = [e \in Dims |-> IF e = d \/ parent[e] = d THEN None ELSE parent[e]]
    /\ filed' = [b \in Books |-> filed[b] \ {d}]
    /\ retired' = retired \cup {d}

File(b, ds) ==
    /\ filed' = [filed EXCEPT ![b] = ds]
    /\ UNCHANGED <<slug, parent, retired>>

Next ==
    \/ \E d \in Free, s \in Unused, p \in Live \cup {None} : Add(d, s, p)
    \/ \E d \in Live : Drop(d)
    \/ \E b \in Books, ds \in SUBSET Live : File(b, ds)

Spec == Init /\ [][Next]_vars

=============================================================================
