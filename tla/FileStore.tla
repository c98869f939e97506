----------------------------- MODULE FileStore -----------------------------
(***************************************************************************)
(* What the file service promises: an uploaded file becomes available as a *)
(* whole, in one step, under an id never used before; it may disappear     *)
(* once, in one step, and its id never comes back.                         *)
(***************************************************************************)
CONSTANT Files

VARIABLES
    stored,     \* the files a reader can have, whole
    used        \* the ids that have been given to a file

vars == <<stored, used>>

Init == stored = {} /\ used = {}

Store(f) ==
    /\ f \notin used
    /\ stored' = stored \cup {f}
    /\ used' = used \cup {f}

Remove(f) ==
    /\ f \in stored
    /\ stored' = stored \ {f}
    /\ UNCHANGED used

Next == \E f \in Files : Store(f) \/ Remove(f)

Spec == Init /\ [][Next]_vars

=============================================================================
