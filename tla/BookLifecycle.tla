---------------------------- MODULE BookLifecycle ----------------------------
(***************************************************************************)
(* What the review workflow promises about one book and another, with      *)
(* handlers, failures and restarts left out: the documented state machine  *)
(* as far as concurrent unconditional updates of status can keep it.       *)
(*                                                                         *)
(* A book is created as a draft and deleted once.  Only its uploader's     *)
(* submission opens it to review; from then on a decision or a recall may  *)
(* land in any status, because the handlers do not lock the row between    *)
(* the read and the write.                                                 *)
(***************************************************************************)
CONSTANTS Books, Users, NoUser

VARIABLES
    status,     \* "absent", the four statuses, or "deleted"
    uploader,
    opened      \* the books their uploader has submitted at least once

vars == <<status, uploader, opened>>

Exists(b) == status[b] \in {"draft", "pending", "approved", "rejected"}

Init ==
    /\ status = [b \in Books |-> "absent"]
    /\ uploader = [b \in Books |-> NoUser]
    /\ opened = {}

Create(b) ==
    /\ status[b] = "absent"
    /\ \E u \in Users : uploader' = [uploader EXCEPT ![b] = u]
    /\ status' = [status EXCEPT ![b] = "draft"]
    /\ UNCHANGED opened

Submit(b) ==
    /\ Exists(b)
    /\ status' = [status EXCEPT ![b] = "pending"]
    /\ opened' = opened \cup {b}
    /\ UNCHANGED uploader

\* Approve, reject or recall.
Conclude(b) ==
    /\ Exists(b)
    /\ b \in opened
    /\ \E s \in {"approved", "rejected", "draft"} : status' = [status EXCEPT ![b] = s]
    /\ UNCHANGED <<uploader, opened>>

Delete(b) ==
    /\ Exists(b)
    /\ status' = [status EXCEPT ![b] = "deleted"]
    /\ UNCHANGED <<uploader, opened>>

Next == \E b \in Books : Create(b) \/ Submit(b) \/ Conclude(b) \/ Delete(b)

Spec == Init /\ [][Next]_vars

=============================================================================
