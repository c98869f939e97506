------------------------------ MODULE UsersPage ----------------------------
(***************************************************************************)
(* The page of the web front end that walks through the users              *)
(* (frontend/src/pages/admin/Users.tsx; Books.tsx does the same with       *)
(* books).  The page keeps a token, a stack of the tokens it came from and *)
(* the next token of the last answer; its buttons stay enabled while it    *)
(* loads, nothing cancels a load, and answers come in any order.           *)
(*                                                                         *)
(* A token is the number of the page it leads to, 0 for the empty token of *)
(* the first page, which also says that there is no next one.              *)
(***************************************************************************)
EXTENDS Naturals, Sequences

CONSTANTS
    LastPages,  \* how many pages the list may have, less one
    Loads,      \* loads that can be in flight
    Edits,      \* deletions and creations that can be in flight
    MaxStack,   \* bound: the length of the stack
    None

ASSUME UsersPageAssumption ==
    /\ LastPages \subseteq Nat /\ MaxStack \in Nat
    /\ None \notin Nat \cup [token : Nat, next : Nat \cup {None}]

VARIABLES
    lastPage,       \* the server: the number of the last page
    currentToken, nextToken, prevTokens, loading,   \* the state of the page
    shown,          \* the token the users on display were loaded with, or None
    load,           \* loads in flight: [token, next], next None until served
    edit,           \* edits in flight: the token they will load, or None
    (* History, read by no guard: *)
    mixed,          \* loads overlapped since the last time none was in flight
    failed,         \* the last load to come back has failed
    left,           \* the last load was an edit's, of a page the user had left
    hasty           \* Next was pressed while another page was on display

pageVars == <<currentToken, nextToken, prevTokens, loading, shown>>
vars == <<lastPage, pageVars, load, edit, mixed, failed, left, hasty>>

Pages == UNION {0..n : n \in LastPages}
NoLoad == {l \in Loads : load[l] = None}
InFlight == Loads \ NoLoad

\* The token of the answer to a load (backend/service/user.go:108-112).
TokenAfter(page) == IF page < lastPage THEN page + 1 ELSE 0

-----------------------------------------------------------------------------
\* Mounted: the effect has loaded the first page.
Init ==
    /\ lastPage \in LastPages
    /\ currentToken = 0 /\ nextToken = 0 /\ prevTokens = <<>> /\ loading = TRUE
    /\ shown = None
    /\ \E l \in Loads :
          load = [m \in Loads |-> IF m = l THEN [token |-> 0, next |-> None] ELSE None]
    /\ edit = [e \in Edits |-> None]
    /\ mixed = FALSE /\ failed = FALSE /\ left = FALSE /\ hasty = FALSE

\* loadUsers(token), up to its await.
StartLoad(token) ==
    /\ \E l \in NoLoad : load' = [load EXCEPT ![l] = [token |-> token, next |-> None]]
    /\ loading' = TRUE
    /\ mixed' = (InFlight # {})

\* Fault: the effect loads the token of the render before.
SetCurrentTokenLate(token) ==
    /\ currentToken' = token
    /\ IF token = currentToken THEN UNCHANGED <<load, loading, mixed, left>>
       ELSE StartLoad(currentToken) /\ left' = FALSE

\* setCurrentToken: the effect runs when the token has changed.
SetCurrentToken(token) ==
    /\ currentToken' = token
    /\ IF token = currentToken THEN UNCHANGED <<load, loading, mixed, left>>
       ELSE StartLoad(token) /\ left' = FALSE

\* Fault: the page it leaves is not remembered.
ClickNextForgets ==
    /\ nextToken # 0
    /\ Len(prevTokens) < MaxStack
    /\ prevTokens' = Append(prevTokens, nextToken)
    /\ SetCurrentToken(nextToken)
    /\ hasty' = (hasty \/ shown # currentToken)
    /\ UNCHANGED <<lastPage, nextToken, shown, edit, failed>>

ClickNext ==
    /\ nextToken # 0
    /\ Len(prevTokens) < MaxStack
    /\ prevTokens' = Append(prevTokens, currentToken)
    /\ SetCurrentToken(nextToken)
    /\ hasty' = (hasty \/ shown # currentToken)
    /\ UNCHANGED <<lastPage, nextToken, shown, edit, failed>>

ClickPrev ==
    /\ prevTokens # <<>>
    /\ prevTokens' = SubSeq(prevTokens, 1, Len(prevTokens) - 1)
    /\ SetCurrentToken(prevTokens[Len(prevTokens)])
    /\ UNCHANGED <<lastPage, nextToken, shown, edit, failed, hasty>>

\* handleDelete and handleCreate keep the token of the render they belong to.
ClickEdit(e) ==
    /\ edit[e] = None
    /\ edit' = [edit EXCEPT ![e] = currentToken]
    /\ UNCHANGED <<lastPage, pageVars, load, mixed, failed, left, hasty>>

\* The server has deleted or created a user; the page loads that token.
EditAnswered(e) ==
    /\ edit[e] # None
    /\ StartLoad(edit[e])
    /\ left' = (edit[e] # currentToken)
    /\ edit' = [edit EXCEPT ![e] = None]
    /\ lastPage' \in LastPages
    /\ UNCHANGED <<currentToken, nextToken, prevTokens, shown, failed, hasty>>

EditFails(e) ==
    /\ edit[e] # None
    /\ edit' = [edit EXCEPT ![e] = None]
    /\ UNCHANGED <<lastPage, pageVars, load, mixed, failed, left, hasty>>

\* ListUsers, and other admins who delete and create users.
Serve(l) ==
    /\ load[l] # None /\ load[l].next = None
    /\ load' = [load EXCEPT ![l].next = TokenAfter(load[l].token)]
    /\ UNCHANGED <<lastPage, pageVars, edit, mixed, failed, left, hasty>>

OthersEdit ==
    /\ lastPage' \in LastPages \ {lastPage}
    /\ UNCHANGED <<pageVars, load, edit, mixed, failed, left, hasty>>

\* Fault: the spinner is switched off on success only.
LoadFailsSpinning(l) ==
    /\ load[l] # None
    /\ load' = [load EXCEPT ![l] = None]
    /\ failed' = TRUE
    /\ UNCHANGED <<lastPage, pageVars, edit, mixed, left, hasty>>

\* The answer of any load is shown, whichever page the user is on by now.
LoadAnswered(l) ==
    /\ load[l] # None /\ load[l].next # None
    /\ shown' = load[l].token
    /\ nextToken' = load[l].next
    /\ loading' = FALSE
    /\ load' = [load EXCEPT ![l] = None]
    /\ failed' = FALSE
    /\ UNCHANGED <<lastPage, currentToken, prevTokens, edit, mixed, left, hasty>>

LoadFails(l) ==
    /\ load[l] # None
    /\ load' = [load EXCEPT ![l] = None]
    /\ loading' = FALSE
    /\ failed' = TRUE
    /\ UNCHANGED <<lastPage, currentToken, nextToken, prevTokens, shown, edit, mixed, left, hasty>>

Next ==
    \/ ClickNext \/ ClickPrev \/ OthersEdit
    \/ \E e \in Edits : ClickEdit(e) \/ EditAnswered(e) \/ EditFails(e)
    \/ \E l \in Loads : Serve(l) \/ LoadAnswered(l) \/ LoadFails(l)

Spec == Init /\ [][Next]_vars

\* Every request is answered or fails, if only by the browser's timeout.
FairSpec ==
    /\ Spec
    /\ \A l \in Loads : WF_vars(Serve(l)) /\ WF_vars(LoadAnswered(l) \/ LoadFails(l))

-----------------------------------------------------------------------------
(* What holds.                                                             *)

TypeOK ==
    /\ lastPage \in LastPages
    /\ currentToken \in Pages /\ nextToken \in Pages
    /\ prevTokens \in Seq(Pages) /\ Len(prevTokens) <= MaxStack
    /\ shown \in Pages \cup {None}
    /\ load \in [Loads -> [token : Pages, next : Pages \cup {None}] \cup {None}]
    /\ edit \in [Edits -> Pages \cup {None}]
    /\ {loading, mixed, failed, left, hasty} \subseteq BOOLEAN

\* When every load has come back, the users on display are those of the page
\* the user is on, unless loads overlapped, the last one failed, or it came
\* from an edit that was answered after the user had turned the page
\* (Users.tsx:24-43: an answer does not look at the current token).
ShowsCurrent == InFlight = {} /\ ~mixed /\ ~failed /\ ~left => shown = currentToken

\* The spinner turns exactly as long as a load is in flight, unless loads
\* overlapped: the first one to come back stops it (Users.tsx:32-34).
SpinnerTells == ~mixed => (loading <=> InFlight # {})

\* The stack leads back to the first page one page at a time, unless Next was
\* pressed while another page was on display, as a double click does
\* (Users.tsx:124-137).
StackIsPath ==
    ~hasty => \A i \in 1..(Len(prevTokens) + 1) : Append(prevTokens, currentToken)[i] = i - 1

\* The spinner does not turn for ever, however often the user clicks and
\* whatever fails (Users.tsx:25-34).
SpinnerStops == loading ~> ~loading

=============================================================================
