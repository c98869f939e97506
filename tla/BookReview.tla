----------------------------- MODULE BookReview -----------------------------
(***************************************************************************)
(* The review workflow of bookmgr: SubmitForReview, ApproveBook,           *)
(* RejectBook and RecallReview (backend/service/book_review.go) behind     *)
(* the role interceptor (backend/middleware/role.go) and the review        *)
(* handler (backend/handler/review_handler.go), running concurrently with  *)
(* each other and with the creation, edition and deletion of books.        *)
(*                                                                         *)
(* The server runs one goroutine per RPC.  A review handler makes three    *)
(* separate database calls: it reads the book, updates its status without  *)
(* a condition, and inserts a review record.  Each call is atomic in the   *)
(* database, and other handlers run between them.  Any database call may   *)
(* fail (a busy database, a cancelled request context), and the process    *)
(* may die and restart between two of them.                                *)
(***************************************************************************)
EXTENDS Naturals, FiniteSets

CONSTANTS
    Books,      \* book ids; a fresh UUID per book, never used twice
    Users,      \* user ids
    Claims,     \* the claims of the tokens in circulation: [user, role]
    Calls,      \* goroutines: how many review RPCs can be in flight
    Contents,   \* what the edited fields of a book can hold
    Faults,     \* TRUE: database calls fail and the process restarts
    NoUser, NoRequest

Roles == {"super_admin", "admin", "teacher", "parent"}

ASSUME ClaimsAssumption == Claims \subseteq [user : Users, role : Roles]
ASSUME FaultsAssumption == Faults \in BOOLEAN
ASSUME NoUserAssumption == NoUser \notin Users

VARIABLES
    status,     \* books.status, or "absent" / "deleted" when there is no row
    uploader,   \* books.uploader_id
    content,    \* the fields UpdateBook changes
    reviews,    \* rows of book_reviews
    pc,         \* control point of each call
    req,        \* its request and claims
    err,        \* the error it returns, "nil" when it has none
    (* History, read by no guard: *)
    trail,      \* per book, who has changed its status through which operation
    stale       \* calls whose book changed status after they read it

bookVars == <<status, uploader, content, reviews, trail>>
callVars == <<pc, req, err, stale>>
vars == <<status, uploader, content, reviews, pc, req, err, trail, stale>>

Live == {"draft", "pending", "approved", "rejected"}
ReviewOps == {"submit", "approve", "reject", "recall"}
\* ErrReviewReasonRequired is in the service but never leaves it: the
\* validator has refused an empty reason before.
Errors == {"nil", "ErrValidation", "ErrRole", "ErrReviewReasonRequired",
           "ErrNotBookOwner", "ErrInvalidStatusTransition", "ErrNotPending",
           "ErrBookNotFound", "ErrDatabase", "ErrReviewRecord"}

\* What a client sends: only RejectBook has a reason, which may be empty.
Requests == {r \in [op : ReviewOps, book : Books, claim : Claims, reason : BOOLEAN] :
                r.reason \/ r.op = "reject"}

\* Fault: a deleted row is still found.
ExistsOrDeleted(b) == status[b] # "absent"

Exists(b) == status[b] \in Live

-----------------------------------------------------------------------------
(* What each operation requires and does.                                  *)

\* The status a handler must read before it goes on.
StatusFrom(op) == IF op = "submit" THEN "draft" ELSE "pending"

\* Fault: one of the status literals is misspelt.
StatusToMisspelt(op) ==
    IF op = "approve" THEN "aproved"
    ELSE CHOOSE s \in Live : <<op, s>> \in
        {<<"submit", "pending">>, <<"reject", "rejected">>, <<"recall", "draft">>}

\* The status it then writes.
StatusTo(op) ==
    CASE op = "submit"  -> "pending"
      [] op = "approve" -> "approved"
      [] op = "reject"  -> "rejected"
      [] op = "recall"  -> "draft"

AdminRoles == {"super_admin", "admin"}

\* RoleInterceptor: the roles that may call a method.
RolesFor(op) ==
    CASE op = "reject"  -> {"super_admin"}
      [] op = "approve" -> AdminRoles
      [] OTHER          -> Roles

OwnerOnly == {"submit", "recall"}

\* What refuses a request before any database call: the validator, then the
\* role interceptor.
Admission(r) ==
    IF ~r.reason THEN "ErrValidation"
    ELSE IF r.claim.role \notin RolesFor(r.op) THEN "ErrRole"
    ELSE "nil"

\* Fault: a decision does not look at the status.
CheckDecidesAnything(r, from, owner) ==
    IF r.op \in OwnerOnly /\ owner # r.claim.user THEN "ErrNotBookOwner"
    ELSE IF r.op = "submit" /\ from # "draft" THEN "ErrInvalidStatusTransition"
    ELSE "nil"

\* Fault: anybody recalls a pending book.
CheckRecallByAnyone(r, from, owner) ==
    IF from # StatusFrom(r.op) THEN "ErrInvalidStatusTransition"
    ELSE IF r.op = "submit" /\ owner # r.claim.user THEN "ErrNotBookOwner"
    ELSE "nil"

\* Fault: the owner recalls a book in any status.
CheckRecallsAnything(r, from, owner) ==
    IF r.op \in OwnerOnly /\ owner # r.claim.user THEN "ErrNotBookOwner"
    ELSE IF r.op # "recall" /\ from # StatusFrom(r.op) THEN "ErrNotPending"
    ELSE "nil"

\* The error a handler returns for the row it has just read, "nil" when it
\* goes on.  Submit looks at the owner first, recall at the status first.
Check(r, from, owner) ==
    LET foreign == r.op \in OwnerOnly /\ owner # r.claim.user
    IN  IF r.op = "submit" /\ foreign THEN "ErrNotBookOwner"
        ELSE IF from # StatusFrom(r.op)
             THEN IF r.op = "submit" THEN "ErrInvalidStatusTransition" ELSE "ErrNotPending"
        ELSE IF foreign THEN "ErrNotBookOwner"
        ELSE "nil"

\* BookReviewRepository.Create sets these fields of a new row ...
FieldsSet == {"book_id", "reviewer_id", "status_from", "status_to", "reason"}
\* ... and the schema refuses a row that lacks one of these.
FieldsRequired == {"book_id", "reviewer_id", "action", "status_from", "status_to"}

\* The row SubmitForReview and its siblings ask for.  The book_id column is
\* set; the edge "book" is a column of books that no code sets.
ReviewRow(r) == [book |-> r.book, reviewer |-> r.claim.user,
                 from |-> StatusFrom(r.op), to |-> StatusTo(r.op),
                 edge |-> FALSE]

\* BookReviewRepository.ListByBookID: the rows whose book edge is b.
ListByBookID(b) == {r \in reviews : r.book = b /\ r.edge}

-----------------------------------------------------------------------------
\* The content of a book not yet created is what its creation will bring.
Init ==
    /\ status = [b \in Books |-> "absent"]
    /\ uploader = [b \in Books |-> NoUser]
    /\ content \in [Books -> Contents]
    /\ reviews = {}
    /\ pc = [c \in Calls |-> "idle"]
    /\ req = [c \in Calls |-> NoRequest]
    /\ err = [c \in Calls |-> "nil"]
    /\ trail = [b \in Books |-> {}]
    /\ stale = {}

\* The call has its answer: err says which.
Finish(c, e) ==
    /\ pc' = [pc EXCEPT ![c] = "done"]
    /\ err' = [err EXCEPT ![c] = e]

GoTo(c, next) == pc' = [pc EXCEPT ![c] = next] /\ err' = err

\* A request passes the validator, the interceptors and the handler's own
\* role check, or is refused there.
Receive(c) ==
    /\ pc[c] = "idle"
    /\ \E r \in Requests :
          /\ req' = [req EXCEPT ![c] = r]
          /\ IF Admission(r) = "nil" THEN GoTo(c, "read") ELSE Finish(c, Admission(r))
    /\ UNCHANGED <<bookVars, stale>>

\* bookRepo.GetByID, then the checks on the row it returned.
ReadBook(c) ==
    LET r == req[c]
        e == IF Exists(r.book) THEN Check(r, status[r.book], uploader[r.book])
                               ELSE "ErrBookNotFound"
    IN  /\ pc[c] = "read"
        /\ IF e = "nil" THEN GoTo(c, "write") ELSE Finish(c, e)
        /\ UNCHANGED <<bookVars, req, stale>>

\* bookRepo.Update with nothing but the new status: UPDATE books SET status
\* WHERE id.  It does not look at the status the row has by now.
UpdateStatus(c) ==
    LET r == req[c]
    IN  /\ pc[c] = "write"
        /\ IF Exists(r.book)
           THEN /\ GoTo(c, "record")
                /\ status' = [status EXCEPT ![r.book] = StatusTo(r.op)]
                /\ trail' = [trail EXCEPT ![r.book] = @ \cup {[op |-> r.op, claim |-> r.claim]}]
                /\ stale' = stale \cup
                      {d \in Calls \ {c} : /\ pc[d] = "write"
                                          /\ req[d].book = r.book
                                          /\ status[r.book] # StatusTo(r.op)}
           ELSE Finish(c, "ErrBookNotFound") /\ UNCHANGED <<status, trail, stale>>
        /\ UNCHANGED <<uploader, content, reviews, req>>

\* reviewRepo.Create: the builder checks the required fields, then inserts.
CreateReview(c) ==
    /\ pc[c] = "record"
    /\ Finish(c, IF FieldsRequired \subseteq FieldsSet THEN "nil" ELSE "ErrReviewRecord")
    /\ reviews' = reviews \cup
          (IF FieldsRequired \subseteq FieldsSet THEN {ReviewRow(req[c])} ELSE {})
    /\ UNCHANGED <<status, uploader, content, trail, req, stale>>

\* Any of the three database calls fails, and has had no effect.
DatabaseFails(c) ==
    /\ Faults
    /\ pc[c] \in {"read", "write", "record"}
    /\ Finish(c, "ErrDatabase")
    /\ UNCHANGED <<bookVars, req, stale>>

\* The answer reaches the client and the goroutine ends.
Respond(c) ==
    /\ pc[c] = "done"
    /\ pc' = [pc EXCEPT ![c] = "idle"]
    /\ err' = [err EXCEPT ![c] = "nil"]
    /\ req' = [req EXCEPT ![c] = NoRequest]
    /\ stale' = stale \ {c}
    /\ UNCHANGED bookVars

\* The process dies with its goroutines and starts again on the same database.
Restart ==
    /\ Faults
    /\ \E c \in Calls : pc[c] # "idle"
    /\ pc' = [c \in Calls |-> "idle"]
    /\ err' = [c \in Calls |-> "nil"]
    /\ req' = [c \in Calls |-> NoRequest]
    /\ stale' = {}
    /\ UNCHANGED bookVars

-----------------------------------------------------------------------------
(* What the book handlers do to the rows meanwhile.                        *)

\* BookRepository.Create: one transaction, status by its schema default.
CreateBook(b) ==
    /\ status[b] = "absent"
    /\ \E k \in Claims : /\ k.role \in AdminRoles
                         /\ uploader' = [uploader EXCEPT ![b] = k.user]
    /\ status' = [status EXCEPT ![b] = "draft"]
    /\ UNCHANGED <<content, reviews, trail, callVars>>

\* UpdateBook: any admin, any status; the status itself is not updatable.
EditBook(b) ==
    /\ Exists(b)
    /\ \E k \in Claims : k.role \in AdminRoles
    /\ \E v \in Contents : content' = [content EXCEPT ![b] = v]
    /\ UNCHANGED <<status, uploader, reviews, trail, callVars>>

\* DeleteBook: any admin, any status.  Review records stay.
DeleteBook(b) ==
    /\ Exists(b)
    /\ \E k \in Claims : k.role \in AdminRoles
    /\ status' = [status EXCEPT ![b] = "deleted"]
    /\ UNCHANGED <<uploader, content, reviews, trail, callVars>>

CallStep(c) ==
    \/ Receive(c) \/ ReadBook(c) \/ UpdateStatus(c) \/ CreateReview(c)
    \/ DatabaseFails(c) \/ Respond(c)

Next ==
    \/ \E c \in Calls : CallStep(c)
    \/ \E b \in Books : CreateBook(b) \/ EditBook(b) \/ DeleteBook(b)
    \/ Restart

Spec == Init /\ [][Next]_vars

-----------------------------------------------------------------------------
(* What holds.                                                             *)

\* Every variable keeps its type; a book not yet created has no history.
TypeOK ==
    /\ status \in [Books -> Live \cup {"absent", "deleted"}]
    /\ uploader \in [Books -> Users \cup {NoUser}]
    /\ content \in [Books -> Contents]
    /\ reviews \subseteq [book : Books, reviewer : Users, from : Live, to : Live,
                          edge : BOOLEAN]
    /\ pc \in [Calls -> {"idle", "read", "write", "record", "done"}]
    /\ req \in [Calls -> Requests \cup {NoRequest}]
    /\ err \in [Calls -> Errors]
    /\ trail \in [Books -> SUBSET [op : ReviewOps, claim : Claims]]
    /\ stale \subseteq Calls
    /\ \A c \in Calls : pc[c] # "idle" => req[c] \in Requests
    /\ \A b \in Books : status[b] = "absent" => trail[b] = {}

\* Book b has been submitted for review, by the user who uploaded it.
SubmittedByOwner(b) ==
    \E t \in trail[b] : t.op = "submit" /\ t.claim.user = uploader[b]

\* Book b has been through operation op, by someone whose role allows it.
DecidedBy(op, b) ==
    \E t \in trail[b] : t.op = op /\ t.claim.role \in RolesFor(op)

\* However the handlers interleave, fail or die, a book readers can see
\* (approved) was submitted by its own uploader and approved by an admin, a
\* rejected one was submitted by its uploader and rejected by a super admin.
\* The handlers check owner, role and status one database call before the
\* write they protect (book_review.go:44-143, role.go:47-73).
PublishedProvenance ==
    \A b \in Books :
        /\ status[b] \in {"pending", "approved", "rejected"} => SubmittedByOwner(b)
        /\ status[b] = "approved" => DecidedBy("approve", b)
        /\ status[b] = "rejected" => DecidedBy("reject", b)

\* What a handler that is about to write can still count on, although it holds
\* no lock: its caller may do what it does, the uploader has not changed, the
\* submission it saw cannot be undone, and unless it has gone stale the book is
\* still in the status it read, or deleted.
InFlightGuarantees ==
    \A c \in Calls : LET r == req[c] IN
        /\ pc[c] \in {"read", "write"} => r.claim.role \in RolesFor(r.op)
        /\ pc[c] = "write" =>
              /\ status[r.book] # "absent"
              /\ r.op \in OwnerOnly => uploader[r.book] = r.claim.user
              /\ r.op # "submit" => SubmittedByOwner(r.book)
              /\ c \notin stale => status[r.book] \in {StatusFrom(r.op), "deleted"}

\* The transitions the comments of book_review.go name.
Documented == {<<StatusFrom(op), StatusTo(op)>> : op \in ReviewOps}

\* A review handler writes the status of b in this step.
WritesStatus(c, b) == pc[c] = "write" /\ pc'[c] = "record" /\ req[c].book = b

\* The status of a book leaves the documented transitions only in a handler
\* whose read went stale: some other handler changed the status of the same
\* book after this one had read it.  Without overlap the unconditional UPDATE
\* (repository/book.go:349) is harmless; deletion and edits never break it.
OnlyRacesLeaveWorkflow ==
    [][\A b \in Books :
          Exists(b) /\ Exists(b)' /\ status'[b] # status[b] =>
              \/ <<status[b], status'[b]>> \in Documented
              \/ \E c \in stale : WritesStatus(c, b)]_vars

\* The workflow implements the promise of BookLifecycle: a book is open to
\* decisions from its uploader's first submission on, never before, and a
\* deleted book stays deleted whatever handler is still holding its id.
Lifecycle == INSTANCE BookLifecycle WITH opened <- {b \in Books : SubmittedByOwner(b)}
ImplementsLifecycle == Lifecycle!Spec

-----------------------------------------------------------------------------
(* What the documents say and the code does not do.                        *)

\* book_review.go:43,81,111,145: submit is draft -> pending, approve pending ->
\* approved, reject pending -> rejected, recall pending -> draft.
WorkflowTransitions ==
    [][\A b \in Books : \A c \in Calls :
          WritesStatus(c, b) /\ status'[b] # status[b] =>
              status[b] = StatusFrom(req[c].op)]_vars

\* 05-book-review/proposal.md:107: every change of status produces a review
\* record.  Stated for moments when no handler is still on its way to it.
HistoryShowsEveryChange ==
    \A b \in Books : \A t \in trail[b] :
        (\A c \in Calls : pc[c] # "record") =>
            \E r \in ListByBookID(b) :
                r.reviewer = t.claim.user /\ r.to = StatusTo(t.op)

=============================================================================
