-------------------------- MODULE BookReview_proofs --------------------------
(***************************************************************************)
(* Proofs about the review workflow, for any number of books, users,       *)
(* tokens and concurrent calls, with or without faults.                    *)
(***************************************************************************)
EXTENDS BookReview, TLAPS

\* The inductive invariant of the workflow.
IInv == TypeOK /\ PublishedProvenance /\ InFlightGuarantees

\* A request of the review service has an operation, a book and a caller of the
\* declared sets, and its statuses are statuses of the schema.
LEMMA RequestType ==
  ASSUME NEW r \in Requests
  PROVE  /\ r.op \in ReviewOps
         /\ r.book \in Books
         /\ r.claim \in Claims
         /\ r.claim.user \in Users
         /\ r.claim.role \in Roles
         /\ StatusFrom(r.op) \in Live
         /\ StatusTo(r.op) \in Live
BY ClaimsAssumption DEF Requests, ReviewOps, StatusFrom, StatusTo, Live

\* Each operation writes a status of its own.
LEMMA StatusToValue ==
  ASSUME NEW op \in ReviewOps
  PROVE  /\ StatusTo(op) = "pending"  <=> op = "submit"
         /\ StatusTo(op) = "approved" <=> op = "approve"
         /\ StatusTo(op) = "rejected" <=> op = "reject"
         /\ StatusTo(op) = "draft"    <=> op = "recall"
BY DEF ReviewOps, StatusTo

\* The interceptors refuse a request with one of the listed errors.
LEMMA AdmissionType == \A r \in Requests : Admission(r) \in Errors
BY DEF Admission, Errors

\* A handler refuses a row with one of the listed errors.
LEMMA CheckType == \A r, s, u : Check(r, s, u) \in Errors
BY DEF Check, Errors

\* An empty database and idle goroutines are well typed.
LEMMA InitTypeOK == Init => TypeOK
BY DEF Init, TypeOK, Errors

\* Every step of a handler, of the book service or of the process keeps types.
LEMMA NextTypeOK == TypeOK /\ [Next]_vars => TypeOK'
<1> SUFFICES ASSUME TypeOK, [Next]_vars
             PROVE  TypeOK'
  OBVIOUS
<1> USE DEF TypeOK
<1>1. ASSUME NEW c \in Calls, Receive(c)
      PROVE  TypeOK'
  BY <1>1, AdmissionType DEF Receive, GoTo, Finish, bookVars
<1>2. ASSUME NEW c \in Calls, ReadBook(c)
      PROVE  TypeOK'
  BY <1>2, CheckType DEF ReadBook, GoTo, Finish, bookVars, Errors
<1>3. ASSUME NEW c \in Calls, UpdateStatus(c)
      PROVE  TypeOK'
  <2>1. req[c] \in Requests
    BY <1>3 DEF UpdateStatus
  <2>2. CASE Exists(req[c].book)
    <3>1. [op |-> req[c].op, claim |-> req[c].claim] \in [op : ReviewOps, claim : Claims]
      BY <2>1, RequestType
    <3>2. trail' \in [Books -> SUBSET [op : ReviewOps, claim : Claims]]
      BY <1>3, <2>2, <3>1 DEF UpdateStatus
    <3>3. /\ status' \in [Books -> Live \cup {"absent", "deleted"}]
          /\ \A b \in Books : status'[b] = "absent" => trail'[b] = {}
      BY <1>3, <2>1, <2>2, RequestType DEF UpdateStatus, Exists, Live
    <3> QED
      BY <1>3, <2>2, <3>2, <3>3 DEF UpdateStatus, GoTo
  <2>3. CASE ~Exists(req[c].book)
    BY <1>3, <2>3 DEF UpdateStatus, Finish, Errors
  <2> QED BY <2>2, <2>3
<1>4. ASSUME NEW c \in Calls, CreateReview(c)
      PROVE  TypeOK'
  <2>1. ReviewRow(req[c]) \in [book : Books, reviewer : Users, from : Live, to : Live,
                               edge : BOOLEAN]
    BY <1>4, RequestType DEF CreateReview, ReviewRow
  <2>2. reviews' \subseteq [book : Books, reviewer : Users, from : Live, to : Live,
                            edge : BOOLEAN]
    BY <1>4, <2>1 DEF CreateReview
  <2> QED
    BY <1>4, <2>2 DEF CreateReview, Finish, Errors
<1>5. ASSUME NEW c \in Calls, DatabaseFails(c)
      PROVE  TypeOK'
  BY <1>5 DEF DatabaseFails, Finish, bookVars, Errors
<1>6. ASSUME NEW c \in Calls, Respond(c)
      PROVE  TypeOK'
  BY <1>6 DEF Respond, bookVars, Errors
<1>7. ASSUME NEW b \in Books, CreateBook(b)
      PROVE  TypeOK'
  BY <1>7, ClaimsAssumption DEF CreateBook, callVars, Live
<1>8. ASSUME NEW b \in Books, EditBook(b)
      PROVE  TypeOK'
  BY <1>8 DEF EditBook, callVars
<1>9. ASSUME NEW b \in Books, DeleteBook(b)
      PROVE  TypeOK'
  BY <1>9 DEF DeleteBook, callVars
<1>10. CASE Restart
  BY <1>10 DEF Restart, bookVars, Errors
<1>11. CASE UNCHANGED vars
  BY <1>11 DEF vars
<1> QED
  BY <1>1, <1>2, <1>3, <1>4, <1>5, <1>6, <1>7, <1>8, <1>9, <1>10, <1>11
     DEF Next, CallStep

\* Every variable keeps its type.
THEOREM TypeCorrect == Spec => []TypeOK
<1>1. Init => TypeOK
  BY InitTypeOK
<1>2. TypeOK /\ [Next]_vars => TypeOK'
  BY NextTypeOK
<1> QED
  BY <1>1, <1>2, PTL DEF Spec

-----------------------------------------------------------------------------
(* What no step undoes: a row's uploader, and what has happened to it.     *)

\* A book once created stays created, a deleted one stays deleted, its uploader
\* never changes and its history only grows.
LEMMA Lasting ==
  ASSUME TypeOK, [Next]_vars, NEW b \in Books, status[b] # "absent"
  PROVE  /\ status'[b] # "absent"
         /\ status[b] = "deleted" => status'[b] = "deleted"
         /\ uploader'[b] = uploader[b]
         /\ trail[b] \subseteq trail'[b]
<1> USE DEF TypeOK
<1>1. ASSUME NEW c \in Calls, UpdateStatus(c)
      PROVE  /\ status'[b] # "absent"
             /\ status[b] = "deleted" => status'[b] = "deleted"
             /\ uploader'[b] = uploader[b]
             /\ trail[b] \subseteq trail'[b]
  BY <1>1, RequestType DEF UpdateStatus, Exists, Live
<1>2. ASSUME NEW c \in Calls,
             Receive(c) \/ ReadBook(c) \/ CreateReview(c) \/ DatabaseFails(c) \/ Respond(c)
      PROVE  UNCHANGED <<status, uploader, trail>>
  BY <1>2 DEF Receive, ReadBook, CreateReview, DatabaseFails, Respond, bookVars
<1>3. ASSUME NEW d \in Books, CreateBook(d) \/ EditBook(d) \/ DeleteBook(d)
      PROVE  /\ status'[b] # "absent"
             /\ status[b] = "deleted" => status'[b] = "deleted"
             /\ uploader'[b] = uploader[b]
             /\ trail[b] \subseteq trail'[b]
  BY <1>3 DEF CreateBook, EditBook, DeleteBook, Exists, Live
<1>4. CASE Restart \/ UNCHANGED vars
  BY <1>4 DEF Restart, bookVars, vars
<1> QED
  BY <1>1, <1>2, <1>3, <1>4 DEF Next, CallStep

\* What has happened to a book, its submission or a decision, is not undone.
LEMMA LastingEvidence ==
  ASSUME TypeOK, [Next]_vars, NEW b \in Books, status[b] # "absent"
  PROVE  /\ SubmittedByOwner(b) => SubmittedByOwner(b)'
         /\ \A op \in ReviewOps : DecidedBy(op, b) => DecidedBy(op, b)'
BY Lasting DEF SubmittedByOwner, DecidedBy

\* The inductive invariant holds of the empty database.
LEMMA InitIInv == Init => IInv
<1> SUFFICES ASSUME Init PROVE IInv
  OBVIOUS
<1>1. TypeOK
  BY InitTypeOK
<1>2. PublishedProvenance
  BY DEF Init, PublishedProvenance
<1>3. InFlightGuarantees
  BY DEF Init, InFlightGuarantees
<1> QED
  BY <1>1, <1>2, <1>3 DEF IInv

\* The status write is where the evidence gathered before it is needed.
LEMMA UpdateStatusProvenance ==
  ASSUME IInv, NEW c \in Calls, UpdateStatus(c)
  PROVE  PublishedProvenance'
<1> DEFINE r == req[c]
<1> USE DEF IInv
<1>1. TypeOK /\ r \in Requests /\ r.book \in Books /\ r.op \in ReviewOps
  BY RequestType DEF TypeOK, UpdateStatus
<1>2. [Next]_vars
  BY DEF Next, CallStep
<1>3. SUFFICES ASSUME NEW b \in Books
               PROVE  /\ status'[b] \in {"pending", "approved", "rejected"} => SubmittedByOwner(b)'
                      /\ status'[b] = "approved" => DecidedBy("approve", b)'
                      /\ status'[b] = "rejected" => DecidedBy("reject", b)'
  BY DEF PublishedProvenance
<1>4. CASE status'[b] = status[b] /\ ~(b = r.book /\ Exists(b))
  <2>1. CASE status[b] = "absent"
    BY <2>1, <1>4
  <2>2. CASE status[b] # "absent"
    BY <2>2, <1>1, <1>2, <1>4, LastingEvidence DEF PublishedProvenance, ReviewOps
  <2> QED BY <2>1, <2>2
<1>5. CASE b = r.book /\ Exists(b)
  <2>1. status'[b] = StatusTo(r.op)
    BY <1>1, <1>5 DEF UpdateStatus, TypeOK
  <2>2. [op |-> r.op, claim |-> r.claim] \in trail'[b]
    BY <1>1, <1>5 DEF UpdateStatus, TypeOK
  <2>3. uploader'[b] = uploader[b]
    BY DEF UpdateStatus
  <2>4. r.claim.role \in RolesFor(r.op)
    BY DEF InFlightGuarantees, UpdateStatus
  <2>5. ASSUME NEW op \in ReviewOps, r.op = op
        PROVE  DecidedBy(op, b)'
    BY <2>2, <2>4, <2>5 DEF DecidedBy
  <2>6. CASE r.op = "submit"
    <3>1. uploader[b] = r.claim.user
      BY <1>5, <2>6 DEF InFlightGuarantees, UpdateStatus, OwnerOnly
    <3>2. SubmittedByOwner(b)'
      BY <2>2, <2>3, <2>6, <3>1 DEF SubmittedByOwner
    <3> QED
      BY <2>1, <2>6, <3>2 DEF StatusTo
  <2>7. CASE r.op # "submit"
    <3>1. SubmittedByOwner(b)
      BY <1>5, <2>7 DEF InFlightGuarantees, UpdateStatus
    <3>2. SubmittedByOwner(b)'
      BY <3>1, <1>1, <1>2, <1>5, LastingEvidence DEF Exists, Live
    <3> QED
      BY <2>1, <2>5, <2>7, <3>2, <1>1, StatusToValue DEF ReviewOps
  <2> QED BY <2>6, <2>7
<1> QED
  BY <1>1, <1>4, <1>5 DEF UpdateStatus, TypeOK

\* No step publishes or rejects a book without its submission and decision.
LEMMA NextProvenance == IInv /\ [Next]_vars => PublishedProvenance'
<1> SUFFICES ASSUME IInv, [Next]_vars PROVE PublishedProvenance'
  OBVIOUS
<1> USE DEF IInv
<1>1. ASSUME NEW c \in Calls, UpdateStatus(c)
      PROVE  PublishedProvenance'
  BY <1>1, UpdateStatusProvenance
<1>2. ASSUME NEW c \in Calls,
             Receive(c) \/ ReadBook(c) \/ CreateReview(c) \/ DatabaseFails(c) \/ Respond(c)
      PROVE  PublishedProvenance'
  BY <1>2 DEF Receive, ReadBook, CreateReview, DatabaseFails, Respond, bookVars,
              PublishedProvenance, SubmittedByOwner, DecidedBy
<1>3. ASSUME NEW d \in Books, CreateBook(d) \/ EditBook(d) \/ DeleteBook(d)
      PROVE  PublishedProvenance'
  <2> SUFFICES ASSUME NEW b \in Books
               PROVE  /\ status'[b] \in {"pending", "approved", "rejected"} => SubmittedByOwner(b)'
                      /\ status'[b] = "approved" => DecidedBy("approve", b)'
                      /\ status'[b] = "rejected" => DecidedBy("reject", b)'
    BY DEF PublishedProvenance
  <2>1. status'[b] = status[b] \/ status'[b] \in {"draft", "deleted"}
    BY <1>3 DEF CreateBook, EditBook, DeleteBook, TypeOK
  <2>2. CASE status'[b] = status[b] /\ status[b] # "absent"
    BY <2>2, LastingEvidence DEF PublishedProvenance, ReviewOps
  <2> QED
    BY <2>1, <2>2
<1>4. CASE Restart \/ UNCHANGED vars
  BY <1>4 DEF Restart, bookVars, vars, PublishedProvenance, SubmittedByOwner, DecidedBy
<1> QED
  BY <1>1, <1>2, <1>3, <1>4 DEF Next, CallStep
-----------------------------------------------------------------------------
(* The guarantees of the calls in flight.                                  *)

\* What InFlightGuarantees says of one call.
Guaranteed(d) ==
    /\ pc[d] \in {"read", "write"} => req[d].claim.role \in RolesFor(req[d].op)
    /\ pc[d] = "write" =>
          /\ status[req[d].book] # "absent"
          /\ req[d].op \in OwnerOnly => uploader[req[d].book] = req[d].claim.user
          /\ req[d].op # "submit" => SubmittedByOwner(req[d].book)
          /\ d \notin stale => status[req[d].book] \in {StatusFrom(req[d].op), "deleted"}

\* The guarantees of all calls are the guarantees of each call.
LEMMA InFlightIsGuaranteed ==
  /\ InFlightGuarantees <=> \A d \in Calls : Guaranteed(d)
  /\ InFlightGuarantees' <=> \A d \in Calls : Guaranteed(d)'
BY DEF InFlightGuarantees, Guaranteed

\* A call that takes no step keeps its guarantees while the book rows are
\* at most created, edited, deleted or written by a call it becomes stale for.
LEMMA BystanderKeepsGuarantees ==
  ASSUME IInv, [Next]_vars, NEW d \in Calls,
         pc'[d] = pc[d], req'[d] = req[d],
         d \notin stale' => d \notin stale,
         pc[d] = "write" /\ d \notin stale' =>
             \/ status'[req[d].book] = status[req[d].book]
             \/ status'[req[d].book] = "deleted"
  PROVE  Guaranteed(d)'
<1> USE DEF IInv
<1>1. Guaranteed(d)
  BY InFlightIsGuaranteed
<1>2. CASE pc[d] = "write"
  <2> DEFINE b == req[d].book
  <2>1. b \in Books /\ status[b] # "absent"
    BY <1>1, <1>2, RequestType DEF Guaranteed, TypeOK
  <2>2. /\ status'[b] # "absent"
        /\ uploader'[b] = uploader[b]
        /\ status[b] = "deleted" => status'[b] = "deleted"
    BY <2>1, Lasting
  <2>3. trail[b] \subseteq trail'[b]
    BY <2>1, Lasting
  <2>4. req'[d].op # "submit" =>
            \E t \in trail'[b] : t.op = "submit" /\ t.claim.user = uploader'[b]
    BY <1>1, <1>2, <2>2, <2>3 DEF Guaranteed, SubmittedByOwner
  <2>5. req'[d].op # "submit" => SubmittedByOwner(req[d].book)'
    BY <2>4 DEF SubmittedByOwner
  <2>6. d \notin stale' => status'[b] \in {StatusFrom(req[d].op), "deleted"}
    BY <1>1, <1>2, <2>2 DEF Guaranteed
  <2> QED
    BY <1>1, <1>2, <2>2, <2>5, <2>6 DEF Guaranteed
<1>3. CASE pc[d] # "write"
  BY <1>1, <1>3 DEF Guaranteed
<1> QED
  BY <1>2, <1>3

\* No step, its own or another goroutine's, takes a call's guarantees from it.
LEMMA NextInFlight == IInv /\ [Next]_vars => InFlightGuarantees'
<1> SUFFICES ASSUME IInv, [Next]_vars, NEW d \in Calls
             PROVE  Guaranteed(d)'
  BY InFlightIsGuaranteed
<1> USE DEF IInv
<1>0. Guaranteed(d)
  BY InFlightIsGuaranteed
<1>1. ASSUME NEW c \in Calls, Receive(c)
      PROVE  Guaranteed(d)'
  <2>1. CASE d = c
    BY <1>1, <2>1 DEF Receive, GoTo, Finish, Admission, Guaranteed, TypeOK
  <2>2. CASE d # c
    BY <1>1, <2>2, BystanderKeepsGuarantees DEF Receive, GoTo, Finish, bookVars, TypeOK
  <2> QED BY <2>1, <2>2
<1>2. ASSUME NEW c \in Calls, ReadBook(c)
      PROVE  Guaranteed(d)'
  <2>1. CASE d = c /\ pc'[c] = "write"
    <3> DEFINE r == req[c]
    <3>1. r \in Requests /\ r.book \in Books /\ req' = req /\ UNCHANGED bookVars
      BY <1>2, RequestType DEF ReadBook, TypeOK
    <3>2. Exists(r.book) /\ Check(r, status[r.book], uploader[r.book]) = "nil"
      BY <1>2, <2>1 DEF ReadBook, Finish, TypeOK
    <3>3. /\ status[r.book] = StatusFrom(r.op)
          /\ r.op \in OwnerOnly => uploader[r.book] = r.claim.user
      BY <3>2 DEF Check
    <3>4. r.op # "submit" => SubmittedByOwner(r.book)
      BY <3>1, <3>3 DEF StatusFrom, PublishedProvenance
    <3>5. r.claim.role \in RolesFor(r.op)
      BY <1>0, <1>2, <2>1 DEF Guaranteed, ReadBook
    <3> QED
      BY <2>1, <3>1, <3>2, <3>3, <3>4, <3>5
         DEF Guaranteed, bookVars, SubmittedByOwner, Exists, Live
  <2>2. CASE d = c /\ pc'[c] # "write"
    BY <1>2, <2>2 DEF ReadBook, GoTo, Finish, Guaranteed, TypeOK
  <2>3. CASE d # c
    BY <1>2, <2>3, BystanderKeepsGuarantees DEF ReadBook, GoTo, Finish, bookVars, TypeOK
  <2> QED BY <2>1, <2>2, <2>3
<1>3. ASSUME NEW c \in Calls, UpdateStatus(c)
      PROVE  Guaranteed(d)'
  <2>1. CASE d = c
    BY <1>3, <2>1 DEF UpdateStatus, GoTo, Finish, Guaranteed, TypeOK
  <2>2. CASE d # c
    <3>1. /\ pc'[d] = pc[d] /\ req'[d] = req[d] /\ stale \subseteq stale'
      BY <1>3, <2>2 DEF UpdateStatus, GoTo, Finish, TypeOK
    <3>2. ASSUME pc[d] = "write", d \notin stale', Exists(req[c].book)
          PROVE  status'[req[d].book] = status[req[d].book]
      <4>1. status' = [status EXCEPT ![req[c].book] = StatusTo(req[c].op)]
        BY <1>3, <3>2 DEF UpdateStatus
      <4>2. req[d].book # req[c].book \/ status[req[c].book] = StatusTo(req[c].op)
        BY <1>3, <2>2, <3>2 DEF UpdateStatus
      <4> QED
        BY <4>1, <4>2 DEF TypeOK
    <3>3. ~Exists(req[c].book) => status' = status
      BY <1>3 DEF UpdateStatus
    <3> QED
      BY <3>1, <3>2, <3>3, BystanderKeepsGuarantees
  <2> QED BY <2>1, <2>2
<1>4. ASSUME NEW c \in Calls, CreateReview(c) \/ DatabaseFails(c) \/ Respond(c)
      PROVE  Guaranteed(d)'
  <2>1. CASE d = c
    BY <1>4, <2>1 DEF CreateReview, DatabaseFails, Respond, Finish, Guaranteed, TypeOK
  <2>2. CASE d # c
    BY <1>4, <2>2, BystanderKeepsGuarantees
       DEF CreateReview, DatabaseFails, Respond, Finish, bookVars, TypeOK
  <2> QED BY <2>1, <2>2
<1>5. ASSUME NEW b \in Books, CreateBook(b) \/ EditBook(b) \/ DeleteBook(b)
      PROVE  Guaranteed(d)'
  <2>1. pc' = pc /\ req' = req /\ stale' = stale
    BY <1>5 DEF CreateBook, EditBook, DeleteBook, callVars
  <2>2. pc[d] = "write" => req[d].book \in Books /\ status[req[d].book] # "absent"
    BY <1>0, RequestType DEF TypeOK, Guaranteed
  <2>3. pc[d] = "write" => \/ status'[req[d].book] = status[req[d].book]
                           \/ status'[req[d].book] = "deleted"
    BY <1>5, <2>2 DEF CreateBook, EditBook, DeleteBook, TypeOK
  <2> QED
    BY <2>1, <2>3, BystanderKeepsGuarantees
<1>6. CASE Restart
  BY <1>6 DEF Restart, Guaranteed
<1>7. CASE UNCHANGED vars
  BY <1>7, BystanderKeepsGuarantees DEF vars
<1> QED
  BY <1>1, <1>2, <1>3, <1>4, <1>5, <1>6, <1>7 DEF Next, CallStep

\* The invariant holds in every state the server can reach.
LEMMA IInvCorrect == Spec => []IInv
<1>1. Init => IInv
  BY InitIInv
<1>2. IInv /\ [Next]_vars => IInv'
  BY NextTypeOK, NextProvenance, NextInFlight DEF IInv
<1> QED
  BY <1>1, <1>2, PTL DEF Spec

\* Nobody sees a book its uploader has not submitted and an admin not approved.
THEOREM ProvenanceHolds == Spec => []PublishedProvenance
<1>1. IInv => PublishedProvenance
  BY DEF IInv
<1> QED
  BY <1>1, IInvCorrect, PTL

\* A handler about to write still has everything but the freshness of its read.
THEOREM InFlightHolds == Spec => []InFlightGuarantees
<1>1. IInv => InFlightGuarantees
  BY DEF IInv
<1> QED
  BY <1>1, IInvCorrect, PTL
-----------------------------------------------------------------------------
(* Only races leave the documented workflow.                               *)

\* A step out of the documented transitions is the unconditional UPDATE of a
\* call that is stale.
LEMMA StepLeavesWorkflowOnlyInARace ==
  ASSUME IInv, [Next]_vars, NEW b \in Books,
         Exists(b), Exists(b)', status'[b] # status[b]
  PROVE  \/ <<status[b], status'[b]>> \in Documented
         \/ \E c \in stale : WritesStatus(c, b)
<1> USE DEF IInv
<1>1. ASSUME NEW c \in Calls, UpdateStatus(c)
      PROVE  \/ <<status[b], status'[b]>> \in Documented
             \/ \E d \in stale : WritesStatus(d, b)
  <2> DEFINE r == req[c]
  <2>1. Exists(r.book) /\ b = r.book /\ status'[b] = StatusTo(r.op) /\ r.op \in ReviewOps
    BY <1>1, RequestType DEF UpdateStatus, TypeOK
  <2>2. CASE c \in stale
    BY <1>1, <2>1, <2>2 DEF UpdateStatus, GoTo, WritesStatus, TypeOK
  <2>3. CASE c \notin stale
    <3>1. status[b] = StatusFrom(r.op)
      BY <1>1, <2>1, <2>3 DEF InFlightGuarantees, UpdateStatus, Exists, Live
    <3> QED
      BY <2>1, <3>1 DEF Documented
  <2> QED BY <2>2, <2>3
<1>2. ASSUME NEW c \in Calls,
             Receive(c) \/ ReadBook(c) \/ CreateReview(c) \/ DatabaseFails(c) \/ Respond(c)
      PROVE  FALSE
  BY <1>2 DEF Receive, ReadBook, CreateReview, DatabaseFails, Respond, bookVars
<1>3. ASSUME NEW d \in Books, CreateBook(d) \/ EditBook(d) \/ DeleteBook(d)
      PROVE  FALSE
  BY <1>3 DEF CreateBook, EditBook, DeleteBook, TypeOK, Exists, Live
<1>4. CASE Restart \/ UNCHANGED vars
  BY <1>4 DEF Restart, bookVars, vars
<1> QED
  BY <1>1, <1>2, <1>3, <1>4 DEF Next, CallStep

\* Whoever breaks the documented state machine had read a stale status.
THEOREM OnlyRacesHolds == Spec => OnlyRacesLeaveWorkflow
<1> DEFINE A == \A b \in Books :
          Exists(b) /\ Exists(b)' /\ status'[b] # status[b] =>
              \/ <<status[b], status'[b]>> \in Documented
              \/ \E c \in stale : WritesStatus(c, b)
<1>1. IInv /\ [Next]_vars => [A]_vars
  BY StepLeavesWorkflowOnlyInARace
<1> QED
  BY <1>1, IInvCorrect, PTL DEF Spec, OnlyRacesLeaveWorkflow

-----------------------------------------------------------------------------
(* The workflow implements the life cycle.                                 *)

Opened == {b \in Books : SubmittedByOwner(b)}

\* The empty database is an empty BookLifecycle.
LEMMA InitLifecycle == Init => Lifecycle!Init
BY DEF Init, Lifecycle!Init, SubmittedByOwner

\* The UPDATE of a review handler is a submission or a conclusion of
\* BookLifecycle, or nothing when the row is gone.
LEMMA UpdateStatusLifecycle ==
  ASSUME IInv, NEW c \in Calls, UpdateStatus(c)
  PROVE  Lifecycle!Next \/ UNCHANGED Lifecycle!vars
<1> DEFINE r == req[c]
<1> USE DEF IInv
<1>1. r \in Requests /\ r.book \in Books /\ r.op \in ReviewOps /\ r.claim \in Claims
  BY RequestType DEF TypeOK, UpdateStatus
<1>2. CASE ~Exists(r.book)
  BY <1>2 DEF UpdateStatus, Lifecycle!vars, SubmittedByOwner
<1>3. CASE Exists(r.book)
  <2>1. /\ Lifecycle!Exists(r.book)
        /\ status' = [status EXCEPT ![r.book] = StatusTo(r.op)]
        /\ uploader' = uploader
    BY <1>3 DEF UpdateStatus, Exists, Live, Lifecycle!Exists
  <2>2. \A b \in Books : trail'[b] = IF b = r.book
                 THEN trail[b] \cup {[op |-> r.op, claim |-> r.claim]} ELSE trail[b]
    BY <1>3 DEF UpdateStatus, TypeOK
  <2>3. CASE r.op = "submit"
    <3>1. uploader[r.book] = r.claim.user
      BY <2>3 DEF InFlightGuarantees, UpdateStatus, OwnerOnly
    <3>2. Opened' = Opened \cup {r.book}
      <4>1. \A b \in Books : b # r.book => (SubmittedByOwner(b)' <=> SubmittedByOwner(b))
        BY <2>1, <2>2 DEF SubmittedByOwner
      <4>2. ASSUME NEW b \in Books, b = r.book
            PROVE  SubmittedByOwner(b)'
        <5>1. [op |-> r.op, claim |-> r.claim] \in trail'[b]
          BY <2>2, <4>2
        <5>2. uploader'[b] = r.claim.user
          BY <2>1, <3>1, <4>2
        <5> QED
          BY <2>3, <5>1, <5>2 DEF SubmittedByOwner
      <4> QED
        BY <1>1, <4>1, <4>2 DEF Opened
    <3>3. StatusTo(r.op) = "pending"
      BY <1>1, <2>3, StatusToValue
    <3> QED
      BY <1>1, <2>1, <3>2, <3>3 DEF Lifecycle!Next, Lifecycle!Submit, Opened
  <2>4. CASE r.op # "submit"
    <3>1. r.book \in Opened
      BY <1>1, <2>4 DEF InFlightGuarantees, UpdateStatus, Opened
    <3>2. Opened' = Opened
      <4>1. ASSUME NEW b \in Books
            PROVE  SubmittedByOwner(b)' <=> SubmittedByOwner(b)
        <5>1. \A t : t \in trail'[b] /\ t.op = "submit" <=> t \in trail[b] /\ t.op = "submit"
          <6>1. [op |-> r.op, claim |-> r.claim].op # "submit"
            BY <2>4
          <6> QED
            BY <2>2, <6>1
        <5> QED
          BY <2>1, <5>1 DEF SubmittedByOwner
      <4> QED
        BY <4>1 DEF Opened
    <3>3. StatusTo(r.op) \in {"approved", "rejected", "draft"}
      BY <1>1, <2>4, StatusToValue DEF ReviewOps
    <3> QED
      BY <1>1, <2>1, <3>1, <3>2, <3>3 DEF Lifecycle!Next, Lifecycle!Conclude, Opened
  <2> QED BY <2>3, <2>4
<1> QED BY <1>2, <1>3

\* Every step is a step of BookLifecycle or leaves it as it is.
LEMMA NextLifecycle == IInv /\ [Next]_vars => [Lifecycle!Next]_(Lifecycle!vars)
<1> SUFFICES ASSUME IInv, [Next]_vars
             PROVE  Lifecycle!Next \/ UNCHANGED Lifecycle!vars
  OBVIOUS
<1> USE DEF IInv
<1>1. ASSUME NEW c \in Calls, UpdateStatus(c)
      PROVE  Lifecycle!Next \/ UNCHANGED Lifecycle!vars
  BY <1>1, UpdateStatusLifecycle
<1>2. ASSUME NEW c \in Calls,
             Receive(c) \/ ReadBook(c) \/ CreateReview(c) \/ DatabaseFails(c) \/ Respond(c)
      PROVE  UNCHANGED Lifecycle!vars
  BY <1>2 DEF Receive, ReadBook, CreateReview, DatabaseFails, Respond, bookVars,
              Lifecycle!vars, SubmittedByOwner
<1>3. ASSUME NEW b \in Books, CreateBook(b)
      PROVE  Lifecycle!Create(b)
  <2>1. trail[b] = {} /\ trail' = trail /\ \A x \in Books \ {b} : uploader'[x] = uploader[x]
    BY <1>3 DEF CreateBook, TypeOK
  <2>2. Opened' = Opened
    BY <2>1 DEF Opened, SubmittedByOwner
  <2> QED
    BY <1>3, <2>2, ClaimsAssumption DEF CreateBook, Lifecycle!Create, Opened
<1>4. ASSUME NEW b \in Books, EditBook(b)
      PROVE  UNCHANGED Lifecycle!vars
  BY <1>4 DEF EditBook, Lifecycle!vars, SubmittedByOwner
<1>5. ASSUME NEW b \in Books, DeleteBook(b)
      PROVE  Lifecycle!Delete(b)
  BY <1>5 DEF DeleteBook, Lifecycle!Delete, Lifecycle!Exists, Exists, Live, SubmittedByOwner
<1>6. CASE Restart \/ UNCHANGED vars
  BY <1>6 DEF Restart, bookVars, vars, Lifecycle!vars, SubmittedByOwner
<1> QED
  BY <1>1, <1>2, <1>3, <1>4, <1>5, <1>6 DEF Next, CallStep, Lifecycle!Next

\* The workflow implements BookLifecycle.
THEOREM RefinesLifecycle == Spec => ImplementsLifecycle
<1> QED
  BY InitLifecycle, NextLifecycle, IInvCorrect, PTL
     DEF Spec, ImplementsLifecycle, Lifecycle!Spec
-----------------------------------------------------------------------------
(* Without overlap.                                                        *)

\* If calls come one at a time, none is ever stale.
LEMMA NoneStale ==
  ASSUME \A c, d \in Calls : c = d
  PROVE  Spec => [](stale = {})
<1>1. Init => stale = {}
  BY DEF Init
<1>2. stale = {} /\ [Next]_vars => (stale = {})'
  <2> SUFFICES ASSUME stale = {}, [Next]_vars
               PROVE  stale' = {}
    OBVIOUS
  <2>1. ASSUME NEW c \in Calls, UpdateStatus(c)
        PROVE  stale' = {}
    BY <2>1 DEF UpdateStatus
  <2>2. ASSUME NEW c \in Calls, CallStep(c)
        PROVE  stale' = {}
    BY <2>1, <2>2 DEF CallStep, Receive, ReadBook, CreateReview, DatabaseFails, Respond
  <2> QED
    BY <2>2 DEF Next, CreateBook, EditBook, DeleteBook, Restart, callVars, vars
<1> QED
  BY <1>1, <1>2, PTL DEF Spec

\* A handler that is not stale writes over the status it has read.
LEMMA FreshWrites ==
  ASSUME IInv, [Next]_vars, stale = {}, NEW b \in Books, NEW c \in Calls,
         WritesStatus(c, b), status'[b] # status[b]
  PROVE  status[b] = StatusFrom(req[c].op)
<1>1. PICK d \in Calls : UpdateStatus(d) /\ Exists(req[d].book)
  <2>1. pc'[c] # pc[c] /\ status' # status
    BY DEF WritesStatus
  <2>2. ~UNCHANGED vars /\ ~(\E e \in Books : CreateBook(e) \/ EditBook(e) \/ DeleteBook(e))
    BY <2>1 DEF vars, callVars, CreateBook, EditBook, DeleteBook
  <2>3. ~Restart
    BY <2>1 DEF Restart, bookVars
  <2>4. PICK d \in Calls : CallStep(d)
    BY <2>2, <2>3 DEF Next
  <2>5. UpdateStatus(d)
    BY <2>1, <2>4 DEF CallStep, Receive, ReadBook, CreateReview, DatabaseFails, Respond, bookVars
  <2> QED
    BY <2>1, <2>5 DEF UpdateStatus
<1>2. d = c
  BY <1>1 DEF UpdateStatus, WritesStatus, GoTo, IInv, TypeOK
<1>3. status[b] \in {StatusFrom(req[c].op), "deleted"}
  BY DEF IInv, InFlightGuarantees, WritesStatus
<1> QED
  BY <1>1, <1>2, <1>3 DEF Exists, Live, WritesStatus

\* Calls that come one at a time follow the transitions the comments of
\* book_review.go name, whatever fails, restarts, is edited or deleted between
\* their steps: overlap is the only reason why review_transitions is violated.
THEOREM SequentialWorkflow ==
  ASSUME \A c, d \in Calls : c = d
  PROVE  Spec => WorkflowTransitions
<1> DEFINE A == \A b \in Books : \A c \in Calls :
                   WritesStatus(c, b) /\ status'[b] # status[b] =>
                       status[b] = StatusFrom(req[c].op)
<1>1. IInv /\ stale = {} /\ [Next]_vars => [A]_vars
  BY FreshWrites
<1> QED
  BY <1>1, NoneStale, IInvCorrect, PTL DEF Spec, WorkflowTransitions
=============================================================================
