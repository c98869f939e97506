------------------------- MODULE Dimensions_proofs -------------------------
(***************************************************************************)
(* Proofs about dimensions and the books filed under them, for any number  *)
(* of dimensions, slugs, books and concurrent calls, with or without       *)
(* faults.                                                                 *)
(***************************************************************************)
EXTENDS Dimensions, SequenceTheorems, TLAPS

\* The two halves of the type invariant: the tables, and the calls.
StoreOK ==
    /\ dim \in [Dims -> DimRows \cup {None}]
    /\ retired \subseteq Dims /\ retired \cap Live = {}
    /\ book \in [Books -> {"absent", "shelved", "deleted"}]
    /\ tags \in [Books -> Seq(Dims \cup {None})]
CallsOK ==
    /\ pc \in [Calls -> Points \cup {"idle", "failed"}]
    /\ req \in [Calls -> Requests \cup {None}]
    /\ found \in [Calls -> Dims \cup Books \cup {None}]
    /\ err \in [Calls -> Errors]
    /\ \A c \in Calls : Fits(pc[c], req[c], found[c])

-----------------------------------------------------------------------------
(* Requests and lists.                                                     *)

\* A request has the fields of its operation.
LEMMA RequestFields ==
  ASSUME NEW r \in Requests
  PROVE  /\ r.op \in {"createDim", "updateDim", "deleteDim"} => r.slug \in Slugs
         /\ r.op = "createDim" => r.parent \in Slugs \cup {None}
         /\ r.op \in {"createBook", "updateBook"} => r.tags \in TagLists
         /\ r.op \in {"updateBook", "deleteBook"} => r.book \in Books
         /\ r.op \in {"createDim", "updateDim", "deleteDim", "createBook", "updateBook", "deleteBook"}
BY DEF Requests, DimRequests, BookRequests

\* Slugs that resolve give a list of dimensions, all of them live.
LEMMA ResolveType ==
  ASSUME NEW slugs \in TagLists, Resolves(slugs)
  PROVE  /\ Resolve(slugs) \in Seq(Dims \cup {None})
         /\ \A i \in DOMAIN Resolve(slugs) : Resolve(slugs)[i] \in Live
<1>1. slugs \in Seq(Slugs)
  BY TagListsAssumption
<1>2. \A i \in DOMAIN slugs : (CHOOSE d \in WithSlug(slugs[i]) : TRUE) \in Live
  BY DEF Resolves, WithSlug
<1>3. DOMAIN slugs = 1..Len(slugs) /\ Len(slugs) \in Nat
  BY <1>1
<1>4. Resolve(slugs) = [i \in 1..Len(slugs) |-> CHOOSE d \in WithSlug(slugs[i]) : TRUE]
  BY <1>3 DEF Resolve
<1> DEFINE f(i) == CHOOSE d \in WithSlug(slugs[i]) : TRUE
<1>5. \A i \in 1..Len(slugs) : f(i) \in Dims \cup {None}
  BY <1>2, <1>3 DEF Live
<1> HIDE DEF f
<1>6. [i \in 1..Len(slugs) |-> f(i)] \in Seq(Dims \cup {None})
  BY <1>3, <1>5
<1> QED
  BY <1>2, <1>3, <1>4, <1>6 DEF f

\* A list of which a dimension is cut is as long, and has nothing new.
LEMMA CutType ==
  ASSUME NEW list \in Seq(Dims \cup {None}), NEW d
  PROVE  /\ Cut(list, d) \in Seq(Dims \cup {None})
         /\ DOMAIN Cut(list, d) = DOMAIN list
         /\ \A i \in DOMAIN list : Cut(list, d)[i] = IF list[i] = d THEN None ELSE list[i]
<1>1. DOMAIN list = 1..Len(list) /\ Len(list) \in Nat
  OBVIOUS
<1>2. \A i \in 1..Len(list) : list[i] \in Dims \cup {None}
  OBVIOUS
<1> DEFINE f(i) == IF list[i] = d THEN None ELSE list[i]
<1>3. \A i \in 1..Len(list) : f(i) \in Dims \cup {None}
  BY <1>2
<1> HIDE DEF f
<1>4. [i \in 1..Len(list) |-> f(i)] \in Seq(Dims \cup {None})
  BY <1>1, <1>3
<1> QED
  BY <1>1, <1>4 DEF Cut, f

-----------------------------------------------------------------------------
(* Calls.                                                                  *)

\* A call moves on, and the others stay.
LEMMA Moves ==
  ASSUME CallsOK, NEW c \in Calls,
         NEW p \in Points \cup {"idle", "failed"}, NEW r \in Requests \cup {None},
         NEW f \in Dims \cup Books \cup {None}, NEW e \in Errors, Fits(p, r, f),
         pc' = [pc EXCEPT ![c] = p], req' = [req EXCEPT ![c] = r],
         found' = [found EXCEPT ![c] = f], err' = [err EXCEPT ![c] = e]
  PROVE  CallsOK'
BY DEF CallsOK

\* A call that waits for a statement has its request.
LEMMA Waiting ==
  ASSUME CallsOK, NEW c \in Calls, pc[c] # "idle"
  PROVE  req[c] \in Requests
BY DEF CallsOK, Fits

\* The four ways to move.
LEMMA GoToMoves ==
  ASSUME CallsOK, NEW c \in Calls, NEW p \in Points, GoTo(c, p), Fits(p, req[c], found[c])
  PROVE  CallsOK'
BY Moves DEF CallsOK, GoTo
LEMMA GoWithMoves ==
  ASSUME CallsOK, NEW c \in Calls, NEW p \in Points, NEW f \in Dims \cup Books \cup {None},
         GoWith(c, p, f), Fits(p, req[c], f)
  PROVE  CallsOK'
BY Moves DEF CallsOK, GoWith
LEMMA AnswerMoves ==
  ASSUME CallsOK, NEW c \in Calls, Answer(c)
  PROVE  CallsOK'
<1>1. Fits("idle", None, None)
  BY DEF Fits, Points
<1> QED
  BY <1>1, Moves DEF CallsOK, Answer
LEMMA FailMoves ==
  ASSUME CallsOK, NEW c \in Calls, pc[c] # "idle", NEW e \in Errors, Fail(c, e)
  PROVE  CallsOK'
<1>1. Fits("failed", req[c], None)
  BY Waiting DEF Fits, Points
<1> QED
  BY <1>1, Moves DEF CallsOK, Fail

-----------------------------------------------------------------------------
(* Types.                                                                  *)

\* The type invariant is that of the tables, of the calls, and of the history.
LEMMA TypeOKParts == TypeOK <=> StoreOK /\ CallsOK /\ overtaken \subseteq Calls /\ dirty \subseteq Calls
BY DEF TypeOK, StoreOK, CallsOK

\* Nothing is there at first.
LEMMA InitTypeOK == Init => TypeOK
BY DEF Init, TypeOK, Fits, Points, Errors, Live, DimRows

\* The row that a call has looked up, or its book, when its control point needs it.
LEMMA FoundType ==
  ASSUME CallsOK, NEW c \in Calls
  PROVE  /\ pc[c] = "insert" => found[c] \in Dims \cup {None}
         /\ pc[c] \in {"saveDim", "children", "books", "remove"} => found[c] \in Dims
         /\ pc[c] = "reload" => found[c] \in Books
         /\ pc[c] \notin {"insert", "saveDim", "children", "books", "remove", "reload"} => found[c] = None
BY DEF CallsOK, Fits

\* The operation of a call at each of its control points.
LEMMA OpType ==
  ASSUME CallsOK, NEW c \in Calls
  PROVE  /\ pc[c] \in {"exists", "parent", "insert"} => req[c].op = "createDim"
         /\ pc[c] = "find" => req[c].op \in {"updateDim", "deleteDim"}
         /\ pc[c] = "saveDim" => req[c].op = "updateDim"
         /\ pc[c] \in {"children", "books", "remove"} => req[c].op = "deleteDim"
         /\ pc[c] \in {"createTx", "reload"} => req[c].op = "createBook"
         /\ pc[c] \in {"tagTx", "saveFields"} => req[c].op = "updateBook"
         /\ pc[c] \in {"getBook", "deleteTx"} => req[c].op = "deleteBook"
         /\ pc[c] = "tagTx" => req[c].tags # <<>>
BY DEF CallsOK, Fits, Points, OpsAt

\* A request arrives.
LEMMA ReceiveType ==
  ASSUME CallsOK, NEW c \in Calls, Receive(c)
  PROVE  CallsOK'
<1>1. PICK r \in Requests : req' = [req EXCEPT ![c] = r] /\ pc' = [pc EXCEPT ![c] = Entry(r)]
  BY DEF Receive
<1>2. Fits(Entry(r), r, None) /\ Entry(r) \in Points
  BY RequestFields DEF Entry, Fits, Points, OpsAt
<1>3. found[c] = None /\ err[c] \in Errors
  BY FoundType DEF Receive, CallsOK
<1> QED
  BY <1>1, <1>2, <1>3, Moves DEF Receive, CallsOK

\* The operations on dimensions, statement by statement.
LEMMA DimCallsOK ==
  ASSUME StoreOK, CallsOK, NEW c \in Calls,
         \/ SlugExists(c) \/ FindParent(c) \/ InsertDim(c)
         \/ FindDim(c) \/ SaveDim(c) \/ CountChildren(c) \/ CountBooks(c) \/ RemoveDim(c)
  PROVE  CallsOK'
<1>1. CASE SlugExists(c)
  BY <1>1, FailMoves, GoToMoves, OpType, FoundType, Waiting DEF SlugExists, Fits, Points, OpsAt, Errors
<1>2. CASE FindParent(c)
  BY <1>2, FailMoves, GoWithMoves, OpType, Waiting DEF FindParent, Fits, Points, OpsAt, Errors, WithSlug, Live
<1>3. CASE InsertDim(c)
  BY <1>3, FailMoves, AnswerMoves DEF InsertDim, Errors
<1>4. CASE FindDim(c)
  BY <1>4, FailMoves, GoWithMoves, OpType, Waiting DEF FindDim, Fits, Points, OpsAt, Errors, WithSlug, Live
<1>5. CASE SaveDim(c)
  BY <1>5, FailMoves, AnswerMoves DEF SaveDim, Errors
<1>6. CASE CountChildren(c)
  BY <1>6, FailMoves, GoToMoves, OpType, FoundType, Waiting DEF CountChildren, Fits, Points, OpsAt, Errors
<1>7. CASE CountBooks(c)
  BY <1>7, FailMoves, GoToMoves, OpType, FoundType, Waiting DEF CountBooks, Fits, Points, OpsAt, Errors
<1>8. CASE RemoveDim(c)
  BY <1>8, FailMoves, AnswerMoves DEF RemoveDim, Errors
<1> QED
  BY <1>1, <1>2, <1>3, <1>4, <1>5, <1>6, <1>7, <1>8

\* The operations on books, statement by statement.
LEMMA BookCallsOK ==
  ASSUME StoreOK, CallsOK, NEW c \in Calls,
         \/ CreateTx(c) \/ Reload(c) \/ TagTx(c) \/ SaveFields(c) \/ GetBook(c) \/ DeleteTx(c)
  PROVE  CallsOK'
<1>1. CASE CreateTx(c)
  BY <1>1, FailMoves, GoWithMoves, OpType, Waiting DEF CreateTx, Fits, Points, OpsAt, Errors
<1>2. CASE Reload(c)
  BY <1>2, FailMoves, AnswerMoves DEF Reload, Errors
<1>3. CASE TagTx(c)
  BY <1>3, FailMoves, GoToMoves, OpType, FoundType, Waiting DEF TagTx, Fits, Points, OpsAt, Errors
<1>4. CASE SaveFields(c)
  BY <1>4, FailMoves, AnswerMoves DEF SaveFields, Errors
<1>5. CASE GetBook(c)
  BY <1>5, FailMoves, GoToMoves, OpType, FoundType, Waiting DEF GetBook, Fits, Points, OpsAt, Errors
<1>6. CASE DeleteTx(c)
  BY <1>6, FailMoves, AnswerMoves DEF DeleteTx, Errors
<1> QED
  BY <1>1, <1>2, <1>3, <1>4, <1>5, <1>6

\* Failures and the end of a call.
LEMMA EndCallsOK ==
  ASSUME StoreOK, CallsOK, NEW c \in Calls, DatabaseFails(c) \/ Respond(c)
  PROVE  CallsOK'
<1>1. CASE DatabaseFails(c)
  BY <1>1, FailMoves DEF DatabaseFails, Errors
<1>2. CASE Respond(c)
  <2>1. Fits("idle", None, found[c]) /\ found[c] = None
    BY <1>2, FoundType DEF Respond, Fits, Points
  <2> QED
    BY <1>2, <2>1, Moves DEF Respond, CallsOK, Errors
<1> QED
  BY <1>1, <1>2

-----------------------------------------------------------------------------
(* The tables.                                                             *)

\* What holds of the tables.
StoreInv == StoreOK /\ ReferencesHold /\ TagsHaveBooks

\* Steps that write nothing keep it.
LEMMA StoreUnchanged == StoreInv /\ UNCHANGED storeVars => StoreInv'
BY DEF StoreInv, StoreOK, ReferencesHold, TagsHaveBooks, Live, Shelved, storeVars

\* A dimension is inserted: the index and the foreign key decide.
LEMMA InsertDimStore ==
  ASSUME StoreInv, CallsOK, NEW c \in Calls, InsertDim(c)
  PROVE  StoreInv'
<1> USE DEF StoreInv
<1>1. CASE ~InsertAdmitted(req[c].slug, found[c])
  BY <1>1, StoreUnchanged DEF InsertDim, storeVars
<1>2. CASE InsertAdmitted(req[c].slug, found[c])
  <2>1. PICK d \in Dims \ (Live \cup retired) :
           dim' = [dim EXCEPT ![d] = [slug |-> req[c].slug, parent |-> found[c]]]
    BY <1>2 DEF InsertDim
  <2>2. req[c].slug \in Slugs /\ found[c] \in Live \cup {None}
    BY <1>2, OpType, Waiting, RequestFields DEF InsertDim, InsertAdmitted
  <2> DEFINE row == [slug |-> req[c].slug, parent |-> found[c]]
  <2>3. row \in DimRows /\ row.slug = req[c].slug /\ row.parent = found[c]
    BY <2>2 DEF DimRows, Live
  <2>4. row # None
    BY <2>3, DimensionsNoneAssumption
  <2>5. /\ UNCHANGED <<retired, book, tags>>
        /\ dim'[d] = row /\ \A e \in Dims : e # d => dim'[e] = dim[e]
    BY <1>2, <2>1 DEF InsertDim, StoreOK
  <2> HIDE DEF row
  <2>6. Live' = Live \cup {d} /\ d \notin Live
    BY <2>1, <2>4, <2>5 DEF Live
  <2>7. StoreOK'
    BY <2>1, <2>3, <2>5, <2>6 DEF StoreOK, row
  <2>8. \A e \in Live : dim[e].slug # row.slug
    BY <1>2, <2>3 DEF InsertAdmitted, WithSlug
  <2>9. ReferencesHold'
    <3>1. \A e, f \in Live' : dim'[e].slug = dim'[f].slug => e = f
      BY <2>5, <2>6, <2>8 DEF ReferencesHold, Live
    <3>2. \A e \in Live' : dim'[e].parent \in Live' \cup {None}
      BY <2>2, <2>3, <2>5, <2>6 DEF ReferencesHold, Live
    <3> QED
      BY <2>5, <2>6, <3>1, <3>2 DEF ReferencesHold
  <2> QED
    BY <2>5, <2>7, <2>9 DEF TagsHaveBooks, Shelved
<1> QED
  BY <1>1, <1>2

\* A dimension is deleted: the foreign keys cut what led to it.
LEMMA RemoveDimStore ==
  ASSUME StoreInv, CallsOK, NEW c \in Calls, RemoveDim(c)
  PROVE  StoreInv'
<1> USE DEF StoreInv
<1> DEFINE d == found[c]
<1>1. CASE d \notin Live
  BY <1>1, StoreUnchanged DEF RemoveDim, storeVars
<1>2. CASE d \in Live
  <2>1. /\ dim' = [e \in Dims |-> IF e = d THEN None
                                  ELSE IF e \in Children(d) THEN [dim[e] EXCEPT !.parent = None]
                                  ELSE dim[e]]
        /\ retired' = retired \cup {d}
        /\ tags' = [b \in Books |-> Cut(tags[b], d)]
        /\ book' = book
        /\ d \in Dims
    BY <1>2 DEF RemoveDim, Live
  <2> HIDE DEF d
  <2>2. \A e \in Live : dim[e] \in DimRows
    BY DEF StoreOK, Live
  <2>3. \A e \in Live : e # d =>
          /\ dim'[e] \in DimRows
          /\ dim'[e].slug = dim[e].slug
          /\ dim'[e].parent = IF dim[e].parent = d THEN None ELSE dim[e].parent
    BY <2>1, <2>2 DEF DimRows, Children, Live
  <2>4. dim'[d] = None /\ \A e \in Dims \ Live : dim'[e] = None
    BY <2>1 DEF Children, Live
  <2>5. Live' = Live \ {d}
    <3>1. None \notin DimRows
      BY DimensionsNoneAssumption
    <3> QED
      BY <2>3, <2>4, <3>1 DEF Live
  <2>6. \A b \in Books : tags[b] \in Seq(Dims \cup {None}) /\ tags'[b] = Cut(tags[b], d)
    BY <2>1 DEF StoreOK
  <2>7. StoreOK'
    <3>1. dim' \in [Dims -> DimRows \cup {None}]
      BY <2>1, <2>3, <2>4 DEF Live
    <3>2. tags' \in [Books -> Seq(Dims \cup {None})]
      BY <2>1, <2>6, CutType
    <3> QED
      BY <2>1, <2>5, <3>1, <3>2 DEF StoreOK
  <2>8. ReferencesHold'
    <3>1. \A e, f \in Live' : dim'[e].slug = dim'[f].slug => e = f
      BY <2>3, <2>5 DEF ReferencesHold
    <3>2. \A e \in Live' : dim'[e].parent \in Live' \cup {None}
      BY <2>3, <2>5 DEF ReferencesHold
    <3>3. \A b \in Books : \A i \in DOMAIN tags'[b] : tags'[b][i] \in Live' \cup {None}
      BY <2>5, <2>6, CutType DEF ReferencesHold
    <3> QED
      BY <3>1, <3>2, <3>3 DEF ReferencesHold
  <2>9. TagsHaveBooks'
    <3>1. \A b \in Books : tags[b] = <<>> => tags'[b] = <<>>
      BY <2>6, CutType
    <3> QED
      BY <2>1, <3>1 DEF TagsHaveBooks, Shelved
  <2> QED
    BY <2>7, <2>8, <2>9
<1> QED
  BY <1>1, <1>2

\* A book gets the associations of a list that resolves.
LEMMA TagStore ==
  ASSUME StoreInv, NEW b \in Books, NEW slugs \in TagLists, Resolves(slugs),
         tags' = [tags EXCEPT ![b] = Resolve(slugs)], UNCHANGED <<dim, retired>>,
         book' \in [Books -> {"absent", "shelved", "deleted"}],
         Shelved \cup {b} \subseteq Shelved'
  PROVE  StoreInv'
<1> USE DEF StoreInv
<1>1. tags'[b] = Resolve(slugs) /\ \A a \in Books : a # b => tags'[a] = tags[a]
  BY DEF StoreOK
<1>2. Live' = Live
  BY DEF Live
<1>3. tags' \in [Books -> Seq(Dims \cup {None})]
  BY ResolveType DEF StoreOK
<1>4. StoreOK'
  BY <1>2, <1>3 DEF StoreOK
<1>5. ReferencesHold'
  BY <1>1, <1>2, ResolveType DEF ReferencesHold
<1>6. TagsHaveBooks'
  BY <1>1 DEF TagsHaveBooks
<1> QED
  BY <1>4, <1>5, <1>6

\* The transactions on books.
LEMMA BookStore ==
  ASSUME StoreInv, CallsOK, NEW c \in Calls, CreateTx(c) \/ TagTx(c) \/ DeleteTx(c)
  PROVE  StoreInv'
<1> USE DEF StoreInv
<1>1. CASE CreateTx(c)
  <2>1. req[c].tags \in TagLists
    BY <1>1, OpType, Waiting, RequestFields DEF CreateTx
  <2>2. CASE ~Resolves(req[c].tags)
    BY <1>1, <2>2, StoreUnchanged DEF CreateTx, storeVars
  <2>3. CASE Resolves(req[c].tags)
    <3>1. PICK b \in Books : /\ book' = [book EXCEPT ![b] = "shelved"]
                             /\ tags' = [tags EXCEPT ![b] = Resolve(req[c].tags)]
      BY <1>1, <2>3 DEF CreateTx
    <3>2. book' \in [Books -> {"absent", "shelved", "deleted"}] /\ Shelved \cup {b} \subseteq Shelved'
      BY <3>1 DEF StoreOK, Shelved
    <3> QED
      BY <1>1, <2>1, <2>3, <3>1, <3>2, TagStore DEF CreateTx
  <2> QED
    BY <2>2, <2>3
<1>2. CASE TagTx(c)
  <2>1. req[c].tags \in TagLists /\ req[c].tags # <<>> /\ req[c].book \in Books
    BY <1>2, OpType, Waiting, RequestFields DEF TagTx
  <2>2. CASE UNCHANGED tags
    BY <1>2, <2>2, StoreUnchanged DEF TagTx, storeVars
  <2>3. CASE ~UNCHANGED tags
    <3>1. /\ ~(WithSlug(Head(req[c].tags)) # {} /\ req[c].book \notin Shelved)
          /\ Resolves(req[c].tags)
          /\ tags' = [tags EXCEPT ![req[c].book] = Resolve(req[c].tags)]
          /\ UNCHANGED <<dim, retired, book>>
      BY <1>2, <2>3 DEF TagTx
    <3>2. WithSlug(Head(req[c].tags)) # {}
      <4>1. req[c].tags \in Seq(Slugs)
        BY <2>1, TagListsAssumption
      <4>2. 1 \in DOMAIN req[c].tags /\ Head(req[c].tags) = req[c].tags[1]
        BY <2>1, <4>1
      <4> QED
        BY <3>1, <4>2 DEF Resolves
    <3>3. book' \in [Books -> {"absent", "shelved", "deleted"}]
          /\ Shelved \cup {req[c].book} \subseteq Shelved'
      BY <3>1, <3>2 DEF StoreOK, Shelved
    <3> QED
      BY <2>1, <3>1, <3>3, TagStore
  <2> QED
    BY <2>2, <2>3
<1>3. CASE DeleteTx(c)
  <2>1. CASE req[c].book \notin Shelved
    BY <1>3, <2>1, StoreUnchanged DEF DeleteTx, storeVars
  <2>2. CASE req[c].book \in Shelved
    <3>1. /\ book' = [book EXCEPT ![req[c].book] = "deleted"]
          /\ tags' = [tags EXCEPT ![req[c].book] = <<>>]
          /\ UNCHANGED <<dim, retired>>
      BY <1>3, <2>2 DEF DeleteTx
    <3>2. req[c].book \in Books
      BY <2>2 DEF Shelved
    <3>3. /\ tags'[req[c].book] = <<>>
          /\ \A a \in Books : a # req[c].book => tags'[a] = tags[a] /\ book'[a] = book[a]
      BY <3>1, <3>2 DEF StoreOK
    <3>4. StoreOK'
      BY <3>1, <3>2 DEF StoreOK, Live
    <3>5. ReferencesHold'
      BY <3>1, <3>3 DEF ReferencesHold, Live
    <3>6. TagsHaveBooks'
      BY <3>3 DEF TagsHaveBooks, Shelved
    <3> QED
      BY <3>4, <3>5, <3>6
  <2> QED
    BY <2>1, <2>2
<1> QED
  BY <1>1, <1>2, <1>3

\* The steps that write to no table.
LEMMA ReadsKeepStore ==
  ASSUME NEW c \in Calls,
         \/ Receive(c) \/ SlugExists(c) \/ FindParent(c) \/ FindDim(c) \/ SaveDim(c)
         \/ CountChildren(c) \/ CountBooks(c) \/ Reload(c) \/ SaveFields(c) \/ GetBook(c)
         \/ DatabaseFails(c) \/ Respond(c)
  PROVE  UNCHANGED storeVars
BY DEF Receive, SlugExists, FindParent, FindDim, SaveDim, CountChildren, CountBooks, Reload, SaveFields,
       GetBook, DatabaseFails, Respond

\* Every step of a call keeps the tables and the calls in order.
LEMMA CallStepInv ==
  ASSUME StoreInv, CallsOK, NEW c \in Calls, CallStep(c)
  PROVE  StoreInv' /\ CallsOK'
<1>1. CallsOK'
  BY ReceiveType, DimCallsOK, BookCallsOK, EndCallsOK DEF CallStep, StoreInv
<1>2. StoreInv'
  BY ReadsKeepStore, StoreUnchanged, InsertDimStore, RemoveDimStore, BookStore DEF CallStep
<1> QED
  BY <1>1, <1>2

\* A restart leaves the tables and no calls.
LEMMA RestartInv ==
  ASSUME StoreInv, CallsOK, Restart
  PROVE  StoreInv' /\ CallsOK'
<1>1. StoreInv'
  BY StoreUnchanged DEF Restart
<1>2. CallsOK'
  BY DEF Restart, CallsOK, Fits, Points, Errors
<1> QED
  BY <1>1, <1>2

DimensionsInv == TypeOK /\ ReferencesHold /\ TagsHaveBooks

\* The tables are in order at first.
LEMMA InitDimensionsInv == Init => DimensionsInv
<1> SUFFICES ASSUME Init
             PROVE  ReferencesHold /\ TagsHaveBooks
  BY InitTypeOK DEF DimensionsInv
<1> QED
  BY DEF Init, ReferencesHold, TagsHaveBooks, Live

\* Every step keeps them so.
LEMMA NextDimensionsInv == DimensionsInv /\ [Next]_vars => DimensionsInv'
<1> SUFFICES ASSUME DimensionsInv, [Next]_vars
             PROVE  DimensionsInv'
  OBVIOUS
<1>1. StoreInv /\ CallsOK
  BY TypeOKParts DEF DimensionsInv, StoreInv
<1>2. CASE UNCHANGED vars
  <2>1. StoreInv' /\ CallsOK'
    BY <1>1, <1>2, StoreUnchanged DEF vars, storeVars, CallsOK
  <2>2. overtaken' \subseteq Calls /\ dirty' \subseteq Calls
    BY <1>2, TypeOKParts DEF vars, DimensionsInv
  <2> QED
    BY <2>1, <2>2 DEF DimensionsInv, StoreInv, TypeOK, StoreOK, CallsOK
<1>3. CASE Next
  <2>1. StoreInv' /\ CallsOK'
    BY <1>1, <1>3, CallStepInv, RestartInv DEF Next
  <2>2. overtaken' \subseteq Calls /\ dirty' \subseteq Calls
    BY <1>3 DEF Next, Observe
  <2> QED
    BY <2>1, <2>2 DEF DimensionsInv, StoreInv, TypeOK, StoreOK, CallsOK
<1> QED
  BY <1>2, <1>3

\* The invariant holds in every state.
LEMMA DimensionsInvariant == Spec => []DimensionsInv
BY InitDimensionsInv, NextDimensionsInv, PTL DEF Spec

\* Tables and calls keep their types.
THEOREM TypeCorrect == Spec => []TypeOK
<1>1. DimensionsInv => TypeOK
  BY DEF DimensionsInv
<1> QED
  BY <1>1, DimensionsInvariant, PTL

\* Slugs, parents and associations hold.
THEOREM ReferencesKept == Spec => []ReferencesHold
<1>1. DimensionsInv => ReferencesHold
  BY DEF DimensionsInv
<1> QED
  BY <1>1, DimensionsInvariant, PTL

\* Only books that are there have associations.
THEOREM TagsKept == Spec => []TagsHaveBooks
<1>1. DimensionsInv => TagsHaveBooks
  BY DEF DimensionsInv
<1> QED
  BY <1>1, DimensionsInvariant, PTL

-----------------------------------------------------------------------------
(* Errors.                                                                 *)

\* A call that has changed the database waits for one of the two statements
\* that come after a commit, or has failed at it.
DirtyCalls ==
    \A c \in dirty :
        \/ pc[c] = "reload"
        \/ pc[c] = "saveFields" /\ req[c].tags # <<>>
        \/ /\ pc[c] = "failed" /\ req[c].op = "createBook" /\ err[c] = "ErrReload"
        \/ /\ pc[c] = "failed" /\ req[c].op = "updateBook" /\ req[c].tags # <<>>
           /\ err[c] \in {"ErrFields", "ErrNotFound", "ErrDatabase"}

\* A step of one call leaves the others where they are.
LEMMA OthersStay ==
  ASSUME TypeOK, NEW c \in Calls, CallStep(c), NEW b \in Calls, b # c
  PROVE  pc'[b] = pc[b] /\ req'[b] = req[b] /\ found'[b] = found[b] /\ err'[b] = err[b]
BY DEF TypeOK, CallStep, Receive, SlugExists, FindParent, InsertDim, FindDim, SaveDim, CountChildren,
       CountBooks, RemoveDim, CreateTx, Reload, TagTx, SaveFields, GetBook, DeleteTx, DatabaseFails,
       Respond, GoTo, GoWith, Answer, Fail

\* Every step of a call moves it.
LEMMA MoverMoves ==
  ASSUME TypeOK, NEW c \in Calls, CallStep(c)
  PROVE  pc'[c] # pc[c]
<1>1. \A r \in Requests : Entry(r) # "idle"
  BY RequestFields DEF Entry
<1>2. ~Receive(c) => pc[c] # "idle"
  BY DEF CallStep, SlugExists, FindParent, InsertDim, FindDim, SaveDim, CountChildren,
       CountBooks, RemoveDim, CreateTx, Reload, TagTx, SaveFields, GetBook, DeleteTx, DatabaseFails,
       Respond
<1>3. CASE Receive(c)
  BY <1>1, <1>3 DEF TypeOK, Receive
<1>4. CASE ~Receive(c)
  BY <1>2, <1>4
     DEF TypeOK, CallStep, SlugExists, FindParent, InsertDim, FindDim, SaveDim, CountChildren,
       CountBooks, RemoveDim, CreateTx, Reload, TagTx, SaveFields, GetBook, DeleteTx, DatabaseFails,
       Respond, GoTo, GoWith, Answer, Fail
<1> QED
  BY <1>3, <1>4

\* A call that changes a table ends with it, or has still to reload the book or
\* to save its fields.
LEMMA ChangeIsLate ==
  ASSUME TypeOK, NEW c \in Calls, CallStep(c), storeVars' # storeVars, pc'[c] # "idle"
  PROVE  \/ pc'[c] = "reload"
         \/ pc'[c] = "saveFields" /\ req'[c].tags # <<>>
<1>1. \/ InsertDim(c) \/ RemoveDim(c) \/ CreateTx(c) \/ TagTx(c) \/ DeleteTx(c)
  BY ReadsKeepStore DEF CallStep, storeVars
<1>2. ~InsertDim(c) /\ ~RemoveDim(c) /\ ~DeleteTx(c)
  BY DEF TypeOK, InsertDim, RemoveDim, DeleteTx, Answer, storeVars
<1>3. CASE CreateTx(c)
  BY <1>3 DEF TypeOK, CreateTx, GoWith, storeVars
<1>4. CASE TagTx(c)
  BY <1>4, TypeOKParts, OpType DEF TypeOK, TagTx, GoTo, storeVars
<1> QED
  BY <1>1, <1>2, <1>3, <1>4

\* A call that has changed the database fails in these ways only.
LEMMA LateFailures ==
  ASSUME TypeOK, NEW c \in Calls, CallStep(c), DirtyCalls, c \in dirty, pc'[c] # "idle"
  PROVE  pc'[c] = "failed" /\ (\/ req'[c].op = "createBook" /\ err'[c] = "ErrReload"
                               \/ /\ req'[c].op = "updateBook" /\ req'[c].tags # <<>>
                                  /\ err'[c] \in {"ErrFields", "ErrNotFound", "ErrDatabase"})
<1>1. CASE pc[c] = "reload"
  <2>1. Reload(c) \/ DatabaseFails(c)
    BY <1>1 DEF CallStep, Receive, SlugExists, FindParent, InsertDim, FindDim, SaveDim, CountChildren,
                CountBooks, RemoveDim, CreateTx, TagTx, SaveFields, GetBook, DeleteTx, Respond
  <2> QED
    BY <1>1, <2>1, TypeOKParts, OpType DEF TypeOK, Reload, DatabaseFails, Answer, Fail
<1>2. CASE pc[c] = "saveFields" /\ req[c].tags # <<>>
  <2>1. SaveFields(c) \/ DatabaseFails(c)
    BY <1>2 DEF CallStep, Receive, SlugExists, FindParent, InsertDim, FindDim, SaveDim, CountChildren,
                CountBooks, RemoveDim, CreateTx, Reload, TagTx, GetBook, DeleteTx, Respond
  <2> QED
    BY <1>2, <2>1, TypeOKParts, OpType DEF TypeOK, SaveFields, DatabaseFails, Answer, Fail
<1>3. CASE pc[c] = "failed"
  <2>1. Respond(c)
    BY <1>3 DEF CallStep, Receive, SlugExists, FindParent, InsertDim, FindDim, SaveDim, CountChildren,
                CountBooks, RemoveDim, CreateTx, Reload, TagTx, SaveFields, GetBook, DeleteTx,
                DatabaseFails
  <2> QED
    BY <2>1 DEF TypeOK, Respond
<1> QED
  BY <1>1, <1>2, <1>3 DEF DirtyCalls

\* Every step keeps it.
LEMMA DirtyStep == TypeOK /\ DirtyCalls /\ [Next]_vars => DirtyCalls'
<1> SUFFICES ASSUME TypeOK, DirtyCalls, [Next]_vars, NEW b \in dirty'
             PROVE  \/ pc'[b] = "reload"
                    \/ pc'[b] = "saveFields" /\ req'[b].tags # <<>>
                    \/ /\ pc'[b] = "failed" /\ req'[b].op = "createBook" /\ err'[b] = "ErrReload"
                    \/ /\ pc'[b] = "failed" /\ req'[b].op = "updateBook" /\ req'[b].tags # <<>>
                       /\ err'[b] \in {"ErrFields", "ErrNotFound", "ErrDatabase"}
  BY DEF DirtyCalls
<1>1. CASE UNCHANGED vars
  BY <1>1 DEF DirtyCalls, vars
<1>2. CASE Next
  <2>1. /\ b \in Calls /\ pc'[b] # "idle"
        /\ \/ b \in dirty
           \/ pc'[b] # pc[b] /\ storeVars' # storeVars
    BY <1>2 DEF Next, Observe
  <2>2. ~Restart
    BY <2>1 DEF Restart
  <2>3. PICK c \in Calls : CallStep(c)
    BY <1>2, <2>2 DEF Next
  <2>4. CASE b # c
    BY <2>1, <2>3, <2>4, OthersStay DEF DirtyCalls
  <2>5. CASE b = c /\ b \in dirty
    BY <2>1, <2>3, <2>5, LateFailures
  <2>6. CASE b = c /\ b \notin dirty
    BY <2>1, <2>3, <2>6, ChangeIsLate
  <2> QED
    BY <2>4, <2>5, <2>6
<1> QED
  BY <1>1, <1>2

\* An error means that nothing has changed, but for the two statements after a
\* commit.
THEOREM ErrorsHold == Spec => []ErrorsLeaveNothing
<1>1. Init => DirtyCalls
  BY DEF Init, DirtyCalls
<1>2. TypeOK /\ DirtyCalls => ErrorsLeaveNothing
  BY DEF DirtyCalls, ErrorsLeaveNothing
<1> QED
  BY <1>1, <1>2, DirtyStep, TypeCorrect, PTL DEF Spec

-----------------------------------------------------------------------------
(* Deletions of dimensions.                                                *)

\* What a deletion has checked still holds, unless the call is overtaken.
ChecksHold == \A c \in Calls : c \notin overtaken => Assured(c)

\* A call that moves has just checked.
LEMMA MoverChecks ==
  ASSUME TypeOK, NEW c \in Calls, CallStep(c), Assured(c)
  PROVE  Assured(c)'
<1>1. CASE pc'[c] \notin {"books", "remove"}
  BY <1>1 DEF Assured
<1>2. CASE pc'[c] = "books"
  <2>1. CountChildren(c)
    BY <1>2, RequestFields
       DEF TypeOK, CallStep, Receive, Entry, SlugExists, FindParent, InsertDim, FindDim, SaveDim,
           CountBooks, RemoveDim, CreateTx, Reload, TagTx, SaveFields, GetBook, DeleteTx,
           DatabaseFails, Respond, GoTo, GoWith, Answer, Fail
  <2> QED
    BY <1>2, <2>1 DEF TypeOK, CountChildren, GoTo, Fail, Assured, Children, Live, storeVars
<1>3. CASE pc'[c] = "remove"
  <2>1. CountBooks(c)
    BY <1>3, RequestFields
       DEF TypeOK, CallStep, Receive, Entry, SlugExists, FindParent, InsertDim, FindDim, SaveDim,
           CountChildren, RemoveDim, CreateTx, Reload, TagTx, SaveFields, GetBook, DeleteTx,
           DatabaseFails, Respond, GoTo, GoWith, Answer, Fail
  <2> QED
    BY <1>3, <2>1 DEF TypeOK, CountBooks, GoTo, Fail, Assured, Children, Tagged, Live, storeVars
<1> QED
  BY <1>1, <1>2, <1>3

\* Every step keeps the checks of the calls that are not overtaken.
LEMMA ChecksStep == TypeOK /\ ChecksHold /\ [Next]_vars => ChecksHold'
<1> SUFFICES ASSUME TypeOK, ChecksHold, [Next]_vars, NEW b \in Calls, b \notin overtaken'
             PROVE  Assured(b)'
  BY DEF ChecksHold
<1>1. CASE UNCHANGED vars
  BY <1>1 DEF ChecksHold, Assured, Children, Tagged, Live, vars, storeVars
<1>2. CASE Next
  <2>1. CASE pc'[b] = "idle"
    BY <2>1 DEF Assured
  <2>2. CASE pc'[b] # "idle"
    <3>1. b \notin overtaken /\ Assured(b)
      BY <1>2, <2>2 DEF Next, Observe, ChecksHold
    <3>2. CASE pc'[b] = pc[b]
      BY <1>2, <2>2, <3>1, <3>2 DEF Next, Observe
    <3>3. CASE pc'[b] # pc[b]
      <4>1. ~Restart
        BY <2>2 DEF Restart
      <4>2. CallStep(b)
        BY <1>2, <3>3, <4>1, OthersStay DEF Next
      <4> QED
        BY <3>1, <4>2, MoverChecks
    <3> QED
      BY <3>2, <3>3
  <2> QED
    BY <2>1, <2>2
<1> QED
  BY <1>1, <1>2

\* Only an overtaken deletion orphans a subcategory or an association.
THEOREM OrphansHold == Spec => OnlyRacesOrphan
<1>1. Init => ChecksHold
  BY DEF Init, ChecksHold, Assured
<1>2. ChecksHold /\ [Next]_vars =>
        [\A c \in Calls : \A d \in Dims :
            /\ pc[c] = "remove" /\ pc'[c] # "remove" /\ found[c] = d /\ d \in retired' \ retired
            /\ Children(d) # {} \/ Tagged(d) # {}
            => c \in overtaken]_vars
  BY DEF ChecksHold, Assured
<1> QED
  BY <1>1, <1>2, ChecksStep, TypeCorrect, PTL DEF Spec, OnlyRacesOrphan

\* A dimension that goes has no subcategory and no book.
NothingOrphaned ==
    [][\A d \in Dims : d \in retired' \ retired => Children(d) = {} /\ Tagged(d) = {}]_vars

\* If calls come one at a time, none is overtaken.
LEMMA NoneOvertaken ==
  ASSUME \A c, d \in Calls : c = d
  PROVE  Spec => [](overtaken = {})
<1>1. Init => overtaken = {}
  BY DEF Init
<1>2. TypeOK /\ overtaken = {} /\ [Next]_vars => (overtaken = {})'
  <2> SUFFICES ASSUME TypeOK, overtaken = {}, [Next]_vars
               PROVE  overtaken' = {}
    OBVIOUS
  <2>1. CASE UNCHANGED vars
    BY <2>1 DEF vars
  <2>2. CASE Restart /\ Observe
    BY <2>2 DEF Restart, Observe
  <2>3. ASSUME NEW c \in Calls, CallStep(c), Observe
        PROVE  overtaken' = {}
    <3>1. \A d \in Calls : pc'[d] # pc[d]
      BY <2>3, MoverMoves
    <3> QED BY <2>3, <3>1 DEF Observe
  <2> QED
    BY <2>1, <2>2, <2>3 DEF Next
<1> QED
  BY <1>1, <1>2, TypeCorrect, PTL DEF Spec

\* Only the last statement of a deletion removes a dimension, the one it found.
LEMMA OnlyRemoveDimRetires ==
  ASSUME TypeOK, Next, NEW d \in retired' \ retired
  PROVE  \E c \in Calls : pc[c] = "remove" /\ found[c] = d
<1>1. PICK c \in Calls : CallStep(c)
  BY DEF Next, Restart, storeVars
<1>2. RemoveDim(c)
  BY <1>1 DEF CallStep, Receive, SlugExists, FindParent, InsertDim, FindDim, SaveDim,
              CountChildren, CountBooks, CreateTx, Reload, TagTx, SaveFields, GetBook, DeleteTx,
              DatabaseFails, Respond, storeVars
<1> QED
  BY <1>2 DEF RemoveDim

\* Calls that come one at a time orphan nothing, whatever fails or restarts
\* between the checks of a deletion and its last statement.
THEOREM SequentialDeletions ==
  ASSUME \A c, d \in Calls : c = d
  PROVE  Spec => NothingOrphaned
<1> DEFINE A == \A d \in Dims : d \in retired' \ retired => Children(d) = {} /\ Tagged(d) = {}
<1>1. TypeOK /\ ChecksHold /\ overtaken = {} /\ [Next]_vars => [A]_vars
  BY OnlyRemoveDimRetires DEF ChecksHold, Assured
<1>2. Init => ChecksHold
  BY DEF Init, ChecksHold, Assured
<1> QED
  BY <1>1, <1>2, ChecksStep, TypeCorrect, NoneOvertaken, PTL DEF Spec, NothingOrphaned

-----------------------------------------------------------------------------
(* The refinement of Taxonomy.                                             *)

\* The mapping: slugs, parents, and what books are filed under.
Slug == [d \in Dims |-> IF dim[d] = None THEN None ELSE dim[d].slug]
Parent == [d \in Dims |-> IF dim[d] = None THEN None ELSE dim[d].parent]
Filed == [b \in Books |-> {d \in Dims : \E i \in DOMAIN tags[b] : tags[b][i] = d}]

\* The same dimensions are live, and the same slugs taken.
LEMMA SameLive ==
  ASSUME TypeOK
  PROVE  /\ Classes!Live = Live
         /\ Classes!Free = Dims \ (Live \cup retired)
         /\ Classes!Unused = {s \in Slugs : WithSlug(s) = {}}
<1>1. \A d \in Dims : dim[d] # None => dim[d].slug \in Slugs /\ dim[d].slug # None
  BY DimensionsNoneAssumption DEF TypeOK, DimRows
<1>2. Classes!Live = Live
  BY <1>1 DEF Classes!Live, Live
<1> QED
  BY <1>1, <1>2 DEF Classes!Free, Classes!Unused, Live, WithSlug

\* The tables are empty at first.
LEMMA InitRefines == Init => Classes!Init
BY DEF Init, Classes!Init

\* What writes no table is a stutter.
LEMMA StoreStutters == UNCHANGED storeVars => UNCHANGED Classes!vars
BY DEF storeVars, Classes!vars

\* An insertion adds a dimension.
LEMMA InsertDimRefines ==
  ASSUME TypeOK, NEW c \in Calls, InsertDim(c), ~UNCHANGED storeVars
  PROVE  Classes!Next
<1>1. InsertAdmitted(req[c].slug, found[c])
  BY DEF InsertDim, storeVars
<1>2. PICK d \in Dims \ (Live \cup retired) :
         dim' = [dim EXCEPT ![d] = [slug |-> req[c].slug, parent |-> found[c]]]
  BY <1>1 DEF InsertDim
<1>3. req[c].slug \in Slugs
  BY TypeOKParts, OpType, Waiting, RequestFields DEF InsertDim
<1>4. dim'[d] = [slug |-> req[c].slug, parent |-> found[c]] /\ \A e \in Dims : e # d => dim'[e] = dim[e]
  BY <1>2 DEF TypeOK
<1>5. dim'[d] # None /\ dim'[d].slug = req[c].slug /\ dim'[d].parent = found[c]
  <2>1. dim'[d] \in DimRows
    BY <1>1, <1>3, <1>4 DEF DimRows, InsertAdmitted, Live
  <2> QED
    BY <1>4, <2>1, DimensionsNoneAssumption
<1>6. PICK s, p : s = req[c].slug /\ p = found[c]
  OBVIOUS
<1>7. Classes!Add(d, s, p)
  <2> d \in Dims
    BY <1>2
  <2>1. Slug' = [Slug EXCEPT ![d] = s]
    BY <1>4, <1>5, <1>6 DEF Slug
  <2>2. Parent' = [Parent EXCEPT ![d] = p]
    BY <1>4, <1>5, <1>6 DEF Parent
  <2>3. Filed' = Filed /\ retired' = retired
    BY DEF InsertDim, Filed
  <2> QED
    BY <2>1, <2>2, <2>3 DEF Classes!Add, Slug, Parent, Filed
<1>8. d \in Classes!Free /\ s \in Classes!Unused /\ p \in Classes!Live \cup {None}
  BY <1>1, <1>2, <1>3, <1>6, SameLive DEF InsertAdmitted
<1> QED
  BY <1>7, <1>8 DEF Classes!Next

\* A deletion drops one.
LEMMA RemoveDimRefines ==
  ASSUME TypeOK, NEW c \in Calls, RemoveDim(c), ~UNCHANGED storeVars
  PROVE  Classes!Next
<1>1. found[c] \in Live
  BY DEF RemoveDim, storeVars
<1> DEFINE d == found[c]
<1>2. /\ dim' = [e \in Dims |-> IF e = d THEN None
                                ELSE IF e \in Children(d) THEN [dim[e] EXCEPT !.parent = None]
                                ELSE dim[e]]
      /\ retired' = retired \cup {d}
      /\ tags' = [b \in Books |-> Cut(tags[b], d)]
      /\ d \in Live
  BY <1>1 DEF RemoveDim
<1> HIDE DEF d
<1>3. None \notin DimRows
  BY DimensionsNoneAssumption
<1>4. \A e \in Dims : dim[e] # None /\ e # d =>
        /\ dim'[e] # None
        /\ dim'[e].slug = dim[e].slug
        /\ dim'[e].parent = IF dim[e].parent = d THEN None ELSE dim[e].parent
  <2>1. \A e \in Dims : dim[e] # None => dim[e] \in DimRows
    BY DEF TypeOK
  <2>2. \A e \in Dims : dim[e] # None /\ e # d => dim'[e] \in DimRows
    BY <1>2, <2>1 DEF DimRows
  <2> QED
    BY <1>2, <1>3, <2>1, <2>2 DEF DimRows, Children, Live
<1>5. dim'[d] = None /\ \A e \in Dims : dim[e] = None => dim'[e] = None
  BY <1>2 DEF Children, Live
<1>6. d # None
  BY <1>2, DimensionsNoneAssumption DEF Live
<1>7. Slug' = [Slug EXCEPT ![d] = None]
  BY <1>2, <1>4, <1>5 DEF Slug
<1>8. Parent' = [e \in Dims |-> IF e = d \/ Parent[e] = d THEN None ELSE Parent[e]]
  BY <1>2, <1>4, <1>5, <1>6 DEF Parent
<1>9. Filed' = [b \in Books |-> Filed[b] \ {d}]
  <2>1. \A b \in Books : tags[b] \in Seq(Dims \cup {None}) /\ tags'[b] = Cut(tags[b], d)
    BY <1>2 DEF TypeOK
  <2>2. ASSUME NEW b \in Books, NEW e \in Dims
        PROVE  (\E i \in DOMAIN tags'[b] : tags'[b][i] = e)
                 <=> e # d /\ \E i \in DOMAIN tags[b] : tags[b][i] = e
    BY <2>1, CutType, DimensionsNoneAssumption
  <2> QED
    BY <2>2 DEF Filed
<1>10. Classes!Drop(d)
  BY <1>2, <1>7, <1>8, <1>9 DEF Classes!Drop, Slug, Parent, Filed
<1>11. d \in Classes!Live
  BY <1>2, SameLive
<1> QED
  BY <1>10, <1>11 DEF Classes!Next, Classes!Drop

\* The transactions on books file one.
LEMMA BookRefines ==
  ASSUME TypeOK, NEW c \in Calls, CreateTx(c) \/ TagTx(c) \/ DeleteTx(c), ~UNCHANGED storeVars
  PROVE  Classes!Next
<1>1. PICK b \in Books, list \in Seq(Dims \cup {None}) :
        /\ tags' = [tags EXCEPT ![b] = list]
        /\ \A i \in DOMAIN list : list[i] \in Live
  <2>1. CASE CreateTx(c)
    BY <2>1, TypeOKParts, OpType, Waiting, RequestFields, ResolveType DEF CreateTx, storeVars
  <2>2. CASE TagTx(c)
    BY <2>2, TypeOKParts, OpType, Waiting, RequestFields, ResolveType DEF TagTx, storeVars
  <2>3. CASE DeleteTx(c)
    <3>1. <<>> \in Seq(Dims \cup {None}) /\ DOMAIN <<>> = {}
      OBVIOUS
    <3>2. req[c].book \in Books /\ tags' = [tags EXCEPT ![req[c].book] = <<>>]
      BY <2>3 DEF DeleteTx, Shelved, storeVars
    <3> QED
      BY <3>1, <3>2
  <2> QED
    BY <2>1, <2>2, <2>3
<1> DEFINE ds == {d \in Dims : \E i \in DOMAIN list : list[i] = d}
<1>2. ds \in SUBSET Live
  BY <1>1
<1>3. UNCHANGED <<dim, retired>>
  BY DEF CreateTx, TagTx, DeleteTx
<1>4. Filed' = [Filed EXCEPT ![b] = ds]
  BY <1>1 DEF Filed, TypeOK
<1>5. Classes!File(b, ds)
  BY <1>3, <1>4 DEF Classes!File, Filed
<1> QED
  BY <1>2, <1>5, SameLive DEF Classes!Next

\* Every step is one of Taxonomy or a stutter.
LEMMA StepRefines == TypeOK /\ [Next]_vars => [Classes!Next]_Classes!vars
<1> SUFFICES ASSUME TypeOK, [Next]_vars
             PROVE  Classes!Next \/ UNCHANGED Classes!vars
  OBVIOUS
<1>1. CASE UNCHANGED storeVars
  BY <1>1, StoreStutters
<1>2. CASE ~UNCHANGED storeVars
  <2>1. Next
    BY <1>2 DEF vars, storeVars
  <2>2. PICK c \in Calls : CallStep(c)
    BY <1>2, <2>1 DEF Next, Restart
  <2>3. \/ InsertDim(c) \/ RemoveDim(c) \/ CreateTx(c) \/ TagTx(c) \/ DeleteTx(c)
    BY <1>2, <2>2, ReadsKeepStore DEF CallStep
  <2> QED
    BY <1>2, <2>3, InsertDimRefines, RemoveDimRefines, BookRefines
<1> QED
  BY <1>1, <1>2

\* The service implements Taxonomy.
THEOREM RefinesTaxonomy == Spec => ImplementsTaxonomy
BY InitRefines, StepRefines, TypeCorrect, PTL DEF Spec, ImplementsTaxonomy, Classes!Spec

=============================================================================
