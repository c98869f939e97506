----------------------------- MODULE Dimensions ----------------------------
(***************************************************************************)
(* Dimensions and the books filed under them: CreateDimension,             *)
(* UpdateDimension and DeleteDimension (backend/handler/dimension.go,      *)
(* service/dimension.go, repository/dimension.go), and CreateBook,         *)
(* UpdateBook and DeleteBook (backend/handler/book.go, service/book.go,    *)
(* repository/book.go), which write the associations.                      *)
(*                                                                         *)
(* The dimension operations check with one statement and write with        *)
(* another.  Those on books write in a transaction, and UpdateBook writes  *)
(* once more after it.  A transaction is one step: on SQLite its first     *)
(* statement is a write, so that it holds the write lock until it ends.    *)
(* The indexes and foreign keys the schema declares are the only other     *)
(* protection.  Reads that change nothing are left out, and so are roles.  *)
(***************************************************************************)
EXTENDS Naturals, Sequences, FiniteSets

CONSTANTS
    Dims,       \* dimension ids
    Slugs,
    Books,      \* book ids
    Calls,      \* goroutines: how many RPCs can be in flight
    TagLists,   \* the lists of slugs clients send
    Faults,     \* TRUE: the database fails and the process restarts
    None

ASSUME DimensionsFaultsAssumption == Faults \in BOOLEAN
ASSUME TagListsAssumption == TagLists \subseteq Seq(Slugs)

VARIABLES
    dim,        \* the row of each dimension: [slug, parent], or None
    retired,    \* ids of deleted dimensions: a UUID never comes back
    book,       \* "absent", "shelved" or "deleted"
    tags,       \* the associations of each book, the primary one first
    pc,         \* control point of each call
    req,        \* its request
    found,      \* the row it looked up: the dimension, or the parent
    err,        \* the error it returns, "nil" when it has none
    (* History, read by no guard: *)
    overtaken,  \* deletions of which a check has come untrue through another call
    dirty       \* calls that have changed the database

storeVars == <<dim, retired, book, tags>>
vars == <<dim, retired, book, tags, pc, req, found, err, overtaken, dirty>>

DimRows == [slug : Slugs, parent : Dims \cup {None}]

ASSUME DimensionsNoneAssumption == None \notin Dims \cup Slugs \cup Books \cup DimRows

Errors == {"nil", "ErrConflict", "ErrParent", "ErrConstraint", "ErrNotFound", "ErrSubcategories",
           "ErrBooks", "ErrDimension", "ErrAssociate", "ErrFields", "ErrReload", "ErrDatabase"}

DimRequests ==
    [op : {"createDim"}, slug : Slugs, parent : Slugs \cup {None}]
        \cup [op : {"updateDim", "deleteDim"}, slug : Slugs]
\* The fields of an update are valid when the schema accepts them.
BookRequests ==
    [op : {"createBook"}, tags : TagLists]
        \cup [op : {"updateBook"}, book : Books, tags : TagLists, valid : BOOLEAN]
        \cup [op : {"deleteBook"}, book : Books]
Requests == DimRequests \cup BookRequests

-----------------------------------------------------------------------------
(* The tables.                                                             *)

Live == {d \in Dims : dim[d] # None}
Shelved == {b \in Books : book[b] = "shelved"}

\* Where(dimension.Slug(s)).Only.
WithSlug(s) == {d \in Live : dim[d].slug = s}
Children(d) == {e \in Live : dim[e].parent = d}
Tagged(d) == {b \in Books : \E i \in DOMAIN tags[b] : tags[b][i] = d}

\* Fault: the slug has no unique index, the parent no foreign key.
InsertUnchecked(s, p) == TRUE

\* The unique index on the slug and the foreign key on the parent.
InsertAdmitted(s, p) == WithSlug(s) = {} /\ p \in Live \cup {None}

\* The slugs of a list, looked up one after another in the transaction.
Resolves(slugs) == \A i \in DOMAIN slugs : WithSlug(slugs[i]) # {}
Resolve(slugs) == [i \in DOMAIN slugs |-> CHOOSE d \in WithSlug(slugs[i]) : TRUE]

\* What the deletion of d leaves of a list: join rows are deleted with it,
\* the association rows they belong to are not.
Cut(list, d) == [i \in DOMAIN list |-> IF list[i] = d THEN None ELSE list[i]]

-----------------------------------------------------------------------------
Init ==
    /\ dim = [d \in Dims |-> None]
    /\ retired = {}
    /\ book = [b \in Books |-> "absent"]
    /\ tags = [b \in Books |-> <<>>]
    /\ pc = [c \in Calls |-> "idle"]
    /\ req = [c \in Calls |-> None]
    /\ found = [c \in Calls |-> None]
    /\ err = [c \in Calls |-> "nil"]
    /\ overtaken = {} /\ dirty = {}

GoTo(c, next) == pc' = [pc EXCEPT ![c] = next] /\ UNCHANGED <<req, found, err>>
GoWith(c, next, x) ==
    /\ pc' = [pc EXCEPT ![c] = next]
    /\ found' = [found EXCEPT ![c] = x]
    /\ UNCHANGED <<req, err>>

\* The end of a call that succeeds, and of one that returns an error.
Answer(c) ==
    /\ pc' = [pc EXCEPT ![c] = "idle"]
    /\ req' = [req EXCEPT ![c] = None]
    /\ found' = [found EXCEPT ![c] = None]
    /\ UNCHANGED err
Fail(c, e) ==
    /\ pc' = [pc EXCEPT ![c] = "failed"]
    /\ found' = [found EXCEPT ![c] = None]
    /\ err' = [err EXCEPT ![c] = e]
    /\ UNCHANGED req

\* Fault: an update without a list opens the transaction of associations.
EntryAlwaysTags(r) ==
    CASE r.op = "createDim"  -> "exists"
      [] r.op \in {"updateDim", "deleteDim"} -> "find"
      [] r.op = "createBook" -> "createTx"
      [] r.op = "updateBook" -> "tagTx"
      [] r.op = "deleteBook" -> "getBook"

\* The first statement of each operation.
Entry(r) ==
    CASE r.op = "createDim"  -> "exists"
      [] r.op \in {"updateDim", "deleteDim"} -> "find"
      [] r.op = "createBook" -> "createTx"
      [] r.op = "updateBook" -> IF r.tags = <<>> THEN "saveFields" ELSE "tagTx"
      [] r.op = "deleteBook" -> "getBook"

Receive(c) ==
    /\ pc[c] = "idle"
    /\ \E r \in Requests :
          /\ r.op \in {"updateBook", "deleteBook"} => book[r.book] # "absent"
          /\ req' = [req EXCEPT ![c] = r]
          /\ pc' = [pc EXCEPT ![c] = Entry(r)]
    /\ UNCHANGED <<storeVars, found, err>>

-----------------------------------------------------------------------------
(* Dimensions.                                                             *)

SlugExists(c) ==
    /\ pc[c] = "exists"
    /\ IF WithSlug(req[c].slug) # {} THEN Fail(c, "ErrConflict")
       ELSE GoTo(c, IF req[c].parent = None THEN "insert" ELSE "parent")
    /\ UNCHANGED storeVars

\* The parent may itself have a parent.
FindParent(c) ==
    /\ pc[c] = "parent"
    /\ IF WithSlug(req[c].parent) = {} THEN Fail(c, "ErrParent")
       ELSE \E p \in WithSlug(req[c].parent) : GoWith(c, "insert", p)
    /\ UNCHANGED storeVars

InsertDim(c) ==
    /\ pc[c] = "insert"
    /\ IF InsertAdmitted(req[c].slug, found[c])
       THEN /\ \E d \in Dims \ (Live \cup retired) :
                  dim' = [dim EXCEPT ![d] =
                             [slug |-> req[c].slug, parent |-> found[c]]]
            /\ Answer(c)
       ELSE Fail(c, "ErrConstraint") /\ UNCHANGED dim
    /\ UNCHANGED <<retired, book, tags>>

\* GetBySlug of Update and Delete.
FindDim(c) ==
    /\ pc[c] = "find"
    /\ IF WithSlug(req[c].slug) = {} THEN Fail(c, "ErrNotFound")
       ELSE \E d \in WithSlug(req[c].slug) :
            GoWith(c, IF req[c].op = "updateDim" THEN "saveDim" ELSE "children", d)
    /\ UNCHANGED storeVars

\* UPDATE ... WHERE id: the slug and the parent stay, names are not modelled.
SaveDim(c) ==
    /\ pc[c] = "saveDim"
    /\ IF found[c] \in Live THEN Answer(c) ELSE Fail(c, "ErrNotFound")
    /\ UNCHANGED storeVars

\* Fault: children are not looked for.
CountNoChildren(c) ==
    /\ pc[c] = "children"
    /\ GoTo(c, "books")
    /\ UNCHANGED storeVars

CountChildren(c) ==
    /\ pc[c] = "children"
    /\ IF Children(found[c]) # {} THEN Fail(c, "ErrSubcategories") ELSE GoTo(c, "books")
    /\ UNCHANGED storeVars

CountBooks(c) ==
    /\ pc[c] = "books"
    /\ IF Tagged(found[c]) # {} THEN Fail(c, "ErrBooks") ELSE GoTo(c, "remove")
    /\ UNCHANGED storeVars

\* DELETE ... WHERE id: children lose their parent (SET NULL), associations
\* their dimension (CASCADE on the join table).
RemoveDim(c) ==
    LET d == found[c] IN
    /\ pc[c] = "remove"
    /\ IF d \in Live
       THEN /\ dim' = [e \in Dims |->
                          IF e = d THEN None
                          ELSE IF e \in Children(d) THEN [dim[e] EXCEPT !.parent = None]
                          ELSE dim[e]]
            /\ retired' = retired \cup {d}
            /\ tags' = [b \in Books |-> Cut(tags[b], d)]
            /\ Answer(c)
       ELSE Fail(c, "ErrNotFound") /\ UNCHANGED <<dim, retired, tags>>
    /\ UNCHANGED <<book>>

-----------------------------------------------------------------------------
(* Books.                                                                  *)

\* Fault: the book is inserted before the transaction begins.
CreateBookLoose(c) ==
    /\ pc[c] = "createTx"
    /\ \E b \in Books :
          /\ book[b] = "absent"
          /\ book' = [book EXCEPT ![b] = "shelved"]
          /\ IF Resolves(req[c].tags)
             THEN tags' = [tags EXCEPT ![b] = Resolve(req[c].tags)] /\ GoWith(c, "reload", b)
             ELSE Fail(c, "ErrDimension") /\ UNCHANGED tags
    /\ UNCHANGED <<dim, retired>>

\* The transaction of Create: the book and all its associations, or nothing.
CreateTx(c) ==
    /\ pc[c] = "createTx"
    /\ IF Resolves(req[c].tags)
       THEN \E b \in Books :
              /\ book[b] = "absent"
              /\ book' = [book EXCEPT ![b] = "shelved"]
              /\ tags' = [tags EXCEPT ![b] = Resolve(req[c].tags)]
              /\ GoWith(c, "reload", b)
       ELSE Fail(c, "ErrDimension") /\ UNCHANGED <<book, tags>>
    /\ UNCHANGED <<dim, retired>>

\* GetByID after the commit: the book may already be gone.
Reload(c) ==
    /\ pc[c] = "reload"
    /\ IF found[c] \in Shelved THEN Answer(c) ELSE Fail(c, "ErrReload")
    /\ UNCHANGED storeVars

\* Fault: associations are written for a book that is not there.
TagTxUnchecked(c) ==
    /\ pc[c] = "tagTx"
    /\ IF ~Resolves(req[c].tags) THEN Fail(c, "ErrDimension") /\ UNCHANGED tags
       ELSE tags' = [tags EXCEPT ![req[c].book] = Resolve(req[c].tags)] /\ GoTo(c, "saveFields")
    /\ UNCHANGED <<dim, retired, book>>

\* The transaction of Update: the foreign key on the book refuses the first
\* new association of a book that is gone.
TagTx(c) ==
    /\ pc[c] = "tagTx"
    /\ IF WithSlug(Head(req[c].tags)) # {} /\ req[c].book \notin Shelved
       THEN Fail(c, "ErrAssociate") /\ UNCHANGED tags
       ELSE IF ~Resolves(req[c].tags) THEN Fail(c, "ErrDimension") /\ UNCHANGED tags
       ELSE tags' = [tags EXCEPT ![req[c].book] = Resolve(req[c].tags)] /\ GoTo(c, "saveFields")
    /\ UNCHANGED <<dim, retired, book>>

\* update.Save, outside the transaction and after it; ent checks the fields
\* before it runs UPDATE books.
SaveFields(c) ==
    /\ pc[c] = "saveFields"
    /\ IF ~req[c].valid THEN Fail(c, "ErrFields")
       ELSE IF req[c].book \notin Shelved THEN Fail(c, "ErrNotFound")
       ELSE Answer(c)
    /\ UNCHANGED storeVars

\* BookService.Delete; file_path is never set, so that no file is removed.
GetBook(c) ==
    /\ pc[c] = "getBook"
    /\ IF req[c].book \in Shelved THEN GoTo(c, "deleteTx") ELSE Fail(c, "ErrNotFound")
    /\ UNCHANGED storeVars

DeleteTx(c) ==
    /\ pc[c] = "deleteTx"
    /\ IF req[c].book \in Shelved
       THEN /\ book' = [book EXCEPT ![req[c].book] = "deleted"]
            /\ tags' = [tags EXCEPT ![req[c].book] = <<>>]
            /\ Answer(c)
       ELSE Fail(c, "ErrNotFound") /\ UNCHANGED <<book, tags>>
    /\ UNCHANGED <<dim, retired>>

-----------------------------------------------------------------------------
(* Failures, and the end of a call.                                        *)

\* The database refuses a statement; a transaction is rolled back.
DatabaseFails(c) ==
    /\ Faults
    /\ pc[c] \notin {"idle", "failed"}
    /\ Fail(c, IF pc[c] = "reload" THEN "ErrReload" ELSE "ErrDatabase")
    /\ UNCHANGED storeVars

Respond(c) ==
    /\ pc[c] = "failed"
    /\ pc' = [pc EXCEPT ![c] = "idle"]
    /\ req' = [req EXCEPT ![c] = None]
    /\ err' = [err EXCEPT ![c] = "nil"]
    /\ UNCHANGED <<storeVars, found>>

\* The process dies and starts again on the same database.
Restart ==
    /\ Faults
    /\ \E c \in Calls : pc[c] # "idle"
    /\ pc' = [c \in Calls |-> "idle"]
    /\ req' = [c \in Calls |-> None]
    /\ found' = [c \in Calls |-> None]
    /\ err' = [c \in Calls |-> "nil"]
    /\ UNCHANGED storeVars

\* What the checks of a deletion have established and the deletion relies on.
Assured(c) ==
    /\ pc[c] \in {"books", "remove"} => Children(found[c]) = {}
    /\ pc[c] = "remove" => Tagged(found[c]) = {}

\* A call is overtaken when what it relies on is true before a step of another
\* call and false after it.
Observe ==
    /\ overtaken' = {c \in Calls : /\ pc'[c] # "idle"
                                   /\ \/ c \in overtaken
                                      \/ pc'[c] = pc[c] /\ Assured(c) /\ ~Assured(c)'}
    /\ dirty' = {c \in Calls : /\ pc'[c] # "idle"
                               /\ \/ c \in dirty
                                  \/ pc'[c] # pc[c] /\ storeVars' # storeVars}

CallStep(c) ==
    \/ Receive(c)
    \/ SlugExists(c) \/ FindParent(c) \/ InsertDim(c)
    \/ FindDim(c) \/ SaveDim(c) \/ CountChildren(c) \/ CountBooks(c) \/ RemoveDim(c)
    \/ CreateTx(c) \/ Reload(c) \/ TagTx(c) \/ SaveFields(c) \/ GetBook(c) \/ DeleteTx(c)
    \/ DatabaseFails(c) \/ Respond(c)

Next == ((\E c \in Calls : CallStep(c)) \/ Restart) /\ Observe

Spec == Init /\ [][Next]_vars

-----------------------------------------------------------------------------
(* What holds.                                                             *)

\* The operations that reach each control point.
OpsAt(p) ==
    CASE p \in {"exists", "parent", "insert"} -> {"createDim"}
      [] p = "find"                           -> {"updateDim", "deleteDim"}
      [] p = "saveDim"                        -> {"updateDim"}
      [] p \in {"children", "books", "remove"} -> {"deleteDim"}
      [] p \in {"createTx", "reload"}         -> {"createBook"}
      [] p \in {"tagTx", "saveFields"}        -> {"updateBook"}
      [] p \in {"getBook", "deleteTx"}        -> {"deleteBook"}
Points == {"exists", "parent", "insert", "find", "saveDim", "children", "books", "remove",
           "createTx", "reload", "tagTx", "saveFields", "getBook", "deleteTx"}

\* A call at p has the request r and has looked up the row f that p needs.
Fits(p, r, f) ==
    /\ IF p = "idle" THEN r = None ELSE r \in Requests
    /\ p \in Points => r.op \in OpsAt(p)
    /\ p = "tagTx" => r.tags # <<>>
    /\ CASE p = "insert" -> f \in Dims \cup {None}
         [] p \in {"saveDim", "children", "books", "remove"} -> f \in Dims
         [] p = "reload" -> f \in Books
         [] OTHER        -> f = None

\* Every variable keeps its type, and every call what its control point needs.
TypeOK ==
    /\ dim \in [Dims -> DimRows \cup {None}]
    /\ retired \subseteq Dims /\ retired \cap Live = {}
    /\ book \in [Books -> {"absent", "shelved", "deleted"}]
    /\ tags \in [Books -> Seq(Dims \cup {None})]
    /\ pc \in [Calls -> Points \cup {"idle", "failed"}]
    /\ req \in [Calls -> Requests \cup {None}]
    /\ found \in [Calls -> Dims \cup Books \cup {None}]
    /\ err \in [Calls -> Errors]
    /\ overtaken \subseteq Calls /\ dirty \subseteq Calls
    /\ \A c \in Calls : Fits(pc[c], req[c], found[c])

\* Dimensions never share a slug, and every parent and every association is a
\* live dimension, although no check is made in the statement that writes
\* (service/dimension.go:87-103 checks first, the schema decides).
ReferencesHold ==
    /\ \A d, e \in Live : dim[d].slug = dim[e].slug => d = e
    /\ \A d \in Live : dim[d].parent \in Live \cup {None}
    /\ \A b \in Books : \A i \in DOMAIN tags[b] : tags[b][i] \in Live \cup {None}

\* A book that is not there has no associations, whatever updates were under
\* way when it was deleted (repository/book.go:312-347 against 357-379).
TagsHaveBooks == \A b \in Books : tags[b] # <<>> => b \in Shelved

\* A client is told of an error although the database has changed in two
\* cases only: a book was created and not reloaded, or an update with a list
\* of dimensions failed at the fields (repository/book.go:98 and 349).
ErrorsLeaveNothing ==
    \A c \in Calls :
        pc[c] = "failed" /\ c \in dirty =>
            \/ req[c].op = "createBook" /\ err[c] = "ErrReload"
            \/ /\ req[c].op = "updateBook" /\ req[c].tags # <<>>
               /\ err[c] \in {"ErrFields", "ErrNotFound", "ErrDatabase"}

\* Subcategories lose their parent and books their dimension only when they
\* came in after the deletion had looked for them (repository/dimension.go:105-131).
OnlyRacesOrphan ==
    [][\A c \in Calls : \A d \in Dims :
          /\ pc[c] = "remove" /\ pc'[c] # "remove" /\ found[c] = d /\ d \in retired' \ retired
          /\ Children(d) # {} \/ Tagged(d) # {}
          => c \in overtaken]_vars

\* The service implements Taxonomy: what a book is filed under are the
\* dimensions its associations still have.
Classes == INSTANCE Taxonomy WITH
              slug <- [d \in Dims |-> IF dim[d] = None THEN None ELSE dim[d].slug],
              parent <- [d \in Dims |-> IF dim[d] = None THEN None ELSE dim[d].parent],
              filed <- [b \in Books |-> {d \in Dims : \E i \in DOMAIN tags[b] : tags[b][i] = d}]
ImplementsTaxonomy == Classes!Spec

=============================================================================
