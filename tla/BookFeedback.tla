---------------------------- MODULE BookFeedback ----------------------------
(***************************************************************************)
(* Favorites and feedback: FavoriteBook, UnfavoriteBook, GetFavorite,      *)
(* SubmitFeedback and GetFeedbackStats (backend/handler/book.go) over      *)
(* BookFavoriteService, BookFeedbackService and their repositories.        *)
(*                                                                         *)
(* Neither table has a unique index.  That a user has one favorite of a    *)
(* book and one feedback of a kind rests on a query that runs before the   *)
(* insert, in a database call of its own.  Calls of one user overlap (two  *)
(* tabs, a double click, a client that retries) and every database call    *)
(* may fail; the book may be deleted between any two of them.              *)
(***************************************************************************)
EXTENDS Integers, Sequences, FiniteSets

CONSTANTS
    Users, Books,   \* ids
    Calls,          \* goroutines: how many RPCs can be in flight
    Ratings,        \* the difficulty ratings clients try, legal or not
    MaxRows,        \* bound: nobody asks for a row once the tables hold this many
    Faults,         \* TRUE: database calls fail
    None

Kinds == {"read_start", "read_complete", "difficulty_rating", "use_scenario"}

CONSTANT UsedKinds  \* the kinds of feedback clients submit

ASSUME UsersAssumption == IsFiniteSet(Users)
ASSUME KindsAssumption == UsedKinds \subseteq Kinds
ASSUME RatingsAssumption == Ratings \subseteq Int
ASSUME MaxRowsAssumption == MaxRows \in Nat \ {0}
ASSUME FeedbackFaultsAssumption == Faults \in BOOLEAN

VARIABLES
    books,      \* the books that exist
    favorites,  \* rows of book_favorites of each user and book; they differ in
                \* nothing but their id and age
    feedbacks,  \* rows of book_feedbacks of each user, book and kind, by age
    pc, req,    \* control point and request of each call
    stats,      \* what GetFeedbackStats has computed
    err,        \* the error a call returns, "nil" when it has none
    (* History, read by no guard: *)
    behind,     \* calls whose last query has failed or an insert has overtaken
    touched,    \* per call, the keys it relies on that others have written
                \* meanwhile, or that it has failed to write itself
    unsure      \* keys a row was added to by a call that was behind

tables == <<books, favorites, feedbacks>>
history == <<behind, touched, unsure>>
vars == <<books, favorites, feedbacks, pc, req, stats, err,
          behind, touched, unsure>>

\* What a rating or a scenario can be: a rating is its number, a scenario is 1,
\* or 0 for the empty text, and a reading mark has no value.
ValuesOf(kind) ==
    CASE kind = "difficulty_rating" -> Ratings
      [] kind = "use_scenario" -> {0, 1}
      [] OTHER -> {0}

Feedbacks == UNION {[kind : {k}, value : ValuesOf(k)] : k \in UsedKinds}
Requests ==
    [op : {"favorite", "unfavorite", "check", "stats"}, user : Users, book : Books]
    \cup [op : {"feedback"}, user : Users, book : Books, feedback : Feedbacks]

\* The rows a call reads and writes: a user's favorites of a book, and for a
\* submission the user's feedback of its kind.
FavoriteKeys == Users \X Books \X {"favorite"}
FeedbackKeys == Users \X Books \X Kinds
FavoriteKey(r) == <<r.user, r.book, "favorite">>
FeedbackKey(r) == <<r.user, r.book, r.feedback.kind>>

Stats == [favorites : Nat, read : Nat, sum : Int, rated : Nat]
NoStats == [favorites |-> 0, read |-> 0, sum |-> 0, rated |-> 0]
Errors == {"nil", "book not found", "favorite not found", "invalid feedback", "database"}

-----------------------------------------------------------------------------
\* Fault: a rating is checked against the lower bound only.
ValidWithoutUpperBound(f) ==
    CASE f.kind = "difficulty_rating" -> f.value >= 1
      [] f.kind = "use_scenario" -> f.value # 0
      [] OTHER -> TRUE

\* SubmitFeedback's validation.
Valid(f) ==
    CASE f.kind = "difficulty_rating" -> f.value \in 1..5
      [] f.kind = "use_scenario" -> f.value # 0
      [] OTHER -> TRUE

\* Fault: the query looks for another column and finds nothing.
OnlyMisses(n) == n < 0

\* What Only makes of n rows: exactly one is a result.  None and several are
\* both an error, and the callers take any error for "there is none".
Only(n) == n = 1

\* existing.Update(): the row the query found, the oldest, takes the new value.
Updated(rows, f) == [rows EXCEPT ![1] = f.value]

\* Fault: a removal takes one row.
RemainingOfOne(n) == n - 1

\* Rows that Delete ... Where(user, book) leaves of n.
Remaining(n) == 0

\* Rows of all users for a book, as pairs of a key and a position.
RowsOf(b, kind) ==
    UNION {{<<u, i>> : i \in DOMAIN feedbacks[<<u, b, kind>>]} : u \in Users}

\* Rows GetBookStats averages; a rating of 0 is no rating.
RatedRows(b) ==
    {p \in RowsOf(b, "difficulty_rating") :
        feedbacks[<<p[1], b, "difficulty_rating">>][p[2]] > 0}

Sums == INSTANCE FiniteSetsExt
Total(f) == Sums!MapThenSumSet(LAMBDA x : f[x], DOMAIN f)
RatingSum(b) ==
    Total([p \in RatedRows(b) |-> feedbacks[<<p[1], b, "difficulty_rating">>][p[2]]])
FavoriteRows(b) == Total([u \in Users |-> favorites[<<u, b, "favorite">>]])
ReadRows(b) == Cardinality(RowsOf(b, "read_complete"))

-----------------------------------------------------------------------------
Init ==
    /\ books = Books
    /\ favorites = [k \in FavoriteKeys |-> 0]
    /\ feedbacks = [k \in FeedbackKeys |-> <<>>]
    /\ pc = [c \in Calls |-> "idle"]
    /\ req = [c \in Calls |-> None]
    /\ stats = [c \in Calls |-> NoStats]
    /\ err = [c \in Calls |-> "nil"]
    /\ behind = {}
    /\ touched = [c \in Calls |-> {}]
    /\ unsure = {}

GoTo(c, next) == pc' = [pc EXCEPT ![c] = next] /\ UNCHANGED err

Finish(c, e) ==
    /\ pc' = [pc EXCEPT ![c] = "done"]
    /\ err' = [err EXCEPT ![c] = e]

\* The calls that look at what c writes: those of its user on its book, and the
\* statistics of the book.
Others(c) == {d \in Calls \ {c} : /\ pc[d] # "idle" /\ req[d].book = req[c].book
                                  /\ req[d].user = req[c].user \/ req[d].op = "stats"}

\* History of a write of c to key k.
Touch(c, k) == touched' = [d \in Calls |-> touched[d] \cup (IF d \in Others(c) THEN {k} ELSE {})]

\* History of an insert of c into k, which overtakes the calls at its own point.
Overtake(c, k) ==
    /\ Touch(c, k)
    /\ behind' = (behind \ {c}) \cup
          {d \in Others(c) : pc[d] = pc[c] /\ (pc[d] = "insertFeedback" => FeedbackKey(req[d]) = k)}
    /\ unsure' = unsure \cup (IF c \in behind THEN {k} ELSE {})

\* Where the handlers begin.
Receive(c) ==
    /\ pc[c] = "idle"
    /\ \E r \in Requests :
          /\ r.op \in {"favorite", "feedback"} =>
                Total(favorites) + Total([k \in FeedbackKeys |-> Len(feedbacks[k])]) < MaxRows
          /\ req' = [req EXCEPT ![c] = r]
          /\ GoTo(c, CASE r.op \in {"favorite", "feedback"} -> "book"
                        [] r.op \in {"unfavorite", "check"} -> "exists"
                        [] r.op = "stats" -> "countFavorites")
    /\ UNCHANGED <<tables, stats, history>>

\* bookRepo.GetByID, then the validation of a submission.
FindBook(c) ==
    LET r == req[c]
    IN  /\ pc[c] = "book"
        /\ IF r.book \notin books THEN Finish(c, "book not found")
           ELSE IF r.op = "favorite" THEN GoTo(c, "exists")
           ELSE IF Valid(r.feedback) THEN GoTo(c, "queryFavorite")
           ELSE Finish(c, "invalid feedback")
        /\ UNCHANGED <<tables, req, stats, history>>

-----------------------------------------------------------------------------
(* Favorites.                                                              *)

\* favRepo.Exists.  A favorite that exists already is answered like a new one.
Exists(c) ==
    LET r == req[c]
        n == favorites[FavoriteKey(r)]
    IN  /\ pc[c] = "exists"
        /\ CASE r.op = "check" -> Finish(c, "nil")
             [] r.op = "favorite" ->
                  IF n > 0 THEN Finish(c, "nil") ELSE GoTo(c, "queryFavorite")
             [] r.op = "unfavorite" ->
                  IF n > 0 THEN GoTo(c, "clear") ELSE Finish(c, "favorite not found")
        /\ UNCHANGED <<tables, req, stats, history>>

\* Where favRepo.Create returns to.
AfterFavorite(c) == IF req[c].op = "favorite" THEN Finish(c, "nil") ELSE GoTo(c, "queryFeedback")

\* Fault: an error of the query is returned, and it is one when there is no row.
QueryFavoriteOrFail(c) ==
    /\ pc[c] = "queryFavorite"
    /\ IF Only(favorites[FavoriteKey(req[c])]) \/ req[c].op = "feedback" THEN AfterFavorite(c)
       ELSE Finish(c, "database")
    /\ UNCHANGED <<tables, req, stats, history>>

\* The query of favRepo.Create.
QueryFavorite(c) ==
    /\ pc[c] = "queryFavorite"
    /\ IF Only(favorites[FavoriteKey(req[c])]) THEN AfterFavorite(c) ELSE GoTo(c, "insertFavorite")
    /\ UNCHANGED <<tables, req, stats, history>>

\* The insert of favRepo.Create.
InsertFavorite(c) ==
    LET k == FavoriteKey(req[c])
    IN  /\ pc[c] = "insertFavorite"
        /\ favorites' = [favorites EXCEPT ![k] = @ + 1]
        /\ AfterFavorite(c)
        /\ Overtake(c, k)
        /\ UNCHANGED <<books, feedbacks, req, stats>>

\* favRepo.Delete: all rows of the user and the book, so no duplicate is left.
Clear(c) ==
    LET k == FavoriteKey(req[c])
    IN  /\ pc[c] = "clear"
        /\ favorites' = [favorites EXCEPT ![k] = Remaining(@)]
        /\ Finish(c, "nil")
        /\ Touch(c, k)
        /\ unsure' = unsure \ {k}
        /\ UNCHANGED <<books, feedbacks, req, stats, behind>>

-----------------------------------------------------------------------------
(* Feedback.                                                               *)

\* The query of fbRepo.Upsert.
QueryFeedback(c) ==
    /\ pc[c] = "queryFeedback"
    /\ GoTo(c, IF Only(Len(feedbacks[FeedbackKey(req[c])])) THEN "updateFeedback"
                                                           ELSE "insertFeedback")
    /\ UNCHANGED <<tables, req, stats, history>>

UpdateFeedback(c) ==
    LET k == FeedbackKey(req[c])
    IN  /\ pc[c] = "updateFeedback"
        /\ feedbacks' = [feedbacks EXCEPT ![k] = Updated(@, req[c].feedback)]
        /\ Finish(c, "nil")
        /\ Touch(c, k)
        /\ UNCHANGED <<books, favorites, req, stats, behind, unsure>>

InsertFeedback(c) ==
    LET k == FeedbackKey(req[c])
    IN  /\ pc[c] = "insertFeedback"
        /\ feedbacks' = [feedbacks EXCEPT ![k] = Append(@, req[c].feedback.value)]
        /\ Finish(c, "nil")
        /\ Overtake(c, k)
        /\ UNCHANGED <<books, favorites, req, stats>>

-----------------------------------------------------------------------------
(* Statistics.                                                             *)

\* GetBookStats: three queries, the tables may change between them.
CountFavorites(c) ==
    /\ pc[c] = "countFavorites"
    /\ stats' = [stats EXCEPT ![c].favorites = FavoriteRows(req[c].book)]
    /\ GoTo(c, "countRead")
    /\ UNCHANGED <<tables, req, history>>

\* Fault: the marks are counted without regard to the kind.
CountReadOfAnyKind(c) ==
    /\ pc[c] = "countRead"
    /\ LET b == req[c].book
       IN  stats' = [stats EXCEPT ![c].read =
                        ReadRows(b) + Cardinality(RowsOf(b, "difficulty_rating"))]
    /\ GoTo(c, "average")
    /\ UNCHANGED <<tables, req, history>>

CountRead(c) ==
    /\ pc[c] = "countRead"
    /\ stats' = [stats EXCEPT ![c].read = ReadRows(req[c].book)]
    /\ GoTo(c, "average")
    /\ UNCHANGED <<tables, req, history>>

\* The average itself is sum / rated, 0 when nothing is rated.
Average(c) ==
    /\ pc[c] = "average"
    /\ stats' = [stats EXCEPT ![c].sum = RatingSum(req[c].book),
                              ![c].rated = Cardinality(RatedRows(req[c].book))]
    /\ Finish(c, "nil")
    /\ UNCHANGED <<tables, req, history>>

-----------------------------------------------------------------------------
\* The database refuses a call or the request is cancelled.  Create and Upsert
\* take a query that failed for one that found nothing, and SubmitFeedback
\* does not look at what became of the favorite.
DatabaseFails(c) ==
    /\ Faults
    /\ pc[c] \notin {"idle", "done"}
    /\ CASE pc[c] = "book" -> Finish(c, "book not found")
         [] pc[c] = "queryFavorite" -> GoTo(c, "insertFavorite")
         [] pc[c] = "queryFeedback" -> GoTo(c, "insertFeedback")
         [] pc[c] = "insertFavorite" /\ req[c].op = "feedback" -> GoTo(c, "queryFeedback")
         [] OTHER -> Finish(c, "database")
    /\ behind' = IF pc[c] \in {"queryFavorite", "queryFeedback"} THEN behind \cup {c}
                 ELSE behind \ {c}
    /\ touched' = IF pc[c] = "insertFavorite"
                  THEN [touched EXCEPT ![c] = @ \cup {FavoriteKey(req[c])}] ELSE touched
    /\ UNCHANGED <<tables, req, stats, unsure>>

Respond(c) ==
    /\ pc[c] = "done"
    /\ pc' = [pc EXCEPT ![c] = "idle"]
    /\ req' = [req EXCEPT ![c] = None]
    /\ stats' = [stats EXCEPT ![c] = NoStats]
    /\ err' = [err EXCEPT ![c] = "nil"]
    /\ touched' = [touched EXCEPT ![c] = {}]
    /\ UNCHANGED <<tables, behind, unsure>>

\* No foreign key ties favorites and feedback to their book: they stay.
DeleteBook(b) ==
    /\ b \in books
    /\ books' = books \ {b}
    /\ UNCHANGED <<favorites, feedbacks, pc, req, stats, err, history>>

CallStep(c) ==
    \/ Receive(c) \/ FindBook(c) \/ Exists(c)
    \/ QueryFavorite(c) \/ InsertFavorite(c) \/ Clear(c)
    \/ QueryFeedback(c) \/ UpdateFeedback(c) \/ InsertFeedback(c)
    \/ CountFavorites(c) \/ CountRead(c) \/ Average(c)
    \/ DatabaseFails(c) \/ Respond(c)

Next == (\E c \in Calls : CallStep(c)) \/ (\E b \in Books : DeleteBook(b))

Spec == Init /\ [][Next]_vars

-----------------------------------------------------------------------------
(* What holds.                                                             *)

\* The operations that reach each control point.
OpsAt(p) ==
    CASE p \in {"book", "queryFavorite", "insertFavorite"} -> {"favorite", "feedback"}
      [] p = "exists" -> {"favorite", "unfavorite", "check"}
      [] p = "clear" -> {"unfavorite"}
      [] p \in {"queryFeedback", "updateFeedback", "insertFeedback"} -> {"feedback"}
      [] p \in {"countFavorites", "countRead", "average"} -> {"stats"}
      [] OTHER -> {"favorite", "unfavorite", "check", "stats", "feedback"}
Points == {"idle", "done", "book", "exists", "queryFavorite", "insertFavorite", "clear",
           "queryFeedback", "updateFeedback", "insertFeedback",
           "countFavorites", "countRead", "average"}

\* Every variable keeps its type, and a call is at a point of its operation.
TypeOK ==
    /\ books \subseteq Books
    /\ favorites \in [FavoriteKeys -> Nat]
    /\ feedbacks \in [FeedbackKeys -> Seq(Int)]
    /\ stats \in [Calls -> Stats]
    /\ err \in [Calls -> Errors]
    /\ behind \subseteq Calls
    /\ touched \in [Calls -> SUBSET (FavoriteKeys \cup FeedbackKeys)]
    /\ unsure \subseteq FavoriteKeys \cup FeedbackKeys
    /\ pc \in [Calls -> Points]
    /\ req \in [Calls -> Requests \cup {None}]
    /\ \A c \in Calls : IF pc[c] = "idle" THEN req[c] = None
                       ELSE req[c] \in Requests /\ req[c].op \in OpsAt(pc[c])

\* A user has a second favorite of a book only after two calls overlapped or a
\* query failed, and has one again after the next removal.
OneFavoriteUnlessRaced == \A k \in FavoriteKeys : favorites[k] > 1 => k \in unsure

\* A user has a second feedback of a kind only after such an event.
OneFeedbackUnlessRaced == \A k \in FeedbackKeys : Len(feedbacks[k]) > 1 => k \in unsure

\* An answer about favorites holds when it is given: favorited, or no longer,
\* however many rows there were, unless the user's other calls changed it.
FavoriteAnswersHold ==
    \A c \in Calls :
        pc[c] = "done" /\ err[c] = "nil" /\ FavoriteKey(req[c]) \notin touched[c] =>
            /\ req[c].op = "favorite" => favorites[FavoriteKey(req[c])] > 0
            /\ req[c].op = "unfavorite" => favorites[FavoriteKey(req[c])] = 0

\* An accepted submission is in the table when it is answered, and its book is a
\* favorite, unless the user's other calls changed that, or it is the favorite that
\* was refused: SubmitFeedback drops that error, and no other (book_feedback.go:75-78).
FeedbackAnswersHold ==
    \A c \in Calls :
        LET r == req[c]
        IN  pc[c] = "done" /\ err[c] = "nil" /\ r.op = "feedback" =>
                /\ FeedbackKey(r) \in touched[c]
                     \/ \E i \in DOMAIN feedbacks[FeedbackKey(r)] :
                           feedbacks[FeedbackKey(r)][i] = r.feedback.value
                /\ FavoriteKey(r) \in touched[c] \/ favorites[FavoriteKey(r)] > 0

\* The numbers of GetFeedbackStats are legal, whatever clients submit and whatever
\* is written between its queries: the average rating is between 1 and 5, and no more users have
\* read the book than there are, unless the book has duplicates.
StatsMakeSense ==
    \A c \in Calls :
        /\ stats[c].rated <= stats[c].sum /\ stats[c].sum <= 5 * stats[c].rated
        /\ stats[c].read <= Cardinality(Users)
             \/ \E u \in Users : <<u, req[c].book, "read_complete">> \in unsure

\* The three queries of GetFeedbackStats run without a transaction, so that its
\* numbers may belong to different moments.  But each is the current one when the
\* answer is given, and all three fit together, unless a call has written rows of
\* its own kind meanwhile (book_feedback.go:139-177).
StatsAreCurrent ==
    \A c \in Calls :
        LET b == req[c].book
            Untouched(kind) == \A u \in Users : <<u, b, kind>> \notin touched[c]
        IN  pc[c] = "done" /\ err[c] = "nil" /\ req[c].op = "stats" =>
                /\ Untouched("favorite") => stats[c].favorites = FavoriteRows(b)
                /\ Untouched("read_complete") => stats[c].read = ReadRows(b)
                /\ Untouched("difficulty_rating") =>
                      /\ stats[c].sum = RatingSum(b)
                      /\ stats[c].rated = Cardinality(RatedRows(b))

=============================================================================
