------------------------ MODULE BookFeedback_proofs ------------------------
(***************************************************************************)
(* Proofs about favorites, feedback and statistics, for any books, ratings *)
(* and concurrent calls and any finite set of users, with or without       *)
(* faults.                                                                 *)
(***************************************************************************)
EXTENDS BookFeedback, FiniteSetTheorems, TLAPS

-----------------------------------------------------------------------------
(* Requests and keys.                                                      *)

\* A submission has a kind that is used and a value.
LEMMA FeedbackType ==
  ASSUME NEW f \in Feedbacks
  PROVE  f.kind \in UsedKinds /\ f.kind \in Kinds /\ f.value \in Int
<1>1. PICK k \in UsedKinds : f \in [kind : {k}, value : ValuesOf(k)]
  BY DEF Feedbacks
<1>2. ValuesOf(k) \subseteq Int
  BY RatingsAssumption DEF ValuesOf
<1> QED
  BY <1>1, <1>2, KindsAssumption

\* Every request has a key among the favorites, a submission one among the
\* feedbacks.
LEMMA KeyType ==
  ASSUME NEW r \in Requests
  PROVE  /\ r.user \in Users /\ r.book \in Books
         /\ FavoriteKey(r) \in FavoriteKeys
         /\ r.op = "feedback" =>
               /\ r.feedback \in Feedbacks
               /\ FeedbackKey(r) \in FeedbackKeys
<1>1. r.user \in Users /\ r.book \in Books
  BY DEF Requests
<1>2. r.op = "feedback" => r.feedback \in Feedbacks
  BY DEF Requests
<1>3. r.op = "feedback" => r.feedback.kind \in Kinds
  BY <1>2, FeedbackType
<1> QED
  BY <1>1, <1>2, <1>3 DEF FavoriteKey, FavoriteKeys, FeedbackKey, FeedbackKeys

\* A favorite's key is not a feedback's.
LEMMA KeysApart == FavoriteKeys \cap FeedbackKeys = {}
BY DEF FavoriteKeys, FeedbackKeys, Kinds

\* The key names the user and the book.
LEMMA KeysOfSame ==
  /\ \A r, s : FavoriteKey(r) = FavoriteKey(s) => r.user = s.user /\ r.book = s.book
  /\ \A r, s : FeedbackKey(r) = FeedbackKey(s) => r.user = s.user /\ r.book = s.book
BY DEF FavoriteKey, FeedbackKey

\* What a call has at each control point.
LEMMA CallType ==
  ASSUME TypeOK, NEW c \in Calls, pc[c] # "idle"
  PROVE  /\ req[c] \in Requests
         /\ pc[c] \in {"book", "queryFavorite", "insertFavorite"} =>
               req[c].op \in {"favorite", "feedback"}
         /\ pc[c] \in {"queryFeedback", "updateFeedback", "insertFeedback"} =>
               req[c].op = "feedback"
         /\ pc[c] = "exists" => req[c].op \in {"favorite", "unfavorite", "check"}
         /\ pc[c] = "clear" => req[c].op = "unfavorite"
         /\ pc[c] \in {"countFavorites", "countRead", "average"} => req[c].op = "stats"
         /\ req[c].op \in {"favorite", "unfavorite", "check", "stats", "feedback"}
BY DEF TypeOK, OpsAt

-----------------------------------------------------------------------------
(* Sums.  MapThenSumSet is a fold, defined by recursion on sets.  Induction *)
(* is used in the form of minimal counterexamples, which needs no theorem  *)
(* with an operator for a parameter.                                       *)

\* A set of numbers with 0 and all successors has all numbers.
LEMMA NatSetInduction ==
  ASSUME NEW N \in SUBSET Nat, 0 \in N, \A n \in N : n + 1 \in N
  PROVE  N = Nat
<1> SUFFICES ASSUME N # Nat
             PROVE  FALSE
  OBVIOUS
<1> DEFINE R == OpToRel(<, Nat)
           T == Nat \ N
<1>1. T # {} /\ T \subseteq Nat
  OBVIOUS
<1>2. IsWellFoundedOn(R, Nat)
  BY NatLessThanWellFounded
<1> HIDE DEF R, T
<1>3. PICK x \in T : \A y \in T : ~(<<y, x>> \in R)
  BY <1>1, <1>2, WFMin
<1>4. x \in Nat /\ x \notin N /\ \A y \in Nat : y < x => y \in N
  <2>1. \A y \in Nat : x \in Nat /\ y < x => <<y, x>> \in R
    BY DEF R, OpToRel
  <2> QED BY <1>3, <2>1 DEF T
<1>5. x # 0
  BY <1>4
<1>6. x - 1 \in N
  BY <1>4, <1>5
<1> QED
  BY <1>4, <1>6

\* The element a fold takes next.
Pick(s) == CHOOSE x \in s : TRUE

\* A property of subsets that the empty set has, and that a set has when it
\* does without its next element, is one of the whole set.
LEMMA FoldInduction ==
  ASSUME NEW S, IsFiniteSet(S), NEW Good \in SUBSET (SUBSET S), {} \in Good,
         \A s \in SUBSET S : s # {} /\ s \ {Pick(s)} \in Good => s \in Good
  PROVE  S \in Good
<1> DEFINE N == {n \in Nat : \A s \in SUBSET S : Cardinality(s) = n => s \in Good}
<1>1. \A s \in SUBSET S : IsFiniteSet(s) /\ Cardinality(s) \in Nat
  BY FS_Subset, FS_CardinalityType
<1>2. 0 \in N
  BY <1>1, FS_EmptySet
<1>3. ASSUME NEW n \in N
      PROVE  n + 1 \in N
  <2> SUFFICES ASSUME NEW s \in SUBSET S, Cardinality(s) = n + 1
               PROVE  s \in Good
    BY <1>3
  <2>1. s # {}
    BY <1>1, FS_EmptySet
  <2>2. Pick(s) \in s
    BY <2>1 DEF Pick
  <2>3. Cardinality(s \ {Pick(s)}) = n
    BY <1>1, <2>2, FS_RemoveElement
  <2> QED
    BY <1>3, <2>1, <2>3
<1>4. N = Nat
  <2> HIDE DEF N
  <2>1. N \in SUBSET Nat
    BY DEF N
  <2> QED BY <1>2, <1>3, <2>1, NatSetInduction
<1> QED
  BY <1>1, <1>4

\* The equation of the sum of v over the subsets of a set.
SumBody(v, g, s) == IF s = {} THEN 0 ELSE v[Pick(s)] + g[s \ {Pick(s)}]
IsSum(v, S, g) == g = [s \in SUBSET S |-> SumBody(v, g, s)]

\* The equation has a solution: it is built up over the subsets by their size.
LEMMA SumExists ==
  ASSUME NEW S, IsFiniteSet(S), NEW v
  PROVE  \E g : IsSum(v, S, g)
<1> DEFINE Upto(n) == {s \in SUBSET S : Cardinality(s) <= n}
           Solves(g, n) == g = [s \in Upto(n) |-> SumBody(v, g, s)]
           N == {n \in Nat : \E g : Solves(g, n)}
<1>1. \A s \in SUBSET S : IsFiniteSet(s) /\ Cardinality(s) \in Nat
  BY FS_Subset, FS_CardinalityType
<1>2. 0 \in N
  <2>1. Upto(0) = {{}}
    BY <1>1, FS_EmptySet
  <2>2. Solves([s \in Upto(0) |-> 0], 0)
    BY <2>1 DEF SumBody
  <2> QED BY <2>2
<1>3. ASSUME NEW n \in N
      PROVE  n + 1 \in N
  <2>1. PICK g : Solves(g, n)
    BY <1>3
  <2> DEFINE h == [s \in Upto(n + 1) |-> SumBody(v, g, s)]
  <2>2. \A s \in Upto(n) : s \in Upto(n + 1) /\ h[s] = g[s]
    BY <1>1, <1>3, <2>1
  <2>3. ASSUME NEW s \in Upto(n + 1)
        PROVE  SumBody(v, g, s) = SumBody(v, h, s)
    <3>1. CASE s = {}
      BY <3>1 DEF SumBody
    <3>2. CASE s # {}
      <4>1. Pick(s) \in s
        BY <3>2 DEF Pick
      <4>2. Cardinality(s \ {Pick(s)}) = Cardinality(s) - 1
        BY <1>1, <4>1, FS_RemoveElement
      <4>3. s \ {Pick(s)} \in Upto(n)
        BY <1>1, <1>3, <4>2
      <4> QED
        BY <2>2, <3>2, <4>3 DEF SumBody
    <3> QED BY <3>1, <3>2
  <2>4. h = [s \in Upto(n + 1) |-> SumBody(v, h, s)]
    BY <2>3
  <2>5. Solves(h, n + 1)
    BY <2>4
  <2> HIDE DEF h, Solves
  <2>6. \E k : Solves(k, n + 1)
    BY <2>5
  <2> QED
    BY <1>3, <2>6
<1>4. N = Nat
  <2> HIDE DEF N
  <2>1. N \in SUBSET Nat
    BY DEF N
  <2> QED BY <1>2, <1>3, <2>1, NatSetInduction
<1>5. Cardinality(S) \in Nat /\ \A s \in SUBSET S : Cardinality(s) <= Cardinality(S)
  BY FS_CardinalityType, FS_Subset
<1>6. Upto(Cardinality(S)) = SUBSET S
  BY <1>5
<1>7. PICK g : Solves(g, Cardinality(S))
  BY <1>4, <1>5
<1> QED
  BY <1>6, <1>7 DEF IsSum

\* A sum of integers is one, of naturals too, and the mean of numbers between
\* 1 and 5 is between 1 and 5.
LEMMA SumBounds ==
  ASSUME NEW S, IsFiniteSet(S), NEW v, NEW g, IsSum(v, S, g),
         \A x \in S : v[x] \in Int
  PROVE  /\ g[S] \in Int
         /\ (\A x \in S : v[x] \in Nat) => g[S] \in Nat
         /\ (\A x \in S : v[x] \in 1..5) =>
               Cardinality(S) <= g[S] /\ g[S] <= 5 * Cardinality(S)
<1> DEFINE Bounded(s) ==
             /\ g[s] \in Int
             /\ (\A x \in S : v[x] \in Nat) => g[s] \in Nat
             /\ (\A x \in S : v[x] \in 1..5) =>
                   Cardinality(s) <= g[s] /\ g[s] <= 5 * Cardinality(s)
           Good == {s \in SUBSET S : Bounded(s)}
<1>1. \A s \in SUBSET S : IsFiniteSet(s) /\ Cardinality(s) \in Nat
  BY FS_Subset, FS_CardinalityType
<1>2. \A s \in SUBSET S : g[s] = SumBody(v, g, s)
  <2>1. g = [s \in SUBSET S |-> SumBody(v, g, s)]
    BY DEF IsSum
  <2> DEFINE body(s) == SumBody(v, g, s)
  <2>2. g = [s \in SUBSET S |-> body(s)]
    BY <2>1
  <2> HIDE DEF body
  <2>3. \A s \in SUBSET S : g[s] = body(s)
    BY <2>2
  <2> QED BY <2>3 DEF body
<1>3. {} \in Good
  <2>1. g[{}] = 0 /\ Cardinality({}) = 0
    BY <1>2, FS_EmptySet DEF SumBody
  <2>2. Bounded({})
    BY <2>1
  <2> QED BY <2>2
<1>4. ASSUME NEW s \in SUBSET S, s # {}, s \ {Pick(s)} \in Good
      PROVE  s \in Good
  <2>1. Pick(s) \in s /\ Pick(s) \in S
    BY <1>4 DEF Pick
  <2>2. g[s] = v[Pick(s)] + g[s \ {Pick(s)}]
    BY <1>2, <1>4 DEF SumBody
  <2>3. Cardinality(s \ {Pick(s)}) = Cardinality(s) - 1
    BY <1>1, <2>1, FS_RemoveElement
  <2>4. Bounded(s \ {Pick(s)}) /\ Cardinality(s) \in Nat /\ v[Pick(s)] \in Int
    BY <1>1, <1>4, <2>1
  <2>5. Bounded(s)
    BY <2>1, <2>2, <2>3, <2>4
  <2> QED BY <2>5
<1>5. S \in Good
  <2> HIDE DEF Good
  <2>1. Good \in SUBSET (SUBSET S)
    BY DEF Good
  <2> QED BY <1>3, <1>4, <2>1, FoldInduction
<1> QED
  BY <1>5

\* The rows of a book are finitely many: finitely many users have finite lists.
LEMMA RowsFinite ==
  ASSUME TypeOK, NEW b \in Books, NEW kind \in Kinds
  PROVE  IsFiniteSet(RowsOf(b, kind)) /\ Cardinality(RowsOf(b, kind)) \in Nat
<1> DEFINE OfUser(u) == {<<u, i>> : i \in DOMAIN feedbacks[<<u, b, kind>>]}
           All == {OfUser(u) : u \in Users}
<1>1. ASSUME NEW u \in Users
      PROVE  IsFiniteSet(OfUser(u))
  <2>1. <<u, b, kind>> \in FeedbackKeys
    BY DEF FeedbackKeys
  <2>2. feedbacks[<<u, b, kind>>] \in Seq(Int)
    BY <2>1 DEF TypeOK
  <2>3. PICK n \in Nat : DOMAIN feedbacks[<<u, b, kind>>] = 1..n
    BY <2>2
  <2>4. IsFiniteSet(1..n)
    BY <2>3, FS_Interval
  <2>5. [i \in 1..n |-> <<u, i>>] \in Surjection(1..n, OfUser(u))
    BY <2>3 DEF Surjection
  <2> QED
    BY <2>4, <2>5, FS_Surjection
<1>2. IsFiniteSet(All)
  <2>1. [u \in Users |-> OfUser(u)] \in Surjection(Users, All)
    BY DEF Surjection
  <2> HIDE DEF All, OfUser
  <2> QED
    BY <2>1, UsersAssumption, FS_Surjection
<1>3. IsFiniteSet(UNION All)
  BY <1>1, <1>2, FS_UNION
<1> QED
  BY <1>3, FS_CardinalityType DEF RowsOf

\* The total of a function is such a sum over its domain.
LEMMA TotalIsSum ==
  ASSUME NEW v, IsFiniteSet(DOMAIN v)
  PROVE  \E g : IsSum(v, DOMAIN v, g) /\ Total(v) = g[DOMAIN v]
<1> DEFINE S == DOMAIN v
           Fold(g) == g = [s \in SUBSET S |->
                             IF s = {} THEN 0 ELSE v[Pick(s)] + g[s \ {Pick(s)}]]
<1>1. PICK f : IsSum(v, S, f)
  BY SumExists
<1>2. \A g : IsSum(v, S, g) <=> Fold(g)
  BY DEF IsSum, SumBody
<1>3. Total(v) = (CHOOSE g : Fold(g))[S]
  BY DEF Total, Sums!MapThenSumSet, Sums!MapThenFoldSet, Pick
<1> HIDE DEF Fold, S
<1>4. IsSum(v, S, CHOOSE g : Fold(g))
  BY <1>1, <1>2
<1> QED
  BY <1>3, <1>4 DEF S

\* A total of integers is one, of naturals too, and the mean of numbers between
\* 1 and 5 is between 1 and 5.
LEMMA TotalBounds ==
  ASSUME NEW v, IsFiniteSet(DOMAIN v), \A x \in DOMAIN v : v[x] \in Int
  PROVE  /\ Total(v) \in Int
         /\ (\A x \in DOMAIN v : v[x] \in Nat) => Total(v) \in Nat
         /\ (\A x \in DOMAIN v : v[x] \in 1..5) =>
               Cardinality(DOMAIN v) <= Total(v) /\ Total(v) <= 5 * Cardinality(DOMAIN v)
<1>1. PICK g : IsSum(v, DOMAIN v, g) /\ Total(v) = g[DOMAIN v]
  BY TotalIsSum
<1> DEFINE S == DOMAIN v
<1> HIDE DEF S
<1>2. IsFiniteSet(S) /\ IsSum(v, S, g) /\ \A x \in S : v[x] \in Int
  BY <1>1 DEF S
<1>3. /\ g[S] \in Int
      /\ (\A x \in S : v[x] \in Nat) => g[S] \in Nat
      /\ (\A x \in S : v[x] \in 1..5) =>
            Cardinality(S) <= g[S] /\ g[S] <= 5 * Cardinality(S)
  BY <1>2, SumBounds
<1> QED
  BY <1>1, <1>3 DEF S

\* The favorites of a book are counted with a natural number.
LEMMA FavoriteRowsType ==
  ASSUME TypeOK, NEW b \in Books
  PROVE  FavoriteRows(b) \in Nat
<1> DEFINE v == [u \in Users |-> favorites[<<u, b, "favorite">>]]
<1>1. DOMAIN v = Users /\ \A u \in Users : v[u] \in Nat
  BY DEF TypeOK, FavoriteKeys
<1>2. FavoriteRows(b) = Total(v)
  BY DEF FavoriteRows
<1> HIDE DEF v
<1> QED
  BY <1>1, <1>2, UsersAssumption, TotalBounds

\* The rows GetBookStats averages are finitely many, and their sum is between
\* once and five times their number if all ratings are between 1 and 5.
LEMMA RatingSumType ==
  ASSUME TypeOK, NEW b \in Books
  PROVE  /\ RatingSum(b) \in Int /\ Cardinality(RatedRows(b)) \in Nat
         /\ (\A p \in RatedRows(b) : feedbacks[<<p[1], b, "difficulty_rating">>][p[2]] \in 1..5) =>
               /\ Cardinality(RatedRows(b)) <= RatingSum(b)
               /\ RatingSum(b) <= 5 * Cardinality(RatedRows(b))
<1> DEFINE S == RatedRows(b)
           value(p) == feedbacks[<<p[1], b, "difficulty_rating">>][p[2]]
           v == [p \in S |-> value(p)]
<1>1. IsFiniteSet(S)
  <2>1. S \subseteq RowsOf(b, "difficulty_rating")
    BY DEF RatedRows
  <2> QED
    BY <2>1, RowsFinite, FS_Subset DEF Kinds
<1>2. ASSUME NEW p \in S
      PROVE  v[p] = value(p) /\ v[p] \in Int
  <2>1. PICK u \in Users : p \in {<<u, i>> : i \in DOMAIN feedbacks[<<u, b, "difficulty_rating">>]}
    BY <1>2 DEF RatedRows, RowsOf
  <2>2. PICK i \in DOMAIN feedbacks[<<u, b, "difficulty_rating">>] : p = <<u, i>>
    BY <2>1
  <2>3. feedbacks[<<u, b, "difficulty_rating">>] \in Seq(Int)
    BY DEF TypeOK, FeedbackKeys, Kinds
  <2>4. p[1] = u /\ p[2] = i
    BY <2>2
  <2>5. value(p) \in Int
    BY <2>2, <2>3, <2>4
  <2>6. v[p] = value(p)
    <3> HIDE DEF value, S
    <3> QED BY <1>2
  <2> QED
    BY <2>5, <2>6
<1>3. RatingSum(b) = Total(v)
  BY DEF RatingSum
<1>4. DOMAIN v = S
  <2> HIDE DEF value, S
  <2> QED OBVIOUS
<1>5. /\ \A p \in S : v[p] \in Int
      /\ (\A p \in S : value(p) \in 1..5) <=> (\A p \in S : v[p] \in 1..5)
  <2> HIDE DEF v, value, S
  <2> QED BY <1>2
<1> HIDE DEF v, S
<1>6. /\ Total(v) \in Int
      /\ (\A p \in S : v[p] \in 1..5) =>
            Cardinality(S) <= Total(v) /\ Total(v) <= 5 * Cardinality(S)
  BY <1>1, <1>4, <1>5, TotalBounds
<1> QED
  BY <1>1, <1>3, <1>5, <1>6, FS_CardinalityType DEF S

-----------------------------------------------------------------------------
(* Types.                                                                  *)

\* Empty tables and idle goroutines are well typed.
LEMMA InitTypeOK == Init => TypeOK
BY DEF Init, TypeOK, Stats, NoStats, Errors, Points

\* An update keeps the number of rows and leaves the new value in the first.
LEMMA UpdatedType ==
  ASSUME NEW rows \in Seq(Int), NEW f, f.value \in Int
  PROVE  /\ Updated(rows, f) \in Seq(Int) /\ Len(Updated(rows, f)) = Len(rows)
         /\ Len(rows) > 0 => Updated(rows, f)[1] = f.value
         /\ \A i \in DOMAIN rows : i # 1 => Updated(rows, f)[i] = rows[i]
<1> DEFINE n == Len(rows)
           new == [i \in 1..n |-> IF i = 1 THEN f.value ELSE rows[i]]
<1>1. n \in Nat /\ rows \in [1..n -> Int]
  OBVIOUS
<1>2. Updated(rows, f) = new
  BY <1>1 DEF Updated
<1>3. new \in [1..n -> Int]
  BY <1>1
<1>4. new \in Seq(Int) /\ Len(new) = n
  BY <1>1, <1>3
<1> QED
  BY <1>1, <1>2, <1>4

\* The keys a call writes, and its history, stay among the keys and calls.
LEMMA HistoryType ==
  ASSUME TypeOK, NEW c \in Calls, NEW k \in FavoriteKeys \cup FeedbackKeys
  PROVE  /\ Touch(c, k) => touched' \in [Calls -> SUBSET (FavoriteKeys \cup FeedbackKeys)]
         /\ Overtake(c, k) =>
               /\ touched' \in [Calls -> SUBSET (FavoriteKeys \cup FeedbackKeys)]
               /\ behind' \subseteq Calls
               /\ unsure' \subseteq FavoriteKeys \cup FeedbackKeys
<1>1. Touch(c, k) => touched' \in [Calls -> SUBSET (FavoriteKeys \cup FeedbackKeys)]
  BY DEF Touch, TypeOK
<1> QED
  BY <1>1 DEF Overtake, TypeOK, Others

\* A call goes to a point of its operation and keeps its request.
LEMMA MoveType ==
  ASSUME TypeOK, NEW c \in Calls, pc[c] # "idle", req' = req,
         NEW p \in Points, p # "idle", req[c].op \in OpsAt(p),
         pc' = [pc EXCEPT ![c] = p]
  PROVE  /\ pc' \in [Calls -> Points]
         /\ req' \in [Calls -> Requests \cup {None}]
         /\ \A d \in Calls : IF pc'[d] = "idle" THEN req'[d] = None
                            ELSE req'[d] \in Requests /\ req'[d].op \in OpsAt(pc'[d])
BY DEF TypeOK

\* A call that finishes has an error of the list and is done.
LEMMA FinishType ==
  ASSUME TypeOK, NEW c \in Calls, pc[c] # "idle", req' = req,
         NEW e \in Errors, Finish(c, e)
  PROVE  /\ err' \in [Calls -> Errors]
         /\ pc' \in [Calls -> Points]
         /\ req' \in [Calls -> Requests \cup {None}]
         /\ \A d \in Calls : IF pc'[d] = "idle" THEN req'[d] = None
                            ELSE req'[d] \in Requests /\ req'[d].op \in OpsAt(pc'[d])
<1>1. "done" \in Points /\ req[c].op \in OpsAt("done")
  BY CallType DEF Points, OpsAt
<1>2. pc' = [pc EXCEPT ![c] = "done"] /\ err' = [err EXCEPT ![c] = e]
  BY DEF Finish
<1>3. err' \in [Calls -> Errors]
  BY <1>2 DEF TypeOK
<1> QED
  BY <1>1, <1>2, <1>3, MoveType

\* A call that goes on does so to a point of its operation.
LEMMA GoToType ==
  ASSUME TypeOK, NEW c \in Calls, pc[c] # "idle", req' = req,
         NEW p \in Points, p # "idle", req[c].op \in OpsAt(p), GoTo(c, p)
  PROVE  /\ err' \in [Calls -> Errors]
         /\ pc' \in [Calls -> Points]
         /\ req' \in [Calls -> Requests \cup {None}]
         /\ \A d \in Calls : IF pc'[d] = "idle" THEN req'[d] = None
                            ELSE req'[d] \in Requests /\ req'[d].op \in OpsAt(pc'[d])
<1>1. pc' = [pc EXCEPT ![c] = p] /\ err' = err
  BY DEF GoTo
<1> QED
  BY <1>1, MoveType DEF TypeOK

\* The type invariant is inductive.
LEMMA NextTypeOK ==
  ASSUME TypeOK, [Next]_vars
  PROVE  TypeOK'
<1>1. CASE UNCHANGED vars
  BY <1>1 DEF TypeOK, vars
<1>2. CASE \E b \in Books : DeleteBook(b)
  BY <1>2 DEF DeleteBook, history, TypeOK
<1>3. CASE \E c \in Calls : CallStep(c)
  <2>1. PICK c \in Calls : CallStep(c)
    BY <1>3
  <2> DEFINE Ctl == /\ err' \in [Calls -> Errors]
                    /\ pc' \in [Calls -> Points]
                    /\ req' \in [Calls -> Requests \cup {None}]
                    /\ \A d \in Calls :
                          IF pc'[d] = "idle" THEN req'[d] = None
                          ELSE req'[d] \in Requests /\ req'[d].op \in OpsAt(pc'[d])
  <2>2. CASE Receive(c)
    <3>1. PICK r \in Requests :
             /\ req' = [req EXCEPT ![c] = r]
             /\ GoTo(c, CASE r.op \in {"favorite", "feedback"} -> "book"
                          [] r.op \in {"unfavorite", "check"} -> "exists"
                          [] r.op = "stats" -> "countFavorites")
      BY <2>2 DEF Receive
    <3>2. r.op \in {"favorite", "unfavorite", "check", "stats", "feedback"}
      BY DEF Requests
    <3>3. PICK p \in {"book", "exists", "countFavorites"} :
             pc' = [pc EXCEPT ![c] = p] /\ r.op \in OpsAt(p)
      BY <3>1, <3>2 DEF GoTo, OpsAt
    <3>4. Ctl
      BY <3>1, <3>3 DEF GoTo, TypeOK, Points
    <3> QED
      BY <2>2, <3>4 DEF Receive, tables, history, TypeOK
  <2>3. CASE FindBook(c)
    <3>1. Ctl
      <4> USE DEF FindBook
      <4>1. CASE Finish(c, "book not found") \/ Finish(c, "invalid feedback")
        BY <2>3, <4>1, FinishType DEF Errors
      <4>2. CASE GoTo(c, "exists") /\ req[c].op = "favorite"
        BY <2>3, <4>2, GoToType DEF Points, OpsAt
      <4>3. CASE GoTo(c, "queryFavorite")
        BY <2>3, <4>3, CallType, GoToType DEF Points, OpsAt
      <4> QED BY <2>3, <4>1, <4>2, <4>3
    <3> QED
      BY <2>3, <3>1 DEF FindBook, tables, history, TypeOK
  <2>4. CASE Exists(c)
    <3>1. Ctl
      <4> USE DEF Exists
      <4>1. CASE Finish(c, "nil") \/ Finish(c, "favorite not found")
        BY <2>4, <4>1, FinishType DEF Errors
      <4>2. CASE GoTo(c, "queryFavorite") /\ req[c].op = "favorite"
        BY <2>4, <4>2, GoToType DEF Points, OpsAt
      <4>3. CASE GoTo(c, "clear") /\ req[c].op = "unfavorite"
        BY <2>4, <4>3, GoToType DEF Points, OpsAt
      <4> QED BY <2>4, <4>1, <4>2, <4>3, CallType
    <3> QED
      BY <2>4, <3>1 DEF Exists, tables, history, TypeOK
  <2>5. ASSUME AfterFavorite(c), pc[c] \in {"queryFavorite", "insertFavorite"}, req' = req
        PROVE  Ctl
    <3>1. CASE Finish(c, "nil")
      BY <2>5, <3>1, FinishType DEF Errors
    <3>2. CASE GoTo(c, "queryFeedback") /\ req[c].op # "favorite"
      BY <2>5, <3>2, CallType, GoToType DEF Points, OpsAt
    <3> QED BY <2>5, <3>1, <3>2 DEF AfterFavorite
  <2>6. CASE QueryFavorite(c)
    <3>1. Ctl
      <4>1. CASE GoTo(c, "insertFavorite")
        BY <2>6, <4>1, CallType, GoToType DEF QueryFavorite, Points, OpsAt
      <4> QED BY <2>5, <2>6, <4>1 DEF QueryFavorite
    <3> QED
      BY <2>6, <3>1 DEF QueryFavorite, tables, history, TypeOK
  <2>7. CASE InsertFavorite(c)
    <3>1. Ctl
      BY <2>5, <2>7 DEF InsertFavorite
    <3>2. FavoriteKey(req[c]) \in FavoriteKeys
      BY <2>7, CallType, KeyType DEF InsertFavorite
    <3>3. favorites' \in [FavoriteKeys -> Nat]
      BY <2>7, <3>2 DEF InsertFavorite, TypeOK
    <3> QED
      BY <2>7, <3>1, <3>2, <3>3, HistoryType DEF InsertFavorite, TypeOK
  <2>8. CASE Clear(c)
    <3>1. Ctl
      BY <2>8, FinishType DEF Clear, Errors
    <3>2. FavoriteKey(req[c]) \in FavoriteKeys
      BY <2>8, CallType, KeyType DEF Clear
    <3>3. favorites' \in [FavoriteKeys -> Nat]
      BY <2>8, <3>2 DEF Clear, Remaining, TypeOK
    <3> QED
      BY <2>8, <3>1, <3>2, <3>3, HistoryType DEF Clear, TypeOK
  <2>9. CASE QueryFeedback(c)
    <3>1. Ctl
      <4>1. PICK p \in {"updateFeedback", "insertFeedback"} : GoTo(c, p)
        BY <2>9 DEF QueryFeedback
      <4> QED BY <2>9, <4>1, CallType, GoToType DEF QueryFeedback, Points, OpsAt
    <3> QED
      BY <2>9, <3>1 DEF QueryFeedback, tables, history, TypeOK
  <2>10. CASE UpdateFeedback(c)
    <3>1. Ctl
      BY <2>10, FinishType DEF UpdateFeedback, Errors
    <3>2. FeedbackKey(req[c]) \in FeedbackKeys /\ req[c].feedback.value \in Int
      BY <2>10, CallType, KeyType, FeedbackType DEF UpdateFeedback
    <3>3. feedbacks' \in [FeedbackKeys -> Seq(Int)]
      <4>1. feedbacks[FeedbackKey(req[c])] \in Seq(Int)
        BY <3>2 DEF TypeOK
      <4>2. Updated(feedbacks[FeedbackKey(req[c])], req[c].feedback) \in Seq(Int)
        BY <3>2, <4>1, UpdatedType
      <4> QED BY <2>10, <3>2, <4>2 DEF UpdateFeedback, TypeOK
    <3> QED
      BY <2>10, <3>1, <3>2, <3>3, HistoryType DEF UpdateFeedback, TypeOK
  <2>11. CASE InsertFeedback(c)
    <3>1. Ctl
      BY <2>11, FinishType DEF InsertFeedback, Errors
    <3>2. FeedbackKey(req[c]) \in FeedbackKeys /\ req[c].feedback.value \in Int
      BY <2>11, CallType, KeyType, FeedbackType DEF InsertFeedback
    <3>3. feedbacks' \in [FeedbackKeys -> Seq(Int)]
      BY <2>11, <3>2 DEF InsertFeedback, TypeOK
    <3> QED
      BY <2>11, <3>1, <3>2, <3>3, HistoryType DEF InsertFeedback, TypeOK
  <2>12. CASE CountFavorites(c)
    <3>1. Ctl
      BY <2>12, CallType, GoToType DEF CountFavorites, Points, OpsAt
    <3>2. FavoriteRows(req[c].book) \in Nat
      BY <2>12, CallType, KeyType, FavoriteRowsType DEF CountFavorites
    <3>3. stats' \in [Calls -> Stats]
      BY <2>12, <3>2 DEF CountFavorites, TypeOK, Stats
    <3> QED
      BY <2>12, <3>1, <3>3 DEF CountFavorites, tables, history, TypeOK
  <2>13. CASE CountRead(c)
    <3>1. Ctl
      BY <2>13, CallType, GoToType DEF CountRead, Points, OpsAt
    <3>2. ReadRows(req[c].book) \in Nat
      BY <2>13, CallType, KeyType, RowsFinite DEF CountRead, ReadRows, Kinds
    <3>3. stats' \in [Calls -> Stats]
      BY <2>13, <3>2 DEF CountRead, TypeOK, Stats
    <3> QED
      BY <2>13, <3>1, <3>3 DEF CountRead, tables, history, TypeOK
  <2>14. CASE Average(c)
    <3>1. Ctl
      BY <2>14, FinishType DEF Average, Errors
    <3>2. /\ RatingSum(req[c].book) \in Int
          /\ Cardinality(RatedRows(req[c].book)) \in Nat
      BY <2>14, CallType, KeyType, RatingSumType DEF Average
    <3>3. stats' \in [Calls -> Stats]
      BY <2>14, <3>2 DEF Average, TypeOK, Stats
    <3> QED
      BY <2>14, <3>1, <3>3 DEF Average, tables, history, TypeOK
  <2>15. CASE DatabaseFails(c)
    <3>1. Ctl
      <4>1. pc[c] # "idle" /\ req' = req
        BY <2>15 DEF DatabaseFails
      <4>2. CASE \E e \in {"book not found", "database"} : Finish(c, e)
        BY <4>1, <4>2, FinishType DEF Errors
      <4>3. CASE pc[c] = "queryFavorite" /\ GoTo(c, "insertFavorite")
        BY <4>1, <4>3, CallType, GoToType DEF Points, OpsAt
      <4>4. CASE pc[c] = "queryFeedback" /\ GoTo(c, "insertFeedback")
        BY <4>1, <4>4, CallType, GoToType DEF Points, OpsAt
      <4>5. CASE req[c].op = "feedback" /\ GoTo(c, "queryFeedback")
        BY <4>1, <4>5, GoToType DEF Points, OpsAt
      <4> QED BY <2>15, <4>2, <4>3, <4>4, <4>5 DEF DatabaseFails
    <3>2. touched' \in [Calls -> SUBSET (FavoriteKeys \cup FeedbackKeys)]
      <4>1. pc[c] = "insertFavorite" => FavoriteKey(req[c]) \in FavoriteKeys
        BY CallType, KeyType
      <4> QED BY <2>15, <4>1 DEF DatabaseFails, TypeOK
    <3> QED
      BY <2>15, <3>1, <3>2 DEF DatabaseFails, tables, TypeOK
  <2>16. CASE Respond(c)
    <3>1. Ctl
      BY <2>16 DEF Respond, TypeOK, Points, Errors
    <3>2. NoStats \in Stats
      BY DEF NoStats, Stats
    <3> QED
      BY <2>16, <3>1, <3>2 DEF Respond, tables, TypeOK
  <2> QED
    BY <2>1, <2>2, <2>3, <2>4, <2>6, <2>7, <2>8, <2>9, <2>10, <2>11, <2>12, <2>13,
       <2>14, <2>15, <2>16 DEF CallStep
<1> QED
  BY <1>1, <1>2, <1>3 DEF Next

\* Type correctness: every control point of a call is one of its operation.
THEOREM TypeCorrect == Spec => []TypeOK
<1>1. Init => TypeOK
  BY InitTypeOK
<1>2. TypeOK /\ [Next]_vars => TypeOK'
  BY NextTypeOK
<1> QED
  BY <1>1, <1>2, PTL DEF Spec

-----------------------------------------------------------------------------
(* The inductive invariant: the invariants of the runs, and what a call    *)
(* knows at each of its control points.                                    *)

\* A call about to insert has seen that there is no row, unless its query
\* failed, others have inserted since, or the key was in doubt already.
InsertsKnown(c) ==
    LET r == req[c]
    IN  c \notin behind =>
          /\ pc[c] = "insertFavorite" =>
                favorites[FavoriteKey(r)] = 0 \/ FavoriteKey(r) \in unsure
          /\ pc[c] = "insertFeedback" =>
                Len(feedbacks[FeedbackKey(r)]) = 0 \/ FeedbackKey(r) \in unsure

\* A call about to update a feedback has found one, and none is ever removed.
UpdatesFound(c) == pc[c] = "updateFeedback" => Len(feedbacks[FeedbackKey(req[c])]) > 0

\* A submission that gets as far as its feedback has made the book a favorite, or
\* was refused that.
FavoriteMade(c) ==
    pc[c] \in {"queryFeedback", "updateFeedback", "insertFeedback"} =>
        FavoriteKey(req[c]) \in touched[c] \/ favorites[FavoriteKey(req[c])] > 0

\* A submission that gets as far as the tables is valid.
Validated(c) ==
    /\ pc[c] \in {"queryFavorite", "insertFavorite", "queryFeedback", "updateFeedback",
                  "insertFeedback"}
    /\ req[c].op = "feedback"
    => Valid(req[c].feedback)

\* No statistics are left over from an earlier call.
StatsFresh(c) == pc[c] = "idle" => stats[c] = NoStats

\* No other call has written rows of this kind of c's book since c began.
Untouched(c, kind) == \A u \in Users : <<u, req[c].book, kind>> \notin touched[c]

\* Each number of the statistics is the current one from its query on.
StatsCurrent(c) ==
    LET b == req[c].book
        answered == pc[c] = "done" /\ err[c] = "nil"
    IN  pc[c] # "idle" /\ req[c].op = "stats" =>
          /\ Untouched(c, "favorite") /\ (pc[c] \in {"countRead", "average"} \/ answered) =>
                stats[c].favorites = FavoriteRows(b)
          /\ Untouched(c, "read_complete") /\ (pc[c] = "average" \/ answered) =>
                stats[c].read = ReadRows(b)
          /\ Untouched(c, "difficulty_rating") /\ answered =>
                /\ stats[c].sum = RatingSum(b)
                /\ stats[c].rated = Cardinality(RatedRows(b))

Known(c) ==
    /\ InsertsKnown(c) /\ UpdatesFound(c) /\ FavoriteMade(c)
    /\ Validated(c) /\ StatsFresh(c) /\ StatsCurrent(c)

\* Only legal ratings are in the table.
RatingsLegal ==
    \A k \in FeedbackKeys :
        k[3] = "difficulty_rating" => \A i \in DOMAIN feedbacks[k] : feedbacks[k][i] \in 1..5

FeedbackInv ==
    /\ TypeOK
    /\ OneFavoriteUnlessRaced /\ OneFeedbackUnlessRaced
    /\ FavoriteAnswersHold /\ FeedbackAnswersHold
    /\ RatingsLegal /\ StatsMakeSense
    /\ \A c \in Calls : Known(c)

-----------------------------------------------------------------------------
(* What a step of one call leaves to the others.                           *)

\* A call keeps its control point, request, answer and statistics while others
\* move, and what others have written before stays recorded.
LEMMA OtherCalls ==
  ASSUME TypeOK, NEW c \in Calls, CallStep(c), NEW d \in Calls, d # c
  PROVE  /\ pc'[d] = pc[d] /\ req'[d] = req[d] /\ stats'[d] = stats[d] /\ err'[d] = err[d]
         /\ touched[d] \subseteq touched'[d]
<1> USE DEF TypeOK, GoTo, Finish, tables, history
<1>1. CASE Receive(c)
  <2>1. PICK r, p : /\ req' = [req EXCEPT ![c] = r]
                    /\ pc' = [pc EXCEPT ![c] = p] /\ err' = err
    BY <1>1 DEF Receive
  <2> QED BY <1>1, <2>1 DEF Receive
<1>2. CASE FindBook(c)
  BY <1>2 DEF FindBook
<1>3. CASE Exists(c)
  <2>1. pc'[d] = pc[d] /\ err'[d] = err[d]
    BY <1>3, CallType DEF Exists
  <2> QED BY <1>3, <2>1 DEF Exists
<1>4. CASE QueryFavorite(c)
  BY <1>4 DEF QueryFavorite, AfterFavorite
<1>5. CASE InsertFavorite(c)
  BY <1>5 DEF InsertFavorite, AfterFavorite, Overtake, Touch
<1>6. CASE Clear(c)
  BY <1>6 DEF Clear, Touch
<1>7. CASE QueryFeedback(c)
  BY <1>7 DEF QueryFeedback
<1>8. CASE UpdateFeedback(c)
  BY <1>8 DEF UpdateFeedback, Touch
<1>9. CASE InsertFeedback(c)
  BY <1>9 DEF InsertFeedback, Overtake, Touch
<1>10. CASE CountFavorites(c)
  BY <1>10 DEF CountFavorites
<1>11. CASE CountRead(c)
  BY <1>11 DEF CountRead
<1>12. CASE Average(c)
  BY <1>12 DEF Average
<1>13. CASE DatabaseFails(c)
  <2>1. pc'[d] = pc[d] /\ err'[d] = err[d]
    BY <1>13 DEF DatabaseFails
  <2> QED BY <1>13, <2>1 DEF DatabaseFails
<1>14. CASE Respond(c)
  BY <1>14 DEF Respond
<1> QED
  BY <1>1, <1>2, <1>3, <1>4, <1>5, <1>6, <1>7, <1>8, <1>9, <1>10, <1>11, <1>12, <1>13, <1>14
  DEF CallStep

\* Only an insert and a removal write favorites, those of their own key.
LEMMA FavoritesWritten ==
  ASSUME TypeOK, NEW c \in Calls, CallStep(c), favorites' # favorites
  PROVE  InsertFavorite(c) \/ Clear(c)
BY DEF CallStep, Receive, FindBook, Exists, QueryFavorite, QueryFeedback, UpdateFeedback,
       InsertFeedback, CountFavorites, CountRead, Average, DatabaseFails, Respond, tables

\* Only an update and an insert write feedbacks.
LEMMA FeedbacksWritten ==
  ASSUME TypeOK, NEW c \in Calls, CallStep(c), feedbacks' # feedbacks
  PROVE  UpdateFeedback(c) \/ InsertFeedback(c)
BY DEF CallStep, Receive, FindBook, Exists, QueryFavorite, InsertFavorite, Clear,
       QueryFeedback, CountFavorites, CountRead, Average, DatabaseFails, Respond, tables

\* A call whose key nobody touched finds its favorites as they were.
LEMMA FavoritesOfOthers ==
  ASSUME TypeOK, NEW c \in Calls, CallStep(c), NEW d \in Calls, d # c, pc[d] # "idle",
         FavoriteKey(req[d]) \notin touched'[d]
  PROVE  favorites'[FavoriteKey(req[d])] = favorites[FavoriteKey(req[d])]
<1>1. CASE favorites' = favorites
  BY <1>1
<1>2. CASE InsertFavorite(c) \/ Clear(c)
  <2> DEFINE k == FavoriteKey(req[c])
  <2>1. FavoriteKey(req[d]) = k => k \in touched'[d]
    BY <1>2, KeysOfSame DEF InsertFavorite, Clear, Overtake, Touch, Others
  <2>2. FavoriteKey(req[d]) # k
    BY <2>1
  <2>3. FavoriteKey(req[d]) \in FavoriteKeys
    BY CallType, KeyType
  <2> QED
    BY <1>2, <2>2, <2>3 DEF InsertFavorite, Clear, TypeOK
<1> QED
  BY <1>1, <1>2, FavoritesWritten

\* A submission whose key nobody touched finds its feedbacks as they were.
LEMMA FeedbacksOfOthers ==
  ASSUME TypeOK, NEW c \in Calls, CallStep(c), NEW d \in Calls, d # c, pc[d] # "idle",
         req[d].op = "feedback", FeedbackKey(req[d]) \notin touched'[d]
  PROVE  feedbacks'[FeedbackKey(req[d])] = feedbacks[FeedbackKey(req[d])]
<1>1. CASE feedbacks' = feedbacks
  BY <1>1
<1>2. CASE UpdateFeedback(c) \/ InsertFeedback(c)
  <2> DEFINE k == FeedbackKey(req[c])
  <2>1. FeedbackKey(req[d]) = k => k \in touched'[d]
    BY <1>2, KeysOfSame DEF UpdateFeedback, InsertFeedback, Overtake, Touch, Others
  <2>2. FeedbackKey(req[d]) # k
    BY <2>1
  <2>3. FeedbackKey(req[d]) \in FeedbackKeys
    BY CallType, KeyType
  <2> QED
    BY <1>2, <2>2, <2>3 DEF UpdateFeedback, InsertFeedback, TypeOK
<1> QED
  BY <1>1, <1>2, FeedbacksWritten

\* What becomes of the rows of a key: an update keeps their number, an insert
\* adds the value of the submission.
LEMMA FeedbackRows ==
  ASSUME TypeOK, NEW c \in Calls, CallStep(c), NEW k \in FeedbackKeys
  PROVE  \/ feedbacks'[k] = feedbacks[k]
         \/ /\ pc[c] = "updateFeedback" /\ k = FeedbackKey(req[c]) /\ UpdateFeedback(c)
            /\ feedbacks'[k] = Updated(feedbacks[k], req[c].feedback)
            /\ Len(feedbacks'[k]) = Len(feedbacks[k])
         \/ /\ pc[c] = "insertFeedback" /\ k = FeedbackKey(req[c]) /\ InsertFeedback(c)
            /\ feedbacks'[k] = Append(feedbacks[k], req[c].feedback.value)
            /\ Len(feedbacks'[k]) = Len(feedbacks[k]) + 1
<1>1. CASE feedbacks' = feedbacks
  BY <1>1
<1>2. CASE UpdateFeedback(c)
  <2>1. req[c].feedback.value \in Int /\ pc[c] = "updateFeedback"
    BY <1>2, CallType, KeyType, FeedbackType DEF UpdateFeedback
  <2>2. feedbacks[k] \in Seq(Int)
    BY DEF TypeOK
  <2>3. Len(Updated(feedbacks[k], req[c].feedback)) = Len(feedbacks[k])
    BY <2>1, <2>2, UpdatedType
  <2> QED
    BY <1>2, <2>1, <2>3 DEF UpdateFeedback, TypeOK
<1>3. CASE InsertFeedback(c)
  <2>1. req[c].feedback.value \in Int /\ pc[c] = "insertFeedback"
    BY <1>3, CallType, KeyType, FeedbackType DEF InsertFeedback
  <2>2. feedbacks[k] \in Seq(Int)
    BY DEF TypeOK
  <2> QED
    BY <1>3, <2>1, <2>2 DEF InsertFeedback, TypeOK
<1> QED
  BY <1>1, <1>2, <1>3, FeedbacksWritten

\* Where each call goes next, and which steps of its own lead to a point.
LEMMA OwnMoves ==
  ASSUME TypeOK, NEW c \in Calls, CallStep(c)
  PROVE  /\ pc'[c] = "insertFavorite" => QueryFavorite(c) \/ DatabaseFails(c)
         /\ pc'[c] = "insertFeedback" => QueryFeedback(c) \/ DatabaseFails(c)
         /\ pc'[c] = "updateFeedback" => QueryFeedback(c)
         /\ pc'[c] = "queryFavorite" => FindBook(c) \/ Exists(c)
         /\ pc'[c] = "queryFeedback" => QueryFavorite(c) \/ InsertFavorite(c) \/ DatabaseFails(c)
         /\ pc'[c] = "idle" => Respond(c)
         /\ pc'[c] = "done" => pc[c] # "idle" /\ req'[c] = req[c]
<1> USE DEF TypeOK, GoTo, Finish, tables, history
<1>1. CASE Receive(c)
  <2>1. PICK r \in Requests :
           pc' = [pc EXCEPT ![c] = CASE r.op \in {"favorite", "feedback"} -> "book"
                                     [] r.op \in {"unfavorite", "check"} -> "exists"
                                     [] r.op = "stats" -> "countFavorites"]
    BY <1>1 DEF Receive
  <2>2. r.op \in {"favorite", "unfavorite", "check", "stats", "feedback"}
    BY DEF Requests
  <2>3. pc'[c] \in {"book", "exists", "countFavorites"}
    BY <2>1, <2>2
  <2> QED BY <1>1, <2>3
<1>2. CASE FindBook(c)
  BY <1>2 DEF FindBook
<1>3. CASE Exists(c)
  <2>1. pc'[c] \in {"done", "queryFavorite", "clear"}
    BY <1>3, CallType DEF Exists
  <2> QED BY <1>3, <2>1 DEF Exists
<1>4. CASE QueryFavorite(c)
  BY <1>4 DEF QueryFavorite, AfterFavorite
<1>5. CASE InsertFavorite(c)
  BY <1>5 DEF InsertFavorite, AfterFavorite
<1>6. CASE Clear(c)
  BY <1>6 DEF Clear
<1>7. CASE QueryFeedback(c)
  BY <1>7 DEF QueryFeedback
<1>8. CASE UpdateFeedback(c)
  BY <1>8 DEF UpdateFeedback
<1>9. CASE InsertFeedback(c)
  BY <1>9 DEF InsertFeedback
<1>10. CASE CountFavorites(c)
  BY <1>10 DEF CountFavorites
<1>11. CASE CountRead(c)
  BY <1>11 DEF CountRead
<1>12. CASE Average(c)
  BY <1>12 DEF Average
<1>13. CASE DatabaseFails(c)
  <2>1. pc'[c] \in {"done", "insertFavorite", "insertFeedback", "queryFeedback"}
    BY <1>13 DEF DatabaseFails
  <2> QED BY <1>13, <2>1 DEF DatabaseFails
<1>14. CASE Respond(c)
  BY <1>14 DEF Respond
<1> QED
  BY <1>1, <1>2, <1>3, <1>4, <1>5, <1>6, <1>7, <1>8, <1>9, <1>10, <1>11, <1>12, <1>13, <1>14
  DEF CallStep

\* A call that is behind stays so while others move, and only a removal clears
\* a key, its own, of doubt.
LEMMA HistoryKept ==
  ASSUME TypeOK, NEW c \in Calls, CallStep(c)
  PROVE  /\ behind \ {c} \subseteq behind'
         /\ ~Clear(c) => unsure \subseteq unsure'
         /\ unsure \ {FavoriteKey(req[c])} \subseteq unsure'
BY DEF CallStep, Receive, FindBook, Exists, QueryFavorite, InsertFavorite, Clear, QueryFeedback,
       UpdateFeedback, InsertFeedback, CountFavorites, CountRead, Average, DatabaseFails, Respond,
       Overtake, Touch, history

\* The favorites of a key: an insert adds one, a removal takes them all.
LEMMA FavoriteRowsOfKey ==
  ASSUME TypeOK, NEW c \in Calls, CallStep(c), NEW k \in FavoriteKeys
  PROVE  \/ favorites'[k] = favorites[k]
         \/ InsertFavorite(c) /\ k = FavoriteKey(req[c]) /\ favorites'[k] = favorites[k] + 1
         \/ Clear(c) /\ k = FavoriteKey(req[c]) /\ favorites'[k] = 0
BY FavoritesWritten DEF InsertFavorite, Clear, Remaining, TypeOK

-----------------------------------------------------------------------------
(* Duplicates.                                                             *)

\* A second favorite comes from a call that was behind.
LEMMA CallOneFavorite ==
  ASSUME FeedbackInv, NEW c \in Calls, CallStep(c)
  PROVE  OneFavoriteUnlessRaced'
<1> USE DEF FeedbackInv
<1> SUFFICES ASSUME NEW k \in FavoriteKeys, favorites'[k] > 1
             PROVE  k \in unsure'
  BY DEF OneFavoriteUnlessRaced
<1>1. favorites[k] \in Nat
  BY DEF TypeOK
<1>2. CASE favorites'[k] = favorites[k] /\ ~(Clear(c) /\ k = FavoriteKey(req[c]))
  BY <1>2, HistoryKept DEF OneFavoriteUnlessRaced
<1>3. CASE InsertFavorite(c) /\ k = FavoriteKey(req[c]) /\ favorites'[k] = favorites[k] + 1
  <2>1. favorites[k] # 0 /\ pc[c] = "insertFavorite"
    BY <1>1, <1>3 DEF InsertFavorite
  <2>2. c \in behind \/ k \in unsure
    BY <1>3, <2>1 DEF Known, InsertsKnown
  <2> QED
    BY <1>3, <2>2 DEF InsertFavorite, Overtake
<1>4. CASE Clear(c) /\ k = FavoriteKey(req[c])
  BY <1>4 DEF Clear, Remaining, TypeOK
<1> QED
  BY <1>2, <1>3, <1>4, FavoriteRowsOfKey

\* A second feedback comes from a call that was behind.
LEMMA CallOneFeedback ==
  ASSUME FeedbackInv, NEW c \in Calls, CallStep(c)
  PROVE  OneFeedbackUnlessRaced'
<1> USE DEF FeedbackInv
<1> SUFFICES ASSUME NEW k \in FeedbackKeys, Len(feedbacks'[k]) > 1
             PROVE  k \in unsure'
  BY DEF OneFeedbackUnlessRaced
<1>1. Len(feedbacks[k]) \in Nat
  BY DEF TypeOK
<1>2. k \in unsure => k \in unsure'
  <2>1. Clear(c) => k # FavoriteKey(req[c])
    BY CallType, KeyType, KeysApart DEF Clear
  <2> QED BY <2>1, HistoryKept
<1>3. CASE Len(feedbacks'[k]) = Len(feedbacks[k])
  BY <1>2, <1>3 DEF OneFeedbackUnlessRaced
<1>4. CASE /\ InsertFeedback(c) /\ k = FeedbackKey(req[c]) /\ pc[c] = "insertFeedback"
           /\ Len(feedbacks'[k]) = Len(feedbacks[k]) + 1
  <2>1. c \in behind \/ k \in unsure
    BY <1>1, <1>4 DEF Known, InsertsKnown
  <2> QED
    BY <1>4, <2>1 DEF InsertFeedback, Overtake
<1> QED
  BY <1>3, <1>4, FeedbackRows

\* What a call knows when it inserts, as seen by a call that others overtake.
LEMMA OtherInsertsKnown ==
  ASSUME FeedbackInv, NEW c \in Calls, CallStep(c), NEW d \in Calls, d # c
  PROVE  InsertsKnown(d)'
<1> USE DEF FeedbackInv
<1>1. pc'[d] = pc[d] /\ req'[d] = req[d]
  BY OtherCalls
<1>2. InsertsKnown(d) /\ (d \in behind => d \in behind')
  BY HistoryKept DEF Known
<1>3. ASSUME pc[d] = "insertFavorite", d \notin behind'
      PROVE  favorites'[FavoriteKey(req[d])] = 0 \/ FavoriteKey(req[d]) \in unsure'
  <2> DEFINE k == FavoriteKey(req[d])
  <2>1. k \in FavoriteKeys
    BY <1>3, CallType, KeyType
  <2>2. favorites[k] = 0 \/ k \in unsure
    BY <1>2, <1>3 DEF InsertsKnown
  <2>3. CASE favorites'[k] = favorites[k] /\ ~(Clear(c) /\ k = FavoriteKey(req[c]))
    BY <2>2, <2>3, HistoryKept
  <2>4. CASE InsertFavorite(c) /\ k = FavoriteKey(req[c])
    <3>1. d \in behind'
      BY <1>3, <2>4, KeysOfSame DEF InsertFavorite, Overtake, Others
    <3> QED BY <1>3, <3>1
  <2>5. CASE Clear(c) /\ k = FavoriteKey(req[c])
    BY <2>1, <2>5 DEF Clear, Remaining, TypeOK
  <2> QED BY <2>1, <2>3, <2>4, <2>5, FavoriteRowsOfKey
<1>4. ASSUME pc[d] = "insertFeedback", d \notin behind'
      PROVE  Len(feedbacks'[FeedbackKey(req[d])]) = 0 \/ FeedbackKey(req[d]) \in unsure'
  <2> DEFINE k == FeedbackKey(req[d])
  <2>1. k \in FeedbackKeys
    BY <1>4, CallType, KeyType
  <2>2. Len(feedbacks[k]) = 0 \/ k \in unsure
    BY <1>2, <1>4 DEF InsertsKnown
  <2>3. k \in unsure => k \in unsure'
    <3>1. Clear(c) => k # FavoriteKey(req[c])
      BY <2>1, CallType, KeyType, KeysApart DEF Clear
    <3> QED BY <3>1, HistoryKept
  <2>4. CASE Len(feedbacks'[k]) = Len(feedbacks[k])
    BY <2>2, <2>3, <2>4
  <2>5. CASE InsertFeedback(c) /\ k = FeedbackKey(req[c])
    <3>1. d \in behind'
      BY <1>4, <2>5, KeysOfSame DEF InsertFeedback, Overtake, Others
    <3> QED BY <1>4, <3>1
  <2> QED BY <2>1, <2>4, <2>5, FeedbackRows
<1> QED
  BY <1>1, <1>3, <1>4 DEF InsertsKnown

\* What a call knows when it inserts, from its own query.
LEMMA OwnInsertsKnown ==
  ASSUME FeedbackInv, NEW c \in Calls, CallStep(c)
  PROVE  InsertsKnown(c)'
<1> USE DEF FeedbackInv
<1>1. CASE DatabaseFails(c)
  BY <1>1, CallType DEF DatabaseFails, InsertsKnown, GoTo, Finish, TypeOK
<1>2. CASE QueryFavorite(c) /\ pc'[c] = "insertFavorite"
  <2> DEFINE k == FavoriteKey(req[c])
  <2>1. k \in FavoriteKeys
    BY <1>2, CallType, KeyType DEF QueryFavorite
  <2>2. ~Only(favorites[k])
    BY <1>2 DEF QueryFavorite, AfterFavorite, GoTo, Finish, TypeOK
  <2>3. favorites[k] = 0 \/ k \in unsure
    BY <2>1, <2>2 DEF OneFavoriteUnlessRaced, Only, TypeOK
  <2> QED
    BY <1>2, <2>3 DEF QueryFavorite, InsertsKnown, tables, history
<1>3. CASE QueryFeedback(c) /\ pc'[c] = "insertFeedback"
  <2> DEFINE k == FeedbackKey(req[c])
  <2>1. k \in FeedbackKeys
    BY <1>3, CallType, KeyType DEF QueryFeedback
  <2>2. ~Only(Len(feedbacks[k]))
    BY <1>3 DEF QueryFeedback, GoTo, TypeOK
  <2>3. Len(feedbacks[k]) \in Nat
    BY <2>1 DEF TypeOK
  <2>4. Len(feedbacks[k]) = 0 \/ k \in unsure
    <3>1. Len(feedbacks[k]) # 1
      BY <2>2 DEF Only
    <3>2. Len(feedbacks[k]) > 1 => k \in unsure
      BY <2>1 DEF OneFeedbackUnlessRaced
    <3>3. \A n \in Nat : n # 1 => n = 0 \/ n > 1
      OBVIOUS
    <3> DEFINE n == Len(feedbacks[k])
    <3>4. n \in Nat /\ n # 1 /\ (n > 1 => k \in unsure)
      BY <2>3, <3>1, <3>2
    <3> HIDE DEF n
    <3>5. n = 0 \/ k \in unsure
      BY <3>3, <3>4
    <3> QED BY <3>5 DEF n
  <2> QED
    BY <1>3, <2>4 DEF QueryFeedback, InsertsKnown, tables, history
<1> QED
  BY <1>1, <1>2, <1>3, OwnMoves DEF InsertsKnown

-----------------------------------------------------------------------------
(* Answers.                                                                *)

\* What an answer about favorites says, for one call.
FavoriteAnswer(c) ==
    pc[c] = "done" /\ err[c] = "nil" /\ FavoriteKey(req[c]) \notin touched[c] =>
        /\ req[c].op = "favorite" => favorites[FavoriteKey(req[c])] > 0
        /\ req[c].op = "unfavorite" => favorites[FavoriteKey(req[c])] = 0

\* What the answer to a submission says, for one call.
FeedbackAnswer(c) ==
    pc[c] = "done" /\ err[c] = "nil" /\ req[c].op = "feedback" =>
        /\ FeedbackKey(req[c]) \in touched[c]
             \/ \E i \in DOMAIN feedbacks[FeedbackKey(req[c])] :
                   feedbacks[FeedbackKey(req[c])][i] = req[c].feedback.value
        /\ FavoriteKey(req[c]) \in touched[c] \/ favorites[FavoriteKey(req[c])] > 0

\* The answers of all calls are the invariants of the runs.
LEMMA AnswersOfCalls ==
  /\ FavoriteAnswersHold <=> \A c \in Calls : FavoriteAnswer(c)
  /\ FeedbackAnswersHold <=> \A c \in Calls : FeedbackAnswer(c)
BY DEF FavoriteAnswersHold, FeedbackAnswersHold, FavoriteAnswer, FeedbackAnswer

\* Other calls disturb an answer, given or on its way, only by touching its key.
LEMMA OtherAnswers ==
  ASSUME FeedbackInv, NEW c \in Calls, CallStep(c), NEW d \in Calls, d # c
  PROVE  FavoriteAnswer(d)' /\ FeedbackAnswer(d)' /\ FavoriteMade(d)' /\ UpdatesFound(d)'
<1> USE DEF FeedbackInv
<1>1. /\ pc'[d] = pc[d] /\ req'[d] = req[d] /\ err'[d] = err[d]
      /\ touched[d] \subseteq touched'[d]
  BY OtherCalls
<1>2. FavoriteAnswer(d) /\ FeedbackAnswer(d) /\ FavoriteMade(d) /\ UpdatesFound(d)
  BY AnswersOfCalls DEF Known
<1>3. pc[d] # "idle" =>
        FavoriteKey(req[d]) \in touched'[d]
          \/ favorites'[FavoriteKey(req[d])] = favorites[FavoriteKey(req[d])]
  BY FavoritesOfOthers
<1>4. pc[d] # "idle" /\ req[d].op = "feedback" =>
        FeedbackKey(req[d]) \in touched'[d]
          \/ feedbacks'[FeedbackKey(req[d])] = feedbacks[FeedbackKey(req[d])]
  BY FeedbacksOfOthers
<1>5. FavoriteAnswer(d)'
  BY <1>1, <1>2, <1>3 DEF FavoriteAnswer
<1>6. FeedbackAnswer(d)'
  BY <1>1, <1>2, <1>3, <1>4 DEF FeedbackAnswer
<1>7. FavoriteMade(d)'
  BY <1>1, <1>2, <1>3 DEF FavoriteMade
<1>8. UpdatesFound(d)'
  <2> SUFFICES ASSUME pc[d] = "updateFeedback"
               PROVE  Len(feedbacks'[FeedbackKey(req[d])]) > 0
    BY <1>1 DEF UpdatesFound
  <2> DEFINE k == FeedbackKey(req[d])
  <2>1. k \in FeedbackKeys
    BY CallType, KeyType
  <2>2. Len(feedbacks[k]) \in Nat /\ Len(feedbacks[k]) > 0
    BY <1>2, <2>1 DEF UpdatesFound, TypeOK
  <2>3. \/ Len(feedbacks'[k]) = Len(feedbacks[k])
        \/ Len(feedbacks'[k]) = Len(feedbacks[k]) + 1
    BY <2>1, FeedbackRows
  <2> QED
    BY <2>2, <2>3
<1> QED
  BY <1>5, <1>6, <1>7, <1>8

\* A submission has made the book a favorite once it goes on to its feedback:
\* it found the row, inserted it, or the insert was refused and that ignored.
LEMMA OwnFavoriteMade ==
  ASSUME FeedbackInv, NEW c \in Calls, CallStep(c)
  PROVE  FavoriteMade(c)'
<1> USE DEF FeedbackInv
<1>1. CASE DatabaseFails(c) /\ pc'[c] = "queryFeedback"
  <2>1. pc[c] = "insertFavorite"
    BY <1>1 DEF DatabaseFails, GoTo, Finish, TypeOK
  <2>2. FavoriteKey(req[c]) \in touched'[c] /\ req' = req
    BY <1>1, <2>1 DEF DatabaseFails, TypeOK
  <2> QED
    BY <2>2 DEF FavoriteMade
<1>2. CASE QueryFavorite(c) /\ pc'[c] = "queryFeedback"
  <2>1. Only(favorites[FavoriteKey(req[c])])
    BY <1>2 DEF QueryFavorite, GoTo, TypeOK
  <2> QED
    BY <1>2, <2>1 DEF QueryFavorite, FavoriteMade, Only, tables, history
<1>3. CASE InsertFavorite(c) /\ pc'[c] = "queryFeedback"
  <2>1. FavoriteKey(req[c]) \in FavoriteKeys
    BY <1>3, CallType, KeyType DEF InsertFavorite
  <2>2. favorites[FavoriteKey(req[c])] \in Nat
    BY <2>1 DEF TypeOK
  <2>3. favorites'[FavoriteKey(req[c])] > 0 /\ req' = req
    BY <1>3, <2>1, <2>2 DEF InsertFavorite, TypeOK
  <2> QED
    BY <2>3 DEF FavoriteMade
<1>4. CASE QueryFeedback(c)
  BY <1>4 DEF QueryFeedback, FavoriteMade, Known, tables, history
<1>5. ~(DatabaseFails(c) /\ pc'[c] \in {"updateFeedback", "insertFeedback"})
        \/ FavoriteMade(c)'
  <2> SUFFICES ASSUME DatabaseFails(c), pc'[c] \in {"updateFeedback", "insertFeedback"}
               PROVE  FavoriteMade(c)'
    OBVIOUS
  <2>1. pc[c] = "queryFeedback"
    BY DEF DatabaseFails, GoTo, Finish, TypeOK
  <2>2. favorites' = favorites /\ req' = req /\ touched' = touched
    BY <2>1 DEF DatabaseFails, tables
  <2> QED
    BY <2>1, <2>2 DEF FavoriteMade, Known
<1> QED
  BY <1>1, <1>2, <1>3, <1>4, <1>5, OwnMoves DEF FavoriteMade

\* An update follows a query that found a row.
LEMMA OwnUpdatesFound ==
  ASSUME FeedbackInv, NEW c \in Calls, CallStep(c)
  PROVE  UpdatesFound(c)'
<1> USE DEF FeedbackInv
<1>1. CASE QueryFeedback(c) /\ pc'[c] = "updateFeedback"
  <2>1. Only(Len(feedbacks[FeedbackKey(req[c])]))
    BY <1>1 DEF QueryFeedback, GoTo, TypeOK
  <2> QED
    BY <1>1, <2>1 DEF QueryFeedback, UpdatesFound, Only, tables
<1> QED
  BY <1>1, OwnMoves DEF UpdatesFound

\* The steps that answer a call without an error.
LEMMA GoodEnds ==
  ASSUME TypeOK, NEW c \in Calls, CallStep(c), pc'[c] = "done", err'[c] = "nil"
  PROVE  \/ Exists(c) /\ req[c].op = "check"
         \/ Exists(c) /\ req[c].op = "favorite" /\ favorites[FavoriteKey(req[c])] > 0
         \/ QueryFavorite(c) /\ req[c].op = "favorite" /\ favorites[FavoriteKey(req[c])] = 1
         \/ InsertFavorite(c) /\ req[c].op = "favorite"
         \/ Clear(c) \/ UpdateFeedback(c) \/ InsertFeedback(c) \/ Average(c)
<1> USE DEF TypeOK, GoTo, Finish
<1>1. CASE Receive(c)
  <2>1. pc'[c] # "done"
    <3>1. PICK r \in Requests :
             pc' = [pc EXCEPT ![c] = CASE r.op \in {"favorite", "feedback"} -> "book"
                                       [] r.op \in {"unfavorite", "check"} -> "exists"
                                       [] r.op = "stats" -> "countFavorites"]
      BY <1>1 DEF Receive
    <3>2. r.op \in {"favorite", "unfavorite", "check", "stats", "feedback"}
      BY DEF Requests
    <3> QED BY <3>1, <3>2
  <2> QED BY <2>1
<1>2. ~FindBook(c)
  BY DEF FindBook
<1>3. CASE Exists(c)
  <2>1. req[c].op = "unfavorite" =>
          IF favorites[FavoriteKey(req[c])] > 0 THEN pc'[c] = "clear"
          ELSE err'[c] = "favorite not found"
    BY <1>3 DEF Exists
  <2>2. req[c].op = "favorite" /\ ~(favorites[FavoriteKey(req[c])] > 0) =>
          pc'[c] = "queryFavorite"
    BY <1>3 DEF Exists
  <2> QED
    BY <1>3, <2>1, <2>2, CallType DEF Exists
<1>4. CASE QueryFavorite(c)
  BY <1>4 DEF QueryFavorite, AfterFavorite, Only
<1>5. CASE InsertFavorite(c)
  BY <1>5 DEF InsertFavorite, AfterFavorite
<1>6. ~QueryFeedback(c) /\ ~CountFavorites(c) /\ ~CountRead(c)
  BY DEF QueryFeedback, CountFavorites, CountRead
<1>7. ~DatabaseFails(c)
  BY DEF DatabaseFails
<1>8. ~Respond(c)
  BY DEF Respond
<1> QED
  BY <1>1, <1>2, <1>3, <1>4, <1>5, <1>6, <1>7, <1>8 DEF CallStep

\* The answer about favorites is right when it is given.
LEMMA OwnFavoriteAnswer ==
  ASSUME FeedbackInv, NEW c \in Calls, CallStep(c)
  PROVE  FavoriteAnswer(c)'
<1> USE DEF FeedbackInv
<1> DEFINE k == FavoriteKey(req[c])
<1> SUFFICES ASSUME pc'[c] = "done", err'[c] = "nil"
             PROVE  /\ req[c].op = "favorite" => favorites'[k] > 0
                    /\ req[c].op = "unfavorite" => favorites'[k] = 0
  BY OwnMoves DEF FavoriteAnswer
<1>1. k \in FavoriteKeys /\ favorites[k] \in Nat
  BY OwnMoves, CallType, KeyType DEF TypeOK
<1>2. CASE Exists(c) /\ req[c].op = "check"
  BY <1>2
<1>3. CASE /\ req[c].op = "favorite" /\ favorites[k] > 0
           /\ Exists(c) \/ QueryFavorite(c)
  BY <1>3 DEF Exists, QueryFavorite, tables
<1>4. CASE InsertFavorite(c) /\ req[c].op = "favorite"
  BY <1>1, <1>4 DEF InsertFavorite, TypeOK
<1>5. CASE Clear(c)
  BY <1>1, <1>5, CallType DEF Clear, Remaining, TypeOK
<1>6. CASE UpdateFeedback(c) \/ InsertFeedback(c) \/ Average(c)
  BY <1>6, CallType DEF UpdateFeedback, InsertFeedback, Average
<1> QED
  BY <1>1, <1>2, <1>4, <1>5, <1>6, <1>3, GoodEnds

\* The answer to a submission is right when it is given.
LEMMA OwnFeedbackAnswer ==
  ASSUME FeedbackInv, NEW c \in Calls, CallStep(c)
  PROVE  FeedbackAnswer(c)'
<1> USE DEF FeedbackInv
<1> DEFINE k == FeedbackKey(req[c])
           f == FavoriteKey(req[c])
<1> SUFFICES ASSUME pc'[c] = "done", err'[c] = "nil", req[c].op = "feedback"
             PROVE  /\ \E i \in DOMAIN feedbacks'[k] : feedbacks'[k][i] = req[c].feedback.value
                    /\ f \in touched'[c] \/ favorites'[f] > 0
  BY OwnMoves DEF FeedbackAnswer
<1>1. pc[c] # "idle" /\ k \in FeedbackKeys /\ req[c].feedback.value \in Int
  BY OwnMoves, CallType, KeyType, FeedbackType
<1>2. feedbacks[k] \in Seq(Int)
  BY <1>1 DEF TypeOK
<1>3. UpdateFeedback(c) \/ InsertFeedback(c)
  <2>1. ~Clear(c) /\ ~Average(c)
    BY CallType DEF Clear, Average
  <2> QED BY <2>1, GoodEnds
<1>4. f \in touched'[c] \/ favorites'[f] > 0
  <2>1. /\ FavoriteMade(c) /\ pc[c] \in {"updateFeedback", "insertFeedback"}
        /\ favorites' = favorites
    BY <1>3 DEF UpdateFeedback, InsertFeedback, Known
  <2>2. touched[c] \subseteq touched'[c]
    BY <1>3 DEF UpdateFeedback, InsertFeedback, Overtake, Touch, TypeOK
  <2> QED BY <2>1, <2>2 DEF FavoriteMade
<1>5. CASE UpdateFeedback(c)
  <2>1. feedbacks'[k] = Updated(feedbacks[k], req[c].feedback)
    BY <1>1, <1>5 DEF UpdateFeedback, TypeOK
  <2>2. Len(feedbacks[k]) > 0
    BY <1>5 DEF UpdateFeedback, UpdatesFound, Known
  <2>3. /\ feedbacks'[k][1] = req[c].feedback.value
        /\ feedbacks'[k] \in Seq(Int) /\ Len(feedbacks'[k]) > 0
    BY <1>1, <1>2, <2>1, <2>2, UpdatedType
  <2>4. 1 \in DOMAIN feedbacks'[k]
    BY <2>3
  <2> QED BY <1>4, <2>3, <2>4
<1>6. CASE InsertFeedback(c)
  <2>1. feedbacks'[k] = Append(feedbacks[k], req[c].feedback.value)
    BY <1>1, <1>6 DEF InsertFeedback, TypeOK
  <2>2. /\ Len(feedbacks[k]) + 1 \in DOMAIN feedbacks'[k]
        /\ feedbacks'[k][Len(feedbacks[k]) + 1] = req[c].feedback.value
    BY <1>1, <1>2, <2>1
  <2> QED BY <1>4, <2>2
<1> QED
  BY <1>3, <1>5, <1>6

-----------------------------------------------------------------------------
(* Ratings and statistics.                                                 *)

\* A submission on its way to the tables was validated before, and no call
\* changes its request.
LEMMA CallValidated ==
  ASSUME FeedbackInv, NEW c \in Calls, CallStep(c), NEW d \in Calls
  PROVE  Validated(d)'
<1> USE DEF FeedbackInv
<1>1. CASE d # c
  BY <1>1, OtherCalls DEF Validated, Known
<1>2. CASE d = c
  <2>1. CASE FindBook(c)
    BY <2>1, <1>2, CallType DEF FindBook, Validated, GoTo, Finish, TypeOK
  <2>2. CASE Exists(c)
    BY <2>2, <1>2, CallType DEF Exists, Validated
  <2>3. CASE QueryFavorite(c) \/ InsertFavorite(c) \/ QueryFeedback(c)
    BY <2>3, <1>2 DEF QueryFavorite, InsertFavorite, QueryFeedback, Validated, Known
  <2>4. CASE DatabaseFails(c)
    <3>1. /\ req' = req
          /\ pc[c] \in {"queryFavorite", "insertFavorite", "queryFeedback"} \/ pc'[c] = "done"
      BY <2>4 DEF DatabaseFails, GoTo, Finish, TypeOK
    <3> QED BY <3>1, <1>2 DEF Validated, Known
  <2> QED
    BY <1>2, <2>1, <2>2, <2>3, <2>4, OwnMoves DEF Validated
<1> QED
  BY <1>1, <1>2

\* Only valid ratings are written.
LEMMA CallRatingsLegal ==
  ASSUME FeedbackInv, NEW c \in Calls, CallStep(c)
  PROVE  RatingsLegal'
<1> USE DEF FeedbackInv
<1> SUFFICES ASSUME NEW k \in FeedbackKeys, k[3] = "difficulty_rating"
             PROVE  \A i \in DOMAIN feedbacks'[k] : feedbacks'[k][i] \in 1..5
  BY DEF RatingsLegal
<1>1. feedbacks[k] \in Seq(Int) /\ \A i \in DOMAIN feedbacks[k] : feedbacks[k][i] \in 1..5
  BY DEF RatingsLegal, TypeOK
<1>2. ASSUME pc[c] \in {"updateFeedback", "insertFeedback"}, k = FeedbackKey(req[c])
      PROVE  req[c].feedback.value \in 1..5 /\ req[c].feedback.value \in Int
  <2>1. req[c].op = "feedback"
    BY <1>2, CallType
  <2>2. Valid(req[c].feedback)
    BY <1>2, <2>1 DEF Validated, Known
  <2>3. req[c].feedback.kind = "difficulty_rating"
    BY <1>2 DEF FeedbackKey
  <2> QED BY <2>2, <2>3 DEF Valid
<1>3. CASE feedbacks'[k] = feedbacks[k]
  BY <1>1, <1>3
<1>4. CASE /\ pc[c] = "updateFeedback" /\ k = FeedbackKey(req[c])
           /\ feedbacks'[k] = Updated(feedbacks[k], req[c].feedback)
  <2>1. /\ Len(feedbacks'[k]) = Len(feedbacks[k]) /\ feedbacks'[k] \in Seq(Int)
        /\ Len(feedbacks[k]) > 0 => feedbacks'[k][1] = req[c].feedback.value
        /\ \A i \in DOMAIN feedbacks[k] : i # 1 => feedbacks'[k][i] = feedbacks[k][i]
    BY <1>1, <1>2, <1>4, UpdatedType
  <2>2. DOMAIN feedbacks'[k] = DOMAIN feedbacks[k]
    BY <1>1, <2>1
  <2>3. ASSUME NEW i \in DOMAIN feedbacks[k]
        PROVE  feedbacks'[k][i] \in 1..5
    <3>1. Len(feedbacks[k]) > 0
      BY <1>1
    <3> QED BY <1>1, <1>2, <1>4, <2>1, <3>1
  <2> QED BY <2>2, <2>3
<1>5. CASE /\ pc[c] = "insertFeedback" /\ k = FeedbackKey(req[c])
           /\ feedbacks'[k] = Append(feedbacks[k], req[c].feedback.value)
  BY <1>1, <1>2, <1>5
<1> QED
  BY <1>3, <1>4, <1>5, FeedbackRows

\* Without duplicates no more users have read a book than there are: each row
\* is another user's.
LEMMA ReadersBounded ==
  ASSUME TypeOK, OneFeedbackUnlessRaced, NEW b \in Books,
         \A u \in Users : <<u, b, "read_complete">> \notin unsure
  PROVE  Cardinality(RowsOf(b, "read_complete")) <= Cardinality(Users)
<1> DEFINE R == RowsOf(b, "read_complete")
           user == [p \in R |-> p[1]]
<1>1. ASSUME NEW p \in R
      PROVE  p[1] \in Users /\ p = <<p[1], 1>>
  <2>1. PICK u \in Users : p \in {<<u, i>> : i \in DOMAIN feedbacks[<<u, b, "read_complete">>]}
    BY <1>1 DEF RowsOf
  <2>2. PICK i \in DOMAIN feedbacks[<<u, b, "read_complete">>] : p = <<u, i>>
    BY <2>1
  <2>3. <<u, b, "read_complete">> \in FeedbackKeys
    BY DEF FeedbackKeys, Kinds
  <2>4. feedbacks[<<u, b, "read_complete">>] \in Seq(Int)
    BY <2>3 DEF TypeOK
  <2>5. Len(feedbacks[<<u, b, "read_complete">>]) <= 1
    <3>1. ~(Len(feedbacks[<<u, b, "read_complete">>]) > 1)
      BY <2>3 DEF OneFeedbackUnlessRaced
    <3> QED BY <2>4, <3>1
  <2>6. i = 1
    BY <2>4, <2>5
  <2> QED BY <2>2, <2>6
<1>2. user \in Injection(R, Users)
  <2> HIDE DEF R
  <2>1. user \in [R -> Users]
    BY <1>1
  <2>2. \A p, q \in R : user[p] = user[q] => p = q
    BY <1>1
  <2> QED BY <2>1, <2>2 DEF Injection, IsInjective
<1> HIDE DEF R, user
<1>3. Cardinality(R) <= Cardinality(Users)
  BY <1>2, UsersAssumption, FS_Injection
<1> QED
  BY <1>3 DEF R

\* What the statistics of one call say.
Sensible(c) ==
    /\ stats[c].rated <= stats[c].sum /\ stats[c].sum <= 5 * stats[c].rated
    /\ stats[c].read <= Cardinality(Users)
         \/ \E u \in Users : <<u, req[c].book, "read_complete">> \in unsure

\* A key of readers is never cleared of doubt.
LEMMA ReadersInDoubt ==
  ASSUME TypeOK, NEW c \in Calls, CallStep(c), NEW u, NEW b, <<u, b, "read_complete">> \in unsure
  PROVE  <<u, b, "read_complete">> \in unsure'
BY HistoryKept DEF FavoriteKey

\* Statistics that are empty are sensible.
LEMMA EmptySensible ==
  ASSUME NEW c \in Calls, stats[c] = NoStats
  PROVE  Sensible(c)
BY UsersAssumption, FS_CardinalityType DEF NoStats, Sensible

\* Each query of GetBookStats keeps the statistics sensible, whatever was
\* written since the one before.
LEMMA CallSensible ==
  ASSUME FeedbackInv, NEW c \in Calls, CallStep(c), NEW d \in Calls
  PROVE  Sensible(d)' /\ StatsFresh(d)'
<1> USE DEF FeedbackInv
<1>1. Sensible(d) /\ StatsFresh(d)
  BY DEF StatsMakeSense, Sensible, Known
<1>2. ASSUME stats'[d] = stats[d], req'[d] = req[d]
      PROVE  Sensible(d)'
  BY <1>1, <1>2, ReadersInDoubt DEF Sensible
<1>3. CASE d # c
  BY <1>1, <1>2, <1>3, OtherCalls DEF StatsFresh
<1>4. CASE d = c
  <2>1. CASE Receive(c)
    <3>1. stats' = stats /\ stats[c] = NoStats
      BY <1>1, <1>4, <2>1 DEF Receive, StatsFresh
    <3> QED BY <1>4, <3>1, UsersAssumption, FS_CardinalityType DEF NoStats, Sensible, StatsFresh
  <2>2. CASE Respond(c)
    <3>1. stats'[c] = NoStats
      BY <2>2 DEF Respond, TypeOK
    <3> QED BY <1>4, <3>1, UsersAssumption, FS_CardinalityType DEF NoStats, Sensible, StatsFresh
  <2>3. CASE CountFavorites(c)
    <3>1. /\ pc'[c] # "idle" /\ req' = req
          /\ stats'[c] = [stats[c] EXCEPT !.favorites = FavoriteRows(req[c].book)]
      BY <2>3 DEF CountFavorites, GoTo, TypeOK
    <3>2. /\ stats'[c].rated = stats[c].rated /\ stats'[c].sum = stats[c].sum
          /\ stats'[c].read = stats[c].read
      BY <3>1 DEF TypeOK, Stats
    <3> QED BY <1>1, <1>4, <3>1, <3>2, ReadersInDoubt DEF Sensible, StatsFresh
  <2>4. CASE CountRead(c)
    <3> DEFINE b == req[c].book
    <3>1. /\ pc'[c] # "idle" /\ req' = req /\ unsure' = unsure
          /\ stats'[c] = [stats[c] EXCEPT !.read = Cardinality(RowsOf(b, "read_complete"))]
      BY <2>4 DEF CountRead, ReadRows, GoTo, TypeOK, history
    <3>2. /\ stats'[c].rated = stats[c].rated /\ stats'[c].sum = stats[c].sum
          /\ stats'[c].read = Cardinality(RowsOf(b, "read_complete"))
      BY <3>1 DEF TypeOK, Stats
    <3>3. b \in Books
      BY <2>4, CallType, KeyType DEF CountRead
    <3>4. \/ \E u \in Users : <<u, b, "read_complete">> \in unsure
          \/ Cardinality(RowsOf(b, "read_complete")) <= Cardinality(Users)
      BY <3>3, ReadersBounded
    <3> QED BY <1>1, <1>4, <3>1, <3>2, <3>4 DEF Sensible, StatsFresh
  <2>5. CASE Average(c)
    <3> DEFINE b == req[c].book
               sum == RatingSum(b)
               rated == Cardinality(RatedRows(b))
    <3>1. /\ pc'[c] # "idle" /\ req' = req
          /\ stats'[c] = [stats[c] EXCEPT !.sum = sum, !.rated = rated]
      BY <2>5 DEF Average, Finish, TypeOK
    <3>2. stats'[c].rated = rated /\ stats'[c].sum = sum /\ stats'[c].read = stats[c].read
      BY <3>1 DEF TypeOK, Stats
    <3>3. b \in Books
      BY <2>5, CallType, KeyType DEF Average
    <3>4. ASSUME NEW p \in RatedRows(b)
          PROVE  feedbacks[<<p[1], b, "difficulty_rating">>][p[2]] \in 1..5
      <4>1. PICK u \in Users :
               p \in {<<u, i>> : i \in DOMAIN feedbacks[<<u, b, "difficulty_rating">>]}
        BY <3>4 DEF RatedRows, RowsOf
      <4>2. PICK i \in DOMAIN feedbacks[<<u, b, "difficulty_rating">>] : p = <<u, i>>
        BY <4>1
      <4>3. <<u, b, "difficulty_rating">> \in FeedbackKeys
        BY <3>3 DEF FeedbackKeys, Kinds
      <4>4. feedbacks[<<u, b, "difficulty_rating">>][i] \in 1..5
        BY <4>3 DEF RatingsLegal
      <4> QED BY <4>2, <4>4
    <3>5. rated <= sum /\ sum <= 5 * rated
      BY <3>3, <3>4, RatingSumType
    <3> QED BY <1>1, <1>4, <3>1, <3>2, <3>5, ReadersInDoubt DEF Sensible, StatsFresh
  <2>6. CASE \/ FindBook(c) \/ Exists(c) \/ QueryFavorite(c) \/ InsertFavorite(c) \/ Clear(c)
             \/ QueryFeedback(c) \/ UpdateFeedback(c) \/ InsertFeedback(c) \/ DatabaseFails(c)
    <3>1. stats' = stats /\ req' = req
      BY <2>6 DEF FindBook, Exists, QueryFavorite, InsertFavorite, Clear, QueryFeedback,
                  UpdateFeedback, InsertFeedback, DatabaseFails
    <3>2. pc'[c] = "idle" => Respond(c)
      BY OwnMoves
    <3>3. pc[c] # "done"
      BY <2>6 DEF FindBook, Exists, QueryFavorite, InsertFavorite, Clear, QueryFeedback,
                  UpdateFeedback, InsertFeedback, DatabaseFails
    <3>4. pc'[c] # "idle"
      BY <3>2, <3>3 DEF Respond
    <3> QED BY <1>2, <1>4, <3>1, <3>4 DEF StatsFresh
  <2> QED
    BY <2>1, <2>2, <2>3, <2>4, <2>5, <2>6 DEF CallStep
<1> QED
  BY <1>3, <1>4

-----------------------------------------------------------------------------
(* Statistics are current.                                                 *)

\* The numbers of a book depend on the rows of the book alone.
LEMMA FavoriteRowsKept ==
  ASSUME NEW b, \A u \in Users :
           favorites'[<<u, b, "favorite">>] = favorites[<<u, b, "favorite">>]
  PROVE  FavoriteRows(b)' = FavoriteRows(b)
<1>1. [u \in Users |-> favorites[<<u, b, "favorite">>]]'
        = [u \in Users |-> favorites[<<u, b, "favorite">>]]
  OBVIOUS
<1> QED
  BY <1>1 DEF FavoriteRows

LEMMA RowsKept ==
  ASSUME NEW b, NEW kind,
         \A u \in Users : feedbacks'[<<u, b, kind>>] = feedbacks[<<u, b, kind>>]
  PROVE  RowsOf(b, kind)' = RowsOf(b, kind)
BY DEF RowsOf

LEMMA RatingsKept ==
  ASSUME NEW b, \A u \in Users :
           feedbacks'[<<u, b, "difficulty_rating">>] = feedbacks[<<u, b, "difficulty_rating">>]
  PROVE  RatedRows(b)' = RatedRows(b) /\ RatingSum(b)' = RatingSum(b)
<1> DEFINE value(p) == feedbacks[<<p[1], b, "difficulty_rating">>][p[2]]
<1>1. RowsOf(b, "difficulty_rating")' = RowsOf(b, "difficulty_rating")
  BY RowsKept
<1>2. ASSUME NEW p \in RowsOf(b, "difficulty_rating")
      PROVE  value(p)' = value(p)
  <2>1. PICK u \in Users :
           p \in {<<u, i>> : i \in DOMAIN feedbacks[<<u, b, "difficulty_rating">>]}
    BY <1>2 DEF RowsOf
  <2>2. p[1] = u
    BY <2>1
  <2> QED
    BY <2>2
<1>3. RatedRows(b)' = RatedRows(b)
  BY <1>1, <1>2 DEF RatedRows
<1>4. [p \in RatedRows(b) |-> value(p)]' = [p \in RatedRows(b) |-> value(p)]
  <2>1. \A p \in RatedRows(b) : value(p)' = value(p)
    BY <1>2 DEF RatedRows
  <2> QED
    BY <1>3, <2>1
<1>5. RatingSum(b)' = RatingSum(b)
  BY <1>4 DEF RatingSum
<1> QED
  BY <1>3, <1>5

\* What statistics have read of the rows of a kind stays so as long as no other
\* call touches them.
LEMMA UntouchedRows ==
  ASSUME TypeOK, NEW c \in Calls, CallStep(c), NEW d \in Calls, d # c,
         pc[d] # "idle", req[d].op = "stats", NEW u \in Users
  PROVE  /\ <<u, req[d].book, "favorite">> \notin touched'[d] =>
               favorites'[<<u, req[d].book, "favorite">>] = favorites[<<u, req[d].book, "favorite">>]
         /\ \A kind \in Kinds : <<u, req[d].book, kind>> \notin touched'[d] =>
               feedbacks'[<<u, req[d].book, kind>>] = feedbacks[<<u, req[d].book, kind>>]
<1> DEFINE b == req[d].book
<1>1. b \in Books
  BY CallType, KeyType
<1>2. ASSUME <<u, b, "favorite">> \notin touched'[d]
      PROVE  favorites'[<<u, b, "favorite">>] = favorites[<<u, b, "favorite">>]
  <2> DEFINE k == <<u, b, "favorite">>
  <2>1. k \in FavoriteKeys
    BY <1>1 DEF FavoriteKeys
  <2>2. (InsertFavorite(c) \/ Clear(c)) /\ k = FavoriteKey(req[c]) => k \in touched'[d]
    <3> SUFFICES ASSUME InsertFavorite(c) \/ Clear(c), k = FavoriteKey(req[c])
                 PROVE  k \in touched'[d]
      OBVIOUS
    <3>1. d \in Others(c)
      BY DEF FavoriteKey, Others
    <3>2. Touch(c, k)
      BY DEF InsertFavorite, Clear, Overtake
    <3> QED
      BY <3>1, <3>2 DEF Touch
  <2> QED
    BY <1>2, <2>1, <2>2, FavoriteRowsOfKey
<1>3. ASSUME NEW kind \in Kinds, <<u, b, kind>> \notin touched'[d]
      PROVE  feedbacks'[<<u, b, kind>>] = feedbacks[<<u, b, kind>>]
  <2> DEFINE k == <<u, b, kind>>
  <2>1. k \in FeedbackKeys
    BY <1>1 DEF FeedbackKeys
  <2>2. (UpdateFeedback(c) \/ InsertFeedback(c)) /\ k = FeedbackKey(req[c]) => k \in touched'[d]
    <3> SUFFICES ASSUME UpdateFeedback(c) \/ InsertFeedback(c), k = FeedbackKey(req[c])
                 PROVE  k \in touched'[d]
      OBVIOUS
    <3>1. d \in Others(c)
      BY DEF FeedbackKey, Others
    <3>2. Touch(c, k)
      BY DEF UpdateFeedback, InsertFeedback, Overtake
    <3> QED
      BY <3>1, <3>2 DEF Touch
  <2> QED
    BY <1>3, <2>1, <2>2, FeedbackRows
<1> QED
  BY <1>2, <1>3

\* Other calls disturb a number of the statistics only by touching its rows.
LEMMA OtherStatsCurrent ==
  ASSUME FeedbackInv, NEW c \in Calls, CallStep(c), NEW d \in Calls, d # c
  PROVE  StatsCurrent(d)'
<1> USE DEF FeedbackInv
<1>1. /\ pc'[d] = pc[d] /\ req'[d] = req[d] /\ stats'[d] = stats[d] /\ err'[d] = err[d]
      /\ touched[d] \subseteq touched'[d]
  BY OtherCalls
<1>2. StatsCurrent(d)
  BY DEF Known
<1>3. CASE ~(pc[d] # "idle" /\ req[d].op = "stats")
  BY <1>1, <1>3 DEF StatsCurrent
<1>4. CASE pc[d] # "idle" /\ req[d].op = "stats"
  <2> DEFINE b == req[d].book
  <2>1. \A kind : Untouched(d, kind)' => Untouched(d, kind)
    BY <1>1 DEF Untouched
  <2>2. Untouched(d, "favorite")' => FavoriteRows(b)' = FavoriteRows(b)
    <3>1. Untouched(d, "favorite")' => \A u \in Users :
             favorites'[<<u, b, "favorite">>] = favorites[<<u, b, "favorite">>]
      BY <1>1, <1>4, UntouchedRows DEF Untouched
    <3> QED BY <1>1, <3>1, FavoriteRowsKept
  <2>3. \A kind \in Kinds : Untouched(d, kind)' => \A u \in Users :
           feedbacks'[<<u, b, kind>>] = feedbacks[<<u, b, kind>>]
    BY <1>1, <1>4, UntouchedRows DEF Untouched
  <2>4. Untouched(d, "read_complete")' => ReadRows(b)' = ReadRows(b)
    BY <1>1, <2>3, RowsKept DEF ReadRows, Kinds
  <2>5. Untouched(d, "difficulty_rating")' =>
           RatedRows(b)' = RatedRows(b) /\ RatingSum(b)' = RatingSum(b)
    BY <1>1, <2>3, RatingsKept DEF Kinds
  <2>6. req'[d].book = b
    BY <1>1
  <2> QED
    BY <1>1, <1>2, <1>4, <2>1, <2>2, <2>4, <2>5, <2>6 DEF StatsCurrent
<1> QED
  BY <1>3, <1>4

\* The steps that lead to the points of the statistics.
LEMMA StatsMoves ==
  ASSUME TypeOK, NEW c \in Calls, CallStep(c), pc'[c] # "idle", req'[c].op = "stats"
  PROVE  /\ pc'[c] = "countRead" => CountFavorites(c)
         /\ pc'[c] = "average" => CountRead(c)
         /\ pc'[c] = "done" /\ err'[c] = "nil" => Average(c)
<1>1. pc'[c] = "done" /\ err'[c] = "nil" => Average(c)
  <2> SUFFICES ASSUME pc'[c] = "done", err'[c] = "nil"
               PROVE  Average(c)
    OBVIOUS
  <2>1. pc[c] # "idle" /\ req[c].op = "stats"
    BY OwnMoves
  <2>2. ~Clear(c) /\ ~UpdateFeedback(c) /\ ~InsertFeedback(c)
    BY <2>1, CallType DEF Clear, UpdateFeedback, InsertFeedback
  <2> QED
    BY <2>1, <2>2, GoodEnds
<1>2. pc'[c] \in {"countRead", "average"} => CountFavorites(c) \/ CountRead(c)
  <2> USE DEF TypeOK, GoTo, Finish
  <2>1. CASE Receive(c)
    <3>1. PICK p \in {"book", "exists", "countFavorites"} : pc' = [pc EXCEPT ![c] = p]
      <4>1. PICK r \in Requests :
               pc' = [pc EXCEPT ![c] = CASE r.op \in {"favorite", "feedback"} -> "book"
                                         [] r.op \in {"unfavorite", "check"} -> "exists"
                                         [] r.op = "stats" -> "countFavorites"]
        BY <2>1 DEF Receive
      <4>2. r.op \in {"favorite", "unfavorite", "check", "stats", "feedback"}
        BY DEF Requests
      <4> QED BY <4>1, <4>2
    <3> QED BY <3>1
  <2>2. CASE FindBook(c) \/ QueryFavorite(c) \/ InsertFavorite(c) \/ Clear(c)
    BY <2>2 DEF FindBook, QueryFavorite, InsertFavorite, AfterFavorite, Clear
  <2>3. CASE Exists(c)
    <3>1. pc'[c] \in {"done", "queryFavorite", "clear"}
      BY <2>3, CallType DEF Exists
    <3> QED BY <3>1
  <2>4. CASE QueryFeedback(c) \/ UpdateFeedback(c) \/ InsertFeedback(c) \/ Average(c)
    BY <2>4 DEF QueryFeedback, UpdateFeedback, InsertFeedback, Average
  <2>5. CASE DatabaseFails(c)
    <3>1. pc'[c] \in {"done", "insertFavorite", "insertFeedback", "queryFeedback"}
      BY <2>5 DEF DatabaseFails
    <3> QED BY <3>1
  <2>6. CASE Respond(c)
    BY <2>6 DEF Respond
  <2> QED
    BY <2>1, <2>2, <2>3, <2>4, <2>5, <2>6 DEF CallStep
<1>3. /\ CountFavorites(c) => pc'[c] = "countRead"
      /\ CountRead(c) => pc'[c] = "average"
  BY DEF CountFavorites, CountRead, GoTo, TypeOK
<1> QED
  BY <1>1, <1>2, <1>3

\* A query computes its own number and keeps those of the queries before it.
LEMMA OwnStatsCurrent ==
  ASSUME FeedbackInv, NEW c \in Calls, CallStep(c)
  PROVE  StatsCurrent(c)'
<1> USE DEF FeedbackInv
<1> DEFINE b == req[c].book
<1>1. CASE CountFavorites(c) \/ CountRead(c) \/ Average(c)
  <2>1. /\ pc[c] # "idle" /\ req' = req /\ touched' = touched
        /\ favorites' = favorites /\ feedbacks' = feedbacks
    BY <1>1 DEF CountFavorites, CountRead, Average, tables, history
  <2>2. FavoriteRows(b)' = FavoriteRows(b)
    BY <2>1, FavoriteRowsKept
  <2>3. ReadRows(b)' = ReadRows(b)
    BY <2>1, RowsKept DEF ReadRows
  <2>4. RatedRows(b)' = RatedRows(b) /\ RatingSum(b)' = RatingSum(b)
    BY <2>1, RatingsKept
  <2>5. \A kind : Untouched(c, kind)' => Untouched(c, kind)
    BY <2>1 DEF Untouched
  <2>6. StatsCurrent(c) /\ stats[c] \in Stats /\ c \in DOMAIN pc /\ c \in DOMAIN stats
    BY DEF Known, TypeOK
  <2>7. CASE CountFavorites(c)
    <3>1. pc'[c] = "countRead" /\ stats'[c].favorites = FavoriteRows(b)
      BY <2>6, <2>7 DEF CountFavorites, GoTo, Stats
    <3> QED BY <2>1, <2>2, <3>1 DEF StatsCurrent
  <2>8. CASE CountRead(c)
    <3>1. /\ pc[c] = "countRead" /\ pc'[c] = "average"
          /\ stats'[c].favorites = stats[c].favorites /\ stats'[c].read = ReadRows(b)
      BY <2>6, <2>8 DEF CountRead, GoTo, Stats
    <3> QED BY <2>1, <2>2, <2>3, <2>5, <2>6, <3>1 DEF StatsCurrent
  <2>9. CASE Average(c)
    <3>1. /\ pc[c] = "average" /\ pc'[c] = "done"
          /\ stats'[c] = [stats[c] EXCEPT !.sum = RatingSum(b),
                                          !.rated = Cardinality(RatedRows(b))]
      BY <2>6, <2>9 DEF Average, Finish
    <3>2. /\ stats'[c].favorites = stats[c].favorites /\ stats'[c].read = stats[c].read
          /\ stats'[c].sum = RatingSum(b) /\ stats'[c].rated = Cardinality(RatedRows(b))
      BY <2>6, <3>1 DEF Stats
    <3> QED BY <2>1, <2>2, <2>3, <2>4, <2>5, <2>6, <3>1, <3>2 DEF StatsCurrent
  <2> QED BY <1>1, <2>7, <2>8, <2>9
<1>2. CASE ~(CountFavorites(c) \/ CountRead(c) \/ Average(c))
  BY <1>2, StatsMoves DEF StatsCurrent
<1> QED
  BY <1>1, <1>2

\* What all calls know of their statistics gives the invariant of the run.
LEMMA CurrentCalls ==
  ASSUME TypeOK, \A c \in Calls : StatsCurrent(c)
  PROVE  StatsAreCurrent
BY DEF StatsAreCurrent, StatsCurrent, Untouched

-----------------------------------------------------------------------------
(* The invariant holds.                                                    *)

\* The statistics of all calls are the invariant of the run.
LEMMA SensibleCalls == StatsMakeSense <=> \A c \in Calls : Sensible(c)
BY DEF StatsMakeSense, Sensible

\* Empty tables and idle goroutines satisfy the invariant.
LEMMA InitFeedbackInv == Init => FeedbackInv
<1> SUFFICES ASSUME Init
             PROVE  FeedbackInv
  OBVIOUS
<1>1. TypeOK
  BY InitTypeOK
<1>2. OneFavoriteUnlessRaced /\ OneFeedbackUnlessRaced /\ RatingsLegal
  BY DEF Init, OneFavoriteUnlessRaced, OneFeedbackUnlessRaced, RatingsLegal
<1>3. FavoriteAnswersHold /\ FeedbackAnswersHold
  BY DEF Init, FavoriteAnswersHold, FeedbackAnswersHold
<1>4. StatsMakeSense
  BY EmptySensible, SensibleCalls DEF Init
<1>5. ASSUME NEW c \in Calls
      PROVE  Known(c)
  BY DEF Init, Known, InsertsKnown, UpdatesFound, FavoriteMade, Validated, StatsFresh,
         StatsCurrent
<1> QED
  BY <1>1, <1>2, <1>3, <1>4, <1>5 DEF FeedbackInv

\* A step of a call keeps the invariant.
LEMMA CallFeedbackInv ==
  ASSUME FeedbackInv, NEW c \in Calls, CallStep(c)
  PROVE  FeedbackInv'
<1>1. TypeOK'
  BY NextTypeOK DEF FeedbackInv, Next
<1>2. OneFavoriteUnlessRaced' /\ OneFeedbackUnlessRaced' /\ RatingsLegal'
  BY CallOneFavorite, CallOneFeedback, CallRatingsLegal
<1>3. ASSUME NEW d \in Calls
      PROVE  /\ FavoriteAnswer(d)' /\ FeedbackAnswer(d)' /\ Sensible(d)'
             /\ InsertsKnown(d)' /\ UpdatesFound(d)' /\ FavoriteMade(d)'
             /\ Validated(d)' /\ StatsFresh(d)' /\ StatsCurrent(d)'
  <2>1. CASE d = c
    BY <2>1, OwnFavoriteAnswer, OwnFeedbackAnswer, OwnInsertsKnown, OwnUpdatesFound,
       OwnFavoriteMade, CallValidated, CallSensible, OwnStatsCurrent
  <2>2. CASE d # c
    BY <2>2, OtherAnswers, OtherInsertsKnown, CallValidated, CallSensible, OtherStatsCurrent
  <2> QED BY <2>1, <2>2
<1>4. FavoriteAnswersHold' /\ FeedbackAnswersHold' /\ StatsMakeSense'
  BY <1>3 DEF FavoriteAnswersHold, FeedbackAnswersHold, StatsMakeSense, FavoriteAnswer,
              FeedbackAnswer, Sensible
<1>5. (\A d \in Calls : Known(d))'
  BY <1>3 DEF Known
<1> QED
  BY <1>1, <1>2, <1>4, <1>5 DEF FeedbackInv

\* Every step keeps the invariant; deleting a book touches no row of these.
LEMMA NextFeedbackInv ==
  ASSUME FeedbackInv, [Next]_vars
  PROVE  FeedbackInv'
<1>1. CASE \E c \in Calls : CallStep(c)
  BY <1>1, CallFeedbackInv
<1>2. CASE UNCHANGED <<favorites, feedbacks, pc, req, stats, err, behind, touched, unsure>>
  <2>1. TypeOK'
    BY NextTypeOK DEF FeedbackInv
  <2>2. /\ OneFavoriteUnlessRaced' /\ OneFeedbackUnlessRaced' /\ RatingsLegal'
        /\ FavoriteAnswersHold' /\ FeedbackAnswersHold' /\ StatsMakeSense'
    BY <1>2 DEF FeedbackInv, OneFavoriteUnlessRaced, OneFeedbackUnlessRaced, RatingsLegal,
                FavoriteAnswersHold, FeedbackAnswersHold, StatsMakeSense
  <2>3. ASSUME NEW c \in Calls
        PROVE  Known(c)'
    <3> DEFINE b == req[c].book
    <3>1. /\ FavoriteRows(b)' = FavoriteRows(b)
          /\ RowsOf(b, "read_complete")' = RowsOf(b, "read_complete")
          /\ RatedRows(b)' = RatedRows(b) /\ RatingSum(b)' = RatingSum(b)
      BY <1>2, FavoriteRowsKept, RowsKept, RatingsKept
    <3>2. StatsCurrent(c)'
      BY <1>2, <3>1 DEF FeedbackInv, Known, StatsCurrent, Untouched, ReadRows
    <3> QED
      BY <1>2, <3>2 DEF FeedbackInv, Known, InsertsKnown, UpdatesFound, FavoriteMade, Validated,
                        StatsFresh
  <2> QED BY <2>1, <2>2, <2>3 DEF FeedbackInv
<1> QED
  BY <1>1, <1>2 DEF Next, DeleteBook, history, vars

\* The invariant is one of every reachable state.
LEMMA FeedbackInvHolds == Spec => []FeedbackInv
<1>1. Init => FeedbackInv
  BY InitFeedbackInv
<1>2. FeedbackInv /\ [Next]_vars => FeedbackInv'
  BY NextFeedbackInv
<1> QED
  BY <1>1, <1>2, PTL DEF Spec

\* A user has a second favorite of a book only after two calls overlapped or a
\* query failed, and the next removal ends that.
THEOREM FavoritesOnce == Spec => []OneFavoriteUnlessRaced
<1>1. FeedbackInv => OneFavoriteUnlessRaced
  BY DEF FeedbackInv
<1> QED
  BY <1>1, FeedbackInvHolds, PTL

\* A user has a second feedback of a kind only after such an event.
THEOREM FeedbacksOnce == Spec => []OneFeedbackUnlessRaced
<1>1. FeedbackInv => OneFeedbackUnlessRaced
  BY DEF FeedbackInv
<1> QED
  BY <1>1, FeedbackInvHolds, PTL

\* FavoriteBook and UnfavoriteBook answer what is in the table, unless the
\* user's other calls have changed it.
THEOREM FavoriteAnswers == Spec => []FavoriteAnswersHold
<1>1. FeedbackInv => FavoriteAnswersHold
  BY DEF FeedbackInv
<1> QED
  BY <1>1, FeedbackInvHolds, PTL

\* A submission SubmitFeedback accepted is in the table, and its book is a
\* favorite, unless the user's other calls changed that or its insert was refused.
THEOREM FeedbackAnswers == Spec => []FeedbackAnswersHold
<1>1. FeedbackInv => FeedbackAnswersHold
  BY DEF FeedbackInv
<1> QED
  BY <1>1, FeedbackInvHolds, PTL

\* The numbers of GetFeedbackStats are legal although the tables change between
\* its queries.
THEOREM StatsSound == Spec => []StatsMakeSense
<1>1. FeedbackInv => StatsMakeSense
  BY DEF FeedbackInv
<1> QED
  BY <1>1, FeedbackInvHolds, PTL

\* Although the three queries run without a transaction, each number of
\* GetFeedbackStats is the current one when the answer is given, unless a call
\* has written rows of its own kind meanwhile.
THEOREM StatsCurrentHolds == Spec => []StatsAreCurrent
<1>1. FeedbackInv => StatsAreCurrent
  BY CurrentCalls DEF FeedbackInv, Known
<1> QED
  BY <1>1, FeedbackInvHolds, PTL

-----------------------------------------------------------------------------
(* Without overlap and failures.                                           *)

\* A user has at most one favorite of a book and one feedback of each kind.
NoDuplicates ==
    /\ \A k \in FavoriteKeys : favorites[k] <= 1
    /\ \A k \in FeedbackKeys : Len(feedbacks[k]) <= 1

\* If calls come one at a time and nothing fails, no call is ever behind, no
\* key in doubt, and nobody touches the key of a call.
LEMMA NothingInDoubt ==
  ASSUME ~Faults, \A c, d \in Calls : c = d
  PROVE  Spec => [](behind = {} /\ unsure = {} /\ \A c \in Calls : touched[c] = {})
<1> DEFINE J == behind = {} /\ unsure = {} /\ \A c \in Calls : touched[c] = {}
<1>1. Init => J
  BY DEF Init
<1>2. TypeOK /\ J /\ [Next]_vars => J'
  <2> SUFFICES ASSUME TypeOK, J, [Next]_vars
               PROVE  J'
    OBVIOUS
  <2>1. ASSUME NEW c \in Calls
        PROVE  Others(c) = {}
    BY DEF Others
  <2>2. ASSUME NEW c \in Calls, NEW k, Touch(c, k)
        PROVE  \A d \in Calls : touched'[d] = {}
    BY <2>1, <2>2 DEF Touch
  <2>3. ASSUME NEW c \in Calls, CallStep(c)
        PROVE  J'
    <3>1. CASE InsertFavorite(c) \/ InsertFeedback(c)
      BY <2>1, <2>2, <3>1 DEF InsertFavorite, InsertFeedback, Overtake
    <3>2. CASE Clear(c) \/ UpdateFeedback(c)
      BY <2>2, <3>2 DEF Clear, UpdateFeedback
    <3>3. CASE Respond(c)
      BY <3>3 DEF Respond, TypeOK
    <3> QED
      BY <2>3, <3>1, <3>2, <3>3
      DEF CallStep, Receive, FindBook, Exists, QueryFavorite, QueryFeedback, CountFavorites,
          CountRead, Average, DatabaseFails, history
  <2> QED
    BY <2>3 DEF Next, DeleteBook, history, vars
<1> QED
  BY <1>1, <1>2, TypeCorrect, PTL DEF Spec

\* Calls that come one at a time and do not fail never make a duplicate: overlap
\* and failed queries are all that the missing unique index exposes.
THEOREM SequentialFeedback ==
  ASSUME ~Faults, \A c, d \in Calls : c = d
  PROVE  Spec => []NoDuplicates
<1>1. /\ TypeOK /\ OneFavoriteUnlessRaced /\ OneFeedbackUnlessRaced
      /\ behind = {} /\ unsure = {} /\ (\A c \in Calls : touched[c] = {})
      => NoDuplicates
  <2> SUFFICES ASSUME TypeOK, OneFavoriteUnlessRaced, OneFeedbackUnlessRaced, unsure = {}
               PROVE  NoDuplicates
    OBVIOUS
  <2>1. \A k \in FavoriteKeys : favorites[k] \in Nat /\ ~(favorites[k] > 1)
    BY DEF TypeOK, OneFavoriteUnlessRaced
  <2>2. \A k \in FeedbackKeys : Len(feedbacks[k]) \in Nat /\ ~(Len(feedbacks[k]) > 1)
    BY DEF TypeOK, OneFeedbackUnlessRaced
  <2>3. \A n \in Nat : ~(n > 1) => n <= 1
    OBVIOUS
  <2> QED BY <2>1, <2>2, <2>3 DEF NoDuplicates
<1> QED
  BY <1>1, NothingInDoubt, TypeCorrect, FavoritesOnce, FeedbacksOnce, PTL
=============================================================================
