-------------------------- MODULE PagedList_proofs -------------------------
(***************************************************************************)
(* Proofs about the walk through the users, for lists of any length, any   *)
(* page sizes, and any insertions and deletions on the way.                *)
(***************************************************************************)
EXTENDS PagedList, FiniteSetTheorems, TLAPS

Walking == pc \in {"count", "page"}

\* The types, without the bounds that TLC needs.
Typed ==
    /\ born \in 0..MaxRow /\ rows \subseteq 1..born
    /\ pc \in {"idle", "count", "page", "done"}
    /\ size \in Nat \ {0} /\ offset \in Nat /\ total \in Nat
    /\ seen \in [Ids -> 0..2]
    /\ witness \subseteq rows

\* As long as the page sizes fit, a token leads where the page before ended.
Aligned == Walking /\ ~misaligned => offset % size = 0

\* What was shown lies before the offset, and was shown once.
ShownLiesBehind ==
    ~inserted /\ ~misaligned =>
        /\ \A r \in Ids : seen[r] <= 1
        /\ Walking => \A r \in rows : seen[r] > 0 => Before(r) < offset

\* What lies before the offset was shown.
BehindIsShown ==
    Walking /\ ~deleted /\ ~misaligned =>
        \A r \in witness : Before(r) < offset => seen[r] > 0

\* What a call has counted is still there when it reads the page.
TotalFits == pc = "page" /\ ~deleted /\ ~late => total = Cardinality(rows)

WalkInv ==
    Typed /\ Aligned /\ ShownLiesBehind /\ BehindIsShown /\ TotalFits /\ OmissionsExplained

-----------------------------------------------------------------------------
(* Pages and offsets.                                                      *)

\* Rows of a bounded table are finitely many.
LEMMA RowsFinite ==
  ASSUME NEW n \in 0..MaxRow, NEW S \in SUBSET (1..n)
  PROVE  /\ IsFiniteSet(S) /\ Cardinality(S) \in Nat
         /\ \A r \in Ids : /\ IsFiniteSet({q \in S : q > r})
                          /\ Cardinality({q \in S : q > r}) \in Nat
<1>1. IsFiniteSet(1..n)
  BY PagedListAssumption, FS_Interval
<1>2. \A T \in SUBSET (1..n) : IsFiniteSet(T) /\ Cardinality(T) \in Nat
  BY <1>1, FS_Subset, FS_CardinalityType
<1>3. \A r \in Ids : {q \in S : q > r} \in SUBSET (1..n)
  OBVIOUS
<1> QED
  BY <1>2, <1>3

\* The table is finite, and so is what comes before a row.
LEMMA TableFinite ==
  ASSUME Typed
  PROVE  /\ IsFiniteSet(rows)
         /\ Cardinality(rows) \in Nat
         /\ \A r \in Ids : Before(r) \in Nat
BY RowsFinite DEF Typed, Before

\* A row of the table has fewer rows before it than the table has.
LEMMA BeforeBounded ==
  ASSUME Typed, NEW r \in rows
  PROVE  Before(r) < Cardinality(rows)
<1> DEFINE B == {q \in rows : q > r}
<1>1. r \in Nat /\ r \in Ids
  BY PagedListAssumption DEF Typed, Ids
<1>2. B \in SUBSET rows /\ r \notin B
  BY <1>1
<1>3. Cardinality(B) <= Cardinality(rows) /\ Cardinality(B) # Cardinality(rows)
  BY <1>2, TableFinite, FS_Subset
<1> QED
  BY <1>1, <1>3, TableFinite DEF Before

\* More rows in the table, more rows before each.
LEMMA BeforeMonotone ==
  ASSUME Typed, Typed', NEW r \in Ids
  PROVE  /\ Before(r) \in Nat /\ Before(r)' \in Nat
         /\ rows \subseteq rows' => Before(r) <= Before(r)'
         /\ rows' \subseteq rows => Before(r)' <= Before(r)
<1> DEFINE B == {q \in rows : q > r}
           C == {q \in rows' : q > r}
<1>1. /\ IsFiniteSet(B) /\ Cardinality(B) \in Nat
      /\ IsFiniteSet(C) /\ Cardinality(C) \in Nat
  BY RowsFinite DEF Typed
<1>2. rows \subseteq rows' => Cardinality(B) <= Cardinality(C)
  <2>1. rows \subseteq rows' => B \in SUBSET C
    OBVIOUS
  <2> QED
    BY <1>1, <2>1, FS_Subset
<1>3. rows' \subseteq rows => Cardinality(C) <= Cardinality(B)
  <2>1. rows' \subseteq rows => C \in SUBSET B
    OBVIOUS
  <2> QED
    BY <1>1, <2>1, FS_Subset
<1> QED
  BY <1>1, <1>2, <1>3 DEF Before

\* The size a call works with is positive.
LEMMA EffectivePositive == \A s \in PageSizes : Effective(s) \in Nat \ {0}
BY PagedListAssumption DEF Effective

\* A page starts at the offset of its token when its size divides it.
LEMMA AlignedStart ==
  ASSUME NEW o \in Nat, NEW s \in Nat \ {0}, o % s = 0
  PROVE  Start(o, s) = o
BY DEF Start

\* An offset of zero fits every size.
LEMMA ZeroAligned == \A s \in Nat \ {0} : 0 % s = 0
OBVIOUS

-----------------------------------------------------------------------------
(* The steps.                                                              *)

\* The table is empty and nobody walks at first.
LEMMA InitWalkInv == Init => WalkInv
BY PagedListAssumption
   DEF Init, WalkInv, Typed, Aligned, ShownLiesBehind, BehindIsShown, TotalFits,
       OmissionsExplained, Walking, Ids

\* Every step keeps the types.
LEMMA NextTyped == Typed /\ [Next]_vars => Typed'
<1> SUFFICES ASSUME Typed, [Next]_vars
             PROVE  Typed'
  OBVIOUS
<1> USE PagedListAssumption
<1>1. CASE Begin
  BY <1>1, EffectivePositive DEF Begin, Typed, Ids
<1>2. CASE Count
  BY <1>2, TableFinite DEF Count, Typed
<1>3. CASE Page
  <2>1. seen' \in [Ids -> 0..2]
    BY <1>3 DEF Page, Typed
  <2>2. size' \in Nat \ {0} /\ offset' \in Nat
    BY <1>3, EffectivePositive DEF Page, Typed, Following
  <2> QED
    BY <1>3, <2>1, <2>2 DEF Page, Typed
<1>4. CASE Insert
  BY <1>4 DEF Insert, Typed, callVars
<1>5. ASSUME NEW r \in rows, Delete(r)
      PROVE  Typed'
  BY <1>5 DEF Delete, Typed, callVars
<1>6. CASE UNCHANGED vars
  BY <1>6 DEF Typed, vars, callVars
<1> QED
  BY <1>1, <1>2, <1>3, <1>4, <1>5, <1>6 DEF Next

\* The first call starts from nothing.
LEMMA BeginStep ==
  ASSUME WalkInv, Begin, Typed'
  PROVE  WalkInv'
<1>1. Aligned'
  <2>1. size' \in Nat \ {0} /\ offset' = 0
    BY DEF Begin, Typed
  <2> QED
    BY <2>1, ZeroAligned DEF Aligned
<1>2. ShownLiesBehind'
  BY PagedListAssumption DEF ShownLiesBehind, Begin, Typed, Ids
<1>3. BehindIsShown'
  <2> SUFFICES ASSUME NEW r \in witness'
               PROVE  ~(Before(r)' < offset')
    BY DEF BehindIsShown
  <2>1. r \in Ids
    BY PagedListAssumption DEF Begin, Typed, Ids
  <2>2. Before(r)' = Before(r)
    BY DEF Begin, Before
  <2> QED
    BY <2>1, <2>2, TableFinite DEF Begin, WalkInv
<1> QED
  BY <1>1, <1>2, <1>3 DEF WalkInv, TotalFits, OmissionsExplained, Begin

\* The rows are counted.
LEMMA CountStep ==
  ASSUME WalkInv, Count, Typed'
  PROVE  WalkInv'
<1>1. \A r \in Ids : Before(r)' = Before(r)
  BY DEF Count, Before
<1>2. rows \subseteq Ids
  BY PagedListAssumption DEF WalkInv, Typed, Ids
<1> QED
  BY <1>1, <1>2
     DEF WalkInv, Typed, Aligned, ShownLiesBehind, BehindIsShown, TotalFits, OmissionsExplained, Walking,
         Count

\* A page is shown, and its token followed or the list at its end.
LEMMA PageStep ==
  ASSUME WalkInv, Page, Typed'
  PROVE  WalkInv'
<1> USE DEF WalkInv
<1>1. rows \subseteq Ids /\ witness \subseteq Ids /\ witness \subseteq rows
  BY PagedListAssumption DEF Typed, Ids
<1>2. \A r \in Ids : Before(r)' = Before(r) /\ Before(r) \in Nat
  BY TableFinite DEF Page, Before
<1>3. size \in Nat \ {0} /\ offset \in Nat /\ total \in Nat /\ offset + size \in Nat
  BY DEF Typed
<1>4. ~misaligned' => ~misaligned
  BY DEF Page
<1>5. ~misaligned => Start(offset, size) = offset
  BY <1>3, AlignedStart DEF Page, Aligned, Walking
<1>6. ~misaligned =>
        \A r \in Ids : seen'[r] = IF r \in rows /\ offset <= Before(r) /\ Before(r) < offset + size
                                     /\ seen[r] < 2
                                  THEN seen[r] + 1 ELSE seen[r]
  BY <1>5 DEF Page, Slice
<1>7. \A r \in Ids : seen[r] \in 0..2
  BY DEF Typed
<1>8. Walking' => offset' = offset + size
  BY DEF Page, Walking, Following
<1>9. Aligned'
  BY DEF Page, Aligned, Walking
<1>10. ShownLiesBehind'
  <2> SUFFICES ASSUME ~inserted, ~misaligned
               PROVE  /\ \A r \in Ids : seen'[r] <= 1
                      /\ Walking' => \A r \in rows : seen'[r] > 0 => Before(r) < offset'
    BY <1>1, <1>2, <1>4 DEF ShownLiesBehind, Page
  <2>1. \A r \in rows : seen[r] > 0 => Before(r) < offset
    BY DEF ShownLiesBehind, Page, Walking
  <2>2. \A r \in Ids : seen[r] <= 1
    BY DEF ShownLiesBehind
  <2>3. \A r \in Ids : seen'[r] <= 1
    BY <1>2, <1>3, <1>6, <1>7, <2>1, <2>2
  <2>4. \A r \in rows : seen'[r] > 0 => Before(r) < offset + size
    BY <1>1, <1>2, <1>3, <1>6, <1>7, <2>1
  <2> QED
    BY <1>8, <2>3, <2>4
<1>11. ~deleted /\ ~misaligned => \A r \in witness : Before(r) < offset + size => seen'[r] > 0
  <2> SUFFICES ASSUME ~deleted, ~misaligned, NEW r \in witness, Before(r) < offset + size
               PROVE  seen'[r] > 0
    OBVIOUS
  <2>1. Before(r) < offset => seen[r] > 0
    BY DEF BehindIsShown, Page, Walking
  <2> QED
    BY <1>1, <1>2, <1>3, <1>6, <1>7, <2>1
<1>12. BehindIsShown'
  BY <1>1, <1>2, <1>4, <1>8, <1>11 DEF BehindIsShown, Page
<1>13. OmissionsExplained'
  <2> SUFFICES ASSUME pc' = "done", ~deleted, ~late, ~misaligned
               PROVE  \A r \in witness : seen'[r] > 0
    BY <1>4 DEF OmissionsExplained, Page
  <2>1. total = Cardinality(rows)
    BY DEF TotalFits, Page
  <2>2. total <= offset + size
    BY <1>3 DEF Page, More
  <2>3. \A r \in witness : Before(r) < offset + size
    BY <1>1, <1>2, <1>3, <2>1, <2>2, BeforeBounded
  <2> QED
    BY <1>11, <2>3
<1> QED
  BY <1>9, <1>10, <1>12, <1>13 DEF TotalFits, Page

\* A row is inserted before all others.
LEMMA InsertStep ==
  ASSUME WalkInv, Insert, Typed'
  PROVE  WalkInv'
<1> USE DEF WalkInv
<1>1. witness \subseteq Ids
  BY PagedListAssumption DEF Typed, Ids
<1>2. \A r \in Ids : Before(r) <= Before(r)' /\ Before(r) \in Nat /\ Before(r)' \in Nat
  BY BeforeMonotone DEF Insert
<1>3. Aligned'
  BY DEF Insert, Aligned, Walking, callVars
<1>4. BehindIsShown'
  BY <1>1, <1>2 DEF Insert, BehindIsShown, Walking, Typed, callVars
<1> QED
  BY <1>3, <1>4 DEF Insert, ShownLiesBehind, TotalFits, OmissionsExplained, callVars

\* A row is deleted.
LEMMA DeleteStep ==
  ASSUME WalkInv, NEW r \in rows, Delete(r), Typed'
  PROVE  WalkInv'
<1> USE DEF WalkInv
<1>1. rows \subseteq Ids /\ rows' \subseteq rows
  BY PagedListAssumption DEF Typed, Ids, Delete
<1>2. \A q \in Ids : Before(q)' <= Before(q) /\ Before(q) \in Nat /\ Before(q)' \in Nat
  BY <1>1, BeforeMonotone
<1>3. Aligned'
  BY DEF Delete, Aligned, Walking, callVars
<1>4. ShownLiesBehind'
  BY <1>1, <1>2 DEF Delete, ShownLiesBehind, Walking, Typed, callVars
<1> QED
  BY <1>3, <1>4 DEF Delete, BehindIsShown, TotalFits, OmissionsExplained, callVars

\* The invariant holds in every state.
LEMMA WalkInvariant == Spec => []WalkInv
<1>1. WalkInv /\ [Next]_vars => WalkInv'
  <2> SUFFICES ASSUME WalkInv, [Next]_vars
               PROVE  WalkInv'
    OBVIOUS
  <2>1. Typed'
    BY NextTyped DEF WalkInv
  <2>2. CASE UNCHANGED vars
    BY <2>2 DEF WalkInv, Typed, Aligned, ShownLiesBehind, BehindIsShown, TotalFits,
                OmissionsExplained, Walking, Before, vars, callVars
  <2> QED
    BY <2>1, <2>2, BeginStep, CountStep, PageStep, InsertStep, DeleteStep DEF Next
<1> QED
  BY <1>1, InitWalkInv, PTL DEF Spec

-----------------------------------------------------------------------------

\* A row is missed only after a deletion, an insertion between the two queries
\* of a call, or a change of the page size that does not divide the offset.
THEOREM OmissionsHold == Spec => []OmissionsExplained
<1>1. WalkInv => OmissionsExplained
  BY DEF WalkInv
<1> QED
  BY <1>1, WalkInvariant, PTL

\* A row is shown twice only after an insertion or such a change.
THEOREM RepeatsHold == Spec => []RepeatsExplained
<1>1. WalkInv => RepeatsExplained
  <2> SUFFICES ASSUME WalkInv, ~inserted, ~misaligned, NEW r \in Ids
               PROVE  ~(seen[r] > 1)
    BY DEF RepeatsExplained
  <2> QED
    BY DEF WalkInv, Typed, ShownLiesBehind
<1> QED
  BY <1>1, WalkInvariant, PTL

=============================================================================
