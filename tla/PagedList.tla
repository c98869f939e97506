------------------------------ MODULE PagedList ----------------------------
(***************************************************************************)
(* A client that follows the page tokens of ListUsers                      *)
(* (backend/handler/user.go, service/user.go, repository/user.go) while    *)
(* rows are inserted and deleted.  Each call counts the rows with one      *)
(* query and reads a page with another; its token is an offset, which the  *)
(* next call turns into the number of a page.  Rows are ordered by their   *)
(* creation, the newest first, and named by it.                            *)
(***************************************************************************)
EXTENDS Naturals, FiniteSets

CONSTANTS
    MaxRow,         \* bound: rows ever created
    PageSizes,      \* the sizes the client asks for, 0 when it leaves it open
    DefaultSize     \* 20 in the program

ASSUME PagedListAssumption ==
    /\ MaxRow \in Nat /\ DefaultSize \in Nat \ {0} /\ PageSizes \subseteq Nat

VARIABLES
    rows,       \* the rows of the table
    born,       \* the newest row ever created
    pc,         \* the client: "idle", "count", "page" or "done"
    size,       \* the page size of the call
    offset,     \* the offset its token stands for
    total,      \* what the call has counted
    seen,       \* how often each row was shown: 0, 1, or 2 for more
    (* History, read by no guard: *)
    witness,    \* rows that were there throughout
    inserted,   \* a row was inserted since the first call
    deleted,    \* a row was deleted since
    late,       \* a row was inserted between the two queries of a call
    misaligned  \* a token was used with a size that does not divide its offset

vars == <<rows, born, pc, size, offset, total, seen, witness, inserted, deleted, late, misaligned>>
callVars == <<pc, size, offset, total, seen>>

Ids == 1..MaxRow
Sizes == (PageSizes \ {0}) \cup {DefaultSize}
MaxSize == CHOOSE n \in Sizes : \A m \in Sizes : m <= n

\* The size a call works with: validation has refused what is out of range.
Effective(s) == IF s = 0 THEN DefaultSize ELSE s

\* The rows that come before r.
Before(r) == Cardinality({q \in rows : q > r})

\* OFFSET from LIMIT n.
Slice(from, n) == {r \in rows : from <= Before(r) /\ Before(r) < from + n}

\* Fault: the number of the page is not counted from one.
StartFromZero(o, s) == LET page == o \div s IN IF page < 1 THEN 0 ELSE (page - 1) * s

\* The page that holds the offset: (offset / pageSize) + 1, and back.
Start(o, s) == (o \div s) * s

\* Fault: a page that would not be full is not announced.
MoreFullPages(o, s, n) == o + s + s <= n

\* Whether the answer carries a token.
More(o, s, n) == o + s < n

\* Fault: the token is that of the page itself.
FollowingSame(o, s) == o

\* The offset the token of an answer stands for.
Following(o, s) == o + s

-----------------------------------------------------------------------------
Init ==
    /\ rows = {} /\ born = 0
    /\ pc = "idle" /\ size = DefaultSize /\ offset = 0 /\ total = 0
    /\ seen = [r \in Ids |-> 0]
    /\ witness = {}
    /\ inserted = FALSE /\ deleted = FALSE /\ late = FALSE /\ misaligned = FALSE

\* The first call of a walk carries no token.
Begin ==
    /\ pc \in {"idle", "done"}
    /\ \E s \in PageSizes : size' = Effective(s)
    /\ pc' = "count" /\ offset' = 0 /\ total' = 0
    /\ seen' = [r \in Ids |-> 0]
    /\ witness' = rows
    /\ inserted' = FALSE /\ deleted' = FALSE /\ late' = FALSE /\ misaligned' = FALSE
    /\ UNCHANGED <<rows, born>>

Count ==
    /\ pc = "count"
    /\ total' = Cardinality(rows)
    /\ pc' = "page"
    /\ UNCHANGED <<rows, born, size, offset, seen, witness, inserted, deleted, late, misaligned>>

\* The page, the token, and the client's next call with it, of any size.
Page ==
    /\ pc = "page"
    /\ seen' = [r \in Ids |-> IF r \in Slice(Start(offset, size), size) /\ seen[r] < 2
                              THEN seen[r] + 1 ELSE seen[r]]
    /\ IF More(offset, size, total)
       THEN /\ offset' = Following(offset, size)
            /\ \E s \in PageSizes : size' = Effective(s)
            /\ misaligned' = (misaligned \/ offset' % size' # 0)
            /\ pc' = "count"
       ELSE /\ pc' = "done"
            /\ UNCHANGED <<size, offset, misaligned>>
    /\ total' = 0
    /\ UNCHANGED <<rows, born, witness, inserted, deleted, late>>

Insert ==
    /\ born < MaxRow
    /\ born' = born + 1
    /\ rows' = rows \cup {born + 1}
    /\ inserted' = TRUE
    /\ late' = (late \/ pc = "page")
    /\ UNCHANGED <<callVars, witness, deleted, misaligned>>

Delete(r) ==
    /\ r \in rows
    /\ rows' = rows \ {r}
    /\ witness' = witness \ {r}
    /\ deleted' = TRUE
    /\ UNCHANGED <<callVars, born, inserted, late, misaligned>>

Next == Begin \/ Count \/ Page \/ Insert \/ \E r \in rows : Delete(r)

Spec == Init /\ [][Next]_vars

\* The server answers, and the client that has begun follows every token.
FairSpec == Spec /\ WF_vars(Count) /\ WF_vars(Page)

-----------------------------------------------------------------------------
(* What holds.                                                             *)

TypeOK ==
    /\ rows \subseteq 1..born /\ born \in 0..MaxRow
    /\ pc \in {"idle", "count", "page", "done"}
    /\ size \in Sizes
    /\ offset \in 0..(MaxRow + MaxSize)
    /\ total \in 0..MaxRow
    /\ seen \in [Ids -> 0..2]
    /\ witness \subseteq rows
    /\ {inserted, deleted, late, misaligned} \subseteq BOOLEAN

\* A row that was there throughout is shown, unless a row was deleted, or one
\* inserted between the queries of a call, or the page size was changed to one
\* that does not divide the offset (service/user.go:101-112).
OmissionsExplained ==
    pc = "done" /\ ~deleted /\ ~late /\ ~misaligned => \A r \in witness : seen[r] > 0

\* A row is shown twice only when rows were inserted or the page size was
\* changed to one that does not divide the offset (service/user.go:101).
RepeatsExplained ==
    (\E r \in Ids : seen[r] > 1) => inserted \/ misaligned

\* A client that follows the tokens reaches the end of the list: a token is
\* answered only when there is more (service/user.go:108-112).
WalkEnds == pc = "count" ~> pc = "done"

=============================================================================
