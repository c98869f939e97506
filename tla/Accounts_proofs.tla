--------------------------- MODULE Accounts_proofs --------------------------
(***************************************************************************)
(* Proofs about users, tokens and the seeded admin, for any number of      *)
(* users, names, books and logins.                                         *)
(***************************************************************************)
EXTENDS Accounts, TLAPS

AccountsInv == TypeOK /\ RowsAgree

\* What a login in flight has read.
Logins == [user : Users, role : Roles, password : Passwords]

-----------------------------------------------------------------------------
(* Types.                                                                  *)

\* A masked row is a row, whatever the mask.
LEMMA MaskedType ==
  ASSUME NEW row \in Rows, NEW mask \in Masks
  PROVE  Masked(row, mask) \in Rows
BY DEF Rows, Masks, Masked, Roles

\* The row of the seeded admin is a row.
LEMMA AdminRowType == AdminRow \in Rows
BY AccountsAdminAssumption DEF AdminRow, Rows, Roles

\* A row that Insert adds has a user of its own.
LEMMA InsertType ==
  ASSUME TypeOK, NEW u \in Users, NEW row \in Rows, Insert(u, row)
  PROVE  /\ user' \in [Users -> Rows \cup {None}]
         /\ Live' \subseteq Live \cup {u}
         /\ u \notin retired
BY DEF TypeOK, Insert, Live

\* The history of logins is about logins in flight.
LEMMA ObserveType == Observe => overtaken' \subseteq {c \in Calls : login'[c] # None}
BY DEF Observe

\* Nothing is there at first.
LEMMA InitTypeOK == Init => TypeOK
BY DEF Init, TypeOK, Live

\* Every step of a client, of the seeder and of the server keeps the types.
LEMMA NextTypeOK == TypeOK /\ [Next]_vars => TypeOK'
<1> SUFFICES ASSUME TypeOK, [Next]_vars
             PROVE  TypeOK'
  OBVIOUS
<1>1. CASE UNCHANGED vars
  BY <1>1 DEF TypeOK, Live, vars
<1>2. CASE Next
  <2>1. overtaken' \subseteq {c \in Calls : login'[c] # None}
    BY <1>2, ObserveType DEF Next
  <2> DEFINE Typed ==
        /\ user' \in [Users -> Rows \cup {None}]
        /\ retired' \subseteq Users /\ retired' \cap Live' = {}
        /\ book' \in [Books -> Users \cup {None}]
        /\ tokens' \subseteq Tokens
        /\ mode' \in {"down", "lookup", "insert", "up"}
        /\ login' \in [Calls -> Logins \cup {None}]
  <2>2. ASSUME NEW c \in Calls, ReadUser(c)
        PROVE  Typed
    BY <2>2 DEF TypeOK, ReadUser, Live, Rows, Logins
  <2>3. ASSUME NEW c \in Calls, Sign(c)
        PROVE  Typed
    <3>1. login[c] \in Logins
      BY <2>3 DEF TypeOK, Sign, Logins
    <3>2. [user |-> login[c].user, role |-> login[c].role] \in Tokens
      BY <3>1 DEF Logins, Tokens
    <3> QED
      BY <2>3, <3>2 DEF TypeOK, Sign, Live, Logins
  <2>4. ASSUME NEW t \in tokens, CreateUser(t)
        PROVE  Typed
    BY <2>4, InsertType DEF TypeOK, CreateUser, Logins, Live
  <2>5. ASSUME NEW t \in tokens, NEW u \in Users, NEW mask \in Masks, UpdateUser(t, u, mask)
        PROVE  Typed
    BY <2>5, MaskedType DEF TypeOK, UpdateUser, Live, Logins
  <2>6. ASSUME NEW t \in tokens, NEW u \in Users, DeleteUser(t, u)
        PROVE  Typed
    BY <2>6 DEF TypeOK, DeleteUser, Live, Logins
  <2>7. ASSUME NEW t \in tokens, Expire(t) \/ CreateBook(t) \/ \E b \in Books : DeleteBook(t, b)
        PROVE  Typed
    BY <2>7 DEF TypeOK, Expire, CreateBook, DeleteBook, Live, Logins, Tokens
  <2>8. ASSUME SeedInsert
        PROVE  Typed
    BY <2>8, InsertType, AdminRowType DEF TypeOK, SeedInsert, Logins, Live
  <2>9. ASSUME Stop \/ Start \/ SeedLookup \/ SeedLookupFails \/ SeedInsertFails
        PROVE  Typed
    BY <2>9 DEF TypeOK, Stop, Start, SeedLookup, SeedLookupFails, SeedInsertFails, Live, Logins
  <2> HIDE DEF Typed
  <2>10. Typed
    BY <1>2, <2>2, <2>3, <2>4, <2>5, <2>6, <2>7, <2>8, <2>9 DEF Next, Step
  <2> QED
    BY <2>1, <2>10 DEF TypeOK, Typed, Logins, Live
<1> QED
  BY <1>1, <1>2

\* Users, tokens, logins and the server keep their types.
THEOREM TypeCorrect == Spec => []TypeOK
<1>1. Init => TypeOK
  BY InitTypeOK
<1>2. TypeOK /\ [Next]_vars => TypeOK'
  BY NextTypeOK
<1> QED
  BY <1>1, <1>2, PTL DEF Spec

-----------------------------------------------------------------------------
(* Rows.                                                                   *)

\* A row that the unique indexes admit agrees with the others.
LEMMA UniqueAgrees ==
  ASSUME TypeOK, RowsAgree, NEW u \in Users, NEW row \in Rows,
         Unique(u, row.name, row.mail), user' = [user EXCEPT ![u] = row],
         UNCHANGED book
  PROVE  RowsAgree'
<1>1. Live' = Live \cup {u}
  BY AccountsNoneAssumption DEF Live, TypeOK
<1>2. \A v \in Live : v # u => user'[v].name # row.name /\ user'[v].mail # row.mail
  BY DEF TypeOK, Unique, WithName, WithMail, Live
<1>3. user'[u] = row /\ \A v \in Users : v # u => user'[v] = user[v]
  BY DEF TypeOK
<1> QED
  BY <1>1, <1>2, <1>3 DEF RowsAgree, Live

\* Every step keeps names, e-mails and uploaders in agreement.
LEMMA RowsAgreeStep == AccountsInv /\ [Next]_vars => AccountsInv'
<1> SUFFICES ASSUME AccountsInv, [Next]_vars
             PROVE  RowsAgree'
  BY NextTypeOK DEF AccountsInv
<1> USE DEF AccountsInv
<1>1. ASSUME NEW t \in tokens, CreateUser(t)
      PROVE  RowsAgree'
  BY <1>1, UniqueAgrees DEF CreateUser, Insert
<1>2. ASSUME NEW t \in tokens, NEW u \in Users, NEW mask \in Masks, UpdateUser(t, u, mask)
      PROVE  RowsAgree'
  <2>1. user[u] \in Rows
    BY <1>2 DEF TypeOK, UpdateUser, Live
  <2> QED
    BY <1>2, <2>1, MaskedType, UniqueAgrees DEF UpdateUser
<1>3. ASSUME NEW t \in tokens, NEW u \in Users, DeleteUser(t, u)
      PROVE  RowsAgree'
  <2>1. Live' = Live \ {u} /\ \A v \in Live' : user'[v] = user[v]
    BY <1>3 DEF TypeOK, DeleteUser, Live
  <2>2. book' = book /\ \A b \in Books : book[b] # u
    BY <1>3 DEF DeleteUser, MayDelete, Uploads
  <2> QED
    BY <2>1, <2>2 DEF RowsAgree
<1>4. ASSUME NEW t \in tokens, CreateBook(t) \/ \E b \in Books : DeleteBook(t, b)
      PROVE  RowsAgree'
  BY <1>4 DEF TypeOK, RowsAgree, CreateBook, DeleteBook, UploaderExists, Live
<1>5. CASE SeedInsert
  BY <1>5, AdminRowType, UniqueAgrees DEF SeedInsert, Insert
<1>6. ASSUME UNCHANGED <<user, book>>
      PROVE  RowsAgree'
  BY <1>6 DEF RowsAgree, Live
<1>7. ASSUME NEW c \in Calls, ReadUser(c) \/ Sign(c)
      PROVE  RowsAgree'
  BY <1>6, <1>7 DEF ReadUser, Sign
<1>8. ASSUME NEW t \in tokens, Expire(t)
      PROVE  RowsAgree'
  BY <1>6, <1>8 DEF Expire
<1>9. CASE \/ Stop \/ Start \/ SeedLookup \/ SeedLookupFails \/ SeedInsertFails
           \/ UNCHANGED vars
  BY <1>6, <1>9 DEF Stop, Start, SeedLookup, SeedLookupFails, SeedInsertFails, vars
<1> QED
  BY <1>1, <1>2, <1>3, <1>4, <1>5, <1>7, <1>8, <1>9 DEF Next, Step

\* The invariant holds in every state.
LEMMA AccountsInvariant == Spec => []AccountsInv
<1>1. Init => AccountsInv
  BY InitTypeOK DEF Init, AccountsInv, RowsAgree, Live
<1> QED
  BY <1>1, RowsAgreeStep, PTL DEF Spec

\* A name and an e-mail lead to one user, and no book to a deleted one.
THEOREM RowsHold == Spec => []RowsAgree
<1>1. AccountsInv => RowsAgree
  BY DEF AccountsInv
<1> QED
  BY <1>1, AccountsInvariant, PTL

-----------------------------------------------------------------------------
(* Admins.                                                                 *)

\* Only a deletion by the holder of an admin token removes a user.
LEMMA OnlyDeletionsRemove ==
  ASSUME TypeOK, Next, NEW u \in Live, u \notin Live'
  PROVE  \E t \in tokens : DeleteUser(t, u)
<1>1. ASSUME NEW t \in tokens, NEW v \in Users, DeleteUser(t, v)
      PROVE  v = u
  BY <1>1 DEF TypeOK, DeleteUser, Live
<1>2. ASSUME NEW v \in Users, NEW row \in Rows, user' = [user EXCEPT ![v] = row]
      PROVE  FALSE
  BY <1>2, AccountsNoneAssumption DEF TypeOK, Live
<1>3. ASSUME NEW t \in tokens, CreateUser(t)
      PROVE  FALSE
  BY <1>2, <1>3 DEF CreateUser, Insert
<1>4. ASSUME NEW t \in tokens, NEW v \in Users, NEW mask \in Masks, UpdateUser(t, v, mask)
      PROVE  FALSE
  <2>1. user[v] \in Rows
    BY <1>4 DEF TypeOK, UpdateUser, Live
  <2> QED
    BY <1>2, <1>4, <2>1, MaskedType DEF UpdateUser
<1>5. ~SeedInsert
  BY <1>2, AdminRowType DEF SeedInsert, Insert
<1>6. user' # user
  BY DEF Live
<1> QED
  BY <1>1, <1>3, <1>4, <1>5, <1>6
     DEF Next, Step, ReadUser, Sign, Expire, CreateBook, DeleteBook, Stop, Start, SeedLookup,
         SeedLookupFails, SeedInsertFails

\* A step after which nobody can administer demotes an admin, or is taken
\* with an outdated token.
LEMMA AdminsLostStep ==
  ASSUME TypeOK, Next, Admins # {}, Admins' = {},
         \A t \in tokens : ~Outdated(t)
  PROVE  \E u \in Admins : u \in Live' /\ user'[u].role # "admin"
<1>1. PICK u \in Admins : TRUE
  OBVIOUS
<1>2. u \in Live /\ u \notin Admins'
  BY <1>1 DEF Admins
<1>3. CASE u \in Live'
  BY <1>2, <1>3 DEF Admins
<1>4. CASE u \notin Live'
  <2>1. PICK t \in tokens : DeleteUser(t, u)
    BY <1>2, <1>4, OnlyDeletionsRemove
  <2>2. t.role = "admin" /\ t.user # u /\ user' = [user EXCEPT ![u] = None]
    BY <2>1 DEF DeleteUser, Admitted, IsAdmin, MayDelete
  <2>3. t.user \in Live /\ user[t.user].role = "admin"
    BY <2>2 DEF Outdated
  <2>4. t.user \in Admins'
    BY <2>2, <2>3 DEF TypeOK, Live, Admins
  <2> QED
    BY <2>4
<1> QED
  BY <1>3, <1>4

\* The last admin goes only by a change of role or by an outdated token.
THEOREM AdminsHold == Spec => AdminsLostOnly
<1>1. TypeOK /\ [Next]_vars =>
        [Admins # {} /\ Admins' = {} =>
            \/ \E u \in Admins : u \in Live' /\ user'[u].role # "admin"
            \/ \E t \in tokens : Outdated(t)]_vars
  BY AdminsLostStep
<1> QED
  BY <1>1, TypeCorrect, PTL DEF Spec, AdminsLostOnly

\* No user is an admin, no token and no login is one's, and a user bears the
\* configured name.
LockedOut ==
    /\ Admins = {} /\ WithName(AdminName) # {}
    /\ \A t \in tokens : t.role # "admin"
    /\ \A c \in Calls : login[c] # None => login[c].role # "admin"

\* Without an admin, and with no token or login of one, a step neither makes
\* an admin nor gives the configured name back.
LEMMA LockoutStep ==
  ASSUME TypeOK, Next, LockedOut
  PROVE  LockedOut'
<1>1. \A t \in tokens : ~Admitted(t)
  BY DEF LockedOut, Admitted, IsAdmin
<1>2. ~SeedInsert
  BY DEF LockedOut, SeedInsert, Insert, Unique, AdminRow, WithName, Live
<1>3. ASSUME NEW c \in Calls, ReadUser(c)
      PROVE  LockedOut'
  <2>1. \A u \in Live : user[u].role # "admin"
    BY DEF LockedOut, Admins
  <2>2. UNCHANGED <<user, tokens>>
    BY <1>3 DEF ReadUser
  <2>3. \A d \in Calls : login'[d] # None => login'[d].role # "admin"
    BY <1>3, <2>1 DEF TypeOK, ReadUser, LockedOut
  <2> QED
    BY <2>2, <2>3 DEF LockedOut, Admins, WithName, Live
<1>4. ASSUME NEW c \in Calls, Sign(c)
      PROVE  LockedOut'
  <2>1. \A t \in tokens' : t.role # "admin"
    BY <1>4 DEF Sign, LockedOut
  <2>2. \A d \in Calls : login'[d] # None => login'[d].role # "admin"
    BY <1>4 DEF TypeOK, Sign, LockedOut
  <2> QED
    BY <1>4, <2>1, <2>2 DEF Sign, LockedOut, Admins, WithName, Live
<1>5. ASSUME NEW t \in tokens, Expire(t)
      PROVE  LockedOut'
  BY <1>5 DEF Expire, LockedOut, Admins, WithName, Live
<1>6. CASE Stop \/ Start \/ SeedLookup \/ SeedLookupFails \/ SeedInsertFails
  BY <1>6 DEF Stop, Start, SeedLookup, SeedLookupFails, SeedInsertFails, LockedOut, Admins,
              WithName, Live
<1> QED
  BY <1>1, <1>2, <1>3, <1>4, <1>5, <1>6
     DEF Next, Step, CreateUser, UpdateUser, DeleteUser, CreateBook, DeleteBook

\* What the failure of StartSeedsAdmin costs: once the last admin is gone while a
\* user bears the configured name, no call and no restart restores one, for the
\* seeder looks for the name and not for the role (database/seed.go:29).
THEOREM LockoutIsFinal == Spec => [][LockedOut => LockedOut']_vars
<1>1. TypeOK /\ [Next]_vars => [LockedOut => LockedOut']_vars
  BY LockoutStep
<1> QED
  BY <1>1, TypeCorrect, PTL DEF Spec

\* A server that is down and blocked stays so.
LEMMA BlockedStep ==
  ASSUME TypeOK, Next, Blocked, mode # "up"
  PROVE  Blocked' /\ mode' # "up"
<1>1. \A t \in tokens : ~Admitted(t)
  BY DEF Admitted
<1>2. ~SeedInsert
  BY DEF Blocked, SeedInsert, Insert, Unique, AdminRow, WithMail, Live
<1>3. user' = user /\ mode' # "up"
  BY <1>1, <1>2
     DEF Next, Step, ReadUser, Sign, Expire, CreateUser, UpdateUser, DeleteUser, CreateBook, DeleteBook,
         Stop, Start, SeedLookup, SeedLookupFails, SeedInsertFails, Blocked
<1> QED
  BY <1>3 DEF Blocked, WithName, WithMail, Live

\* A server whose configured e-mail is another user's never starts again.
THEOREM BlockedHolds == Spec => BlockedStaysDown
<1>1. TypeOK /\ [Next]_vars => [Blocked /\ mode # "up" => Blocked' /\ mode' # "up"]_vars
  BY BlockedStep
<1> QED
  BY <1>1, TypeCorrect, PTL DEF Spec, BlockedStaysDown

-----------------------------------------------------------------------------
(* Logins.                                                                 *)

\* What a login has read still stands, unless the login is overtaken.
LoginsCurrent ==
    \A c \in Calls : login[c] # None /\ c \notin overtaken =>
        login[c].user \in Live /\ user[login[c].user].role = login[c].role

\* A step that does not touch a login either leaves the row it has read alone
\* or overtakes it.
LEMMA KeptLogin ==
  ASSUME TypeOK, LoginsCurrent, Observe,
         NEW c \in Calls, login'[c] = login[c], login'[c] # None, c \notin overtaken'
  PROVE  login'[c].user \in Live' /\ user'[login'[c].user].role = login'[c].role
<1>1. c \notin overtaken /\ user'[login[c].user] = user[login[c].user]
  BY DEF Observe
<1> QED
  BY <1>1 DEF LoginsCurrent, Live

\* A login that goes on is one that was there, unless it has just read.
LEMMA LoginsKept ==
  ASSUME TypeOK, Next, NEW c \in Calls, login'[c] # None
  PROVE  login'[c] = login[c] \/ ReadUser(c)
BY DEF Next, Step, TypeOK, ReadUser, Sign, Expire, CreateUser, UpdateUser, DeleteUser, CreateBook,
       DeleteBook, Stop, Start, SeedLookup, SeedLookupFails, SeedInsert, SeedInsertFails

\* Every step keeps what logins have read current.
LEMMA LoginsStep == TypeOK /\ LoginsCurrent /\ [Next]_vars => LoginsCurrent'
<1> SUFFICES ASSUME TypeOK, LoginsCurrent, [Next]_vars
             PROVE  LoginsCurrent'
  OBVIOUS
<1>1. CASE UNCHANGED vars
  BY <1>1 DEF LoginsCurrent, Live, vars
<1>2. CASE Next
  <2>1. ASSUME NEW c \in Calls, login'[c] # None, c \notin overtaken'
        PROVE  login'[c].user \in Live' /\ user'[login'[c].user].role = login'[c].role
    <3>1. CASE ReadUser(c)
      BY <3>1 DEF TypeOK, ReadUser, Live
    <3>2. CASE login'[c] = login[c]
      BY <1>2, <2>1, <3>2, KeptLogin DEF Next
    <3> QED
      BY <1>2, <2>1, <3>1, <3>2, LoginsKept
  <2> QED
    BY <2>1 DEF LoginsCurrent
<1> QED
  BY <1>1, <1>2

\* A token signed from a login that is not overtaken fits its user.
LEMMA SignedCurrent ==
  ASSUME TypeOK, LoginsCurrent, Next,
         NEW c \in Calls, login[c] # None, login'[c] = None, c \notin overtaken,
         NEW t \in tokens' \ tokens
  PROVE  ~Outdated(t)
<1>1. PICK d \in Calls : Sign(d)
  BY DEF Next, Step, ReadUser, Expire, CreateUser, UpdateUser, DeleteUser, CreateBook,
         DeleteBook, Stop, Start, SeedLookup, SeedLookupFails, SeedInsert, SeedInsertFails
<1>2. d = c
  BY <1>1 DEF TypeOK, Sign
<1>3. t = [user |-> login[c].user, role |-> login[c].role]
  BY <1>1, <1>2 DEF Sign
<1> QED
  BY <1>3 DEF LoginsCurrent, Outdated

\* A token is true of its user when it is signed, unless the row has changed
\* between the lookup and the signature.
THEOREM LoginsHold == Spec => OnlyOvertakenLogins
<1>1. Init => LoginsCurrent
  BY DEF Init, LoginsCurrent
<1>2. TypeOK /\ LoginsCurrent /\ [Next]_vars =>
        [\A c \in Calls :
            login[c] # None /\ login'[c] = None /\ c \notin overtaken =>
                \A t \in tokens' \ tokens : ~Outdated(t)]_vars
  BY SignedCurrent
<1> QED
  BY <1>1, <1>2, LoginsStep, TypeCorrect, PTL DEF Spec, OnlyOvertakenLogins

=============================================================================
