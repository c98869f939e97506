------------------------------ MODULE Accounts -----------------------------
(***************************************************************************)
(* User accounts, the tokens that speak for them, and the admin that every *)
(* start of the server seeds: Login, CreateUser, UpdateUser and DeleteUser *)
(* (backend/handler/auth.go, handler/user.go, service/auth.go, jwt.go and  *)
(* user.go, repository/user.go, middleware/auth.go and role.go), seedAdmin *)
(* (backend/database/seed.go), and the books that keep their uploader from *)
(* being deleted.                                                          *)
(*                                                                         *)
(* The interceptors read nothing but the token, and each operation on      *)
(* users makes one statement, so that such a call is one step: whatever    *)
(* happens between the interceptors and the statement is what an older     *)
(* token meets.  Login reads the row and signs a token from what it read.  *)
(* A token lives until it expires, whatever becomes of its user.           *)
(***************************************************************************)
EXTENDS Naturals, FiniteSets

CONSTANTS
    Users,      \* user ids
    Names, Mails,
    Passwords,  \* those bcrypt can hash
    Books,      \* book ids
    Calls,      \* goroutines: how many logins can be in flight
    AdminName, AdminMail, AdminPassword,    \* what the configuration names
    None

ASSUME AccountsAdminAssumption ==
    AdminName \in Names /\ AdminMail \in Mails /\ AdminPassword \in Passwords

VARIABLES
    user,       \* the row of each user: [name, mail, role, password], or None
    retired,    \* ids of deleted users: a UUID never comes back
    book,       \* the uploader of each book, or None
    tokens,     \* valid tokens: [user, role]
    mode,       \* the server: "down", "lookup", "insert" (seeding) or "up"
    login,      \* what each login in flight has read: [user, role, password]
    overtaken   \* history: logins whose row another step has changed since

vars == <<user, retired, book, tokens, mode, login, overtaken>>

\* "admin" stands for admin and super_admin, "teacher" for teacher and parent.
Roles == {"admin", "teacher"}
TooLong == "longer than bcrypt takes"
Rows == [name : Names, mail : Mails, role : Roles, password : Passwords]
Tokens == [user : Users, role : Roles]

ASSUME AccountsNoneAssumption ==
    None \notin Users \cup Names \cup Mails \cup Passwords \cup Rows

Live == {u \in Users : user[u] # None}
WithName(n) == {u \in Live : user[u].name = n}
WithMail(m) == {u \in Live : user[u].mail = m}
Admins == {u \in Live : user[u].role = "admin"}
Uploads(u) == {b \in Books : book[b] = u}

\* The unique indexes, met by a row of user u.
Unique(u, n, m) == WithName(n) \subseteq {u} /\ WithMail(m) \subseteq {u}

\* RoleInterceptor: the role is the token's.
IsAdmin(t) == t.role = "admin"

-----------------------------------------------------------------------------
Init ==
    /\ user = [u \in Users |-> None]
    /\ retired = {}
    /\ book = [b \in Books |-> None]
    /\ tokens = {}
    /\ mode = "down"
    /\ login = [c \in Calls |-> None]
    /\ overtaken = {}

\* A login is overtaken when the row it has read changes.
Observe ==
    overtaken' = {c \in Calls : /\ login'[c] # None
                                /\ \/ c \in overtaken
                                   \/ login[c] # None /\ user'[login[c].user] # user[login[c].user]}

-----------------------------------------------------------------------------
(* Login.                                                                  *)

\* GetByUsername, which nobody but a user who knows the password gets past.
ReadUser(c) ==
    /\ mode = "up"
    /\ login[c] = None
    /\ \E u \in Live :
          login' = [login EXCEPT ![c] =
                       [user |-> u, role |-> user[u].role, password |-> user[u].password]]
    /\ UNCHANGED <<user, retired, book, tokens, mode>>

\* Fault: the role is not the one that was read with the password.
SignAsAdmin(c) ==
    /\ login[c] # None
    /\ \E right \in BOOLEAN :
          tokens' = IF right THEN tokens \cup {[user |-> login[c].user, role |-> "admin"]}
                    ELSE tokens
    /\ login' = [login EXCEPT ![c] = None]
    /\ UNCHANGED <<user, retired, book, mode>>

\* CompareHashAndPassword, then GenerateToken from the row that was read.
Sign(c) ==
    /\ login[c] # None
    /\ \E right \in BOOLEAN :
          tokens' = IF right THEN tokens \cup {[user |-> login[c].user, role |-> login[c].role]}
                    ELSE tokens
    /\ login' = [login EXCEPT ![c] = None]
    /\ UNCHANGED <<user, retired, book, mode>>

\* A token expires 24 hours after it was signed.
Expire(t) ==
    /\ t \in tokens
    /\ tokens' = tokens \ {t}
    /\ UNCHANGED <<user, retired, book, mode, login>>

-----------------------------------------------------------------------------
(* What the holder of an admin token does.                                 *)

Admitted(t) == mode = "up" /\ t \in tokens /\ IsAdmin(t)

Insert(u, row) ==
    /\ u \notin Live \cup retired
    /\ Unique(u, row.name, row.mail)
    /\ user' = [user EXCEPT ![u] = row]

CreateUser(t) ==
    /\ Admitted(t)
    /\ \E u \in Users, row \in Rows : Insert(u, row)
    /\ UNCHANGED <<retired, book, tokens, mode, login>>

\* An update mask over a row: None leaves a field as it is.
Masks == [name : Names \cup {None}, mail : Mails \cup {None}, role : Roles \cup {None},
          password : Passwords \cup {TooLong, None}]
\* Fault: the password is set although its hash has failed.
MaskedUnhashed(row, mask) ==
    [name |-> IF mask.name = None THEN row.name ELSE mask.name,
     mail |-> IF mask.mail = None THEN row.mail ELSE mask.mail,
     role |-> IF mask.role = None THEN row.role ELSE mask.role,
     password |-> IF mask.password = None THEN row.password ELSE mask.password]

Masked(row, mask) ==
    [name |-> IF mask.name = None THEN row.name ELSE mask.name,
     mail |-> IF mask.mail = None THEN row.mail ELSE mask.mail,
     role |-> IF mask.role = None THEN row.role ELSE mask.role,
     \* A password that cannot be hashed is left out, without an error.
     password |-> IF mask.password \in {None, TooLong} THEN row.password ELSE mask.password]

\* A role of its own is as good as any other to the caller: no check looks.
UpdateUser(t, u, mask) ==
    /\ Admitted(t)
    /\ u \in Live
    /\ LET row == Masked(user[u], mask) IN
          /\ Unique(u, row.name, row.mail)
          /\ user' = [user EXCEPT ![u] = row]
    /\ UNCHANGED <<retired, book, tokens, mode, login>>

\* Fault: callers may delete themselves.
DeleteAnyone(t, u) == u \in Live /\ Uploads(u) = {}

\* UserService.Delete, and the foreign key of the books, which has no action.
MayDelete(t, u) == u # t.user /\ u \in Live /\ Uploads(u) = {}

DeleteUser(t, u) ==
    /\ Admitted(t)
    /\ MayDelete(t, u)
    /\ user' = [user EXCEPT ![u] = None]
    /\ retired' = retired \cup {u}
    /\ UNCHANGED <<book, tokens, mode, login>>

\* Fault: the uploader is not a foreign key.
UploaderUnchecked(u) == TRUE

\* The foreign key of a new book: the token may name a user who is gone.
UploaderExists(u) == u \in Live

CreateBook(t) ==
    /\ Admitted(t)
    /\ UploaderExists(t.user)
    /\ \E b \in Books : book[b] = None /\ book' = [book EXCEPT ![b] = t.user]
    /\ UNCHANGED <<user, retired, tokens, mode, login>>

DeleteBook(t, b) ==
    /\ Admitted(t)
    /\ book[b] # None
    /\ book' = [book EXCEPT ![b] = None]
    /\ UNCHANGED <<user, retired, tokens, mode, login>>

-----------------------------------------------------------------------------
(* The server.                                                             *)

\* With a configured secret, tokens outlive the server; with one made at each
\* start (the standalone program), they expire with it.
Stop ==
    /\ mode # "down"
    /\ mode' = "down"
    /\ login' = [c \in Calls |-> None]
    /\ UNCHANGED <<user, retired, book, tokens>>

Start ==
    /\ mode = "down"
    /\ mode' = "lookup"
    /\ UNCHANGED <<user, retired, book, tokens, login>>

\* Fault: the seeder does not look before it inserts.
SeedBlindly ==
    /\ mode = "lookup"
    /\ mode' = "insert"
    /\ UNCHANGED <<user, retired, book, tokens, login>>

\* GetByUsername; the server listens once the seeder is content.
SeedLookup ==
    /\ mode = "lookup"
    /\ mode' = IF WithName(AdminName) # {} THEN "up" ELSE "insert"
    /\ UNCHANGED <<user, retired, book, tokens, login>>

\* Any error of the lookup counts as a missing admin.
SeedLookupFails ==
    /\ mode = "lookup"
    /\ mode' = "insert"
    /\ UNCHANGED <<user, retired, book, tokens, login>>

AdminRow == [name |-> AdminName, mail |-> AdminMail, role |-> "admin", password |-> AdminPassword]

\* Fault: a conflict is not an error to the seeder.
SeedInsertForgives ==
    /\ mode = "insert"
    /\ IF \E u \in Users : u \notin Live \cup retired /\ Unique(u, AdminName, AdminMail)
       THEN \E u \in Users : Insert(u, AdminRow)
       ELSE UNCHANGED user
    /\ mode' = "up"
    /\ UNCHANGED <<retired, book, tokens, login>>

SeedInsert ==
    /\ mode = "insert"
    /\ \E u \in Users : Insert(u, AdminRow)
    /\ mode' = "up"
    /\ UNCHANGED <<retired, book, tokens, login>>

\* The indexes refuse the admin, or the database fails: the program exits.
SeedInsertFails ==
    /\ mode = "insert"
    /\ mode' = "down"
    /\ UNCHANGED <<user, retired, book, tokens, login>>

Step ==
    \/ \E c \in Calls : ReadUser(c) \/ Sign(c)
    \/ \E t \in tokens :
          \/ Expire(t) \/ CreateUser(t) \/ CreateBook(t)
          \/ \E u \in Users : DeleteUser(t, u) \/ \E mask \in Masks : UpdateUser(t, u, mask)
          \/ \E b \in Books : DeleteBook(t, b)
    \/ Stop \/ Start
    \/ SeedLookup \/ SeedLookupFails \/ SeedInsert \/ SeedInsertFails

Next == Step /\ Observe

Spec == Init /\ [][Next]_vars

\* The program is started again whenever it stops, the seeder runs to its end, and
\* a database that is asked again and again answers in the end.  Deployed, restarts
\* come from the container (ops/cd/prod/docker-compose.yml:25, restart:
\* unless-stopped), of cmd/server, on a database its migrations have passed; the
\* standalone program is restarted by whoever uses it.
Fairness ==
    /\ WF_vars(Start /\ Observe)
    /\ WF_vars((SeedLookup \/ SeedLookupFails) /\ Observe)
    /\ WF_vars((SeedInsert \/ SeedInsertFails) /\ Observe)
    /\ SF_vars(SeedLookup /\ Observe)
    /\ SF_vars(SeedInsert /\ Observe)

FairSpec == Spec /\ Fairness

-----------------------------------------------------------------------------
(* What holds.                                                             *)

TypeOK ==
    /\ user \in [Users -> Rows \cup {None}]
    /\ retired \subseteq Users /\ retired \cap Live = {}
    /\ book \in [Books -> Users \cup {None}]
    /\ tokens \subseteq Tokens
    /\ mode \in {"down", "lookup", "insert", "up"}
    /\ login \in [Calls -> [user : Users, role : Roles, password : Passwords] \cup {None}]
    /\ overtaken \subseteq {c \in Calls : login[c] # None}

\* A name and an e-mail lead to one user, and the uploader of every book is
\* one, although tokens of deleted users go on creating books
\* (handler/book.go:91, ent/migrate/schema.go:67).
RowsAgree ==
    /\ \A u, v \in Live : user[u].name = user[v].name \/ user[u].mail = user[v].mail => u = v
    /\ \A b \in Books : book[b] # None => book[b] \in Live

\* A token that does not fit its user: the role has changed since, or the user
\* is gone (service/jwt.go:29).
Outdated(t) == t.user \notin Live \/ user[t.user].role # t.role

\* Nobody is left to administer only after an admin was given another role, or
\* by an admin who is none any more: that callers cannot delete themselves
\* protects the last one as long as no token is outdated (service/user.go:160).
AdminsLostOnly ==
    [][Admins # {} /\ Admins' = {} =>
          \/ \E u \in Admins : u \in Live' /\ user'[u].role # "admin"
          \/ \E t \in tokens : Outdated(t)]_vars

\* The configured name is gone and its e-mail is another user's.
Blocked == WithName(AdminName) = {} /\ WithMail(AdminMail) # {}

\* A server that stops while Blocked never starts again as long as its configuration
\* is the same: the seeder conflicts with the e-mail at every start (database/seed.go:44),
\* also when there is an admin and user-schema/spec.md:67-69 would have it insert none.
BlockedStaysDown == [][Blocked /\ mode # "up" => Blocked' /\ mode' # "up"]_vars

\* A new token is true of its user at the moment it is signed, unless the row
\* has changed under the login (service/auth.go:32-39).
OnlyOvertakenLogins ==
    [][\A c \in Calls :
          login[c] # None /\ login'[c] = None /\ c \notin overtaken =>
              \A t \in tokens' \ tokens : ~Outdated(t)]_vars

\* Bound: the model has run out of ids, the program has not.
IdsExhausted == Live \cup retired = Users

\* A server that stops comes up again, unless the seeder is blocked; until it
\* does it may stop and fail any number of times (database/seed.go:22-51).
ComesUp == (mode = "down") ~> (mode = "up" \/ Blocked \/ IdsExhausted)

-----------------------------------------------------------------------------
(* What the documents say and the code does not do.                        *)

\* "The system SHALL seed a default admin user on startup if no user with role
\* `admin` exists in the database." (openspec/specs/user-schema/spec.md:61)
\* The seeder looks for the configured name and not for the role (database/seed.go:29).
StartSeedsAdmin == [][mode # "up" /\ mode' = "up" => Admins' # {}]_vars

=============================================================================
