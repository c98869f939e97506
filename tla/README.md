# A formal model of bookmgr

bookmgr manages picture books: admins upload books and their files, a review
workflow decides which of them readers see, and users favorite them and give
feedback. This directory holds TLA+ modules translated from the Go code of the
backend and from the users page of the web front end, TLC configurations that
check them on small instances, and TLAPS proofs. Paths below are relative to
the repository.

Check a module with `tlc -config X.cfg MCModule`, a proof with
`tlapm Module_proofs.tla`. `PROJECT.json` lists the runs, one mutated
definition for every property of a passing run (TLC must find the property
violated when the definition is replaced by it; these definitions are commented
`Fault:` in the modules), the source lines behind every definition, the
theorems, and the hazards.

## 1. Inventory

One process serves an HTTP gateway that calls an in-process gRPC server
(`backend/grpcserver`). Every RPC runs in a goroutine of its own through the
validator, the authentication interceptor, the role interceptor, a handler, a
service and a repository. There is no lock and no cache anywhere: all shared
state is in the database (Postgres, or SQLite in the standalone program) and in
the upload directory. Only three repository functions open a transaction
(`backend/repository/book.go:46, 313, 358`); everything else is a series of
single statements, between which other goroutines run.

The models follow the ent schemas (`backend/ent/schema`), which the standalone
program creates in SQLite at start, with foreign keys on. cmd/server applies
the SQL migrations of `backend/migrations` to Postgres instead. It does not get
far: the third one is not legal there, so that the program exits at every start
(run `server_migrations`); the two before it create `users` and `books`, the
latter without a status, and none of the other tables.

| Component | State it keeps | Operations | Hard behaviour | What makes it correct | Model |
|---|---|---|---|---|---|
| Review workflow (`service/book_review.go`, `handler/review_handler.go`, `repository/book_review.go`) | `books.status`, `book_reviews` | SubmitForReview, ApproveBook, RejectBook, RecallReview, two lists | read, check and write in separate statements; the status is written before the review record; restarts | who may publish; only documented transitions; a record of every change | `BookReview` |
| Books (`service/book.go`, `repository/book.go`) | `books` | create, update, delete, get, list | edits and deletion during a review; `Update` commits associations before fields; reload after commit | nothing comes back after deletion; an update is all or nothing | status, content and uploader in `BookReview`; associations in `Dimensions` |
| Book files (`service/file_service.go`, `repository/bookfile.go`, `storage/local.go`, `handler/file_handler.go`) | `book_files`, upload directory | upload, batch upload, list, download, delete | two stores without a transaction; failures and restarts between them; clean-up that may fail | rows and disk agree, or an interrupted operation explains why not; only whole files are served | `BookFiles` |
| Favorites, feedback, statistics (`service/book_favorite.go`, `service/book_feedback.go` and their repositories) | `book_favorites`, `book_feedbacks` | favorite, unfavorite, check, submit feedback, statistics, list of favorites | query and insert in separate statements, no unique index; any error is taken for "none" | one favorite and one feedback of a kind per user and book; answers that hold; meaningful statistics | `BookFeedback` |
| Dimensions (`service/dimension.go`, `repository/dimension.go`, the associations in `repository/book.go`) | `dimensions`, `book_dimensions` | create, update, delete, tree; file books | slug check before insert; child and association checks before delete; `UpdateBook` commits associations before fields | unique slugs; parents and associations live; an error leaves nothing | `Dimensions` |
| Users, authentication, role interceptor, seeding (`service/user.go`, `service/auth.go`, `service/jwt.go`, `middleware`, `database/seed.go`) | `users`, tokens held by clients | login, user management, seeding at each start | tokens outlive changes of their user; a login signs what it read before a slow hash; seeding meets existing rows | who may still administer; a token is true when signed; the server starts again | `Accounts`; roles of review operations in `BookReview` |
| Lists and paging (`repository/user.go`, `service/user.go`, `handler/book.go`) | none | ListUsers, ListBooks, ListMyFavorites | count and page are two queries; a token is an offset that becomes the number of a page; rows come and go during a walk | every row appears once, or there is a reason | `PagedList` (ListUsers) |
| Users page of the front end (`frontend/src/pages/admin/Users.tsx`) | current token, next token, stack, spinner | turn pages, delete, create, load | loads overlap, come back in any order, or fail; buttons stay enabled | the page shows what it says it shows | `UsersPage` |
| Programs, listeners and migrations (`cmd/server`, `cmd/standalone`, `grpcserver`, `database`) | the hook each process is at, listeners, migrations | start and stop hooks, migrate, serve, shut down | two processes migrate one database; a stop overlaps requests, abandoned handlers and a listener being opened; kills and timeouts | migrations whole and in order; the database closed last; stops end; starts come up | `Server` |
| Book search (`repository/book_search.go`) | `book_search_index` | search | registered, called by no handler | - | not modelled |
| Legacy PDF upload (`handler/upload.go`) | upload directory | upload, download | writes a path no row records | - | not modelled |
| Reading progress | a table | none: no code uses it | - | - | not modelled |
| Configuration, generated code, other pages, tests | - | - | - | - | see section 5 |

Components interact through calls and through the database. `BookReview`,
`BookFiles` and `Dimensions` share the deletion of a book; `BookFeedback` reads
whether the book exists; `Accounts` has the books that keep their uploader from
being deleted, and its seeding is one hook of `Server`. Each model has the
actions of the other components that touch its state. `UsersPage` is the
client of what `PagedList` serves: it takes from it that an answer carries a
token exactly when there is more.

## 2. Modules

Every module has one action per database or disk operation of a handler, and a
control point `pc[c]` per goroutine, so that TLC interleaves handlers exactly
where the code lets other goroutines in. `req` is the request, `err` the error
the service returns. In each module some variables are history: they are
marked as such, no guard reads them, and properties use them to say *when*
something may go wrong.

### BookReview, BookLifecycle

| TLA+ | Code |
|---|---|
| `status`, `uploader`, `content` | columns of `books`; a UUID never comes back, so a book is "absent" once and "deleted" for ever |
| `reviews`, `ReviewRow` | rows of `book_reviews` |
| `Receive`, `Admission`, `RolesFor` | validator, `RoleInterceptor` with `adminMethods` and `superAdminMethods` |
| `ReadBook`, `Check` | `bookRepo.GetByID`, then the checks of the service in the order of the code |
| `UpdateStatus` | `bookRepo.Update`: `UPDATE ... WHERE id`, no condition on the status |
| `CreateReview` | `reviewRepo.Create`; `FieldsSet` lacks `action`, which `FieldsRequired` (generated `check`) demands |
| `DatabaseFails`, `Restart` | any statement refused; the process dies with its goroutines |
| `CreateBook`, `EditBook`, `DeleteBook` | book handlers at the same time |
| `trail`, `stale` | history: who wrote a status through which operation; which calls hold a status that has since changed |

`BookLifecycle` is the abstract promise: only its uploader opens a book to
review, a decision never falls on a book not opened, deletion is final.
`BookReview` implements it with `opened` mapped to the books whose trail shows
a submission by their uploader.

### BookFiles, FileStore

| TLA+ | Code |
|---|---|
| `disk` | the upload directory: "none", "partial" after `os.Create`, "whole" after `io.Copy` |
| `row` | `book_files` |
| `ReceiveUpload` ... `InsertRow`, `Undo` | `UploadBookFile` (a batch of one) and the loop of `BatchUploadBookFiles` over `FileService.UploadFile` and `LocalStorage.SavePath`; `Undo` is the clean-up whose own error is dropped |
| `MimeOf`, `ExtOf`, `AllowedExts`, `TransportAdmits` | `detectContentType`, `ExtFromMimeType`, `allowedExts`, the default gRPC message limit |
| `Lookup`, `Unlink`, `RemoveRow` | `DeleteFile`: row read, disk removed, row removed |
| `Lookup`, `OpenFile`, `Stream` | `DownloadBookFile` |
| `List`, `ListByBookID`, `BookFileBook` | `ListFiles`, by a join table nothing writes |
| `DiskFails`, `DatabaseFails`, `Restart`, lossy `Respond` | failures, and answers that never reach the client |
| `gone`, `torn`, `spilt` | history: rows deleted; deletions and uploads cut short after the disk |

`FileStore` is the abstract promise: a file becomes available whole and in one
step under a fresh id, may go once, and does not come back. A file of the
detailed model is available when it has both a row and a whole disk file.

### BookFeedback

| TLA+ | Code |
|---|---|
| `favorites[u, b]` | number of rows of `book_favorites` (rows differ in id and age only) |
| `feedbacks[u, b, kind]` | values of the rows of `book_feedbacks`, oldest first |
| `Only` | ent's `Only`: an error for none *and* for several; both callers take any error for none |
| `Exists`, `QueryFavorite`, `InsertFavorite`, `Clear` | `Favorite`, `Unfavorite`, `IsFavorited`, `favRepo.Create`, `favRepo.Delete` |
| `FindBook`, `QueryFeedback`, `UpdateFeedback`, `InsertFeedback` | `SubmitFeedback`, which favorites the book first and drops that error, and `Upsert` |
| `CountFavorites`, `CountRead`, `Average` | the three queries of `GetBookStats` (`FavoriteRows`, `ReadRows`, `RatingSum` and `RatedRows` say what they compute) |
| `behind`, `touched`, `unsure` | history: calls whose query is out of date; per call, the keys it relies on that others wrote meanwhile, and the favorite it was refused; keys that received a row from a call that was behind |

The average is kept as a sum and a count.

### Dimensions, Taxonomy

| TLA+ | Code |
|---|---|
| `dim`, `retired` | rows of `dimensions`; ids of deleted ones do not come back |
| `tags` | the rows of `book_dimensions` of each book, the primary one first; None where the dimension was deleted and the association row was not (`Cut`: the join table cascades, the row it belongs to stays) |
| `SlugExists`, `FindParent`, `InsertDim` | `DimensionService.Create`; `InsertAdmitted` is the unique index and the foreign key |
| `FindDim`, `SaveDim` | `Update`; slug and parent cannot change |
| `CountChildren`, `CountBooks`, `RemoveDim` | `DimensionRepository.Delete`; `RemoveDim` has the SET NULL of children |
| `CreateTx`, `Reload` | `BookRepository.Create`: one transaction, and a read after its commit |
| `TagTx`, `SaveFields` | `BookRepository.Update`: a transaction for the associations, and `update.Save` after it |
| `GetBook`, `DeleteTx` | `BookService.Delete` |
| `DatabaseFails`, `Restart` | any statement refused; the process dies |
| `overtaken`, `dirty` | history: deletions of which a check has come untrue; calls that have changed the database |

A transaction is one step: on SQLite its first statement is a write, which
takes the write lock until the end. `Taxonomy` is the abstract promise: every
operation in one step, slugs unique, parents live, books filed under live
dimensions only.

### Accounts

| TLA+ | Code |
|---|---|
| `user`, `retired`, `book` | rows of `users`; deleted ids; the uploader of each book |
| `tokens`, `Expire` | JWTs that verify: user and role as they were when signed; 24 hours |
| `ReadUser`, `Sign` | `AuthService.Login`: the row is read, the password compared, the token signed from what was read |
| `Admitted`, `IsAdmin` | the two interceptors: they look at the token and at nothing else |
| `CreateUser`, `UpdateUser`, `Masked`, `DeleteUser` | `UserService`; a password bcrypt cannot hash (over 72 bytes) is left out without an error |
| `UploaderExists`, `MayDelete` | the foreign key of books on users, and that callers cannot delete themselves |
| `Stop`, `Start`, `SeedLookup`, `SeedLookupFails`, `SeedInsert`, `SeedInsertFails` | `seedAdmin` at each start: any error of the lookup counts as a missing admin, and an error of the insert ends the program |
| `overtaken` | history: logins whose row has changed since they read it |

The four roles are two here: `admin` and `super_admin` may manage users,
`teacher` and `parent` may not.

### PagedList

| TLA+ | Code |
|---|---|
| `rows` | the table, rows named in the order of creation; lists show the newest first |
| `Count`, `Page` | the two queries of `UserRepository.List`; `Slice` is OFFSET and LIMIT |
| `Start` | `(offset / pageSize) + 1`, and back to an offset in the repository: with a page size that does not divide the offset it rounds down |
| `More`, `Following` | whether `UserService.List` answers a token, and which |
| `Begin`, the choice of `size` in `Page` | a client that follows the tokens, with any page size at each call |
| `witness`, `inserted`, `deleted`, `late`, `misaligned` | history: what was there throughout, and what happened on the way |

### UsersPage

| TLA+ | Code |
|---|---|
| `currentToken`, `nextToken`, `prevTokens`, `loading`, `shown` | the state of the component; a token is the number of the page it leads to, 0 the empty one |
| `StartLoad`, `Serve`, `LoadAnswered`, `LoadFails` | `loadUsers` up to its `await`, the server, and the two ways it comes back |
| `SetCurrentToken` | the effect loads when the token has changed |
| `ClickNext`, `ClickPrev` | `handleNextPage`, `handlePrevPage`; the buttons stay enabled during a load |
| `ClickEdit`, `EditAnswered`, `EditFails` | `handleDelete` and `handleCreate`, which load the token of the render they belong to |
| `OthersEdit` | other admins make the list longer or shorter |
| `mixed`, `failed`, `left`, `hasty` | history: loads overlapped; the last one failed; it came from an edit of a page the user has left; Next was pressed while another page was on display |

### Server

| TLA+ | Code |
|---|---|
| `phase`, `StartHook`, `StopHook` | the hook fx is at, in the order of the modules, and in the reverse order when it stops |
| `Seed`, `SeedConflicts` | `seedAdmin` in its hook: it is content, or its insert is refused by the index of the e-mails and the program exits |
| `blocked`, `EditUsers` | the processes in whose `users` table the configured name is free and its e-mail taken, the state `Blocked` of `Accounts`; a request of an admin brings it about or ends it |
| `ReadRevisions`, `Apply`, `ApplyRefused`, `Migrated` | `runMigrations`: the revisions are read once, then each migration and its revision in one transaction |
| `CreateSchema` | the standalone program's `Schema.Create` |
| `StartGRPC`, `Serve`; `StartHTTP`, `Listen` | hooks that only start a goroutine, and that goroutine, whose error is dropped |
| `Request`, `Dispatch`, `Respond`, `Leave` | an HTTP connection, its handler, and a client that leaves while the handler goes on ("orphan") |
| `Stop`, `Disconnected`, `Drained`, `Exit`, `TimesOut` | `Shutdown`, `GracefulStop`, the closing of the database, and the stop timeout of fx |
| `HookFails`, `Killed` | failures of hooks, kills |

## 3. Runs

| Run | Checks | Shows |
|---|---|---|
| `review_races` | `TypeOK`, `PublishedProvenance`, `InFlightGuarantees`, `OnlyRacesLeaveWorkflow`, `ImplementsLifecycle` | With two overlapping handlers, edits, deletion, failures and restarts: a visible book was submitted by its own uploader and approved by an admin; the documented state machine is left only by a handler whose read went stale |
| `files_faults` | `TypeOK`, `RowsAreBacked`, `DiskIsAccounted`, `OnlyWholeFilesServed`, `AnsweredUploadsExist`, `ImplementsFileStore` | A row without a file is always an interrupted deletion, a file without a row always an interrupted upload; no half written file is ever served; a deleted file does not come back (a part of `FileStore`) |
| `feedback_overlap` | `TypeOK`, `OneFavoriteUnlessRaced`, `OneFeedbackUnlessRaced`, `FavoriteAnswersHold`, `FeedbackAnswersHold`, `StatsMakeSense`, `StatsAreCurrent` | Duplicates need an overlap or a failed query, and end with the next removal; answers hold when given; an accepted submission has made its book a favorite unless that insert was refused; a number of the statistics is torn from the others only by a write to rows of its own kind, and all are legal |
| `dimensions_races` | `TypeOK`, `ReferencesHold`, `TagsHaveBooks`, `ErrorsLeaveNothing`, `OnlyRacesOrphan`, `ImplementsTaxonomy` | The schema keeps what the checks cannot; a deletion orphans children or associations only when another call came between its checks and its delete; a failed call has changed something in two cases only |
| `accounts_server` | `TypeOK`, `RowsAgree`, `AdminsLostOnly`, `BlockedStaysDown`, `OnlyOvertakenLogins`, `ComesUp` | The last admin is lost by a change of role or through an outdated token; a server whose configured e-mail is another user's never starts again with that configuration, and any other comes up again |
| `users_walk` | `OmissionsExplained`, `RepeatsExplained`, `WalkEnds` | A walk misses or repeats a user for named reasons only, and ends |
| `users_page` | `ShowsCurrent`, `StackIsPath`, `SpinnerStops` | What is on display is the current page unless loads overlapped, failed, or came from an edit of another page; the stack leads back unless Next was pressed too early; the spinner stops |
| `server_lifecycle` | `MigrationsAreWhole`, `HandlersHaveDatabase`, `RestartsComeUp`, `StopsEnd` | Two processes that migrate one database and a standalone program: migrations are whole and in order, no handler outlives its database, a stop ends, and a standalone program that connects again and again comes up, unless its seeder is blocked for good |

Runs that are expected to find a violation, each with a finding in
`PROJECT.json`:

| Run | Property | What the code does |
|---|---|---|
| `review_transitions` | `WorkflowTransitions` | two decisions on one pending book both succeed, so an approved book goes back to draft or a rejected one becomes approved |
| `review_history` | `HistoryShowsEveryChange` | no review record is ever stored: the insert lacks a required field |
| `accounts_seeding` | `StartSeedsAdmin` | the seeder looks for the configured name and not for the role: the only admin is given another role, and the next start seeds none (`openspec/specs/user-schema/spec.md:61` says it shall) |
| `server_migrations` | `ServersComeUp` | the third migration is not legal in Postgres, so that cmd/server exits at every start, without any failure |

Disagreements between code and documents met while modelling that have no run,
because they follow from one line or from a property that is already explained:

- a review operation that has changed the status answers Internal, because its
  record is refused (`features/picturebook-review/绘本审核.feature:114` expects 200);
- a rejected book cannot be submitted again (`backend/service/book_review.go:56`;
  `openspec/changes/05-book-review/proposal.md:105` allows it);
- an admin may approve but not reject (`backend/middleware/role.go:33`;
  `openspec/changes/05-book-review/design.md:37` gives both to admins);
- `ErrNotPending` is answered with Internal, because
  `backend/handler/review_handler.go:206` looks for words its text does not contain;
- a rejection without a reason is refused by the validator with no status code,
  so the gateway answers 500 where the feature file (line 139) expects 400;
- a pending book can be edited (`EditBook` of `BookReview`;
  `openspec/changes/05-book-review/proposal.md:101`);
- uploads above 4 MB are refused by the transport
  (`openspec/changes/04-book-upload/proposal.md:32` promises 500 MB), and MP4
  and M4A files as invalid (`features/picturebook-upload/绘本上传.feature:62`);
- `ListBookFiles` selects by a join table no code writes and shows nothing
  (`api/bookmgr/v1/file_service.proto:29`), every answer names the file type
  "print" (`backend/handler/file_handler.go:225`), and deleting a book leaves
  its files (`openspec/changes/04-book-upload/design.md:122`);
- overlapping submissions store two favorites or two rows of one kind of
  feedback, and from then on every submission adds one
  (`backend/repository/book_favorite.go:23`, `book_feedback.go:59`);
- a repeated favorite is answered like the first
  (`features/picturebook-feedback/收藏反馈.feature:22` expects 409), and
  `ListMyFavorites` follows an edge no code sets and shows no book;
- a dimension that gets a child between the check and the delete is deleted
  and the child comes to the top (`backend/repository/dimension.go:102`);
- the seeder tries to insert an admin although there is one when the configured
  name is free (`openspec/specs/user-schema/spec.md:67`), which is how a server
  comes to be `Blocked`;
- a duplicate user on SQLite is not recognised as one
  (`backend/handler/user.go:55`); a password over 72 bytes is skipped without an
  error (`backend/service/user.go:146`), so that the caller reads OK;
- ListBooks always shows its first page (`api/bookmgr/v1/book_service.proto:211`
  promises tokens), and so do the lists of favorites and pending books;
- when HTTP `Shutdown` uses up the stop timeout, `GracefulStop` is skipped
  (`openspec/changes/grpc-api-setup/specs/grpc-gateway-integration/spec.md:12`),
  and a busy port is not reported: the program says that it has started.

### Bounds

- *Two calls in flight* (`Calls`) where calls have several steps. Every race of
  this code is between one check and one write; two goroutines are the smallest
  number that has them, and goroutines are reused, so a run has any number of
  calls one after another. `Accounts` has one login in flight: what it races
  with are the user operations, which are single steps. The proofs remove these
  bounds in all eight components.
- *One book.* No operation looks at two books, and rows of different books
  share nothing.
- *Three users* in `review_races`: an uploader who is an admin, a super admin,
  and a teacher, so that owner, foreign and insufficient callers all occur.
  *One user* in `BookFeedback`, whose keys include the user: calls of different
  users touch different rows and meet only in the statistics. *Two users* in
  `accounts_server`, the seeded admin and another, each of whom can take the
  other's name or e-mail; deleted ids do not come back, and `IdsExhausted` names
  the states in which the model, and not the program, has run out of them.
- *Three file ids and batches of up to two* (`Files`, `MaxBatch`): a batch can
  fail at its second entry while another file is deleted. The entries include
  one that is stored, one the transport refuses and one refused for its format.
- *Three rows* of favorites and feedback together (`MaxRows`), read only when a
  request arrives: calls under way may still insert. So a duplicate favorite, a
  duplicate rating and a duplicate reading mark occur, and calls that meet them
  and add a third row.
- *Ratings* 1, 5 and 6: two legal values to tell an update from the old value,
  and one beyond the bound. *Two kinds*, ratings and reading marks (`UsedKinds`):
  those the statistics read.
- *Three dimensions, two slugs* in `dimensions_races`: a parent, a child and one
  more to take a slug that has become free; lists of up to two slugs.
- *Five rows, page sizes 1, 2 and 3* in `users_walk`: pages that are full, half
  full and empty, and sizes that do not divide an offset.
- *Three pages, two loads, one edit, a stack of three* in `users_page`.
- *Two processes on one database and a standalone one on the same port, two
  migrations, one connection* in `server_lifecycle`; users are edited through
  the standalone one only (`Managed`), about whose seeder there is a property.
  The third migration is left
  to `server_migrations`: with it cmd/server never comes up and nothing of the
  rest could be seen.
- `Symmetry` permutes goroutines and ids that are interchangeable in the
  specification; no run with a liveness property uses it.
- Runs that answer one question about a single handler use one call and no
  faults, so that their counterexample is short and owes nothing to a failure.

### Deadlock and fairness

All runs check deadlock: a client can always send another request, an answered
goroutine can always end, and a program that is down can be started. (In
`BookFiles`, when ids are exhausted, `ReceiveList` still runs.)

`BookReview`, `BookFiles`, `BookFeedback` and `Dimensions` state no fairness,
because they claim no liveness: a handler ends if the database answers, but
nothing in this code retries, so after a failure or a restart no operation is
ever completed on its own. The properties say instead which states an
interrupted operation may leave for ever. Four modules have liveness, and
what it assumes:

- `Accounts`: the program is started again whenever it stops, and the seeder
  runs to its end, one way or the other (weak fairness). A database that is
  asked again at every start answers in the end (strong fairness of the lookup
  and the insert); an insert the indexes refuse is not enabled, so that nothing
  is assumed of a server that is `Blocked`, and `ComesUp` says so. The restart
  policy is that of the container of cmd/server
  (`ops/cd/prod/docker-compose.yml:25`, `restart: unless-stopped`), which on a
  fresh Postgres does not reach its seeder (`server_migrations`): there
  `ComesUp` is about a database its migrations have passed. The standalone
  program is restarted by whoever uses it. Nothing is assumed of stops: they may
  come at any time.
- `PagedList`: the server answers, and a client that has begun a walk goes on.
  Nothing is assumed of insertions, and they are bounded by `MaxRow`: with
  insertions for ever a walk need not end.
- `UsersPage`: a request is served and comes back or fails, if only by the
  timeout of the browser. Nothing is assumed of the user.
- `Server`: fx goes from hook to hook, and a stop ends, if only at the timeout fx
  gives it. A hook of a standalone program that gets its chance again and again
  is not cut short for ever by a failing disk or a kill (strong fairness of the
  four hooks). That is no assumption about the seeder's conflict: `Seed` is not
  enabled while the process is `blocked`, `SeedConflicts` ends it at every start,
  and `RestartsComeUp` names this as the one way to stay down. The configured
  password is taken to be one that can be hashed. Listeners, clients and
  handlers may take for ever: that is why `StopsEnd` needs the timeout.

## 4. Proofs

For any sets of books, users, dimensions, processes, calls and so on, with or
without faults:

| Module | Theorem | States |
|---|---|---|
| `BookReview_proofs` | `TypeCorrect` | `Spec => []TypeOK` |
| | `ProvenanceHolds` | `Spec => []PublishedProvenance` |
| | `InFlightHolds` | `Spec => []InFlightGuarantees` |
| | `OnlyRacesHolds` | `Spec => OnlyRacesLeaveWorkflow` |
| | `RefinesLifecycle` | `Spec => ImplementsLifecycle` |
| | `SequentialWorkflow` | `Spec => WorkflowTransitions`, if calls come one at a time |
| `BookFiles_proofs` | `TypeCorrect`, `RowsBacked`, `DiskAccounted`, `WholeFilesServed`, `UploadsStored` | the invariants of `files_faults` |
| | `RefinesFileStore` | `Spec => ImplementsFileStore` |
| | `FaultlessStoresAgree` | rows and disk agree but for calls under way, if nothing fails |
| `BookFeedback_proofs` | `TypeCorrect`, `FavoritesOnce`, `FeedbacksOnce`, `FavoriteAnswers`, `FeedbackAnswers`, `StatsSound`, `StatsCurrentHolds` | the invariants of `feedback_overlap` |
| | `SequentialFeedback` | no duplicates at all, if calls come one at a time and nothing fails |
| `Dimensions_proofs` | `TypeCorrect`, `ReferencesKept`, `TagsKept`, `ErrorsHold`, `OrphansHold` | the invariants of `dimensions_races` and `OnlyRacesOrphan` |
| | `RefinesTaxonomy` | `Spec => ImplementsTaxonomy` |
| | `SequentialDeletions` | no deletion orphans anything, if calls come one at a time |
| `Accounts_proofs` | `TypeCorrect`, `RowsHold`, `AdminsHold`, `BlockedHolds`, `LoginsHold` | every safety property of `accounts_server` |
| | `LockoutIsFinal` | what the violation of `StartSeedsAdmin` costs: without an admin, or a token or login of one, and with the configured name taken, no call and no restart restores one |
| `PagedList_proofs` | `OmissionsHold`, `RepeatsHold` | both invariants of `users_walk` |
| `UsersPage_proofs` | `TypeCorrect`, `StackHolds`, `DisplayHolds`, `SpinnerHolds` | types, both invariants of `users_page`, and that the spinner tells whether a load is in flight |
| `Server_proofs` | `TypeCorrect`, `MigrationsHold`, `HandlersHold` | types and both invariants of `server_lifecycle` |

Assumptions are the `ASSUME`s of the modules, which TLC evaluates in every run:
that None is none of the values it is told apart from, that `Faults` is a
Boolean, that a token names a known user and one of the four roles
(`ClaimsAssumption`; what signatures and the login establish), that the lists
clients send are sequences of slugs, that sizes are numbers, that the users
whose rows are counted are finitely many. Bounds that keep TLC's state space
small (`MaxBatch`, `MaxRows`, `MaxRow`) are constants, and the theorems are
about every value of them.

*Review.* The inductive invariant is
`IInv == TypeOK /\ PublishedProvenance /\ InFlightGuarantees`.
`PublishedProvenance` is not inductive by itself: the step that approves a book
writes without looking, and all that justifies it was read one statement
earlier. `InFlightGuarantees` says what survives from that read: the caller's
role, the owner (no code changes an uploader), and the submission, which is
history and cannot be undone. What does *not* survive is the status, and
the guarantee says so: it holds only for calls that are not stale. This is
the whole argument for `OnlyRacesLeaveWorkflow` too. Two lemmas carry the proof:
`Lasting` (what no step undoes) and `BystanderKeepsGuarantees` (a step of one
call against the guarantees of another). The refinement follows case by case:
`UpdateStatus` is a `Submit` or a `Conclude`, allowed because the guarantees
say that the book is open; reads, failures and restarts stutter.

*Files.* `FilesInv` adds three things to the invariants of the run.
`FreshNames`: the names an upload has generated are told apart from those of
every other upload and unknown to clients until the upload ends; this is where
the UUIDs matter, and `NamesAreSafe` follows from it: nobody else writes or
deletes them. `Progress`: before the entry an upload is at, everything is
stored, and from there on nothing has a row; the row is inserted over a whole
file. `KnownFiles`: what clients know is not being written any more, and a
deletion that is about to remove a row has removed its file. `RowsAreBacked`
and `DiskIsAccounted` are not inductive without the last two, since the write
of a row looks at nothing. In the refinement, the insert of a row is the `Store`
of `FileStore`, the unlink of a file with a row its `Remove`, and all else
stutters: failures after the unlink leave a row that is no longer available.

*Favorites and feedback.* `FeedbackInv` adds what a call knows at its control
point. `InsertsKnown`: a call about to insert saw no row, and there still is
none unless it is behind or its key is in doubt. That is the heart of
`FavoritesOnce` and `FeedbacksOnce`: an insert puts all calls at the same point
behind, and whoever inserts from behind leaves the key in doubt.
`UpdatesFound` (rows of feedback are never removed), `FavoriteMade` (the book is
a favorite, or that insert was refused, whatever else failed) and `Validated`
carry the answers and the ratings. Calls disturb each other only by touching a
key (`FavoritesOfOthers`, `FeedbacksOfOthers`, `UntouchedRows`); with
`StatsCurrent`, which says from which point on each number of the statistics is
the current one, that gives `StatsAreCurrent`. The statistics need sums over a
set of rows: `SumExists` and `SumBounds` show that such a sum exists and lies
between once and five times the number of rows, `TotalBounds` that `Total` is
one, and `ReadersBounded` that rows without duplicates map one to one into the
users.

*Dimensions.* `DimensionsInv == TypeOK /\ ReferencesHold /\ TagsHaveBooks` is
inductive, because no table depends on what a call has read: `InsertAdmitted`
and the conditions of the transactions decide at the write. Calls are typed by
`Fits`, which ties a control point to its request and to the row it has looked
up. Two more invariants are about calls: `DirtyCalls` (a call that has changed
the database waits for one of the two statements after a commit) for
`ErrorsLeaveNothing`, and `ChecksHold` (the checks of a deletion that is not
overtaken still hold) for `OnlyRacesOrphan`.

*Accounts.* `AccountsInv == TypeOK /\ RowsAgree` is inductive for the same
reason. The action properties follow from the types alone; `OnlyOvertakenLogins`
needs `LoginsCurrent`: what a login has read still stands unless it is overtaken.

*PagedList.* `WalkInv` says which rows lie before the offset of the walk: those
that were shown (`BehindIsShown`, and conversely `ShownLiesBehind`), as long as
page sizes divide offsets (`Aligned`). A deletion moves rows to the front and
breaks the first, an insertion moves them back and breaks the second, which is
why the two properties name different excuses. `TotalFits` is why a walk ends
where the table does.

*UsersPage.* `PathInv` adds to `StackIsPath` that the next token of an answer
follows the token it was loaded with (`AnswersFollow`); `DisplayInv` adds that
without overlap there is one load, for the current token.

*Server.* `MigrationInv` adds that what a process takes for applied is recorded
(`KnownIsRecorded`): records are never removed, so that a process that read them
long ago can only be refused. `HandlerInv` adds that a listener is bound in a
program that is up (`ListenersFollow`) and that connections last until
`Shutdown` has returned (`CallsFollow`).

*Excuses.* Many invariants have an excuse that is history: unless a call was
stale, overtaken, behind, a file torn. Four theorems show that the excuse is not
a way out. Where the hypothesis `\A c, d \in Calls : c = d` lets no two calls
overlap, nothing is ever stale or overtaken, and the documented transitions and
the checks of a deletion hold even with failures and restarts; feedback needs
that nothing fails either, because a failed query counts as "none". Rows and
disk need only the latter: any overlap of uploads, downloads and deletions
leaves them in agreement.

*Induction.* The library's induction theorems take an operator as a parameter,
which the installed provers cannot instantiate. The sums are folds, so they need
induction over finite sets all the same. `NatSetInduction` derives it for sets of
numbers, which are values, from the existence of minimal elements (`WFMin`), and
`FoldInduction` for the subsets of a finite set in the order in which a fold
takes elements away.

Every safety property that a passing run checks is proved. Only model-checked is
all liveness (`ComesUp`, `WalkEnds`, `SpinnerStops`, `RestartsComeUp`,
`StopsEnd`), which with fairness and ENABLED is out of the prover's reach. The
modules have no RECURSIVE operators.

## 5. What the models leave out

Texts, time stamps, file contents, hashing and signatures; field lists of books
other than one abstract `content`; retries of clients other than as further
requests; partial effects inside one SQL statement (there are none). `BookFiles`,
`BookFeedback` and `Dimensions` leave out roles. A network that loses an answer
is in `BookFiles` (the client never learns an id) and in `UsersPage` (a load
that fails); elsewhere a lost answer changes nothing the server keeps.

A database call that fails (`DatabaseFails`) was refused and has had no effect.
A statement that was committed while its acknowledgement was lost is outside the
models. It would matter for `RowsAreBacked` (the clean-up would remove the file
of a row that is there), for `ErrorsLeaveNothing` (any error could then leave
its effect) and for what a refused insert says of a favorite. `PagedList` orders rows by their creation:
ties of `created_at`, which the query leaves in any order, are not modelled.

Not modelled at all:

- *Generated code* (`backend/ent`, `gen`): more than nine tenths of the lines of
  the implementation. The models say what its statements do to the tables, and
  what its checks refuse where behaviour hinges on them
  (`BookReviewCreate.check`, `BookFavoriteQuery.Only`, the check of
  `BookUpdateOne`, the indexes and foreign keys of `migrate/schema.go`). Setters,
  predicates, scanning of rows, protobuf messages and client stubs carry no
  logic of this program. This is why the map covers a small part of all lines,
  although it covers most of the hand-written handlers, services and repositories.
- *Book search* (`backend/repository/book_search.go`, `service/book_search.go`)
  is constructed and called by nobody.
- *Legacy PDF upload* (`backend/handler/upload.go`): it writes a file whose path
  is never recorded, so that the download always answers that there is none.
  There is no second state for the file to disagree with.
- *Reading progress*: a table without code.
- *ListBooks, ListMyFavorites, ListPendingBooks*: they answer their first page
  whatever token comes, so there is no walk; their filters are SQL conditions.
- *The other pages of the front end*: a form or a list that loads once.
  `Books.tsx` has the state of `UsersPage` over a list that never has a token.
- *Configuration, HTTP translation, the single-page application, tests,
  scripts, deployment*: no state of their own.

## 6. Plan

All components that keep state are modelled, checked and proved about. Next, in
this order:

1. The lists that always show their first page, if they learn to follow tokens:
   instances of `PagedList` with their own conversion of token and page.
2. A composition of `BookReview` and `BookFiles` over the deletion of a book,
   if deletion ever removes files.
3. The same theorems about excuses for `Accounts`, `UsersPage` and `PagedList`,
   whose overlaps are not bounded by a constant alone.
