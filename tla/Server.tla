------------------------------- MODULE Server -------------------------------
(***************************************************************************)
(* The life of the two programs, cmd/server and cmd/standalone: the hooks  *)
(* fx runs when a program starts and, in the reverse order, when it stops  *)
(* (backend/database, backend/grpcserver), the goroutines of the two       *)
(* listeners, and the requests in flight meanwhile.  cmd/server migrates a *)
(* Postgres database that several processes may share; cmd/standalone      *)
(* creates the schema of its own SQLite file.                              *)
(*                                                                         *)
(* A request is an HTTP connection that waits for a handler of the gRPC    *)
(* server behind the gateway.  Its handler goes on when the client leaves. *)
(***************************************************************************)
EXTENDS Naturals, FiniteSets

CONSTANTS
    Servers,        \* processes of cmd/server, sharing one database
    Standalones,    \* processes of cmd/standalone
    LastMigration,  \* migrations are numbered in the order of their file names
    Refused,        \* those whose SQL Postgres does not accept
    Calls,          \* connections
    Managed,        \* bound: the processes through which admins edit users
    Faults,         \* TRUE: processes are stopped and killed, and hooks fail
    None

Procs == Servers \cup Standalones
Migrations == 1..LastMigration

ASSUME ServerProgramsAssumption == Servers \cap Standalones = {} /\ None \notin Procs
ASSUME ServerMigrationsAssumption == LastMigration \in Nat /\ Refused \subseteq Migrations
ASSUME ServerFaultsAssumption == Faults \in BOOLEAN

VARIABLES
    phase,      \* the hook each process is at
    known,      \* the migrations it takes for applied
    applied,    \* those whose changes the database holds
    revisions,  \* those recorded in atlas_schema_revisions
    blocked,    \* the processes whose seeder conflicts: in the users table of
                \* their database the configured name is free and the e-mail that
                \* goes with it is taken (Blocked of Accounts)
    port,       \* who holds the port: a process, or None
    http,       \* the HTTP listener: "none", "starting" or "bound"
    grpc,       \* the gRPC server: "none", "starting" or "serving"
    call        \* [proc, stage] of each connection, or None

dbVars == <<applied, revisions, blocked>>
netVars == <<port, http, grpc, call>>
vars == <<phase, known, applied, revisions, blocked, port, http, grpc, call>>

Phases == {"off", "connect", "migrate", "seed", "grpc", "gateway", "up",
           "shutdown", "drain", "closed"}
Stopping == {"shutdown", "drain", "closed"}

\* The processes that use the database of p.
Sharing(p) == IF p \in Servers THEN Servers ELSE {p}

CallsAt(p, stages) == {c \in Calls : call[c] # None /\ call[c].proc = p /\ call[c].stage \in stages}

-----------------------------------------------------------------------------
Init ==
    /\ phase = [p \in Procs |-> "off"]
    /\ known = [p \in Procs |-> {}]
    /\ applied = {} /\ revisions = {} /\ blocked = {}
    /\ port = None
    /\ http = [p \in Procs |-> "none"]
    /\ grpc = [p \in Procs |-> "none"]
    /\ call = [c \in Calls |-> None]

GoTo(p, from, to) == phase[p] = from /\ phase' = [phase EXCEPT ![p] = to]

\* The process is gone, and with it its connections and its port.
Gone(p) ==
    /\ phase' = [phase EXCEPT ![p] = "off"]
    /\ known' = [known EXCEPT ![p] = {}]
    /\ port' = IF port = p THEN None ELSE port
    /\ http' = [http EXCEPT ![p] = "none"]
    /\ grpc' = [grpc EXCEPT ![p] = "none"]
    /\ call' = [c \in Calls |-> IF c \in CallsAt(p, {"http", "rpc", "orphan"}) THEN None ELSE call[c]]
    /\ UNCHANGED dbVars

-----------------------------------------------------------------------------
(* The start hooks.                                                        *)

Start(p) == GoTo(p, "off", "connect") /\ UNCHANGED <<known, dbVars, netVars>>

\* NewSQLiteEntClient: Schema.Create makes what is missing.
CreateSchema(p) ==
    /\ p \in Standalones
    /\ GoTo(p, "connect", "seed")
    /\ UNCHANGED <<known, dbVars, netVars>>

\* runMigrations: the revisions are read once, before the first migration.
ReadRevisions(p) ==
    /\ p \in Servers
    /\ GoTo(p, "connect", "migrate")
    /\ known' = [known EXCEPT ![p] = revisions]
    /\ UNCHANGED <<dbVars, netVars>>

Pending(p) == Migrations \ known[p]
NextPending(p, m) == m \in Pending(p) /\ \A n \in Pending(p) : m <= n

\* Whether the transaction of m commits: the SQL is legal and creates what is
\* not there, and the revision is new.
Commits(m) == m \notin Refused \cup applied \cup revisions

\* Fault: the revision is recorded outside the transaction of the SQL, and may
\* not be.
ApplyThenRecord(p) ==
    /\ phase[p] = "migrate"
    /\ \E m \in Migrations :
          /\ NextPending(p, m) /\ Commits(m)
          /\ applied' = applied \cup {m}
          /\ revisions' \in {revisions, revisions \cup {m}}
          /\ known' = [known EXCEPT ![p] = @ \cup {m}]
    /\ UNCHANGED <<phase, blocked, netVars>>

\* One migration: its SQL and its revision in one transaction.
Apply(p) ==
    /\ phase[p] = "migrate"
    /\ \E m \in Migrations :
          /\ NextPending(p, m) /\ Commits(m)
          /\ applied' = applied \cup {m}
          /\ revisions' = revisions \cup {m}
          /\ known' = [known EXCEPT ![p] = @ \cup {m}]
    /\ UNCHANGED <<phase, blocked, netVars>>

\* The transaction is rolled back, and the program exits.
ApplyRefused(p) ==
    /\ phase[p] = "migrate"
    /\ \E m \in Migrations : NextPending(p, m) /\ ~Commits(m)
    /\ Gone(p)

Migrated(p) ==
    /\ Pending(p) = {}
    /\ GoTo(p, "migrate", "seed")
    /\ UNCHANGED <<known, dbVars, netVars>>

\* seedAdmin finds its admin or inserts it: see Accounts.
Seed(p) ==
    /\ p \notin blocked
    /\ GoTo(p, "seed", "grpc")
    /\ UNCHANGED <<known, dbVars, netVars>>

\* The index of the e-mails refuses the insert, and the program exits.
SeedConflicts(p) == p \in blocked /\ phase[p] = "seed" /\ Gone(p)

\* Fault: Serve runs in the hook and not in a goroutine.
StartGRPCInHook(p) ==
    /\ phase[p] = "grpc"
    /\ grpc' = [grpc EXCEPT ![p] = "serving"]
    /\ UNCHANGED <<phase, known, dbVars, port, http, call>>

StartGRPC(p) ==
    /\ GoTo(p, "grpc", "gateway")
    /\ grpc' = [grpc EXCEPT ![p] = "starting"]
    /\ UNCHANGED <<known, dbVars, port, http, call>>

\* The gateway registers its handlers, ListenAndServe runs in a goroutine, and
\* the program says that it has started.
StartHTTP(p) ==
    /\ GoTo(p, "gateway", "up")
    /\ http' = [http EXCEPT ![p] = "starting"]
    /\ UNCHANGED <<known, dbVars, port, grpc, call>>

\* Any hook that talks to the database may fail: fx stops, and the program exits.
HookFails(p) == Faults /\ phase[p] \in {"connect", "migrate", "seed"} /\ Gone(p)

-----------------------------------------------------------------------------
(* The goroutines of the listeners.                                        *)

\* The goroutine of the gRPC server; after GracefulStop, Serve returns at once.
Serve(p) ==
    /\ grpc[p] = "starting"
    /\ grpc' = [grpc EXCEPT ![p] = IF phase[p] \in {"drain", "closed"} THEN "none" ELSE "serving"]
    /\ UNCHANGED <<phase, known, dbVars, port, http, call>>

\* Fault: the goroutine listens although Shutdown has been called.
ListenAnyway(p) ==
    /\ http[p] = "starting"
    /\ IF port # None
       THEN http' = [http EXCEPT ![p] = "none"] /\ UNCHANGED port
       ELSE http' = [http EXCEPT ![p] = "bound"] /\ port' = p
    /\ UNCHANGED <<phase, known, dbVars, grpc, call>>

\* ListenAndServe: after Shutdown it returns, and any error is dropped.
Listen(p) ==
    /\ http[p] = "starting"
    /\ IF phase[p] \in Stopping \/ port # None
       THEN http' = [http EXCEPT ![p] = "none"] /\ UNCHANGED port
       ELSE http' = [http EXCEPT ![p] = "bound"] /\ port' = p
    /\ UNCHANGED <<phase, known, dbVars, grpc, call>>

-----------------------------------------------------------------------------
(* Requests.                                                               *)

SetCall(c, x) ==
    /\ call' = [call EXCEPT ![c] = x]
    /\ UNCHANGED <<phase, known, dbVars, port, http, grpc>>

Request(c, p) ==
    /\ call[c] = None /\ http[p] = "bound"
    /\ SetCall(c, [proc |-> p, stage |-> "http"])

\* The gateway dials the gRPC server, which waits for its goroutine.
Dispatch(c) ==
    /\ call[c] # None /\ call[c].stage = "http" /\ grpc[call[c].proc] = "serving"
    /\ SetCall(c, [call[c] EXCEPT !.stage = "rpc"])

Respond(c) ==
    /\ call[c] # None /\ call[c].stage \in {"rpc", "orphan"}
    /\ SetCall(c, None)

\* A handler of UserService frees the configured name while its e-mail stays
\* taken, or settles such a conflict.
EditUsers(c) ==
    /\ call[c] # None /\ call[c].stage \in {"rpc", "orphan"} /\ call[c].proc \in Managed
    /\ LET ps == Sharing(call[c].proc) IN blocked' \in {blocked \cup ps, blocked \ ps}
    /\ UNCHANGED <<phase, known, applied, revisions, netVars>>

\* The client leaves; a handler that runs does not notice.
Leave(c) ==
    /\ call[c] # None /\ call[c].stage \in {"http", "rpc"}
    /\ SetCall(c, IF call[c].stage = "rpc" THEN [call[c] EXCEPT !.stage = "orphan"] ELSE None)

-----------------------------------------------------------------------------
(* The stop hooks.                                                         *)

\* Shutdown closes the listener and begins to wait for the connections.
Stop(p) ==
    /\ Faults
    /\ GoTo(p, "up", "shutdown")
    /\ port' = IF port = p THEN None ELSE port
    /\ http' = [http EXCEPT ![p] = IF @ = "bound" THEN "none" ELSE @]
    /\ UNCHANGED <<known, dbVars, grpc, call>>

\* The connections are done; GracefulStop waits for the handlers.
Disconnected(p) ==
    /\ CallsAt(p, {"http", "rpc"}) = {}
    /\ GoTo(p, "shutdown", "drain")
    /\ UNCHANGED <<known, dbVars, netVars>>

\* The handlers are done; the database is closed.
Drained(p) ==
    /\ CallsAt(p, {"orphan"}) = {}
    /\ GoTo(p, "drain", "closed")
    /\ UNCHANGED <<known, dbVars, netVars>>

Exit(p) == phase[p] = "closed" /\ Gone(p)

\* Fault: only Shutdown heeds the timeout.
TimesOutInShutdown(p) == phase[p] = "shutdown" /\ Gone(p)

\* The timeout fx gives all stop hooks: the program exits as it is.
TimesOut(p) == phase[p] \in {"shutdown", "drain"} /\ Gone(p)

Killed(p) == Faults /\ phase[p] # "off" /\ Gone(p)

StartHook(p) ==
    \/ CreateSchema(p)
    \/ ReadRevisions(p) \/ Apply(p) \/ ApplyRefused(p) \/ Migrated(p)
    \/ Seed(p) \/ SeedConflicts(p) \/ StartGRPC(p) \/ StartHTTP(p) \/ HookFails(p)
StopHook(p) == Disconnected(p) \/ Drained(p) \/ Exit(p) \/ TimesOut(p)

Next ==
    \/ \E p \in Procs :
          \/ Start(p) \/ StartHook(p) \/ Serve(p) \/ Listen(p)
          \/ Stop(p) \/ StopHook(p) \/ Killed(p)
    \/ \E c \in Calls :
          \/ \E p \in Procs : Request(c, p)
          \/ Dispatch(c) \/ EditUsers(c) \/ Respond(c) \/ Leave(c)

Spec == Init /\ [][Next]_vars

\* fx goes from hook to hook, and a stop ends, if only at its timeout; the
\* containers of cmd/server are restarted (ops/cd/prod/docker-compose.yml:25).
\* A hook of a standalone program that gets its chance again and again is not
\* for ever cut short by a failing disk or a kill.  This says nothing of a seeder
\* that is blocked, for which Seed is not enabled: it conflicts at every start.
\* Handlers and clients may take for ever.
FairSpec ==
    /\ Spec
    /\ \A p \in Servers : WF_vars(Start(p) \/ StartHook(p) \/ StopHook(p))
    /\ \A p \in Standalones : WF_vars(StartHook(p) \/ StopHook(p))
    /\ \A p \in Standalones : /\ SF_vars(CreateSchema(p)) /\ SF_vars(Seed(p))
                              /\ SF_vars(StartGRPC(p)) /\ SF_vars(StartHTTP(p))

-----------------------------------------------------------------------------
(* What holds.                                                             *)

\* Every variable keeps its type.
TypeOK ==
    /\ phase \in [Procs -> Phases]
    /\ known \in [Procs -> SUBSET Migrations]
    /\ applied \subseteq Migrations /\ revisions \subseteq Migrations
    /\ blocked \subseteq Procs
    /\ port \in Procs \cup {None}
    /\ http \in [Procs -> {"none", "starting", "bound"}]
    /\ grpc \in [Procs -> {"none", "starting", "serving"}]
    /\ call \in [Calls -> [proc : Procs, stage : {"http", "rpc", "orphan"}] \cup {None}]

\* The database holds the migrations that are recorded, and all that come
\* before them, although each process reads the records once and then relies
\* on them, and processes that share the database start at the same time
\* (database.go:67-127).
MigrationsAreWhole ==
    /\ applied = revisions
    /\ \A m \in applied : 1..m \subseteq applied

\* No handler runs in a process that has closed its database: the stop hooks
\* run in the right order, no connection comes in behind Shutdown, not even
\* when its listener was still being opened, and handlers whose clients have
\* left are waited for (server.go:73-79, cmd/server/main.go:63-70).
HandlersHaveDatabase ==
    \A p \in Procs : phase[p] = "closed" => CallsAt(p, {"http", "rpc", "orphan"}) = {}

\* A standalone program that is started again and again comes up again and
\* again, or there is a start from which on its seeder is blocked for good: a
\* request has freed the configured name and left the e-mail taken, and the
\* insert then conflicts at every start (seed.go:44).  Nothing else keeps it
\* down, as long as its database and its hooks do not fail at every start: the
\* hooks that listen only start a goroutine, so that none waits for what a later
\* one provides (server.go:66-73, gateway.go:35-66).
RestartsComeUp ==
    \A p \in Standalones :
        ([]<>(phase[p] = "connect")) =>
            (([]<>(phase[p] = "up")) \/ (<>[](p \in blocked)))

\* A program that has begun to stop is gone in the end, although clients and
\* handlers may take for ever (server.go:74-78, cmd/server/main.go:68-70).
StopsEnd == \A p \in Procs : phase[p] = "shutdown" ~> phase[p] = "off"

-----------------------------------------------------------------------------
(* What the documents say and the code does not do.                        *)

\* db-migration/specs/versioned-migration/spec.md:33: pending migrations are
\* applied in order before the application begins serving requests.
ServersComeUp == \A p \in Servers : phase[p] = "off" ~> phase[p] = "up"

=============================================================================
