---------------------------- MODULE Server_proofs ---------------------------
(***************************************************************************)
(* Proofs about the life of the programs, for any number of processes,     *)
(* migrations and connections, with or without faults.                     *)
(***************************************************************************)
EXTENDS Server, TLAPS

Stages == {"http", "rpc", "orphan"}

\* What a process takes for applied is recorded: records are never removed.
KnownIsRecorded == \A p \in Procs : known[p] \subseteq revisions

\* A listener is bound in a program that is up, and opened from then on.
ListenersFollow ==
    \A p \in Procs :
        /\ http[p] = "bound" => phase[p] = "up"
        /\ http[p] = "starting" => phase[p] \in {"up"} \cup Stopping

\* Connections last until Shutdown has returned, handlers that nobody waits
\* for until GracefulStop has.
CallsFollow ==
    \A c \in Calls : call[c] # None =>
        /\ call[c].stage \in {"http", "rpc"} => phase[call[c].proc] \in {"up", "shutdown"}
        /\ call[c].stage = "orphan" => phase[call[c].proc] \in {"up", "shutdown", "drain"}

MigrationInv == TypeOK /\ KnownIsRecorded /\ MigrationsAreWhole
HandlerInv == TypeOK /\ ListenersFollow /\ CallsFollow

-----------------------------------------------------------------------------
(* Types.                                                                  *)

\* A call is not None, and has its fields.
LEMMA CallType ==
  ASSUME TypeOK, NEW c \in Calls, call[c] # None
  PROVE  call[c] \in [proc : Procs, stage : Stages]
BY DEF TypeOK, Stages

\* Nothing runs and nothing is applied at first.
LEMMA InitTypeOK == Init => TypeOK
BY DEF Init, TypeOK, Phases

\* A process that goes leaves well-typed variables behind.
LEMMA GoneTypeOK ==
  ASSUME TypeOK, NEW p \in Procs, Gone(p)
  PROVE  TypeOK'
BY DEF TypeOK, Gone, Phases, dbVars

\* Every hook, goroutine and request keeps the types.
LEMMA NextTypeOK == TypeOK /\ [Next]_vars => TypeOK'
<1> SUFFICES ASSUME TypeOK, [Next]_vars
             PROVE  TypeOK'
  OBVIOUS
<1>1. ASSUME NEW p \in Procs,
             \/ Start(p) \/ CreateSchema(p) \/ ReadRevisions(p) \/ Migrated(p) \/ Seed(p)
             \/ StartGRPC(p) \/ StartHTTP(p) \/ Disconnected(p) \/ Drained(p) \/ Stop(p)
      PROVE  TypeOK'
  BY <1>1 DEF TypeOK, GoTo, Phases, dbVars, netVars, Start, CreateSchema, ReadRevisions, Migrated,
              Seed, StartGRPC, StartHTTP, Disconnected, Drained, Stop
<1>2. ASSUME NEW p \in Procs,
             \/ ApplyRefused(p) \/ SeedConflicts(p) \/ HookFails(p)
             \/ Exit(p) \/ TimesOut(p) \/ Killed(p)
      PROVE  TypeOK'
  BY <1>2, GoneTypeOK DEF ApplyRefused, SeedConflicts, HookFails, Exit, TimesOut, Killed
<1>3. ASSUME NEW p \in Procs, Apply(p) \/ Serve(p) \/ Listen(p)
      PROVE  TypeOK'
  BY <1>3 DEF TypeOK, netVars, dbVars, Apply, Serve, Listen
<1>4. ASSUME NEW c \in Calls,
             \/ \E p \in Procs : Request(c, p)
             \/ Dispatch(c) \/ Respond(c) \/ Leave(c)
      PROVE  TypeOK'
  <2>1. \A p \in Procs : [proc |-> p, stage |-> "http"] \in [proc : Procs, stage : Stages]
    BY DEF Stages
  <2>2. ASSUME call[c] # None, NEW s \in Stages
        PROVE  [call[c] EXCEPT !.stage = s] \in [proc : Procs, stage : Stages]
    BY <2>2, CallType
  <2> QED
    BY <1>4, <2>1, <2>2 DEF TypeOK, Stages, dbVars, SetCall, Request, Dispatch, Respond, Leave
<1>5. ASSUME NEW c \in Calls, EditUsers(c)
      PROVE  TypeOK'
  <2>1. Sharing(call[c].proc) \subseteq Procs
    BY <1>5, CallType DEF EditUsers, Sharing, Procs
  <2> QED
    BY <1>5, <2>1 DEF TypeOK, EditUsers, netVars
<1>6. CASE UNCHANGED vars
  BY <1>6 DEF TypeOK, vars
<1> QED
  BY <1>1, <1>2, <1>3, <1>4, <1>5, <1>6 DEF Next, StartHook, StopHook

\* Every variable of the two programs keeps its type.
THEOREM TypeCorrect == Spec => []TypeOK
<1>1. Init => TypeOK
  BY InitTypeOK
<1>2. TypeOK /\ [Next]_vars => TypeOK'
  BY NextTypeOK
<1> QED
  BY <1>1, <1>2, PTL DEF Spec

-----------------------------------------------------------------------------
(* Migrations.                                                             *)

\* What concerns the migrations and does not change outside Apply,
\* ReadRevisions and the end of a process.
LEMMA MigrationsKept ==
  ASSUME MigrationInv, UNCHANGED <<known, applied, revisions>>
  PROVE  (KnownIsRecorded /\ MigrationsAreWhole)'
BY DEF MigrationInv, KnownIsRecorded, MigrationsAreWhole

\* The migration that is next comes after those its process knows of, which
\* are recorded and therefore applied, with all that come before them.
LEMMA ApplyKeepsWhole ==
  ASSUME MigrationInv, NEW p \in Procs, Apply(p)
  PROVE  (KnownIsRecorded /\ MigrationsAreWhole)'
<1>1. PICK m \in Migrations :
         /\ NextPending(p, m)
         /\ applied' = applied \cup {m}
         /\ revisions' = revisions \cup {m}
         /\ known' = [known EXCEPT ![p] = @ \cup {m}]
  BY DEF Apply
<1>2. /\ applied = revisions
      /\ applied \subseteq Migrations
      /\ known[p] \subseteq applied
      /\ \A n \in applied : 1..n \subseteq applied
  BY DEF MigrationInv, TypeOK, KnownIsRecorded, MigrationsAreWhole
<1>3. KnownIsRecorded'
  BY <1>1 DEF MigrationInv, TypeOK, KnownIsRecorded
<1>4. 1..m \subseteq applied \cup {m}
  <2>1. ASSUME NEW n \in 1..m, n # m
        PROVE  n \in known[p]
    <3>1. n \in Migrations /\ ~(m <= n)
      BY <2>1, ServerMigrationsAssumption DEF Migrations
    <3> QED
      BY <3>1, <1>1 DEF NextPending, Pending
  <2> QED
    BY <2>1, <1>2
<1>5. MigrationsAreWhole'
  BY <1>1, <1>2, <1>4 DEF MigrationsAreWhole
<1> QED
  BY <1>3, <1>5

\* Every step keeps the migrations whole.
LEMMA MigrationStep == MigrationInv /\ [Next]_vars => MigrationInv'
<1> SUFFICES ASSUME MigrationInv, [Next]_vars
             PROVE  (KnownIsRecorded /\ MigrationsAreWhole)'
  BY NextTypeOK DEF MigrationInv
<1>1. ASSUME NEW p \in Procs, Apply(p)
      PROVE  (KnownIsRecorded /\ MigrationsAreWhole)'
  BY <1>1, ApplyKeepsWhole
<1>2. ASSUME NEW p \in Procs, ReadRevisions(p)
      PROVE  (KnownIsRecorded /\ MigrationsAreWhole)'
  BY <1>2 DEF ReadRevisions, dbVars, MigrationInv, TypeOK, KnownIsRecorded, MigrationsAreWhole
<1>3. ASSUME NEW p \in Procs,
             \/ ApplyRefused(p) \/ SeedConflicts(p) \/ HookFails(p)
             \/ Exit(p) \/ TimesOut(p) \/ Killed(p)
      PROVE  (KnownIsRecorded /\ MigrationsAreWhole)'
  BY <1>3 DEF ApplyRefused, SeedConflicts, HookFails, Exit, TimesOut, Killed, Gone, dbVars,
              MigrationInv, TypeOK, KnownIsRecorded, MigrationsAreWhole
<1>4. ASSUME NEW p \in Procs,
             \/ Start(p) \/ CreateSchema(p) \/ Migrated(p) \/ Seed(p) \/ StartGRPC(p) \/ StartHTTP(p)
             \/ Serve(p) \/ Listen(p) \/ Disconnected(p) \/ Drained(p) \/ Stop(p)
      PROVE  UNCHANGED <<known, applied, revisions>>
  BY <1>4 DEF dbVars, Start, CreateSchema, Migrated, Seed, StartGRPC, StartHTTP, Serve, Listen,
              Disconnected, Drained, Stop
<1>5. ASSUME NEW c \in Calls,
             \/ \E p \in Procs : Request(c, p)
             \/ Dispatch(c) \/ EditUsers(c) \/ Respond(c) \/ Leave(c)
      PROVE  UNCHANGED <<known, applied, revisions>>
  BY <1>5 DEF dbVars, SetCall, Request, Dispatch, EditUsers, Respond, Leave
<1>6. CASE UNCHANGED vars
  BY <1>6, MigrationsKept DEF vars, dbVars
<1> QED
  BY <1>1, <1>2, <1>3, <1>4, <1>5, <1>6, MigrationsKept DEF Next, StartHook, StopHook

\* However many servers start on one database at the same time, and however
\* they end, it holds what is recorded and all that comes before it.
THEOREM MigrationsHold == Spec => []MigrationsAreWhole
<1>1. Init => MigrationInv
  BY InitTypeOK DEF Init, MigrationInv, KnownIsRecorded, MigrationsAreWhole
<1>2. MigrationInv /\ [Next]_vars => MigrationInv'
  BY MigrationStep
<1>3. MigrationInv => MigrationsAreWhole
  BY DEF MigrationInv
<1> QED
  BY <1>1, <1>2, <1>3, PTL DEF Spec

-----------------------------------------------------------------------------
(* Requests and the end of a process.                                      *)

\* Every step of a process keeps listeners and connections in step with it.
LEMMA ProcessKeepsHandlers ==
  ASSUME HandlerInv, NEW p \in Procs,
         \/ Start(p) \/ CreateSchema(p) \/ ReadRevisions(p) \/ Apply(p) \/ Migrated(p) \/ Seed(p)
         \/ StartGRPC(p) \/ StartHTTP(p) \/ Serve(p) \/ Listen(p)
         \/ Stop(p) \/ Disconnected(p) \/ Drained(p)
  PROVE  (ListenersFollow /\ CallsFollow)'
<1> USE DEF HandlerInv, TypeOK, ListenersFollow, CallsFollow, Stopping
<1>1. CASE \/ Start(p) \/ CreateSchema(p) \/ ReadRevisions(p) \/ Migrated(p) \/ Seed(p)
           \/ StartGRPC(p) \/ StartHTTP(p)
  BY <1>1, CallType DEF Start, CreateSchema, ReadRevisions, Migrated, Seed, StartGRPC, StartHTTP,
              GoTo, dbVars, netVars
<1>2. CASE Apply(p) \/ Serve(p) \/ Listen(p)
  BY <1>2 DEF Apply, Serve, Listen, dbVars, netVars
<1>3. CASE Stop(p)
  BY <1>3, CallType DEF Stop, GoTo, dbVars
<1>4. CASE Disconnected(p)
  BY <1>4, CallType DEF Disconnected, CallsAt, GoTo, dbVars, netVars
<1>5. CASE Drained(p)
  BY <1>5, CallType DEF Drained, CallsAt, GoTo, dbVars, netVars
<1> QED
  BY <1>1, <1>2, <1>3, <1>4, <1>5

\* A process that goes takes its connections with it.
LEMMA GoneKeepsHandlers ==
  ASSUME HandlerInv, NEW p \in Procs, Gone(p)
  PROVE  (ListenersFollow /\ CallsFollow)'
<1>1. ListenersFollow'
  BY DEF HandlerInv, TypeOK, ListenersFollow, Gone, Stopping
<1>2. ASSUME NEW c \in Calls, call'[c] # None
      PROVE  call'[c] = call[c] /\ phase'[call[c].proc] = phase[call[c].proc]
  BY <1>2, CallType DEF HandlerInv, TypeOK, Gone, CallsAt, Stages
<1> QED
  BY <1>1, <1>2 DEF HandlerInv, CallsFollow

\* A connection comes in through a bound listener, and ends as it must.
LEMMA CallKeepsHandlers ==
  ASSUME HandlerInv, NEW c \in Calls,
         \/ \E p \in Procs : Request(c, p)
         \/ Dispatch(c) \/ EditUsers(c) \/ Respond(c) \/ Leave(c)
  PROVE  (ListenersFollow /\ CallsFollow)'
<1>1. UNCHANGED <<phase, http>> /\ ListenersFollow'
  BY DEF HandlerInv, ListenersFollow, SetCall, Request, Dispatch, EditUsers, Respond, Leave,
         netVars
<1>2. ASSUME NEW d \in Calls, d # c
      PROVE  call'[d] = call[d]
  BY <1>2 DEF HandlerInv, TypeOK, SetCall, Request, Dispatch, EditUsers, Respond, Leave, netVars
<1>3. CASE \E p \in Procs : Request(c, p)
  BY <1>1, <1>2, <1>3 DEF HandlerInv, TypeOK, ListenersFollow, CallsFollow, SetCall, Request
<1>4. CASE Dispatch(c) \/ Respond(c) \/ Leave(c)
  <2>1. \/ call'[c] = None
        \/ /\ call[c] # None
           /\ call'[c].proc = call[c].proc
           /\ \/ call[c].stage = "http" /\ call'[c].stage = "rpc"
              \/ call[c].stage = "rpc" /\ call'[c].stage = "orphan"
    BY <1>4, CallType DEF HandlerInv, TypeOK, SetCall, Dispatch, Respond, Leave
  <2> QED
    BY <1>1, <1>2, <2>1 DEF HandlerInv, CallsFollow
<1>5. CASE EditUsers(c)
  BY <1>1, <1>5 DEF EditUsers, netVars, HandlerInv, CallsFollow
<1> QED
  BY <1>3, <1>4, <1>5

\* Every step keeps listeners and connections in step with their process.
LEMMA HandlerStep == HandlerInv /\ [Next]_vars => HandlerInv'
<1> SUFFICES ASSUME HandlerInv, [Next]_vars
             PROVE  (ListenersFollow /\ CallsFollow)'
  BY NextTypeOK DEF HandlerInv
<1>1. ASSUME NEW p \in Procs,
             \/ ApplyRefused(p) \/ SeedConflicts(p) \/ HookFails(p)
             \/ Exit(p) \/ TimesOut(p) \/ Killed(p)
      PROVE  Gone(p)
  BY <1>1 DEF ApplyRefused, SeedConflicts, HookFails, Exit, TimesOut, Killed
<1>2. CASE UNCHANGED vars
  BY <1>2 DEF vars, HandlerInv, ListenersFollow, CallsFollow
<1> QED
  BY <1>1, <1>2, ProcessKeepsHandlers, GoneKeepsHandlers, CallKeepsHandlers
     DEF Next, StartHook, StopHook

\* No handler runs in a process that has closed its database, whatever
\* requests come in and whichever clients leave while it stops.
THEOREM HandlersHold == Spec => []HandlersHaveDatabase
<1>1. Init => HandlerInv
  BY InitTypeOK DEF Init, HandlerInv, ListenersFollow, CallsFollow
<1>2. HandlerInv /\ [Next]_vars => HandlerInv'
  BY HandlerStep
<1>3. HandlerInv => HandlersHaveDatabase
  BY CallType DEF HandlerInv, CallsFollow, HandlersHaveDatabase, CallsAt, Stages
<1> QED
  BY <1>1, <1>2, <1>3, PTL DEF Spec

=============================================================================
