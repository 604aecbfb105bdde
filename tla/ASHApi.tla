------------------------------ MODULE ASHApi ------------------------------
(***************************************************************************)
(* The API server (src/src/consumer/api_server.py) under gunicorn with     *)
(* src/src/consumer/gunicorn.conf.py: a master, its sync workers, and the  *)
(* life of a request in one of them.  A worker handles one request at a    *)
(* time; it can be killed between any two steps of it.                     *)
(*                                                                         *)
(* What outlives a worker are its metric files in PROMETHEUS_MULTIPROC_DIR *)
(* and the rows in PostgreSQL; what does not are the counts of the rate    *)
(* limiter and the last database health.  The file of a process id is      *)
(* opened again, with its values, by a later process with that id.         *)
(*                                                                         *)
(* Flask, flask-limiter, prometheus_client and gunicorn are external: a    *)
(* limit on a view is checked where the view is called, behind the hooks   *)
(* of before_request; the limiter counts for each client address, and a    *)
(* fixed window of it begins with the first hit in it.  ASHQuery has what  *)
(* the queries return, ASHTelemetry the spans themselves.                  *)
(***************************************************************************)
EXTENDS Integers, FiniteSets, FiniteSetsExt, Sequences

CONSTANTS
  Pid,            \* process ids, numbers
  Workers,        \* how many workers gunicorn keeps
  Kinds,          \* the kinds of request that come
  Client,         \* the addresses get_remote_address() gives
  LimitPerWindow, \* "5 per minute" on create_token()
  Window,
  Faults,
  MaxFaults, MaxRequests, MaxClock

ASSUME ApiAssumption ==
  /\ Pid \subseteq Nat
  /\ IsFiniteSet(Pid)
  /\ Workers \in Nat \ {0}
  /\ Kinds \subseteq {"token", "query", "ready", "live", "metrics", "unmatched"}
  /\ Client # {}
  /\ LimitPerWindow \in Nat \ {0}
  /\ Window \in Nat \ {0}
  /\ Faults \subseteq {"kill", "boot", "db"}
  /\ MaxFaults \in Nat
  /\ MaxRequests \in Nat
  /\ MaxClock \in Nat

VARIABLES
  alive, dead,     \* workers that run; workers that exited, not yet reaped
  used,            \* ids this master has given out
  step,            \* of each worker: where its request is
  kind,            \* what the request is for
  status,          \* of its response
  counted,         \* g.inflight_counted
  span,            \* spans started by the worker and not finished
  connections,     \* open connections of the worker to PostgreSQL
  health,          \* _last_database_health
  transitions,     \* health transitions in the worker's log
  hits, windowEnd, \* the limiter's memory of each address, in each worker
  inflightFile, databaseFile, requestsFile,   \* metric files, or Absent
  dbUp,
  admitted,        \* admitted[c][t]: token requests of c let in at time t
  answered,        \* responses that after_request has seen
  clock, arrived, faults

workerVars == <<alive, dead, used>>
requestVars == <<step, kind, status, counted, span, connections>>
limitVars == <<hits, windowEnd, admitted>>
fileVars == <<inflightFile, databaseFile, requestsFile>>
healthVars == <<health, transitions>>
boundVars == <<clock, arrived, faults>>
vars == <<workerVars, requestVars, healthVars, limitVars, fileVars, dbUp,
          answered, boundVars>>

Absent == -1

WorkersOK ==
  /\ alive \subseteq used
  /\ dead \subseteq used \ alive
  /\ used \subseteq Pid
  /\ Cardinality(alive) <= Workers

RequestsOK ==
  /\ step \in [Pid -> {"idle", "limit", "observe", "handle", "execute",
                       "respond", "teardown"}]
  /\ kind \in [Pid -> Kinds \cup {"none"}]
  /\ status \in [Pid -> {0, 200, 400, 401, 403, 404, 429, 500, 503}]
  /\ counted \in [Pid -> BOOLEAN]
  /\ span \in [Pid -> {0, 1}]
  /\ connections \in [Pid -> {0, 1}]

MemoryOK ==
  /\ health \in [Pid -> {"unknown", "up", "down"}]
  /\ transitions \in [Pid -> Seq({"failed", "recovered"})]
  /\ hits \in [Client -> [Pid -> 0 .. LimitPerWindow]]
  /\ windowEnd \in [Client -> [Pid -> 0 .. MaxClock + Window]]
  /\ admitted \in [Client -> [0 .. MaxClock -> Nat]]

FilesOK ==
  /\ inflightFile \in [Pid -> {Absent, 0, 1}]
  /\ databaseFile \in [Pid -> {Absent, 0, 1}]
  /\ requestsFile \in [Pid -> {Absent} \cup Nat]

BoundsOK ==
  /\ dbUp \in BOOLEAN
  /\ answered \in Nat
  /\ clock \in 0 .. MaxClock
  /\ arrived \in 0 .. MaxRequests
  /\ faults \in 0 .. MaxFaults

TypeOK == WorkersOK /\ RequestsOK /\ MemoryOK /\ FilesOK /\ BoundsOK

Init ==
  /\ alive = {}
  /\ dead = {}
  /\ used = {}
  /\ step = [p \in Pid |-> "idle"]
  /\ kind = [p \in Pid |-> "none"]
  /\ status = [p \in Pid |-> 0]
  /\ counted = [p \in Pid |-> FALSE]
  /\ span = [p \in Pid |-> 0]
  /\ connections = [p \in Pid |-> 0]
  /\ health = [p \in Pid |-> "unknown"]
  /\ transitions = [p \in Pid |-> <<>>]
  /\ hits = [c \in Client |-> [p \in Pid |-> 0]]
  /\ windowEnd = [c \in Client |-> [p \in Pid |-> 0]]
  /\ inflightFile = [p \in Pid |-> Absent]
  /\ databaseFile = [p \in Pid |-> Absent]
  /\ requestsFile = [p \in Pid |-> Absent]
  /\ dbUp = TRUE
  /\ admitted = [c \in Client |-> [t \in 0 .. MaxClock |-> 0]]
  /\ answered = 0
  /\ clock = 0
  /\ arrived = 0
  /\ faults = 0

Fault(f) == /\ f \in Faults
            /\ faults < MaxFaults
            /\ faults' = faults + 1
            /\ UNCHANGED <<clock, arrived>>

Put(f, p, v) == [f EXCEPT ![p] = v]

-----------------------------------------------------------------------------
(* What /metrics shows: MultiProcessCollector over the files there are *)

Files(f) == {p \in Pid : f[p] # Absent}

Sum(f) == MapThenSumSet(LAMBDA p : f[p], Files(f))

InflightShown == Sum(inflightFile)           \* "livesum"
RequestsShown == Sum(requestsFile)
DatabaseShown == IF Files(databaseFile) = {} THEN 0    \* "max"
                 ELSE Max({databaseFile[p] : p \in Files(databaseFile)})

-----------------------------------------------------------------------------
(* gunicorn *)

\* A file that is there is opened with the value it has.
Opened(f, p) == IF f[p] = Absent THEN Put(f, p, 0) ELSE f

\* The master forks, and the worker imports api_server.
Spawn(p) ==
  /\ p \in Pid \ used
  /\ \A q \in Pid \ used : p <= q
  /\ Cardinality(alive) + Cardinality(dead) < Workers
  /\ alive' = alive \cup {p}
  /\ used' = used \cup {p}
  /\ inflightFile' = Opened(inflightFile, p)
  /\ databaseFile' = Opened(databaseFile, p)
  /\ requestsFile' = Opened(requestsFile, p)
  /\ UNCHANGED <<dead, requestVars, healthVars, limitVars, dbUp, answered,
                 boundVars>>

\* The memory of the processes in S is gone; PostgreSQL drops their
\* connections.
Forget(S) ==
  LET Reset(f, v) == [p \in Pid |-> IF p \in S THEN v ELSE f[p]]
  IN  /\ step' = Reset(step, "idle")
      /\ kind' = Reset(kind, "none")
      /\ status' = Reset(status, 0)
      /\ counted' = Reset(counted, FALSE)
      /\ span' = Reset(span, 0)
      /\ connections' = Reset(connections, 0)
      /\ health' = Reset(health, "unknown")
      /\ transitions' = Reset(transitions, <<>>)
      /\ hits' = [c \in Client |-> Reset(hits[c], 0)]
      /\ windowEnd' = [c \in Client |-> Reset(windowEnd[c], 0)]

\* A timeout, the kernel, or an operator: the worker is killed.
Kill(p) ==
  /\ p \in alive
  /\ Fault("kill")
  /\ alive' = alive \ {p}
  /\ dead' = dead \cup {p}
  /\ Forget({p})
  /\ UNCHANGED <<used, fileVars, dbUp, admitted, answered>>

\* Mutant: child_exit() does not mark the worker.
NotMarked(p) == UNCHANGED fileVars

\* mark_process_dead() removes the files of the "live" gauges only.
MarkProcessDead(p) == /\ inflightFile' = Put(inflightFile, p, Absent)
                      /\ UNCHANGED <<databaseFile, requestsFile>>

\* child_exit(), when the master reaps the worker.
ChildExit(p) ==
  /\ p \in dead
  /\ dead' = dead \ {p}
  /\ MarkProcessDead(p)
  /\ UNCHANGED <<alive, used, requestVars, healthVars, limitVars, dbUp,
                 answered, boundVars>>

(***************************************************************************)
(* *.db in the directory.  An unlink() that finds no file leaves none; one *)
(* that is refused would need a directory that is not writable, which is   *)
(* outside of on_starting()'s domain (no worker could open its files).     *)
(***************************************************************************)
RemoveFiles == /\ inflightFile' = [p \in Pid |-> Absent]
               /\ databaseFile' = [p \in Pid |-> Absent]
               /\ requestsFile' = [p \in Pid |-> Absent]

\* The container is killed and starts again: on_starting() in a new master,
\* which begins with the same process ids.  The counters begin at 0, and so
\* does the count of attempts.
Boot ==
  /\ Fault("boot")
  /\ alive' = {}
  /\ dead' = {}
  /\ used' = {}
  /\ Forget(Pid)
  /\ RemoveFiles
  /\ answered' = 0
  /\ admitted' = [c \in Client |-> [t \in 0 .. MaxClock |-> 0]]
  /\ UNCHANGED dbUp

-----------------------------------------------------------------------------
(* A request *)

At(p, s) == p \in alive /\ step[p] = s

Goto(p, s) == step' = Put(step, p, s)

Arrive(p, k) ==
  /\ At(p, "idle")
  /\ arrived < MaxRequests
  /\ arrived' = arrived + 1
  /\ kind' = Put(kind, p, k)
  /\ Goto(p, "observe")
  /\ UNCHANGED <<workerVars, status, counted, span, connections, healthVars,
                 limitVars, fileVars, dbUp, answered, clock, faults>>

\* _start_request_observation(); of the views, only create_token() has a limit.
StartObservation(p) ==
  /\ At(p, "observe")
  /\ counted' = Put(counted, p, TRUE)
  /\ inflightFile' = [inflightFile EXCEPT ![p] = @ + 1]
  /\ span' = [span EXCEPT ![p] = @ + 1]
  /\ Goto(p, IF kind[p] = "token" THEN "limit" ELSE "handle")
  /\ UNCHANGED <<workerVars, kind, status, connections, healthVars,
                 limitVars, databaseFile, requestsFile, dbUp, answered,
                 boundVars>>

\* Mutant: a hit is not counted.
HitForgotten(p, c) == UNCHANGED <<hits, windowEnd>>

Fresh(p, c) == clock >= windowEnd[c][p]

CountHit(p, c) ==
  /\ hits' = [hits EXCEPT ![c] = Put(@, p, IF Fresh(p, c) THEN 1 ELSE @[p] + 1)]
  /\ windowEnd' = IF Fresh(p, c)
                  THEN [windowEnd EXCEPT ![c] = Put(@, p, clock + Window)]
                  ELSE windowEnd

\* The limiter lets the request of address c in.
Admit(p, c) ==
  /\ At(p, "limit")
  /\ Fresh(p, c) \/ hits[c][p] < LimitPerWindow
  /\ CountHit(p, c)
  /\ admitted' = [admitted EXCEPT ![c] = Put(@, clock, @[clock] + 1)]
  /\ Goto(p, "handle")
  /\ UNCHANGED <<workerVars, kind, status, counted, span, connections,
                 healthVars, fileVars, dbUp, answered, boundVars>>

\* RateLimitExceeded in place of the view.
Limited(p, c) ==
  /\ At(p, "limit")
  /\ ~Fresh(p, c)
  /\ hits[c][p] >= LimitPerWindow
  /\ status' = Put(status, p, 429)
  /\ Goto(p, "respond")
  /\ UNCHANGED <<workerVars, kind, counted, span, connections, healthVars,
                 limitVars, fileVars, dbUp, answered, boundVars>>

(***************************************************************************)
(* The statuses of a request that needs no PostgreSQL, or does not get so  *)
(* far: missing, wrong and right credentials; require_role() and the       *)
(* arguments; the flag and the token of /metrics; no such route; and an    *)
(* exception that nothing handles.                                         *)
(***************************************************************************)
EarlyStatus(k) ==
  CASE k = "token"     -> {200, 400, 401, 500}
    [] k = "query"     -> {400, 401, 403, 500}
    [] k = "metrics"   -> {200, 401, 404}
    [] k = "live"      -> {200}
    [] k = "unmatched" -> {404}
    [] k = "ready"     -> {}

Handle(p) ==
  /\ At(p, "handle")
  /\ \E s \in EarlyStatus(kind[p]) : status' = Put(status, p, s)
  /\ Goto(p, "respond")
  /\ UNCHANGED <<workerVars, kind, counted, span, connections, healthVars,
                 limitVars, fileVars, dbUp, answered, boundVars>>

\* get_db() gives a connection, or OperationalError and with it 503.
OpenDatabase(p) ==
  /\ At(p, "handle")
  /\ kind[p] = "query"
  /\ IF dbUp
     THEN /\ connections' = [connections EXCEPT ![p] = @ + 1]
          /\ Goto(p, "execute")
          /\ UNCHANGED status
     ELSE /\ status' = Put(status, p, 503)
          /\ Goto(p, "respond")
          /\ UNCHANGED connections
  /\ UNCHANGED <<workerVars, kind, counted, span, healthVars, limitVars,
                 fileVars, dbUp, answered, boundVars>>

\* Mutant: an exception skips the close().
ClosedIfFine(p, s) ==
  connections' = IF s >= 500 THEN connections
                 ELSE [connections EXCEPT ![p] = @ - 1]

\* The finally of every endpoint.
CloseDatabase(p, s) == connections' = [connections EXCEPT ![p] = @ - 1]

\* Rows, no rows, psycopg2.Error, OperationalError or another exception.
Execute(p) ==
  /\ At(p, "execute")
  /\ \E s \in IF dbUp THEN {200, 404, 500, 503} ELSE {503} :
        /\ status' = Put(status, p, s)
        /\ CloseDatabase(p, s)
  /\ Goto(p, "respond")
  /\ UNCHANGED <<workerVars, kind, counted, span, healthVars, limitVars,
                 fileVars, dbUp, answered, boundVars>>

WasDown(p) == health[p] = "down"

\* _database_available(), for /health/ready and /health.
CheckDatabase(p) ==
  /\ At(p, "handle")
  /\ kind[p] = "ready"
  /\ databaseFile' = Put(databaseFile, p, IF dbUp THEN 1 ELSE 0)
  /\ health' = Put(health, p, IF dbUp THEN "up" ELSE "down")
  /\ transitions' =
       IF dbUp THEN IF WasDown(p)
                    THEN [transitions EXCEPT ![p] = Append(@, "recovered")]
                    ELSE transitions
               ELSE IF health[p] # "down"
                    THEN [transitions EXCEPT ![p] = Append(@, "failed")]
                    ELSE transitions
  /\ status' = Put(status, p, IF dbUp THEN 200 ELSE 503)
  /\ Goto(p, "respond")
  /\ UNCHANGED <<workerVars, kind, counted, span, connections, limitVars,
                 inflightFile, requestsFile, dbUp, answered, boundVars>>

\* _log_request(): after_request sees the response of every request.
LogRequest(p) ==
  /\ At(p, "respond")
  /\ requestsFile' = [requestsFile EXCEPT ![p] = @ + 1]
  /\ answered' = answered + 1
  /\ Goto(p, "teardown")
  /\ UNCHANGED <<workerVars, kind, status, counted, span, connections,
                 healthVars, limitVars, inflightFile, databaseFile, dbUp,
                 boundVars>>

Release(p) == inflightFile' = IF counted[p]
                              THEN [inflightFile EXCEPT ![p] = @ - 1]
                              ELSE inflightFile

\* _finish_request_observation()
FinishObservation(p) ==
  /\ At(p, "teardown")
  /\ Release(p)
  /\ counted' = Put(counted, p, FALSE)
  /\ span' = Put(span, p, 0)
  /\ kind' = Put(kind, p, "none")
  /\ status' = Put(status, p, 0)
  /\ Goto(p, "idle")
  /\ UNCHANGED <<workerVars, connections, healthVars, limitVars,
                 databaseFile, requestsFile, dbUp, answered, boundVars>>

Request(p) == \/ \E k \in Kinds : Arrive(p, k)
              \/ StartObservation(p)
              \/ \E c \in Client : Admit(p, c) \/ Limited(p, c)
              \/ Handle(p)
              \/ OpenDatabase(p)
              \/ Execute(p)
              \/ CheckDatabase(p)
              \/ LogRequest(p)
              \/ FinishObservation(p)

-----------------------------------------------------------------------------
DatabaseGoes == /\ dbUp
                /\ Fault("db")
                /\ dbUp' = FALSE
                /\ UNCHANGED <<workerVars, requestVars, healthVars, limitVars,
                               fileVars, answered>>

DatabaseReturns == /\ ~dbUp
                   /\ dbUp' = TRUE
                   /\ UNCHANGED <<workerVars, requestVars, healthVars,
                                  limitVars, fileVars, answered, boundVars>>

Tick == /\ clock < MaxClock
        /\ clock' = clock + 1
        /\ UNCHANGED <<workerVars, requestVars, healthVars, limitVars,
                       fileVars, dbUp, answered, arrived, faults>>

Next == \/ \E p \in Pid : Spawn(p) \/ Kill(p) \/ ChildExit(p) \/ Request(p)
        \/ Boot
        \/ DatabaseGoes
        \/ DatabaseReturns
        \/ Tick

Spec == Init /\ [][Next]_vars

-----------------------------------------------------------------------------
(* Properties *)

InHand(p) == step[p] \in {"limit", "handle", "execute", "respond", "teardown"}

\* A worker between two requests has no span and no connection open.
IdleIsClean ==
  \A p \in alive : step[p] = "idle" =>
     /\ span[p] = 0
     /\ connections[p] = 0
     /\ ~counted[p]

\* A request that the limiter refuses is in flight until its teardown, too.
InflightExact ==
  dead = {} => InflightShown = Cardinality({p \in alive : InHand(p)})

CountersSurvive == RequestsShown = answered

LogTellsHealth ==
  \A p \in alive :
     LET log == transitions[p]
     IN  /\ \A i \in 1 .. Len(log) :
              log[i] = IF i % 2 = 1 THEN "failed" ELSE "recovered"
         /\ health[p] = "down" <=> Len(log) % 2 = 1

HidesOutage(p) == p \notin alive /\ databaseFile[p] = 1

OutageIsHiddenByTheDead ==
  (alive # {} /\ \A p \in alive : health[p] = "down")
     => DatabaseShown = 0 \/ \E p \in Pid : HidesOutage(p)

(***************************************************************************)
(* What an operator sees is what happens, whatever was killed.  Once the   *)
(* master has reaped the dead, the in-flight gauge is the number of        *)
(* requests in hand; the request counter never loses what a worker counted *)
(* before it died; the log of a worker alternates between failure and      *)
(* recovery and ends with what the worker last saw; and when every worker  *)
(* has found PostgreSQL gone, only the file of a worker that died before   *)
(* can keep the database gauge at 1 (OutageIsShown claims more).           *)
(***************************************************************************)
SignalsAreExact == /\ InflightExact
                   /\ CountersSurvive
                   /\ LogTellsHealth
                   /\ OutageIsHiddenByTheDead

(***************************************************************************)
(* In any period of one window the token requests of one client address    *)
(* that are let in, and so the passwords that can be tried from there, are *)
(* bounded for each worker the container has had, and a new worker has a   *)
(* new count.  The bound is not the limit: a period can hold all but the   *)
(* first request of one fixed window and all of the next.                  *)
(***************************************************************************)
AttemptsBounded ==
  \A c \in Client : \A t \in 0 .. MaxClock :
     MapThenSumSet(LAMBDA u : admitted[c][u],
                   {u \in 0 .. MaxClock : u >= t /\ u < t + Window})
       <= (2 * LimitPerWindow - 1) * Cardinality(used)

(***************************************************************************)
(* gunicorn.conf.py, lines 4-6: with the files of a dead worker marked, a  *)
(* scrape does not keep adding stale values.  When every worker has found  *)
(* PostgreSQL gone, the gauge for AshApiDatabaseUnavailable shows it.      *)
(***************************************************************************)
OutageIsShown ==
  (alive # {} /\ dead = {} /\ \A p \in alive : health[p] = "down")
     => DatabaseShown = 0
=============================================================================
