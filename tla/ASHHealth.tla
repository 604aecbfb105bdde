----------------------------- MODULE ASHHealth -----------------------------
(***************************************************************************)
(* The life of the consumer process as its probes, its gauges and systemd  *)
(* see it (src/src/consumer/ash-consumer.py): the constructor with its     *)
(* retries, the flush outcomes that decide about readiness, the signal     *)
(* handler, the cleanup, and the start after that.                         *)
(*                                                                         *)
(* _refresh_readiness() computes the decision and then publishes it; other *)
(* threads, and the signal handler in the same thread, run in between, so  *)
(* it is two steps wherever the code calls it.  Events are only counted,   *)
(* and PostgreSQL accepts every row: ASHConsumer and ASHStore have what    *)
(* happens to their contents, to refused rows and to broken handles.       *)
(***************************************************************************)
EXTENDS Integers, Sequences

CONSTANTS
  DatabaseEnabled,
  BatchSize,
  SetupAttempts,    \* max_retries of _setup_database()
  KafkaAttempts,    \* of _setup_kafka_consumer()
  WriteAttempts,    \* of _write_database_batch()
  Faults,           \* the kinds of fault the environment may inject
  MaxFaults, MaxEvents, MaxLives

ASSUME HealthAssumption ==
  /\ DatabaseEnabled \in BOOLEAN
  /\ BatchSize \in Nat \ {0}
  /\ SetupAttempts \in Nat \ {0}
  /\ KafkaAttempts \in Nat \ {0}
  /\ WriteAttempts \in Nat \ {0}
  /\ Faults \subseteq {"db", "kafka", "bind", "file", "loop", "sigterm"}
  /\ MaxFaults \in Nat
  /\ MaxEvents \in Nat
  /\ MaxLives \in Nat

VARIABLES
  pc,             \* of each thread
  attempt,        \* of each thread, in its retry loop
  decision,       \* of each thread: what _is_ready() gave, not yet published
  then,           \* of each thread: where it goes after the refresh
  handler,        \* the signal handler, which interrupts the main thread
  handlerDecision,
  lock,           \* _processing_lock
  running, stopping,
  flushError,     \* _last_flush_error is not None
  conn,           \* db_conn
  dbGauge,        \* DB_AVAILABLE
  readyGauge,     \* READY
  listening,      \* the observability server answers
  armed,          \* signal handlers and timers are in place
  notified,       \* the last message systemd got from this process
  buffer,         \* events in memory
  dbUp,           \* environment: PostgreSQL accepts connections
  received, lives, faults

threadVars == <<pc, attempt, decision, then, lock>>
handlerVars == <<handler, handlerDecision>>
stateVars == <<running, stopping, flushError>>
serviceVars == <<listening, armed, notified>>
dbVars == <<conn, dbGauge>>
boundVars == <<received, lives, faults>>
vars == <<threadVars, handlerVars, stateVars, serviceVars, dbVars,
          readyGauge, buffer, dbUp, boundVars>>

Thread == {"main", "timer"}
Nobody == "nobody"

Startup == {"database", "kafka", "listen", "arm", "notify"}
FlushPc == {"write", "file", "succeeded", "failed"}
RefreshPc == {"decide", "publish"}

TypeOK ==
  /\ pc \in [Thread -> {"down", "sleep", "run", "cleanup", "close"}
                         \cup Startup \cup FlushPc \cup RefreshPc]
  /\ attempt \in [Thread -> Nat \ {0}]
  /\ decision \in [Thread -> {0, 1}]
  /\ then \in [Thread -> {"sleep", "run", "close"} \cup Startup]
  /\ handler \in {"none", "stop", "decide", "publish", "notify", "done"}
  /\ handlerDecision \in {0, 1}
  /\ lock \in Thread \cup {Nobody}
  /\ {running, stopping, flushError, listening, armed, dbUp} \subseteq BOOLEAN
  /\ conn \in {"none", "open", "dead"}
  /\ {dbGauge, readyGauge} \subseteq {0, 1}
  /\ notified \in {"nothing", "READY", "STOPPING"}
  /\ buffer \in 0 .. MaxEvents
  /\ received \in 0 .. MaxEvents
  /\ lives \in 0 .. MaxLives
  /\ faults \in 0 .. MaxFaults

Fresh ==
  /\ pc = [t \in Thread |-> "down"]
  /\ attempt = [t \in Thread |-> 1]
  /\ decision = [t \in Thread |-> 0]
  /\ then = [t \in Thread |-> "sleep"]
  /\ handler = "none"
  /\ handlerDecision = 0
  /\ lock = Nobody
  /\ running = FALSE
  /\ stopping = FALSE
  /\ flushError = FALSE
  /\ conn = "none"
  /\ dbGauge = 0
  /\ readyGauge = 0
  /\ listening = FALSE
  /\ armed = FALSE
  /\ notified = "nothing"
  /\ buffer = 0

Init == /\ Fresh
        /\ dbUp \in BOOLEAN
        /\ received = 0
        /\ lives = 0
        /\ faults = 0

Fault(kind) == /\ kind \in Faults
               /\ faults < MaxFaults
               /\ faults' = faults + 1
               /\ UNCHANGED <<received, lives>>
NoFault == UNCHANGED boundVars

Up == pc["main"] # "down"

\* The main thread runs its own code, not the signal handler's.
CanStep(t) == t = "timer" \/ handler \in {"none", "done"}

At(t, place) == pc[t] = place /\ CanStep(t)

Goto(t, place) == pc' = [pc EXCEPT ![t] = place]

-----------------------------------------------------------------------------
(* Readiness *)

IsReady == /\ running
           /\ ~flushError
           /\ DatabaseEnabled => dbGauge = 1

Bit(b) == IF b THEN 1 ELSE 0

\* _refresh_readiness(), and afterwards the thread is at place.
Refresh(t, place) == /\ Goto(t, "decide")
                     /\ then' = [then EXCEPT ![t] = place]

Decide(t) ==
  /\ At(t, "decide")
  /\ decision' = [decision EXCEPT ![t] = Bit(IsReady)]
  /\ Goto(t, "publish")
  /\ NoFault
  /\ UNCHANGED <<attempt, then, lock, handlerVars, stateVars, serviceVars,
                 dbVars, readyGauge, buffer, dbUp>>

\* The loop of the timer goes round while the process is to run.
After(t) == IF t = "timer" /\ ~running THEN "down" ELSE then[t]

\* A flush returns with this; its caller gives the lock back.
Publish(t) ==
  /\ At(t, "publish")
  /\ readyGauge' = decision[t]
  /\ Goto(t, After(t))
  /\ lock' = IF lock = t /\ then[t] \in {"run", "sleep", "close"}
             THEN Nobody ELSE lock
  /\ NoFault
  /\ UNCHANGED <<attempt, decision, then, handlerVars, stateVars,
                 serviceVars, dbVars, buffer, dbUp>>

(***************************************************************************)
(* What a GET gets: _ObservabilityHandler asks health_liveness() or        *)
(* health_readiness(); "/metrics" shows the gauges.                        *)
(***************************************************************************)
Response(path) ==
  IF ~listening THEN "refused"
  ELSE IF path = "/metrics" \/ (path = "/health/live" /\ running /\ ~stopping)
                            \/ (path \in {"/health", "/health/ready"} /\ IsReady)
  THEN "200"
  ELSE IF path \in {"/health/live", "/health", "/health/ready"} THEN "503"
  ELSE "404"

-----------------------------------------------------------------------------
(* The constructor *)

\* systemd or Docker starts the process.
Start ==
  /\ ~Up
  /\ lives < MaxLives
  /\ lives' = lives + 1
  /\ running' = TRUE
  /\ Goto("main", IF DatabaseEnabled THEN "database" ELSE "kafka")
  /\ UNCHANGED <<attempt, decision, then, lock, handlerVars, stopping,
                 flushError, serviceVars, dbVars, readyGauge, buffer, dbUp,
                 received, faults>>

(***************************************************************************)
(* One attempt of _setup_database(): each ends with a refresh; after the   *)
(* last failure the process goes on without a connection.                  *)
(***************************************************************************)
SetupDatabase ==
  /\ At("main", "database")
  /\ conn' = IF dbUp THEN "open" ELSE "none"
  /\ dbGauge' = Bit(dbUp)
  /\ IF dbUp \/ attempt["main"] = SetupAttempts
     THEN /\ Refresh("main", "kafka")
          /\ attempt' = [attempt EXCEPT !["main"] = 1]
     ELSE /\ Refresh("main", "database")
          /\ attempt' = [attempt EXCEPT !["main"] = @ + 1]
  /\ NoFault
  /\ UNCHANGED <<decision, lock, handlerVars, stateVars, serviceVars,
                 readyGauge, buffer, dbUp>>

\* What is left of a process that has exited or was killed.
Gone ==
  /\ pc' = [t \in Thread |-> "down"]
  /\ attempt' = [t \in Thread |-> 1]
  /\ decision' = [t \in Thread |-> 0]
  /\ then' = [t \in Thread |-> "sleep"]
  /\ handler' = "none"
  /\ handlerDecision' = 0
  /\ lock' = Nobody
  /\ running' = FALSE
  /\ stopping' = FALSE
  /\ flushError' = FALSE
  /\ conn' = "none"
  /\ dbGauge' = 0
  /\ readyGauge' = 0
  /\ listening' = FALSE
  /\ armed' = FALSE
  /\ notified' = "nothing"
  /\ buffer' = 0

\* One attempt of _setup_kafka_consumer(); after the last it exits.
SetupKafka ==
  /\ At("main", "kafka")
  /\ Goto("main", "listen")
  /\ attempt' = [attempt EXCEPT !["main"] = 1]
  /\ NoFault
  /\ UNCHANGED <<decision, then, lock, handlerVars, stateVars, serviceVars,
                 dbVars, readyGauge, buffer, dbUp>>

KafkaAbsent ==
  /\ At("main", "kafka")
  /\ Fault("kafka")
  /\ IF attempt["main"] < KafkaAttempts
     THEN /\ attempt' = [attempt EXCEPT !["main"] = @ + 1]
          /\ UNCHANGED <<pc, decision, then, lock, handlerVars, stateVars,
                         serviceVars, dbVars, readyGauge, buffer>>
     ELSE Gone
  /\ UNCHANGED dbUp

\* _start_observability_server(): a failed bind is logged, no more.
Listen ==
  /\ At("main", "listen")
  /\ Goto("main", "arm")
  /\ \/ listening' = TRUE /\ NoFault
     \/ Fault("bind") /\ UNCHANGED listening
  /\ UNCHANGED <<attempt, decision, then, lock, handlerVars, stateVars,
                 armed, notified, dbVars, readyGauge, buffer, dbUp>>

\* The handlers of SIGTERM and SIGINT, the timers, and a last refresh.
Arm ==
  /\ At("main", "arm")
  /\ armed' = TRUE
  /\ pc' = [t \in Thread |-> IF t = "timer" THEN "sleep" ELSE "decide"]
  /\ then' = [then EXCEPT !["main"] = "notify"]
  /\ NoFault
  /\ UNCHANGED <<attempt, decision, lock, handlerVars, stateVars, listening,
                 notified, dbVars, readyGauge, buffer, dbUp>>

\* sd_notify("READY=1"), the watchdog, and then run().
Notify ==
  /\ At("main", "notify")
  /\ notified' = "READY"
  /\ Goto("main", "run")
  /\ NoFault
  /\ UNCHANGED <<attempt, decision, then, lock, handlerVars, stateVars,
                 listening, armed, dbVars, readyGauge, buffer, dbUp>>

-----------------------------------------------------------------------------
(* The loop, the timer and the flush *)

\* run() is handed a message: it stops if it was told to.
Message ==
  /\ At("main", "run")
  /\ received < MaxEvents
  /\ received' = received + 1
  /\ UNCHANGED <<lives, faults>>
  /\ IF ~running
     THEN Goto("main", "cleanup") /\ UNCHANGED <<lock, buffer>>
     ELSE /\ lock = Nobody
          /\ buffer' = buffer + 1
          /\ IF buffer' >= BatchSize
             THEN Goto("main", "write") /\ lock' = "main"
             ELSE UNCHANGED <<pc, lock>>
  /\ then' = [then EXCEPT !["main"] = "run"]
  /\ UNCHANGED <<attempt, decision, handlerVars, stateVars, serviceVars,
                 dbVars, readyGauge, dbUp>>

\* The iteration over the topic raises; self.running stays as it is.
LoopFails ==
  /\ At("main", "run")
  /\ Fault("loop")
  /\ Goto("main", "cleanup")
  /\ UNCHANGED <<attempt, decision, then, lock, handlerVars, stateVars,
                 serviceVars, dbVars, readyGauge, buffer, dbUp>>

\* An iteration of flush_loop() that has begun ends as if nothing had
\* stopped the process in between.
TimerFlush ==
  /\ At("timer", "sleep")
  /\ lock = Nobody
  /\ buffer > 0
  /\ lock' = "timer"
  /\ Goto("timer", "write")
  /\ then' = [then EXCEPT !["timer"] = "sleep"]
  /\ NoFault
  /\ UNCHANGED <<attempt, decision, handlerVars, stateVars, serviceVars,
                 dbVars, readyGauge, buffer, dbUp>>

\* One that finds nothing to do is the last one if the process is to stop.
TimerEnds ==
  /\ At("timer", "sleep")
  /\ ~running
  /\ Goto("timer", "down")
  /\ NoFault
  /\ UNCHANGED <<attempt, decision, then, lock, handlerVars, stateVars,
                 serviceVars, dbVars, readyGauge, buffer, dbUp>>

InFlush == UNCHANGED <<decision, then, lock, handlerVars, stateVars,
                       serviceVars, readyGauge, dbUp>>

\* The attempt was the last one, or there is another.
NextAttempt(t) ==
  IF attempt[t] < WriteAttempts
  THEN /\ attempt' = [attempt EXCEPT ![t] = @ + 1]
       /\ UNCHANGED pc
  ELSE /\ attempt' = [attempt EXCEPT ![t] = 1]
       /\ Goto(t, "failed")

\* A transaction that commits.
Write(t) ==
  /\ At(t, "write")
  /\ ~DatabaseEnabled \/ conn = "open"
  /\ dbGauge' = Bit(DatabaseEnabled)
  /\ attempt' = [attempt EXCEPT ![t] = 1]
  /\ Goto(t, "file")
  /\ NoFault
  /\ UNCHANGED <<conn, buffer>>
  /\ InFlush

\* OperationalError: the attempt is lost, even if the reconnect works.
WriteInterrupted(t) ==
  /\ At(t, "write")
  /\ DatabaseEnabled
  /\ conn = "dead"
  /\ dbGauge' = 0
  /\ conn' = IF dbUp THEN "open" ELSE "none"
  /\ NextAttempt(t)
  /\ NoFault
  /\ UNCHANGED buffer
  /\ InFlush

\* db_conn is None: connect first, and write in the same attempt.
WriteConnects(t) ==
  /\ At(t, "write")
  /\ DatabaseEnabled
  /\ conn = "none"
  /\ IF dbUp THEN /\ conn' = "open"
                  /\ UNCHANGED <<dbGauge, pc, attempt>>
             ELSE /\ dbGauge' = 0
                  /\ NextAttempt(t)
                  /\ UNCHANGED conn
  /\ NoFault
  /\ UNCHANGED buffer
  /\ InFlush

WriteFile(t) ==
  /\ At(t, "file")
  /\ \/ Goto(t, "succeeded") /\ NoFault
     \/ Goto(t, "failed") /\ Fault("file")
  /\ UNCHANGED <<attempt, dbVars, buffer>>
  /\ InFlush

\* Mutant: the gauge is refreshed after failures only.
SuccessNotPublished(t) == /\ Goto(t, then[t])
                          /\ UNCHANGED then

PublishSuccess(t) == Refresh(t, then[t])

Succeeded(t) ==
  /\ At(t, "succeeded")
  /\ flushError' = FALSE
  /\ buffer' = 0
  /\ PublishSuccess(t)
  /\ NoFault
  /\ UNCHANGED <<attempt, decision, lock, handlerVars, running, stopping,
                 serviceVars, dbVars, readyGauge, dbUp>>

\* Mutant: the batch is not put back.
BatchDropped == buffer' = 0

\* Mutant: the batch is put back in front of itself.
PutBackTwice == buffer' = 2 * buffer

\* The batch goes back in front of the buffer.
PutBack == UNCHANGED buffer

Failed(t) ==
  /\ At(t, "failed")
  /\ flushError' = TRUE
  /\ PutBack
  /\ Refresh(t, then[t])
  /\ NoFault
  /\ UNCHANGED <<attempt, decision, lock, handlerVars, running, stopping,
                 serviceVars, dbVars, readyGauge, dbUp>>

-----------------------------------------------------------------------------
(* Signals and the end *)

\* _cleanup(): a last flush under the lock, if there is anything to flush.
Cleanup ==
  /\ At("main", "cleanup")
  /\ lock = Nobody
  /\ IF buffer > 0
     THEN /\ lock' = "main"
          /\ Goto("main", "write")
          /\ then' = [then EXCEPT !["main"] = "close"]
     ELSE Goto("main", "close") /\ UNCHANGED <<lock, then>>
  /\ NoFault
  /\ UNCHANGED <<attempt, decision, handlerVars, stateVars, serviceVars,
                 dbVars, readyGauge, buffer, dbUp>>

\* The server, Kafka and PostgreSQL are closed, and the process exits.
Close ==
  /\ At("main", "close")
  /\ Gone
  /\ UNCHANGED <<dbUp, boundVars>>

\* Before the handlers are there, SIGTERM kills.
Signal ==
  /\ Up
  /\ Fault("sigterm")
  /\ IF armed
     THEN /\ handler \in {"none", "done"}
          /\ handler' = "stop"
          /\ UNCHANGED <<threadVars, handlerDecision, stateVars, serviceVars,
                         dbVars, readyGauge, buffer>>
     ELSE Gone
  /\ UNCHANGED dbUp

HandlerStep == UNCHANGED <<threadVars, flushError, listening, armed, dbVars,
                           buffer, dbUp, boundVars>>

\* _signal_handler(), in the main thread between any two of its steps.
HandlerStops ==
  /\ handler = "stop"
  /\ stopping' = TRUE
  /\ running' = FALSE
  /\ handler' = "decide"
  /\ UNCHANGED <<handlerDecision, notified, readyGauge>>
  /\ HandlerStep

HandlerDecides ==
  /\ handler = "decide"
  /\ handlerDecision' = Bit(IsReady)
  /\ handler' = "publish"
  /\ UNCHANGED <<running, stopping, notified, readyGauge>>
  /\ HandlerStep

HandlerPublishes ==
  /\ handler = "publish"
  /\ readyGauge' = handlerDecision
  /\ handler' = "notify"
  /\ UNCHANGED <<handlerDecision, running, stopping, notified>>
  /\ HandlerStep

HandlerNotifies ==
  /\ handler = "notify"
  /\ notified' = "STOPPING"
  /\ handler' = "done"
  /\ UNCHANGED <<handlerDecision, running, stopping, readyGauge>>
  /\ HandlerStep

-----------------------------------------------------------------------------
(* The environment *)

DatabaseGoes ==
  /\ dbUp
  /\ Fault("db")
  /\ dbUp' = FALSE
  /\ conn' = IF conn = "open" THEN "dead" ELSE conn
  /\ UNCHANGED <<threadVars, handlerVars, stateVars, serviceVars, dbGauge,
                 readyGauge, buffer>>

DatabaseReturns ==
  /\ ~dbUp
  /\ dbUp' = TRUE
  /\ NoFault
  /\ UNCHANGED <<threadVars, handlerVars, stateVars, serviceVars, dbVars,
                 readyGauge, buffer>>

-----------------------------------------------------------------------------
ThreadStep(t) == \/ Decide(t)
                 \/ Publish(t)
                 \/ Write(t)
                 \/ WriteInterrupted(t)
                 \/ WriteConnects(t)
                 \/ WriteFile(t)
                 \/ Succeeded(t)
                 \/ Failed(t)

Construct == \/ SetupDatabase
             \/ SetupKafka
             \/ KafkaAbsent
             \/ Listen
             \/ Arm
             \/ Notify

Handler == \/ HandlerStops
           \/ HandlerDecides
           \/ HandlerPublishes
           \/ HandlerNotifies

Next == \/ Start
        \/ Construct
        \/ Message
        \/ LoopFails
        \/ TimerFlush
        \/ TimerEnds
        \/ \E t \in Thread : ThreadStep(t)
        \/ Cleanup
        \/ Close
        \/ Signal
        \/ Handler
        \/ DatabaseGoes
        \/ DatabaseReturns

Spec == Init /\ [][Next]_vars

(***************************************************************************)
(* The threads run, and PostgreSQL comes back; messages, faults and starts *)
(* need not happen.                                                        *)
(***************************************************************************)
FairSpec ==
  /\ Spec
  /\ WF_vars(SetupDatabase)
  /\ WF_vars(SetupKafka)
  /\ WF_vars(Listen)
  /\ WF_vars(Arm)
  /\ WF_vars(Notify)
  /\ WF_vars(TimerFlush)
  /\ WF_vars(ThreadStep("main"))
  /\ WF_vars(ThreadStep("timer"))
  /\ WF_vars(Cleanup)
  /\ WF_vars(Close)
  /\ WF_vars(Handler)
  /\ WF_vars(DatabaseReturns)

-----------------------------------------------------------------------------
(* Properties *)

\* No thread is between a change of what readiness depends on and the
\* publication of it: without PostgreSQL a new process publishes first in Arm.
Published == {"notify", "run", "close"}
               \cup IF DatabaseEnabled THEN {"kafka", "listen", "arm"} ELSE {}

AtRest == /\ pc["main"] \in Published
          /\ pc["timer"] \in {"down", "sleep"}
          /\ handler \in {"none", "notify", "done"}

\* Until a signal comes, the gauge ash_consumer_ready shows what
\* /health/ready answers whenever no flush is under way.
GaugeFollows == AtRest /\ ~stopping => readyGauge = Bit(IsReady)

\* A flush that fails is retried without traffic: once PostgreSQL is there
\* for good the consumer gets ready again, unless it is to stop.
Recovers ==
  (Up /\ flushError) ~> (IsReady \/ ~running \/ ~dbUp)

\* docs/OBSERVABILITY.md, line 386: the gauge is "1 when readiness would
\* return 200".
GaugeIsReadiness == AtRest /\ readyGauge = 1 => IsReady

\* docs/OBSERVABILITY.md, line 144: "A consumer that never receives a
\* message is still ready."
IdleIsReady ==
  (pc["main"] = "run" /\ received = 0)
     ~> (Response("/health/ready") = "200" \/ received > 0 \/ stopping
           \/ ~Up \/ ~listening \/ ~dbUp)
=============================================================================
