---------------------------- MODULE ASHConsumer ----------------------------
(***************************************************************************)
(* The Kafka consumer process of the ASH monitoring system                 *)
(* (src/src/consumer/ash-consumer.py): the thread that runs run(), the     *)
(* daemon thread that runs flush_loop(), the signal handler, and the       *)
(* storage they share.                                                     *)
(*                                                                         *)
(* One Kafka partition, one member of the consumer group.  An event is     *)
(* identified with its event_id; a line published twice is the same        *)
(* Payload at two offsets.  A Python thread holds _processing_lock for     *)
(* many statements: the model has one action per stretch between two       *)
(* points at which another thread, the storage or a crash can intervene.   *)
(*                                                                         *)
(* A definition that no other one uses (StartPastEnd, DropBatch, ...) is a  *)
(* faulty variant of the definition that follows it: README.md says which  *)
(* property notices each.                                                  *)
(*                                                                         *)
(* batch_raw_texts is not a variable: each element of a buffer stands for  *)
(* the pair (event, raw text) the code keeps in two parallel lists.        *)
(***************************************************************************)
EXTENDS Integers, FiniteSets, SequencesExt

CONSTANTS
  Payload,          \* the lines that producers may publish (event ids)
  ClassOf,          \* [Payload -> Class]: how each line fares when handled
  HostOf,           \* [Payload -> hosts]: the JSONL file each line goes to
  DatabaseEnabled,  \* config database_enabled
  BatchSize,        \* config batch_size
  MaxSeenIds,       \* config max_dedup_cache
  Faults,           \* the kinds of fault the environment may inject
  MaxFaults,        \* bound on the number of faults in a behaviour
  MaxTopic,         \* bound on the length of the partition
  NoPayload         \* the absence of a message

(***************************************************************************)
(* "event"       : valid, and PostgreSQL accepts it                        *)
(* "invalid"     : _decode_message or _validate_event refuses it           *)
(* "rejected"    : valid, but PostgreSQL raises a data or integrity error  *)
(* "unencodable" : valid, but psycopg2 cannot turn it into SQL: a string   *)
(*                 with a NUL or a lone surrogate raises ValueError, which *)
(*                 is not a psycopg2.Error                                 *)
(***************************************************************************)
Class == {"event", "invalid", "rejected", "unencodable"}

FaultKinds == {"db", "conn", "file", "dlq", "commit", "crash", "sigterm",
               "loop", "rejoin"}

ASSUME PayloadAssumption ==
  /\ ClassOf \in [Payload -> Class]
  /\ NoPayload \notin Payload
ASSUME ConfigAssumption ==
  /\ DatabaseEnabled \in BOOLEAN
  /\ BatchSize \in Nat \ {0}
  /\ MaxSeenIds \in Nat \ {0}
ASSUME FaultAssumption ==
  /\ Faults \subseteq FaultKinds
  /\ MaxFaults \in Nat
  /\ MaxTopic \in Nat

VARIABLES
  topic,          \* the partition: every line ever published, in order
  committed,      \* the group's committed offset, or NoOffset
  pc,             \* where each thread is
  lock,           \* the holder of _processing_lock, or NoThread
  running,        \* self.running
  cleaning,       \* the main thread is past the loop, in _cleanup()
  position,       \* the next offset of the assigned partition, or NoOffset
  message,        \* the line run() was handed and has not processed
  buffer,         \* self.batch_buffer
  batch,          \* the local snapshot of _flush_batch() in each thread
  seen,           \* self.seen_event_ids
  commitPending,  \* self._commit_pending
  flushError,     \* self._last_flush_error is not None
  conn,           \* self.db_conn: usable, or an object psycopg2 has closed
  db,             \* the event ids in command_logs
  jsonl,          \* the JSONL lines in the order they were appended
  deadLetters,    \* the lines in dead_letter.jsonl
  faults,         \* number of faults injected so far
  origin,         \* history: the position this assignment began at
  skipped         \* history: lines this process let go without a record

kafkaVars   == <<topic, committed>>
memoryVars  == <<buffer, batch, seen, commitPending, flushError>>
storeVars   == <<db, jsonl, deadLetters>>
historyVars == <<origin, skipped>>
vars == <<kafkaVars, pc, lock, running, cleaning, position, message,
          memoryVars, conn, storeVars, faults, historyVars>>

Thread == {"main", "timer"}
NoThread == "none"
NoOffset == -1
MainPc  == {"down", "poll", "process", "cleanup", "closing",
            "database", "file", "commit"}
TimerPc == {"down", "sleep", "database", "file"}

Flushing(t) == pc[t] \in {"database", "file"}
Up == pc["main"] # "down"

(***************************************************************************)
(* What it takes for a line to be on record: an event is in command_logs   *)
(* and in its host's JSONL file, a refused row in the dead-letter file and *)
(* the JSONL file, an invalid line in the dead-letter file.                *)
(***************************************************************************)
Settled ==
  LET written == ToSet(jsonl)
  IN  {p \in Payload :
        IF ClassOf[p] = "invalid" THEN p \in deadLetters
        ELSE /\ p \in written
             /\ DatabaseEnabled => IF ClassOf[p] = "rejected"
                                   THEN p \in deadLetters
                                   ELSE p \in db}

\* What the process holds only in memory.
Held == ToSet(buffer) \cup ToSet(batch["main"]) \cup ToSet(batch["timer"])

InMemory == Held \cup ({message} \cap Payload)

-----------------------------------------------------------------------------
(***************************************************************************)
(* The environment injects a fault of an enabled kind, within the bound.   *)
(***************************************************************************)
Fault(kind) ==
  /\ kind \in Faults
  /\ faults < MaxFaults
  /\ faults' = faults + 1

NoFault == UNCHANGED faults

\* What is left of the process when it is gone: nothing.
ProcessGone ==
  /\ pc' = [t \in Thread |-> "down"]
  /\ lock' = NoThread
  /\ running' = FALSE
  /\ cleaning' = FALSE
  /\ position' = NoOffset
  /\ message' = NoPayload
  /\ buffer' = <<>>
  /\ batch' = [t \in Thread |-> <<>>]
  /\ seen' = {}
  /\ commitPending' = FALSE
  /\ flushError' = FALSE
  /\ conn' = "open"
  /\ skipped' = {}
  /\ UNCHANGED origin

\* The consumer group is new, or has committed before the first line here.
Init ==
  /\ topic = <<>>
  /\ committed \in {NoOffset, 0}
  /\ pc = [t \in Thread |-> "down"]
  /\ lock = NoThread
  /\ running = FALSE
  /\ cleaning = FALSE
  /\ position = NoOffset
  /\ message = NoPayload
  /\ buffer = <<>>
  /\ batch = [t \in Thread |-> <<>>]
  /\ seen = {}
  /\ commitPending = FALSE
  /\ flushError = FALSE
  /\ conn = "open"
  /\ db = {}
  /\ jsonl = <<>>
  /\ deadLetters = {}
  /\ faults = 0
  /\ origin = NoOffset
  /\ skipped = {}

-----------------------------------------------------------------------------
(* Kafka *)

(***************************************************************************)
(* WHO: an agent.  One more line reaches the partition.                    *)
(***************************************************************************)
Publish(p) ==
  /\ Len(topic) < MaxTopic
  /\ topic' = Append(topic, p)
  /\ NoFault
  /\ UNCHANGED <<committed, pc, lock, running, cleaning, position, message,
                 memoryVars, conn, storeVars, historyVars>>

(***************************************************************************)
(* WHO: the poll inside the consumer's iterator.  The partition is         *)
(* assigned; the position is the committed offset, or the end of the       *)
(* partition if the group never committed (auto_offset_reset="latest").    *)
(***************************************************************************)
StartPastEnd == IF committed = NoOffset THEN Len(topic) + 1 ELSE committed

StartOffset == IF committed = NoOffset THEN Len(topic) ELSE committed

Assign ==
  /\ pc["main"] = "poll"
  /\ position = NoOffset
  /\ position' = StartOffset
  /\ origin' = StartOffset
  /\ NoFault
  /\ UNCHANGED <<kafkaVars, pc, lock, running, cleaning, message,
                 memoryVars, conn, storeVars, skipped>>

(***************************************************************************)
(* WHO: the same poll.  A rebalance (for instance after a flush longer     *)
(* than max_poll_interval_ms) takes the assignment away; Assign follows.   *)
(***************************************************************************)
Rejoin ==
  /\ pc["main"] = "poll"
  /\ position # NoOffset
  /\ Fault("rejoin")
  /\ position' = NoOffset
  /\ UNCHANGED <<kafkaVars, pc, lock, running, cleaning, message,
                 memoryVars, conn, storeVars, historyVars>>

-----------------------------------------------------------------------------
(* Process life cycle *)

(***************************************************************************)
(* WHO: the supervisor.  __init__() up to the first poll of run().         *)
(***************************************************************************)
Start ==
  /\ ~Up
  /\ pc' = [pc EXCEPT !["main"] = "poll", !["timer"] = "sleep"]
  /\ running' = TRUE
  /\ NoFault
  /\ UNCHANGED <<kafkaVars, lock, cleaning, position, message,
                 memoryVars, conn, storeVars, historyVars>>

\* WHO: the signal handler, on SIGTERM or SIGINT.
Terminate ==
  /\ Up
  /\ running
  /\ Fault("sigterm")
  /\ running' = FALSE
  /\ UNCHANGED <<kafkaVars, pc, lock, cleaning, position, message,
                 memoryVars, conn, storeVars, historyVars>>

\* WHO: the machine.  Memory is lost, what was stored stays.
Crash ==
  /\ Up
  /\ Fault("crash")
  /\ ProcessGone
  /\ UNCHANGED <<kafkaVars, storeVars>>

(***************************************************************************)
(* WHO: the main thread.  The consumer's iterator raises, or               *)
(* _decode_message() does for the line in hand, which is let go; run()     *)
(* logs and re-raises, and its finally clause runs _cleanup().             *)
(***************************************************************************)
LoopError ==
  /\ Fault("loop")
  /\ \/ /\ pc["main"] = "poll"
        /\ UNCHANGED <<message, skipped>>
     \/ /\ pc["main"] = "process"
        /\ ClassOf[message] = "invalid"
        /\ message' = NoPayload
        /\ skipped' = skipped \cup {message}
  /\ pc' = [pc EXCEPT !["main"] = "cleanup"]
  /\ cleaning' = TRUE
  /\ UNCHANGED <<kafkaVars, lock, running, position, memoryVars, conn,
                 storeVars, origin>>

\* WHO: the main thread.  _cleanup() closes what is open and run() returns.
Exit ==
  /\ pc["main"] = "closing"
  /\ NoFault
  /\ ProcessGone
  /\ UNCHANGED <<kafkaVars, storeVars>>

-----------------------------------------------------------------------------
(* Flushing *)

(***************************************************************************)
(* _flush_batch() takes the content c of the buffer as its batch, under    *)
(* batch_lock, and empties the buffer.  PostgreSQL comes before the files. *)
(***************************************************************************)
FilesOnly == "file"

FirstStage == IF DatabaseEnabled THEN "database" ELSE "file"

Snapshot(t, c) ==
  /\ batch' = [batch EXCEPT ![t] = c]
  /\ buffer' = <<>>
  /\ pc' = [pc EXCEPT ![t] = FirstStage]

\* A flush is over: the main thread goes on to commit, still holding the
\* lock; the timer releases it and tests self.running.
KeepLock(t) == lock' = lock

LockAfterFlush(t) == lock' = IF t = "main" THEN lock ELSE NoThread

FlushOver(t) ==
  /\ pc' = [pc EXCEPT ![t] = IF t = "main" THEN "commit"
                             ELSE IF running THEN "sleep" ELSE "down"]
  /\ LockAfterFlush(t)
  /\ batch' = [batch EXCEPT ![t] = <<>>]

\* The except clause of _flush_batch(): the batch goes back to the front.
DropBatch(t) == buffer

PutBack(t) == batch[t] \o buffer

FlushFails(t) ==
  /\ FlushOver(t)
  /\ buffer' = PutBack(t)
  /\ flushError' = TRUE
  /\ UNCHANGED <<seen, commitPending, kafkaVars, running, cleaning, position,
                 message, historyVars>>

DatabaseDone(t) ==
  /\ pc' = [pc EXCEPT ![t] = "file"]
  /\ UNCHANGED <<memoryVars, kafkaVars, lock, running, cleaning, position,
                 message, historyVars, conn, jsonl>>

(***************************************************************************)
(* WHO: thread t in _write_database_batch().  The rows of the batch go in  *)
(* as one transaction (ON CONFLICT DO NOTHING).                            *)
(***************************************************************************)
BatchHas(t, class) == \E p \in ToSet(batch[t]) : ClassOf[p] = class

BatchInserted(t) ==
  /\ pc[t] = "database"
  /\ conn = "open"
  /\ ~BatchHas(t, "rejected")
  /\ ~BatchHas(t, "unencodable")
  /\ db' = db \cup ToSet(batch[t])
  /\ NoFault
  /\ DatabaseDone(t)
  /\ UNCHANGED deadLetters

(***************************************************************************)
(* _write_database_rows_individually() has handled the first k rows, each  *)
(* in its own transaction: inserted, or dead-lettered if refused.          *)
(***************************************************************************)
RowsDone(t, k) ==
  LET done == {batch[t][i] : i \in 1 .. k}
  IN  /\ db' = db \cup {p \in done : ClassOf[p] = "event"}
      /\ deadLetters' = deadLetters \cup
                          {p \in done : ClassOf[p] = "rejected"}

\* WHO: thread t.  PostgreSQL refused a row of the batch, and the row by
\* row retry got through.
RowsInserted(t) ==
  /\ pc[t] = "database"
  /\ conn = "open"
  /\ BatchHas(t, "rejected")
  /\ ~BatchHas(t, "unencodable")
  /\ RowsDone(t, Len(batch[t]))
  /\ NoFault
  /\ DatabaseDone(t)

(***************************************************************************)
(* WHO: thread t.  The row by row retry stops at row k + 1: the connection *)
(* fails there (and the unguarded rollback leaves a closed connection      *)
(* object behind), or a refused row cannot be dead-lettered, or psycopg2   *)
(* cannot encode the row.  The last needs a batch of several pages of      *)
(* execute_values: on one page DriverRefuses comes first.                  *)
(***************************************************************************)
RowsInterrupted(t) ==
  /\ pc[t] = "database"
  /\ conn = "open"
  /\ BatchHas(t, "rejected")
  /\ \E k \in 0 .. Len(batch[t]) - 1 :
       /\ \A i \in 1 .. k : ClassOf[batch[t][i]] # "unencodable"
       /\ RowsDone(t, k)
       /\ \/ Fault("db") /\ conn' = "open"
          \/ Fault("conn") /\ conn' = "closed"
          \/ /\ ClassOf[batch[t][k + 1]] = "rejected"
             /\ Fault("dlq")
             /\ conn' = "open"
          \/ /\ ClassOf[batch[t][k + 1]] = "unencodable"
             /\ NoFault
             /\ conn' = "open"
  /\ FlushFails(t)
  /\ UNCHANGED jsonl

(***************************************************************************)
(* WHO: thread t.  Three attempts end in OperationalError or in a failed   *)
(* connect.  The last transaction may have committed although its answer   *)
(* was lost.  db_conn ends up reconnected or None, and usable next time.   *)
(***************************************************************************)
DatabaseUnreachable(t) ==
  /\ pc[t] = "database"
  /\ conn = "open"
  /\ Fault("db")
  /\ \/ UNCHANGED db
     \/ /\ ~BatchHas(t, "rejected")
        /\ ~BatchHas(t, "unencodable")
        /\ db' = db \cup ToSet(batch[t])
  /\ FlushFails(t)
  /\ UNCHANGED <<conn, deadLetters, jsonl>>

\* WHO: thread t.  psycopg2 raises ValueError for a row: the whole batch
\* is rolled back and DatabaseWriteError raised, with no row by row retry.
DriverRefuses(t) ==
  /\ pc[t] = "database"
  /\ conn = "open"
  /\ BatchHas(t, "unencodable")
  /\ NoFault
  /\ FlushFails(t)
  /\ UNCHANGED <<conn, storeVars>>

(***************************************************************************)
(* WHO: thread t.  db_conn is an object psycopg2 has closed: cursor()      *)
(* raises InterfaceError, and so does the rollback() in the handler.       *)
(***************************************************************************)
HandleClosed(t) ==
  /\ pc[t] = "database"
  /\ conn = "closed"
  /\ NoFault
  /\ FlushFails(t)
  /\ UNCHANGED <<conn, storeVars>>

(***************************************************************************)
(* _write_file_batch() groups the events of batch b by host, hosts in the  *)
(* order in which they first occur: f[i] is the index in b of the i-th     *)
(* line written.                                                           *)
(***************************************************************************)
HostRank(b, i) == CHOOSE j \in 1 .. i : /\ HostOf[b[j]] = HostOf[b[i]]
                                        /\ \A k \in 1 .. j - 1 :
                                             HostOf[b[k]] # HostOf[b[i]]

GroupedByHost(b, f) ==
  LET n == Len(b)
  IN  /\ f \in [1 .. n -> 1 .. n]
      /\ \A j \in 1 .. n : \E i \in 1 .. n : f[i] = j
      /\ \A i, j \in 1 .. n :
           i < j => \/ HostRank(b, f[i]) < HostRank(b, f[j])
                    \/ /\ HostRank(b, f[i]) = HostRank(b, f[j])
                       /\ f[i] < f[j]

\* The first k lines of the batch, in writing order, reach the files.
LinesWritten(b, k) ==
  \E f \in [1 .. Len(b) -> 1 .. Len(b)] :
     /\ GroupedByHost(b, f)
     /\ jsonl' = jsonl \o [i \in 1 .. k |-> b[f[i]]]

(***************************************************************************)
(* WHO: thread t.  All files are written; the flush has succeeded, and     *)
(* the main thread is told that it may commit.                             *)
(***************************************************************************)
FileAppended(t) ==
  /\ pc[t] = "file"
  /\ LinesWritten(batch[t], Len(batch[t]))
  /\ commitPending' = TRUE
  /\ flushError' = FALSE
  /\ FlushOver(t)
  /\ NoFault
  /\ UNCHANGED <<kafkaVars, running, cleaning, position, message, buffer,
                 seen, conn, db, deadLetters, historyVars>>

\* WHO: thread t.  An append fails after some lines of some hosts.  (Not
\* modelled: a hostname that makes open() fail again on every retry.)
FileFails(t) ==
  /\ pc[t] = "file"
  /\ Fault("file")
  /\ \E k \in 0 .. Len(batch[t]) : LinesWritten(batch[t], k)
  /\ FlushFails(t)
  /\ UNCHANGED <<conn, db, deadLetters>>

Flush(t) == \/ BatchInserted(t)
            \/ RowsInserted(t)
            \/ RowsInterrupted(t)
            \/ DatabaseUnreachable(t)
            \/ DriverRefuses(t)
            \/ HandleClosed(t)
            \/ FileAppended(t)
            \/ FileFails(t)

-----------------------------------------------------------------------------
(* The main thread *)

(***************************************************************************)
(* WHO: the main thread.  The iterator hands out the next line, and has    *)
(* moved the position past it before it does.                              *)
(***************************************************************************)
NextLine == topic[position + 1]

HasNext == /\ pc["main"] = "poll"
           /\ position # NoOffset
           /\ position < Len(topic)

Yield ==
  /\ HasNext
  /\ running
  /\ position' = position + 1
  /\ message' = NextLine
  /\ pc' = [pc EXCEPT !["main"] = "process"]
  /\ NoFault
  /\ UNCHANGED <<kafkaVars, lock, running, cleaning, memoryVars, conn,
                 storeVars, historyVars>>

\* The same after a signal: run() breaks without looking at the line.
YieldStopping ==
  /\ HasNext
  /\ ~running
  /\ position' = position + 1
  /\ skipped' = skipped \cup {NextLine}
  /\ pc' = [pc EXCEPT !["main"] = "cleanup"]
  /\ cleaning' = TRUE
  /\ NoFault
  /\ UNCHANGED <<kafkaVars, lock, running, message, memoryVars, conn,
                 storeVars, origin>>

(***************************************************************************)
(* WHO: the main thread, which takes _processing_lock and keeps it until   *)
(* Commit.  process_message() in four cases.                               *)
(***************************************************************************)
TakeMessage ==
  /\ pc["main"] = "process"
  /\ lock = NoThread
  /\ lock' = "main"
  /\ message' = NoPayload

\* A line that does not parse or validate goes to the dead-letter file.
\* The result of that write is not looked at.
ProcessInvalid ==
  /\ TakeMessage
  /\ ClassOf[message] = "invalid"
  /\ \/ /\ deadLetters' = deadLetters \cup {message}
        /\ NoFault
        /\ UNCHANGED skipped
     \/ /\ Fault("dlq")
        /\ skipped' = skipped \cup {message}
        /\ UNCHANGED deadLetters
  /\ pc' = [pc EXCEPT !["main"] = "commit"]
  /\ UNCHANGED <<kafkaVars, running, cleaning, position, memoryVars, conn,
                 db, jsonl, origin>>

\* An event whose id is still in the cache is dropped.
ProcessDuplicate ==
  /\ TakeMessage
  /\ ClassOf[message] # "invalid"
  /\ message \in seen
  /\ pc' = [pc EXCEPT !["main"] = "commit"]
  /\ NoFault
  /\ UNCHANGED <<kafkaVars, running, cleaning, position, memoryVars, conn,
                 storeVars, historyVars>>

(***************************************************************************)
(* _deduplicate() adds the id; past max_dedup_cache ids it drops the first *)
(* max_dedup_cache // 2 of list(set), an order Python does not define.     *)
(***************************************************************************)
NeverRemembered(p) == {seen}

Remembered(p) ==
  LET ids  == seen \cup {p}
      kept == Cardinality(ids) - (MaxSeenIds \div 2)
  IN  IF Cardinality(ids) > MaxSeenIds
      THEN {s \in SUBSET ids : Cardinality(s) = kept}
      ELSE {ids}

BatchOverfull(c) == Len(c) > BatchSize

BatchFull(c) == Len(c) >= BatchSize

ProcessEvent ==
  /\ TakeMessage
  /\ ClassOf[message] # "invalid"
  /\ message \notin seen
  /\ seen' \in Remembered(message)
  /\ LET c == Append(buffer, message)
     IN  IF BatchFull(c)
         THEN Snapshot("main", c)
         ELSE /\ buffer' = c
              /\ pc' = [pc EXCEPT !["main"] = "commit"]
              /\ UNCHANGED batch
  /\ NoFault
  /\ UNCHANGED <<kafkaVars, running, cleaning, position, commitPending,
                 flushError, conn, storeVars, historyVars>>

(***************************************************************************)
(* WHO: the main thread at the end of an iteration, or in _cleanup().  If  *)
(* a flush succeeded since the last commit, commit() stores the position;  *)
(* when it raises, the broker may or may not have stored it.               *)
(***************************************************************************)
PositionToCommit == IF position = NoOffset THEN committed ELSE position

Commit ==
  /\ pc["main"] = "commit"
  /\ \/ /\ ~commitPending
        /\ NoFault
        /\ UNCHANGED <<committed, commitPending>>
     \/ /\ commitPending
        /\ committed' = PositionToCommit
        /\ commitPending' = FALSE
        /\ NoFault
     \/ /\ commitPending
        /\ Fault("commit")
        /\ committed' \in {committed, PositionToCommit}
        /\ UNCHANGED commitPending
  /\ lock' = NoThread
  /\ pc' = [pc EXCEPT !["main"] = IF cleaning THEN "closing" ELSE "poll"]
  /\ UNCHANGED <<topic, running, cleaning, position, message, buffer, batch,
                 seen, flushError, conn, storeVars, historyVars>>

\* WHO: the main thread.  _cleanup() flushes what is left.
Cleanup ==
  /\ pc["main"] = "cleanup"
  /\ lock = NoThread
  /\ lock' = "main"
  /\ IF buffer = <<>>
     THEN /\ pc' = [pc EXCEPT !["main"] = "commit"]
          /\ UNCHANGED <<buffer, batch>>
     ELSE Snapshot("main", buffer)
  /\ NoFault
  /\ UNCHANGED <<kafkaVars, running, cleaning, position, message, seen,
                 commitPending, flushError, conn, storeVars, historyVars>>

-----------------------------------------------------------------------------
(* The flush timer *)

(***************************************************************************)
(* WHO: the timer.  It wakes up with the lock free, finds a batch older    *)
(* than batch_timeout, and flushes it.  self.running was tested before the *)
(* sleep, so one flush may still start after it became FALSE.              *)
(***************************************************************************)
TimerFlushUnlocked ==
  /\ pc["timer"] = "sleep"
  /\ buffer # <<>>
  /\ Snapshot("timer", buffer)
  /\ NoFault
  /\ UNCHANGED <<kafkaVars, lock, running, cleaning, position, message, seen,
                 commitPending, flushError, conn, storeVars, historyVars>>

TimerFlush ==
  /\ pc["timer"] = "sleep"
  /\ lock = NoThread
  /\ buffer # <<>>
  /\ lock' = "timer"
  /\ Snapshot("timer", buffer)
  /\ NoFault
  /\ UNCHANGED <<kafkaVars, running, cleaning, position, message, seen,
                 commitPending, flushError, conn, storeVars, historyVars>>

TimerStop ==
  /\ pc["timer"] = "sleep"
  /\ Up
  /\ ~running
  /\ pc' = [pc EXCEPT !["timer"] = "down"]
  /\ NoFault
  /\ UNCHANGED <<kafkaVars, lock, running, cleaning, position, message,
                 memoryVars, conn, storeVars, historyVars>>

-----------------------------------------------------------------------------
Main == \/ Yield
        \/ YieldStopping
        \/ ProcessInvalid
        \/ ProcessDuplicate
        \/ ProcessEvent
        \/ Flush("main")
        \/ Commit
        \/ Cleanup
        \/ Exit

Timer == TimerFlush \/ TimerStop \/ Flush("timer")

Environment == \/ \E p \in Payload : Publish(p)
               \/ Rejoin
               \/ Terminate
               \/ Crash
               \/ LoopError

Next == Main \/ Timer \/ Assign \/ Start \/ Environment

Spec == Init /\ [][Next]_vars

(***************************************************************************)
(* The operating system schedules both threads, the broker answers the     *)
(* poll, and the supervisor starts a process that is down (restart:        *)
(* unless-stopped).  The main thread waits for _processing_lock while the  *)
(* timer holds it, but the timer sleeps for a second with the lock free,   *)
(* so the main thread gets it in the end: strong fairness.  Nothing is     *)
(* assumed of producers, signals or faults: a write may fail as long as    *)
(* the bound on faults allows it.                                          *)
(***************************************************************************)
Fairness == /\ SF_vars(Main)
            /\ WF_vars(Timer)
            /\ WF_vars(Assign)
            /\ WF_vars(Start)

FairSpec == Spec /\ Fairness

-----------------------------------------------------------------------------
(* Properties *)

\* Every variable has its type, no offset lies past the partition's end, and
\* run() has a line in hand exactly while it is about to process one.
TypeOK ==
  /\ topic \in Seq(Payload)
  /\ committed \in 0 .. Len(topic) \cup {NoOffset}
  /\ pc \in [Thread -> MainPc \cup TimerPc]
  /\ lock \in Thread \cup {NoThread}
  /\ running \in BOOLEAN
  /\ cleaning \in BOOLEAN
  /\ position \in 0 .. Len(topic) \cup {NoOffset}
  /\ message \in Payload \cup {NoPayload}
  /\ message \in Payload <=> pc["main"] = "process"
  /\ buffer \in Seq(Payload)
  /\ batch \in [Thread -> Seq(Payload)]
  /\ seen \subseteq Payload
  /\ commitPending \in BOOLEAN
  /\ flushError \in BOOLEAN
  /\ conn \in {"open", "closed"}
  /\ db \subseteq Payload
  /\ jsonl \in Seq(Payload)
  /\ deadLetters \subseteq Payload
  /\ faults \in Nat
  /\ origin \in Nat \cup {NoOffset}
  /\ skipped \subseteq Payload

(***************************************************************************)
(* _processing_lock makes a flush exclusive: while one runs, no message is *)
(* added to the buffer, and so a failed batch that is put back in front is *)
(* put back in order (_flush_batch(), flush_loop(), run()).                *)
(***************************************************************************)
FlushSerialised ==
  \A t \in Thread : Flushing(t) => lock = t /\ buffer = <<>>

(***************************************************************************)
(* Dropping an event as a duplicate never drops the only copy: whatever    *)
(* _deduplicate() remembers is on record or still in a buffer, whichever   *)
(* flushes failed in between.                                              *)
(***************************************************************************)
DuplicateIsCovered == seen \subseteq Held \cup Settled

(***************************************************************************)
(* A line the iterator has handed out is on record, in memory, or one of   *)
(* the lines the code lets go knowingly (skipped): the dead-letter write   *)
(* failed, or the loop was stopped.  This is what a commit, which stores   *)
(* the position and not what was flushed, can rely on.                     *)
(***************************************************************************)
NothingVanishes ==
  position # NoOffset =>
    \A i \in origin + 1 .. position :
       topic[i] \in InMemory \cup Settled \cup skipped

(***************************************************************************)
(* PostgreSQL comes first: a line in a JSONL file is a row of command_logs *)
(* or was dead-lettered, whatever failed and whenever the process died.    *)
(***************************************************************************)
FilesFollowDatabase ==
  DatabaseEnabled => ToSet(jsonl) \subseteq db \cup deadLetters

(***************************************************************************)
(* What _is_ready() reads from _last_flush_error is the truth about the    *)
(* buffer: an error means that a batch is waiting to be retried, no error  *)
(* that less than a full batch is waiting.                                 *)
(***************************************************************************)
ReadinessHonest ==
  Up /\ (\A t \in Thread : ~Flushing(t)) =>
    IF flushError THEN buffer # <<>> ELSE Len(buffer) < BatchSize

(***************************************************************************)
(* Without crashes, rejoins and file errors the JSONL files hold an event  *)
(* once, however often it was published, its batch retried or its commit   *)
(* lost (_deduplicate(), and the order of writes in _flush_batch()).       *)
(***************************************************************************)
NoDuplicateLines == IsInjective(jsonl)

(***************************************************************************)
(* Under the same conditions each host's file lists its events in the      *)
(* order of the partition, across retries and both flushing threads.       *)
(***************************************************************************)
FilesInOrder ==
  \A i, j \in DOMAIN jsonl :
    i < j /\ HostOf[jsonl[i]] = HostOf[jsonl[j]] =>
      \E a, b \in DOMAIN topic :
        a < b /\ topic[a] = jsonl[i] /\ topic[b] = jsonl[j]

(***************************************************************************)
(* Unless the last flush has failed, fewer than batch_size of the lines    *)
(* behind the committed offset are off record: run() commits the position  *)
(* of a line that was only buffered, but not more than one batch of them.  *)
(***************************************************************************)
OffRecord == IF origin = NoOffset THEN {}
             ELSE {i \in origin + 1 .. committed : topic[i] \notin Settled}

ExposureBounded ==
  flushError \/ Cardinality({topic[i] : i \in OffRecord}) < BatchSize

(***************************************************************************)
(* The documented commit rule: the consumer "advances offsets only after   *)
(* the PostgreSQL transaction and the local JSONL append both succeed".    *)
(***************************************************************************)
CommittedIsOnRecord == OffRecord = {}

(***************************************************************************)
(* Seen from outside, the process takes lines, records them, and forgets   *)
(* what it took only when it dies: IngestContract.                         *)
(***************************************************************************)
Contract == INSTANCE IngestContract
              WITH held    <- InMemory,
                   settled <- Settled,
                   Invalid <- {p \in Payload : ClassOf[p] = "invalid"}

ImplementsContract == Contract!Spec

(***************************************************************************)
(* Whatever is published once the partition is assigned is eventually on   *)
(* record, also when no further line arrives to trigger a flush.           *)
(***************************************************************************)
Backlog == IF position = NoOffset THEN {}
           ELSE {topic[i] : i \in position + 1 .. Len(topic)}

EventuallySettled ==
  \A p \in Payload : (p \in Backlog \cup InMemory) ~> (p \in Settled)

(***************************************************************************)
(* A signal only stops the loop when the iterator hands out another line   *)
(* (run() tests self.running nowhere else); then the process does end,     *)
(* even if its last flush and its last commit fail.                        *)
(***************************************************************************)
StopsAtNextLine ==
  (Up /\ ~running /\ committed # NoOffset /\ Backlog # {}) ~> ~Up

(***************************************************************************)
(* The documented handling of a data error: "one bad row ... is isolated", *)
(* so that the events around it are stored all the same.                   *)
(***************************************************************************)
BadRowIsIsolated ==
  \A p \in Payload :
    (p \in InMemory /\ ClassOf[p] = "event") ~> (p \in Settled)

(***************************************************************************)
(* The final flush and commit of a clean stop are there so that the        *)
(* committed offset covers what was stored and nothing else.               *)
(***************************************************************************)
CleanStopIsOnRecord == ~Up => OffRecord = {}

=============================================================================
