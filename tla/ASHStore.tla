------------------------------ MODULE ASHStore ------------------------------
(***************************************************************************)
(* PostgreSQL as src/src/consumer/ash-consumer.py uses it: one connection, *)
(* db_conn, on which the flush inserts the rows of a batch and on which    *)
(* the retention thread archives and deletes old rows.  The two threads    *)
(* share the connection and with it the transaction; no lock keeps them    *)
(* apart.  A step is one SQL statement, commit or rollback.                *)
(*                                                                         *)
(* Kafka, the JSONL files and the threads that call the flush are in       *)
(* ASHConsumer; here the lines of the topic arrive in order, and a restart *)
(* reads them again from the committed offset.                             *)
(***************************************************************************)
EXTENDS Integers, Sequences, FiniteSets, SequencesExt

CONSTANTS Event, Session,
          Kind,          \* Kind[e]: "command", "file", "start" or "end"
          SessionOf,     \* SessionOf[e]: the session of e
          Stamp,         \* Stamp[e]: the day of its timestamp
          RefusedIn,     \* RefusedIn[e]: the table that refuses e, or "none"
          Topic,         \* the orders in which Kafka may hold the events
          ArchiveDays, RetentionDays,
          ArchiveLimit,  \* LIMIT 10000 of the archive query
          MaxAttempts,   \* max_retries of _write_database_batch()
          FaultKind, MaxFaults, MaxDay

ASSUME StoreAssumption ==
  /\ Kind \in [Event -> {"command", "file", "start", "end"}]
  /\ SessionOf \in [Event -> Session]
  /\ Stamp \in [Event -> Nat]
  /\ RefusedIn \in [Event -> {"none", "logs", "changes"}]
  /\ Topic \subseteq Seq(Event)
  /\ ArchiveDays \in Nat
  /\ RetentionDays \in Nat
  /\ ArchiveLimit \in Nat \ {0}
  /\ MaxAttempts \in Nat \ {0}
  /\ FaultKind \subseteq {"crash", "disk", "connection",
                          "flush_timeout", "retention_timeout"}
  /\ MaxFaults \in Nat
  /\ MaxDay \in Nat

VARIABLES
  topic, position, committed,   \* Kafka
  seen, buffer,                 \* dedup cache and batch_buffer
  pc, batch, row, stmt, attempt,\* the flush
  disk,                         \* the tables, as committed
  view,                         \* the tables, as the transaction sees them
  tx,                           \* "none", "open" or "failed"
  conn,                         \* "open", "dead", "closed" or "none"
  autocommit,
  ret, picked, stale, deleted,  \* the retention thread
  archived, dead, acked,        \* archive, dead letters, flushed events
  late,                         \* events already expired when inserted
  spoiled,                      \* in a flush whose transaction retention failed
  day, faults

kafkaVars == <<topic, position, committed>>
memoryVars == <<seen, buffer>>
flushVars == <<pc, batch, row, stmt, attempt>>
tableVars == <<disk, view, tx>>
connVars == <<conn, autocommit>>
retentionVars == <<ret, picked, stale, deleted>>
resultVars == <<archived, dead, acked, late, spoiled>>
vars == <<kafkaVars, memoryVars, flushVars, tableVars, connVars,
          retentionVars, resultVars, day, faults>>

Tables == [logs : SUBSET Event, changes : SUBSET Event,
           sessions : [Session -> {"absent", "started", "ended"}]]

Older(e, days) == day - Stamp[e] > days
Expired(e) == Older(e, RetentionDays)

TypeOK ==
  /\ topic \in Topic
  /\ position \in 0 .. Len(topic)
  /\ committed \in 0 .. position
  /\ seen \subseteq Event
  /\ buffer \in Seq(Event)
  /\ pc \in {"idle", "insert", "commit", "ack"}
  /\ batch \in Seq(Event)
  /\ row \in 0 .. Len(batch)
  /\ stmt \in Nat \ {0}
  /\ attempt \in 1 .. MaxAttempts
  /\ disk \in Tables
  /\ view \in Tables
  /\ tx \in {"none", "open", "failed"}
  /\ tx # "open" => view = disk
  /\ conn \in {"open", "dead", "closed", "none"}
  /\ autocommit \in BOOLEAN
  /\ autocommit => tx = "none"
  /\ ret \in {"asleep", "write", "delete_logs", "delete_changes", "commit",
              "autocommit", "vacuum", "restore"}
  /\ picked \subseteq Event
  /\ stale \in BOOLEAN
  /\ deleted \in BOOLEAN
  /\ archived \subseteq Event
  /\ dead \subseteq Event
  /\ acked \subseteq Event
  /\ late \subseteq Event
  /\ spoiled \subseteq Event
  /\ day \in 0 .. MaxDay
  /\ faults \in 0 .. MaxFaults

NoTables == [logs |-> {}, changes |-> {},
             sessions |-> [s \in Session |-> "absent"]]

Init ==
  /\ topic \in Topic
  /\ position = 0
  /\ committed = 0
  /\ seen = {}
  /\ buffer = <<>>
  /\ pc = "idle"
  /\ batch = <<>>
  /\ row = 0
  /\ stmt = 1
  /\ attempt = 1
  /\ disk = NoTables
  /\ view = NoTables
  /\ tx = "none"
  /\ conn = "open"
  /\ autocommit = FALSE
  /\ ret = "asleep"
  /\ picked = {}
  /\ stale = FALSE
  /\ deleted = FALSE
  /\ archived = {}
  /\ dead = {}
  /\ acked = {}
  /\ late = {}
  /\ spoiled = {}
  /\ day = 0
  /\ faults = 0

Fault(kind) == /\ kind \in FaultKind
               /\ faults < MaxFaults
               /\ faults' = faults + 1

NoFault == UNCHANGED faults

-----------------------------------------------------------------------------
(* The transaction on db_conn *)

(***************************************************************************)
(* A statement on the connection.  With autocommit it is a transaction of  *)
(* its own; otherwise psycopg2 opens one if there is none.                 *)
(***************************************************************************)
Execute(tables) ==
  /\ view' = tables
  /\ IF autocommit THEN /\ disk' = tables
                        /\ UNCHANGED tx
                   ELSE /\ tx' = "open"
                        /\ UNCHANGED disk

\* PostgreSQL refuses every statement after one has failed.
CanExecute == /\ conn = "open"
              /\ tx # "failed"

\* For the retention thread that means the rows of a flush, too.
StatementFails == /\ tx' = IF autocommit THEN "none" ELSE "failed"
                  /\ view' = disk
                  /\ spoiled' = spoiled \cup ToSet(batch)
                  /\ UNCHANGED disk

\* COMMIT of a failed transaction is a rollback, and raises nothing: then
\* view equals disk already.
CommitWork == /\ disk' = view
              /\ tx' = "none"
              /\ UNCHANGED view

\* Mutant: the client forgets the transaction without rolling it back.
RollbackForgotten == tx' = "none" /\ UNCHANGED <<view, disk>>

Rollback == /\ view' = disk
            /\ tx' = "none"
            /\ UNCHANGED disk

-----------------------------------------------------------------------------
(* _insert_database_rows() *)

\* The batch, or one row of it in _write_database_rows_individually().
Work == IF row = 0 THEN batch ELSE <<batch[row]>>

IsFile(e) == Kind[e] = "file"
IsSession(e) == Kind[e] \in {"start", "end"}

\* One INSERT for all events (1), one for the file changes if there are any
\* (2), then one statement for each session event in the order of the batch.
Statements(w) == {1} \cup (IF \E e \in ToSet(w) : IsFile(e) THEN {2} ELSE {})
                     \cup {i + 2 : i \in {j \in 1 .. Len(w) : IsSession(w[j])}}

Statement(w, k) ==
  [into |-> IF k = 1 THEN "logs" ELSE IF k = 2 THEN "changes" ELSE "sessions",
   rows |-> IF k = 1 THEN ToSet(w)
            ELSE IF k = 2 THEN {e \in ToSet(w) : IsFile(e)}
            ELSE {w[k - 2]}]

Later(w, k) == {n \in Statements(w) : n > k}

\* INSERT ... ON CONFLICT DO NOTHING for a session_start; for a session_end
\* an UPDATE, which finds no row if there is none yet.
\* Mutant: ON CONFLICT DO UPDATE.
SessionReopened(e, old) == IF Kind[e] = "start" THEN "started"
                           ELSE IF old = "absent" THEN "absent" ELSE "ended"

SessionAfter(e, old) ==
  IF Kind[e] = "start" THEN IF old = "absent" THEN "started" ELSE old
                       ELSE IF old = "absent" THEN "absent" ELSE "ended"

After(s, tables) ==
  IF s.into = "logs"
  THEN [tables EXCEPT !.logs = @ \cup s.rows]
  ELSE IF s.into = "changes"
  THEN [tables EXCEPT !.changes = @ \cup s.rows]
  ELSE LET e == CHOOSE x \in s.rows : TRUE
       IN  [tables EXCEPT !.sessions[SessionOf[e]] = SessionAfter(e, @)]

Refused(s) == \E e \in s.rows : RefusedIn[e] = s.into

-----------------------------------------------------------------------------
(* The consumer's threads around the flush *)

Quiet == pc = "idle"

\* The next line of the topic; an id that is still cached is dropped.
Receive ==
  /\ Quiet
  /\ position < Len(topic)
  /\ LET e == topic[position + 1]
     IN  /\ Stamp[e] <= day
         /\ seen' = seen \cup {e}
         /\ buffer' = IF e \in seen THEN buffer ELSE Append(buffer, e)
  /\ position' = position + 1
  /\ NoFault
  /\ UNCHANGED <<topic, committed, flushVars, tableVars, connVars,
                 retentionVars, resultVars, day>>

\* _flush_batch() takes the whole buffer, because it is full or on time.
StartFlush ==
  /\ Quiet
  /\ buffer # <<>>
  /\ batch' = buffer
  /\ buffer' = <<>>
  /\ pc' = "insert"
  /\ row' = 0
  /\ stmt' = 1
  /\ attempt' = 1
  /\ NoFault
  /\ UNCHANGED <<kafkaVars, seen, tableVars, connVars, retentionVars,
                 resultVars, day>>

FlushOver == /\ pc' = "idle"
             /\ batch' = <<>>
             /\ row' = 0
             /\ stmt' = 1
             /\ attempt' = 1

\* DatabaseWriteError: the batch goes back in front of the buffer.
FlushFails == /\ FlushOver
              /\ buffer' = batch \o buffer
              /\ UNCHANGED <<kafkaVars, seen, resultVars>>

InsertNext ==
  /\ pc = "insert"
  /\ CanExecute
  /\ LET s == Statement(Work, stmt)
     IN  /\ ~Refused(s)
         /\ Execute(After(s, view))
         /\ late' = late \cup {e \in s.rows : Expired(e)}
  /\ LET later == Later(Work, stmt)
     IN  IF later = {} THEN pc' = "commit" /\ stmt' = 1
         ELSE /\ stmt' \in {n \in later : \A m \in later : n <= m}
              /\ UNCHANGED pc
  /\ NoFault
  /\ UNCHANGED <<kafkaVars, memoryVars, batch, row, attempt, connVars,
                 retentionVars, archived, dead, acked, spoiled, day>>

\* Mutant: the loop over the rows ends one row early.
LastRowForgotten == IF row + 1 < Len(batch)
                    THEN row' = row + 1 /\ pc' = "insert"
                    ELSE pc' = "ack" /\ UNCHANGED row

\* The transaction of row r is over: the next one, or the flush is done.
NextRow == IF row < Len(batch) THEN row' = row + 1 /\ pc' = "insert"
                               ELSE pc' = "ack" /\ UNCHANGED row

(***************************************************************************)
(* psycopg2.Error, from a row PostgreSQL refuses or from a transaction     *)
(* that has failed already: roll back and try row by row; a row that fails *)
(* alone goes to the dead letters.                                         *)
(***************************************************************************)
InsertRefused ==
  /\ pc = "insert"
  /\ conn = "open"
  /\ tx = "failed" \/ Refused(Statement(Work, stmt))
  /\ Rollback
  /\ stmt' = 1
  /\ IF row = 0 THEN /\ row' = 1
                     /\ UNCHANGED <<pc, dead>>
                ELSE /\ dead' = dead \cup {batch[row]}
                     /\ NextRow
  /\ NoFault
  /\ UNCHANGED <<kafkaVars, memoryVars, batch, attempt, connVars,
                 retentionVars, archived, acked, late, spoiled, day>>

CommitBatch ==
  /\ pc = "commit"
  /\ conn = "open"
  /\ CommitWork
  /\ IF row = 0 THEN pc' = "ack" /\ UNCHANGED row ELSE NextRow
  /\ NoFault
  /\ UNCHANGED <<kafkaVars, memoryVars, batch, stmt, attempt, connVars,
                 retentionVars, resultVars, day>>

\* The flush returns, and the offset may be committed (or that may fail).
Acknowledge ==
  /\ pc = "ack"
  /\ acked' = acked \cup ToSet(batch)
  /\ committed' \in {committed, position}
  /\ FlushOver
  /\ NoFault
  /\ UNCHANGED <<topic, position, memoryVars, tableVars, connVars,
                 retentionVars, archived, dead, late, spoiled, day>>

-----------------------------------------------------------------------------
(* Connection failures *)

\* The server goes away, and the client does not know yet: it has rolled
\* back, or carried out a commit whose answer is lost.
ConnectionLost ==
  /\ conn = "open"
  /\ Fault("connection")
  /\ conn' = "dead"
  /\ autocommit' = FALSE
  /\ \/ Rollback
     \/ "commit" \in {pc, ret} /\ CommitWork
  /\ UNCHANGED <<kafkaVars, memoryVars, flushVars, retentionVars,
                 resultVars, day>>

\* _connect_db() gives a connection in manual commit, or fails.  A cursor
\* the retention thread holds stays with the old connection.
Reconnect == /\ conn' \in {"open", "none"}
             /\ autocommit' = FALSE
             /\ stale' = (stale \/ ret = "delete_changes")
             /\ UNCHANGED <<ret, picked, deleted>>

\* After attempt n has failed: another one, or DatabaseWriteError.
NextAttempt == IF attempt < MaxAttempts
               THEN /\ attempt' = attempt + 1
                    /\ pc' = "insert"
                    /\ stmt' = 1
                    /\ UNCHANGED <<kafkaVars, memoryVars, batch, row,
                                   resultVars>>
               ELSE FlushFails

\* OperationalError in _write_database_batch(): the server is gone, or the
\* statement ran into statement_timeout.
BatchInterrupted ==
  /\ pc \in {"insert", "commit"}
  /\ row = 0
  /\ \/ conn = "dead" /\ NoFault
     \/ conn = "open" /\ Fault("flush_timeout")
  /\ Rollback
  /\ Reconnect
  /\ NextAttempt
  /\ UNCHANGED day

\* db_conn is None: connect, or use up an attempt.
BatchConnects ==
  /\ pc = "insert"
  /\ conn = "none"
  /\ Reconnect
  /\ IF conn' = "open"
     THEN UNCHANGED <<kafkaVars, memoryVars, flushVars, resultVars>>
     ELSE NextAttempt
  /\ NoFault
  /\ UNCHANGED <<tableVars, day>>

\* The same while rows go one by one: the flush fails at once.  rollback()
\* on a dead connection raises, and leaves the closed object in db_conn.
RowInterrupted ==
  /\ pc \in {"insert", "commit"}
  /\ row > 0
  /\ \/ /\ conn = "dead"
        /\ conn' = "closed"
        /\ NoFault
     \/ /\ conn = "open"
        /\ Fault("flush_timeout")
        /\ UNCHANGED conn
  /\ Rollback
  /\ FlushFails
  /\ UNCHANGED <<autocommit, retentionVars, day>>

\* cursor() and rollback() raise InterfaceError on a closed connection.
HandleClosed ==
  /\ pc \in {"insert", "commit"}
  /\ conn = "closed"
  /\ FlushFails
  /\ NoFault
  /\ UNCHANGED <<tableVars, connVars, retentionVars, day>>

Flush == \/ InsertNext
         \/ InsertRefused
         \/ CommitBatch
         \/ Acknowledge
         \/ BatchInterrupted
         \/ BatchConnects
         \/ RowInterrupted
         \/ HandleClosed

\* The process dies and is started again: Kafka delivers from the offset.
\* _setup_database() may give up; the flush will connect.
Restart ==
  /\ Fault("crash")
  /\ position' = committed
  /\ seen' = {}
  /\ buffer' = <<>>
  /\ FlushOver
  /\ Rollback
  /\ conn' \in {"open", "none"}
  /\ autocommit' = FALSE
  /\ ret' = "asleep"
  /\ picked' = {}
  /\ stale' = FALSE
  /\ deleted' = FALSE
  /\ UNCHANGED <<topic, committed, resultVars, day>>

-----------------------------------------------------------------------------
(* _run_retention(), in a thread of its own *)

RetentionSteps == UNCHANGED <<kafkaVars, memoryVars, flushVars, dead, acked,
                              late, day>>

RetentionOver == /\ ret' = "asleep"
                 /\ picked' = {}
                 /\ stale' = FALSE
                 /\ deleted' = FALSE

\* ORDER BY log_timestamp LIMIT ArchiveLimit
OldestRows(S) ==
  {P \in SUBSET S :
     /\ Cardinality(P) = IF Cardinality(S) < ArchiveLimit
                         THEN Cardinality(S) ELSE ArchiveLimit
     /\ \A p \in P, q \in S \ P : Stamp[p] <= Stamp[q]}

\* The thread wakes up and selects what it will archive.
SelectOldRows ==
  /\ ret = "asleep"
  /\ CanExecute
  /\ Execute(view)
  /\ picked' \in OldestRows({e \in view.logs : Older(e, ArchiveDays)})
  /\ ret' = IF picked' = {} THEN "delete_logs" ELSE "write"
  /\ NoFault
  /\ RetentionSteps
  /\ UNCHANGED spoiled
  /\ UNCHANGED <<connVars, stale, deleted, archived>>

WriteArchive ==
  /\ ret = "write"
  /\ archived' = archived \cup picked
  /\ ret' = "delete_logs"
  /\ NoFault
  /\ RetentionSteps
  /\ UNCHANGED spoiled
  /\ UNCHANGED <<tableVars, connVars, picked, stale, deleted>>

\* The gzip file takes some of the lines only; the exception ends the run.
ArchiveFails ==
  /\ ret = "write"
  /\ Fault("disk")
  /\ \E some \in SUBSET picked : archived' = archived \cup some
  /\ RetentionOver
  /\ RetentionSteps
  /\ UNCHANGED spoiled
  /\ UNCHANGED <<tableVars, connVars>>

\* Mutant: the archive's cutoff instead of the retention's.
DueForArchive(e) == Older(e, ArchiveDays)

Due(e) == Expired(e)

DeleteLogs ==
  /\ ret = "delete_logs"
  /\ CanExecute
  /\ Execute([view EXCEPT !.logs = {e \in @ : ~Due(e)}])
  /\ deleted' = \E e \in view.logs : Due(e)
  /\ ret' = "delete_changes"
  /\ NoFault
  /\ RetentionSteps
  /\ UNCHANGED spoiled
  /\ UNCHANGED <<connVars, picked, stale, archived>>

\* On a connection the flush has replaced, this changes nothing that the
\* commit below could commit.
DeleteChanges ==
  /\ ret = "delete_changes"
  /\ \/ /\ ~stale
        /\ CanExecute
        /\ Execute([view EXCEPT !.changes = {e \in @ : ~Due(e)}])
     \/ /\ stale
        /\ UNCHANGED tableVars
  /\ ret' = "commit"
  /\ NoFault
  /\ RetentionSteps
  /\ UNCHANGED spoiled
  /\ UNCHANGED <<connVars, picked, stale, deleted, archived>>

\* db_conn.commit() commits whatever the flush has inserted so far as well.
CommitShared == CommitWork

CommitDeletes ==
  /\ ret = "commit"
  /\ conn = "open"
  /\ CommitShared
  /\ IF deleted THEN /\ ret' = "autocommit"
                     /\ UNCHANGED <<picked, stale, deleted>>
                ELSE RetentionOver
  /\ NoFault
  /\ RetentionSteps
  /\ UNCHANGED spoiled
  /\ UNCHANGED <<connVars, archived>>

\* psycopg2 refuses to set autocommit inside a transaction (see Raises).
SetAutocommit ==
  /\ ret = "autocommit"
  /\ conn = "open"
  /\ tx = "none"
  /\ autocommit' = TRUE
  /\ ret' = "vacuum"
  /\ NoFault
  /\ RetentionSteps
  /\ UNCHANGED spoiled
  /\ UNCHANGED <<tableVars, conn, picked, stale, deleted, archived>>

\* VACUUM twice.  On a connection that has replaced the one above, it runs
\* inside a transaction, and fails it.
Vacuum ==
  /\ ret = "vacuum"
  /\ CanExecute
  /\ IF autocommit THEN UNCHANGED <<tableVars, spoiled>> ELSE StatementFails
  /\ ret' = "restore"
  /\ NoFault
  /\ RetentionSteps
  /\ UNCHANGED <<connVars, picked, stale, deleted, archived>>

RestoreAutocommit ==
  /\ ret = "restore"
  /\ autocommit' = FALSE
  /\ RetentionOver
  /\ NoFault
  /\ RetentionSteps
  /\ UNCHANGED spoiled
  /\ UNCHANGED <<tableVars, conn, archived>>

\* A statement of the thread runs into statement_timeout.  Nothing rolls
\* back: the failed transaction stays for the flush to find.
RetentionTimesOut ==
  /\ ret \in {"asleep", "delete_logs", "delete_changes"}
  /\ CanExecute
  /\ ~stale
  /\ Fault("retention_timeout")
  /\ StatementFails
  /\ RetentionOver
  /\ RetentionSteps
  /\ UNCHANGED <<connVars, archived>>

\* The connection cannot be used as the thread wants to: the exception is
\* logged.  A dead connection is closed by the first use that notices.
Raises ==
  /\ \/ ret \in {"delete_logs", "vacuum"} /\ ~CanExecute
     \/ ret = "delete_changes" /\ (stale \/ ~CanExecute)
     \/ ret = "commit" /\ conn # "open"
     \/ ret = "autocommit" /\ (conn # "open" \/ tx # "none")
     \/ ret = "asleep" /\ conn = "dead"
  /\ conn' = IF conn = "dead" /\ ~stale THEN "closed" ELSE conn
  /\ autocommit' = IF ret = "vacuum" THEN FALSE ELSE autocommit
  /\ RetentionOver
  /\ NoFault
  /\ RetentionSteps
  /\ UNCHANGED spoiled
  /\ UNCHANGED <<tableVars, archived>>

Retention == \/ SelectOldRows
             \/ WriteArchive
             \/ ArchiveFails
             \/ DeleteLogs
             \/ DeleteChanges
             \/ CommitDeletes
             \/ SetAutocommit
             \/ Vacuum
             \/ RestoreAutocommit
             \/ RetentionTimesOut
             \/ Raises

-----------------------------------------------------------------------------

\* A day passes.  A retention run takes minutes, and never spans two days.
NextDay ==
  /\ ret = "asleep"
  /\ day < MaxDay
  /\ day' = day + 1
  /\ NoFault
  /\ UNCHANGED <<kafkaVars, memoryVars, flushVars, tableVars, connVars,
                 retentionVars, resultVars>>

Next == Receive \/ StartFlush \/ Flush \/ ConnectionLost \/ Restart
        \/ Retention \/ NextDay

Spec == Init /\ [][Next]_vars

\* The threads keep running; the retention thread wakes up again and again.
FairSpec == /\ Spec
            /\ WF_vars(Receive \/ StartFlush)
            /\ WF_vars(Flush)
            /\ WF_vars(SelectOldRows)
            /\ WF_vars(Retention /\ ret # "asleep")
            /\ WF_vars(NextDay)

-----------------------------------------------------------------------------
(* Properties *)

(***************************************************************************)
(* An event whose flush has succeeded, so that its offset may be committed *)
(* (lines 1256-1265), is in its tables as one whole, or in the dead        *)
(* letters, or older than retention_days, whatever the retention thread    *)
(* did to the transaction it shares with the flush; spoiled excepted.      *)
(***************************************************************************)
Whole(e) == /\ e \in disk.logs
            /\ IsFile(e) => e \in disk.changes

Kept(e) == Whole(e) \/ e \in dead \/ Expired(e)

AckedIsKept == \A e \in acked : Kept(e) \/ e \in spoiled

\* README.md, line 575, says so of every event: "Commits a Kafka offset
\* only after the PostgreSQL transaction [...] succeed[s]".
AckedIsAlwaysKept == \A e \in acked : Kept(e)

\* True of the defaults, 30 days and 90; nothing checks it of a config file.
ArchiveComesFirst == ArchiveDays <= RetentionDays

(***************************************************************************)
(* "Archive old records and delete expired ones" (line 1606): a row leaves *)
(* command_logs only when it has expired and its line is in the archive.   *)
(* A row that was inserted after it had expired may miss the archive.  The *)
(* property needs ArchiveComesFirst, and no more old rows than the limit.  *)
(***************************************************************************)
DeletesAreDue ==
  [][\A e \in disk.logs \ disk'.logs :
        Expired(e) /\ (e \in archived \/ e \in late)]_vars

(***************************************************************************)
(* A session whose start and end were both flushed, its start in the topic *)
(* before its end comes at all, has its end in the sessions table: no      *)
(* retry, restart or replay of its start opens it again (lines 1532-1564). *)
(***************************************************************************)
StartAndEnd(d, e) == /\ Kind[d] = "start"
                     /\ Kind[e] = "end"
                     /\ SessionOf[d] = SessionOf[e]
                     /\ {d, e} \subseteq acked \ (dead \cup spoiled)

Precedes(d, e) == \E i \in 1 .. Len(topic) :
                     topic[i] = d /\ \A j \in 1 .. i : topic[j] # e

SessionsClose ==
  \A d, e \in Event :
     StartAndEnd(d, e) /\ Precedes(d, e)
        => disk.sessions[SessionOf[e]] = "ended"

\* The same without the order: docs/EVENT_SCHEMA.md says of session_end
\* "Shell session closed", and an agent may deliver its spool late.
EndedSessionsClose ==
  \A d, e \in Event :
     StartAndEnd(d, e) => disk.sessions[SessionOf[e]] = "ended"

\* "only the row that still fails goes to the DLQ" (line 1368), and rows
\* are retried one per transaction: no part of a dead-lettered row is stored.
DeadLettersAreNotStored == \A e \in dead : e \notin disk.logs

(***************************************************************************)
(* Rows that have expired are deleted in the end, although the run that    *)
(* deletes them shares its transaction with flushes that may roll it back. *)
(* Faults are excepted: without traffic nobody replaces a lost connection. *)
(***************************************************************************)
ExpiredRowsGo ==
  \A e \in Event :
     (e \in disk.logs /\ Expired(e)) ~> (e \notin disk.logs \/ faults > 0)
=============================================================================
