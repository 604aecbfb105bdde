# A TLA+ model of the ASH monitoring system

ASH records what users do on a set of hosts. A shell agent on each host signs
every event into a hash chain, appends it to a local log and spools it to
Kafka. One consumer process reads the topic, drops duplicates, writes events to
PostgreSQL and to one JSONL file per host, and commits its offset. A read-only
API answers queries, among them whether a host's chain is intact.

The system exists to keep a complete and trustworthy record. The question this
project asks of the code is therefore always a form of the same one: *after
whatever interleaving, fault, crash or restart, what is on record, what is still
only in somebody's memory, and does the code know which is which?*

Paths below are relative to the root of the repository.

## 1. Inventory

| Component | Source | State it keeps | Operations that change it | Status |
|---|---|---|---|---|
| Consumer main loop | `src/consumer/ash-consumer.py` `run`, `_signal_handler`, `_cleanup` | position in the partition, committed offset, `running` | yield a line, commit, stop, clean up, restart | modelled: `ASHConsumer` |
| Validation, dedup, batching | same, `_decode_message`, `_validate_event`, `_deduplicate`, `process_message` | `seen_event_ids`, `batch_buffer` | dead-letter, drop, remember and evict, append | modelled: `ASHConsumer` |
| Flush and flush timer | same, `_flush_batch`, `flush_loop`, `_write_*_batch` | `_processing_lock`, the batch in flight, `_commit_pending`, `_last_flush_error`, `db_conn` | snapshot, insert, retry, append to files, put back | modelled: `ASHConsumer` |
| PostgreSQL rows | same, `_insert_database_rows`, `_write_database_*` | `command_logs`, `file_changes`, `sessions`, the open transaction | insert, `ON CONFLICT DO NOTHING`, update the session row, commit, roll back | modelled: `ASHStore` |
| Retention | same, `_run_retention` | archive files, deleted rows, the shared `db_conn` | archive, delete, vacuum | modelled: `ASHStore` |
| Health and metrics | same, `_is_ready`, `_refresh_readiness`, `_setup_*`; `ash_observability.py` | gauges, the endpoint, systemd's view | decide, publish, serve, notify | modelled: `ASHHealth` |
| Alerting | `src/consumer/ash_alerting.py` | `last_triggered` per rule | load rules, match, cool down, call webhooks, score | modelled: `ASHAlerting` |
| Tracing | `src/consumer/ash_tracing.py` | the context and the forced ids of a thread, open spans | start, attach, detach, end, link | modelled: `ASHTelemetry` |
| Log export | `src/consumer/ash_log_export.py`, exporters of `ash_tracing.py` | queues of the OpenTelemetry SDK | configure, shut down | no |
| API server | `src/consumer/api_server.py`, `gunicorn.conf.py` | per worker: limiter, last health; per process id: metric files | serve, refuse, query, count, fork, reap | modelled: `ASHApi` |
| API queries | `api_server.py` `search_events`, `get_session`, `verify_integrity` | none of its own | read what the consumer inserted | modelled: `ASHQuery` |
| Agent: emission and chain | `src/agent/ash-agent.sh` `emit_event`, `_hash_chain_append_unlocked` | the hash file, its lock file, the event log | sign and append | modelled: `ASHAgent` |
| Agent: spool | same, `spool_write`, `spool_flush`, `send_to_kafka_raw` | `pending/`, `sent/` | write, send, move, trim | modelled: `ASHAgent`, without the clean-up of `sent/` |
| Agent: lifecycle | same, `save_state`, `recover_state`, watchdog, `cleanup_ash` | state files, pid files | save, recover, clean up | how a process ends (`Leave`, `Signal`, `Kill`); the files are not |
| Agent: capture | same, DEBUG trap, inotify, docker, journal; `shells/`, `auditd/` | rate-limit counter | decide what an event says | no |
| Deployment, scripts | `deployments/`, `scripts/`, `config/` | none at run time | - | no |

How they interact: the agents' spools feed the Kafka topic (at least once, in
no particular order across sessions); the consumer's two threads share one
buffer under `_processing_lock` and `batch_lock`; PostgreSQL, the JSONL files
and the dead-letter file outlive the process; the broker keeps the committed
offset; retention shares `db_conn` with the flush; the API reads what the
consumer inserted in the order of its `id`.

What is hard: a flush is several storage operations with no common
transaction; it runs in two threads; a failed batch goes back to a buffer; the
offset that is committed is a position and not a list of what was stored; the
cache that recognises a redelivery is bounded and evicts in no order; a signal
arrives while the loop waits for a message; and any of this may be cut off by a
crash. `PROJECT.json` lists the hazards, each at its line.

What makes each part correct:

* consumer: a line it took is on record, in memory, or was let go knowingly;
  what the files say is in the database; a replay records nothing twice; the
  order of the partition survives; readiness tells the truth; a stop ends.
* agent chain: the chain never forks; the log is in chain order; an event in
  the log has its link.
* agent spool: what was spooled is sent; what is sent is what was signed.
* lifecycle: a live session is never taken for a crashed one; a session ends
  once.
* store: what is acknowledged stays until it expires; a session that ended
  stays ended; nothing is deleted that was not archived; the flush's transaction
  is its own.
* health: the gauge says what the probe answers; an outage that is over is over.
* alerting: a rule fires once per cooldown; sending an alert costs no event.
* API: metrics survive the workers; nothing leaks from a request; a client that
  pages gets everything; a PASS of `verify_integrity` means an untouched chain.
* tracing: an event's span has the event's ids and no other span has; a span
  that fails to start, attach or detach leaves nothing behind in a thread.

## 2. Plan

| Module | Models | Abstract specification | State |
|---|---|---|---|
| `ASHConsumer` (+ `_proofs`) | the consumer process and the storage around it | `IngestContract` | done |
| `ASHAgent` (+ `_proofs`) | `emit_event`, the chain, the spool, several sessions and flushers | `SignedLog` | done |
| `ASHStore` (+ `_proofs`) | the rows of a flush and the retention thread, statement by statement, on one connection | | done |
| `ASHHealth` (+ `_proofs`) | readiness, its gauge and the probes from the constructor to the exit | | done |
| `ASHAlerting` (+ `_proofs`) | rules, cooldowns, webhooks, scores, exceptions inside `_process_message` | | done |
| `ASHApi` (+ `_proofs`) | requests, workers, limiter and metric files under gunicorn | | done |
| `ASHQuery` (+ `_proofs`) | paging, replay and `verify_integrity` against inserts and retention | | done |
| `ASHTelemetry` (+ `_proofs`) | contexts, forced ids and sampling in three threads | | done |
| `ASHLifecycle` | state files, recovery, watchdog, cleanup of concurrent sessions | | left |

Each `MC` module gives model values for one of them. The modules meet where the
components do: `ASHConsumer` has the threads, the offset and the failures of a
flush, and takes the database write of a batch as a step with its outcomes;
`ASHStore` opens that step up, and takes the threads of the consumer as one;
`ASHHealth` has the same flush as a count of events, with everything that
decides about readiness; `ASHAlerting` opens up the step that takes an event
into the buffer; `ASHQuery` reads what batches and retention leave.

Every safety invariant, action property and refinement of the runs below is also
a theorem (section 11). The liveness properties stay with TLC. Still to come is
`ASHLifecycle`.

## 3. ASHConsumer

### What corresponds to what

| Model | Code |
|---|---|
| `topic`, `committed` | the one partition and the group's committed offset (the deployment runs one consumer on one partition) |
| `position`, `Assign`, `Rejoin` | the position the iterator keeps; it is the committed offset or, for a new group, the end of the partition |
| `message` | the line `run` was handed and has not processed |
| `buffer` | `batch_buffer` and `batch_raw_texts`, parallel lists, one element for each pair |
| `batch[t]` | the local snapshot in thread `t`'s `_flush_batch` |
| `seen` | `seen_event_ids` |
| `commitPending`, `flushError`, `running` | `_commit_pending`, `_last_flush_error`, `running` |
| `conn` | `db_conn`: `"open"` is a connection that works or can be re-opened (`None`), `"closed"` the object psycopg2 has closed and the code keeps |
| `db`, `jsonl`, `deadLetters` | `command_logs`, the JSONL files, `dead_letter.jsonl` |
| `lock` | `_processing_lock`. `batch_lock` guards single statements and has no state of its own |
| `pc["main"]` | `poll` in the iterator, `process` waiting for the lock with a line in hand, `database`/`file` inside `_flush_batch`, `commit` at the end of an iteration, `cleanup` and `closing` in `_cleanup` |
| `pc["timer"]` | `sleep`, or inside `_flush_batch` |

A thread that holds the lock runs many statements. The model has one action for
each stretch between two points where the other thread, the storage or a crash
can intervene: handing out a line, processing it, the database write, the file
append, the commit. Inside `RowsInterrupted` the row-by-row retry stops at any
row; inside `FileFails` the append stops at any line; a crash at a point in
between leaves what a failed step followed by a crash leaves.

Two things a line can do to the loop are kept apart from its class.
`_decode_message` catches what `json.loads` documents; whatever else it raises
ends the loop with the line in hand (`LoopError`, at `"process"`), but as a
fault, so that no line does so each time it is read. `FileFails` may fail for
any line and at any time; a hostname with which `open()` fails for ever (one
with a slash in it) is not a class of lines either, and would block its batch
as the row of the third finding does.

Lines are of four classes (`ClassOf`): valid, invalid, refused by PostgreSQL,
and not encodable by psycopg2. What a line says is otherwise irrelevant to what
the consumer does with it; its host decides the file (`HostOf`).

The environment may publish any line again (agents deliver at least once), and
inject faults of the kinds in `Faults`, at most `MaxFaults` in a behaviour.
`MaxTopic` bounds the partition. There are no other bounds: buffer, cache and
files are bounded by the topic.

Two variables exist for the properties only: `origin`, where the present
assignment began, and `skipped`, the lines the code let go without a record (the
dead-letter write failed, whose result is not looked at, or the loop was
stopped with the line in hand).

### Fairness

`FairSpec` assumes that the main thread, the timer, the poll and the supervisor
make progress: threads are scheduled by the operating system, and the
deployments restart the process (`restart: unless-stopped`, `Restart=`). The
main thread needs strong fairness because it waits for a lock the timer holds
from time to time; the timer sleeps for a second with the lock free, so the lock
is not withheld for ever. Producers, signals, rebalances and faults have no
fairness. A write may fail each time it is tried, as long as the bound on faults
allows it; a liveness property that holds under `MaxFaults` therefore says that
the consumer recovers once the faults stop.

### Runs

All runs are of `MCASHConsumer`. `CHECK_DEADLOCK FALSE` is set everywhere: when
no more lines can be published and everything is on record, an idle consumer
really waits for ever (and so does a signalled one).

| Run | Instance | Properties | What it shows |
|---|---|---|---|
| `consumer_safety` | 4 lines, one of each class; topic of 3; batch of 2; cache of 2; any two faults of all nine kinds | `TypeOK`, `FlushSerialised`, `DuplicateIsCovered`, `NothingVanishes`, `FilesFollowDatabase`, `ReadinessHonest`, `ImplementsContract`, `StopsAtNextLine` | safety under every pair of faults, and the end of a stopped process |
| `consumer_delivery` | 4 lines on two hosts, one refused by PostgreSQL; topic of 4; batch of 2; database and commit faults, two | `NoDuplicateLines`, `FilesInOrder`, `ExposureBounded`, `EventuallySettled` | every line is recorded in the end, once and in order, although batches are retried and commits lost; while no flush fails, less than one batch is committed before it is on record |
| `bug_commit` | no faults | `CommittedIsOnRecord` (violated) | the documented commit rule does not hold, see below |

Why the bounds are enough: a batch of two is the smallest that fills in two
steps and can be cut by the timer after one; a cache of two evicts one id of
three with the event still buffered; three lines let a full batch be in flight
with one line behind it; two faults let a failed flush be followed by a crash,
a lost commit, a stop or a second failure. Any line may be published again, so
three places in the topic hold every combination of classes and of redeliveries
of one line.

`NoDuplicateLines` and `FilesInOrder` hold only where the code can keep them:
after a crash or a rebalance with a cold cache the JSONL files do get a line
twice (the delivery is at least once), and a file error after the rows went in
repeats what the earlier hosts already got. `consumer_delivery` leaves those
faults out for that reason, and has a cache as large as the set of lines. The
theorems about them have the same premise, `CacheIsKept`.
`ExposureBounded` leaves out the time when a flush has failed: each failure adds
to the buffer. With `database_enabled` off (`DatabaseEnabled = FALSE`, in which
PostgreSQL refuses nothing) only the theorems speak of the consumer.

### Findings

The first is a run of the project; the others have a configuration of
`MCASHConsumer` of their own, with which TLC refutes the property named.

* **`run` commits lines that are only in memory** (line 1713).
  `_commit_pending` records that some flush succeeded; `commit()` stores the
  position of now. When the timer flushes between two messages, the next
  message is buffered and committed in the same iteration. The lock keeps the
  *timer* from doing this to a line in flight, as its comment says, but the line
  processed by the committing iteration itself is not covered.
  `ExposureBounded` is what is true: less than one batch.
* **A stop loses a line** (line 1691). The loop sees `running` only when the
  iterator hands out a line, whose offset then counts as consumed; the final
  commit includes it (`bug_stop.cfg`, `CleanStopIsOnRecord`).
* **A row psycopg2 cannot encode blocks its batch** (line 1371). The exception
  is a `ValueError`, so the row-by-row retry is not reached
  (`bug_bad_row.cfg`, `BadRowIsIsolated`).
* **A lost connection in the row-by-row retry is final** (line 1397). The
  unguarded `rollback()` raises, and `db_conn` stays the closed object
  (`bug_closed_handle.cfg`, `EventuallySettled`). `consumer_delivery` checks the
  same property with faults that do not close the connection there.

### Faulty variants

`ASHConsumer` defines, next to some definitions, the form a plausible slip would
give them. Nothing uses them; each shows that a property can see that slip. The
other modules do the same, with a comment that begins with "Mutant".

| Variant | The slip | Noticed by |
|---|---|---|
| `StartPastEnd` | off by one in the initial offset | `TypeOK` |
| `TimerFlushUnlocked` | the timer does not take `_processing_lock` | `FlushSerialised`, `FilesInOrder` |
| `DropBatch` | a failed batch is not put back | `DuplicateIsCovered`, `NothingVanishes`, `ImplementsContract`, `EventuallySettled` |
| `FilesOnly` | the JSONL append without the database write | `FilesFollowDatabase` |
| `BatchOverfull` | `>` for `>=` in the batch limit | `ReadinessHonest`, `ExposureBounded` |
| `KeepLock` | the timer does not release the lock | `StopsAtNextLine` |
| `NeverRemembered` | `_deduplicate` does not remember | `NoDuplicateLines` |

## 4. ASHAgent

One host: every process that calls `emit_event`, the hash chain and the event
log they share, the spool and those who flush it.

### What corresponds to what

| Model | Code in `src/agent/ash-agent.sh` |
|---|---|
| `Shell` | bash processes with the agent's EXIT and SIGTERM traps and `set -e` |
| `Watcher` | its background loops that emit (inotify, docker, auditd, journal): subshells, in which bash resets the traps, so that a signal is a `Kill` |
| `Flusher` | the loops of `spool_flush_timer` |
| `lock` | the `flock` on `${ASH_HASH_FILE}.lock`; the kernel releases it when its holder dies |
| `hashes`, `prev` | the hash file after its first line; the `prev_hash` of each event |
| `log` | `events.jsonl`, or the file `safe_log_write` falls back to |
| `emitted`, `current` | events are numbered in the order in which they get the lock; which one a process is emitting |
| `stamps`, `file` | `pending/`: names in the order of their time stamps, and what is in each: not there, empty, full, gone |
| `todo`, `data`, `tries` | the locals of `spool_flush` and `send_to_kafka_raw`: the glob's list, the line read, the retry |
| `topic` | what the host has sent, in order; `Blank` is the empty line sent for a file without content |
| `rounds` | runs of `cleanup_ash` a shell still has before it: one after `exit`, two after a signal (the trap, then the EXIT trap of its `exit`) |
| `wait` `read` `sign` `log` `unlock` | `emit_event` from `flock -x` to `flock -u` |
| `stamp` `create` `fill` `trim` | `spool_write`: the name, the redirection, the content, the limit |
| `glob` `next` `cat` `send` `move` | `spool_flush` |
| `stuck` | a shell whose trap waits for the lock its own interrupted `emit_event` still holds on another descriptor |

One action stands for one command, because another process, a signal or a kill
may come between any two. `Failed` spells out what `set -e` makes of a command
that fails: the end of the process, unless it runs under `|| true` as in
`cleanup_ash`; a failed append to the hash file is the exception, since command
substitutions do not inherit `set -e` and the function's last command succeeds.

A host that is signing has one hash file, initialised: `Init` is the state after
`hash_chain_init`. SHA-256 is taken to be injective, so that a hash is named by
the event it signs.

`SignedLog` is the abstract specification: events are signed one after the
other, each over the one before; the log is written in that order and may miss
events, but nothing is signed twice and no two events over the same predecessor.
The refinement mapping counts a hash as signed when it is known whether its
event reaches the log (`Undecided` is left out until then).

### Fairness

`FairSpec` assumes strong fairness of `Proceed(p)` for each process: the kernel
schedules it, and `flock` hands a lock that keeps being released to a waiter at
some time. Nobody has to emit, leave, or suffer a fault.

### Runs

All runs are of `MCASHAgent`, with `CHECK_DEADLOCK FALSE`: an idle host waits
for the next command.

| Run | Instance | Properties | What it shows |
|---|---|---|---|
| `agent_chain` | two shells and a watcher, no Kafka; 4 events; kill, signal and log faults, two | `TypeOK`, `ImplementsSignedLog`, `EmitBlocksOnStuckOnly` | whoever dies at whichever command, and whichever append to the log fails, the chain does not fork and the log follows it (a failed append to the hash file breaks a link: `agent_spool`); nothing but a stuck shell keeps an emitter waiting |
| `agent_spool` | a shell and a timer; 3 events; spool of 2 that keeps 1; 2 tries; kill, hash, spool and Kafka faults, two | `BreaksAreFaults`, `LossIsVisible`, `SpoolDrains` | every event that leaves the spool unsent was trimmed or shows as a blank line; the spool drains once faults stop |
| `bug_stuck` | one signal | `EmitReturns` (violated) | one signal blocks every emitter of the host |

Why the bounds are enough: three emitters are one inside, one that gets the lock
next and one that could slip past; four events let a process emit again after a
fault and still leave a link after the broken one. For the spool, two flushers
are the timer and the last flush of the ending shell; three events overfill a
spool of two; two tries are one retry and one surrender. `MaxEvents` is the only
bound on the behaviour, and counts processes that wait for the lock as well, so
that each of them gets an event. Two faults let one process die while another
recovers from a failed command.

### Findings

* **A shell can wait for itself** (line 642). A signal between `flock -x` and
  `flock -u`, or a command that fails there under `set -e`, runs `cleanup_ash`,
  which emits an event, which opens the lock file anew and waits for the lock
  the interrupted call holds. The shell never ends and, with the lock in its
  hands, no process of the host emits again. `EmitBlocksOnStuckOnly` is what is
  true: nothing else blocks them.
* **The topic is not in chain order** (line 649, `bug_order.cfg`,
  `TopicInChainOrder`). The spool file gets its name
  after the lock is released, so two emitters may swap; flushers also overtake
  one another. `api_server.py` reads the chain in the order of insertion.
* **The spool loses events without any fault** (line 440, `bug_spool.cfg`,
  `SpooledIsDelivered`). `>` creates the file
  before `printf` fills it; a flusher that comes in between sends an empty line
  and moves the file. `LossIsVisible` is what is true.

### Faulty variants

| Variant | The slip | Noticed by |
|---|---|---|
| `UnlockForgotten` | `flock -u` is missing and the process goes on | `TypeOK`, `EmitBlocksOnStuckOnly` |
| `LockIgnored` | the lock is not taken exclusively | `ImplementsSignedLog` |
| `FirstHash` | `head -1` for `tail -1` | `BreaksAreFaults` |
| `GiveUpAndMove` | the file moves though its last try failed | `LossIsVisible` |
| `GiveUpAndExit` | a flusher ends when Kafka is unreachable | `SpoolDrains` |

### Simplified

The final flush of a session's recovery (`recover_state`) stands for one more
flusher. A second signal during `cleanup_ash` is left out. `ls -t` goes by time
of modification, and `Trim` leaves its order open, a superset. `sent/` is not
looked at again, so a moved and a removed file are both gone. zsh and fish have
hooks of their own around the same `emit_event`.

## 5. ASHStore

One connection, `db_conn`, and the two threads that use it: the flush and the
retention. A step is one statement, commit or rollback.

| Model | Code in `src/consumer/ash-consumer.py` |
|---|---|
| `topic`, `position`, `committed`, `seen`, `buffer`, `dead` | as in `ASHConsumer`, for lines that are all valid |
| `pc`, `batch`, `row`, `stmt`, `attempt` | where `_flush_batch` is: the batch as a whole (`row = 0`) or one row of the retry, the number of its next statement (`Statement`, `Later`), the attempt of `_write_database_batch` |
| `disk`, `view`, `tx` | the tables as committed, as the open transaction sees them, and whether PostgreSQL has failed that transaction |
| `conn`, `autocommit` | `db_conn`: usable, dead without the client knowing, closed, or `None` |
| `ret`, `picked`, `deleted` | where `_run_retention` is, the rows it selected, what it has deleted |
| `ConnectionLost` | the server goes away; a commit the client has sent has been carried out or not, and its answer is lost (line 1343) |
| `Restart`, `Reconnect` | a new process, in which `_setup_database` has got a connection or, after its retries, `None` (line 768) |
| `stale` | the cursor of the retention thread is on a connection the flush has replaced |
| `InsertNext`, `InsertRefused`, `CommitBatch`, `NextRow` | the statements of `_insert_database_rows`, the retry row by row |
| `BatchInterrupted`, `BatchConnects`, `RowInterrupted`, `HandleClosed` | its `except` clauses |
| `SelectOldRows` ... `RestoreAutocommit` | `_run_retention` in its order; `Raises` and `RetentionTimesOut` end in the `except` of the loop, which only logs |

Properties only: `acked` (the flush of the event succeeded), `late` (already
expired when inserted), `spoiled` (in a flush whose transaction a statement of
the retention thread failed).

`DeletesAreDue` is an action property: a row leaves `command_logs` only when it
has expired and is in the archive. `AckedIsKept` and `SessionsClose` compare
what was acknowledged with the committed tables.

Bounds: `store_rows` has a session's start, its end and a file event (which is
refused by `file_changes`, so that the row-by-row retry is reached), in the
order of the chain, with the start after the end, or with a start that comes
again after the end; three days, so that a row
can be archived on one and expire on another; one fault of any kind. A batch is
whatever is in the buffer, from one to three events. Two attempts are one
retry. The first process has found PostgreSQL: the tables exist because it
created them. `CHECK_DEADLOCK FALSE`: after the last day a consumer with nothing
to read is done.

Findings, each with a configuration of `MCASHStore` with which TLC refutes the
property named:

* **A statement of the retention thread that fails takes the flush with it**
  (line 1636, `bug_shared_conn.cfg`, `AckedIsAlwaysKept`). The failed
  transaction is the flush's own, and `commit()` of a failed transaction rolls
  back without an exception; the offset is committed. `AckedIsKept` is what is
  true: no other way to lose an acknowledged row exists.
* **The retention thread commits half of a flush** (line 1643,
  `bug_half_row.cfg`, `DeadLettersAreNotStored`). A row of `command_logs` whose
  `file_changes` row is refused later is stored and dead-lettered.
* **The end of a session is lost if it comes first** (line 1554,
  `bug_session_order.cfg`, `EndedSessionsClose`): the `UPDATE` finds no row, and
  the `INSERT` that follows leaves the session open. `SessionsClose` is the same
  for events in order.
* **Rows beyond the archive limit are deleted unarchived** (line 1617,
  `bug_archive_limit.cfg`, `DeletesAreDue`): the query takes the oldest 10000
  each day, the same ones until they expire. `store_rows` has a limit above the
  number of rows, and the theorem has the premise `LimitSuffices`.
* **Rows expire before they are archived** (line 1634, `bug_archive_days.cfg`,
  `DeletesAreDue`): nothing keeps `archive_days` at most `retention_days`, and
  with the two the other way round rows are deleted that no query ever picked.
  `ArchiveComesFirst` is the other premise.

`store_liveness.cfg` checks `ExpiredRowsGo`: without faults, expired rows are
deleted in the end, although the commit that deletes them may be the flush's.
`FairSpec` assumes weak fairness of both threads and of the days, and nothing
else: retention is a daemon thread that sleeps and runs again.

Left out: column lists, indexes, the schema (`_ensure_schema` runs once, before
the threads). What a row says is its event, and the retention looks at its day.

## 6. ASHHealth

What the probes, the gauges and systemd see of the process.

| Model | Code in `src/consumer/ash-consumer.py` |
|---|---|
| `pc["main"]` | the constructor (`database`, `kafka`, `listen`, `arm`, `notify`), `run`, a flush (`write`, `file`, `succeeded`, `failed`), `decide`/`publish`, `cleanup`, `close` |
| `pc["timer"]` | `flush_loop` |
| `decision`, `then` | `_refresh_readiness` computes and then sets the gauge: two steps, and where the thread goes on |
| `handler` | `_signal_handler`, which Python runs in the main thread between any two of its steps; the main thread waits (`CanStep`) |
| `lock` | `_processing_lock`; the handler does not take it |
| `dbGauge`, `readyGauge`, `listening`, `notified` | `DB_AVAILABLE`, `READY`, the HTTP server, the last `sd_notify` |
| `Response` | `/health/live` and `/health/ready` |
| `dbUp` | environment: PostgreSQL accepts connections |

`GaugeFollows` relates the gauge to the answer of the endpoint at every moment
when no thread is in between (`AtRest`: the timer asleep, the handler done or
not called, the main thread at a point behind its last refresh, `Published`);
`Recovers` is a leads-to property: a consumer
whose flush failed gets ready again without traffic, by the timer.

`FairSpec` has weak fairness for the threads, for the constructor's steps and
for `DatabaseReturns`: threads are scheduled, and the property is about outages
that end. Messages, signals and starts are not fair. Weak fairness is enough
where `ASHConsumer` needs strong: the timer is fair as long as the main thread
waits for the next message, which leaves the lock free.

Bounds (`health`): batch of 2, two attempts in each of the three retry loops,
two events, three faults of all six kinds, two starts. Two events are one that
waits for the timer and one that fills the batch; three faults are an outage, a
signal in it and one more failure. `CHECK_DEADLOCK FALSE`: a process that has
exited and is not started again is done.

Findings:

* **The gauge can stay at 1 after a signal** (line 577, `bug_ready_gauge.cfg`,
  `GaugeIsReadiness`): the handler publishes 0 between the decision and the
  publication of the thread it interrupts, or of the timer, which then publish
  1.
* **An idle consumer stays unready** (`bug_idle_unready.cfg`, `IdleIsReady`): if
  PostgreSQL comes up after `_setup_database` gave up, nothing reconnects before
  the first flush.

Left out: counters and histograms, which count steps of the model and decide
nothing.

## 7. ASHAlerting

The engine inside the message loop: one look at a rule, one trigger, one action
or one webhook per step, with a clock that moves in between. Around it is what
decides whether an event comes to it, and what becomes of the event: the cache
of ids with its eviction, the batch, and the commit at the end of an iteration.

| Model | Code |
|---|---|
| `LoadedCustom`, `Rules` | `_load_rules`: one `try` around the whole loop, so that a malformed rule drops those after it and keeps those before it |
| `lastTriggered`, `Cooling` | `AlertRule.last_triggered`, `matches`, each rule with its `cooldown_seconds`; `Never` is `None` |
| `CheckRule`, `Trigger` | `matches` reads the clock, `check_event` reads it again when it notes the trigger: two steps |
| `ruleAt`, `actionAt`, `hookAt` | the loops of `check_event`, of the actions and of `_send_webhook` |
| `BuildMessage`, `MessageRaises` | the message is built outside of the `try`; a severity without `upper()` raises |
| `matched`, `RiskScore` | the rules that fired; `_process_message` writes the highest of their scores onto the event |
| `seen`, `Cached` | `_deduplicate`: past the limit, half of the ids go, in no order that Python defines |
| `BufferEvent`, `FlushBatch` | the append, and the flush when the batch is full, or by the timer between two messages |
| `commitPending`, `CommitPosition` | the end of an iteration of `run`: `commit()` stores the position, which may be past lines that are only in the buffer |
| `failed` | the exception reaches the handler in `_process_message`, which counts and logs |
| `raised`, `attempted`, `lost` | for the properties: all alerts with the examination they come from (`life`, `place`), the posts that were tried, the events a kill found in the batch |

An event may be *examined* several times: by a new process, or in the same one
when its id was evicted before it came again. `ScoreHasAlert` therefore speaks
of one examination: the score in the table is that of an alert for the event,
and the highest of the examination that alert comes from. `EventsGetThrough` is
what alerting owes to the record: whatever webhooks do, an event that was read
gets into the batch. It says nothing of the offset; the commit passes lines in
the buffer here as it does in `ASHConsumer` (`bug_commit`).

Bounds (`alerting`): three events, one of them twice in the topic, and a cache
of two, so that the second comes as a duplicate, or after an eviction, or from a
restart; a batch of two; two default rules with cooldowns of 1 and 2 and three
custom ones, of which the second is malformed and the third therefore not
loaded; two webhooks, so that one can fail before the other; a clock of 0 to 2;
two faults out of failed posts, flushes and commits and restarts. Lines that are
malformed are `ASHConsumer`'s. `CHECK_DEADLOCK FALSE`: the topic ends.

Findings:

* **An event whose alert raises is lost** (line 1182 of `ash-consumer.py`,
  `bug_alert_raises.cfg`, `NothingIsLost`): its id is remembered before the
  engine runs, and it reaches neither the buffer nor the dead letters, without
  any other fault. `EventsGetThrough` says which events do not get through:
  these, and those a kill takes with the batch.
* **An event is stored without its score after a replay** (line 52,
  `bug_replay_score.cfg`, `AlertedIsScored`): an event that alerted is lost with
  the buffer; in the replay, which is faster than the events were, an earlier
  event takes the rule's trigger and this one finds the rule cooling.
  `ScoreHasAlert`, the other direction, holds.

Left out: what a pattern matches (`Matches` is any relation), the text of an
alert, regular expressions that do not compile (they are malformed rules), and a
clock that is set back (cooldowns are differences of `datetime.now()`).

## 8. ASHApi

gunicorn's master, its sync workers, and a request in a worker, which can be
killed between any two steps of it.

| Model | Code in `src/consumer/api_server.py` and `gunicorn.conf.py` |
|---|---|
| `alive`, `dead`, `used` | workers, those that exited and are not reaped, process ids given out |
| `step` | `observe` (`_start_request_observation`), `limit` (the decorator of `create_token`, inside the view), `handle`, `execute` (between `get_db` and `close`), `respond` (`_log_request`), `teardown` (`_finish_request_observation`) |
| `status` | of the response: what the handler returned, or an error handler |
| `counted`, `span`, `connections` | `g.inflight_counted`, the request's span, open connections |
| `health`, `transitions` | `_last_database_health`, and the lines it makes the worker log |
| `hits`, `windowEnd`, `admitted` | the limiter's fixed window of each client address (`key_func=get_remote_address`) in the memory of a worker; what it has let in, for the property |
| `inflightFile`, `databaseFile`, `requestsFile` | the files of a process id in `PROMETHEUS_MULTIPROC_DIR`; their sum, maximum and sum are what a scrape shows |
| `Spawn`, `Kill`, `ChildExit`, `Boot` | the fork, a death, `child_exit`, `on_starting` in a new container, which removes all files |

`InflightExact`, `CountersSurvive`, `LogTellsHealth` and
`OutageIsHiddenByTheDead` are the four parts of `SignalsAreExact`: each relates
files that outlive a worker to what the workers do. A request the limiter
refuses is in flight like any other: the hook that counts it runs before the
view, and the limit is checked in the view. `AttemptsBounded` says how far the
limit on one address is from the documented 5 per minute; there is no limit on
all addresses together, in the code or in the model.

Bounds (`api`): two workers and three process ids, so that one worker can be
replaced while the other serves; requests for tokens, queries, readiness and
metrics (`live` and `unmatched` do what `metrics` does, with fewer statuses),
three in all; two addresses, which are symmetric, as an address is only ever the
key of a count; two faults out of kill, restart of the container and outage; a
limit of 1 in a window of 2 over three ticks, the smallest in which a period
covers two fixed windows. `CHECK_DEADLOCK FALSE`: requests run out.

`on_starting` ignores an `OSError` of `unlink()`. A file that is gone already is
what `RemoveFiles` says; one that cannot be removed would need a directory
without write access, in which no worker could open its own files.

Finding: **the database gauge of a dead worker hides an outage** (line 159,
`bug_api_gauge.cfg`, `OutageIsShown`): `mark_process_dead` removes the files of
`live` gauges only, and this one is a `max`. `OutageIsHiddenByTheDead` is what
is true.

Flask, flask-limiter, prometheus_client and gunicorn are modelled from how the
code uses them. Checks of tokens, roles and arguments are among the statuses a
request may end with.

## 9. ASHQuery

What the endpoints read while batches are inserted and the retention deletes.
Every statement has a snapshot of its own (READ COMMITTED).

| Model | Code in `src/consumer/api_server.py` |
|---|---|
| `rows` | every event `command_logs` ever got; its place in the sequence is its `id` |
| `expired`, `Stored` | the events the retention has deleted; the others, which a query sees |
| `sessions` | the session rows |
| `Newer`, `Tops`, `Part`, `Pages` | `ORDER BY log_timestamp DESC`, `LIMIT` and `OFFSET`: the sets of rows that may be the first `n`, and the pages that follow. Rows of one instant may come in any order, and in another one for the next page |
| `Search`, `CountTotal`, `NextPage`, `SearchDone` | `search_events`: the page, the `COUNT(*)` after it, and a client that goes on by `offset` |
| `ReadSession`, `ReadEvents`, `ReplayDone` | `get_session` and its second statement |
| `ChainIds`, `Follows`, `IsFirst`, `Linked`, `Verify` | `verify_integrity`: the rows of a host by `id`, each compared with the one before it |

The endpoints write nothing, so that only the client's progress is state;
`collected`, `visible` and `sinceFetch` are for the properties: what the client
has got, what was there all the time since it began, and what went between the
page and the count of the same request, which are two statements. `Signed` is
the chain an event ends, by its `prev_hash` alone.

Bounds (`query_reads`): five events, three of them a session in a chain, two of
one instant on two hosts; a filter with the tie and one without; batches of at
most two in any order; pages of two, so that a search takes up to three; six
ticks with retention after two; one search or replay. One client is enough, as
clients share nothing. A row may be inserted before or after its timestamp, as
the clocks of hosts differ. `CHECK_DEADLOCK FALSE`: the events run out.

`PagesAreSound` has two parts. `TotalCovers`, that a total is not too small for
its page, holds with ties. `NothingSkipped` says that a client that pages to the
end has got every row that was there all the time, *provided that no two rows of
its query have one timestamp* (`Untied`). Nothing in the system provides that.

Findings:

* **Paging skips rows of one instant** (line 562, `bug_tied_pages.cfg`,
  `PagesMissNothing`): `ORDER BY log_timestamp` has no second key and the column
  no unique constraint; agents stamp with milliseconds, or with seconds
  (`ash-agent.sh`, line 554), and all hosts share the table. PostgreSQL may put
  tied rows in one order for one page and in another for the next, and the
  client gets one of them twice and the other not at all.
* **`verify_integrity` fails for a chain nobody touched** (lines 836-852,
  `UntamperedPasses`), in two ways: `bug_late_row.cfg`, an event that arrives
  after its successor (see `TopicInChainOrder`), and `bug_retained_tail.cfg`,
  the beginning of a chain that the retention has deleted. `PassMeansPrefix` is
  what is true: a PASS is right.

Left out: the lists and statistics, each a statement of its own with no claim
between them; `/alerts`, which reads a table that no code fills.

## 10. ASHTelemetry

The context of each thread and its slot in the id generator, as
`ash-consumer.py` and `api_server.py` nest the spans of `ash_tracing.py`.

| Model | Code in `src/consumer/ash_tracing.py` |
|---|---|
| `stack[t]` | the `with` blocks (or hooks of a request) the thread is inside of; the innermost one's step is `start`, `clear`, `attach`, its body, `detach`, `end` |
| `current[t]`, `slot[t]` | the current span in the thread's context; the thread-local ids of `ForcedIdGenerator` |
| `spans`, `ends`, `links` | what the SDK was asked for: each span with its ids, parents and flag; how often it was ended; the links of flush spans |
| `Forced`, `Clear` | `start_agent_span` around `start_span`, with its `finally` |
| `ParentKept`, `Ratio` | the sampled flag of a reconstructed parent, and `TraceIdRatioBased` |
| `FaultKind` | a call of the SDK raises in `start`, `attach` or `detach`, where the code catches that. A failing `span.end()` (lines 305-311) and a failing `links_for_events` (lines 710-715) are caught as well and not modelled |

Bounds (`telemetry`): a command's start and end in one trace that the ratio
drops, and an event whose trace id is invalid; three jobs (messages, timer
flushes, requests) of which one may meet a fault. Three jobs are one that goes
wrong, one that could inherit its leavings and one more. Jobs do not overlap:
consumer threads run under `_processing_lock`, and a worker of the API shares
nothing with them. `CHECK_DEADLOCK FALSE`: the jobs run out.

A redelivered event makes a second span with the same ids as the first; the code
says nothing of this, and the properties allow it. `TraceIsSampledAsOne` is
about traces of agents and of the consumer; the flag in a trace of a client is
the client's. Left out: attributes,
exporters, their queues and their shutdown, validation of the endpoint, and the
export of logs, all of which are the SDK's.

### Runs of sections 5 to 10

| Run | Property | What could break it (the mutant that does) |
|---|---|---|
| `store_rows` | `TypeOK` | a client that forgets a transaction without rolling it back (`RollbackForgotten`) |
| | `AckedIsKept` | a row-by-row retry that ends one row early (`LastRowForgotten`) |
| | `SessionsClose` | `ON CONFLICT DO UPDATE` for a replayed start (`SessionReopened`) |
| | `DeletesAreDue` | deleting by the archive's cutoff (`DueForArchive`) |
| `health` | `TypeOK` | a batch put back twice (`PutBackTwice`) |
| | `GaugeFollows` | a gauge refreshed after failures only (`SuccessNotPublished`) |
| | `Recovers` | a failed batch that is dropped, so that nothing is retried (`BatchDropped`) |
| `alerting` | `AlertsAreSpaced` | a trigger that is not noted (`TriggerForgotten`) |
| | `ScoreHasAlert` | the score of the first rule instead of the highest (`FirstScore`) |
| | `EveryHookIsTried` | a failed post that ends the loop (`PostsUntilFailure`) |
| | `EventsGetThrough` | an exception of a post that is not caught in the loop over the URLs (`PostEscapes`) |
| `api` | `SignalsAreExact` | a `child_exit` that does not mark the files of the dead (`NotMarked`) |
| | `IdleIsClean` | an exception that skips `close()` (`ClosedIfFine`) |
| | `AttemptsBounded` | a hit that is not counted (`HitForgotten`) |
| `query_reads` | `TypeOK` | one row more than the limit (`PagesInclusive`) |
| | `PagesAreSound` | oldest first, where the retention shifts the pages (`Older`) |
| | `ReplayShowsEnd` | events later than the session row left out (`OnlyOpen`) |
| | `PassMeansPrefix` | the first row taken for the beginning (`AnyStart`) |
| `telemetry` | `AgentIdsAreExact` | a trace id that stays forced (`StillForced`) |
| | `TraceIsSampledAsOne` | a parent always said to be sampled (`AlwaysKept`) |
| | `StaysInItsTrace` | inner spans that are roots, too (`NoContext`) |
| | `NothingLeaks` | a detach that leaves the span's context (`NotRestored`) |

## 11. Proofs

Every safety invariant, action property and refinement of the runs is proved by
TLAPS as well, for every value of the constants that the named `ASSUME` of its
module allows: any events, sizes, limits, sets of faults and bounds. TLC showed
each of them on its instance first. What the proofs add is above all that no
interesting case hides behind a bound.

A proof module has the name of the module it is about. In each, an inductive
invariant (`IInv`, or one per property where properties have little in common)
is shown to hold initially and to survive each action; a property follows from
it. Five theorems have a premise, which is stated with them; conditions that are
part of a property are stated with it (`Untied` in section 9).

What stays with TLC is what needs fairness or `ENABLED`, which the prover does
not handle: `StopsAtNextLine`, `EventuallySettled`, `EmitBlocksOnStuckOnly`,
`SpoolDrains`, `Recovers`, `ExpiredRowsGo` and the temporal properties of the
findings.

### ASHConsumer_proofs

| Theorem | Statement |
|---|---|
| `Invariance` | `Spec => []IInv`, from which the next six follow |
| `TypeCorrect` | `Spec => []TypeOK` |
| `FlushIsSerialised` | `Spec => []FlushSerialised` |
| `DuplicatesAreCovered` | `Spec => []DuplicateIsCovered` |
| `NoLineVanishes` | `Spec => []NothingVanishes` |
| `DatabaseComesFirst` | `Spec => []FilesFollowDatabase` |
| `ContractIsImplemented` | `Spec => ImplementsContract` |
| `ReadinessIsHonest` | `Spec => []ReadinessHonest` |
| `ExposureIsBounded` | `Spec => []ExposureBounded`, if `LinesAreKept` |
| `LinesAreWrittenOnce` | `Spec => []NoDuplicateLines`, if `CacheIsKept` |
| `OrderIsKept` | `Spec => []FilesInOrder`, if `CacheIsKept` |

They assume what `ASHConsumer` assumes of its constants (`PayloadAssumption`,
`ConfigAssumption`, `FaultAssumption`) and, for the last three, which faults do
not occur:

* `LinesAreKept`: the process stays up (no crash, signal or exception of the
  loop) and the dead-letter file can be written. A crash takes up to a batch
  with it that is committed, on top of the one the property allows, and a stop
  or a failed dead letter loses a line for good: `bug_stop.cfg`. PostgreSQL,
  files, commits and the assignment may fail at any time.
* `CacheIsKept`: the process stays up and keeps its assignment, the cache has
  room for all ids (`Cardinality(Payload) <= MaxSeenIds`), and no append to a
  file fails half way. PostgreSQL, the dead letters and commits may fail.
  Without this premise the code does write a line twice: deliveries are at least
  once and only the cache tells them apart.

`IInv` is `TypeOK /\ LockDiscipline /\ RecordInv`. None of the safety invariants
is inductive alone:

* `LockDiscipline` says who may hold the lock at which point of which thread,
  that a thread outside a flush has no batch, and that the buffer is empty
  during a flush. `FlushSerialised` is a part of it; without the rest, a thread
  in `commit` could be thought to run without the lock.
* `RecordInv` relates memory to the record. `NothingVanishes` needs
  `DuplicateIsCovered` (a line dropped as a duplicate is covered because its id
  is), which needs to know that whatever is in a buffer is a valid line
  (`HeldIsValid`) and that at the file stage the whole batch has been through
  the database (`DatabaseFirst`): only then does the append put the batch on
  record. `FilesFollowDatabase` needs `DatabaseFirst` too.

The steps that do not touch memory or storage are dealt with once (`QuietStep`);
the steps of a flush by three facts proved per stage (`FlushStores`: the record
only grows; `FlushOutcome`: the batch is put back whole or on record;
`FlushKeeps`: nothing else is touched).

The others build on `IInv`. `ReadyInv` adds that a flush under way has a batch.
`ExposureInv` adds that less than a batch of what is committed is unrecorded
unless the last flush failed: a line is buffered and committed in one iteration
only while the buffer is short of a batch. `TrailInv` puts the files and the
lines on their way to them into one sequence (`Trail`), which each step extends
at the end, or cuts in two in another place: its lines are in the cache, in the
order of the partition, none twice.

### ASHAgent_proofs

| Theorem | Statement |
|---|---|
| `TypeCorrect` | `Spec => []TypeOK`, of which `LockOK` is the part with content: the lock belongs to exactly the process between `flock -x` and `flock -u`, or stuck there |
| `LogIsSigned` | `Spec => ImplementsSignedLog`, if the append to the hash file does not fail (`"hash" \notin Faults`) |
| `LossesAreSeen` | `Spec => []LossIsVisible` |
| `LinksBreakByFaults` | `Spec => []BreaksAreFaults` |

The assumptions are those of `ASHAgent` (`ProcessAssumption`, with finitely many
emitters, `SettingAssumption`, `BoundAssumption`). The premise on the hash file
is needed: after a failed append, which nobody notices, the next event is linked
to the same predecessor; `LinksBreakByFaults` has no premise and says that the
damage is one broken link.

`TypeOK` is not inductive: that an append is of an event needs `Places` (whoever
is past the lock has an event, and only emitters get there), and that an event
number is left for whoever gets the lock needs `Room`, which counts the waiting
processes. `LogIsSigned` needs `ChainInv`: the event being signed is not in the
hash file yet and is linked to its tail; the event being logged is the tail;
the log is a part of the hash file. `Exclusion` turns `LockOK` into "nobody
else is in the section", and `QuietSteps` deals at once with every step that
neither signs nor logs. Only two kinds of step are not stutters of `SignedLog`:
`AppendLog`, and whatever cuts a process off between its two appends.

The other two are counts. `LossInv`: each line of the topic that is no event
pays for one file, which was removed or is about to be. `LinkInv`: a fault pays
for each broken link, and for the one that the next log line will break because
hash file and log end differently; between the two appends of an event up to two
may be due.

### ASHStore_proofs

| Theorem | Statement |
|---|---|
| `StoreTypeCorrect` | `Spec => []TypeOK` |
| `AckedRowsAreKept` | `Spec => []AckedIsKept` |
| `SessionsAreClosed` | `Spec => []SessionsClose` |
| `DeletedRowsWereDue` | `ArchiveComesFirst /\ Spec /\ []LimitSuffices => DeletesAreDue` |

The assumption is `StoreAssumption`. `ArchiveComesFirst` says that
`archive_days` is at most `retention_days`, `LimitSuffices` that one archive
query takes all that is due; the code checks neither, and
`bug_archive_days.cfg` and `bug_archive_limit.cfg` show what happens otherwise.

`IInv` is `TypeOK /\ Place /\ RecordInv`. What is acknowledged is compared with
the committed tables, a statement changes those the transaction sees, and two
threads put statements into one transaction. The parts of `RecordInv` connect
them: the transaction only adds to what is committed, up to expired rows
(`Reaches`); each statement done has left its rows there (`Begun`); the rows the
retry has done are settled (`DoneAreSettled`). `QueueInv` says that events are
settled in the order in which they came, so that a session's start is done when
its end is. `DeletesAreDue` needs `ArchiveInv` instead: before the retention
deletes, what is expired has been archived or is among the rows it picked.

### ASHHealth_proofs

| Theorem | Statement |
|---|---|
| `HealthTypeCorrect` | `Spec => []TypeOK` |
| `GaugeShowsReadiness` | `Spec => []GaugeFollows` |

The assumption is `HealthAssumption`. `IInv` is
`TypeOK /\ ControlInv /\ DecisionInv /\ RestInv`. The gauge is right when a
thread has published a decision that was right (`DecisionInv`), which it was
because only the thread with the lock changes what readiness depends on
(`MutexInv`); the signal handler breaks this rule, but sets `stopping` first
(`SignalInv`). What a process leaves when it ends is gone before the next one
decides (`DownInv`).

### ASHAlerting_proofs

| Theorem | Statement |
|---|---|
| `AlertsKeepTheirDistance` | `Spec => []AlertsAreSpaced` |
| `AlertsCostNoEvent` | `Spec => []EventsGetThrough` |
| `ScoresAreBacked` | `Spec => []ScoreHasAlert` |
| `AllHooksAreTried` | `Spec => []EveryHookIsTried` |

The assumption is `AlertingAssumption`. `AlertsAreSpaced` compares alerts with
each other, a look at a rule compares the clock with `lastTriggered`, and the
trigger reads the clock again. `Spacing` closes both gaps: `lastTriggered` is no
older than any alert of this life (`Remembered`), and a rule found rested is
still rested when it triggers (`Rested`). `Delivery` strengthens
`EventsGetThrough`: each id the cache knows belongs to an event that is kept, so
that a duplicate may be dropped; and what is behind the committed offset is
kept without the engine, so that a restart in the middle of an event loses
nothing more. `ScoreInv` says that a score in the batch or in the table belongs
to an examination that is over (`Backed`, `Over`): an alert raised later has
another place or another life, whether or not the cache has forgotten the event.
`HookInv` follows the three loops: each action the process has passed has made
its posts. `Types` is the part of `TypeOK` they need.

### ASHApi_proofs

| Theorem | Statement |
|---|---|
| `ApiTypeCorrect` | `Spec => []TypeOK` |
| `NothingStaysOpen` | `Spec => []IdleIsClean` |
| `ChangesAreLogged` | `Spec => []LogTellsHealth`, a part of `SignalsAreExact` |
| `SignalsAreTrue` | `Spec => []SignalsAreExact` |
| `GuessesAreLimited` | `Spec => []AttemptsBounded` |

The assumption is `ApiAssumption`. That a file holds a number again after
`Release` needs to know that the worker has added one before: `Workplace` ties
what is open to the step a worker is at (`Holds`), says that the files of a
living worker are open and that one which is not alive has nothing in hand.
`IInv` is `TypeOK /\ Workplace`. `RequestIsLocal` shows that a step of a request
changes the row of its own worker only, so that `RequestHolds` can look at one
worker. `LogStep` needs `NextLine`: a log that alternates goes on alternating.

The other two theorems are about sums, over metric files and over time. The
library defines a sum by choosing the elements in some order; that the order
does not matter (`AnyOrder`), and from it the laws of sums (`TotalWithout`,
`TotalUnion`, `TotalChange` and others), are proved by induction over finite
sets, each time from a smallest exception. `SignalInv` then says what each step
of a request has told the metrics (`Told`) and that the files add up to the
responses (`Counted`). `AttemptInv` says of each address: what was let in at
each time divides among the workers (`Ledger`), and each share obeys its own
limit (`Within`): a window begins with a
hit, so that a period covers at most the end of one window and the next one, and
what it covers of the first is less than the limit, since the first of its hits
is outside or the period ends with it.

### ASHTelemetry_proofs

| Theorem | Statement |
|---|---|
| `EventSpansAreExact` | `Spec => []AgentIdsAreExact` |
| `TracesAreSampledAsOne` | `Spec => []TraceIsSampledAsOne` |
| `WorkStaysInItsTrace` | `Spec => []StaysInItsTrace` |
| `NothingIsLeaked` | `Spec => []NothingLeaks` |

The assumption is `TelemetryAssumption`. They share one `IInv`: what the `with`
blocks a thread is inside of know of their spans and how they nest
(`HandleInvs`); that a thread outside of all attached ones has no current span
(`ContextInv`); whose child the next span will be (`ParentInv`); that ids are
forced only around the start of an event's span (`SlotInv`, `ForceInv`); that
each span so far is sampled as its trace is (`SampledInv`); and what one failure
of the SDK can have caused (`BlameInv`), which `StaysInItsTrace` distinguishes.

### ASHQuery_proofs

| Theorem | Statement |
|---|---|
| `QueryTypeCorrect` | `Spec => []TypeOK` |
| `PagingIsSound` | `Spec => []PagesAreSound` |
| `ReplaysShowTheEnd` | `Spec => []ReplayShowsEnd` |
| `PassIsSound` | `Spec => []PassMeansPrefix` |

The assumption is `QueryAssumption`. What a page can be comes first. `Rank`
counts the rows newer than a row. A page never has more rows than its limit
(`PageBound`); without ties the first `n` rows are those of ranks below `n`
(`TopsRank`), so that a page that leaves out a row at or behind its offset is
full and before that row (`PageSkips`). An insert only pushes a row towards
later pages, and what the retention deletes is older than what it leaves; so a
row that was there all the time and is before the client's offset has been shown
(`BehindInv`, `LastInv`). `CountInv` covers the time between the page and its
count, `SessionInv` that between the two statements of a replay.
`PassMeansPrefix` needs no more than `TypeOK`: in a table that passes, each row
leads to the one before it and the first to the genesis hash, so that the
smallest row that is not on the chain of row `i`, or that leads out of what is
stored, cannot exist.

## 12. What is not modelled

* Of the agent, the state files: `save_state`, `recover_state`, the watchdog and
  what `cleanup_ash` removes. They are the next module of the plan.
* The capture hooks, redaction and the shell integrations, which decide what an
  event says; installation, deployment and release scripts.
* Export of spans and logs: queues and threads of the OpenTelemetry SDK, with no
  way back into the pipeline.
* In the SDK, a `span.end()` or the making of links that fails (section 10).
* A clock of the consumer that is set back (section 7).
* Of the API, the lists, the statistics and `/alerts` (section 9), and what
  tokens say.
* Within the consumer: several partitions (each has its own position; the shared
  buffer would behave as it does here), the time a batch has waited (the timer
  may flush any non-empty buffer, a superset of what `batch_timeout` allows),
  and in `ASHConsumer` the retries inside one attempt to reach PostgreSQL (they
  end in one of the outcomes of `DatabaseUnreachable` or in success; `ASHStore`
  and `ASHHealth` have them).
