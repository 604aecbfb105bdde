------------------------------ MODULE ASHAgent ------------------------------
(***************************************************************************)
(* One host of the ASH monitoring system (src/src/agent/ash-agent.sh): the *)
(* processes that call emit_event(), the hash chain and the event log they *)
(* share, the spool directory, and the processes that flush it to Kafka.   *)
(*                                                                         *)
(* Shells are bash processes with the agent's traps and with set -e.       *)
(* Watchers are its background loops (inotify, docker, auditd): subshells, *)
(* in which bash resets the EXIT and SIGTERM traps.  Flushers are the      *)
(* loops of spool_flush_timer(); a shell flushes too when it ends.         *)
(*                                                                         *)
(* Events are numbered in the order in which they get the lock of the      *)
(* chain.  A hash is named by the event it signs, so that a link of the    *)
(* chain is a pair of events: SHA-256 is taken to be injective.            *)
(*                                                                         *)
(* A definition that no other one uses is a faulty variant of the          *)
(* definition that follows it: README.md says which property notices it.   *)
(***************************************************************************)
EXTENDS Integers, FiniteSets, SequencesExt

CONSTANTS
  Shell,         \* bash processes with the agent's traps
  Watcher,       \* background loops that emit events
  Flusher,       \* background loops that flush the spool
  KafkaEnabled,  \* KAFKA_ENABLED
  MaxSpool,      \* ASH_SPOOL_MAX_SIZE, in files
  KeepNewest,    \* how many files a full spool keeps (99 in the code)
  MaxRetries,    \* max_retries of send_to_kafka_raw()
  Faults,        \* the kinds of fault the environment may inject
  MaxFaults,     \* bound on the number of faults in a behaviour
  MaxEvents,     \* bound on the number of events
  NoProcess      \* the holder of a lock nobody holds

Emitter == Shell \cup Watcher
Process == Emitter \cup Flusher
Event   == 1 .. MaxEvents
Genesis == 0       \* the 64 zeros the chain begins with
NoEvent == -1      \* no event, or no link yet
Blank   == -2      \* the empty line sent for a file without content

FaultKinds == {"kill", "signal", "hash", "log", "spool", "kafka"}

ASSUME ProcessAssumption ==
  /\ Shell \cap Watcher = {}
  /\ Emitter \cap Flusher = {}
  /\ IsFiniteSet(Emitter)
  /\ NoProcess \notin Process
ASSUME SettingAssumption ==
  /\ KafkaEnabled \in BOOLEAN
  /\ MaxSpool \in Nat
  /\ KeepNewest \in Nat \ {0}
  /\ MaxRetries \in Nat \ {0}
ASSUME BoundAssumption ==
  /\ Faults \subseteq FaultKinds
  /\ MaxFaults \in Nat
  /\ MaxEvents \in Nat

VARIABLES
  emitted,  \* number of events that have got the lock
  pc,       \* where each process is
  current,  \* the event a process is emitting, once it has the lock, or whose
            \* spool file it is sending
  rounds,   \* runs of cleanup_ash() a shell still has ahead of it
  lock,     \* the holder of ${ASH_HASH_FILE}.lock
  hashes,   \* the hash file without its first line
  prev,     \* prev_hash of each event
  log,      \* events.jsonl
  stamps,   \* the names of spool files, in the order of their time stamps
  file,     \* what is in pending/ for each event
  todo,     \* the files spool_flush() has listed and not yet come to
  data,     \* the line spool_flush() has read
  tries,    \* retry in send_to_kafka_raw()
  topic,    \* what this host has sent to Kafka
  trimmed,  \* history: events a full spool has dropped
  faults    \* number of faults injected so far

chainVars == <<lock, hashes, prev, log>>
spoolVars == <<stamps, file, trimmed>>
flushVars == <<todo, data, tries, topic>>
vars == <<emitted, pc, current, rounds, chainVars, spoolVars, flushVars,
          faults>>

EmitPc  == {"wait", "read", "sign", "log", "unlock",
            "stamp", "create", "fill", "trim"}
FlushPc == {"glob", "next", "cat", "send", "move"}
\* "stuck": waiting for a lock that the process itself holds.
Pc == EmitPc \cup FlushPc \cup {"idle", "stuck", "gone"}

\* tail -1 of the hash file.
FirstHash == IF hashes = <<>> THEN Genesis ELSE Head(hashes)

Tip == IF hashes = <<>> THEN Genesis ELSE Last(hashes)

\* The commands between flock -x and flock -u in emit_event().
Critical == {"read", "sign", "log", "unlock"}

Init ==
  /\ emitted = 0
  /\ pc = [p \in Process |-> IF p \in Flusher THEN "glob" ELSE "idle"]
  /\ current = [p \in Process |-> NoEvent]
  /\ rounds = [p \in Process |-> 0]
  /\ lock = NoProcess
  /\ hashes = <<>>
  /\ prev = [e \in Event |-> NoEvent]
  /\ log = <<>>
  /\ stamps = <<>>
  /\ file = [e \in Event |-> "none"]
  /\ todo = [p \in Process |-> {}]
  /\ data = [p \in Process |-> NoEvent]
  /\ tries = [p \in Process |-> 0]
  /\ topic = <<>>
  /\ trimmed = {}
  /\ faults = 0

-----------------------------------------------------------------------------
Fault(kind) ==
  /\ kind \in Faults
  /\ faults < MaxFaults
  /\ faults' = faults + 1

NoFault == UNCHANGED faults

Goto(p, place) == pc' = [pc EXCEPT ![p] = place]

\* p leaves the critical section; the kernel does this when a process dies.
Release(p) == lock' = IF lock = p THEN NoProcess ELSE lock

\* p has done with its event; local variables go out of scope.
Done(p) == current' = [current EXCEPT ![p] = NoEvent]

\* p's emit_event() has returned.  In cleanup_ash() a flush follows.
Returned(p) == /\ Goto(p, IF rounds[p] > 0 THEN "glob" ELSE "idle")
               /\ Done(p)

(***************************************************************************)
(* A command of p's emit_event() fails.  Inside cleanup_ash() the call is  *)
(* followed by || true, which turns set -e off: p goes on at place.        *)
(* Otherwise set -e ends the process.  A watcher is gone.  A shell runs    *)
(* its EXIT trap, whose own emit_event() opens the lock file once more and *)
(* waits for ever if p still holds the lock.                               *)
(***************************************************************************)
Failed(p, place) ==
  \/ /\ rounds[p] > 0
     /\ Goto(p, place)
     /\ IF place = "glob" THEN Done(p) ELSE UNCHANGED current
     /\ UNCHANGED <<rounds, lock>>
  \/ /\ rounds[p] = 0
     /\ p \in Watcher
     /\ Goto(p, "gone")
     /\ Done(p)
     /\ Release(p)
     /\ UNCHANGED rounds
  \/ /\ rounds[p] = 0
     /\ p \in Shell
     /\ Goto(p, IF lock = p THEN "stuck" ELSE "idle")
     /\ Done(p)
     /\ rounds' = [rounds EXCEPT ![p] = 1]
     /\ UNCHANGED lock

-----------------------------------------------------------------------------
(* emit_event() *)

\* WHO: an emitter.  A hook, a watched file, or a session that starts or
\* ends calls emit_event(), which builds the event and opens the lock file.
Waiting == {p \in Emitter : pc[p] = "wait"}

Begin(p) ==
  /\ p \in Emitter
  /\ pc[p] = "idle"
  /\ emitted + Cardinality(Waiting) < MaxEvents
  /\ Goto(p, "wait")
  /\ NoFault
  /\ UNCHANGED <<emitted, current, rounds, chainVars, spoolVars, flushVars>>

\* flock -x
LockIgnored == TRUE

LockIsFree == lock = NoProcess

Lock(p) ==
  /\ pc[p] = "wait"
  /\ LockIsFree
  /\ lock' = p
  /\ emitted' = emitted + 1
  /\ current' = [current EXCEPT ![p] = emitted + 1]
  /\ Goto(p, "read")
  /\ NoFault
  /\ UNCHANGED <<rounds, hashes, prev, log, spoolVars, flushVars>>

\* _hash_chain_append_unlocked(): the event is linked to the last hash.
ReadTail(p) ==
  /\ pc[p] = "read"
  /\ prev' = [prev EXCEPT ![current[p]] = Tip]
  /\ Goto(p, "sign")
  /\ NoFault
  /\ UNCHANGED <<emitted, current, rounds, lock, hashes, log, spoolVars,
                 flushVars>>

(***************************************************************************)
(* _hash_chain_append_unlocked(): the new hash is appended.  If that fails *)
(* nobody notices: command substitutions do not inherit set -e, and the    *)
(* last command is the echo of the signed event.                           *)
(***************************************************************************)
AppendHash(p) ==
  /\ pc[p] = "sign"
  /\ \/ hashes' = Append(hashes, current[p]) /\ NoFault
     \/ hashes' = hashes /\ Fault("hash")
  /\ Goto(p, "log")
  /\ UNCHANGED <<emitted, current, rounds, lock, prev, log, spoolVars,
                 flushVars>>

\* safe_log_write(): its own append, or the fallback, succeeds.
AppendLog(p) ==
  /\ pc[p] = "log"
  /\ log' = Append(log, current[p])
  /\ Goto(p, "unlock")
  /\ NoFault
  /\ UNCHANGED <<emitted, current, rounds, lock, hashes, prev, spoolVars,
                 flushVars>>

\* safe_log_write() returns 1.
LogFails(p) ==
  /\ pc[p] = "log"
  /\ Fault("log")
  /\ Failed(p, "unlock")
  /\ UNCHANGED <<emitted, hashes, prev, log, spoolVars, flushVars>>

UnlockForgotten(p) == UNCHANGED lock

ReleaseChain(p) == Release(p)

Unlock(p) ==
  /\ pc[p] = "unlock"
  /\ ReleaseChain(p)
  /\ IF KafkaEnabled THEN Goto(p, "stamp") /\ UNCHANGED current
                     ELSE Returned(p)
  /\ NoFault
  /\ UNCHANGED <<emitted, rounds, hashes, prev, log, spoolVars, flushVars>>

-----------------------------------------------------------------------------
(* spool_write() *)

\* The name of the file is fixed: date +%s%N.
Stamp(p) ==
  /\ pc[p] = "stamp"
  /\ stamps' = Append(stamps, current[p])
  /\ Goto(p, "create")
  /\ NoFault
  /\ UNCHANGED <<emitted, current, rounds, chainVars, file, trimmed,
                 flushVars>>

\* The redirection creates the file before printf writes to it.
Create(p) ==
  /\ pc[p] = "create"
  /\ file' = [file EXCEPT ![current[p]] = "empty"]
  /\ Goto(p, "fill")
  /\ NoFault
  /\ UNCHANGED <<emitted, current, rounds, chainVars, stamps, trimmed,
                 flushVars>>

\* spool_write() returns 1: the file cannot be created.
SpoolFails(p) ==
  /\ pc[p] = "create"
  /\ Fault("spool")
  /\ Failed(p, "glob")
  /\ UNCHANGED <<emitted, hashes, prev, log, spoolVars, flushVars>>

\* The content arrives, wherever the file has been moved to meanwhile.
Fill(p) ==
  /\ pc[p] = "fill"
  /\ file' = [file EXCEPT ![current[p]] = IF @ = "empty" THEN "full" ELSE @]
  /\ Goto(p, "trim")
  /\ NoFault
  /\ UNCHANGED <<emitted, current, rounds, chainVars, stamps, trimmed,
                 flushVars>>

(***************************************************************************)
(* A spool over its limit is cut down to its newest files.  ls -t goes by  *)
(* the time of modification, which the model leaves open.                  *)
(***************************************************************************)
Pending == {e \in Event : file[e] \in {"empty", "full"}}

Trim(p) ==
  /\ pc[p] = "trim"
  /\ IF Cardinality(Pending) > MaxSpool /\ Cardinality(Pending) > KeepNewest
     THEN \E kept \in SUBSET Pending :
            /\ Cardinality(kept) = KeepNewest
            /\ file' = [e \in Event |-> IF e \in Pending \ kept THEN "gone"
                                                                ELSE file[e]]
            /\ trimmed' = trimmed \cup (Pending \ kept)
     ELSE UNCHANGED <<file, trimmed>>
  /\ Returned(p)
  /\ NoFault
  /\ UNCHANGED <<emitted, rounds, chainVars, stamps, flushVars>>

Emit(p) == \/ Lock(p)
           \/ ReadTail(p)
           \/ AppendHash(p)
           \/ AppendLog(p)
           \/ LogFails(p)
           \/ Unlock(p)
           \/ Stamp(p)
           \/ Create(p)
           \/ SpoolFails(p)
           \/ Fill(p)
           \/ Trim(p)

-----------------------------------------------------------------------------
(* spool_flush() *)

\* The shell lists pending/.
Glob(p) ==
  /\ pc[p] = "glob"
  /\ todo' = [todo EXCEPT ![p] = Pending]
  /\ Goto(p, "next")
  /\ NoFault
  /\ UNCHANGED <<emitted, current, rounds, chainVars, spoolVars, data, tries,
                 topic>>

\* The local variables of p's spool_flush() are those of its next run.
FlushOver(p) == /\ Done(p)
                /\ todo' = [todo EXCEPT ![p] = {}]
                /\ data' = [data EXCEPT ![p] = NoEvent]
                /\ tries' = [tries EXCEPT ![p] = 0]

\* spool_flush() returns: a flusher sleeps, a shell ends or runs
\* cleanup_ash() again.
FlushReturned(p) ==
  /\ FlushOver(p)
  /\ rounds' = [rounds EXCEPT ![p] = IF @ > 0 THEN @ - 1 ELSE @]
  /\ Goto(p, IF p \in Flusher THEN "glob"
             ELSE IF rounds[p] = 1 THEN "gone" ELSE "idle")

\* A list of files is in the order of their names.
Older(e, f) == \E i, j \in DOMAIN stamps : /\ i < j
                                           /\ stamps[i] = e
                                           /\ stamps[j] = f

\* [[ -f ]] for the next file of the list.
NextFile(p) ==
  /\ pc[p] = "next"
  /\ \/ todo[p] = {} /\ FlushReturned(p)
     \/ \E e \in todo[p] :
          /\ \A f \in todo[p] \ {e} : Older(e, f)
          /\ todo' = [todo EXCEPT ![p] = @ \ {e}]
          /\ IF e \in Pending
             THEN Goto(p, "cat") /\ current' = [current EXCEPT ![p] = e]
             ELSE UNCHANGED <<pc, current>>
          /\ UNCHANGED <<rounds, data, tries>>
  /\ NoFault
  /\ UNCHANGED <<emitted, chainVars, spoolVars, topic>>

\* cat: a file that is empty, or gone since the test, reads as no line.
Cat(p) ==
  /\ pc[p] = "cat"
  /\ data' = [data EXCEPT ![p] = IF file[current[p]] = "full" THEN current[p]
                                                              ELSE Blank]
  /\ Goto(p, "send")
  /\ NoFault
  /\ UNCHANGED <<emitted, current, rounds, chainVars, spoolVars, todo, tries,
                 topic>>

\* send_to_kafka_raw(): the producer reports success.
Sent(p) ==
  /\ pc[p] = "send"
  /\ topic' = Append(topic, data[p])
  /\ Goto(p, "move")
  /\ NoFault
  /\ UNCHANGED <<emitted, current, rounds, chainVars, spoolVars, todo, data,
                 tries>>

(***************************************************************************)
(* send_to_kafka_raw(): the producer fails or is cut off by timeout(1).    *)
(* The broker may have the line all the same.  After the last retry the    *)
(* whole flush is given up.                                                *)
(***************************************************************************)
GiveUpAndMove(p) ==
  Goto(p, "move") /\ UNCHANGED <<current, rounds, todo, data, tries>>

GiveUpAndExit(p) == Goto(p, "gone") /\ FlushOver(p) /\ UNCHANGED rounds

GiveUp(p) == FlushReturned(p)

SendFails(p) ==
  /\ pc[p] = "send"
  /\ Fault("kafka")
  /\ topic' \in {topic, Append(topic, data[p])}
  /\ \/ tries[p] + 1 = MaxRetries /\ GiveUp(p)
     \/ /\ tries[p] + 1 < MaxRetries
        /\ tries' = [tries EXCEPT ![p] = @ + 1]
        /\ UNCHANGED <<pc, current, rounds, todo, data>>
  /\ UNCHANGED <<emitted, chainVars, spoolVars>>

\* mv to sent/, or rm.
Move(p) ==
  /\ pc[p] = "move"
  /\ file' = [file EXCEPT ![current[p]] = "gone"]
  /\ Done(p)
  /\ data' = [data EXCEPT ![p] = NoEvent]
  /\ tries' = [tries EXCEPT ![p] = 0]
  /\ Goto(p, "next")
  /\ NoFault
  /\ UNCHANGED <<emitted, rounds, chainVars, stamps, trimmed, todo, topic>>

Flush(p) == \/ Glob(p)
            \/ NextFile(p)
            \/ Cat(p)
            \/ Sent(p)
            \/ SendFails(p)
            \/ Move(p)

-----------------------------------------------------------------------------
(* Ends *)

\* WHO: the user leaves the shell; its EXIT trap runs cleanup_ash().
Leave(p) ==
  /\ p \in Shell
  /\ pc[p] = "idle"
  /\ rounds[p] = 0
  /\ rounds' = [rounds EXCEPT ![p] = 1]
  /\ NoFault
  /\ UNCHANGED <<emitted, pc, current, chainVars, spoolVars, flushVars>>

(***************************************************************************)
(* WHO: SIGTERM or SIGINT reaches a shell.  Between two commands, also of  *)
(* emit_event(), the trap runs cleanup_ash(), and its exit runs it once    *)
(* more.  A shell waiting in flock(1) runs the trap when it has the lock.  *)
(***************************************************************************)
Signal(p) ==
  /\ p \in Shell
  /\ pc[p] \in (EmitPc \ {"wait"}) \cup {"idle"}
  /\ rounds[p] = 0
  /\ Fault("signal")
  /\ rounds' = [rounds EXCEPT ![p] = 2]
  /\ Goto(p, IF pc[p] \in Critical THEN "stuck" ELSE "idle")
  /\ Done(p)
  /\ UNCHANGED <<emitted, chainVars, spoolVars, flushVars>>

(***************************************************************************)
(* WHO: the kernel, or the cleanup_ash() or recover_state() of another     *)
(* session, which kills every process with a .pid file.  A flush timer is  *)
(* started anew by the next session.                                       *)
(***************************************************************************)
Kill(p) ==
  /\ pc[p] # "gone"
  /\ Fault("kill")
  /\ Goto(p, IF p \in Flusher THEN "glob" ELSE "gone")
  /\ Release(p)
  /\ FlushOver(p)
  /\ UNCHANGED <<emitted, rounds, hashes, prev, log, spoolVars, topic>>

Proceed(p) == Emit(p) \/ Flush(p)

Next == \E p \in Process : \/ Begin(p)
                           \/ Proceed(p)
                           \/ Leave(p)
                           \/ Signal(p)
                           \/ Kill(p)

Spec == Init /\ [][Next]_vars

(***************************************************************************)
(* A process that has something to do is scheduled, and flock(2) does not  *)
(* pass over a waiter for ever when the lock keeps being released.  Nobody *)
(* has to emit events, and faults need not happen.                         *)
(***************************************************************************)
FairSpec == Spec /\ \A p \in Process : SF_vars(Proceed(p))

-----------------------------------------------------------------------------
(* Properties *)

ControlOK ==
  /\ emitted \in 0 .. MaxEvents
  /\ pc \in [Process -> Pc]
  /\ current \in [Process -> Event \cup {NoEvent}]
  /\ rounds \in [Process -> 0 .. 2]
  /\ lock \in Emitter \cup {NoProcess}
  /\ faults \in 0 .. MaxFaults

LockOK == \A p \in Emitter : lock = p <=> pc[p] \in Critical \cup {"stuck"}

ChainOK ==
  /\ hashes \in Seq(Event)
  /\ prev \in [Event -> Event \cup {Genesis, NoEvent}]
  /\ log \in Seq(Event)

SpoolOK ==
  /\ stamps \in Seq(Event)
  /\ file \in [Event -> {"none", "empty", "full", "gone"}]
  /\ todo \in [Process -> SUBSET Event]
  /\ data \in [Process -> Event \cup {NoEvent, Blank}]
  /\ tries \in [Process -> 0 .. MaxRetries]
  /\ topic \in Seq(Event \cup {Blank})
  /\ trimmed \subseteq Event

\* Every variable has its type, and only a process in the critical section,
\* or one that is stuck with the lock in its hands, holds the lock.
TypeOK == ControlOK /\ LockOK /\ ChainOK /\ SpoolOK

(***************************************************************************)
(* As long as the append to the hash file does not fail, the host signs    *)
(* and logs like SignedLog, whoever dies or is stuck at whichever command. *)
(* The hash of an event whose log append is still to come is not counted.  *)
(***************************************************************************)
Undecided == {current[p] : p \in {q \in Emitter : pc[q] = "log"}}

Chain == INSTANCE SignedLog
           WITH tip    <- IF Tip \in Undecided THEN prev[Tip] ELSE Tip,
                signed <- ToSet(hashes) \ Undecided,
                log    <- [i \in DOMAIN log |->
                             [event |-> log[i], prev |-> prev[log[i]]]]

ImplementsSignedLog == Chain!Spec

(***************************************************************************)
(* verify_hash_chain() reports a broken link where the log says so; an     *)
(* untouched log has at most one for every fault the host has suffered.    *)
(***************************************************************************)
BrokenLinks ==
  {i \in DOMAIN log :
     prev[log[i]] # IF i = 1 THEN Genesis ELSE log[i - 1]}

BreaksAreFaults == Cardinality(BrokenLinks) <= faults

(***************************************************************************)
(* An emitter that waits for the lock of the chain gets it or is killed,   *)
(* whoever died with the lock in its hands; the one thing that can keep it *)
(* out is a shell that is stuck.                                           *)
(***************************************************************************)
EmitBlocksOnStuckOnly ==
  \A p \in Emitter :
    pc[p] = "wait" ~> (pc[p] # "wait" \/ \E q \in Shell : pc[q] = "stuck")

(***************************************************************************)
(* The agent "must not break an operator's shell": a hook that waits for   *)
(* the lock does not wait for ever.                                        *)
(***************************************************************************)
EmitReturns == \A p \in Emitter : pc[p] = "wait" ~> pc[p] # "wait"

(***************************************************************************)
(* An event leaves the spool unsent only if a full spool dropped it, or if *)
(* a flusher took its file before it had content; then a line that is no   *)
(* event was sent, which the consumer dead-letters.                        *)
(***************************************************************************)
Lost == {e \in Event : file[e] = "gone"} \ (ToSet(topic) \cup trimmed)

LossIsVisible ==
  Cardinality(Lost) <= Cardinality({i \in DOMAIN topic : topic[i] = Blank})

\* What is in the spool does not stay there once Kafka can be reached,
\* whichever flusher was killed or gave up before.
SpoolDrains == \A e \in Event : file[e] = "full" ~> file[e] = "gone"

(***************************************************************************)
(* "Guaranteed delivery": what leaves the spool has reached Kafka.         *)
(***************************************************************************)
SpooledIsDelivered == Lost = {}

(***************************************************************************)
(* "Chain order is insert order": events first appear in the topic in the  *)
(* order in which they were signed.                                        *)
(***************************************************************************)
TopicInChainOrder ==
  \A i, j \in DOMAIN topic :
    i < j /\ topic[j] # Blank /\ topic[j] < topic[i] =>
      \E h \in 1 .. i : topic[h] = topic[j]

=============================================================================
