-------------------------- MODULE ASHStore_proofs --------------------------
(***************************************************************************)
(* Proofs about ASHStore, for every set of events, kinds, sessions and     *)
(* orders of the topic, every retention, number of attempts and faults:    *)
(* what is acknowledged stays, sessions close, and no row goes before its  *)
(* time, although the retention thread and the flush share a transaction.  *)
(***************************************************************************)
EXTENDS ASHStore, FiniteSetTheorems, TLAPS

-----------------------------------------------------------------------------
(* The inductive invariant *)

\* What the tables a hold is in b, up to expired rows; no session goes back.
Reaches(a, b) ==
  /\ \A e \in a.logs \ b.logs : Expired(e)
  /\ \A e \in a.changes \ b.changes : Expired(e)
  /\ \A s \in Session : /\ a.sessions[s] # "absent" => b.sessions[s] # "absent"
                        /\ a.sessions[s] = "ended" => b.sessions[s] = "ended"

\* Where the flush may be.
Place ==
  /\ pc = "idle" => batch = <<>> /\ row = 0
  /\ pc # "idle" => batch # <<>> /\ buffer = <<>>
  /\ pc # "insert" => stmt = 1
  /\ stmt \in Statements(Work)
  /\ conn = "none" => pc \in {"idle", "insert"} /\ stmt = 1

LogIn(e, t) == e \in t.logs \/ Expired(e)
ChangeIn(e, t) == IsFile(e) => e \in t.changes \/ Expired(e)

\* The starts that the end e of a session can count on.
StartOf(d, e) == /\ Kind[d] = "start"
                 /\ SessionOf[d] = SessionOf[e]
                 /\ Precedes(d, e)
                 /\ d \notin dead \cup spoiled

SessionIn(e, t) ==
  /\ Kind[e] = "start" => t.sessions[SessionOf[e]] # "absent"
  /\ (Kind[e] = "end" /\ \E d \in Event : StartOf(d, e))
        => t.sessions[SessionOf[e]] = "ended"

Complete(e, t) == LogIn(e, t) /\ ChangeIn(e, t) /\ SessionIn(e, t)

Settled(e) == e \in dead \cup spoiled \/ Complete(e, disk)

AckedAreSettled == \A e \in acked : Settled(e)

\* The rows of the batch that have been done one by one, or all of them.
DoneAreSettled ==
  \A i \in 1 .. Len(batch) : i < row \/ pc = "ack" => Settled(batch[i])

\* What the statements of the transaction have done for its i-th event.
Begun ==
  (pc \in {"insert", "commit"} /\ conn = "open") =>
     \A i \in 1 .. Len(Work) :
        \/ Work[i] \in spoiled
        \/ /\ pc = "commit" \/ stmt > 1 => LogIn(Work[i], view)
           /\ pc = "commit" \/ stmt > 2 => ChangeIn(Work[i], view)
           /\ pc = "commit" \/ stmt > i + 2 => SessionIn(Work[i], view)

\* Events in memory, in the order in which they came.
Queue == IF pc = "idle" THEN buffer ELSE batch

Taken(e) == e \in acked \/ \E q \in 1 .. Len(Queue) : Queue[q] = e

QueueInv ==
  /\ \A k \in 1 .. position : Taken(topic[k])
  /\ \A e \in seen : Taken(e)
  /\ \A k \in 1 .. committed : topic[k] \in acked
  /\ \A q \in 1 .. Len(Queue) : \A d \in Event :
        Precedes(d, Queue[q])
          => d \in acked \/ \E p \in 1 .. q - 1 : Queue[p] = d

RecordInv == /\ Reaches(disk, view)
             /\ AckedAreSettled
             /\ DoneAreSettled
             /\ Begun
             /\ QueueInv

IInv == TypeOK /\ Place /\ RecordInv

\* What the retention has not archived it cannot delete yet.
MayGo(e) == e \in archived \cup late

ArchiveInv ==
  /\ \A e \in disk.logs \ view.logs : Expired(e) /\ MayGo(e)
  /\ ret = "write" => \A e \in disk.logs \cup view.logs :
                         Expired(e) => e \in picked \/ MayGo(e)
  /\ ret = "delete_logs" => \A e \in disk.logs \cup view.logs :
                               Expired(e) => MayGo(e)

-----------------------------------------------------------------------------
(* Statements and tables *)

LEMMA ToSetFacts ==
  ASSUME NEW w \in Seq(Event)
  PROVE  /\ \A i \in 1 .. Len(w) : w[i] \in ToSet(w)
         /\ \A e \in ToSet(w) : \E i \in 1 .. Len(w) : w[i] = e
  BY DEF ToSet

LEMMA StatementFacts ==
  ASSUME NEW w \in Seq(Event)
  PROVE  /\ Statements(w) \subseteq Nat \ {0}
         /\ 1 \in Statements(w)
         /\ \A i \in 1 .. Len(w) : IsFile(w[i]) => 2 \in Statements(w)
         /\ \A i \in 1 .. Len(w) : IsSession(w[i]) => i + 2 \in Statements(w)
         /\ \A k \in Statements(w) : k > 2 => k - 2 \in 1 .. Len(w)
  BY DEF Statements, ToSet

LEMMA WorkFacts ==
  ASSUME TypeOK, Place
  PROVE  /\ Work \in Seq(Event)
         /\ \A i \in 1 .. Len(Work) : \E j \in 1 .. Len(batch) : Work[i] = batch[j]
         /\ row = 0 => Work = batch
         /\ row > 0 => /\ row \in 1 .. Len(batch)
                       /\ batch[row] \in Event
                       /\ Len(Work) = 1
                       /\ Work[1] = batch[row]
<1>1. row \in Nat /\ row <= Len(batch) /\ batch \in Seq(Event)
  BY DEF TypeOK
<1>2. CASE row = 0
  BY <1>1, <1>2 DEF Work
<1>3. CASE row > 0
  <2>1. row \in 1 .. Len(batch) /\ batch[row] \in Event
    BY <1>1, <1>3
  <2>2. Work = <<batch[row]>>
    BY <1>3 DEF Work
  <2> QED
    BY <1>3, <2>1, <2>2
<1> QED
  BY <1>1, <1>2, <1>3

LEMMA AfterLogs ==
  ASSUME NEW w \in Seq(Event), NEW t \in Tables
  PROVE  /\ After(Statement(w, 1), t) = [t EXCEPT !.logs = @ \cup ToSet(w)]
         /\ After(Statement(w, 1), t) \in Tables
<1>1. After(Statement(w, 1), t) = [t EXCEPT !.logs = @ \cup ToSet(w)]
  BY DEF After, Statement
<1>2. ToSet(w) \subseteq Event
  BY DEF ToSet
<1>3. [t EXCEPT !.logs = @ \cup ToSet(w)] \in Tables
  BY <1>2 DEF Tables
<1> QED
  BY <1>1, <1>3

LEMMA AfterChanges ==
  ASSUME NEW w \in Seq(Event), NEW t \in Tables
  PROVE  /\ After(Statement(w, 2), t)
                = [t EXCEPT !.changes = @ \cup {e \in ToSet(w) : IsFile(e)}]
         /\ After(Statement(w, 2), t) \in Tables
<1> DEFINE F == {e \in ToSet(w) : IsFile(e)}
<1>1. After(Statement(w, 2), t) = [t EXCEPT !.changes = @ \cup F]
  BY DEF After, Statement
<1>2. F \subseteq Event
  BY DEF ToSet
<1> HIDE DEF F
<1>3. [t EXCEPT !.changes = @ \cup F] \in Tables
  BY <1>2 DEF Tables
<1> QED
  BY <1>1, <1>3 DEF F

LEMMA AfterSessions ==
  ASSUME StoreAssumption,
         NEW w \in Seq(Event), NEW t \in Tables, NEW k \in Statements(w), k > 2
  PROVE  /\ w[k - 2] \in Event
         /\ After(Statement(w, k), t)
                = [t EXCEPT !.sessions[SessionOf[w[k - 2]]]
                               = SessionAfter(w[k - 2], @)]
         /\ After(Statement(w, k), t) \in Tables
<1> DEFINE e == w[k - 2]
           s == Statement(w, k)
<1>1. e \in Event /\ SessionOf[e] \in Session
  BY StatementFacts DEF StoreAssumption
<1>2. s.into = "sessions" /\ s.rows = {e}
  BY DEF Statement
<1>3. (CHOOSE x \in s.rows : TRUE) = e
  <2> HIDE DEF e, s
  <2> QED
    BY <1>2
<1>4. After(s, t) = [t EXCEPT !.sessions[SessionOf[e]] = SessionAfter(e, @)]
  <2> HIDE DEF e, s
  <2> QED
    BY <1>2, <1>3 DEF After
<1>5. [t EXCEPT !.sessions[SessionOf[e]] = SessionAfter(e, @)] \in Tables
  <2> HIDE DEF e
  <2> QED
    BY <1>1 DEF Tables, SessionAfter
<1> QED
  BY <1>1, <1>4, <1>5

LEMMA AfterTables ==
  ASSUME StoreAssumption,
         NEW w \in Seq(Event), NEW t \in Tables, NEW k \in Statements(w)
  PROVE  After(Statement(w, k), t) \in Tables
<1>1. k = 1 \/ k = 2 \/ k > 2
  BY StatementFacts
<1> QED
  BY <1>1, AfterLogs, AfterChanges, AfterSessions

-----------------------------------------------------------------------------
(* Types *)

LEMMA TypeInit == Init => TypeOK /\ Place
<1> SUFFICES ASSUME Init PROVE TypeOK /\ Place
  OBVIOUS
<1>1. NoTables \in Tables
  BY DEF NoTables, Tables
<1>2. TypeOK
  <2>1. /\ position \in 0 .. Len(topic) /\ committed \in 0 .. position
        /\ row \in 0 .. Len(batch) /\ buffer \in Seq(Event) /\ batch \in Seq(Event)
    BY StoreAssumption DEF Init
  <2>2. stmt \in Nat \ {0} /\ attempt \in 1 .. MaxAttempts
    BY StoreAssumption DEF Init
  <2>3. day \in 0 .. MaxDay /\ faults \in 0 .. MaxFaults
    BY StoreAssumption DEF Init
  <2> QED
    BY <1>1, <2>1, <2>2, <2>3 DEF Init, TypeOK
<1>3. Place
  BY DEF Init, Place, Statements, Work
<1> QED
  BY <1>2, <1>3

LEMMA FaultFacts ==
  ASSUME TypeOK, NEW kind, Fault(kind) \/ NoFault
  PROVE  faults' \in 0 .. MaxFaults
  BY StoreAssumption DEF TypeOK, Fault, NoFault

LEMMA NextRowFacts ==
  ASSUME TypeOK, NextRow
  PROVE  /\ pc' \in {"insert", "ack"}
         /\ row' \in 0 .. Len(batch)
         /\ \/ row < Len(batch) /\ row' = row + 1 /\ pc' = "insert"
            \/ row = Len(batch) /\ row' = row /\ pc' = "ack"
  BY DEF TypeOK, NextRow

LEMMA MemoryTypes ==
  ASSUME TypeOK, Place, Receive \/ StartFlush
  PROVE  TypeOK'
<1> USE StoreAssumption
<1>1. CASE Receive
  <2>1. topic[position + 1] \in Event
    BY <1>1 DEF Receive, TypeOK
  <2> QED
    BY <1>1, <2>1 DEF Receive, TypeOK, NoFault, flushVars, tableVars, connVars,
                 retentionVars, resultVars
<1>2. CASE StartFlush
    BY <1>2 DEF StartFlush, TypeOK, NoFault, kafkaVars, tableVars, connVars,
                 retentionVars, resultVars
<1> QED
  BY <1>1, <1>2

LEMMA InsertTypes ==
  ASSUME TypeOK, Place, InsertNext
  PROVE  TypeOK'
<1> DEFINE s == Statement(Work, stmt)
<1>1. Work \in Seq(Event)
  BY WorkFacts
<1>2. After(s, view) \in Tables
  BY <1>1, AfterTables, StoreAssumption DEF TypeOK, Place
<1>3. stmt' \in Nat \ {0}
  BY <1>1, StatementFacts DEF InsertNext, Later
<1>4. late' \subseteq Event
  <2>1. s.rows \subseteq Event
    <3>1. ToSet(Work) \subseteq Event
      BY <1>1 DEF ToSet
    <3>2. stmt > 2 => Work[stmt - 2] \in Event
      BY <1>1, StatementFacts DEF Place, TypeOK
    <3> QED
      BY <3>1, <3>2 DEF Statement, TypeOK
  <2> QED
    BY <2>1 DEF InsertNext, TypeOK
<1>5. /\ disk' \in Tables /\ view' \in Tables
      /\ tx' \in {"none", "open", "failed"}
      /\ tx' # "open" => view' = disk'
      /\ autocommit' => tx' = "none"
  <2> HIDE DEF s
  <2>1. Execute(After(s, view)) /\ UNCHANGED autocommit
    BY DEF InsertNext, connVars, s
  <2> QED
    BY <1>2, <2>1 DEF Execute, TypeOK
<1>6. pc' \in {"insert", "commit"}
  BY DEF InsertNext
<1> QED
  BY <1>3, <1>4, <1>5, <1>6 DEF InsertNext, TypeOK, NoFault, kafkaVars, memoryVars,
            connVars, retentionVars

\* The variables that a failed attempt changes, and the ones it leaves alone.
MemoryTypeOK ==
  /\ topic \in Topic
  /\ position \in 0 .. Len(topic)
  /\ committed \in 0 .. position
  /\ seen \subseteq Event
  /\ buffer \in Seq(Event)
  /\ pc \in {"idle", "insert", "commit", "ack"}
  /\ batch \in Seq(Event)
  /\ row \in 0 .. Len(batch)
  /\ stmt \in Nat \ {0}
  /\ attempt \in 1 .. MaxAttempts
  /\ archived \subseteq Event
  /\ dead \subseteq Event
  /\ acked \subseteq Event
  /\ late \subseteq Event
  /\ spoiled \subseteq Event

LEMMA FailTypes ==
  ASSUME TypeOK, FlushFails
  PROVE  MemoryTypeOK'
<1>1. FlushOver /\ attempt' \in 1 .. MaxAttempts
  BY StoreAssumption DEF FlushFails, FlushOver
<1>2. buffer' \in Seq(Event)
  BY DEF FlushFails, TypeOK
<1> QED
  BY <1>1, <1>2 DEF FlushFails, FlushOver, TypeOK, MemoryTypeOK, kafkaVars, resultVars

LEMMA AttemptTypes ==
  ASSUME TypeOK, NextAttempt
  PROVE  MemoryTypeOK'
<1>1. CASE attempt < MaxAttempts
  <2>1. attempt' \in 1 .. MaxAttempts
    BY <1>1, StoreAssumption DEF NextAttempt, TypeOK
  <2> QED
    BY <1>1, <2>1 DEF NextAttempt, TypeOK, MemoryTypeOK, kafkaVars, memoryVars, resultVars
<1>2. CASE ~(attempt < MaxAttempts)
  BY <1>2, FailTypes DEF NextAttempt
<1> QED
  BY <1>1, <1>2

LEMMA FlushTypes ==
  ASSUME TypeOK, Place, Flush
  PROVE  TypeOK'
<1> USE StoreAssumption DEF TypeOK, NoFault, kafkaVars, memoryVars,
      flushVars, tableVars, connVars, retentionVars, resultVars
<1>1. CASE InsertNext
  BY <1>1, InsertTypes
<1>2. CASE InsertRefused
  <2>1. pc' \in {"insert", "ack"} /\ row' \in 0 .. Len(batch)
    <3>1. CASE row = 0
      <4>1. Len(batch) > 0
        BY <1>2 DEF InsertRefused, Place
      <4> QED
        BY <1>2, <3>1, <4>1 DEF InsertRefused
    <3>2. CASE row > 0
      BY <1>2, <3>2, NextRowFacts DEF InsertRefused
    <3> QED
      BY <3>1, <3>2
  <2>2. dead' \subseteq Event
    BY <1>2, WorkFacts DEF InsertRefused
  <2> QED
    BY <1>2, <2>1, <2>2 DEF InsertRefused, Rollback
<1>3. CASE CommitBatch
  BY <1>3 DEF CommitBatch, CommitWork, NextRow
<1>4. CASE Acknowledge
  BY <1>4 DEF Acknowledge, FlushOver, ToSet
<1>5. CASE BatchInterrupted
  <2>1. faults' \in 0 .. MaxFaults
    BY <1>5, FaultFacts DEF BatchInterrupted
  <2> QED
    BY <1>5, <2>1, AttemptTypes DEF MemoryTypeOK, BatchInterrupted, Rollback, Reconnect
<1>6. CASE BatchConnects
  <2>1. CASE NextAttempt
    BY <1>6, <2>1, AttemptTypes DEF MemoryTypeOK, BatchConnects, Reconnect
  <2>2. CASE UNCHANGED <<kafkaVars, memoryVars, flushVars, resultVars>>
    BY <1>6, <2>2 DEF BatchConnects, Reconnect
  <2> QED
    BY <1>6, <2>1, <2>2 DEF BatchConnects
<1>7. CASE RowInterrupted
  <2>1. faults' \in 0 .. MaxFaults
    BY <1>7, FaultFacts DEF RowInterrupted
  <2> QED
    BY <1>7, <2>1, FailTypes DEF MemoryTypeOK, RowInterrupted, Rollback
<1>8. CASE HandleClosed
  BY <1>8, FailTypes DEF MemoryTypeOK, HandleClosed
<1> QED
  BY <1>1, <1>2, <1>3, <1>4, <1>5, <1>6, <1>7, <1>8 DEF Flush

LEMMA RetentionTypes ==
  ASSUME TypeOK, Retention
  PROVE  TypeOK'
<1> USE StoreAssumption DEF TypeOK, NoFault, RetentionSteps, RetentionOver,
      kafkaVars, memoryVars, flushVars, tableVars, connVars
<1>1. CASE SelectOldRows
  BY <1>1 DEF SelectOldRows, Execute, OldestRows, Tables
<1>2. CASE WriteArchive
  BY <1>2 DEF WriteArchive
<1>3. CASE ArchiveFails
  <2>1. faults' \in 0 .. MaxFaults /\ archived' \subseteq Event
    BY <1>3, FaultFacts DEF ArchiveFails
  <2>2. RetentionOver /\ RetentionSteps /\ UNCHANGED <<spoiled, tableVars, connVars>>
    BY <1>3 DEF ArchiveFails
  <2> QED
    BY <2>1, <2>2
<1>4. CASE DeleteLogs
  <2>1. [view EXCEPT !.logs = {e \in @ : ~Due(e)}] \in Tables
    BY DEF Tables
  <2> QED
    BY <1>4, <2>1 DEF DeleteLogs, Execute
<1>5. CASE DeleteChanges
  <2>1. [view EXCEPT !.changes = {e \in @ : ~Due(e)}] \in Tables
    BY DEF Tables
  <2> QED
    BY <1>5, <2>1 DEF DeleteChanges, Execute
<1>6. CASE CommitDeletes
  BY <1>6 DEF CommitDeletes, CommitShared, CommitWork
<1>7. CASE SetAutocommit
  BY <1>7 DEF SetAutocommit
<1>8. CASE Vacuum
  BY <1>8 DEF Vacuum, StatementFails, ToSet
<1>9. CASE RestoreAutocommit
  BY <1>9 DEF RestoreAutocommit
<1>10. CASE RetentionTimesOut
  <2>1. faults' \in 0 .. MaxFaults
    BY <1>10, FaultFacts DEF RetentionTimesOut
  <2>2. spoiled' \subseteq Event
    BY <1>10 DEF RetentionTimesOut, StatementFails, ToSet
  <2> QED
    BY <1>10, <2>1, <2>2 DEF RetentionTimesOut, StatementFails
<1>11. CASE Raises
  BY <1>11 DEF Raises
<1> QED
  BY <1>1, <1>2, <1>3, <1>4, <1>5, <1>6, <1>7, <1>8, <1>9, <1>10, <1>11
     DEF Retention

LEMMA OtherTypes ==
  ASSUME TypeOK, ConnectionLost \/ Restart \/ NextDay
  PROVE  TypeOK'
<1> USE StoreAssumption DEF TypeOK, NoFault, kafkaVars, memoryVars,
      flushVars, tableVars, connVars, retentionVars, resultVars
<1>1. CASE ConnectionLost
  BY <1>1, FaultFacts DEF ConnectionLost, Rollback, CommitWork
<1>2. CASE Restart
  <2>1. faults' \in 0 .. MaxFaults
    BY <1>2, FaultFacts DEF Restart
  <2>2. /\ position' \in 0 .. Len(topic') /\ committed' \in 0 .. position'
        /\ row' \in 0 .. Len(batch') /\ buffer' \in Seq(Event)
        /\ batch' \in Seq(Event) /\ attempt' \in 1 .. MaxAttempts
    BY <1>2 DEF Restart, FlushOver
  <2>3. /\ pc' = "idle" /\ stmt' = 1 /\ seen' = {} /\ topic' = topic
        /\ disk' = disk /\ view' = disk /\ tx' = "none"
        /\ autocommit' = FALSE /\ ret' = "asleep"
        /\ picked' = {} /\ stale' = FALSE /\ deleted' = FALSE
        /\ UNCHANGED <<resultVars, day>>
    BY <1>2, <2>1 DEF Restart, Rollback, FlushOver
  <2>6. conn' \in {"open", "none"}
    BY <1>2 DEF Restart
  <2>4. MemoryTypeOK'
    BY <2>2, <2>3 DEF MemoryTypeOK
  <2>5. disk' \in Tables /\ view' \in Tables /\ (tx' # "open" => view' = disk')
    BY <2>3
  <2> HIDE StoreAssumption
  <2> QED
    BY <2>1, <2>3, <2>4, <2>5, <2>6 DEF MemoryTypeOK
<1>3. CASE NextDay
  BY <1>3 DEF NextDay
<1> QED
  BY <1>1, <1>2, <1>3

LEMMA TypeStep ==
  ASSUME TypeOK, Place, [Next]_vars
  PROVE  TypeOK'
<1>1. CASE UNCHANGED vars
  BY <1>1 DEF TypeOK, vars, kafkaVars, memoryVars, flushVars, tableVars,
              connVars, retentionVars, resultVars
<1>2. CASE Next
  BY <1>2, MemoryTypes, FlushTypes, RetentionTypes, OtherTypes DEF Next
<1> QED
  BY <1>1, <1>2

-----------------------------------------------------------------------------
(* Where the flush may be *)

LEMMA FirstStatement ==
  ASSUME NEW w
  PROVE  1 \in Statements(w)
  BY DEF Statements

LEMMA AttemptPlace ==
  ASSUME TypeOK, Place, NextAttempt, pc # "idle"
  PROVE  /\ stmt' = 1
         /\ pc' \in {"idle", "insert"}
         /\ pc' = "idle" => batch' = <<>> /\ row' = 0
         /\ pc' # "idle" => batch' # <<>> /\ buffer' = <<>>
  BY DEF NextAttempt, FlushFails, FlushOver, Place, memoryVars

\* The retention thread leaves the flush and the rest of the consumer alone,
\* and never puts a connection in db_conn or takes it away.
LEMMA RetentionFacts ==
  ASSUME Retention
  PROVE  /\ UNCHANGED <<kafkaVars, memoryVars, flushVars, dead, acked, late, day>>
         /\ conn' = conn \/ conn' = "closed"
<1> USE DEF RetentionSteps, connVars
<1>1. CASE SelectOldRows
  BY <1>1 DEF SelectOldRows
<1>2. CASE WriteArchive
  BY <1>2 DEF WriteArchive
<1>3. CASE ArchiveFails
  BY <1>3 DEF ArchiveFails
<1>4. CASE DeleteLogs
  BY <1>4 DEF DeleteLogs
<1>5. CASE DeleteChanges
  BY <1>5 DEF DeleteChanges
<1>6. CASE CommitDeletes
  BY <1>6 DEF CommitDeletes
<1>7. CASE SetAutocommit
  BY <1>7 DEF SetAutocommit
<1>8. CASE Vacuum
  BY <1>8 DEF Vacuum
<1>9. CASE RestoreAutocommit
  BY <1>9 DEF RestoreAutocommit
<1>10. CASE RetentionTimesOut
  BY <1>10 DEF RetentionTimesOut
<1>11. CASE Raises
  BY <1>11 DEF Raises
<1> QED
  BY <1>1, <1>2, <1>3, <1>4, <1>5, <1>6, <1>7, <1>8, <1>9, <1>10, <1>11
     DEF Retention

LEMMA FlushPlace ==
  ASSUME TypeOK, Place, Flush
  PROVE  Place'
<1>0. 1 \in Statements(Work')
  BY FirstStatement
<1>1. CASE InsertNext
  <2>1. Work' = Work
    BY <1>1 DEF InsertNext, Work
  <2>2. stmt' \in Statements(Work)
    BY <1>1, <1>0, <2>1 DEF InsertNext, Later
  <2> QED
    BY <1>1, <2>1, <2>2 DEF InsertNext, Place, memoryVars, connVars, CanExecute
<1>2. CASE InsertRefused
  <2>1. row' = 1 \/ NextRow
    BY <1>2 DEF InsertRefused
  <2> QED
    BY <1>0, <1>2, <2>1, NextRowFacts DEF InsertRefused, Place, memoryVars, connVars
<1>3. CASE CommitBatch
  <2>1. row = 0 \/ NextRow
    BY <1>3 DEF CommitBatch
  <2> QED
    BY <1>0, <1>3, <2>1, NextRowFacts DEF CommitBatch, Place, memoryVars, connVars
<1>4. CASE Acknowledge
  BY <1>0, <1>4 DEF Acknowledge, FlushOver, Place, memoryVars, connVars
<1>5. CASE BatchInterrupted
  BY <1>0, <1>5, AttemptPlace DEF Place, BatchInterrupted, Reconnect
<1>6. CASE BatchConnects
  <2>1. CASE NextAttempt
    BY <1>0, <1>6, <2>1, AttemptPlace DEF Place, BatchConnects, Reconnect
  <2>2. CASE UNCHANGED <<kafkaVars, memoryVars, flushVars, resultVars>>
    <3>1. Work' = Work
      BY <2>2 DEF Work, flushVars
    <3> QED
      BY <1>0, <1>6, <2>2, <3>1 DEF BatchConnects, Place, memoryVars, flushVars
  <2> QED
    BY <1>6, <2>1, <2>2 DEF BatchConnects
<1>7. CASE RowInterrupted
  BY <1>0, <1>7 DEF RowInterrupted, FlushFails, FlushOver, Place
<1>8. CASE HandleClosed
  BY <1>0, <1>8 DEF HandleClosed, FlushFails, FlushOver, Place, connVars
<1> QED
  BY <1>1, <1>2, <1>3, <1>4, <1>5, <1>6, <1>7, <1>8 DEF Flush

LEMMA OtherPlace ==
  ASSUME TypeOK, Place, Receive \/ StartFlush \/ ConnectionLost \/ Restart
                        \/ Retention \/ NextDay
  PROVE  Place'
<1>0. 1 \in Statements(Work')
  BY FirstStatement
<1>1. CASE Receive
  <2>1. Work' = Work
    BY <1>1 DEF Receive, Work, flushVars
  <2> QED
    BY <1>1, <2>1 DEF Receive, Quiet, Place, flushVars, connVars
<1>2. CASE StartFlush
  BY <1>0, <1>2 DEF StartFlush, Quiet, Place, connVars
<1>3. CASE Restart
  BY <1>0, <1>3 DEF Restart, FlushOver, Place
<1>4. ASSUME ConnectionLost \/ Retention \/ NextDay
      PROVE  UNCHANGED <<memoryVars, flushVars>> /\ (conn' = "none" => conn = "none")
  <2>1. CASE ConnectionLost
    BY <2>1 DEF ConnectionLost
  <2>2. CASE NextDay
    BY <2>2 DEF NextDay, connVars
  <2>3. CASE Retention
    BY <2>3, RetentionFacts
  <2> QED
    BY <1>4, <2>1, <2>2, <2>3
<1>5. CASE ConnectionLost \/ Retention \/ NextDay
  <2>1. Work' = Work
    BY <1>4, <1>5 DEF Work, flushVars
  <2> QED
    BY <1>4, <1>5, <2>1 DEF Place, memoryVars, flushVars
<1> QED
  BY <1>1, <1>2, <1>3, <1>5

LEMMA PlaceStep ==
  ASSUME TypeOK, Place, [Next]_vars
  PROVE  Place'
<1>1. CASE UNCHANGED vars
  <2>1. Work' = Work
    BY <1>1 DEF vars, Work, flushVars
  <2> QED
    BY <1>1, <2>1 DEF Place, vars, memoryVars, flushVars, connVars
<1>2. CASE Next
  BY <1>2, FlushPlace, OtherPlace DEF Next
<1> QED
  BY <1>1, <1>2

\* Whatever fails, for any events, batches and retention, every variable of the
\* flush (lines 1195-1566), of the retention thread (1605-1660) and of the
\* connection they share keeps its type, and a flush knows its place in its batch.
THEOREM StoreTypeCorrect == Spec => []TypeOK
<1>1. Init => TypeOK /\ Place
  BY TypeInit
<1>2. TypeOK /\ Place /\ [Next]_vars => TypeOK' /\ Place'
  BY TypeStep, PlaceStep
<1> QED
  BY <1>1, <1>2, PTL DEF Spec

-----------------------------------------------------------------------------
(* How the tables change *)

LEMMA ReachesTrans ==
  ASSUME NEW a, NEW b, NEW c, Reaches(a, b), Reaches(b, c)
  PROVE  Reaches(a, c)
  BY DEF Reaches

LEMMA ReachesRefl ==
  ASSUME NEW a
  PROVE  Reaches(a, a)
  BY DEF Reaches

\* A statement, a commit, a rollback, or none of them.
TableMove ==
  \/ UNCHANGED <<disk, view>>
  \/ view' = disk /\ disk' = disk
  \/ view' = view /\ disk' = view
  \/ Reaches(view, view') /\ disk' \in {disk, view'}

LEMMA ExecuteMoves ==
  ASSUME NEW t, Execute(t), Reaches(view, t)
  PROVE  TableMove /\ Reaches(view, view')
  BY DEF Execute, TableMove

LEMMA AfterReaches ==
  ASSUME StoreAssumption, NEW w \in Seq(Event), NEW t \in Tables, NEW k \in Statements(w)
  PROVE  Reaches(t, After(Statement(w, k), t))
<1>1. CASE k = 1
  <2>1. Reaches(t, [t EXCEPT !.logs = @ \cup ToSet(w)])
    BY DEF Reaches, Tables
  <2> QED
    BY <1>1, <2>1, AfterLogs
<1>2. CASE k = 2
  <2>1. Reaches(t, [t EXCEPT !.changes = @ \cup {e \in ToSet(w) : IsFile(e)}])
    BY DEF Reaches, Tables
  <2> QED
    BY <1>2, <2>1, AfterChanges
<1>3. CASE k > 2
  <2> DEFINE e == w[k - 2]
             u == After(Statement(w, k), t)
  <2>1. e \in Event /\ SessionOf[e] \in Session
    BY <1>3, AfterSessions DEF StoreAssumption
  <2>2. u = [t EXCEPT !.sessions[SessionOf[e]] = SessionAfter(e, @)]
    BY <1>3, AfterSessions
  <2>3. /\ u.logs = t.logs
        /\ u.changes = t.changes
        /\ u.sessions = [t.sessions EXCEPT ![SessionOf[e]] = SessionAfter(e, @)]
    <3> HIDE DEF e, u
    <3> QED
      BY <2>2 DEF Tables
  <2>4. \A s \in Session : u.sessions[s] = IF s = SessionOf[e]
                                          THEN SessionAfter(e, t.sessions[s])
                                          ELSE t.sessions[s]
    <3> HIDE DEF e, u
    <3> QED
      BY <2>1, <2>3 DEF Tables
  <2> HIDE DEF e, u
  <2>5. Reaches(t, u)
    BY <2>3, <2>4 DEF Reaches, SessionAfter
  <2> QED
    BY <2>5 DEF u
<1> QED
  BY <1>1, <1>2, <1>3, StatementFacts

LEMMA DeletionReaches ==
  ASSUME TypeOK
  PROVE  /\ Reaches(view, [view EXCEPT !.logs = {e \in @ : ~Due(e)}])
         /\ Reaches(view, [view EXCEPT !.changes = {e \in @ : ~Due(e)}])
  BY DEF TypeOK, Tables, Reaches, Due

LEMMA InsertMoves ==
  ASSUME TypeOK, Place, InsertNext
  PROVE  TableMove /\ Reaches(view, view')
<1>1. Execute(After(Statement(Work, stmt), view))
  BY DEF InsertNext
<1>2. Reaches(view, After(Statement(Work, stmt), view))
  BY WorkFacts, AfterReaches, StoreAssumption DEF TypeOK, Place
<1> QED
  BY <1>1, <1>2, ExecuteMoves

LEMMA RetentionMoves ==
  ASSUME TypeOK, Retention
  PROVE  /\ TableMove
         /\ Reaches(view, view') \/ ToSet(batch) \subseteq spoiled'
<1> USE ReachesRefl DEF tableVars
<1>1. CASE SelectOldRows
  BY <1>1, ExecuteMoves DEF SelectOldRows
<1>2. CASE DeleteLogs
  BY <1>2, DeletionReaches, ExecuteMoves DEF DeleteLogs
<1>3. CASE DeleteChanges
  <2>1. CASE UNCHANGED tableVars
    BY <2>1 DEF TableMove
  <2>2. CASE Execute([view EXCEPT !.changes = {e \in @ : ~Due(e)}])
    BY <2>2, DeletionReaches, ExecuteMoves
  <2> QED
    BY <1>3, <2>1, <2>2 DEF DeleteChanges
<1>4. CASE CommitDeletes
  BY <1>4 DEF CommitDeletes, CommitShared, CommitWork, TableMove
<1>5. CASE Vacuum
  BY <1>5 DEF Vacuum, StatementFails, TableMove
<1>6. CASE RetentionTimesOut
  BY <1>6 DEF RetentionTimesOut, StatementFails, TableMove
<1>7. CASE WriteArchive \/ ArchiveFails \/ SetAutocommit \/ RestoreAutocommit \/ Raises
  BY <1>7 DEF WriteArchive, ArchiveFails, SetAutocommit, RestoreAutocommit, Raises, TableMove
<1> QED
  BY <1>1, <1>2, <1>3, <1>4, <1>5, <1>6, <1>7 DEF Retention

LEMMA TablesMove ==
  ASSUME TypeOK, Place, [Next]_vars
  PROVE  TableMove
<1> USE DEF tableVars
<1>1. CASE Flush
  <2>1. CASE InsertNext
    BY <2>1, InsertMoves
  <2>2. CASE Flush /\ ~InsertNext
    BY <2>2 DEF Flush, InsertRefused, CommitBatch, Acknowledge, BatchInterrupted,
         BatchConnects, RowInterrupted, HandleClosed, Rollback, CommitWork, TableMove
  <2> QED
    BY <1>1, <2>1, <2>2
<1>2. CASE Retention
  BY <1>2, RetentionMoves
<1>3. CASE Receive \/ StartFlush \/ ConnectionLost \/ Restart \/ NextDay \/ UNCHANGED vars
  BY <1>3 DEF Receive, StartFlush, ConnectionLost, Restart, NextDay, vars, Rollback,
       CommitWork, TableMove
<1> QED
  BY <1>1, <1>2, <1>3 DEF Next

LEMMA MoveReaches ==
  ASSUME Reaches(disk, view), TableMove
  PROVE  Reaches(disk, disk') /\ Reaches(disk', view')
<1>1. CASE Reaches(view, view')
  BY <1>1, ReachesTrans, ReachesRefl DEF TableMove
<1>2. CASE ~Reaches(view, view')
  BY <1>2, ReachesTrans, ReachesRefl DEF TableMove
<1> QED
  BY <1>1, <1>2

-----------------------------------------------------------------------------
(* What no step takes back *)

Monotone == /\ topic' = topic
            /\ dead \subseteq dead'
            /\ spoiled \subseteq spoiled'
            /\ day <= day'

LEMMA MonotoneStep ==
  ASSUME TypeOK, [Next]_vars
  PROVE  Monotone
<1>0. day <= day
  BY DEF TypeOK
<1>1. CASE Flush
  BY <1>0, <1>1 DEF Flush, InsertNext, InsertRefused, CommitBatch, Acknowledge,
      BatchInterrupted, BatchConnects, RowInterrupted, HandleClosed,
      NextAttempt, FlushFails, flushVars, kafkaVars, resultVars, Monotone
<1>2. CASE Retention
  <2>1. spoiled \subseteq spoiled'
    BY <1>2 DEF Retention, SelectOldRows, WriteArchive, ArchiveFails, DeleteLogs,
        DeleteChanges, CommitDeletes, SetAutocommit, Vacuum, RestoreAutocommit,
        RetentionTimesOut, Raises, StatementFails
  <2> QED
    BY <1>0, <1>2, <2>1, RetentionFacts DEF kafkaVars, Monotone
<1>3. CASE Receive \/ StartFlush \/ ConnectionLost \/ Restart \/ UNCHANGED vars
  BY <1>0, <1>3 DEF Receive, StartFlush, ConnectionLost, Restart, vars, kafkaVars,
      resultVars, Monotone
<1>4. CASE NextDay
  BY <1>4 DEF NextDay, TypeOK, kafkaVars, resultVars, Monotone
<1> QED
  BY <1>1, <1>2, <1>3, <1>4 DEF Next

LEMMA ExpiredStays ==
  ASSUME StoreAssumption, TypeOK, TypeOK', Monotone, NEW e \in Event, Expired(e)
  PROVE  Expired(e)'
<1>1. Stamp[e] \in Nat /\ RetentionDays \in Nat
  BY DEF StoreAssumption
<1>2. day \in Nat /\ day' \in Nat /\ day <= day'
  BY StoreAssumption DEF TypeOK, Monotone
<1> QED
  BY <1>1, <1>2 DEF Expired, Older

LEMMA StartStays ==
  ASSUME Monotone, NEW d, NEW e, StartOf(d, e)'
  PROVE  StartOf(d, e)
  BY DEF Monotone, StartOf, Precedes

LEMMA CompleteStays ==
  ASSUME StoreAssumption, TypeOK, TypeOK', Monotone, NEW e \in Event
  PROVE  /\ Reaches(disk, disk') =>
               /\ LogIn(e, disk) => LogIn(e, disk)'
               /\ ChangeIn(e, disk) => ChangeIn(e, disk)'
               /\ SessionIn(e, disk) => SessionIn(e, disk)'
         /\ Reaches(view, view') =>
               /\ LogIn(e, view) => LogIn(e, view)'
               /\ ChangeIn(e, view) => ChangeIn(e, view)'
               /\ SessionIn(e, view) => SessionIn(e, view)'
         /\ Reaches(view, disk') =>
               /\ LogIn(e, view) => LogIn(e, disk)'
               /\ ChangeIn(e, view) => ChangeIn(e, disk)'
               /\ SessionIn(e, view) => SessionIn(e, disk)'
<1>1. SessionOf[e] \in Session
  BY DEF StoreAssumption
<1>2. Expired(e) => Expired(e)'
  BY ExpiredStays
<1>3. (\E d \in Event : StartOf(d, e)') => \E d \in Event : StartOf(d, e)
  BY StartStays
<1> QED
  BY <1>1, <1>2, <1>3 DEF Reaches, LogIn, ChangeIn, SessionIn

LEMMA SettledStays ==
  ASSUME StoreAssumption, TypeOK, TypeOK', Monotone, Reaches(disk, disk'),
         NEW e \in Event, Settled(e)
  PROVE  Settled(e)'
  BY CompleteStays DEF Settled, Complete, Monotone

-----------------------------------------------------------------------------
(* The events in memory *)

LEMMA QueueTypes ==
  ASSUME TypeOK, Place
  PROVE  Queue \in Seq(Event)
  BY DEF TypeOK, Queue

\* What the queue holds goes on being in the queue, or is acknowledged.
LEMMA QueueKept ==
  ASSUME TypeOK, QueueInv, Queue' = Queue, acked' = acked, topic' = topic,
         committed' = committed, position' = position, seen' = seen
  PROVE  QueueInv'
  BY DEF QueueInv, Taken, Precedes

LEMMA ReceiveQueue ==
  ASSUME StoreAssumption, TypeOK, TypeOK', Place, QueueInv, Receive
  PROVE  QueueInv'
<1> DEFINE e == topic[position + 1]
           Now(d) == d \in acked' \/ \E q \in 1 .. Len(Queue') : Queue'[q] = d
<1>1. /\ topic \in Seq(Event) /\ position \in Nat /\ position < Len(topic)
      /\ position + 1 \in 1 .. Len(topic) /\ e \in Event
      /\ committed \in Nat /\ committed <= position
  BY DEF StoreAssumption, TypeOK, Receive
<1>2. /\ pc = "idle" /\ pc' = "idle" /\ acked' = acked /\ topic' = topic
      /\ committed' = committed /\ position' = position + 1
      /\ seen' = seen \cup {e}
      /\ buffer' = IF e \in seen THEN buffer ELSE Append(buffer, e)
  BY DEF Receive, Quiet, flushVars, resultVars
<1>3. Queue = buffer /\ Queue' = buffer' /\ buffer \in Seq(Event)
  BY <1>2 DEF Queue, TypeOK
<1>4. /\ Len(buffer) \in Nat
      /\ \A q \in 1 .. Len(buffer) : q \in 1 .. Len(buffer') /\ buffer'[q] = buffer[q]
  BY <1>1, <1>2, <1>3
<1>5. \A d : Taken(d) => Now(d)
  BY <1>2, <1>3, <1>4 DEF Taken
<1>6. Now(e)
  <2>1. CASE e \in seen
    BY <1>5, <2>1 DEF QueueInv
  <2>2. CASE e \notin seen
    <3>1. buffer' = Append(buffer, e) /\ Len(buffer') = Len(buffer) + 1
      BY <1>1, <1>2, <1>3, <2>2
    <3>2. Len(buffer) + 1 \in 1 .. Len(buffer') /\ buffer'[Len(buffer) + 1] = e
      BY <1>1, <1>3, <1>4, <3>1
    <3> QED
      BY <1>3, <3>2
  <2> QED
    BY <2>1, <2>2
<1>7. \A k \in 1 .. position' : Now(topic'[k])
  BY <1>1, <1>2, <1>5, <1>6 DEF QueueInv
<1>8. \A d \in seen' : Now(d)
  BY <1>2, <1>5, <1>6 DEF QueueInv
<1>9. \A k \in 1 .. committed' : topic'[k] \in acked'
  BY <1>2 DEF QueueInv
<1>10. ASSUME NEW q \in 1 .. Len(Queue'), NEW d \in Event, Precedes(d, Queue'[q])
       PROVE  d \in acked \/ \E p \in 1 .. q - 1 : Queue'[p] = d
  <2>2. CASE q \in 1 .. Len(buffer)
    <3>1. Queue'[q] = Queue[q]
      BY <1>3, <1>4, <2>2
    <3>2. d \in acked \/ \E p \in 1 .. q - 1 : Queue[p] = d
      BY <1>3, <1>10, <2>2, <3>1 DEF QueueInv
    <3>3. \A p \in 1 .. q - 1 : p \in 1 .. Len(buffer)
      BY <1>4, <2>2
    <3>4. \A p \in 1 .. q - 1 : Queue'[p] = Queue[p]
      BY <1>3, <1>4, <3>3
    <3> QED
      BY <3>2, <3>4
  <2>3. CASE q \notin 1 .. Len(buffer)
    <3>1. /\ e \notin seen /\ buffer' = Append(buffer, e)
          /\ q = Len(buffer) + 1 /\ Queue'[q] = e
      BY <1>1, <1>2, <1>3, <1>4, <2>3
    <3>2. PICK i \in 1 .. Len(topic) : topic[i] = d /\ \A j \in 1 .. i : topic[j] # e
      BY <1>10, <3>1 DEF Precedes
    <3>3. i \in 1 .. position
      BY <1>1, <3>2
    <3>4. d \in acked \/ \E p \in 1 .. Len(buffer) : buffer[p] = d
      BY <1>3, <3>2, <3>3 DEF QueueInv, Taken
    <3> QED
      BY <1>3, <1>4, <3>1, <3>4
  <2> QED
    BY <2>2, <2>3
<1>11. topic' = topic /\ acked' = acked
  BY <1>2
<1> HIDE DEF e
<1> QED
  BY <1>7, <1>8, <1>9, <1>10, <1>11 DEF QueueInv, Taken, Precedes

LEMMA AcknowledgeQueue ==
  ASSUME StoreAssumption, TypeOK, Place, QueueInv, Acknowledge
  PROVE  QueueInv'
<1> DEFINE Now(d) == d \in acked' \/ \E q \in 1 .. Len(Queue') : Queue'[q] = d
<1>1. /\ pc = "ack" /\ pc' = "idle" /\ buffer' = <<>>
      /\ UNCHANGED <<topic, position, seen>>
      /\ committed' \in {committed, position}
      /\ acked' = acked \cup ToSet(batch)
  BY DEF Acknowledge, FlushOver, Place, memoryVars
<1>2. Queue = batch /\ Queue' = <<>>
  BY <1>1 DEF Queue
<1>3. \A d : Taken(d) => d \in acked'
  BY <1>1, <1>2 DEF Taken, ToSet
<1>4. \A d : Taken(d) => Now(d)
  BY <1>3
<1>5. \A k \in 1 .. committed' : topic[k] \in acked'
  <2>1. CASE committed' = committed
    BY <1>1, <2>1 DEF QueueInv
  <2>2. CASE committed' = position
    BY <1>3, <2>2 DEF QueueInv
  <2> QED
    BY <1>1, <2>1, <2>2
<1>6. \A q \in 1 .. Len(Queue') : FALSE
  BY <1>2
<1>7. /\ \A k \in 1 .. position' : Now(topic'[k])
      /\ \A d \in seen' : Now(d)
      /\ \A k \in 1 .. committed' : topic'[k] \in acked'
  BY <1>1, <1>4, <1>5 DEF QueueInv
<1> QED
  BY <1>6, <1>7 DEF QueueInv, Taken

LEMMA RestartQueue ==
  ASSUME StoreAssumption, TypeOK, Place, QueueInv, Restart
  PROVE  QueueInv'
<1> DEFINE Now(d) == d \in acked' \/ \E q \in 1 .. Len(Queue') : Queue'[q] = d
<1>1. /\ pc' = "idle" /\ buffer' = <<>> /\ seen' = {} /\ position' = committed
      /\ UNCHANGED <<topic, committed, acked>>
  BY DEF Restart, FlushOver, resultVars
<1>2. \A q \in 1 .. Len(Queue') : FALSE
  BY <1>1 DEF Queue
<1>3. \A k \in 1 .. position' : Now(topic'[k])
  BY <1>1 DEF QueueInv
<1>4. (\A k \in 1 .. committed' : topic'[k] \in acked') /\ seen' = {}
  BY <1>1 DEF QueueInv
<1> QED
  BY <1>2, <1>3, <1>4 DEF QueueInv, Taken

LEMMA FailQueue ==
  ASSUME TypeOK, Place, pc # "idle", NextAttempt \/ FlushFails
  PROVE  Queue' = Queue /\ UNCHANGED <<kafkaVars, seen, acked>>
<1>1. CASE FlushFails
  <2>1. buffer' = batch \o buffer /\ buffer = <<>> /\ batch \in Seq(Event)
    BY <1>1 DEF FlushFails, Place, TypeOK
  <2>2. buffer' = batch
    BY <2>1
  <2> QED
    BY <1>1, <2>2 DEF FlushFails, FlushOver, Queue, resultVars
<1>2. CASE NextAttempt /\ ~FlushFails
  BY <1>2 DEF NextAttempt, Queue, memoryVars, resultVars
<1> QED
  BY <1>1, <1>2

LEMMA FlushQueue ==
  ASSUME TypeOK, Place, Flush, ~Acknowledge
  PROVE  Queue' = Queue /\ UNCHANGED <<kafkaVars, seen, acked>>
<1>1. CASE InsertNext
  BY <1>1 DEF InsertNext, Queue, memoryVars
<1>2. CASE InsertRefused
  BY <1>2, NextRowFacts DEF InsertRefused, Queue, memoryVars
<1>3. CASE CommitBatch
  BY <1>3, NextRowFacts DEF CommitBatch, Queue, memoryVars, resultVars
<1>4. CASE BatchInterrupted
  BY <1>4, FailQueue DEF BatchInterrupted
<1>5. CASE BatchConnects
  <2>1. CASE NextAttempt
    BY <1>5, <2>1, FailQueue DEF BatchConnects
  <2>2. CASE UNCHANGED <<kafkaVars, memoryVars, flushVars, resultVars>>
    BY <2>2 DEF Queue, memoryVars, flushVars, resultVars
  <2> QED
    BY <1>5, <2>1, <2>2 DEF BatchConnects
<1>6. CASE RowInterrupted
  BY <1>6, FailQueue DEF RowInterrupted
<1>7. CASE HandleClosed
  BY <1>7, FailQueue DEF HandleClosed
<1> QED
  BY <1>1, <1>2, <1>3, <1>4, <1>5, <1>6, <1>7 DEF Flush

LEMMA QueueStep ==
  ASSUME StoreAssumption, TypeOK, TypeOK', Place, QueueInv, [Next]_vars
  PROVE  QueueInv'
<1>1. CASE Receive
  BY <1>1, ReceiveQueue
<1>2. CASE StartFlush
  <2>1. Queue' = Queue /\ UNCHANGED <<kafkaVars, seen, acked>>
    BY <1>2 DEF StartFlush, Quiet, Queue, resultVars
  <2> QED
    BY <2>1, QueueKept DEF kafkaVars
<1>3. CASE Acknowledge
  BY <1>3, AcknowledgeQueue
<1>4. CASE Flush /\ ~Acknowledge
  BY <1>4, FlushQueue, QueueKept DEF kafkaVars
<1>5. CASE Restart
  BY <1>5, RestartQueue
<1>6. CASE Retention \/ ConnectionLost \/ NextDay \/ UNCHANGED vars
  <2>1. UNCHANGED <<kafkaVars, memoryVars, flushVars, acked>>
    BY <1>6, RetentionFacts DEF ConnectionLost, NextDay, vars, resultVars
  <2>2. Queue' = Queue
    BY <2>1 DEF Queue, memoryVars, flushVars
  <2> QED
    BY <2>1, <2>2, QueueKept DEF kafkaVars, memoryVars
<1> QED
  BY <1>1, <1>2, <1>3, <1>4, <1>5, <1>6 DEF Next

-----------------------------------------------------------------------------
(* What the transaction has done so far *)

LEMMA WorkStarts ==
  ASSUME TypeOK, Place, RecordInv, pc = "insert", conn = "open",
         NEW i \in 1 .. Len(Work), stmt = i + 2,
         NEW d \in Event, StartOf(d, Work[i])
  PROVE  view.sessions[SessionOf[Work[i]]] # "absent"
<1> DEFINE q == IF row = 0 THEN i ELSE row
<1>1. Queue = batch /\ batch \in Seq(Event) /\ q \in 1 .. Len(batch) /\ Work[i] = batch[q]
  BY WorkFacts DEF Queue, TypeOK
<1>2. SessionOf[d] = SessionOf[Work[i]] /\ Kind[d] = "start" /\ d \notin dead \cup spoiled
  BY DEF StartOf
<1>3. d \in acked \/ \E p \in 1 .. q - 1 : batch[p] = d
  BY <1>1 DEF StartOf, RecordInv, QueueInv
<1>4. ASSUME Settled(d)
      PROVE  view.sessions[SessionOf[d]] # "absent"
  <2>1. disk.sessions[SessionOf[d]] # "absent"
    BY <1>2, <1>4 DEF Settled, Complete, SessionIn
  <2>2. SessionOf[d] \in Session
    BY StoreAssumption
  <2> QED
    BY <2>1, <2>2 DEF RecordInv, Reaches
<1>5. CASE d \in acked
  BY <1>2, <1>4, <1>5 DEF RecordInv, AckedAreSettled
<1>6. CASE \E p \in 1 .. q - 1 : batch[p] = d
  <2>1. PICK p \in 1 .. q - 1 : batch[p] = d
    BY <1>6
  <2>2. CASE row > 0
    <3>1. p \in 1 .. Len(batch) /\ p < row
      BY <1>1, <2>1, <2>2
    <3> QED
      BY <1>2, <1>4, <2>1, <3>1 DEF RecordInv, DoneAreSettled
  <2>3. CASE row = 0
    <3>1. Work = batch /\ p \in 1 .. Len(Work) /\ Work[p] = d /\ stmt > p + 2
      BY <1>1, <2>1, <2>3, WorkFacts
    <3>2. SessionIn(d, view)
      BY <1>2, <3>1 DEF RecordInv, Begun
    <3> QED
      BY <1>2, <3>2 DEF SessionIn
  <2> QED
    BY <2>2, <2>3 DEF TypeOK
<1> QED
  BY <1>3, <1>5, <1>6

LEMMA StatementDone ==
  ASSUME TypeOK, TypeOK', Place, RecordInv, InsertNext, Monotone,
         NEW i \in 1 .. Len(Work), Work[i] \notin spoiled
  PROVE  /\ stmt = 1 => LogIn(Work[i], view')
         /\ stmt = 2 => ChangeIn(Work[i], view')
         /\ stmt = i + 2 => /\ Kind[Work[i]] = "start"
                                 => view'.sessions[SessionOf[Work[i]]] # "absent"
                            /\ Kind[Work[i]] = "end" /\ (\E d \in Event : StartOf(d, Work[i]))
                                 => view'.sessions[SessionOf[Work[i]]] = "ended"
<1>0. Work \in Seq(Event)
  BY WorkFacts
<1>1. /\ Work \in Seq(Event) /\ Work[i] \in Event /\ Work[i] \in ToSet(Work)
      /\ stmt \in Statements(Work) /\ view \in Tables
  <2>1. Work[i] \in Event /\ Work[i] \in ToSet(Work)
    BY <1>0, ToSetFacts
  <2>2. stmt \in Statements(Work) /\ view \in Tables
    BY DEF TypeOK, Place
  <2> QED
    BY <1>0, <2>1, <2>2
<1>2. view' = After(Statement(Work, stmt), view) /\ pc = "insert" /\ conn = "open"
  BY DEF InsertNext, Execute, CanExecute
<1>3. CASE stmt = 1
  <2>1. view'.logs = view.logs \cup ToSet(Work)
    BY <1>1, <1>2, <1>3, AfterLogs DEF Tables
  <2> QED
    BY <1>1, <1>3, <2>1 DEF LogIn
<1>4. CASE stmt = 2
  <2>1. view'.changes = view.changes \cup {e \in ToSet(Work) : IsFile(e)}
    BY <1>1, <1>2, <1>4, AfterChanges DEF Tables
  <2> QED
    BY <1>1, <1>4, <2>1 DEF ChangeIn
<1>5. CASE stmt = i + 2
  <2> DEFINE e == Work[i]
             old == view.sessions[SessionOf[e]]
  <2>1. stmt > 2 /\ stmt - 2 = i
    BY <1>5
  <2>2. SessionOf[e] \in Session
    BY <1>1, StoreAssumption DEF StoreAssumption
  <2>3. view' = [view EXCEPT !.sessions[SessionOf[e]] = SessionAfter(e, @)]
    BY <1>1, <1>2, <2>1, AfterSessions, StoreAssumption
  <2>4. view'.sessions[SessionOf[e]] = SessionAfter(e, old)
    <3> HIDE DEF e
    <3> QED
      BY <1>1, <2>2, <2>3 DEF Tables
  <2>5. old \in {"absent", "started", "ended"}
    BY <1>1, <2>2 DEF Tables
  <2>6. (\E d \in Event : StartOf(d, e)) => old # "absent"
    BY <1>2, <1>5, WorkStarts
  <2> HIDE DEF e, old
  <2>7. /\ Kind[e] = "start" => view'.sessions[SessionOf[e]] # "absent"
        /\ Kind[e] = "end" /\ (\E d \in Event : StartOf(d, e))
              => view'.sessions[SessionOf[e]] = "ended"
    BY <2>4, <2>5, <2>6 DEF SessionAfter
  <2> QED
    BY <1>5, <2>1, <2>7 DEF e
<1>6. (stmt = i + 2 => stmt # 1 /\ stmt # 2) /\ (stmt = 1 => stmt # 2)
  OBVIOUS
<1> QED
  BY <1>3, <1>4, <1>5, <1>6

LEMMA InsertBegun ==
  ASSUME TypeOK, TypeOK', Place, RecordInv, InsertNext, Monotone
  PROVE  Begun'
<1>1. /\ Work' = Work /\ Work \in Seq(Event) /\ stmt \in Nat
      /\ pc = "insert" /\ conn = "open" /\ spoiled' = spoiled
  BY WorkFacts DEF InsertNext, CanExecute, Work, TypeOK
<1>2. Reaches(view, view')
  BY InsertMoves
<1>3. pc' = "commit" \/ (stmt' \in Nat /\ stmt' > stmt)
  BY <1>1, StatementFacts DEF InsertNext, Later
<1>4. \A n \in Statements(Work) : n > stmt => pc' # "commit" /\ stmt' <= n
  BY DEF InsertNext, Later
<1>5. SUFFICES ASSUME NEW i \in 1 .. Len(Work), NEW e \in Event, e = Work[i], e \notin spoiled
               PROVE  /\ pc' = "commit" \/ stmt' > 1 => LogIn(e, view)'
                      /\ pc' = "commit" \/ stmt' > 2 => ChangeIn(e, view)'
                      /\ pc' = "commit" \/ stmt' > i + 2 => SessionIn(e, view)'
  BY <1>1 DEF Begun
<1>6. /\ stmt > 1 => LogIn(e, view)
      /\ stmt > 2 => ChangeIn(e, view)
      /\ stmt > i + 2 => SessionIn(e, view)
  BY <1>1, <1>5 DEF RecordInv, Begun
<1>7. LogIn(e, view)'
  <2>1. CASE stmt > 1
    BY <1>2, <1>6, <2>1, CompleteStays, StoreAssumption
  <2>2. CASE stmt = 1
    BY <1>5, <2>2, StatementDone, ExpiredStays, StoreAssumption DEF LogIn
  <2> QED
    BY <2>1, <2>2 DEF TypeOK
<1>8. ASSUME pc' = "commit" \/ stmt' > 2
      PROVE  ChangeIn(e, view)'
  <2>1. CASE stmt > 2
    BY <1>2, <1>6, <2>1, CompleteStays, StoreAssumption
  <2>2. CASE stmt = 2
    BY <1>5, <2>2, StatementDone, ExpiredStays, StoreAssumption DEF ChangeIn
  <2>3. CASE stmt = 1
    <3>1. 2 \notin Statements(Work)
      BY <1>3, <1>4, <1>8, <2>3
    <3>2. ~IsFile(e)
      BY <1>1, <1>5, <3>1, StatementFacts
    <3> QED
      BY <3>2 DEF ChangeIn
  <2> QED
    BY <2>1, <2>2, <2>3 DEF TypeOK
<1>9. ASSUME pc' = "commit" \/ stmt' > i + 2
      PROVE  SessionIn(e, view)'
  <2>1. CASE stmt > i + 2
    BY <1>2, <1>6, <2>1, CompleteStays, StoreAssumption
  <2>2. CASE stmt = i + 2
    BY <1>5, <2>2, StatementDone, StartStays DEF SessionIn
  <2>3. CASE stmt < i + 2
    <3>1. i + 2 \notin Statements(Work)
      BY <1>1, <1>3, <1>4, <1>9, <2>3
    <3>2. ~IsSession(e)
      BY <1>1, <1>5, <3>1, StatementFacts
    <3> QED
      BY <3>2 DEF IsSession, SessionIn
  <2> QED
    BY <1>1, <2>1, <2>2, <2>3
<1> QED
  BY <1>7, <1>8, <1>9

\* A transaction that starts again has done nothing.
LEMMA BegunAfresh ==
  ASSUME pc' = "insert", stmt' = 1
  PROVE  Begun'
<1>1. \A i \in 1 .. Len(Work') : ~(stmt' > 1) /\ ~(stmt' > 2) /\ ~(stmt' > i + 2)
  BY Z3
<1> QED
  BY <1>1 DEF Begun

\* Whatever else happens to the connection leaves a transaction its work,
\* or ends it, or spoils its events.
LEMMA BegunElsewhere ==
  ASSUME TypeOK, TypeOK', Place, RecordInv, Monotone, UNCHANGED flushVars,
         conn' = "open" => conn = "open",
         Reaches(view, view') \/ ToSet(batch) \subseteq spoiled'
  PROVE  Begun'
<1>1. /\ Work' = Work /\ Work \in Seq(Event) /\ pc' = pc /\ stmt' = stmt
  BY WorkFacts DEF Work, flushVars
<1>2. CASE conn' # "open"
  BY <1>2 DEF Begun
<1>3. CASE conn = "open" /\ Reaches(view, view')
  <2> SUFFICES ASSUME pc \in {"insert", "commit"},
                      NEW i \in 1 .. Len(Work), NEW e \in Event, e = Work[i], e \notin spoiled
               PROVE  /\ pc = "commit" \/ stmt > 1 => LogIn(e, view)'
                      /\ pc = "commit" \/ stmt > 2 => ChangeIn(e, view)'
                      /\ pc = "commit" \/ stmt > i + 2 => SessionIn(e, view)'
    BY <1>1 DEF Begun, Monotone
  <2>1. /\ pc = "commit" \/ stmt > 1 => LogIn(e, view)
        /\ pc = "commit" \/ stmt > 2 => ChangeIn(e, view)
        /\ pc = "commit" \/ stmt > i + 2 => SessionIn(e, view)
    BY <1>3 DEF RecordInv, Begun
  <2> QED
    BY <1>3, <2>1, CompleteStays, StoreAssumption
<1>4. CASE ToSet(batch) \subseteq spoiled'
  <2>1. \A i \in 1 .. Len(Work) : Work[i] \in spoiled'
    BY <1>4, WorkFacts, ToSetFacts DEF TypeOK
  <2> QED
    BY <1>1, <2>1 DEF Begun
<1> QED
  BY <1>2, <1>3, <1>4

LEMMA FlushBegun ==
  ASSUME TypeOK, TypeOK', Place, RecordInv, Monotone, Flush
  PROVE  Begun'
<1>1. CASE InsertNext
  BY <1>1, InsertBegun
<1>2. CASE InsertRefused
  <2>1. stmt' = 1 /\ pc' \in {"insert", "ack"}
    BY <1>2, NextRowFacts DEF InsertRefused
  <2> QED
    BY <2>1, BegunAfresh DEF Begun
<1>3. CASE CommitBatch
  <2>1. stmt' = 1 /\ pc' \in {"insert", "ack"}
    BY <1>3, NextRowFacts DEF CommitBatch, Place
  <2> QED
    BY <2>1, BegunAfresh DEF Begun
<1>4. CASE Acknowledge
  BY <1>4 DEF Acknowledge, FlushOver, Begun
<1>5. CASE BatchInterrupted
  <2>1. stmt' = 1 /\ pc' \in {"insert", "idle"}
    BY <1>5, AttemptPlace DEF BatchInterrupted
  <2> QED
    BY <2>1, BegunAfresh DEF Begun
<1>6. CASE BatchConnects
  <2>1. stmt' = 1 /\ pc' \in {"insert", "idle"}
    BY <1>6, AttemptPlace DEF BatchConnects, Place, flushVars
  <2> QED
    BY <2>1, BegunAfresh DEF Begun
<1>7. CASE RowInterrupted
  BY <1>7 DEF RowInterrupted, FlushFails, FlushOver, Begun
<1>8. CASE HandleClosed
  BY <1>8 DEF HandleClosed, FlushFails, FlushOver, Begun
<1> QED
  BY <1>1, <1>2, <1>3, <1>4, <1>5, <1>6, <1>7, <1>8 DEF Flush

LEMMA BegunStep ==
  ASSUME TypeOK, TypeOK', Place, RecordInv, Monotone, [Next]_vars
  PROVE  Begun'
<1>1. CASE Flush
  BY <1>1, FlushBegun
<1>2. CASE Retention
  <2>1. UNCHANGED flushVars /\ (conn' = "open" => conn = "open")
    BY <1>2, RetentionFacts
  <2>2. Reaches(view, view') \/ ToSet(batch) \subseteq spoiled'
    BY <1>2, RetentionMoves
  <2> QED
    BY <2>1, <2>2, BegunElsewhere
<1>3. CASE ConnectionLost
  BY <1>3 DEF ConnectionLost, Begun
<1>4. CASE NextDay \/ UNCHANGED vars
  <2>1. UNCHANGED <<flushVars, view, conn>>
    BY <1>4 DEF NextDay, vars, tableVars, connVars
  <2>2. Reaches(view, view')
    BY <2>1, ReachesRefl
  <2> QED
    BY <2>1, <2>2, BegunElsewhere
<1>5. CASE Receive
  BY <1>5 DEF Receive, Quiet, flushVars, Begun
<1>6. CASE StartFlush
  BY <1>6, BegunAfresh DEF StartFlush
<1>7. CASE Restart
  BY <1>7 DEF Restart, FlushOver, Begun
<1> QED
  BY <1>1, <1>2, <1>3, <1>4, <1>5, <1>6, <1>7 DEF Next

-----------------------------------------------------------------------------
(* What is settled *)

\* A commit settles the events of the transaction.
LEMMA WorkSettled ==
  ASSUME TypeOK, TypeOK', Place, RecordInv, Monotone, CommitBatch,
         NEW i \in 1 .. Len(Work), NEW e \in Event, e = Work[i]
  PROVE  Settled(e)'
<1>1. disk' = view /\ pc = "commit" /\ conn = "open" /\ spoiled' = spoiled
  BY DEF CommitBatch, CommitWork, resultVars
<1>2. Reaches(view, disk')
  BY <1>1, ReachesRefl
<1>3. e \in spoiled \/ (LogIn(e, view) /\ ChangeIn(e, view) /\ SessionIn(e, view))
  BY <1>1 DEF RecordInv, Begun
<1> QED
  BY <1>1, <1>2, <1>3, CompleteStays, StoreAssumption DEF Settled, Complete

\* One row more is done, and it may be the last.
LEMMA DoneNext ==
  ASSUME TypeOK, TypeOK', Place, RecordInv, Monotone, Reaches(disk, disk'),
         row > 0, NextRow, batch' = batch,
         \A e \in Event : e = batch[row] => Settled(e)'
  PROVE  DoneAreSettled'
<1>1. /\ row \in Nat /\ Len(batch) \in Nat /\ batch \in Seq(Event)
      /\ \/ row < Len(batch) /\ row' = row + 1 /\ pc' = "insert"
         \/ row = Len(batch) /\ row' = row /\ pc' = "ack"
  <2>1. row \in Nat /\ batch \in Seq(Event)
    BY DEF TypeOK
  <2>2. Len(batch) \in Nat
    BY <2>1
  <2> QED
    BY <2>1, <2>2, NextRowFacts
<1> SUFFICES ASSUME NEW i \in 1 .. Len(batch), NEW e \in Event, e = batch[i],
                    i < row' \/ pc' = "ack"
             PROVE  Settled(e)'
  BY <1>1 DEF DoneAreSettled
<1>2. i < row \/ i = row
  BY <1>1
<1>3. CASE i < row
  <2>1. Settled(e)
    BY <1>3 DEF RecordInv, DoneAreSettled
  <2> QED
    BY <2>1, SettledStays, StoreAssumption
<1>4. CASE i = row
  BY <1>4
<1> QED
  BY <1>2, <1>3, <1>4

LEMMA DoneKept ==
  ASSUME TypeOK, TypeOK', Place, RecordInv, Monotone, Reaches(disk, disk'),
         batch' = batch, row' = row, pc' = "ack" => pc = "ack"
  PROVE  DoneAreSettled'
<1>0. batch \in Seq(Event)
  BY DEF TypeOK
<1> SUFFICES ASSUME NEW i \in 1 .. Len(batch), NEW e \in Event, e = batch[i],
                    i < row \/ pc = "ack"
             PROVE  Settled(e)'
  BY <1>0 DEF DoneAreSettled
<1>1. Settled(e)
  BY DEF RecordInv, DoneAreSettled
<1> QED
  BY <1>1, SettledStays, StoreAssumption

LEMMA NothingDone ==
  ASSUME Place', TypeOK', pc' = "idle" \/ (pc' # "ack" /\ row' \in {0, 1})
  PROVE  DoneAreSettled'
<1>1. CASE pc' = "idle"
  <2>1. Len(batch') = 0
    BY <1>1 DEF Place
  <2>2. \A i \in 1 .. Len(batch') : FALSE
    BY <2>1
  <2> QED
    BY <2>2 DEF DoneAreSettled
<1>2. CASE pc' # "ack" /\ row' \in {0, 1}
  <2>1. \A i \in 1 .. Len(batch') : ~(i < row') /\ pc' # "ack"
    BY <1>2 DEF TypeOK
  <2> QED
    BY <2>1 DEF DoneAreSettled
<1> QED
  BY <1>1, <1>2

LEMMA DoneStep ==
  ASSUME TypeOK, TypeOK', Place, Place', RecordInv, Monotone, Reaches(disk, disk'),
         [Next]_vars
  PROVE  DoneAreSettled'
<1>1. CASE InsertNext
  BY <1>1, DoneKept DEF InsertNext
<1>2. CASE InsertRefused
  <2>1. CASE row = 0
    BY <1>2, <2>1, NothingDone DEF InsertRefused
  <2>2. CASE row > 0
    <3>1. \A e \in Event : e = batch[row] => Settled(e)'
      BY <1>2, <2>2 DEF InsertRefused, Settled
    <3> QED
      BY <1>2, <2>2, <3>1, DoneNext DEF InsertRefused
  <2> QED
    BY <2>1, <2>2 DEF TypeOK
<1>3. CASE CommitBatch
  <2>1. CASE row = 0
    <3>1. \A i \in 1 .. Len(batch), e \in Event : e = batch[i] => Settled(e)'
      BY <1>3, <2>1, WorkFacts, WorkSettled
    <3> QED
      BY <1>3, <3>1 DEF CommitBatch, DoneAreSettled, TypeOK
  <2>2. CASE row > 0
    <3>1. \A e \in Event : e = batch[row] => Settled(e)'
      BY <1>3, <2>2, WorkFacts, WorkSettled
    <3> QED
      BY <1>3, <2>2, <3>1, DoneNext DEF CommitBatch
  <2> QED
    BY <2>1, <2>2 DEF TypeOK
<1>4. CASE Acknowledge \/ RowInterrupted \/ HandleClosed \/ Restart
  BY <1>4, NothingDone DEF Acknowledge, RowInterrupted, HandleClosed, Restart, FlushFails, FlushOver
<1>5. CASE BatchInterrupted
  BY <1>5, NothingDone, AttemptPlace DEF BatchInterrupted, NextAttempt, FlushFails, FlushOver
<1>6. CASE BatchConnects
  BY <1>6, NothingDone, DoneKept DEF BatchConnects, NextAttempt, FlushFails, FlushOver, flushVars
<1>7. CASE StartFlush
  BY <1>7, NothingDone DEF StartFlush
<1>8. CASE Receive \/ Retention \/ ConnectionLost \/ NextDay \/ UNCHANGED vars
  <2>1. UNCHANGED flushVars
    BY <1>8, RetentionFacts DEF Receive, ConnectionLost, NextDay, vars
  <2> QED
    BY <2>1, DoneKept DEF flushVars
<1> QED
  BY <1>1, <1>2, <1>3, <1>4, <1>5, <1>6, <1>7, <1>8 DEF Next, Flush

LEMMA AckedStep ==
  ASSUME TypeOK, TypeOK', Place, RecordInv, Monotone, Reaches(disk, disk'), [Next]_vars
  PROVE  AckedAreSettled'
<1>1. ASSUME NEW e \in acked'
      PROVE  e \in Event /\ Settled(e)
  <2>1. CASE Acknowledge
    <3>1. CASE e \in acked
      BY <3>1 DEF RecordInv, AckedAreSettled, TypeOK
    <3>2. CASE e \notin acked
      <4>1. e \in ToSet(batch) /\ batch \in Seq(Event) /\ pc = "ack"
        BY <1>1, <2>1, <3>2 DEF Acknowledge, TypeOK
      <4>2. PICK i \in 1 .. Len(batch) : batch[i] = e
        BY <4>1, ToSetFacts
      <4> QED
        BY <4>1, <4>2 DEF RecordInv, DoneAreSettled
    <3> QED
      BY <3>1, <3>2
  <2>2. CASE ~Acknowledge
    <3>1. acked' = acked
      <4>1. CASE Flush
        BY <2>2, <4>1, FlushQueue
      <4>2. CASE Retention
        BY <4>2, RetentionFacts
      <4>3. CASE ~Flush /\ ~Retention
        BY <4>3 DEF Next, Receive, StartFlush, ConnectionLost, Restart, NextDay, vars, resultVars
      <4> QED
        BY <4>1, <4>2, <4>3
    <3> QED
      BY <1>1, <3>1 DEF RecordInv, AckedAreSettled, TypeOK
  <2> QED
    BY <2>1, <2>2
<1> QED
  BY <1>1, SettledStays, StoreAssumption DEF AckedAreSettled

-----------------------------------------------------------------------------
(* Theorems *)

LEMMA InvInit == Init => IInv
<1> SUFFICES ASSUME Init PROVE IInv
  OBVIOUS
<1>1. TypeOK /\ Place
  BY TypeInit
<1>2. Reaches(disk, view)
  BY ReachesRefl DEF Init
<1>3. AckedAreSettled /\ DoneAreSettled /\ Begun
  BY DEF Init, AckedAreSettled, DoneAreSettled, Begun
<1>4. QueueInv
  BY DEF Init, QueueInv, Queue
<1> QED
  BY <1>1, <1>2, <1>3, <1>4 DEF IInv, RecordInv

LEMMA InvStep == IInv /\ [Next]_vars => IInv'
<1> SUFFICES ASSUME IInv, [Next]_vars PROVE IInv'
  OBVIOUS
<1>1. TypeOK /\ Place /\ RecordInv
  BY DEF IInv
<1>2. TypeOK' /\ Place' /\ Monotone /\ TableMove
  BY <1>1, TypeStep, PlaceStep, MonotoneStep, TablesMove
<1>3. Reaches(disk, disk') /\ Reaches(disk', view')
  BY <1>1, <1>2, MoveReaches DEF RecordInv
<1>4. Reaches(disk, view)'
  <2>1. \A e \in Event : Expired(e) => Expired(e)'
    BY <1>1, <1>2, ExpiredStays, StoreAssumption
  <2>2. disk'.logs \subseteq Event /\ disk'.changes \subseteq Event
    BY <1>2 DEF TypeOK, Tables
  <2> QED
    BY <1>3, <2>1, <2>2 DEF Reaches
<1>5. AckedAreSettled' /\ DoneAreSettled' /\ Begun' /\ QueueInv'
  BY <1>1, <1>2, <1>3, AckedStep, DoneStep, BegunStep, QueueStep, StoreAssumption DEF RecordInv
<1> QED
  BY <1>2, <1>4, <1>5 DEF IInv, RecordInv

LEMMA InvAlways == Spec => []IInv
  BY InvInit, InvStep, PTL DEF Spec

\* For any retention run, fault or restart: what the flush has acknowledged
\* is in its tables as a whole, or dead-lettered, or expired, or was spoiled.
THEOREM AckedRowsAreKept == Spec => []AckedIsKept
<1>1. IInv => AckedIsKept
  BY DEF IInv, RecordInv, AckedAreSettled, Settled, Complete, LogIn, ChangeIn,
         AckedIsKept, Kept, Whole
<1> QED
  BY <1>1, InvAlways, PTL

\* Whatever the topic repeats and however often a batch is tried again, a
\* session that was flushed with its end after its start is closed.
THEOREM SessionsAreClosed == Spec => []SessionsClose
<1>1. IInv => SessionsClose
  <2> SUFFICES ASSUME IInv, NEW d \in Event, NEW e \in Event,
                      StartAndEnd(d, e), Precedes(d, e)
               PROVE  disk.sessions[SessionOf[e]] = "ended"
    BY DEF SessionsClose
  <2>1. StartOf(d, e) /\ e \in acked \ (dead \cup spoiled)
    BY DEF StartAndEnd, StartOf
  <2>2. SessionIn(e, disk)
    BY <2>1 DEF IInv, RecordInv, AckedAreSettled, Settled, Complete
  <2> QED
    BY <2>1, <2>2 DEF SessionIn, StartAndEnd
<1> QED
  BY <1>1, InvAlways, PTL

-----------------------------------------------------------------------------
(* Rows that go *)

\* What a step takes from the table of logs, and what it adds.
Going(e) == \/ e \in disk.logs \ view.logs
            \/ e \in view.logs /\ ret = "delete_logs" /\ Expired(e)

LogsMove ==
  /\ \A e \in disk'.logs \cup view'.logs :
        e \in disk.logs \cup view.logs \/ (Expired(e) => e \in late')
  /\ \A e \in disk'.logs \ view'.logs : Going(e)
  /\ \A e \in disk.logs \ disk'.logs : Going(e)

LEMMA PlainLogsMove ==
  ASSUME \/ UNCHANGED <<disk, view>>
         \/ view' = disk /\ disk' = disk
         \/ view' = view /\ disk' \in {disk, view}
  PROVE  LogsMove
  BY DEF LogsMove, Going

LEMMA InsertLogsMove ==
  ASSUME TypeOK, Place, InsertNext
  PROVE  LogsMove
<1> DEFINE s == Statement(Work, stmt)
           t == After(s, view)
<1>1. /\ view' = t /\ disk' \in {disk, t} /\ late' = late \cup {e \in s.rows : Expired(e)}
  BY DEF InsertNext, Execute
<1>2. t.logs = view.logs \/ t.logs = view.logs \cup s.rows
  <2>1. Work \in Seq(Event) /\ stmt \in Statements(Work) /\ view \in Tables
    BY WorkFacts DEF Place, TypeOK
  <2>2. stmt = 1 \/ stmt = 2 \/ stmt > 2
    BY <2>1, StatementFacts
  <2>3. CASE stmt = 1
    <3>1. s.rows = ToSet(Work)
      BY <2>3 DEF Statement
    <3>2. t.logs = view.logs \cup ToSet(Work)
      BY <2>1, <2>3, AfterLogs DEF Tables
    <3> QED
      BY <3>1, <3>2
  <2>4. CASE stmt = 2
    BY <2>1, <2>4, AfterChanges DEF Tables
  <2>5. CASE stmt > 2
    <3> DEFINE e == Work[stmt - 2]
    <3>1. t = [view EXCEPT !.sessions[SessionOf[e]] = SessionAfter(e, @)]
      BY <2>1, <2>5, AfterSessions, StoreAssumption
    <3> HIDE DEF e, t
    <3> QED
      BY <2>1, <3>1 DEF Tables
  <2> QED
    BY <2>2, <2>3, <2>4, <2>5
<1> HIDE DEF s, t
<1> QED
  BY <1>1, <1>2 DEF LogsMove, Going

LEMMA DeleteLogsMove ==
  ASSUME TypeOK, DeleteLogs
  PROVE  LogsMove
<1> DEFINE t == [view EXCEPT !.logs = {e \in @ : ~Due(e)}]
<1>1. view' = t /\ disk' \in {disk, t} /\ ret = "delete_logs"
  BY DEF DeleteLogs, Execute
<1>2. t.logs = {e \in view.logs : ~Expired(e)}
  BY DEF TypeOK, Tables, Due
<1> HIDE DEF t
<1> QED
  BY <1>1, <1>2 DEF LogsMove, Going

LEMMA DeleteChangesMove ==
  ASSUME TypeOK, DeleteChanges
  PROVE  LogsMove
<1> DEFINE t == [view EXCEPT !.changes = {e \in @ : ~Due(e)}]
<1>1. CASE UNCHANGED tableVars
  BY <1>1, PlainLogsMove DEF tableVars
<1>2. CASE Execute(t)
  <2>1. t.logs = view.logs
    BY DEF TypeOK, Tables
  <2>2. view' = t /\ disk' \in {disk, t}
    BY <1>2 DEF Execute
  <2> HIDE DEF t
  <2> QED
    BY <2>1, <2>2 DEF LogsMove, Going
<1> QED
  BY <1>1, <1>2 DEF DeleteChanges

LEMMA LogsStep ==
  ASSUME TypeOK, Place, [Next]_vars
  PROVE  LogsMove
<1> USE DEF tableVars
<1>1. CASE InsertNext
  BY <1>1, InsertLogsMove
<1>2. CASE DeleteLogs
  BY <1>2, DeleteLogsMove
<1>3. CASE DeleteChanges
  BY <1>3, DeleteChangesMove
<1>4. CASE SelectOldRows
  BY <1>4, PlainLogsMove DEF SelectOldRows, Execute
<1>5. CASE Flush /\ ~InsertNext
  BY <1>5, PlainLogsMove DEF Flush, InsertRefused, CommitBatch, Acknowledge,
       BatchInterrupted, BatchConnects, RowInterrupted, HandleClosed, Rollback, CommitWork
<1>6. CASE WriteArchive \/ ArchiveFails \/ CommitDeletes \/ SetAutocommit \/ Vacuum
           \/ RestoreAutocommit \/ RetentionTimesOut \/ Raises
  BY <1>6, PlainLogsMove DEF WriteArchive, ArchiveFails, CommitDeletes, CommitShared,
       CommitWork, SetAutocommit, Vacuum, RestoreAutocommit, RetentionTimesOut,
       StatementFails, Raises
<1>7. CASE Receive \/ StartFlush \/ ConnectionLost \/ Restart \/ NextDay \/ UNCHANGED vars
  BY <1>7, PlainLogsMove DEF Receive, StartFlush, ConnectionLost, Restart, NextDay, vars,
       Rollback, CommitWork
<1> QED
  BY <1>1, <1>2, <1>3, <1>4, <1>5, <1>6, <1>7 DEF Next, Retention

\* When the retention thread comes to write and to delete.
ThreadMove ==
  /\ archived \subseteq archived' /\ late \subseteq late'
  /\ ret' # "asleep" => day' = day
  /\ ret' \in {"write", "delete_logs"} =>
        \/ UNCHANGED <<ret, picked>>
        \/ SelectOldRows
        \/ WriteArchive

LEMMA ThreadStep ==
  ASSUME [Next]_vars
  PROVE  ThreadMove
<1> USE DEF ThreadMove
<1>1. CASE Receive \/ StartFlush \/ ConnectionLost \/ Restart \/ NextDay \/ UNCHANGED vars
  BY <1>1 DEF Receive, StartFlush, ConnectionLost, Restart, NextDay, vars,
       retentionVars, resultVars
<1>2. CASE Flush
  BY <1>2 DEF Flush, InsertNext, InsertRefused, CommitBatch, Acknowledge,
       BatchInterrupted, BatchConnects, RowInterrupted, HandleClosed, Reconnect,
       NextAttempt, FlushFails, retentionVars, resultVars
<1>3. CASE Retention
  <2>1. UNCHANGED <<day, late>>
    BY <1>3, RetentionFacts
  <2>2. CASE SelectOldRows
    BY <2>1, <2>2 DEF SelectOldRows
  <2>3. CASE WriteArchive
    BY <2>1, <2>3 DEF WriteArchive
  <2>4. CASE Retention /\ ~SelectOldRows /\ ~WriteArchive
    BY <2>1, <2>4 DEF Retention, ArchiveFails, DeleteLogs, DeleteChanges, CommitDeletes,
         SetAutocommit, Vacuum, RestoreAutocommit, RetentionTimesOut, Raises, RetentionOver
  <2> QED
    BY <1>3, <2>2, <2>3, <2>4
<1> QED
  BY <1>1, <1>2, <1>3 DEF Next

\* The limit of the archive query is not reached: see bug_archive_limit.cfg.
OldRows == {e \in view.logs : Older(e, ArchiveDays)}
LimitSuffices == IsFiniteSet(OldRows) /\ Cardinality(OldRows) <= ArchiveLimit

LEMMA AllArePicked ==
  ASSUME LimitSuffices, SelectOldRows
  PROVE  picked' = OldRows
<1>1. picked' \in OldestRows(OldRows)
  BY DEF SelectOldRows, OldRows
<1>2. /\ picked' \in SUBSET OldRows
      /\ Cardinality(picked') = IF Cardinality(OldRows) < ArchiveLimit
                                THEN Cardinality(OldRows) ELSE ArchiveLimit
  BY <1>1 DEF OldestRows
<1>3. Cardinality(OldRows) \in Nat /\ ArchiveLimit \in Nat
  BY FS_CardinalityType, StoreAssumption DEF LimitSuffices, StoreAssumption
<1>4. Cardinality(picked') = Cardinality(OldRows)
  BY <1>2, <1>3 DEF LimitSuffices
<1> HIDE DEF OldRows
<1> QED
  BY <1>2, <1>4, FS_Subset DEF LimitSuffices

LEMMA ExpiredIsOld ==
  ASSUME ArchiveComesFirst, TypeOK, NEW e \in Event, Expired(e)
  PROVE  Older(e, ArchiveDays)
<1>1. /\ Stamp[e] \in Nat /\ RetentionDays \in Nat /\ ArchiveDays \in Nat
      /\ ArchiveDays <= RetentionDays /\ day \in Nat
  BY StoreAssumption DEF StoreAssumption, ArchiveComesFirst, TypeOK
<1> QED
  BY <1>1 DEF Expired, Older

\* The rows the transaction has deleted are the archive's already.
LEMMA GoingMayGo ==
  ASSUME ArchiveInv, NEW e \in Event, Going(e)
  PROVE  Expired(e) /\ MayGo(e)
  BY DEF ArchiveInv, Going

LEMMA ArchiveStep ==
  ASSUME ArchiveComesFirst, TypeOK, TypeOK', Place, ArchiveInv, LimitSuffices,
         [Next]_vars
  PROVE  ArchiveInv'
<1>1. LogsMove /\ ThreadMove /\ Monotone
  BY LogsStep, ThreadStep, MonotoneStep
<1>2. /\ disk'.logs \subseteq Event /\ view'.logs \subseteq Event
      /\ disk.logs \subseteq Event /\ view.logs \subseteq Event
  BY DEF TypeOK, Tables
<1>3. \A e \in Event : Expired(e) => Expired(e)'
  BY <1>1, ExpiredStays, StoreAssumption
<1>4. \A e : MayGo(e) => MayGo(e)'
  BY <1>1 DEF ThreadMove, MayGo
<1>5. \A e \in disk'.logs \ view'.logs : Expired(e)' /\ MayGo(e)'
  BY <1>1, <1>2, <1>3, <1>4, GoingMayGo DEF LogsMove
<1>6. ASSUME ret' \in {"write", "delete_logs"},
             NEW e \in disk'.logs \cup view'.logs, Expired(e)'
      PROVE  MayGo(e)' \/ (ret' = "write" /\ e \in picked')
  <2>1. Expired(e) /\ e \in Event
    BY <1>1, <1>2, <1>6 DEF ThreadMove, Expired, Older
  <2>2. MayGo(e)' \/ e \in disk.logs \cup view.logs
    BY <1>1, <2>1 DEF LogsMove, MayGo
  <2>3. CASE e \in disk.logs \cup view.logs
    <3>1. CASE UNCHANGED <<ret, picked>>
      BY <1>4, <1>6, <2>1, <2>3, <3>1 DEF ArchiveInv
    <3>2. CASE WriteArchive
      <4>1. e \in picked \/ MayGo(e)
        BY <2>1, <2>3, <3>2 DEF ArchiveInv, WriteArchive
      <4> QED
        BY <1>4, <3>2, <4>1 DEF WriteArchive, MayGo
    <3>3. CASE SelectOldRows
      <4>1. CASE e \in view.logs
        <5>1. e \in picked'
          BY <2>1, <3>3, <4>1, AllArePicked, ExpiredIsOld DEF OldRows
        <5> QED
          BY <3>3, <5>1 DEF SelectOldRows
      <4>2. CASE e \in disk.logs \ view.logs
        BY <1>4, <4>2 DEF ArchiveInv
      <4> QED
        BY <2>3, <4>1, <4>2
    <3> QED
      BY <1>1, <1>6, <3>1, <3>2, <3>3 DEF ThreadMove
  <2> QED
    BY <2>2, <2>3
<1> QED
  BY <1>5, <1>6 DEF ArchiveInv

LEMMA DeletesStep ==
  ASSUME TypeOK, Place, ArchiveInv, [Next]_vars
  PROVE  \A e \in disk.logs \ disk'.logs :
            Expired(e) /\ (e \in archived \/ e \in late)
<1>1. LogsMove
  BY LogsStep
<1>2. disk.logs \subseteq Event
  BY DEF TypeOK, Tables
<1> QED
  BY <1>1, <1>2, GoingMayGo DEF LogsMove, MayGo

\* If rows are archived before they expire, and the archive query's LIMIT
\* takes all old rows, nothing is deleted that has not expired, or that is
\* in no archive.
THEOREM DeletedRowsWereDue ==
  ArchiveComesFirst /\ Spec /\ []LimitSuffices => DeletesAreDue
<1> SUFFICES ASSUME ArchiveComesFirst
             PROVE  Spec /\ []LimitSuffices => DeletesAreDue
  OBVIOUS
<1> DEFINE AInv == TypeOK /\ Place /\ ArchiveInv
           Due1 == \A e \in disk.logs \ disk'.logs :
                      Expired(e) /\ (e \in archived \/ e \in late)
<1>1. Init => AInv
  <2>1. Init => TypeOK /\ Place
    BY TypeInit
  <2>2. Init => ArchiveInv
    BY DEF Init, ArchiveInv
  <2> QED
    BY <2>1, <2>2
<1>2. AInv /\ LimitSuffices /\ [Next]_vars => AInv'
  BY TypeStep, PlaceStep, ArchiveStep
<1>3. AInv /\ [Next]_vars => [Due1]_vars
  BY DeletesStep
<1> HIDE DEF AInv
<1> QED
  BY <1>1, <1>2, <1>3, PTL DEF Spec, DeletesAreDue
=============================================================================
