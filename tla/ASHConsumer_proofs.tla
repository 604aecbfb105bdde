------------------------- MODULE ASHConsumer_proofs -------------------------
(***************************************************************************)
(* Theorems about ASHConsumer that hold for every set of lines, every      *)
(* batch size and cache size, and every combination of faults.             *)
(***************************************************************************)
EXTENDS ASHConsumer, FiniteSetTheorems, SequenceTheorems,
        WellFoundedInduction, TLAPS

(***************************************************************************)
(* The set of elements of a sequence, under the operations of the model.   *)
(***************************************************************************)
LEMMA ToSetEmpty == ToSet(<<>>) = {}
  BY DEF ToSet

LEMMA ToSetType ==
  ASSUME NEW S, NEW s \in Seq(S)
  PROVE  ToSet(s) \subseteq S
  BY DEF ToSet

LEMMA ToSetAppend ==
  ASSUME NEW S, NEW s \in Seq(S), NEW x \in S
  PROVE  ToSet(Append(s, x)) = ToSet(s) \cup {x}
<1> DEFINE a == Append(s, x)
<1>1. /\ a \in Seq(S)
      /\ DOMAIN a = 1 .. Len(s) + 1
      /\ DOMAIN s = 1 .. Len(s)
      /\ Len(s) \in Nat
  OBVIOUS
<1>2. \A i \in 1 .. Len(s) : a[i] = s[i]
  OBVIOUS
<1>3. a[Len(s) + 1] = x
  OBVIOUS
<1>4. ToSet(a) \subseteq ToSet(s) \cup {x}
  <2> SUFFICES ASSUME NEW i \in DOMAIN a
               PROVE  a[i] \in ToSet(s) \cup {x}
    BY DEF ToSet
  <2>1. i \in 1 .. Len(s) \/ i = Len(s) + 1
    BY <1>1
  <2> QED
    BY <2>1, <1>1, <1>2, <1>3 DEF ToSet
<1>5. ToSet(s) \subseteq ToSet(a)
  <2> SUFFICES ASSUME NEW i \in DOMAIN s
               PROVE  s[i] \in ToSet(a)
    BY DEF ToSet
  <2>1. i \in DOMAIN a /\ a[i] = s[i]
    BY <1>1, <1>2
  <2> QED
    BY <2>1 DEF ToSet
<1>6. x \in ToSet(a)
  <2>1. Len(s) + 1 \in DOMAIN a
    BY <1>1
  <2> QED
    BY <2>1, <1>3 DEF ToSet
<1> QED
  BY <1>4, <1>5, <1>6

LEMMA ToSetConcat ==
  ASSUME NEW S, NEW s \in Seq(S), NEW t \in Seq(S)
  PROVE  ToSet(s \o t) = ToSet(s) \cup ToSet(t)
<1> DEFINE c == s \o t
<1>1. /\ DOMAIN c = 1 .. Len(s) + Len(t)
      /\ DOMAIN s = 1 .. Len(s)
      /\ DOMAIN t = 1 .. Len(t)
      /\ Len(s) \in Nat
      /\ Len(t) \in Nat
  OBVIOUS
<1>2. \A i \in 1 .. Len(s) : c[i] = s[i]
  OBVIOUS
<1>3. \A i \in 1 .. Len(t) : c[Len(s) + i] = t[i]
  OBVIOUS
<1>4. ToSet(c) \subseteq ToSet(s) \cup ToSet(t)
  <2> SUFFICES ASSUME NEW i \in DOMAIN c
               PROVE  c[i] \in ToSet(s) \cup ToSet(t)
    BY DEF ToSet
  <2>1. CASE i \in 1 .. Len(s)
    BY <2>1, <1>1, <1>2 DEF ToSet
  <2>2. CASE i \notin 1 .. Len(s)
    <3> DEFINE j == i - Len(s)
    <3>1. j \in 1 .. Len(t) /\ i = Len(s) + j
      BY <2>2, <1>1
    <3>2. c[i] = t[j]
      BY <3>1, <1>3
    <3> QED
      BY <3>1, <3>2, <1>1 DEF ToSet
  <2> QED
    BY <2>1, <2>2
<1>5. ToSet(s) \subseteq ToSet(c)
  <2> SUFFICES ASSUME NEW i \in DOMAIN s
               PROVE  s[i] \in ToSet(c)
    BY DEF ToSet
  <2>1. i \in DOMAIN c /\ c[i] = s[i]
    BY <1>1, <1>2
  <2> QED
    BY <2>1 DEF ToSet
<1>6. ToSet(t) \subseteq ToSet(c)
  <2> SUFFICES ASSUME NEW i \in DOMAIN t
               PROVE  t[i] \in ToSet(c)
    BY DEF ToSet
  <2>1. Len(s) + i \in DOMAIN c /\ c[Len(s) + i] = t[i]
    BY <1>1, <1>3
  <2> QED
    BY <2>1 DEF ToSet
<1> QED
  BY <1>4, <1>5, <1>6

(***************************************************************************)
(* Writing k lines of a batch, in whatever order the grouping by host      *)
(* gives them, adds only lines of that batch to the files, and all of them *)
(* if k is the length of the batch.                                        *)
(***************************************************************************)
LEMMA LinesWrittenFacts ==
  ASSUME jsonl \in Seq(Payload),
         NEW b \in Seq(Payload), NEW k \in 0 .. Len(b), LinesWritten(b, k)
  PROVE  /\ jsonl' \in Seq(Payload)
         /\ ToSet(jsonl) \subseteq ToSet(jsonl')
         /\ ToSet(jsonl') \subseteq ToSet(jsonl) \cup ToSet(b)
         /\ k = Len(b) => ToSet(jsonl') = ToSet(jsonl) \cup ToSet(b)
<1>1. PICK f \in [1 .. Len(b) -> 1 .. Len(b)] :
        /\ GroupedByHost(b, f)
        /\ jsonl' = jsonl \o [i \in 1 .. k |-> b[f[i]]]
  BY DEF LinesWritten
<1> DEFINE w == [i \in 1 .. k |-> b[f[i]]]
<1>2. /\ Len(b) \in Nat
      /\ k \in Nat
      /\ DOMAIN b = 1 .. Len(b)
      /\ \A i \in 1 .. Len(b) : b[i] \in Payload
  OBVIOUS
<1>3. \A i \in 1 .. k : f[i] \in 1 .. Len(b)
  BY <1>2
<1>4. w \in [1 .. k -> Payload]
  BY <1>2, <1>3
<1>5. w \in Seq(Payload) /\ DOMAIN w = 1 .. k
  BY <1>2, <1>4
<1> HIDE DEF w
<1>6. jsonl' = jsonl \o w
  BY <1>1 DEF w
<1>7. jsonl' \in Seq(Payload)
  BY <1>5, <1>6
<1>8. ToSet(jsonl') = ToSet(jsonl) \cup ToSet(w)
  BY <1>5, <1>6, ToSetConcat
<1>9. ToSet(w) \subseteq ToSet(b)
  <2> SUFFICES ASSUME NEW i \in 1 .. k
               PROVE  w[i] \in ToSet(b)
    BY <1>5 DEF ToSet
  <2>1. w[i] = b[f[i]] /\ f[i] \in DOMAIN b
    BY <1>2, <1>3 DEF w
  <2> QED
    BY <2>1 DEF ToSet
<1>10. k = Len(b) => ToSet(b) \subseteq ToSet(w)
  <2> SUFFICES ASSUME k = Len(b), NEW j \in 1 .. Len(b)
               PROVE  b[j] \in ToSet(w)
    BY <1>2 DEF ToSet
  <2>1. PICK i \in 1 .. Len(b) : f[i] = j
    BY <1>1 DEF GroupedByHost
  <2>2. i \in DOMAIN w /\ w[i] = b[j]
    BY <2>1, <1>5 DEF w
  <2> QED
    BY <2>2 DEF ToSet
<1> QED
  BY <1>7, <1>8, <1>9, <1>10

-----------------------------------------------------------------------------
(* Types *)

LEMMA TypeOfProcessGone ==
  ASSUME TypeOK, ProcessGone, UNCHANGED <<kafkaVars, storeVars>>,
         faults' \in Nat
  PROVE  TypeOK'
<1> USE PayloadAssumption
    DEF ProcessGone, kafkaVars, storeVars, TypeOK, Thread, NoThread, NoOffset,
        MainPc, TimerPc
<1>1. pc' \in [Thread -> MainPc \cup TimerPc]
  OBVIOUS
<1>2. batch' \in [Thread -> Seq(Payload)]
  OBVIOUS
<1>3. message' \in Payload <=> pc'["main"] = "process"
  OBVIOUS
<1>4. position' \in 0 .. Len(topic') \cup {NoOffset}
  OBVIOUS
<1> QED
  BY <1>1, <1>2, <1>3, <1>4

LEMMA FlushOverFacts ==
  ASSUME TypeOK, NEW t \in Thread, FlushOver(t)
  PROVE  /\ pc' \in [Thread -> MainPc \cup TimerPc]
         /\ batch' \in [Thread -> Seq(Payload)]
         /\ lock' \in Thread \cup {NoThread}
         /\ batch'[t] = <<>>
         /\ \A u \in Thread \ {t} : pc'[u] = pc[u] /\ batch'[u] = batch[u]
         /\ t = "main" => pc'[t] = "commit" /\ lock' = lock
         /\ t = "timer" => pc'[t] \in {"sleep", "down"} /\ lock' = NoThread
<1> DEFINE next == IF t = "main" THEN "commit"
                   ELSE IF running THEN "sleep" ELSE "down"
<1>1. /\ pc' = [pc EXCEPT ![t] = next]
      /\ batch' = [batch EXCEPT ![t] = <<>>]
      /\ lock' = IF t = "main" THEN lock ELSE NoThread
  BY DEF FlushOver, LockAfterFlush
<1>2. /\ t = "main" => next = "commit"
      /\ t # "main" => next \in {"sleep", "down"}
  <2>1. CASE running
    BY <2>1, Zenon
  <2>2. CASE ~running
    BY <2>2, Zenon
  <2> QED
    BY <2>1, <2>2
<1> HIDE DEF next
<1> QED
  BY <1>1, <1>2 DEF TypeOK, Thread, MainPc, TimerPc

LEMMA SnapshotFacts ==
  ASSUME TypeOK, NEW t \in Thread, NEW c \in Seq(Payload), Snapshot(t, c)
  PROVE  /\ pc' \in [Thread -> MainPc \cup TimerPc]
         /\ batch' \in [Thread -> Seq(Payload)]
         /\ buffer' = <<>>
         /\ pc'[t] \in {"database", "file"}
         /\ DatabaseEnabled => pc'[t] = "database"
         /\ batch'[t] = c
         /\ \A u \in Thread \ {t} : pc'[u] = pc[u] /\ batch'[u] = batch[u]
<1>1. /\ FirstStage \in {"database", "file"}
      /\ DatabaseEnabled => FirstStage = "database"
  BY Zenon DEF FirstStage
<1>2. /\ batch' = [batch EXCEPT ![t] = c]
      /\ buffer' = <<>>
      /\ pc' = [pc EXCEPT ![t] = FirstStage]
  BY DEF Snapshot
<1> QED
  BY <1>1, <1>2 DEF TypeOK, MainPc, TimerPc

LEMMA SnapshotType ==
  ASSUME TypeOK, NEW c \in Seq(Payload), Snapshot("main", c)
  PROVE  /\ pc' \in [Thread -> MainPc \cup TimerPc]
         /\ batch' \in [Thread -> Seq(Payload)]
         /\ buffer' \in Seq(Payload)
         /\ pc'["main"] # "process"
<1>1. "main" \in Thread
  BY DEF Thread
<1>2. /\ pc' \in [Thread -> MainPc \cup TimerPc]
      /\ batch' \in [Thread -> Seq(Payload)]
      /\ buffer' = <<>>
      /\ pc'["main"] \in {"database", "file"}
  BY <1>1, SnapshotFacts, Zenon
<1> QED
  BY <1>2

LEMMA RowsDoneType ==
  ASSUME TypeOK, NEW t \in Thread, NEW k \in 0 .. Len(batch[t]), RowsDone(t, k)
  PROVE  db' \subseteq Payload /\ deadLetters' \subseteq Payload
<1>1. {batch[t][i] : i \in 1 .. k} \subseteq Payload
  BY DEF TypeOK
<1> QED
  BY <1>1 DEF RowsDone, TypeOK

LEMMA TypeOfFlushFails ==
  ASSUME TypeOK, NEW t \in Thread, Flushing(t), FlushFails(t),
         conn' \in {"open", "closed"}, faults' \in Nat,
         db' \subseteq Payload, deadLetters' \subseteq Payload,
         jsonl' \in Seq(Payload)
  PROVE  TypeOK'
<1>1. FlushOver(t)
  BY DEF FlushFails
<1>2. buffer' \in Seq(Payload)
  BY DEF FlushFails, PutBack, TypeOK
<1>3. message' \in Payload <=> pc'["main"] = "process"
  BY <1>1, FlushOverFacts DEF FlushFails, Flushing, Thread, TypeOK
<1> QED
  BY <1>1, <1>2, <1>3, FlushOverFacts
  DEF FlushFails, kafkaVars, historyVars, TypeOK

LEMMA TypeOfFlush ==
  ASSUME TypeOK, NEW t \in Thread, Flush(t)
  PROVE  TypeOK'
<1> USE FaultAssumption
    DEF DatabaseDone, kafkaVars, memoryVars, historyVars, storeVars,
        Fault, NoFault, Flushing
<1>1. ToSet(batch[t]) \subseteq Payload
  BY ToSetType DEF TypeOK
<1>2. DatabaseDone(t) /\ pc[t] = "database" =>
        /\ pc' \in [Thread -> MainPc \cup TimerPc]
        /\ message' \in Payload <=> pc'["main"] = "process"
  BY DEF TypeOK, Thread, MainPc, TimerPc
<1>3. CASE BatchInserted(t)
  BY <1>1, <1>2, <1>3 DEF BatchInserted, TypeOK
<1>4. CASE RowsInserted(t)
  <2>1. RowsDone(t, Len(batch[t])) /\ Len(batch[t]) \in 0 .. Len(batch[t])
    BY <1>4 DEF RowsInserted, TypeOK
  <2> QED
    BY <1>2, <1>4, <2>1, RowsDoneType DEF RowsInserted, TypeOK
<1>5. CASE RowsInterrupted(t)
  <2>1. PICK k \in 0 .. Len(batch[t]) - 1 : RowsDone(t, k)
    BY <1>5 DEF RowsInterrupted
  <2>2. k \in 0 .. Len(batch[t])
    BY <2>1 DEF TypeOK
  <2>3. conn' \in {"open", "closed"} /\ faults' \in Nat /\ jsonl' = jsonl
    BY <1>5 DEF RowsInterrupted, TypeOK
  <2>4. FlushFails(t) /\ Flushing(t)
    BY <1>5 DEF RowsInterrupted
  <2> QED
    BY <2>1, <2>2, <2>3, <2>4, RowsDoneType, TypeOfFlushFails DEF TypeOK
<1>6. CASE DatabaseUnreachable(t)
  <2>1. db' \subseteq Payload
    BY <1>1, <1>6 DEF DatabaseUnreachable, TypeOK
  <2>2. FlushFails(t) /\ Flushing(t)
    BY <1>6 DEF DatabaseUnreachable
  <2>3. /\ conn' \in {"open", "closed"}
        /\ faults' \in Nat
        /\ deadLetters' \subseteq Payload
        /\ jsonl' \in Seq(Payload)
    BY <1>6 DEF DatabaseUnreachable, TypeOK
  <2> QED
    BY <2>1, <2>2, <2>3, TypeOfFlushFails
<1>7. CASE DriverRefuses(t)
  BY <1>7, TypeOfFlushFails DEF DriverRefuses, TypeOK
<1>8. CASE HandleClosed(t)
  BY <1>8, TypeOfFlushFails DEF HandleClosed, TypeOK
<1>9. CASE FileAppended(t)
  <2>1. LinesWritten(batch[t], Len(batch[t]))
    BY <1>9 DEF FileAppended
  <2>2. jsonl' \in Seq(Payload)
    BY <2>1, LinesWrittenFacts DEF TypeOK
  <2>3. FlushOver(t) /\ Flushing(t)
    BY <1>9 DEF FileAppended
  <2>4. message' \in Payload <=> pc'["main"] = "process"
    BY <1>9, <2>3, FlushOverFacts DEF FileAppended, Thread, TypeOK
  <2> QED
    BY <1>9, <2>2, <2>3, <2>4, FlushOverFacts DEF FileAppended, TypeOK
<1>10. CASE FileFails(t)
  <2>1. PICK k \in 0 .. Len(batch[t]) : LinesWritten(batch[t], k)
    BY <1>10 DEF FileFails
  <2>2. jsonl' \in Seq(Payload)
    BY <2>1, LinesWrittenFacts DEF TypeOK
  <2> QED
    <3>1. FlushFails(t) /\ Flushing(t)
      BY <1>10 DEF FileFails
    <3>2. faults' \in Nat /\ UNCHANGED <<conn, db, deadLetters>>
      BY <1>10 DEF FileFails, TypeOK
    <3> QED
      BY <2>2, <3>1, <3>2, TypeOfFlushFails DEF TypeOK
<1> QED
  BY <1>3, <1>4, <1>5, <1>6, <1>7, <1>8, <1>9, <1>10 DEF Flush

LEMMA TypeStep ==
  ASSUME TypeOK, [Next]_vars
  PROVE  TypeOK'
<1> USE PayloadAssumption, ConfigAssumption, FaultAssumption
    DEF kafkaVars, memoryVars, historyVars, storeVars, vars,
        Fault, NoFault, TypeOK, Thread, NoThread, NoOffset, MainPc, TimerPc
<1>1. CASE UNCHANGED vars
  BY <1>1
<1>2. CASE Assign
  BY <1>2 DEF Assign, StartOffset
<1>3. CASE Start
  BY <1>3 DEF Start, Up
<1>4. CASE Environment
  <2>1. ASSUME NEW p \in Payload, Publish(p)
        PROVE  TypeOK'
    BY <2>1 DEF Publish
  <2>2. CASE Rejoin
    BY <2>2 DEF Rejoin
  <2>3. CASE Terminate
    <3>1. running' \in BOOLEAN
      BY <2>3, Zenon DEF Terminate
    <3>2. faults' \in Nat
      BY <2>3 DEF Terminate
    <3>3. UNCHANGED <<kafkaVars, pc, lock, cleaning, position, message,
                      memoryVars, conn, storeVars, historyVars>>
      BY <2>3 DEF Terminate
    <3> QED
      BY <3>1, <3>2, <3>3
  <2>4. CASE Crash
    BY <2>4, TypeOfProcessGone DEF Crash
  <2>5. CASE LoopError
    BY <2>5 DEF LoopError
  <2> QED
    BY <1>4, <2>1, <2>2, <2>3, <2>4, <2>5 DEF Environment
<1>5. CASE Timer
  <2>1. CASE TimerFlush
    BY <2>1 DEF TimerFlush, Snapshot, FirstStage
  <2>2. CASE TimerStop
    BY <2>2 DEF TimerStop
  <2>3. CASE Flush("timer")
    BY <2>3, TypeOfFlush
  <2> QED
    BY <1>5, <2>1, <2>2, <2>3 DEF Timer
<1>6. CASE Main
  <2>1. HasNext => /\ position + 1 \in 0 .. Len(topic)
                   /\ NextLine \in Payload
    BY DEF HasNext, NextLine
  <2>2. CASE Yield
    BY <2>1, <2>2 DEF Yield
  <2>3. CASE YieldStopping
    <3>1. pc' \in [Thread -> MainPc \cup TimerPc]
      BY <2>3 DEF YieldStopping
    <3>2. message' \in Payload <=> pc'["main"] = "process"
      BY <2>3 DEF YieldStopping, HasNext
    <3>3. position' \in 0 .. Len(topic') /\ skipped' \subseteq Payload
      BY <2>1, <2>3 DEF YieldStopping
    <3> QED
      BY <2>3, <3>1, <3>2, <3>3, Zenon DEF YieldStopping
  <2>4. message # NoPayload => message \in Payload
    OBVIOUS
  <2>5. CASE ProcessInvalid
    BY <2>4, <2>5 DEF ProcessInvalid, TakeMessage
  <2>6. CASE ProcessDuplicate
    BY <2>6 DEF ProcessDuplicate, TakeMessage
  <2>7. CASE ProcessEvent
    <3> DEFINE c == Append(buffer, message)
    <3>1. message \in Payload /\ c \in Seq(Payload)
      BY <2>7 DEF ProcessEvent, TakeMessage
    <3>2. seen' \subseteq Payload
      BY <2>7, <3>1 DEF ProcessEvent, Remembered
    <3> HIDE DEF c
    <3>4. /\ pc' \in [Thread -> MainPc \cup TimerPc]
          /\ pc'["main"] # "process"
          /\ buffer' \in Seq(Payload)
          /\ batch' \in [Thread -> Seq(Payload)]
      <4>1. CASE BatchFull(c)
        <5>1. Snapshot("main", c)
          BY <2>7, <4>1, Zenon DEF ProcessEvent, c
        <5> QED
          BY <5>1, <3>1, SnapshotType
      <4>2. CASE ~BatchFull(c)
        <5>1. /\ buffer' = c
              /\ pc' = [pc EXCEPT !["main"] = "commit"]
              /\ batch' = batch
          BY <2>7, <4>2, Zenon DEF ProcessEvent, c
        <5> QED
          BY <5>1, <3>1
      <4> QED
        BY <4>1, <4>2
    <3> QED
      BY <2>7, <3>2, <3>4 DEF ProcessEvent, TakeMessage
  <2>8. CASE Flush("main")
    BY <2>8, TypeOfFlush
  <2>9. CASE Commit
    <3>1. committed' \in 0 .. Len(topic') \cup {NoOffset}
      BY <2>9 DEF Commit, PositionToCommit
    <3>2. commitPending' \in BOOLEAN
      BY <2>9, Zenon DEF Commit
    <3>3. /\ pc' \in [Thread -> MainPc \cup TimerPc]
          /\ pc'["main"] # "process"
          /\ pc["main"] # "process"
      <4>1. CASE cleaning
        BY <2>9, <4>1 DEF Commit
      <4>2. CASE ~cleaning
        BY <2>9, <4>2 DEF Commit
      <4> QED
        BY <4>1, <4>2
    <3>4. faults' \in Nat
      BY <2>9 DEF Commit
    <3>5. lock' = NoThread /\ UNCHANGED <<topic, running, cleaning, position,
             message, buffer, batch, seen, flushError, conn, storeVars,
             historyVars>>
      BY <2>9 DEF Commit
    <3> QED
      BY <3>1, <3>2, <3>3, <3>4, <3>5
  <2>10. CASE Cleanup
    <3>1. CASE buffer = <<>>
      BY <2>10, <3>1 DEF Cleanup
    <3>2. CASE buffer # <<>>
      <4>1. Snapshot("main", buffer)
        BY <2>10, <3>2 DEF Cleanup
      <4>2. pc["main"] = "cleanup" /\ NoFault
        BY <2>10 DEF Cleanup
      <4>3. lock' = "main" /\ UNCHANGED <<kafkaVars, running, cleaning, position,
               message, seen, commitPending, flushError, conn, storeVars,
               historyVars>>
        BY <2>10 DEF Cleanup
      <4> QED
        BY <4>1, <4>2, <4>3, SnapshotType
    <3> QED
      BY <3>1, <3>2
  <2>11. CASE Exit
    BY <2>11, TypeOfProcessGone DEF Exit
  <2> QED
    BY <1>6, <2>2, <2>3, <2>5, <2>6, <2>7, <2>8, <2>9, <2>10, <2>11 DEF Main
<1> QED
  BY <1>1, <1>2, <1>3, <1>4, <1>5, <1>6 DEF Next

-----------------------------------------------------------------------------
(* The inductive invariant *)

(***************************************************************************)
(* Who holds _processing_lock when, and what a thread that does not flush  *)
(* keeps in its snapshot: nothing.                                         *)
(***************************************************************************)
LockDiscipline ==
  /\ FlushSerialised
  /\ pc["main"] = "commit" => lock = "main"
  /\ \A t \in Thread : ~Flushing(t) => batch[t] = <<>>
  /\ ~Up => pc["timer"] = "down"

\* What PostgreSQL has to say about p is said.
DatabaseKnows(p) == IF ClassOf[p] = "rejected" THEN p \in deadLetters
                                               ELSE p \in db

\* A flush that has come to the files has its batch in PostgreSQL.
DatabaseFirst ==
  \A t \in Thread : pc[t] = "file" /\ DatabaseEnabled =>
    \A p \in ToSet(batch[t]) : DatabaseKnows(p)

HeldIsValid == \A p \in Held : ClassOf[p] # "invalid"

AssignedHasOrigin == position # NoOffset => origin # NoOffset

RecordInv ==
  /\ HeldIsValid
  /\ DatabaseFirst
  /\ FilesFollowDatabase
  /\ DuplicateIsCovered
  /\ AssignedHasOrigin
  /\ NothingVanishes

IInv == TypeOK /\ LockDiscipline /\ RecordInv

-----------------------------------------------------------------------------
(* What a step does to what is held and to what is on record *)

LEMMA HeldUnchanged ==
  ASSUME UNCHANGED <<buffer, batch>>
  PROVE  Held' = Held
  BY DEF Held

\* Stores that only grow, and only by members of X, do the same to Settled.
LEMMA SettledGrows ==
  ASSUME NEW X,
         db \subseteq db', deadLetters \subseteq deadLetters',
         ToSet(jsonl) \subseteq ToSet(jsonl'),
         db' \subseteq db \cup X, deadLetters' \subseteq deadLetters \cup X,
         ToSet(jsonl') \subseteq ToSet(jsonl) \cup X
  PROVE  /\ Settled \subseteq Settled'
         /\ Settled' \subseteq Settled \cup X
<1> DEFINE On(p, w, d, dl) ==
             IF ClassOf[p] = "invalid" THEN p \in dl
             ELSE /\ p \in w
                  /\ DatabaseEnabled => IF ClassOf[p] = "rejected"
                                        THEN p \in dl
                                        ELSE p \in d
<1>1. Settled = {p \in Payload : On(p, ToSet(jsonl), db, deadLetters)}
  BY Zenon DEF Settled
<1>2. Settled' = {p \in Payload : On(p, ToSet(jsonl'), db', deadLetters')}
  BY Zenon DEF Settled
<1>3. ASSUME NEW p \in Payload, On(p, ToSet(jsonl), db, deadLetters)
      PROVE  On(p, ToSet(jsonl'), db', deadLetters')
  BY <1>3
<1>4. ASSUME NEW p \in Payload, On(p, ToSet(jsonl'), db', deadLetters'),
             p \notin X
      PROVE  On(p, ToSet(jsonl), db, deadLetters)
  BY <1>4
<1> HIDE DEF On
<1> QED
  BY <1>1, <1>2, <1>3, <1>4

LEMMA FlushOverHeld ==
  ASSUME TypeOK, NEW t \in Thread, FlushOver(t), UNCHANGED buffer
  PROVE  Held = Held' \cup ToSet(batch[t])
<1>1. batch'[t] = <<>> /\ \A u \in Thread \ {t} : batch'[u] = batch[u]
  BY FlushOverFacts
<1>2. ToSet(batch'[t]) = {}
  BY <1>1, ToSetEmpty
<1> QED
  BY <1>1, <1>2 DEF Held, Thread

LEMMA FlushFailsHeld ==
  ASSUME TypeOK, NEW t \in Thread, FlushFails(t)
  PROVE  Held' = Held
<1>1. batch'[t] = <<>> /\ \A u \in Thread \ {t} : batch'[u] = batch[u]
  BY FlushOverFacts DEF FlushFails
<1>2. ToSet(batch'[t]) = {}
  BY <1>1, ToSetEmpty
<1>3. buffer' = batch[t] \o buffer
  BY DEF FlushFails, PutBack
<1>4. batch[t] \in Seq(Payload) /\ buffer \in Seq(Payload)
  BY DEF TypeOK
<1>5. ToSet(buffer') = ToSet(batch[t]) \cup ToSet(buffer)
  BY <1>3, <1>4, ToSetConcat
<1> QED
  BY <1>1, <1>2, <1>5 DEF Held, Thread

LEMMA SnapshotHeld ==
  ASSUME TypeOK, NEW t \in Thread, NEW c \in Seq(Payload), Snapshot(t, c),
         batch[t] = <<>>
  PROVE  Held' \cup ToSet(buffer) = Held \cup ToSet(c)
<1>1. /\ batch'[t] = c
      /\ buffer' = <<>>
      /\ \A u \in Thread \ {t} : batch'[u] = batch[u]
  BY SnapshotFacts
<1>2. ToSet(batch[t]) = {} /\ ToSet(buffer') = {}
  BY <1>1, ToSetEmpty
<1> QED
  BY <1>1, <1>2 DEF Held, Thread

(***************************************************************************)
(* What a flush adds to the stores comes from its batch.                   *)
(***************************************************************************)
LEMMA RowsDoneStores ==
  ASSUME TypeOK, NEW t \in Thread, NEW k \in 0 .. Len(batch[t]), RowsDone(t, k)
  PROVE  /\ db \subseteq db' /\ db' \subseteq db \cup ToSet(batch[t])
         /\ deadLetters \subseteq deadLetters'
         /\ deadLetters' \subseteq deadLetters \cup ToSet(batch[t])
<1>1. {batch[t][i] : i \in 1 .. k} \subseteq ToSet(batch[t])
  BY DEF ToSet, TypeOK
<1> QED
  BY <1>1 DEF RowsDone

LEMMA FlushStores ==
  ASSUME TypeOK, NEW t \in Thread, Flush(t)
  PROVE  /\ db \subseteq db'
         /\ deadLetters \subseteq deadLetters'
         /\ ToSet(jsonl) \subseteq ToSet(jsonl')
         /\ db' \subseteq db \cup ToSet(batch[t])
         /\ deadLetters' \subseteq deadLetters \cup ToSet(batch[t])
         /\ ToSet(jsonl') \subseteq ToSet(jsonl) \cup ToSet(batch[t])
<1>1. batch[t] \in Seq(Payload) /\ Len(batch[t]) \in Nat
  BY DEF TypeOK
<1>2. CASE BatchInserted(t)
  BY <1>2 DEF BatchInserted, DatabaseDone
<1>3. CASE RowsInserted(t)
  <2>1. RowsDone(t, Len(batch[t])) /\ jsonl' = jsonl
    BY <1>3 DEF RowsInserted, DatabaseDone
  <2>2. Len(batch[t]) \in 0 .. Len(batch[t])
    BY <1>1
  <2> QED
    BY <2>1, <2>2, RowsDoneStores
<1>4. CASE RowsInterrupted(t)
  <2>1. PICK k \in 0 .. Len(batch[t]) - 1 : RowsDone(t, k)
    BY <1>4 DEF RowsInterrupted
  <2>2. k \in 0 .. Len(batch[t])
    BY <1>1
  <2>3. jsonl' = jsonl
    BY <1>4 DEF RowsInterrupted
  <2> QED
    BY <2>1, <2>2, <2>3, RowsDoneStores
<1>5. CASE DatabaseUnreachable(t)
  BY <1>5 DEF DatabaseUnreachable
<1>6. CASE DriverRefuses(t)
  BY <1>6 DEF DriverRefuses, storeVars
<1>7. CASE HandleClosed(t)
  BY <1>7 DEF HandleClosed, storeVars
<1>8. CASE FileAppended(t)
  <2>1. LinesWritten(batch[t], Len(batch[t])) /\ UNCHANGED <<db, deadLetters>>
    BY <1>8 DEF FileAppended
  <2>2. Len(batch[t]) \in 0 .. Len(batch[t]) /\ jsonl \in Seq(Payload)
    BY <1>1 DEF TypeOK
  <2> QED
    BY <1>1, <2>1, <2>2, LinesWrittenFacts
<1>9. CASE FileFails(t)
  <2>1. PICK k \in 0 .. Len(batch[t]) : LinesWritten(batch[t], k)
    BY <1>9 DEF FileFails
  <2>2. UNCHANGED <<db, deadLetters>> /\ jsonl \in Seq(Payload)
    BY <1>9 DEF FileFails, TypeOK
  <2> QED
    BY <1>1, <2>1, <2>2, LinesWrittenFacts
<1> QED
  BY <1>2, <1>3, <1>4, <1>5, <1>6, <1>7, <1>8, <1>9 DEF Flush

(***************************************************************************)
(* How a step of a flush can end: the database stage is done, the flush    *)
(* has failed, or it is complete.                                          *)
(***************************************************************************)
LEMMA FlushOutcome ==
  ASSUME TypeOK, HeldIsValid, NEW t \in Thread, Flush(t)
  PROVE  /\ Flushing(t)
         /\ UNCHANGED <<topic, position, message, seen, origin, skipped>>
         /\ \/ /\ DatabaseDone(t)
               /\ pc[t] = "database"
               /\ \A p \in ToSet(batch[t]) : DatabaseKnows(p)'
            \/ FlushFails(t)
            \/ /\ FlushOver(t)
               /\ pc[t] = "file"
               /\ UNCHANGED buffer
               /\ ToSet(jsonl') = ToSet(jsonl) \cup ToSet(batch[t])
<1>1. batch[t] \in Seq(Payload) /\ Len(batch[t]) \in Nat
  BY DEF TypeOK
<1>2. \A p \in ToSet(batch[t]) : ClassOf[p] # "invalid" /\ ClassOf[p] \in Class
  <2>1. ToSet(batch[t]) \subseteq Payload
    BY <1>1, ToSetType
  <2>2. ToSet(batch[t]) \subseteq Held
    BY DEF Held, Thread
  <2> QED
    BY <2>1, <2>2, PayloadAssumption DEF HeldIsValid
<1>3. FlushFails(t) => UNCHANGED <<topic, position, message, seen, origin, skipped>>
  BY DEF FlushFails, kafkaVars, historyVars
<1>4. DatabaseDone(t) =>
        UNCHANGED <<topic, position, message, seen, origin, skipped>>
  BY DEF DatabaseDone, kafkaVars, historyVars, memoryVars
<1>5. CASE BatchInserted(t)
  <2>1. DatabaseDone(t) /\ pc[t] = "database" /\ db' = db \cup ToSet(batch[t])
    BY <1>5 DEF BatchInserted
  <2>2. \A p \in ToSet(batch[t]) : ClassOf[p] # "rejected"
    BY <1>5 DEF BatchInserted, BatchHas
  <2> QED
    BY <1>4, <2>1, <2>2 DEF DatabaseKnows, Flushing
<1>6. CASE RowsInserted(t)
  <2>1. DatabaseDone(t) /\ pc[t] = "database" /\ RowsDone(t, Len(batch[t]))
    BY <1>6 DEF RowsInserted
  <2>2. \A p \in ToSet(batch[t]) : ClassOf[p] # "unencodable"
    BY <1>6 DEF RowsInserted, BatchHas
  <2>3. \A p \in ToSet(batch[t]) : ClassOf[p] \in {"event", "rejected"}
    BY <1>2, <2>2 DEF Class
  <2>4. ToSet(batch[t]) = {batch[t][i] : i \in 1 .. Len(batch[t])}
    BY <1>1 DEF ToSet
  <2>5. \A p \in ToSet(batch[t]) : DatabaseKnows(p)'
    BY <2>1, <2>3, <2>4 DEF RowsDone, DatabaseKnows
  <2> QED
    BY <1>4, <2>1, <2>5 DEF Flushing
<1>7. CASE RowsInterrupted(t) \/ DatabaseUnreachable(t) \/ DriverRefuses(t)
           \/ HandleClosed(t) \/ FileFails(t)
  <2>1. FlushFails(t) /\ Flushing(t)
    BY <1>7 DEF RowsInterrupted, DatabaseUnreachable, DriverRefuses,
                HandleClosed, FileFails, Flushing
  <2> QED
    BY <1>3, <2>1
<1>8. CASE FileAppended(t)
  <2>1. LinesWritten(batch[t], Len(batch[t]))
    BY <1>8 DEF FileAppended
  <2>2. Len(batch[t]) \in 0 .. Len(batch[t]) /\ jsonl \in Seq(Payload)
    BY <1>1 DEF TypeOK
  <2>3. ToSet(jsonl') = ToSet(jsonl) \cup ToSet(batch[t])
    BY <1>1, <2>1, <2>2, LinesWrittenFacts
  <2>4. /\ FlushOver(t)
        /\ pc[t] = "file"
        /\ UNCHANGED buffer
        /\ UNCHANGED <<topic, position, message, seen, origin, skipped>>
    BY <1>8 DEF FileAppended, kafkaVars, historyVars
  <2> QED
    BY <2>3, <2>4 DEF Flushing
<1> QED
  BY <1>5, <1>6, <1>7, <1>8 DEF Flush

\* A flush loses nothing: what leaves the memory has come on record.
LEMMA FlushKeeps ==
  ASSUME IInv, NEW t \in Thread, Flush(t)
  PROVE  /\ Settled \subseteq Settled'
         /\ Settled' \subseteq Settled \cup Held
         /\ Held' \subseteq Held
         /\ Held \subseteq Held' \cup Settled'
<1> USE DEF IInv, RecordInv
<1>1. ToSet(batch[t]) \subseteq Held
  BY DEF Held, Thread
<1>2. /\ Settled \subseteq Settled'
      /\ Settled' \subseteq Settled \cup ToSet(batch[t])
  BY FlushStores, SettledGrows
<1>3. CASE DatabaseDone(t)
  <2>1. Held' = Held
    BY <1>3, HeldUnchanged DEF DatabaseDone, memoryVars
  <2> QED
    BY <1>1, <1>2, <2>1
<1>4. CASE FlushFails(t)
  BY <1>1, <1>2, <1>4, FlushFailsHeld
<1>5. CASE /\ FlushOver(t)
           /\ pc[t] = "file"
           /\ UNCHANGED buffer
           /\ ToSet(jsonl') = ToSet(jsonl) \cup ToSet(batch[t])
  <2>1. Held = Held' \cup ToSet(batch[t])
    BY <1>5, FlushOverHeld
  <2>2. ToSet(batch[t]) \subseteq Settled'
    <3> SUFFICES ASSUME NEW p \in ToSet(batch[t])
                 PROVE  p \in Settled'
      OBVIOUS
    <3>1. p \in ToSet(jsonl') /\ db \subseteq db' /\ deadLetters \subseteq deadLetters'
      BY <1>5, FlushStores
    <3>2. p \in Payload /\ ClassOf[p] # "invalid"
      <4>1. batch[t] \in Seq(Payload)
        BY DEF TypeOK
      <4> QED
        BY <4>1, <1>1, ToSetType DEF HeldIsValid
    <3>3. DatabaseEnabled => DatabaseKnows(p)
      BY <1>5 DEF DatabaseFirst
    <3> QED
      BY <3>1, <3>2, <3>3 DEF Settled, DatabaseKnows
  <2> QED
    BY <1>1, <1>2, <2>1, <2>2
<1> QED
  BY <1>3, <1>4, <1>5, FlushOutcome

-----------------------------------------------------------------------------
(* Every step preserves the invariant *)

LEMMA LockAfterFlushStep ==
  ASSUME IInv, NEW t \in Thread, Flush(t)
  PROVE  LockDiscipline'
<1> USE DEF LockDiscipline, FlushSerialised, Flushing, Up
<1>1. /\ Flushing(t)
      /\ lock = t
      /\ buffer = <<>>
      /\ \A u \in Thread \ {t} : ~Flushing(u) /\ batch[u] = <<>>
  BY FlushOutcome DEF IInv, RecordInv
<1>2. CASE DatabaseDone(t) /\ pc[t] = "database"
  <2>1. /\ pc'[t] = "file"
        /\ \A u \in Thread \ {t} : pc'[u] = pc[u]
        /\ UNCHANGED <<lock, buffer, batch>>
    BY <1>2 DEF DatabaseDone, memoryVars, IInv, TypeOK
  <2> QED
    BY <1>1, <2>1 DEF IInv, Thread
<1>3. CASE FlushOver(t)
  <2>1. TypeOK
    BY DEF IInv
  <2>2. /\ batch'[t] = <<>>
        /\ \A u \in Thread \ {t} : pc'[u] = pc[u] /\ batch'[u] = batch[u]
        /\ t = "main" => pc'[t] = "commit" /\ lock' = lock
        /\ t = "timer" => pc'[t] \in {"sleep", "down"} /\ lock' = NoThread
    BY <1>3, <2>1, FlushOverFacts
  <2>3. t = "timer" => pc["main"] # "down" /\ pc["main"] # "commit"
    BY <1>1 DEF IInv, Thread
  <2> QED
    BY <1>1, <2>2, <2>3 DEF Thread
<1>4. FlushFails(t) => FlushOver(t)
  BY DEF FlushFails
<1> QED
  BY <1>2, <1>3, <1>4, FlushOutcome DEF IInv, RecordInv

LEMMA LockStep ==
  ASSUME IInv, [Next]_vars
  PROVE  LockDiscipline'
<1> USE DEF LockDiscipline, FlushSerialised, Flushing, Up, Thread, NoThread
<1>0. TypeOK /\ LockDiscipline
  BY DEF IInv
<1>1. ASSUME NEW c \in Seq(Payload), NEW t \in Thread, Snapshot(t, c),
             lock = NoThread, lock' = t, pc["main"] # "down",
             pc[t] \notin {"down", "commit"}
      PROVE  LockDiscipline'
  <2>1. /\ buffer' = <<>>
        /\ pc'[t] \in {"database", "file"}
        /\ \A u \in Thread \ {t} : pc'[u] = pc[u] /\ batch'[u] = batch[u]
    BY <1>0, <1>1, SnapshotFacts
  <2>2. \A u \in Thread : ~Flushing(u) /\ batch[u] = <<>>
    BY <1>0, <1>1
  <2> QED
    BY <1>0, <1>1, <2>1, <2>2
<1>2. CASE UNCHANGED vars
  BY <1>0, <1>2 DEF vars, memoryVars
<1>3. CASE Assign
  BY <1>0, <1>3 DEF Assign, memoryVars
<1>4. CASE Start
  BY <1>0, <1>4 DEF Start, memoryVars, TypeOK
<1>5. CASE ProcessGone
  BY <1>5 DEF ProcessGone
<1>6. CASE Environment
  <2>1. ASSUME NEW p \in Payload, Publish(p)
        PROVE  LockDiscipline'
    BY <1>0, <2>1 DEF Publish, memoryVars
  <2>2. CASE Rejoin
    BY <1>0, <2>2 DEF Rejoin, memoryVars
  <2>3. CASE Terminate
    BY <1>0, <2>3 DEF Terminate, memoryVars
  <2>4. CASE Crash
    BY <1>5, <2>4 DEF Crash
  <2>5. CASE LoopError
    BY <1>0, <2>5 DEF LoopError, memoryVars, TypeOK
  <2> QED
    BY <1>6, <2>1, <2>2, <2>3, <2>4, <2>5 DEF Environment
<1>7. CASE Timer
  <2>1. CASE TimerFlush
    <3>1. Snapshot("timer", buffer) /\ buffer \in Seq(Payload)
      BY <1>0, <2>1 DEF TimerFlush, TypeOK
    <3>2. lock = NoThread /\ lock' = "timer" /\ pc["timer"] = "sleep"
      BY <2>1 DEF TimerFlush
    <3> QED
      BY <1>0, <1>1, <3>1, <3>2
  <2>2. CASE TimerStop
    BY <1>0, <2>2 DEF TimerStop, memoryVars, TypeOK
  <2>3. CASE Flush("timer")
    BY <2>3, LockAfterFlushStep
  <2> QED
    BY <1>7, <2>1, <2>2, <2>3 DEF Timer
<1>8. CASE Main
  <2>1. CASE Yield
    BY <1>0, <2>1 DEF Yield, HasNext, memoryVars, TypeOK
  <2>2. CASE YieldStopping
    BY <1>0, <2>2 DEF YieldStopping, HasNext, memoryVars, TypeOK
  <2>3. CASE ProcessInvalid
    BY <1>0, <2>3 DEF ProcessInvalid, TakeMessage, memoryVars, TypeOK
  <2>4. CASE ProcessDuplicate
    BY <1>0, <2>4 DEF ProcessDuplicate, TakeMessage, memoryVars, TypeOK
  <2>5. CASE ProcessEvent
    <3> DEFINE c == Append(buffer, message)
    <3>1. /\ pc["main"] = "process"
          /\ lock = NoThread
          /\ lock' = "main"
      BY <2>5 DEF ProcessEvent, TakeMessage
    <3>2. c \in Seq(Payload)
      BY <1>0, <3>1 DEF TypeOK
    <3> HIDE DEF c
    <3>3. CASE BatchFull(c)
      <4>1. Snapshot("main", c)
        BY <2>5, <3>3, Zenon DEF ProcessEvent, c
      <4> QED
        BY <1>1, <3>1, <3>2, <4>1
    <3>4. CASE ~BatchFull(c)
      <4>1. pc' = [pc EXCEPT !["main"] = "commit"] /\ batch' = batch
        BY <2>5, <3>4, Zenon DEF ProcessEvent, c
      <4> QED
        BY <1>0, <3>1, <4>1 DEF TypeOK
    <3> QED
      BY <3>3, <3>4
  <2>6. CASE Flush("main")
    BY <2>6, LockAfterFlushStep
  <2>7. CASE Commit
    <3>1. /\ pc["main"] = "commit"
          /\ lock' = NoThread
          /\ UNCHANGED <<buffer, batch>>
      BY <2>7 DEF Commit
    <3>2. /\ pc'["main"] \in {"closing", "poll"}
          /\ pc'["timer"] = pc["timer"]
      <4>1. CASE cleaning
        BY <1>0, <2>7, <4>1 DEF Commit, TypeOK
      <4>2. CASE ~cleaning
        BY <1>0, <2>7, <4>2 DEF Commit, TypeOK
      <4> QED
        BY <4>1, <4>2
    <3> QED
      BY <1>0, <3>1, <3>2
  <2>8. CASE Cleanup
    <3>1. pc["main"] = "cleanup" /\ lock = NoThread /\ lock' = "main"
      BY <2>8 DEF Cleanup
    <3>2. CASE buffer = <<>>
      BY <1>0, <2>8, <3>2 DEF Cleanup, TypeOK
    <3>3. CASE buffer # <<>>
      <4>1. Snapshot("main", buffer) /\ buffer \in Seq(Payload)
        BY <1>0, <2>8, <3>3 DEF Cleanup, TypeOK
      <4> QED
        BY <1>1, <3>1, <4>1
    <3> QED
      BY <3>2, <3>3
  <2>9. CASE Exit
    BY <1>5, <2>9 DEF Exit
  <2> QED
    BY <1>8, <2>1, <2>2, <2>3, <2>4, <2>5, <2>6, <2>7, <2>8, <2>9 DEF Main
<1> QED
  BY <1>2, <1>3, <1>4, <1>6, <1>7, <1>8 DEF Next

\* A step that keeps the position and every line's whereabouts.
LEMMA NothingVanishesKept ==
  ASSUME NothingVanishes, UNCHANGED <<topic, position, origin>>,
         InMemory \cup Settled \cup skipped
           \subseteq (InMemory \cup Settled \cup skipped)'
  PROVE  NothingVanishes'
  BY DEF NothingVanishes

\* A step that changes no buffer and no store, and does not come to the files.
LEMMA QuietStep ==
  ASSUME RecordInv, UNCHANGED <<buffer, batch, seen, storeVars>>,
         \A t \in Thread : pc'[t] = "file" => pc[t] = "file"
  PROVE  /\ HeldIsValid' /\ DatabaseFirst' /\ FilesFollowDatabase'
         /\ DuplicateIsCovered'
         /\ Held' = Held /\ Settled' = Settled
<1>1. Held' = Held
  BY HeldUnchanged
<1>2. Settled' = Settled
  BY DEF Settled, storeVars
<1> QED
  BY <1>1, <1>2
  DEF RecordInv, HeldIsValid, DatabaseFirst, FilesFollowDatabase,
      DuplicateIsCovered, DatabaseKnows, storeVars

LEMMA RecordAfterGone ==
  ASSUME RecordInv, ProcessGone, UNCHANGED storeVars
  PROVE  RecordInv'
<1>1. Held' = {}
  BY ToSetEmpty DEF ProcessGone, Held, Thread
<1> QED
  BY <1>1
  DEF ProcessGone, RecordInv, HeldIsValid, DatabaseFirst, FilesFollowDatabase,
      DuplicateIsCovered, AssignedHasOrigin, NothingVanishes, Thread, storeVars

(***************************************************************************)
(* A flush begins: c is what was in the buffer, with the line in hand if   *)
(* it is the one that filled the batch.                                    *)
(***************************************************************************)
LEMMA RecordAfterSnapshot ==
  ASSUME IInv, NEW t \in Thread, NEW c \in Seq(Payload), Snapshot(t, c),
         pc[t] \notin {"database", "file"}, NEW x,
         ToSet(c) = ToSet(buffer) \cup x,
         x \subseteq {p \in Payload : ClassOf[p] # "invalid"},
         seen' \subseteq seen \cup x, UNCHANGED storeVars
  PROVE  /\ HeldIsValid' /\ DatabaseFirst' /\ FilesFollowDatabase'
         /\ DuplicateIsCovered'
         /\ Held' = Held \cup x /\ Settled' = Settled
<1> USE DEF IInv, RecordInv
<1>1. batch[t] = <<>>
  BY DEF LockDiscipline, Flushing
<1>2. buffer' = <<>>
  BY SnapshotFacts
<1>3. Held' = Held \cup x
  <2>1. Held' \cup ToSet(buffer) = Held \cup ToSet(c)
    BY <1>1, SnapshotHeld
  <2>2. ToSet(c) \subseteq Held'
    <3>1. batch'[t] = c
      BY SnapshotFacts
    <3> QED
      BY <3>1 DEF Held, Thread
  <2>3. ToSet(buffer) \subseteq Held
    BY DEF Held
  <2> QED
    BY <2>1, <2>2, <2>3
<1>4. Settled' = Settled
  BY DEF Settled, storeVars
<1>5. HeldIsValid' /\ DuplicateIsCovered'
  BY <1>3, <1>4 DEF HeldIsValid, DuplicateIsCovered
<1>6. FilesFollowDatabase'
  BY DEF FilesFollowDatabase, storeVars
<1>7. DatabaseFirst'
  <2>1. \A u \in Thread : pc'[u] = "file" /\ DatabaseEnabled =>
          pc[u] = "file" /\ batch'[u] = batch[u]
    BY SnapshotFacts
  <2> QED
    BY <2>1 DEF DatabaseFirst, DatabaseKnows, storeVars
<1> QED
  BY <1>3, <1>4, <1>5, <1>6, <1>7

LEMMA RecordAfterFlush ==
  ASSUME IInv, NEW t \in Thread, Flush(t)
  PROVE  RecordInv'
<1> USE DEF IInv, RecordInv
<1>1. /\ Settled \subseteq Settled'
      /\ Held' \subseteq Held
      /\ Held \subseteq Held' \cup Settled'
  BY FlushKeeps
<1>2. UNCHANGED <<topic, position, message, seen, origin, skipped>>
  BY FlushOutcome
<1>3. db \subseteq db' /\ deadLetters \subseteq deadLetters'
  BY FlushStores
<1>4. HeldIsValid' /\ DuplicateIsCovered' /\ AssignedHasOrigin'
  BY <1>1, <1>2 DEF HeldIsValid, DuplicateIsCovered, AssignedHasOrigin
<1>5. NothingVanishes'
  BY <1>1, <1>2, NothingVanishesKept DEF InMemory
<1>6. DatabaseFirst'
  <2>1. CASE /\ DatabaseDone(t)
             /\ \A p \in ToSet(batch[t]) : DatabaseKnows(p)'
    BY <2>1, <1>3 DEF DatabaseFirst, DatabaseDone, DatabaseKnows, memoryVars, TypeOK
  <2>2. CASE FlushOver(t)
    <3>1. /\ pc'[t] # "file"
          /\ \A u \in Thread \ {t} : pc'[u] = pc[u] /\ batch'[u] = batch[u]
      BY <2>2, FlushOverFacts DEF Thread
    <3> QED
      BY <3>1, <1>3 DEF DatabaseFirst, DatabaseKnows
  <2> QED
    BY <2>1, <2>2, FlushOutcome DEF FlushFails
<1>7. FilesFollowDatabase'
  <2> SUFFICES ASSUME DatabaseEnabled
               PROVE  ToSet(jsonl') \subseteq db' \cup deadLetters'
    BY DEF FilesFollowDatabase
  <2>1. ToSet(jsonl') = ToSet(jsonl) \/ pc[t] = "file"
    BY DEF Flush, BatchInserted, RowsInserted, RowsInterrupted, DatabaseDone,
           DatabaseUnreachable, DriverRefuses, HandleClosed, FileAppended,
           FileFails, storeVars
  <2>2. pc[t] = "file" => ToSet(batch[t]) \subseteq db \cup deadLetters
    BY DEF DatabaseFirst, DatabaseKnows
  <2> QED
    BY <2>1, <2>2, <1>3, FlushStores DEF FilesFollowDatabase
<1> QED
  BY <1>4, <1>5, <1>6, <1>7

LEMMA ProcessEventHeld ==
  ASSUME IInv, ProcessEvent
  PROVE  /\ HeldIsValid' /\ DatabaseFirst' /\ FilesFollowDatabase'
         /\ DuplicateIsCovered'
         /\ Held' = Held \cup {message} /\ Settled' = Settled
<1> USE DEF IInv, RecordInv
<1> DEFINE c == Append(buffer, message)
<1>1. /\ pc["main"] = "process"
      /\ message \in Payload
      /\ ClassOf[message] # "invalid"
      /\ c \in Seq(Payload)
      /\ ToSet(c) = ToSet(buffer) \cup {message}
  BY ToSetAppend DEF ProcessEvent, TakeMessage, TypeOK
<1>2. seen' \subseteq seen \cup {message}
  BY DEF ProcessEvent, Remembered
<1>3. UNCHANGED <<topic, position, origin, skipped, db, jsonl, deadLetters>>
  BY DEF ProcessEvent, kafkaVars, historyVars, storeVars
<1> HIDE DEF c
<1>4. /\ HeldIsValid' /\ DatabaseFirst' /\ FilesFollowDatabase'
      /\ DuplicateIsCovered'
      /\ Held' = Held \cup {message} /\ Settled' = Settled
  <2>1. CASE BatchFull(c)
    <3>1. Snapshot("main", c)
      BY <2>1, Zenon DEF ProcessEvent, c
    <3> QED
      BY <1>1, <1>2, <1>3, <3>1, RecordAfterSnapshot DEF Thread, storeVars
  <2>2. CASE ~BatchFull(c)
    <3>1. buffer' = c /\ pc' = [pc EXCEPT !["main"] = "commit"] /\ batch' = batch
      BY <2>2, Zenon DEF ProcessEvent, c
    <3>2. Held' = Held \cup {message}
      BY <1>1, <3>1 DEF Held
    <3>3. Settled' = Settled
      BY <1>3 DEF Settled
    <3>4. HeldIsValid' /\ DuplicateIsCovered'
      BY <1>1, <1>2, <3>2, <3>3 DEF HeldIsValid, DuplicateIsCovered
    <3>5. DatabaseFirst' /\ FilesFollowDatabase'
      BY <1>3, <3>1 DEF DatabaseFirst, DatabaseKnows, FilesFollowDatabase, TypeOK
    <3> QED
      BY <3>2, <3>3, <3>4, <3>5
  <2> QED
    BY <2>1, <2>2
<1> QED
  BY <1>4

LEMMA RecordAfterProcessEvent ==
  ASSUME IInv, ProcessEvent
  PROVE  RecordInv'
<1>1. UNCHANGED <<topic, position, origin, skipped>>
  BY DEF ProcessEvent, kafkaVars, historyVars
<1>2. Held' = Held \cup {message} /\ Settled' = Settled
  BY ProcessEventHeld
<1>3. NothingVanishes'
  BY <1>1, <1>2, NothingVanishesKept DEF InMemory, IInv, RecordInv
<1> QED
  BY <1>1, <1>3, ProcessEventHeld DEF IInv, RecordInv, AssignedHasOrigin

LEMMA RecordStep ==
  ASSUME IInv, [Next]_vars
  PROVE  RecordInv'
<1> USE DEF IInv, RecordInv
<1>1. ASSUME NEW t \in Thread, Snapshot(t, buffer), pc[t] \in {"sleep", "cleanup"},
             UNCHANGED <<topic, position, message, seen, storeVars, historyVars>>
      PROVE  RecordInv'
  <2>1. /\ HeldIsValid' /\ DatabaseFirst' /\ FilesFollowDatabase'
        /\ DuplicateIsCovered'
        /\ Held' = Held /\ Settled' = Settled
    <3> DEFINE none == {}
    <3>1. /\ ToSet(buffer) = ToSet(buffer) \cup none
          /\ none \subseteq {p \in Payload : ClassOf[p] # "invalid"}
          /\ seen' \subseteq seen \cup none
          /\ buffer \in Seq(Payload)
      BY <1>1 DEF TypeOK
    <3>2. Held \cup none = Held
      OBVIOUS
    <3> HIDE DEF none
    <3> QED
      BY <1>1, <3>1, <3>2, RecordAfterSnapshot
  <2>2. NothingVanishes'
    BY <1>1, <2>1, NothingVanishesKept DEF InMemory, historyVars
  <2> QED
    BY <1>1, <2>1, <2>2 DEF AssignedHasOrigin, historyVars
<1>2. ASSUME UNCHANGED <<topic, position, message, buffer, batch, seen,
                         storeVars, historyVars>>,
             \A t \in Thread : pc'[t] = "file" => pc[t] = "file"
      PROVE  RecordInv'
  <2>1. NothingVanishes'
    BY <1>2, QuietStep, NothingVanishesKept DEF InMemory, historyVars
  <2> QED
    BY <1>2, <2>1, QuietStep DEF AssignedHasOrigin, historyVars
<1>3. CASE UNCHANGED vars
  BY <1>2, <1>3 DEF vars, kafkaVars, memoryVars
<1>4. CASE Assign
  <2>1. position' = origin' /\ UNCHANGED <<topic, buffer, batch, seen, storeVars, pc>>
    BY <1>4 DEF Assign, memoryVars, kafkaVars
  <2>2. origin' \in Nat
    BY <1>4 DEF Assign, StartOffset, TypeOK
  <2>3. \A i \in origin' + 1 .. position' : FALSE
    <3>1. \A n \in Nat : \A i \in n + 1 .. n : FALSE
      OBVIOUS
    <3> QED
      BY <2>1, <2>2, <3>1, Zenon
  <2>4. NothingVanishes'
    BY <2>3 DEF NothingVanishes
  <2>5. AssignedHasOrigin'
    BY <2>2 DEF AssignedHasOrigin, NoOffset
  <2> QED
    BY <2>1, <2>4, <2>5, QuietStep
<1>5. CASE Start
  BY <1>2, <1>5 DEF Start, kafkaVars, memoryVars, TypeOK
<1>6. CASE Environment
  <2>1. ASSUME NEW p \in Payload, Publish(p)
        PROVE  RecordInv'
    <3>1. /\ topic' = Append(topic, p)
          /\ UNCHANGED <<position, message, buffer, batch, seen, storeVars,
                         historyVars, pc>>
      BY <2>1 DEF Publish, memoryVars
    <3>2. UNCHANGED <<InMemory, Settled, skipped, position, origin>>
      BY <3>1, QuietStep DEF InMemory, historyVars
    <3>3. \A i \in 1 .. Len(topic) : topic'[i] = topic[i]
      BY <3>1 DEF TypeOK
    <3>4. NothingVanishes'
      <4> SUFFICES ASSUME position # NoOffset, NEW i \in origin + 1 .. position
                   PROVE  topic'[i] \in InMemory \cup Settled \cup skipped
        BY <3>2 DEF NothingVanishes
      <4>1. i \in 1 .. Len(topic)
        BY DEF AssignedHasOrigin, TypeOK, NoOffset
      <4> QED
        BY <4>1, <3>3 DEF NothingVanishes
    <3> QED
      BY <3>1, <3>2, <3>4, QuietStep DEF AssignedHasOrigin
  <2>2. CASE Rejoin
    <3>1. /\ position' = NoOffset
          /\ UNCHANGED <<buffer, batch, seen, storeVars, pc>>
      BY <2>2 DEF Rejoin, memoryVars
    <3> QED
      BY <3>1, QuietStep DEF AssignedHasOrigin, NothingVanishes
  <2>3. CASE Terminate
    BY <1>2, <2>3 DEF Terminate, kafkaVars, memoryVars
  <2>4. CASE Crash
    BY <2>4, RecordAfterGone DEF Crash
  <2>5. CASE LoopError
    <3>1. CASE UNCHANGED <<message, skipped>>
      BY <1>2, <2>5, <3>1 DEF LoopError, kafkaVars, memoryVars, historyVars, TypeOK
    <3>2. CASE skipped' = skipped \cup {message}
      <4>1. /\ UNCHANGED <<topic, position, buffer, batch, seen, storeVars, origin>>
            /\ \A t \in Thread : pc'[t] = "file" => pc[t] = "file"
        BY <2>5 DEF LoopError, kafkaVars, memoryVars, TypeOK
      <4>2. Held' = Held /\ Settled' = Settled
        BY <4>1, QuietStep
      <4>3. InMemory \cup skipped \subseteq (InMemory \cup skipped)'
        BY <3>2, <4>2 DEF InMemory
      <4>4. NothingVanishes'
        BY <4>1, <4>2, <4>3 DEF NothingVanishes
      <4> QED
        BY <4>1, <4>4, QuietStep DEF AssignedHasOrigin
    <3> QED
      BY <2>5, <3>1, <3>2 DEF LoopError
  <2> QED
    BY <1>6, <2>1, <2>2, <2>3, <2>4, <2>5 DEF Environment
<1>7. CASE Timer
  <2>1. CASE TimerFlush
    BY <1>1, <2>1 DEF TimerFlush, kafkaVars, Thread
  <2>2. CASE TimerStop
    BY <1>2, <2>2 DEF TimerStop, kafkaVars, memoryVars, TypeOK
  <2>3. CASE Flush("timer")
    BY <2>3, RecordAfterFlush DEF Thread
  <2> QED
    BY <1>7, <2>1, <2>2, <2>3 DEF Timer
<1>8. CASE Main
  <2>1. ASSUME HasNext, UNCHANGED <<topic, buffer, batch, seen, storeVars, origin>>,
               position' = position + 1,
               \A t \in Thread : pc'[t] = "file" => pc[t] = "file",
               NextLine \in (InMemory \cup skipped)',
               InMemory \cup skipped \subseteq (InMemory \cup skipped)'
        PROVE  RecordInv'
    <3>1. AssignedHasOrigin'
      BY <2>1 DEF AssignedHasOrigin, HasNext
    <3>2. Settled' = Settled
      BY <2>1, QuietStep
    <3>3. position \in Nat /\ origin \in Nat
      BY <2>1 DEF HasNext, AssignedHasOrigin, TypeOK
    <3>4. NothingVanishes'
      <4> SUFFICES ASSUME NEW i \in origin + 1 .. position + 1
                   PROVE  topic[i] \in (InMemory \cup Settled \cup skipped)'
        BY <2>1 DEF NothingVanishes
      <4>1. CASE i = position + 1
        BY <2>1, <4>1 DEF NextLine
      <4>2. CASE i # position + 1
        <5>1. i \in origin + 1 .. position
          BY <3>3, <4>2
        <5> QED
          BY <2>1, <3>2, <5>1 DEF NothingVanishes, HasNext
      <4> QED
        BY <4>1, <4>2
    <3> QED
      BY <2>1, <3>1, <3>4, QuietStep
  <2>2. HasNext => NextLine \in Payload /\ message \notin Payload
    BY DEF HasNext, NextLine, TypeOK, NoOffset
  <2>3. CASE Yield
    <3>1. /\ HasNext /\ message' = NextLine /\ position' = position + 1
          /\ UNCHANGED <<topic, buffer, batch, seen, storeVars, historyVars>>
      BY <2>3 DEF Yield, kafkaVars, memoryVars
    <3>2. \A t \in Thread : pc'[t] = "file" => pc[t] = "file"
      BY <2>3 DEF Yield, TypeOK
    <3>3. Held' = Held
      BY <3>1, HeldUnchanged
    <3> QED
      BY <2>1, <2>2, <3>1, <3>2, <3>3 DEF InMemory, historyVars
  <2>4. CASE YieldStopping
    <3>1. /\ HasNext /\ skipped' = skipped \cup {NextLine}
          /\ position' = position + 1
          /\ UNCHANGED <<topic, message, buffer, batch, seen, storeVars, origin>>
      BY <2>4 DEF YieldStopping, kafkaVars, memoryVars
    <3>2. \A t \in Thread : pc'[t] = "file" => pc[t] = "file"
      BY <2>4 DEF YieldStopping, TypeOK
    <3>3. Held' = Held
      BY <3>1, HeldUnchanged
    <3> QED
      BY <2>1, <3>1, <3>2, <3>3 DEF InMemory
  <2>5. CASE ProcessInvalid
    <3>1. /\ UNCHANGED <<topic, position, buffer, batch, seen, db, jsonl, origin>>
          /\ pc' = [pc EXCEPT !["main"] = "commit"]
          /\ message \in Payload /\ ClassOf[message] = "invalid"
          /\ message' = NoPayload
      BY <2>5 DEF ProcessInvalid, TakeMessage, kafkaVars, memoryVars, TypeOK
    <3>2. /\ deadLetters \subseteq deadLetters' /\ skipped \subseteq skipped'
          /\ message \in deadLetters' \cup skipped'
      BY <2>5 DEF ProcessInvalid
    <3>3. Held' = Held
      BY <3>1, HeldUnchanged
    <3>4. Settled \subseteq Settled' /\ message \in Settled' \cup skipped'
      BY <3>1, <3>2 DEF Settled
    <3>5. HeldIsValid' /\ DuplicateIsCovered'
      BY <3>1, <3>3, <3>4 DEF HeldIsValid, DuplicateIsCovered
    <3>6. DatabaseFirst' /\ FilesFollowDatabase'
      BY <3>1, <3>2 DEF DatabaseFirst, DatabaseKnows, FilesFollowDatabase, TypeOK
    <3>7. NothingVanishes'
      BY <3>1, <3>2, <3>3, <3>4, NothingVanishesKept DEF InMemory
    <3> QED
      BY <3>1, <3>5, <3>6, <3>7 DEF AssignedHasOrigin
  <2>6. CASE ProcessDuplicate
    <3>1. /\ UNCHANGED <<topic, position, buffer, batch, seen, storeVars, historyVars>>
          /\ message \in seen
      BY <2>6 DEF ProcessDuplicate, kafkaVars, memoryVars
    <3>2. \A t \in Thread : pc'[t] = "file" => pc[t] = "file"
      BY <2>6 DEF ProcessDuplicate, TypeOK
    <3>3. Held' = Held /\ Settled' = Settled
      BY <3>1, <3>2, QuietStep
    <3>4. NothingVanishes'
      BY <3>1, <3>3, NothingVanishesKept DEF InMemory, DuplicateIsCovered, historyVars
    <3> QED
      BY <3>1, <3>2, <3>4, QuietStep DEF AssignedHasOrigin, historyVars
  <2>7. CASE ProcessEvent
    BY <2>7, RecordAfterProcessEvent
  <2>8. CASE Flush("main")
    BY <2>8, RecordAfterFlush DEF Thread
  <2>9. CASE Commit
    <3>1. UNCHANGED <<topic, position, message, buffer, batch, seen, storeVars,
                      historyVars>>
      BY <2>9 DEF Commit
    <3>2. \A t \in Thread : pc'[t] = "file" => pc[t] = "file"
      <4>1. CASE cleaning
        BY <2>9, <4>1 DEF Commit, TypeOK
      <4>2. CASE ~cleaning
        BY <2>9, <4>2 DEF Commit, TypeOK
      <4> QED
        BY <4>1, <4>2
    <3> QED
      BY <1>2, <3>1, <3>2
  <2>10. CASE Cleanup
    <3>1. CASE buffer = <<>>
      BY <1>2, <2>10, <3>1 DEF Cleanup, kafkaVars, TypeOK
    <3>2. CASE buffer # <<>>
      BY <1>1, <2>10, <3>2 DEF Cleanup, kafkaVars, Thread
    <3> QED
      BY <3>1, <3>2
  <2>11. CASE Exit
    BY <2>11, RecordAfterGone DEF Exit
  <2> QED
    BY <1>8, <2>3, <2>4, <2>5, <2>6, <2>7, <2>8, <2>9, <2>10, <2>11 DEF Main
<1> QED
  BY <1>3, <1>4, <1>5, <1>6, <1>7, <1>8 DEF Next

-----------------------------------------------------------------------------
(* Theorems *)

LEMMA InvariantInit == Init => IInv
<1> SUFFICES ASSUME Init
             PROVE  IInv
  OBVIOUS
<1> USE DEF Init
<1>1. TypeOK
  <2> USE PayloadAssumption DEF Thread, NoThread, NoOffset, MainPc, TimerPc
  <2>1. topic \in Seq(Payload) /\ committed \in 0 .. Len(topic) \cup {NoOffset}
    OBVIOUS
  <2>2. pc \in [Thread -> MainPc \cup TimerPc]
    OBVIOUS
  <2>3. message \in Payload <=> pc["main"] = "process"
    OBVIOUS
  <2>4. batch \in [Thread -> Seq(Payload)]
    OBVIOUS
  <2> QED
    BY <2>1, <2>2, <2>3, <2>4 DEF TypeOK
<1>2. LockDiscipline
  BY DEF LockDiscipline, FlushSerialised, Flushing, Up, Thread
<1>3. Held = {}
  BY ToSetEmpty DEF Held, Thread
<1>4. RecordInv
  BY <1>3, ToSetEmpty
  DEF RecordInv, HeldIsValid, DatabaseFirst, FilesFollowDatabase,
      DuplicateIsCovered, AssignedHasOrigin, NothingVanishes, Thread
<1> QED
  BY <1>1, <1>2, <1>4 DEF IInv

(***************************************************************************)
(* The invariant of the proof: types, the discipline of _processing_lock,  *)
(* and where every line that was taken is.                                 *)
(***************************************************************************)
THEOREM Invariance == Spec => []IInv
<1>1. Init => IInv
  BY InvariantInit
<1>2. IInv /\ [Next]_vars => IInv'
  BY TypeStep, LockStep, RecordStep DEF IInv
<1> QED
  BY <1>1, <1>2, PTL DEF Spec

(***************************************************************************)
(* Every reachable state of the consumer is well typed: in particular the  *)
(* position and the committed offset never pass the end of the partition.  *)
(***************************************************************************)
THEOREM TypeCorrect == Spec => []TypeOK
<1>1. IInv => TypeOK
  BY DEF IInv
<1> QED
  BY <1>1, Invariance, PTL

(***************************************************************************)
(* A flush is exclusive: _processing_lock keeps the flush timer and the    *)
(* main loop apart, whatever the batch size and whatever fails.            *)
(***************************************************************************)
THEOREM FlushIsSerialised == Spec => []FlushSerialised
<1>1. IInv => FlushSerialised
  BY DEF IInv, LockDiscipline
<1> QED
  BY <1>1, Invariance, PTL

(***************************************************************************)
(* An event that the duplicate filter would drop is on record or held, for *)
(* every cache size and every choice of what an eviction forgets.          *)
(***************************************************************************)
THEOREM DuplicatesAreCovered == Spec => []DuplicateIsCovered
<1>1. IInv => DuplicateIsCovered
  BY DEF IInv, RecordInv
<1> QED
  BY <1>1, Invariance, PTL

(***************************************************************************)
(* Every line handed out since the partition was assigned is on record,    *)
(* in memory, or knowingly skipped, through any number of faults.          *)
(***************************************************************************)
THEOREM NoLineVanishes == Spec => []NothingVanishes
<1>1. IInv => NothingVanishes
  BY DEF IInv, RecordInv
<1> QED
  BY <1>1, Invariance, PTL

\* A line in a JSONL file has been through PostgreSQL.
THEOREM DatabaseComesFirst == Spec => []FilesFollowDatabase
<1>1. IInv => FilesFollowDatabase
  BY DEF IInv, RecordInv
<1> QED
  BY <1>1, Invariance, PTL

-----------------------------------------------------------------------------
(* Refinement *)

LEMMA ContractStep ==
  ASSUME IInv, [Next]_vars
  PROVE  [Contract!Next]_(Contract!vars)
<1> USE DEF IInv, RecordInv
<1>1. ASSUME UNCHANGED <<InMemory, Settled>>
      PROVE  [Contract!Next]_(Contract!vars)
  BY <1>1 DEF Contract!vars
<1>2. ASSUME Settled \subseteq Settled', Settled' \subseteq Settled \cup InMemory,
             InMemory' \subseteq InMemory, InMemory \subseteq InMemory' \cup Settled'
      PROVE  [Contract!Next]_(Contract!vars)
  BY <1>2 DEF Contract!Next, Contract!Settle
<1>3. ASSUME ProcessGone, UNCHANGED storeVars
      PROVE  [Contract!Next]_(Contract!vars)
  <2>1. InMemory' = {}
    BY <1>3, ToSetEmpty, PayloadAssumption DEF ProcessGone, InMemory, Held, Thread
  <2>2. Settled' = Settled
    BY <1>3 DEF Settled, storeVars
  <2> QED
    BY <2>1, <2>2 DEF Contract!Next, Contract!Die
<1>4. ASSUME UNCHANGED <<message, buffer, batch, storeVars>>
      PROVE  UNCHANGED <<InMemory, Settled>>
  BY <1>4 DEF InMemory, Held, Settled, storeVars
<1>5. ASSUME NEW t \in Thread, Snapshot(t, buffer), pc[t] \in {"sleep", "cleanup"},
             UNCHANGED <<message, storeVars>>
      PROVE  UNCHANGED <<InMemory, Settled>>
  <2>1. batch[t] = <<>> /\ buffer \in Seq(Payload)
    BY <1>5 DEF LockDiscipline, Flushing, TypeOK
  <2>2. Held' \cup ToSet(buffer) = Held \cup ToSet(buffer)
    BY <1>5, <2>1, SnapshotHeld
  <2>3. ToSet(buffer) \subseteq Held /\ ToSet(buffer) \subseteq Held'
    <3>1. batch'[t] = buffer
      BY <1>5, <2>1, SnapshotFacts
    <3> QED
      BY <3>1 DEF Held, Thread
  <2>4. Held' = Held /\ Settled' = Settled
    BY <1>5, <2>2, <2>3 DEF Settled, storeVars
  <2> QED
    BY <1>5, <2>4 DEF InMemory
<1>6. ASSUME NEW t \in Thread, Flush(t)
      PROVE  [Contract!Next]_(Contract!vars)
  BY <1>2, <1>6, FlushKeeps, FlushOutcome DEF InMemory
<1>discard. ASSUME UNCHANGED <<buffer, batch, storeVars>>, message \in Payload,
                   ClassOf[message] = "invalid", message' = NoPayload
       PROVE  [Contract!Next]_(Contract!vars)
  <2>1. Held' = Held /\ message \notin Held
    BY <1>discard, HeldUnchanged DEF HeldIsValid
  <2>2. InMemory' = InMemory \ {message} /\ Settled' = Settled
    BY <1>discard, <2>1, PayloadAssumption DEF InMemory, Settled, storeVars
  <2> QED
    BY <1>discard, <2>2 DEF Contract!Next, Contract!Discard
<1>7. CASE UNCHANGED vars
  BY <1>1, <1>4, <1>7 DEF vars, memoryVars
<1>8. CASE Assign
  BY <1>1, <1>4, <1>8 DEF Assign, memoryVars
<1>9. CASE Start
  BY <1>1, <1>4, <1>9 DEF Start, memoryVars
<1>10. CASE Environment
  <2>1. ASSUME NEW p \in Payload, Publish(p)
        PROVE  [Contract!Next]_(Contract!vars)
    BY <1>1, <1>4, <2>1 DEF Publish, memoryVars
  <2>2. CASE Rejoin
    BY <1>1, <1>4, <2>2 DEF Rejoin, memoryVars
  <2>3. CASE Terminate
    BY <1>1, <1>4, <2>3 DEF Terminate, memoryVars
  <2>4. CASE Crash
    BY <1>3, <2>4 DEF Crash
  <2>5. CASE LoopError
    <3>1. UNCHANGED <<buffer, batch, storeVars>>
      BY <2>5 DEF LoopError, memoryVars
    <3>2. CASE UNCHANGED message
      BY <1>1, <1>4, <3>1, <3>2
    <3>3. CASE message \in Payload /\ ClassOf[message] = "invalid" /\ message' = NoPayload
      BY <1>discard, <3>1, <3>3
    <3> QED
      BY <2>5, <3>2, <3>3 DEF LoopError, TypeOK
  <2> QED
    BY <1>10, <2>1, <2>2, <2>3, <2>4, <2>5 DEF Environment
<1>11. CASE Timer
  <2>1. CASE TimerFlush
    BY <1>1, <1>5, <2>1 DEF TimerFlush, Thread
  <2>2. CASE TimerStop
    BY <1>1, <1>4, <2>2 DEF TimerStop, memoryVars
  <2>3. CASE Flush("timer")
    BY <1>6, <2>3 DEF Thread
  <2> QED
    BY <1>11, <2>1, <2>2, <2>3 DEF Timer
<1>12. CASE Main
  <2>1. CASE Yield
    <3>1. /\ message' = NextLine
          /\ UNCHANGED <<buffer, batch, storeVars>>
          /\ HasNext
      BY <2>1 DEF Yield, memoryVars
    <3>2. NextLine \in Payload /\ message \notin Payload
      BY <3>1 DEF HasNext, NextLine, TypeOK, NoOffset
    <3>3. InMemory' = InMemory \cup {NextLine} /\ Settled' = Settled
      BY <3>1, <3>2, HeldUnchanged DEF InMemory, Settled, storeVars
    <3> QED
      BY <3>2, <3>3 DEF Contract!Next, Contract!Take
  <2>2. CASE YieldStopping
    BY <1>1, <1>4, <2>2 DEF YieldStopping, memoryVars
  <2>3. CASE ProcessInvalid
    <3>1. /\ UNCHANGED <<buffer, batch, db, jsonl>>
          /\ message \in Payload /\ ClassOf[message] = "invalid"
          /\ message' \notin Payload
      BY <2>3, PayloadAssumption DEF ProcessInvalid, TakeMessage, memoryVars, TypeOK
    <3>2. Held' = Held /\ message \notin Held
      BY <3>1, HeldUnchanged DEF HeldIsValid
    <3>3. InMemory' = InMemory \ {message} /\ message \in InMemory
      BY <3>1, <3>2 DEF InMemory
    <3>4. CASE UNCHANGED deadLetters
      <4>1. Settled' = Settled
        BY <3>1, <3>4 DEF Settled
      <4> QED
        BY <3>1, <3>3, <4>1 DEF Contract!Next, Contract!Discard
    <3>5. CASE deadLetters' = deadLetters \cup {message}
      <4>1. /\ Settled \subseteq Settled'
            /\ Settled' \subseteq Settled \cup {message}
            /\ message \in Settled'
        BY <3>1, <3>5 DEF Settled
      <4> QED
        BY <1>2, <3>3, <4>1
    <3> QED
      BY <2>3, <3>4, <3>5 DEF ProcessInvalid
  <2>4. CASE ProcessDuplicate
    <3>1. /\ UNCHANGED <<buffer, batch, storeVars>>
          /\ message \in seen
          /\ message' \notin Payload
      BY <2>4, PayloadAssumption DEF ProcessDuplicate, TakeMessage, memoryVars
    <3>2. Held' = Held /\ Settled' = Settled
      BY <3>1, HeldUnchanged DEF Settled, storeVars
    <3> QED
      BY <1>2, <3>1, <3>2 DEF InMemory, DuplicateIsCovered
  <2>5. CASE ProcessEvent
    <3>1. message \in Payload /\ message' \notin Payload
      BY <2>5, PayloadAssumption DEF ProcessEvent, TakeMessage, TypeOK
    <3>2. Held' = Held \cup {message} /\ Settled' = Settled
      BY <2>5, ProcessEventHeld
    <3> QED
      BY <1>1, <3>1, <3>2 DEF InMemory
  <2>6. CASE Flush("main")
    BY <1>6, <2>6 DEF Thread
  <2>7. CASE Commit
    BY <1>1, <1>4, <2>7 DEF Commit
  <2>8. CASE Cleanup
    <3>1. CASE buffer = <<>>
      BY <1>1, <1>4, <2>8, <3>1 DEF Cleanup
    <3>2. CASE buffer # <<>>
      BY <1>1, <1>5, <2>8, <3>2 DEF Cleanup, Thread
    <3> QED
      BY <3>1, <3>2
  <2>9. CASE Exit
    BY <1>3, <2>9 DEF Exit
  <2> QED
    BY <1>12, <2>1, <2>2, <2>3, <2>4, <2>5, <2>6, <2>7, <2>8, <2>9 DEF Main
<1> QED
  BY <1>7, <1>8, <1>9, <1>10, <1>11, <1>12 DEF Next

(***************************************************************************)
(* The consumer implements IngestContract: an event it has taken leaves    *)
(* its memory only for the record, or with everything else when it dies.   *)
(***************************************************************************)
THEOREM ContractIsImplemented == Spec => ImplementsContract
<1>1. Init => Contract!Init
  <2> SUFFICES ASSUME Init
               PROVE  InMemory = {} /\ Settled = {}
    BY DEF Contract!Init
  <2>1. Held = {}
    BY ToSetEmpty DEF Init, Held, Thread
  <2>2. Settled = {}
    BY ToSetEmpty DEF Init, Settled
  <2> QED
    BY <2>1, <2>2, PayloadAssumption DEF Init, InMemory
<1>2. IInv /\ [Next]_vars => [Contract!Next]_(Contract!vars)
  BY ContractStep
<1> QED
  BY <1>1, <1>2, Invariance, PTL DEF Spec, ImplementsContract, Contract!Spec

-----------------------------------------------------------------------------
(* Readiness *)

(***************************************************************************)
(* A flush in progress has a batch that is not empty, and without one the  *)
(* buffer is what the last flush says of it.  The process need not be up.  *)
(***************************************************************************)
NoFlush == \A t \in Thread : ~Flushing(t)

WaitingIsKnown == IF flushError THEN buffer # <<>> ELSE Len(buffer) < BatchSize

ReadyInv ==
  /\ \A t \in Thread : Flushing(t) => batch[t] # <<>>
  /\ NoFlush => WaitingIsKnown

\* A step that neither begins nor ends a flush and leaves the buffer alone.
LEMMA ReadyKept ==
  ASSUME ReadyInv, UNCHANGED <<buffer, batch, flushError>>,
         \A t \in Thread : Flushing(t)' <=> Flushing(t)
  PROVE  ReadyInv'
  BY DEF ReadyInv, NoFlush, WaitingIsKnown

LEMMA ReadyAfterGone ==
  ASSUME ProcessGone
  PROVE  ReadyInv'
<1>1. /\ \A t \in Thread : ~Flushing(t)'
      /\ buffer' = <<>>
      /\ flushError' = FALSE
  BY DEF ProcessGone, Flushing
<1>2. Len(buffer') < BatchSize
  BY <1>1, ConfigAssumption
<1>3. WaitingIsKnown'
  BY <1>1, <1>2, Zenon DEF WaitingIsKnown
<1> QED
  BY <1>1, <1>3 DEF ReadyInv

LEMMA ReadyAfterSnapshot ==
  ASSUME IInv, NEW t \in Thread, NEW c \in Seq(Payload), Snapshot(t, c),
         c # <<>>, lock = NoThread
  PROVE  ReadyInv'
<1>1. /\ pc'[t] \in {"database", "file"}
      /\ batch'[t] = c
      /\ \A u \in Thread \ {t} : pc'[u] = pc[u]
  BY SnapshotFacts DEF IInv
<1>2. \A u \in Thread : ~Flushing(u)
  BY DEF IInv, LockDiscipline, FlushSerialised, Thread, NoThread
<1>3. Flushing(t)' /\ \A u \in Thread \ {t} : ~Flushing(u)'
  BY <1>1, <1>2 DEF Flushing
<1> QED
  BY <1>1, <1>3 DEF ReadyInv, NoFlush

LEMMA ReadyAfterFlush ==
  ASSUME IInv, ReadyInv, NEW t \in Thread, Flush(t)
  PROVE  ReadyInv'
<1>1. /\ Flushing(t)
      /\ buffer = <<>>
      /\ \A u \in Thread \ {t} : ~Flushing(u)
      /\ batch[t] # <<>>
      /\ batch[t] \in Seq(Payload)
  BY FlushOutcome
  DEF IInv, RecordInv, LockDiscipline, FlushSerialised, ReadyInv, TypeOK
<1>2. ASSUME FlushOver(t)
      PROVE  \A u \in Thread : ~Flushing(u)'
  BY <1>1, <1>2, FlushOverFacts DEF IInv, Flushing, Thread
<1>3. CASE DatabaseDone(t) /\ pc[t] = "database"
  <2>1. /\ pc'[t] = "file"
        /\ \A u \in Thread \ {t} : pc'[u] = pc[u]
        /\ UNCHANGED <<buffer, batch, flushError>>
    BY <1>3 DEF DatabaseDone, memoryVars, IInv, TypeOK
  <2> QED
    BY <1>1, <2>1, ReadyKept DEF Flushing
<1>4. CASE FlushFails(t)
  <2>1. FlushOver(t) /\ buffer' = batch[t] \o buffer /\ flushError' = TRUE
    BY <1>4 DEF FlushFails, PutBack
  <2>2. buffer' # <<>>
    BY <1>1, <2>1
  <2> QED
    BY <1>2, <2>1, <2>2 DEF ReadyInv, WaitingIsKnown
<1>5. CASE FileAppended(t)
  <2>1. FlushOver(t) /\ buffer' = buffer /\ flushError' = FALSE
    BY <1>5 DEF FileAppended
  <2>2. Len(buffer') < BatchSize
    BY <1>1, <2>1, ConfigAssumption
  <2>3. WaitingIsKnown'
    BY <2>1, <2>2, Zenon DEF WaitingIsKnown
  <2> QED
    BY <1>2, <2>1, <2>3 DEF ReadyInv
<1>6. Flush(t) => (DatabaseDone(t) /\ pc[t] = "database") \/ FlushFails(t)
                  \/ FileAppended(t)
  BY DEF Flush, BatchInserted, RowsInserted, RowsInterrupted,
         DatabaseUnreachable, DriverRefuses, HandleClosed, FileFails
<1> QED
  BY <1>3, <1>4, <1>5, <1>6

LEMMA ReadyAfterEvent ==
  ASSUME IInv, ReadyInv, ProcessEvent
  PROVE  ReadyInv'
<1> DEFINE c == Append(buffer, message)
<1>1. /\ pc["main"] = "process"
      /\ lock = NoThread
      /\ UNCHANGED flushError
  BY DEF ProcessEvent, TakeMessage
<1>2. c \in Seq(Payload) /\ c # <<>> /\ Len(c) \in Nat
  <2>1. buffer \in Seq(Payload) /\ message \in Payload
    BY <1>1 DEF IInv, TypeOK
  <2> QED
    BY <2>1
<1> HIDE DEF c
<1>3. CASE BatchFull(c)
  <2>1. Snapshot("main", c)
    BY <1>3, Zenon DEF ProcessEvent, c
  <2> QED
    BY <1>1, <1>2, <2>1, ReadyAfterSnapshot DEF Thread
<1>4. CASE ~BatchFull(c)
  <2>1. /\ buffer' = c
        /\ pc' = [pc EXCEPT !["main"] = "commit"]
        /\ batch' = batch
    BY <1>4, Zenon DEF ProcessEvent, c
  <2>2. \A t \in Thread : ~Flushing(t)
    BY <1>1 DEF IInv, LockDiscipline, FlushSerialised, Thread, NoThread
  <2>3. \A t \in Thread : ~Flushing(t)'
    BY <2>1, <2>2 DEF Flushing, IInv, TypeOK
  <2>4. Len(buffer') < BatchSize
    BY <1>2, <1>4, <2>1, ConfigAssumption DEF BatchFull
  <2>5. WaitingIsKnown'
    BY <1>2, <2>1, <2>4, Zenon DEF WaitingIsKnown
  <2> QED
    BY <2>3, <2>5 DEF ReadyInv
<1> QED
  BY <1>3, <1>4

LEMMA ReadyStep ==
  ASSUME IInv, ReadyInv, [Next]_vars
  PROVE  ReadyInv'
<1> USE DEF memoryVars
<1>0. TypeOK /\ LockDiscipline
  BY DEF IInv
<1>1. ASSUME UNCHANGED <<buffer, batch, flushError>>,
             \A t \in Thread : Flushing(t)' <=> Flushing(t)
      PROVE  ReadyInv'
  BY <1>1, ReadyKept
<1>2. ASSUME NEW new, pc' = [pc EXCEPT !["main"] = new],
             new \notin {"database", "file"},
             ~Flushing("main")
      PROVE  \A t \in Thread : Flushing(t)' <=> Flushing(t)
  BY <1>0, <1>2 DEF TypeOK, Flushing, Thread
<1>3. CASE UNCHANGED vars
  BY <1>1, <1>3 DEF vars, Flushing
<1>4. CASE Assign
  BY <1>1, <1>4 DEF Assign, Flushing
<1>5. CASE Start
  BY <1>0, <1>1, <1>5 DEF Start, Flushing, Up, LockDiscipline, TypeOK, Thread
<1>6. CASE Environment
  <2>1. ASSUME NEW p \in Payload, Publish(p)
        PROVE  ReadyInv'
    BY <1>1, <2>1 DEF Publish, Flushing
  <2>2. CASE Rejoin
    BY <1>1, <2>2 DEF Rejoin, Flushing
  <2>3. CASE Terminate
    BY <1>1, <2>3 DEF Terminate, Flushing
  <2>4. CASE Crash
    BY <2>4, ReadyAfterGone DEF Crash
  <2>5. CASE LoopError
    BY <1>1, <1>2, <2>5 DEF LoopError, Flushing
  <2> QED
    BY <1>6, <2>1, <2>2, <2>3, <2>4, <2>5 DEF Environment
<1>7. CASE Timer
  <2>1. CASE TimerFlush
    <3>1. /\ Snapshot("timer", buffer) /\ buffer \in Seq(Payload)
          /\ buffer # <<>> /\ lock = NoThread
      BY <1>0, <2>1 DEF TimerFlush, TypeOK
    <3> QED
      BY <3>1, ReadyAfterSnapshot DEF Thread
  <2>2. CASE TimerStop
    BY <1>0, <1>1, <2>2 DEF TimerStop, Flushing, TypeOK, Thread
  <2>3. CASE Flush("timer")
    BY <2>3, ReadyAfterFlush DEF Thread
  <2> QED
    BY <1>7, <2>1, <2>2, <2>3 DEF Timer
<1>8. CASE Main
  <2>1. CASE Yield
    BY <1>1, <1>2, <2>1 DEF Yield, HasNext, Flushing
  <2>2. CASE YieldStopping
    BY <1>1, <1>2, <2>2 DEF YieldStopping, HasNext, Flushing
  <2>3. CASE ProcessInvalid
    BY <1>1, <1>2, <2>3 DEF ProcessInvalid, TakeMessage, Flushing
  <2>4. CASE ProcessDuplicate
    BY <1>1, <1>2, <2>4 DEF ProcessDuplicate, TakeMessage, Flushing
  <2>5. CASE ProcessEvent
    BY <2>5, ReadyAfterEvent
  <2>6. CASE Flush("main")
    BY <2>6, ReadyAfterFlush DEF Thread
  <2>7. CASE Commit
    <3> DEFINE new == IF cleaning THEN "closing" ELSE "poll"
    <3>1. /\ pc["main"] = "commit"
          /\ pc' = [pc EXCEPT !["main"] = new]
          /\ UNCHANGED <<buffer, batch, flushError>>
      BY <2>7, Zenon DEF Commit
    <3>2. new \in {"closing", "poll"}
      BY Zenon
    <3> HIDE DEF new
    <3> QED
      BY <1>1, <1>2, <3>1, <3>2 DEF Flushing
  <2>8. CASE Cleanup
    <3>1. CASE buffer = <<>>
      BY <1>1, <1>2, <2>8, <3>1 DEF Cleanup, Flushing
    <3>2. CASE buffer # <<>>
      <4>1. /\ Snapshot("main", buffer) /\ buffer \in Seq(Payload)
            /\ lock = NoThread
        BY <1>0, <2>8, <3>2 DEF Cleanup, TypeOK
      <4> QED
        BY <3>2, <4>1, ReadyAfterSnapshot DEF Thread
    <3> QED
      BY <3>1, <3>2
  <2>9. CASE Exit
    BY <2>9, ReadyAfterGone DEF Exit
  <2> QED
    BY <1>8, <2>1, <2>2, <2>3, <2>4, <2>5, <2>6, <2>7, <2>8, <2>9 DEF Main
<1> QED
  BY <1>3, <1>4, <1>5, <1>6, <1>7, <1>8 DEF Next

LEMMA ReadyInit == Init => ReadyInv
<1> SUFFICES ASSUME Init
             PROVE  ReadyInv
  OBVIOUS
<1>1. /\ \A t \in Thread : ~Flushing(t)
      /\ buffer = <<>>
      /\ flushError = FALSE
  BY DEF Init, Flushing
<1>2. Len(buffer) < BatchSize
  BY <1>1, ConfigAssumption
<1>3. WaitingIsKnown
  BY <1>1, <1>2, Zenon DEF WaitingIsKnown
<1> QED
  BY <1>1, <1>3 DEF ReadyInv

(***************************************************************************)
(* What _is_ready() makes of _last_flush_error is true between flushes,    *)
(* for every batch size, whichever thread flushed and whatever failed.     *)
(***************************************************************************)
THEOREM ReadinessIsHonest == Spec => []ReadinessHonest
<1>1. Init => ReadyInv
  BY ReadyInit
<1>2. IInv /\ ReadyInv /\ [Next]_vars => ReadyInv'
  BY ReadyStep
<1>3. ReadyInv => ReadinessHonest
  BY DEF ReadyInv, NoFlush, WaitingIsKnown, ReadinessHonest
<1> QED
  BY <1>1, <1>2, <1>3, Invariance, PTL DEF Spec

-----------------------------------------------------------------------------
(* A process that nothing stops *)

(***************************************************************************)
(* Without a crash, a signal or an exception in the loop a process that    *)
(* was started never leaves the loop.                                      *)
(***************************************************************************)
NothingStopsIt == Faults \cap {"crash", "sigterm", "loop"} = {}

InLoop ==
  /\ pc["main"] \notin {"cleanup", "closing"}
  /\ ~cleaning
  /\ Up => running

LEMMA LoopStep ==
  ASSUME NothingStopsIt, IInv, InLoop, [Next]_vars
  PROVE  InLoop'
<1> USE DEF InLoop, Up
<1>0. TypeOK
  BY DEF IInv
<1>1. ASSUME NEW new, pc' = [pc EXCEPT !["main"] = new],
             new \notin {"cleanup", "closing"},
             UNCHANGED <<running, cleaning>>, Up
      PROVE  InLoop'
  BY <1>0, <1>1 DEF TypeOK, Thread
<1>2. ASSUME UNCHANGED <<running, cleaning>>, pc'["main"] = pc["main"]
      PROVE  InLoop'
  BY <1>2
<1>3. ASSUME NEW t \in Thread, Flush(t)
      PROVE  InLoop'
  <2>1. CASE DatabaseDone(t) /\ pc[t] = "database"
    BY <1>0, <2>1 DEF DatabaseDone, TypeOK
  <2>2. CASE FlushFails(t)
    <3>1. FlushOver(t) /\ UNCHANGED <<running, cleaning>>
      BY <2>2 DEF FlushFails
    <3>2. pc'["main"] = pc["main"] \/ pc'["main"] = "commit"
      BY <1>0, <3>1, FlushOverFacts DEF Thread
    <3>3. t # "main" => pc'["main"] = pc["main"]
      BY <1>0, <3>1, FlushOverFacts DEF Thread
    <3>4. Flushing(t)
      BY <1>3 DEF Flush, BatchInserted, RowsInserted, RowsInterrupted,
         DatabaseUnreachable, DriverRefuses, HandleClosed, FileAppended,
         FileFails, Flushing
    <3> QED
      BY <3>1, <3>2, <3>3, <3>4 DEF Flushing
  <2>3. CASE FileAppended(t)
    <3>1. FlushOver(t) /\ UNCHANGED <<running, cleaning>> /\ pc[t] = "file"
      BY <2>3 DEF FileAppended
    <3>2. pc'["main"] = pc["main"] \/ pc'["main"] = "commit"
      BY <1>0, <3>1, FlushOverFacts DEF Thread
    <3>3. t # "main" => pc'["main"] = pc["main"]
      BY <1>0, <3>1, FlushOverFacts DEF Thread
    <3> QED
      BY <3>1, <3>2, <3>3
  <2> QED
    BY <1>3, <2>1, <2>2, <2>3
    DEF Flush, BatchInserted, RowsInserted, RowsInterrupted,
        DatabaseUnreachable, DriverRefuses, HandleClosed, FileFails
<1>4. CASE UNCHANGED vars \/ Assign
  BY <1>2, <1>4 DEF vars, Assign
<1>5. CASE Start
  BY <1>0, <1>5 DEF Start, TypeOK, Thread
<1>6. CASE Environment
  <2>1. ASSUME NEW p \in Payload, Publish(p)
        PROVE  InLoop'
    BY <1>2, <2>1 DEF Publish
  <2>2. CASE Rejoin
    BY <1>2, <2>2 DEF Rejoin
  <2>3. ~Terminate /\ ~Crash /\ ~LoopError
    BY DEF Terminate, Crash, LoopError, Fault, NothingStopsIt
  <2> QED
    BY <1>6, <2>1, <2>2, <2>3 DEF Environment
<1>7. CASE Timer
  <2>1. CASE TimerFlush
    <3>1. Snapshot("timer", buffer) /\ UNCHANGED <<running, cleaning>>
      BY <2>1 DEF TimerFlush
    <3>2. pc'["main"] = pc["main"]
      BY <1>0, <3>1 DEF Snapshot, TypeOK, Thread
    <3> QED
      BY <1>2, <3>1, <3>2
  <2>2. ~TimerStop
    BY DEF TimerStop
  <2> QED
    BY <1>3, <1>7, <2>1, <2>2 DEF Timer, Thread
<1>8. CASE Main
  <2>1. CASE Yield
    BY <1>1, <2>1 DEF Yield, HasNext
  <2>2. CASE ProcessInvalid \/ ProcessDuplicate
    BY <1>1, <2>2 DEF ProcessInvalid, ProcessDuplicate, TakeMessage
  <2>3. CASE ProcessEvent
    <3>1. /\ pc["main"] = "process"
          /\ UNCHANGED <<running, cleaning>>
      BY <2>3 DEF ProcessEvent, TakeMessage
    <3>2. \/ pc' = [pc EXCEPT !["main"] = "commit"]
          \/ pc' = [pc EXCEPT !["main"] = FirstStage]
      BY <2>3, Zenon DEF ProcessEvent, Snapshot
    <3>3. FirstStage \in {"database", "file"}
      BY Zenon DEF FirstStage
    <3> QED
      BY <1>1, <3>1, <3>2, <3>3
  <2>4. CASE Commit
    <3>1. pc' = [pc EXCEPT !["main"] = "poll"]
      BY <2>4, Zenon DEF Commit
    <3>2. pc["main"] = "commit" /\ UNCHANGED <<running, cleaning>>
      BY <2>4 DEF Commit
    <3> QED
      BY <1>1, <3>1, <3>2
  <2>5. ~YieldStopping /\ ~Cleanup /\ ~Exit
    BY DEF YieldStopping, Cleanup, Exit, HasNext
  <2> QED
    BY <1>3, <1>8, <2>1, <2>2, <2>3, <2>4, <2>5 DEF Main, Thread
<1> QED
  BY <1>4, <1>5, <1>6, <1>7, <1>8 DEF Next

\* What is therefore never taken, and what is left of Next.
LEMMA StepsInLoop ==
  ASSUME NothingStopsIt, InLoop, [Next]_vars
  PROVE  \/ UNCHANGED vars \/ Assign \/ Start \/ Rejoin
         \/ \E p \in Payload : Publish(p)
         \/ TimerFlush
         \/ \E t \in Thread : Flush(t)
         \/ Yield \/ ProcessInvalid \/ ProcessDuplicate \/ ProcessEvent
         \/ Commit
<1>1. ~Terminate /\ ~Crash /\ ~LoopError
  BY DEF Terminate, Crash, LoopError, Fault, NothingStopsIt
<1>2. ~TimerStop /\ ~YieldStopping /\ ~Cleanup /\ ~Exit
  BY DEF TimerStop, YieldStopping, Cleanup, Exit, HasNext, InLoop, Up
<1> QED
  BY <1>1, <1>2 DEF Next, Main, Timer, Environment, Thread

-----------------------------------------------------------------------------
(* How much is committed before it is on record *)

LEMMA ToSetIsFinite ==
  ASSUME NEW S, NEW s \in Seq(S)
  PROVE  IsFiniteSet(ToSet(s)) /\ Cardinality(ToSet(s)) <= Len(s)
<1> DEFINE f == [i \in 1 .. Len(s) |-> s[i]]
<1>1. Len(s) \in Nat /\ DOMAIN s = 1 .. Len(s)
  OBVIOUS
<1>2. f \in Surjection(1 .. Len(s), ToSet(s))
  BY <1>1 DEF Surjection, ToSet
<1>3. IsFiniteSet(1 .. Len(s)) /\ Cardinality(1 .. Len(s)) = Len(s)
  <2>1. /\ IsFiniteSet(1 .. Len(s))
        /\ Cardinality(1 .. Len(s)) = IF 1 > Len(s) THEN 0 ELSE Len(s) - 1 + 1
    BY <1>1, FS_Interval
  <2> QED
    BY <1>1, <2>1
<1> HIDE DEF f
<1> QED
  BY <1>2, <1>3, FS_Surjection

\* The lines that are committed and not on record.
Exposed == {topic[i] : i \in OffRecord}

(***************************************************************************)
(* What is committed was taken by this process, and is in a buffer if it   *)
(* is not on record.                                                       *)
(***************************************************************************)
CommittedIsTaken ==
  /\ skipped = {}
  /\ position # NoOffset => committed <= position
  /\ origin # NoOffset =>
       \A i \in origin + 1 .. committed : topic[i] \in Held \cup Settled

FewExposed == flushError \/ (IsFiniteSet(Exposed) /\ Cardinality(Exposed) < BatchSize)

LinesAreKept == NothingStopsIt /\ "dlq" \notin Faults

ExposureInv == IInv /\ ReadyInv /\ InLoop /\ CommittedIsTaken /\ FewExposed

LEMMA ExposedLines ==
  ASSUME NEW p
  PROVE  p \in Exposed <=>
           /\ origin # NoOffset
           /\ \E i \in origin + 1 .. committed :
                 p = topic[i] /\ topic[i] \notin Settled
  BY DEF Exposed, OffRecord

\* Fewer lines are exposed than before.
LEMMA FewerExposed ==
  ASSUME FewExposed, Exposed' \subseteq Exposed, flushError' = flushError
  PROVE  FewExposed'
<1>1. CASE flushError
  BY <1>1 DEF FewExposed
<1>2. CASE ~flushError
  <2>1. IsFiniteSet(Exposed) /\ Cardinality(Exposed) < BatchSize
    BY <1>2 DEF FewExposed
  <2>2. IsFiniteSet(Exposed') /\ Cardinality(Exposed') <= Cardinality(Exposed)
    BY <2>1, FS_Subset
  <2>3. Cardinality(Exposed) \in Nat /\ Cardinality(Exposed') \in Nat
    BY <2>1, <2>2, FS_CardinalityType
  <2> QED
    BY <2>1, <2>2, <2>3, ConfigAssumption DEF FewExposed
<1> QED
  BY <1>1, <1>2

(***************************************************************************)
(* A step that neither assigns nor commits: nothing it knew is forgotten.  *)
(***************************************************************************)
LEMMA TakenIsKept ==
  ASSUME TypeOK, CommittedIsTaken, UNCHANGED <<committed, origin, skipped>>,
         \A i \in 1 .. Len(topic) : topic'[i] = topic[i],
         position' # NoOffset => position # NoOffset /\ position <= position',
         position' \in Int, Settled \subseteq Settled', Held \subseteq Held' \cup Settled'
  PROVE  CommittedIsTaken' /\ Exposed' \subseteq Exposed
<1>1. ASSUME origin # NoOffset, NEW i \in origin + 1 .. committed
      PROVE  topic'[i] = topic[i]
  <2>1. i \in 1 .. Len(topic)
    BY <1>1 DEF TypeOK, NoOffset
  <2> QED
    BY <2>1
<1>2. CommittedIsTaken'
  <2>1. position' # NoOffset => committed' <= position'
    <3> SUFFICES ASSUME position' # NoOffset
                 PROVE  committed <= position'
      OBVIOUS
    <3>1. committed <= position /\ position <= position'
      BY DEF CommittedIsTaken
    <3>2. committed \in Int /\ position \in Int
      BY DEF TypeOK, NoOffset
    <3> QED
      BY <3>1, <3>2
  <2> QED
    BY <1>1, <2>1 DEF CommittedIsTaken
<1>3. ASSUME NEW p \in Exposed'
      PROVE  p \in Exposed
  <2>1. /\ origin' # NoOffset
        /\ \E i \in origin' + 1 .. committed' :
              p = topic'[i] /\ topic'[i] \notin Settled'
    BY DEF Exposed, OffRecord
  <2>2. PICK i \in origin + 1 .. committed :
           p = topic'[i] /\ topic'[i] \notin Settled'
    BY <2>1
  <2> QED
    BY <1>1, <2>1, <2>2, ExposedLines
<1> QED
  BY <1>2, <1>3

LEMMA ExposureStep ==
  ASSUME LinesAreKept, ExposureInv, [Next]_vars
  PROVE  CommittedIsTaken' /\ FewExposed'
<1> USE DEF memoryVars, kafkaVars, historyVars
<1>0. /\ TypeOK /\ TypeOK' /\ LockDiscipline /\ IInv /\ RecordInv
      /\ ReadyInv /\ InLoop /\ CommittedIsTaken /\ FewExposed
      /\ NothingStopsIt
  BY TypeStep DEF ExposureInv, IInv, LinesAreKept
<1> DEFINE Goal == CommittedIsTaken' /\ FewExposed'
           Same == UNCHANGED <<committed, origin, skipped>>
           Prefix == \A i \in 1 .. Len(topic) : topic'[i] = topic[i]
           Onward == position' # NoOffset => position # NoOffset /\ position <= position'
           Kept == Settled \subseteq Settled' /\ Held \subseteq Held' \cup Settled'
<1>1. ASSUME Same, Prefix, Onward, Kept, UNCHANGED flushError
      PROVE  Goal
  BY <1>0, <1>1, TakenIsKept, FewerExposed DEF TypeOK, NoOffset
<1>2. ASSUME UNCHANGED position
      PROVE  Onward
  BY <1>0, <1>2 DEF TypeOK, NoOffset
<1>3. ASSUME UNCHANGED <<buffer, batch, storeVars>>
      PROVE  Held' = Held /\ Settled' = Settled /\ Kept
  BY <1>3, HeldUnchanged DEF Settled, storeVars
<1>4. UNCHANGED topic => Prefix
  OBVIOUS
<1> HIDE DEF Goal
<1> SUFFICES Goal
  BY DEF Goal
<1>5. CASE UNCHANGED vars \/ Start
  <2>1. Same /\ Prefix /\ UNCHANGED <<position, flushError, buffer, batch, storeVars>>
    BY <1>5 DEF vars, Start
  <2> QED
    BY <1>1, <1>2, <1>3, <2>1
<1>6. CASE Assign
  <2>1. /\ origin' = StartOffset /\ position' = StartOffset
        /\ UNCHANGED <<committed, topic, skipped, flushError>>
    BY <1>6 DEF Assign
  <2>2. StartOffset \in Nat /\ committed \in Int /\ committed <= StartOffset
    BY <1>0 DEF StartOffset, TypeOK, NoOffset
  <2>3. origin' + 1 .. committed' = {}
    BY <2>1, <2>2
  <2>4. Exposed' \subseteq Exposed
    BY <2>3 DEF Exposed, OffRecord
  <2>5. CommittedIsTaken'
    BY <1>0, <2>1, <2>2, <2>3 DEF CommittedIsTaken
  <2> QED
    BY <1>0, <2>1, <2>4, <2>5, FewerExposed DEF Goal
<1>7. CASE Rejoin
  <2>1. Same /\ Prefix /\ Onward /\ UNCHANGED <<flushError, buffer, batch, storeVars>>
    BY <1>7 DEF Rejoin
  <2> QED
    BY <1>1, <1>3, <2>1
<1>8. ASSUME NEW p \in Payload, Publish(p)
      PROVE  Goal
  <2>1. Same /\ UNCHANGED <<position, flushError, buffer, batch, storeVars>>
    BY <1>8 DEF Publish
  <2>2. Prefix
    <3>1. topic' = Append(topic, p) /\ topic \in Seq(Payload)
      BY <1>0, <1>8 DEF Publish, TypeOK
    <3> QED
      BY <3>1
  <2> QED
    BY <1>1, <1>2, <1>3, <2>1, <2>2
<1>9. CASE TimerFlush
  <2>1. /\ Snapshot("timer", buffer) /\ buffer \in Seq(Payload)
        /\ batch["timer"] = <<>>
    BY <1>0, <1>9 DEF TimerFlush, TypeOK, LockDiscipline, Flushing, Thread
  <2>2. Held' \cup ToSet(buffer) = Held \cup ToSet(buffer)
    BY <1>0, <2>1, SnapshotHeld DEF Thread
  <2>3. batch'["timer"] = buffer
    BY <1>0, <2>1, SnapshotFacts DEF Thread
  <2>4. Held \subseteq Held'
    BY <2>2, <2>3 DEF Held
  <2>5. /\ Same /\ UNCHANGED <<topic, position, flushError, storeVars>>
    BY <1>9 DEF TimerFlush
  <2>6. Settled' = Settled
    BY <2>5 DEF Settled, storeVars
  <2> QED
    BY <1>1, <1>2, <1>4, <2>4, <2>5, <2>6
<1>10. ASSUME NEW t \in Thread, Flush(t)
       PROVE  Goal
  <2>1. Kept
    BY <1>0, <1>10, FlushKeeps
  <2>2. UNCHANGED <<topic, position, origin, skipped>> /\ Flushing(t)
    BY <1>0, <1>10, FlushOutcome DEF RecordInv
  <2>3. UNCHANGED committed
    BY <1>10 DEF Flush, BatchInserted, RowsInserted, RowsInterrupted,
       DatabaseUnreachable, DriverRefuses, HandleClosed, FileAppended,
       FileFails, FlushFails, DatabaseDone
  <2>4. CommittedIsTaken' /\ Exposed' \subseteq Exposed
    BY <1>0, <1>2, <2>1, <2>2, <2>3, TakenIsKept DEF TypeOK, NoOffset
  <2>5. CASE DatabaseDone(t)
    BY <1>0, <2>4, <2>5, FewerExposed DEF DatabaseDone, Goal
  <2>6. CASE FlushFails(t)
    BY <2>4, <2>6 DEF FlushFails, FewExposed, Goal
  <2>7. CASE FileAppended(t)
    <3>1. FlushOver(t) /\ UNCHANGED buffer
      BY <2>7 DEF FileAppended
    <3>2. buffer = <<>> /\ \A u \in Thread \ {t} : batch[u] = <<>>
      BY <1>0, <2>2 DEF LockDiscipline, FlushSerialised
    <3>3. batch'[t] = <<>> /\ \A u \in Thread \ {t} : batch'[u] = <<>>
      BY <1>0, <3>1, <3>2, FlushOverFacts
    <3>4. Held' = {}
      BY <3>1, <3>2, <3>3, ToSetEmpty DEF Held, Thread
    <3>5. Exposed' = {}
      BY <2>4, <3>4 DEF CommittedIsTaken, Exposed, OffRecord
    <3>6. IsFiniteSet(Exposed') /\ Cardinality(Exposed') = 0
      BY <3>5, FS_EmptySet
    <3> QED
      BY <2>4, <3>6, ConfigAssumption DEF FewExposed, Goal
  <2>8. DatabaseDone(t) \/ FlushFails(t) \/ FileAppended(t)
    BY <1>10 DEF Flush, BatchInserted, RowsInserted, RowsInterrupted,
       DatabaseUnreachable, DriverRefuses, HandleClosed, FileFails
  <2> QED
    BY <2>5, <2>6, <2>7, <2>8
<1>11. CASE Yield
  <2>1. /\ Same /\ Prefix /\ UNCHANGED <<flushError, buffer, batch, storeVars>>
        /\ position' = position + 1 /\ position # NoOffset
    BY <1>11 DEF Yield, HasNext
  <2>2. Onward
    BY <1>0, <2>1 DEF TypeOK, NoOffset
  <2> QED
    BY <1>1, <1>3, <2>1, <2>2
<1>12. CASE ProcessInvalid
  <2>1. ~Fault("dlq")
    BY DEF Fault, LinesAreKept
  <2>2. /\ Same /\ UNCHANGED <<topic, position, flushError, buffer, batch, db, jsonl>>
        /\ deadLetters' = deadLetters \cup {message}
    BY <1>12, <2>1 DEF ProcessInvalid
  <2>3. Held' = Held /\ Settled \subseteq Settled'
    BY <2>2, HeldUnchanged DEF Settled
  <2> QED
    BY <1>1, <1>2, <1>4, <2>2, <2>3
<1>13. CASE ProcessDuplicate
  <2>1. Same /\ UNCHANGED <<topic, position, flushError, buffer, batch, storeVars>>
    BY <1>13 DEF ProcessDuplicate
  <2> QED
    BY <1>1, <1>2, <1>3, <1>4, <2>1
<1>14. CASE ProcessEvent
  <2>1. Same /\ UNCHANGED <<topic, position, flushError>>
    BY <1>14 DEF ProcessEvent
  <2>2. Kept
    BY <1>0, <1>14, ProcessEventHeld
  <2> QED
    BY <1>1, <1>2, <1>4, <2>1, <2>2
<1>15. CASE Commit
  <2>1. /\ pc["main"] = "commit"
        /\ UNCHANGED <<topic, position, origin, skipped, flushError, buffer,
                       batch, storeVars>>
        /\ committed' \in {committed, PositionToCommit}
    BY <1>15 DEF Commit
  <2>2. CASE committed' = committed
    BY <1>1, <1>2, <1>3, <1>4, <2>1, <2>2
  <2>3. CASE committed' = position /\ position # NoOffset
    <3>1. Held' = Held /\ Settled' = Settled
      BY <1>3, <2>1
    <3>2. InMemory = Held
      BY <1>0, <2>1 DEF InMemory, TypeOK
    <3>3. \A i \in origin + 1 .. position : topic[i] \in Held \cup Settled
      BY <1>0, <2>3, <3>2 DEF RecordInv, NothingVanishes, CommittedIsTaken
    <3>4. CommittedIsTaken'
      <4>1. position' # NoOffset => committed' <= position'
        BY <1>0, <2>1, <2>3 DEF TypeOK, NoOffset
      <4> QED
        BY <1>0, <2>1, <2>3, <3>1, <3>3, <4>1 DEF CommittedIsTaken
    <3>5. CASE flushError
      BY <2>1, <3>4, <3>5 DEF FewExposed, Goal
    <3>6. CASE ~flushError
      <4>1. \A t \in Thread : ~Flushing(t) /\ batch[t] = <<>>
        BY <1>0, <2>1 DEF LockDiscipline, FlushSerialised, Flushing, Thread
      <4>2. Held = ToSet(buffer)
        BY <4>1, ToSetEmpty DEF Held, Thread
      <4>3. Len(buffer) < BatchSize
        BY <1>0, <3>6, <4>1 DEF ReadyInv, NoFlush, WaitingIsKnown
      <4>4. Exposed' \subseteq ToSet(buffer)
        BY <2>1, <2>3, <3>1, <3>3, <4>2 DEF Exposed, OffRecord
      <4>5. /\ IsFiniteSet(ToSet(buffer))
            /\ Cardinality(ToSet(buffer)) <= Len(buffer)
        BY <1>0, ToSetIsFinite DEF TypeOK
      <4>6. /\ IsFiniteSet(Exposed')
            /\ Cardinality(Exposed') <= Cardinality(ToSet(buffer))
        BY <4>4, <4>5, FS_Subset
      <4>7. /\ Cardinality(Exposed') \in Nat
            /\ Cardinality(ToSet(buffer)) \in Nat
            /\ Len(buffer) \in Nat
        BY <1>0, <4>5, <4>6, FS_CardinalityType DEF TypeOK
      <4>8. Cardinality(Exposed') < BatchSize
        BY <4>3, <4>5, <4>6, <4>7, ConfigAssumption
      <4> QED
        BY <3>4, <4>6, <4>8 DEF FewExposed, Goal
    <3> QED
      BY <3>5, <3>6
  <2> QED
    BY <2>1, <2>2, <2>3 DEF PositionToCommit
<1> QED
  BY <1>0, <1>5, <1>6, <1>7, <1>8, <1>9, <1>10, <1>11, <1>12, <1>13, <1>14,
     <1>15, StepsInLoop

(***************************************************************************)
(* Unless the last flush has failed, less than one batch of what is        *)
(* committed is off record: for every batch size, every cache size and any *)
(* failures of the database, the files, the commits and the assignment.    *)
(* The process has to stay up, and the dead-letter file to be writable:    *)
(* otherwise lines are lost, and not only exposed.                         *)
(***************************************************************************)
THEOREM ExposureIsBounded ==
  ASSUME LinesAreKept
  PROVE  Spec => []ExposureBounded
<1>1. Init => CommittedIsTaken /\ FewExposed /\ InLoop
  <2> SUFFICES ASSUME Init
               PROVE  CommittedIsTaken /\ FewExposed /\ InLoop
    OBVIOUS
  <2>1. Exposed = {}
    BY DEF Init, Exposed, OffRecord
  <2>2. IsFiniteSet(Exposed) /\ Cardinality(Exposed) = 0
    BY <2>1, FS_EmptySet
  <2> QED
    BY <2>2, ConfigAssumption
    DEF Init, CommittedIsTaken, FewExposed, InLoop, Up, Thread
<1>2. Init => IInv /\ ReadyInv
  BY InvariantInit, ReadyInit
<1>3. ExposureInv /\ [Next]_vars => ExposureInv'
  BY TypeStep, LockStep, RecordStep, ReadyStep, LoopStep, ExposureStep
  DEF ExposureInv, IInv, LinesAreKept
<1>4. ExposureInv => ExposureBounded
  BY DEF ExposureInv, FewExposed, Exposed, ExposureBounded
<1> QED
  BY <1>1, <1>2, <1>3, <1>4, PTL DEF Spec, ExposureInv

-----------------------------------------------------------------------------
(* Each line once and in order *)

LEMMA Smallest ==
  ASSUME NEW S \in SUBSET Nat, S # {}
  PROVE  \E x \in S : \A y \in S : x <= y
<1> DEFINE R == OpToRel(<, Nat)
<1>1. \A x, y \in Nat : y < x => <<y, x>> \in R
  BY DEF OpToRel
<1>2. IsWellFoundedOn(R, Nat)
  BY NatLessThanWellFounded
<1> HIDE DEF R
<1>3. PICK x \in S : \A y \in S : <<y, x>> \notin R
  BY <1>2, WFMin
<1>4. ASSUME NEW y \in S
      PROVE  x <= y
  <2>1. x \in Nat /\ y \in Nat
    OBVIOUS
  <2>2. ~(y < x)
    BY <1>1, <1>3, <2>1
  <2> QED
    BY <2>1, <2>2
<1> QED
  BY <1>4

LEMMA ConcatPlaces ==
  ASSUME NEW S, NEW s \in Seq(S), NEW t \in Seq(S)
  PROVE  /\ DOMAIN (s \o t) = 1 .. Len(s) + Len(t)
         /\ \A i \in 1 .. Len(s) : (s \o t)[i] = s[i]
         /\ \A i \in 1 .. Len(t) : (s \o t)[Len(s) + i] = t[i]
  OBVIOUS

(***************************************************************************)
(* The rank of a line's host in a batch is where the host first occurs.    *)
(***************************************************************************)
FirstOf(b, i, j) == /\ HostOf[b[j]] = HostOf[b[i]]
                    /\ \A k \in 1 .. j - 1 : HostOf[b[k]] # HostOf[b[i]]

LEMMA HostRankExists ==
  ASSUME NEW b \in Seq(Payload), NEW i \in 1 .. Len(b)
  PROVE  HostRank(b, i) \in 1 .. i /\ FirstOf(b, i, HostRank(b, i))
<1> DEFINE S == {j \in 1 .. i : HostOf[b[j]] = HostOf[b[i]]}
<1>1. Len(b) \in Nat /\ i \in Nat
  OBVIOUS
<1>2. i \in S /\ S \in SUBSET Nat
  BY <1>1
<1>3. PICK j \in S : \A k \in S : j <= k
  BY <1>2, Smallest
<1>4. FirstOf(b, i, j)
  <2>1. ASSUME NEW k \in 1 .. j - 1
        PROVE  HostOf[b[k]] # HostOf[b[i]]
    <3>1. k \in 1 .. i /\ ~(j <= k)
      BY <1>1, <1>3, <2>1
    <3> QED
      BY <1>3, <3>1
  <2> QED
    BY <1>3, <2>1 DEF FirstOf
<1>5. \E m \in 1 .. i : FirstOf(b, i, m)
  BY <1>3, <1>4
<1>6. HostRank(b, i) = CHOOSE m \in 1 .. i : FirstOf(b, i, m)
  BY Zenon DEF HostRank, FirstOf
<1> QED
  BY <1>5, <1>6

LEMMA HostRankShared ==
  ASSUME NEW b \in Seq(Payload), NEW i \in 1 .. Len(b), NEW j \in 1 .. Len(b),
         HostOf[b[i]] = HostOf[b[j]]
  PROVE  HostRank(b, i) = HostRank(b, j)
<1> DEFINE r == HostRank(b, i)
           s == HostRank(b, j)
<1>1. /\ r \in 1 .. i /\ FirstOf(b, i, r)
      /\ s \in 1 .. j /\ FirstOf(b, j, s)
      /\ i \in Nat /\ j \in Nat
  BY HostRankExists
<1> HIDE DEF r, s
<1>2. ~(r < s)
  BY <1>1 DEF FirstOf
<1>3. ~(s < r)
  BY <1>1 DEF FirstOf
<1>4. r = s
  BY <1>1, <1>2, <1>3
<1> QED
  BY <1>4 DEF r, s

(***************************************************************************)
(* What GroupedByHost promises of two lines: they come from two places of  *)
(* the batch, and from the earlier one first if they share a host.         *)
(***************************************************************************)
LEMMA GroupingFacts ==
  ASSUME NEW b \in Seq(Payload), NEW f, GroupedByHost(b, f),
         NEW i \in 1 .. Len(b), NEW j \in 1 .. Len(b), i < j
  PROVE  /\ f[i] \in 1 .. Len(b) /\ f[j] \in 1 .. Len(b)
         /\ f[i] # f[j]
         /\ HostOf[b[f[i]]] = HostOf[b[f[j]]] => f[i] < f[j]
<1> DEFINE n == Len(b)
<1>1. /\ n \in Nat
      /\ f \in [1 .. n -> 1 .. n]
      /\ \/ HostRank(b, f[i]) < HostRank(b, f[j])
         \/ /\ HostRank(b, f[i]) = HostRank(b, f[j])
            /\ f[i] < f[j]
  <2>1. /\ f \in [1 .. n -> 1 .. n]
        /\ \A k, l \in 1 .. n :
             k < l => \/ HostRank(b, f[k]) < HostRank(b, f[l])
                      \/ /\ HostRank(b, f[k]) = HostRank(b, f[l])
                         /\ f[k] < f[l]
    BY Zenon DEF GroupedByHost
  <2>2. n \in Nat
    OBVIOUS
  <2> QED
    BY <2>1, <2>2, Zenon
<1>2. f[i] \in 1 .. n /\ f[j] \in 1 .. n
  BY <1>1
<1>3. HostRank(b, f[i]) \in Nat /\ HostRank(b, f[j]) \in Nat
  BY <1>1, <1>2, HostRankExists
<1>4. f[i] # f[j]
  <2> SUFFICES ASSUME f[i] = f[j]
               PROVE  FALSE
    OBVIOUS
  <2>1. ~(f[i] < f[j])
    BY <1>1, <1>2
  <2>2. ~(HostRank(b, f[i]) < HostRank(b, f[j]))
    BY <1>3
  <2> QED
    BY <1>1, <2>1, <2>2
<1>5. ASSUME HostOf[b[f[i]]] = HostOf[b[f[j]]]
      PROVE  f[i] < f[j]
  <2>1. HostRank(b, f[i]) = HostRank(b, f[j])
    BY <1>2, <1>5, HostRankShared
  <2>2. ~(HostRank(b, f[i]) < HostRank(b, f[j]))
    BY <1>3, <2>1
  <2> QED
    BY <1>1, <2>2
<1> QED
  BY <1>2, <1>4, <1>5

-----------------------------------------------------------------------------
(* The trail of the lines: from the files to the buffer *)

\* The lines on their way to the files, all in one place at any time.
Waiting == IF Flushing("main") THEN batch["main"]
           ELSE IF Flushing("timer") THEN batch["timer"]
           ELSE buffer

Trail == jsonl \o Waiting

Before(T, p, q) == \E a, b \in DOMAIN T : a < b /\ T[a] = p /\ T[b] = q

\* No line of s comes twice, and the lines of a host are in the order of T.
InOrder(T, s) ==
  \A i, j \in DOMAIN s :
    i < j => /\ s[i] # s[j]
             /\ HostOf[s[i]] = HostOf[s[j]] => Before(T, s[i], s[j])

(***************************************************************************)
(* Every line in the trail is one the cache remembers, and was taken from  *)
(* the partition before the line in hand.                                  *)
(***************************************************************************)
TakenBefore ==
  \A p \in seen : \E a \in 1 .. position :
     topic[a] = p /\ (pc["main"] = "process" => a < position)

InHand == pc["main"] = "process" => position \in Nat \ {0} /\ topic[position] = message

TrailInv ==
  /\ InOrder(topic, Trail)
  /\ ToSet(Trail) \subseteq seen
  /\ TakenBefore
  /\ InHand

(***************************************************************************)
(* Nothing empties the cache: the process stays up, keeps its assignment,  *)
(* and has room for every id.  Nor is a file written in part.              *)
(***************************************************************************)
CacheIsKept ==
  /\ NothingStopsIt
  /\ Faults \cap {"rejoin", "file"} = {}
  /\ IsFiniteSet(Payload)
  /\ Cardinality(Payload) <= MaxSeenIds

LEMMA TrailType ==
  ASSUME TypeOK
  PROVE  Waiting \in Seq(Payload) /\ Trail \in Seq(Payload)
<1>1. Waiting \in Seq(Payload)
  <2>1. /\ batch["main"] \in Seq(Payload)
        /\ batch["timer"] \in Seq(Payload)
        /\ buffer \in Seq(Payload)
    BY DEF TypeOK, Thread
  <2> QED
    BY <2>1, Zenon DEF Waiting
<1> QED
  BY <1>1 DEF Trail, TypeOK

LEMMA WaitingWhere ==
  ASSUME LockDiscipline, NEW t \in Thread, Flushing(t)
  PROVE  Waiting = batch[t]
<1>1. \A u \in Thread \ {t} : ~Flushing(u)
  BY DEF LockDiscipline, FlushSerialised
<1>2. t = "main" \/ t = "timer"
  BY DEF Thread
<1>3. CASE t = "main"
  BY <1>3 DEF Waiting
<1>4. CASE t = "timer"
  <2>1. ~Flushing("main")
    BY <1>1, <1>4 DEF Thread
  <2> QED
    BY <1>4, <2>1, Zenon DEF Waiting
<1> QED
  BY <1>2, <1>3, <1>4

LEMMA WaitingInBuffer ==
  ASSUME \A t \in Thread : ~Flushing(t)
  PROVE  Waiting = buffer
  BY DEF Waiting, Thread

(***************************************************************************)
(* A trail that is rearranged at its end by a permutation that keeps the   *)
(* lines of a host in order stays in order.                                *)
(***************************************************************************)
LEMMA RearrangedInOrder ==
  ASSUME NEW T, NEW s \in Seq(Payload), NEW b \in Seq(Payload), NEW f,
         NEW w \in Seq(Payload), Len(w) = Len(b),
         \A i \in 1 .. Len(b) : w[i] = b[f[i]],
         GroupedByHost(b, f), InOrder(T, s \o b)
  PROVE  /\ InOrder(T, s \o w)
         /\ ToSet(s \o w) \subseteq ToSet(s \o b)
<1> DEFINE n == Len(s)
           m == Len(b)
           old == s \o b
           new == s \o w
<1>1. /\ n \in Nat /\ m \in Nat
      /\ f \in [1 .. m -> 1 .. m]
  BY DEF GroupedByHost
<1>2. \A i \in 1 .. m : w[i] = b[f[i]] /\ f[i] \in 1 .. m /\ b[f[i]] \in Payload
  BY <1>1
<1>3. w \in Seq(Payload) /\ Len(w) = m
  BY <1>1, <1>2
<1>4. /\ DOMAIN old = 1 .. n + m
      /\ \A i \in 1 .. n : old[i] = s[i]
      /\ \A i \in 1 .. m : old[n + i] = b[i]
  BY ConcatPlaces
<1>5. /\ DOMAIN new = 1 .. n + m
      /\ \A i \in 1 .. n : new[i] = s[i]
      /\ \A i \in 1 .. m : new[n + i] = w[i]
  <2>0. \A v \in Seq(Payload) :
          /\ DOMAIN (s \o v) = 1 .. n + Len(v)
          /\ \A i \in 1 .. n : (s \o v)[i] = s[i]
          /\ \A i \in 1 .. Len(v) : (s \o v)[n + i] = v[i]
    BY ConcatPlaces
  <2>1. /\ DOMAIN new = 1 .. n + Len(w)
        /\ \A i \in 1 .. n : new[i] = s[i]
        /\ \A i \in 1 .. Len(w) : new[n + i] = w[i]
    BY <2>0, Zenon
  <2> QED
    BY <1>3, <2>1
<1> HIDE DEF old, new
<1> DEFINE g(i) == IF i <= n THEN i ELSE n + f[i - n]
<1>6. ASSUME NEW i \in 1 .. n + m
      PROVE  g(i) \in 1 .. n + m /\ new[i] = old[g(i)]
  <2>1. CASE i <= n
    BY <1>1, <1>3, <1>4, <1>5, <2>1
  <2>2. CASE ~(i <= n)
    <3>1. i - n \in 1 .. m /\ n + (i - n) = i
      BY <1>1, <2>2
    <3>2. f[i - n] \in 1 .. m /\ w[i - n] = b[f[i - n]]
      BY <1>2, <3>1
    <3>3. new[i] = w[i - n]
      BY <1>3, <1>5, <3>1
    <3>4. old[n + f[i - n]] = b[f[i - n]]
      BY <1>4, <3>2
    <3>5. g(i) = n + f[i - n]
      BY <2>2
    <3> QED
      BY <1>1, <3>2, <3>3, <3>4, <3>5
  <2> QED
    BY <2>1, <2>2
<1>7. ASSUME NEW i \in 1 .. n + m, NEW j \in 1 .. n + m, i < j
      PROVE  /\ new[i] # new[j]
             /\ HostOf[new[i]] = HostOf[new[j]] => Before(T, new[i], new[j])
  <2>1. /\ g(i) \in 1 .. n + m /\ new[i] = old[g(i)]
        /\ g(j) \in 1 .. n + m /\ new[j] = old[g(j)]
    BY <1>6
  <2>2. /\ g(i) # g(j)
        /\ HostOf[old[g(i)]] = HostOf[old[g(j)]] => g(i) < g(j)
    <3>1. CASE j <= n
      BY <1>1, <1>7, <3>1
    <3>2. CASE ~(j <= n) /\ i <= n
      <4>1. f[j - n] \in 1 .. m
        BY <1>1, <1>2, <3>2
      <4> QED
        BY <1>1, <3>2, <4>1
    <3>3. CASE ~(j <= n) /\ ~(i <= n)
      <4>1. i - n \in 1 .. m /\ j - n \in 1 .. m /\ i - n < j - n
        BY <1>1, <1>7, <3>3
      <4>2. /\ f[i - n] \in 1 .. m /\ f[j - n] \in 1 .. m
            /\ f[i - n] # f[j - n]
            /\ HostOf[b[f[i - n]]] = HostOf[b[f[j - n]]] => f[i - n] < f[j - n]
        BY <4>1, GroupingFacts
      <4>3. g(i) = n + f[i - n] /\ g(j) = n + f[j - n]
        BY <3>3
      <4>4. old[g(i)] = b[f[i - n]] /\ old[g(j)] = b[f[j - n]]
        BY <1>4, <4>2, <4>3
      <4> HIDE DEF g
      <4> QED
        BY <1>1, <4>2, <4>3, <4>4
    <3> QED
      BY <3>1, <3>2, <3>3
  <2> HIDE DEF g
  <2>3. g(i) < g(j) \/ g(j) < g(i)
    BY <1>1, <2>1, <2>2
  <2>4. new[i] # new[j]
    BY <1>4, <2>1, <2>3 DEF InOrder, old
  <2>5. HostOf[new[i]] = HostOf[new[j]] => Before(T, new[i], new[j])
    BY <1>4, <2>1, <2>2 DEF InOrder, old
  <2> QED
    BY <2>4, <2>5
<1>8. InOrder(T, new)
  BY <1>3, <1>5, <1>7 DEF InOrder
<1>9. ToSet(new) \subseteq ToSet(old)
  <2> HIDE DEF g
  <2>1. ASSUME NEW i \in 1 .. n + m
        PROVE  new[i] \in ToSet(old)
    BY <1>4, <1>6 DEF ToSet
  <2> QED
    BY <1>3, <1>5, <2>1 DEF ToSet
<1> QED
  BY <1>3, <1>8, <1>9 DEF old, new

LEMMA LongerTopic ==
  ASSUME NEW T, NEW U, NEW s, DOMAIN T \subseteq DOMAIN U,
         \A a \in DOMAIN T : U[a] = T[a], InOrder(T, s)
  PROVE  InOrder(U, s)
<1>1. ASSUME NEW p, NEW q, Before(T, p, q)
      PROVE  Before(U, p, q)
  BY <1>1 DEF Before
<1> QED
  BY <1>1 DEF InOrder

LEMMA AppendInOrder ==
  ASSUME NEW T, NEW s \in Seq(Payload), NEW x \in Payload, InOrder(T, s),
         \A i \in DOMAIN s : s[i] # x /\ Before(T, s[i], x)
  PROVE  InOrder(T, Append(s, x))
<1> DEFINE a == Append(s, x)
           n == Len(s)
<1>1. /\ n \in Nat /\ DOMAIN s = 1 .. n /\ DOMAIN a = 1 .. n + 1
      /\ \A i \in 1 .. n : a[i] = s[i]
      /\ a[n + 1] = x
  OBVIOUS
<1> HIDE DEF a, n
<1>2. ASSUME NEW i \in 1 .. n + 1, NEW j \in 1 .. n + 1, i < j
      PROVE  /\ a[i] # a[j]
             /\ HostOf[a[i]] = HostOf[a[j]] => Before(T, a[i], a[j])
  <2>1. i \in 1 .. n /\ a[i] = s[i]
    BY <1>1, <1>2
  <2>2. CASE j \in 1 .. n
    BY <1>1, <1>2, <2>1, <2>2 DEF InOrder
  <2>3. CASE j = n + 1
    BY <1>1, <2>1, <2>3
  <2> QED
    BY <1>1, <2>2, <2>3
<1> QED
  BY <1>1, <1>2 DEF InOrder, a

\* A step that leaves the trail, the cache and the line in hand alone.
LEMMA TrailKept ==
  ASSUME TypeOK, TypeOK', TrailInv, Trail' = Trail, UNCHANGED <<seen, position>>,
         Len(topic) <= Len(topic'),
         \A i \in 1 .. Len(topic) : topic'[i] = topic[i],
         pc'["main"] = "process" => pc["main"] = "process" /\ message' = message
  PROVE  TrailInv'
<1>1. /\ DOMAIN topic = 1 .. Len(topic) /\ DOMAIN topic' = 1 .. Len(topic')
      /\ Len(topic) \in Nat /\ Len(topic') \in Nat
      /\ position \in Int /\ position <= Len(topic)
  BY DEF TypeOK, NoOffset
<1>2. InOrder(topic, Trail)'
  <2>1. DOMAIN topic \subseteq DOMAIN topic'
    BY <1>1
  <2>2. InOrder(topic', Trail)
    BY <1>1, <2>1, LongerTopic DEF TrailInv
  <2> QED
    BY <2>2
<1>3. TakenBefore'
  <2> SUFFICES ASSUME NEW p \in seen
               PROVE  \E a \in 1 .. position :
                         topic'[a] = p /\ (pc'["main"] = "process" => a < position)
    BY DEF TakenBefore
  <2>1. PICK a \in 1 .. position :
           topic[a] = p /\ (pc["main"] = "process" => a < position)
    BY DEF TrailInv, TakenBefore
  <2>2. a \in 1 .. Len(topic)
    BY <1>1
  <2> QED
    BY <2>1, <2>2
<1>4. InHand'
  <2>1. position \in Nat \ {0} => topic'[position] = topic[position]
    BY <1>1
  <2> QED
    BY <2>1 DEF TrailInv, InHand
<1> QED
  BY <1>2, <1>3, <1>4 DEF TrailInv

LEMMA WaitingKept ==
  ASSUME UNCHANGED <<buffer, batch>>,
         \A t \in Thread : Flushing(t)' <=> Flushing(t)
  PROVE  Waiting' = Waiting
<1>1. (Flushing("main")' <=> Flushing("main"))
      /\ (Flushing("timer")' <=> Flushing("timer"))
  BY DEF Thread
<1> QED
  BY <1>1 DEF Waiting

LEMMA SnapshotWaiting ==
  ASSUME IInv, NEW t \in Thread, NEW c \in Seq(Payload), Snapshot(t, c),
         lock = NoThread
  PROVE  /\ Waiting = buffer /\ Waiting' = c
         /\ pc'["main"] = "process" => pc["main"] = "process" /\ t # "main"
<1>1. /\ pc'[t] \in {"database", "file"}
      /\ batch'[t] = c
      /\ \A u \in Thread \ {t} : pc'[u] = pc[u]
  BY SnapshotFacts DEF IInv
<1>2. \A u \in Thread : ~Flushing(u)
  BY DEF IInv, LockDiscipline, FlushSerialised, Thread, NoThread
<1>3. Flushing(t)' /\ \A u \in Thread \ {t} : ~Flushing(u)'
  BY <1>1, <1>2 DEF Flushing
<1>4. Waiting' = c
  <2>1. CASE t = "main"
    BY <1>1, <1>3, <2>1 DEF Waiting
  <2>2. CASE t = "timer"
    <3>1. ~Flushing("main")' /\ Flushing("timer")' /\ batch'["timer"] = c
      BY <1>1, <1>3, <2>2 DEF Thread
    <3> QED
      BY <3>1, Zenon DEF Waiting
  <2> QED
    BY <2>1, <2>2 DEF Thread
<1>5. Waiting = buffer
  BY <1>2, WaitingInBuffer
<1> QED
  BY <1>1, <1>4, <1>5 DEF Thread

\* The cache has room for every line there is.
LEMMA NothingIsForgotten ==
  ASSUME CacheIsKept, TypeOK, NEW p \in Payload
  PROVE  Remembered(p) = {seen \cup {p}}
<1> DEFINE ids == seen \cup {p}
<1>1. ids \in SUBSET Payload
  BY DEF TypeOK
<1>2. IsFiniteSet(ids) /\ Cardinality(ids) <= Cardinality(Payload)
  BY <1>1, FS_Subset DEF CacheIsKept
<1>3. Cardinality(ids) \in Nat /\ Cardinality(Payload) \in Nat
  BY <1>2, FS_CardinalityType DEF CacheIsKept
<1>4. ~(Cardinality(ids) > MaxSeenIds)
  BY <1>2, <1>3, ConfigAssumption DEF CacheIsKept
<1> QED
  BY <1>4, Zenon DEF Remembered

LEMMA TrailAfterFlush ==
  ASSUME CacheIsKept, IInv, TypeOK', TrailInv, NEW t \in Thread, Flush(t)
  PROVE  TrailInv'
<1>1. /\ TypeOK /\ LockDiscipline /\ Flushing(t) /\ buffer = <<>>
      /\ \A u \in Thread \ {t} : ~Flushing(u)
      /\ batch[t] \in Seq(Payload) /\ jsonl \in Seq(Payload)
      /\ UNCHANGED <<topic, position, message, seen>>
  BY FlushOutcome
  DEF IInv, RecordInv, LockDiscipline, FlushSerialised, TypeOK
<1>2. Waiting = batch[t] /\ Trail = jsonl \o batch[t]
  BY <1>1, WaitingWhere DEF Trail
<1>3. /\ Len(topic) <= Len(topic')
      /\ \A i \in 1 .. Len(topic) : topic'[i] = topic[i]
  BY <1>1 DEF TypeOK
<1>4. ASSUME FlushOver(t)
      PROVE  /\ \A u \in Thread : ~Flushing(u)'
             /\ Waiting' = buffer'
             /\ pc'["main"] = "process" => pc["main"] = "process"
  <2>1. /\ \A u \in Thread \ {t} : pc'[u] = pc[u]
        /\ t = "main" => pc'[t] = "commit"
        /\ t = "timer" => pc'[t] \in {"sleep", "down"}
    BY <1>1, <1>4, FlushOverFacts
  <2>2. \A u \in Thread : ~Flushing(u)'
    BY <1>1, <2>1 DEF Flushing, Thread
  <2>3. Waiting' = buffer'
    BY <2>2 DEF Waiting, Thread
  <2> QED
    BY <2>1, <2>2, <2>3 DEF Thread
<1>5. CASE DatabaseDone(t) /\ pc[t] = "database"
  <2>1. /\ pc'[t] = "file"
        /\ \A u \in Thread \ {t} : pc'[u] = pc[u]
        /\ UNCHANGED <<buffer, batch, jsonl>>
    BY <1>1, <1>5 DEF DatabaseDone, memoryVars, TypeOK
  <2>2. Waiting' = Waiting
    BY <1>1, <2>1, WaitingKept DEF Flushing
  <2>3. pc'["main"] = "process" => pc["main"] = "process"
    BY <2>1 DEF Thread
  <2> QED
    BY <1>1, <1>3, <2>1, <2>2, <2>3, TrailKept DEF Trail
<1>6. CASE FlushFails(t) /\ UNCHANGED jsonl
  <2>1. FlushOver(t) /\ buffer' = batch[t] \o buffer
    BY <1>6 DEF FlushFails, PutBack
  <2>2. buffer' = batch[t]
    BY <1>1, <2>1
  <2>3. Trail' = Trail
    BY <1>2, <1>4, <1>6, <2>1, <2>2 DEF Trail
  <2> QED
    BY <1>1, <1>3, <1>4, <2>1, <2>3, TrailKept
<1>7. CASE FileAppended(t)
  <2>1. /\ FlushOver(t) /\ buffer' = <<>>
        /\ LinesWritten(batch[t], Len(batch[t]))
    BY <1>1, <1>7 DEF FileAppended
  <2>2. PICK f \in [1 .. Len(batch[t]) -> 1 .. Len(batch[t])] :
           /\ GroupedByHost(batch[t], f)
           /\ jsonl' = jsonl \o [i \in 1 .. Len(batch[t]) |-> batch[t][f[i]]]
    BY <2>1 DEF LinesWritten
  <2> DEFINE w == [i \in 1 .. Len(batch[t]) |-> batch[t][f[i]]]
  <2>3. InOrder(topic, jsonl \o batch[t])
    BY <1>2 DEF TrailInv
  <2>4. /\ w \in Seq(Payload)
        /\ Len(w) = Len(batch[t])
        /\ \A i \in 1 .. Len(batch[t]) : w[i] = batch[t][f[i]]
    BY <1>1, <2>2
  <2>5. jsonl' = jsonl \o w
    BY <2>2
  <2> HIDE DEF w
  <2>9. /\ InOrder(topic, jsonl \o w)
        /\ ToSet(jsonl \o w) \subseteq ToSet(jsonl \o batch[t])
    BY <1>1, <2>2, <2>3, <2>4, RearrangedInOrder
  <2>6. Trail' = jsonl \o w
    <3>1. Trail' = (jsonl \o w) \o <<>>
      BY <1>4, <2>1, <2>5 DEF Trail
    <3>2. jsonl \o w \in Seq(Payload)
      BY <1>1, <2>4
    <3> QED
      BY <3>1, <3>2
  <2>7. InOrder(topic, Trail)' /\ ToSet(Trail') \subseteq seen'
    BY <1>1, <1>2, <2>9, <2>6 DEF TrailInv
  <2>8. TakenBefore' /\ InHand'
    BY <1>1, <1>4, <2>1 DEF TrailInv, TakenBefore, InHand
  <2> QED
    BY <2>7, <2>8 DEF TrailInv
<1>8. ~FileFails(t)
  BY DEF FileFails, Fault, CacheIsKept
<1>9. \/ DatabaseDone(t) /\ pc[t] = "database"
      \/ FlushFails(t) /\ UNCHANGED jsonl
      \/ FileAppended(t)
  BY <1>8 DEF Flush, BatchInserted, RowsInserted, RowsInterrupted,
     DatabaseUnreachable, DriverRefuses, HandleClosed, storeVars
<1> QED
  BY <1>5, <1>6, <1>7, <1>9

LEMMA TrailAfterEvent ==
  ASSUME CacheIsKept, IInv, TypeOK', TrailInv, ProcessEvent
  PROVE  TrailInv'
<1> DEFINE c == Append(buffer, message)
<1>1. /\ pc["main"] = "process"
      /\ lock = NoThread
      /\ message \notin seen
      /\ seen' \in Remembered(message)
      /\ UNCHANGED <<topic, position, jsonl>>
  BY DEF ProcessEvent, TakeMessage, kafkaVars, storeVars
<1>2. /\ TypeOK /\ message \in Payload /\ buffer \in Seq(Payload)
      /\ jsonl \in Seq(Payload)
  BY <1>1 DEF IInv, TypeOK
<1>3. c \in Seq(Payload)
  BY <1>2
<1>4. seen' = seen \cup {message}
  BY <1>1, <1>2, NothingIsForgotten
<1> HIDE DEF c
<1>5. Waiting = buffer /\ Waiting' = c /\ pc'["main"] # "process"
  <2>1. CASE BatchFull(c)
    <3>1. Snapshot("main", c)
      BY <2>1, Zenon DEF ProcessEvent, c
    <3> QED
      BY <1>1, <1>3, <3>1, SnapshotWaiting DEF Thread
  <2>2. CASE ~BatchFull(c)
    <3>1. /\ buffer' = c
          /\ pc' = [pc EXCEPT !["main"] = "commit"]
      BY <2>2, Zenon DEF ProcessEvent, c
    <3>2. \A u \in Thread : ~Flushing(u)
      BY <1>1 DEF IInv, LockDiscipline, FlushSerialised, Thread, NoThread
    <3>3. \A u \in Thread : ~Flushing(u)'
      BY <1>2, <3>1, <3>2 DEF Flushing, TypeOK, Thread
    <3>4. pc'["main"] = "commit"
      BY <1>2, <3>1 DEF TypeOK, Thread
    <3>5. Waiting' = buffer'
      BY <3>3 DEF Waiting, Thread
    <3> QED
      BY <3>1, <3>2, <3>4, <3>5, WaitingInBuffer
  <2> QED
    BY <2>1, <2>2
<1>6. Trail' = Append(Trail, message)
  <2>1. c = buffer \o <<message>> /\ <<message>> \in Seq(Payload)
    BY <1>2, AppendIsConcat DEF c
  <2>2. Trail' = jsonl \o (buffer \o <<message>>)
    BY <1>1, <1>5, <2>1 DEF Trail
  <2>3. Trail' = (jsonl \o buffer) \o <<message>>
    BY <1>2, <2>1, <2>2, ConcatAssociative
  <2>4. Trail = jsonl \o buffer /\ Trail \in Seq(Payload)
    BY <1>2, <1>5 DEF Trail
  <2>5. Append(Trail, message) = Trail \o <<message>>
    BY <1>2, <2>4, AppendIsConcat
  <2> QED
    BY <2>3, <2>4, <2>5
<1>7. Trail \in Seq(Payload)
  BY <1>2, TrailType
<1>8. position \in 1 .. Len(topic) /\ topic[position] = message
  BY <1>1, <1>2 DEF TrailInv, InHand, TypeOK, NoOffset
<1>9. ASSUME NEW i \in DOMAIN Trail
      PROVE  Trail[i] # message /\ Before(topic, Trail[i], message)
  <2>1. Trail[i] \in seen
    BY DEF TrailInv, ToSet
  <2>2. PICK a \in 1 .. position :
           topic[a] = Trail[i] /\ (pc["main"] = "process" => a < position)
    BY <2>1 DEF TrailInv, TakenBefore
  <2>3. a \in DOMAIN topic /\ position \in DOMAIN topic
    BY <1>2, <1>8 DEF TypeOK
  <2> QED
    BY <1>1, <1>8, <2>1, <2>2, <2>3 DEF Before
<1>10. InOrder(topic, Trail)'
  <2>1. InOrder(topic, Append(Trail, message))
    BY <1>2, <1>7, <1>9, AppendInOrder DEF TrailInv
  <2> QED
    BY <1>1, <1>6, <2>1
<1>11. ToSet(Trail') \subseteq seen'
  BY <1>2, <1>4, <1>6, <1>7, ToSetAppend DEF TrailInv
<1>12. TakenBefore'
  <2> SUFFICES ASSUME NEW p \in seen \cup {message}
               PROVE  \E a \in 1 .. position : topic[a] = p
    BY <1>1, <1>4, <1>5 DEF TakenBefore
  <2>1. CASE p \in seen
    BY <2>1 DEF TrailInv, TakenBefore
  <2>2. CASE p = message
    BY <1>8, <2>2
  <2> QED
    BY <2>1, <2>2
<1>13. InHand'
  BY <1>5 DEF InHand
<1> QED
  BY <1>10, <1>11, <1>12, <1>13 DEF TrailInv

LEMMA TrailStep ==
  ASSUME CacheIsKept, IInv, TypeOK', InLoop, TrailInv, [Next]_vars
  PROVE  TrailInv'
<1> USE DEF memoryVars, kafkaVars, historyVars, storeVars
<1>0. TypeOK /\ LockDiscipline /\ NothingStopsIt
  BY DEF IInv, CacheIsKept
<1> DEFINE Longer == /\ Len(topic) <= Len(topic')
                     /\ \A i \in 1 .. Len(topic) : topic'[i] = topic[i]
           Still == \A t \in Thread : Flushing(t)' <=> Flushing(t)
           Idle == pc'["main"] = "process" => pc["main"] = "process" /\ message' = message
<1>1. UNCHANGED topic => Longer
  BY <1>0 DEF TypeOK
<1>2. ASSUME Longer, Still, Idle, UNCHANGED <<seen, position, jsonl, buffer, batch>>
      PROVE  TrailInv'
  BY <1>0, <1>2, TrailKept, WaitingKept DEF Trail
<1>3. ASSUME NEW new, pc' = [pc EXCEPT !["main"] = new],
             new \notin {"database", "file", "process"},
             ~Flushing("main")
      PROVE  Still /\ Idle
  BY <1>0, <1>3 DEF TypeOK, Flushing, Thread
<1>4. UNCHANGED pc => Still
  BY DEF Flushing
<1> HIDE DEF Longer, Still
<1>5. CASE UNCHANGED vars
  BY <1>1, <1>2, <1>4, <1>5 DEF vars
<1>6. CASE Assign
  <2>1. /\ position = NoOffset /\ pc' = pc /\ pc["main"] = "poll"
        /\ UNCHANGED <<topic, seen, jsonl, buffer, batch>>
    BY <1>6 DEF Assign
  <2>2. seen = {}
    <3>1. 1 .. position = {}
      BY <2>1 DEF NoOffset
    <3> QED
      BY <3>1 DEF TrailInv, TakenBefore
  <2>3. Trail' = Trail
    BY <1>4, <2>1, WaitingKept DEF Trail, Still
  <2> QED
    BY <2>1, <2>2, <2>3 DEF TrailInv, TakenBefore, InHand
<1>7. CASE Start
  <2>1. /\ ~Up /\ pc' = [pc EXCEPT !["main"] = "poll", !["timer"] = "sleep"]
        /\ UNCHANGED <<topic, position, seen, jsonl, buffer, batch>>
    BY <1>7 DEF Start
  <2>2. pc["main"] = "down" /\ pc["timer"] = "down"
    BY <1>0, <2>1 DEF LockDiscipline, Up
  <2>3. pc'["main"] = "poll" /\ pc'["timer"] = "sleep"
    BY <1>0, <2>1 DEF TypeOK, Thread
  <2>4. Still
    BY <2>2, <2>3 DEF Still, Flushing, Thread
  <2> QED
    BY <1>1, <1>2, <2>1, <2>3, <2>4
<1>8. ~Rejoin
  BY DEF Rejoin, Fault, CacheIsKept
<1>9. ASSUME NEW p \in Payload, Publish(p)
      PROVE  TrailInv'
  <2>1. topic' = Append(topic, p) /\ topic \in Seq(Payload)
    BY <1>0, <1>9 DEF Publish, TypeOK
  <2>2. Longer
    BY <2>1 DEF Longer
  <2> QED
    BY <1>2, <1>4, <1>9, <2>2 DEF Publish
<1>10. CASE TimerFlush
  <2>1. /\ Snapshot("timer", buffer) /\ buffer \in Seq(Payload)
        /\ lock = NoThread
        /\ UNCHANGED <<topic, position, message, seen, jsonl>>
    BY <1>0, <1>10 DEF TimerFlush, TypeOK
  <2>2. /\ Waiting = buffer /\ Waiting' = buffer
        /\ pc'["main"] = "process" => pc["main"] = "process"
    BY <2>1, SnapshotWaiting DEF Thread
  <2>3. Trail' = Trail
    BY <2>1, <2>2 DEF Trail
  <2> QED
    BY <1>0, <1>1, <2>1, <2>2, <2>3, TrailKept DEF Longer
<1>11. CASE Yield
  <2>1. /\ HasNext /\ position' = position + 1 /\ message' = NextLine
        /\ pc' = [pc EXCEPT !["main"] = "process"]
        /\ UNCHANGED <<topic, seen, jsonl, buffer, batch>>
    BY <1>11 DEF Yield
  <2>2. /\ position \in Nat /\ position' \in 1 .. Len(topic)
        /\ message' = topic[position'] /\ pc["main"] = "poll"
    BY <1>0, <2>1 DEF HasNext, NextLine, TypeOK, NoOffset
  <2>3. Still
    BY <1>0, <2>1, <2>2 DEF Still, Flushing, TypeOK, Thread
  <2>4. Trail' = Trail
    BY <2>1, <2>3, WaitingKept DEF Trail, Still
  <2>5. TakenBefore'
    <3> SUFFICES ASSUME NEW p \in seen
                 PROVE  \E a \in 1 .. position' : topic[a] = p /\ a < position'
      BY <2>1 DEF TakenBefore
    <3>1. PICK a \in 1 .. position : topic[a] = p
      BY DEF TrailInv, TakenBefore
    <3> QED
      BY <2>1, <2>2, <3>1
  <2>6. InHand'
    BY <2>1, <2>2 DEF InHand
  <2> QED
    BY <2>1, <2>4, <2>5, <2>6 DEF TrailInv
<1>12. CASE ProcessInvalid \/ ProcessDuplicate
  <2>1. /\ pc["main"] = "process"
        /\ pc' = [pc EXCEPT !["main"] = "commit"]
        /\ UNCHANGED <<topic, position, seen, jsonl, buffer, batch>>
    BY <1>12 DEF ProcessInvalid, ProcessDuplicate, TakeMessage
  <2>2. Still /\ Idle
    BY <1>3, <2>1 DEF Flushing
  <2> QED
    BY <1>1, <1>2, <2>1, <2>2
<1>13. CASE Commit
  <2>1. pc' = [pc EXCEPT !["main"] = "poll"]
    BY <1>13, Zenon DEF Commit, InLoop
  <2>2. /\ pc["main"] = "commit"
        /\ UNCHANGED <<topic, position, seen, jsonl, buffer, batch>>
    BY <1>13 DEF Commit
  <2>3. Still /\ Idle
    BY <1>3, <2>1, <2>2 DEF Flushing
  <2> QED
    BY <1>1, <1>2, <2>2, <2>3
<1> QED
  BY <1>0, <1>5, <1>6, <1>7, <1>8, <1>9, <1>10, <1>11, <1>12, <1>13,
     StepsInLoop, TrailAfterFlush, TrailAfterEvent

LEMMA TrailInvariance ==
  ASSUME CacheIsKept
  PROVE  Spec => [](TypeOK /\ InOrder(topic, Trail))
<1> DEFINE TInv == IInv /\ InLoop /\ TrailInv
<1>1. Init => TInv
  <2> SUFFICES ASSUME Init
               PROVE  InLoop /\ TrailInv
    BY InvariantInit
  <2>1. InLoop
    BY DEF Init, InLoop, Up, Thread
  <2>2. Waiting = <<>>
    BY DEF Init, Waiting, Flushing, Thread
  <2>3. Trail = <<>>
    BY <2>2 DEF Init, Trail
  <2> QED
    BY <2>1, <2>3, ToSetEmpty
    DEF Init, TrailInv, InOrder, TakenBefore, InHand, Thread
<1>2. TInv /\ [Next]_vars => TInv'
  BY TypeStep, LockStep, RecordStep, LoopStep, TrailStep DEF IInv, CacheIsKept
<1>3. TInv => TypeOK /\ InOrder(topic, Trail)
  BY DEF IInv, TrailInv
<1> QED
  BY <1>1, <1>2, <1>3, PTL DEF Spec

\* The files are where the trail begins.
LEMMA FilesInTrail ==
  ASSUME TypeOK, InOrder(topic, Trail)
  PROVE  InOrder(topic, jsonl)
<1>1. jsonl \in Seq(Payload) /\ Waiting \in Seq(Payload)
  BY TrailType DEF TypeOK
<1>2. /\ DOMAIN jsonl \subseteq DOMAIN Trail
      /\ \A i \in DOMAIN jsonl : Trail[i] = jsonl[i]
  BY <1>1 DEF Trail
<1> QED
  BY <1>2 DEF InOrder

(***************************************************************************)
(* No line is written to the JSONL files twice, however often it was       *)
(* published, a batch put back or a commit lost: for every batch size, and *)
(* any failures of the database, the dead-letter file and the commits, as  *)
(* long as the cache is kept (CacheIsKept).                                *)
(***************************************************************************)
THEOREM LinesAreWrittenOnce ==
  ASSUME CacheIsKept
  PROVE  Spec => []NoDuplicateLines
<1>1. TypeOK /\ InOrder(topic, Trail) => NoDuplicateLines
  <2> SUFFICES ASSUME TypeOK, InOrder(topic, jsonl),
                      NEW i \in DOMAIN jsonl, NEW j \in DOMAIN jsonl, i # j
               PROVE  jsonl[i] # jsonl[j]
    BY FilesInTrail DEF NoDuplicateLines, IsInjective
  <2>1. i < j \/ j < i
    BY DEF TypeOK
  <2> QED
    BY <2>1 DEF InOrder
<1> QED
  BY <1>1, TrailInvariance, PTL

(***************************************************************************)
(* Under the same conditions each host's file keeps the order of the       *)
(* partition, whichever thread flushed, and although a batch is written    *)
(* host by host.                                                           *)
(***************************************************************************)
THEOREM OrderIsKept ==
  ASSUME CacheIsKept
  PROVE  Spec => []FilesInOrder
<1>1. TypeOK /\ InOrder(topic, Trail) => FilesInOrder
  BY FilesInTrail DEF InOrder, Before, FilesInOrder
<1> QED
  BY <1>1, TrailInvariance, PTL

=============================================================================
