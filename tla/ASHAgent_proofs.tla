-------------------------- MODULE ASHAgent_proofs --------------------------
(***************************************************************************)
(* Theorems about ASHAgent that hold for every number of shells, watchers  *)
(* and flushers, every size of the spool, and every combination of faults. *)
(***************************************************************************)
EXTENDS ASHAgent, FiniteSetTheorems, TLAPS

-----------------------------------------------------------------------------
(* The inductive invariant *)

\* A flusher only flushes, and whoever works on an event has one.
Places ==
  /\ \A p \in Flusher : pc[p] \in FlushPc
  /\ \A p \in Emitter : pc[p] \in EmitPc \ {"wait"} => current[p] \in Event
  /\ \A p \in Process : pc[p] \in {"cat", "send", "move"} =>
                          current[p] \in Event
  /\ \A p \in Process : pc[p] = "send" => data[p] \in Event \cup {Blank}

\* There is an event left for everyone who waits for the lock.
Room == emitted + Cardinality(Waiting) <= MaxEvents

(***************************************************************************)
(* The hash file holds events that have had the lock, and every event of   *)
(* the log; the event that is being signed is not in it yet, and is linked *)
(* to its tail; the event that is being logged is its tail.                *)
(***************************************************************************)
ChainInv ==
  /\ ToSet(hashes) \subseteq 1 .. emitted
  /\ ToSet(log) \subseteq ToSet(hashes)
  /\ \A p \in Emitter :
       /\ pc[p] \in {"read", "sign"} =>
            current[p] \in (1 .. emitted) \ ToSet(hashes)
       /\ pc[p] = "sign" => prev[current[p]] = Tip
       /\ pc[p] = "log" => hashes # <<>> /\ Tip = current[p]

IInv == TypeOK /\ Places /\ Room

USE ProcessAssumption, SettingAssumption, BoundAssumption

-----------------------------------------------------------------------------
(* Facts about sequences and the set of waiting processes *)

\* What ToSet, Append and Last make of a sequence.
LEMMA SequenceFacts ==
  ASSUME NEW S, NEW s \in Seq(S), NEW x \in S
  PROVE  /\ ToSet(<<>>) = {}
         /\ ToSet(s) \subseteq S
         /\ ToSet(Append(s, x)) = ToSet(s) \cup {x}
         /\ Append(s, x) # <<>>
         /\ Last(Append(s, x)) = x
         /\ s # <<>> => Last(s) \in ToSet(s)
<1> DEFINE a == Append(s, x)
<1>1. /\ a \in Seq(S)
      /\ Len(a) = Len(s) + 1
      /\ Len(s) \in Nat
      /\ DOMAIN a = 1 .. Len(s) + 1
      /\ DOMAIN s = 1 .. Len(s)
      /\ \A i \in 1 .. Len(s) : a[i] = s[i]
      /\ a[Len(s) + 1] = x
  OBVIOUS
<1> HIDE DEF a
<1>2. ToSet(a) = ToSet(s) \cup {x}
  <2>1. ASSUME NEW i \in DOMAIN a
        PROVE  a[i] \in ToSet(s) \cup {x}
    <3>1. i \in 1 .. Len(s) \/ i = Len(s) + 1
      BY <1>1
    <3> QED
      BY <1>1, <3>1 DEF ToSet
  <2>2. ASSUME NEW i \in DOMAIN s
        PROVE  s[i] \in ToSet(a)
    <3>1. i \in DOMAIN a /\ a[i] = s[i]
      BY <1>1
    <3> QED
      BY <3>1 DEF ToSet
  <2>3. x \in ToSet(a)
    <3>1. Len(s) + 1 \in DOMAIN a
      BY <1>1
    <3> QED
      BY <1>1, <3>1 DEF ToSet
  <2> QED
    BY <2>1, <2>2, <2>3 DEF ToSet
<1>3. s # <<>> => Last(s) \in ToSet(s)
  <2> SUFFICES ASSUME s # <<>>
               PROVE  Last(s) \in ToSet(s)
    OBVIOUS
  <2>1. Len(s) \in DOMAIN s
    BY <1>1
  <2> QED
    BY <2>1 DEF Last, ToSet
<1> QED
  BY <1>1, <1>2, <1>3 DEF a, ToSet, Last

\* A host has finitely many processes, so those that wait can be counted.
LEMMA WaitingIsFinite == IsFiniteSet(Waiting) /\ Cardinality(Waiting) \in Nat
<1>1. Waiting \subseteq Emitter
  BY DEF Waiting
<1> QED
  BY <1>1, FS_Subset, FS_CardinalityType

\* The last line of the hash file names an event or is the first line.
LEMMA TipType ==
  ASSUME ChainOK
  PROVE  Tip \in Event \cup {Genesis}
<1>1. CASE hashes = <<>>
  BY <1>1 DEF Tip
<1>2. CASE hashes # <<>>
  <2>1. Len(hashes) \in 1 .. Len(hashes)
    BY <1>2 DEF ChainOK
  <2> QED
    BY <1>2, <2>1 DEF ChainOK, Tip, Last
<1> QED
  BY <1>1, <1>2

-----------------------------------------------------------------------------
(* Type correctness *)

\* A host begins typed, with nobody waiting.
LEMMA TypeInit == Init => IInv
<1> SUFFICES ASSUME Init
             PROVE  IInv
  OBVIOUS
<1>1. TypeOK
  BY DEF Init, TypeOK, ControlOK, LockOK, ChainOK, SpoolOK, Process, Emitter,
         Pc, EmitPc, FlushPc, Critical, Event, NoEvent
<1>2. Places
  BY DEF Init, Places, Process, Emitter, Pc, EmitPc, FlushPc
<1>3. Waiting = {}
  BY DEF Init, Waiting, Process, Emitter
<1> QED
  BY <1>1, <1>2, <1>3, FS_EmptySet DEF Init, IInv, Room

(***************************************************************************)
(* Whoever waits has an event to come: a step that lets nobody begin to    *)
(* wait keeps Room, and so do the two that change who waits.               *)
(***************************************************************************)
LEMMA RoomStep ==
  ASSUME TypeOK, Places, Room, [Next]_vars
  PROVE  Room'
<1> USE DEF Goto, Returned
<1>1. ASSUME emitted' = emitted, Waiting' \subseteq Waiting
      PROVE  Room'
  <2>1. /\ Cardinality(Waiting') \in Nat
        /\ Cardinality(Waiting') <= Cardinality(Waiting)
    BY <1>1, WaitingIsFinite, FS_Subset, FS_CardinalityType
  <2> QED
    BY <1>1, <2>1, WaitingIsFinite DEF Room, TypeOK, ControlOK
<1>2. ASSUME NEW p \in Process, Begin(p)
      PROVE  Room'
  <2>1. Waiting' = Waiting \cup {p}
    BY <1>2 DEF Begin, Waiting, TypeOK, ControlOK, Process
  <2>2. \/ Cardinality(Waiting') = Cardinality(Waiting)
        \/ Cardinality(Waiting') = Cardinality(Waiting) + 1
    BY <2>1, WaitingIsFinite, FS_AddElement
  <2> QED
    BY <1>2, <2>2, WaitingIsFinite DEF Begin, Room, TypeOK, ControlOK
<1>3. ASSUME NEW p \in Process, Lock(p)
      PROVE  Room'
  <2>1. p \in Waiting
    BY <1>3 DEF Lock, Places, Waiting, Process, FlushPc
  <2>2. Waiting' = Waiting \ {p}
    BY <1>3 DEF Lock, Waiting, TypeOK, ControlOK, Process
  <2>3. Cardinality(Waiting') = Cardinality(Waiting) - 1
    BY <2>1, <2>2, WaitingIsFinite, FS_RemoveElement
  <2> QED
    BY <1>3, <2>3, WaitingIsFinite DEF Lock, Room, TypeOK, ControlOK
<1>4. ASSUME NEW p \in Process,
             \/ Emit(p) /\ ~ Lock(p)
             \/ Flush(p)
             \/ Leave(p) \/ Signal(p) \/ Kill(p)
      PROVE  emitted' = emitted /\ Waiting' \subseteq Waiting
  <2> SUFFICES /\ emitted' = emitted
               /\ \/ pc' = pc
                  \/ \E place \in Pc \ {"wait"} : pc' = [pc EXCEPT ![p] = place]
    BY DEF Waiting, TypeOK, ControlOK, Process
  <2> USE DEF Pc, EmitPc, FlushPc
  <2>1. CASE Emit(p) /\ ~ Lock(p)
    BY <2>1 DEF Emit, ReadTail, AppendHash, AppendLog, LogFails, Unlock,
                Stamp, Create, SpoolFails, Fill, Trim, Failed
  <2>2. CASE Flush(p)
    BY <2>2 DEF Flush, Glob, NextFile, Cat, Sent, SendFails, Move, GiveUp,
                FlushReturned
  <2>3. CASE Leave(p) \/ Signal(p) \/ Kill(p)
    BY <2>3 DEF Leave, Signal, Kill
  <2> QED
    BY <1>4, <2>1, <2>2, <2>3
<1>5. CASE UNCHANGED vars
  BY <1>1, <1>5 DEF vars, Waiting
<1> QED
  BY <1>1, <1>2, <1>3, <1>4, <1>5 DEF Next, Proceed, Emit

(***************************************************************************)
(* What a command that fails makes of its process keeps the control        *)
(* variables typed, whether set -e is in force or not.                     *)
(***************************************************************************)
LEMMA FailedTyped ==
  ASSUME TypeOK, Places, NEW p \in Emitter,
         NEW place \in {"unlock", "glob"},
         IF place = "unlock" THEN pc[p] = "log" ELSE pc[p] = "create",
         faults' \in 0 .. MaxFaults,
         Failed(p, place),
         UNCHANGED <<emitted, chainVars, spoolVars, flushVars>>
         \/ UNCHANGED <<emitted, hashes, prev, log, spoolVars, flushVars>>
  PROVE  TypeOK' /\ Places'
<1> USE DEF Process, Emitter, Pc, EmitPc, FlushPc, Critical, Event, NoEvent,
            Genesis, Goto, Done, Release
<1>1. current[p] \in Event
  BY DEF Places
<1>2. /\ pc' \in [Process -> Pc]
      /\ \A q \in Process \ {p} : pc'[q] = pc[q] /\ current'[q] = current[q]
      /\ \/ pc'[p] \in {"unlock", "glob"} /\ pc'[p] = place /\ rounds[p] > 0
         \/ pc'[p] \in {"idle", "gone", "stuck"}
  BY DEF TypeOK, ControlOK, Failed
<1>3. pc'[p] = "unlock" => current'[p] = current[p]
  BY DEF Failed, TypeOK, ControlOK
<1>4. ControlOK'
  BY DEF TypeOK, ControlOK, Failed
<1>5. LockOK'
  BY DEF TypeOK, ControlOK, LockOK, Failed
<1>6. ChainOK' /\ SpoolOK'
  BY DEF TypeOK, ChainOK, SpoolOK, chainVars, spoolVars, flushVars
<1>7. Places'
  BY <1>1, <1>2, <1>3 DEF Places, TypeOK, flushVars
<1> QED
  BY <1>4, <1>5, <1>6, <1>7 DEF TypeOK

\* The end of spool_flush() keeps every variable typed.
LEMMA FlushReturnedTyped ==
  ASSUME TypeOK, Places, NEW p \in Process, pc[p] \in FlushPc,
         FlushReturned(p),
         UNCHANGED <<emitted, chainVars, spoolVars>>,
         topic' \in Seq(Event \cup {Blank}),
         faults' \in 0 .. MaxFaults
  PROVE  TypeOK' /\ Places'
<1> USE DEF Process, Emitter, Pc, EmitPc, FlushPc, Critical, Event, NoEvent,
            Genesis, Goto, Done
<1>1. /\ pc' \in [Process -> Pc]
      /\ \A q \in Process \ {p} : pc'[q] = pc[q]
      /\ pc'[p] \in {"glob", "gone", "idle"}
      /\ p \in Flusher => pc'[p] = "glob"
  BY DEF TypeOK, ControlOK, FlushReturned
<1>2. ControlOK'
  BY <1>1 DEF TypeOK, ControlOK, FlushReturned, FlushOver, chainVars
<1>3. LockOK'
  BY <1>1 DEF TypeOK, LockOK, chainVars
<1>4. ChainOK' /\ SpoolOK'
  BY DEF TypeOK, ChainOK, SpoolOK, chainVars, spoolVars, FlushReturned,
         FlushOver, Blank
<1>5. \A q \in Process \ {p} : current'[q] = current[q] /\ data'[q] = data[q]
  BY DEF FlushReturned, FlushOver, TypeOK, ControlOK, SpoolOK
<1>6. Places'
  BY <1>1, <1>5 DEF Places
<1> QED
  BY <1>2, <1>3, <1>4, <1>6 DEF TypeOK

(***************************************************************************)
(* Every step keeps TypeOK and Places.  The facts <2>0 say which event the *)
(* process has in its hands.                                               *)
(***************************************************************************)
LEMMA TypeStep ==
  ASSUME TypeOK, Places, Room, [Next]_vars
  PROVE  TypeOK' /\ Places'
<1> USE DEF Process, Emitter, Pc, EmitPc, FlushPc, Critical, Event, NoEvent,
            Genesis, Blank, Goto, Done, Returned, Release, Fault, NoFault,
            chainVars, spoolVars, flushVars
<1>1. ASSUME NEW p \in Process, Begin(p)
      PROVE  TypeOK' /\ Places'
  <2>A. ControlOK' /\ LockOK'
    BY <1>1 DEF Begin, TypeOK, ControlOK, LockOK, Places
  <2>B. ChainOK' /\ SpoolOK'
    BY <1>1 DEF Begin, TypeOK, ChainOK, SpoolOK
  <2>C. Places'
    BY <1>1 DEF Begin, TypeOK, ControlOK, SpoolOK, Places
  <2> QED
    BY <2>A, <2>B, <2>C DEF TypeOK
<1>2. ASSUME NEW p \in Process, Lock(p)
      PROVE  TypeOK' /\ Places'
  <2>0. emitted + 1 \in Event
    <3>1. p \in Waiting
      BY <1>2 DEF Lock, Places, Waiting
    <3>2. Cardinality(Waiting) # 0
      BY <3>1, WaitingIsFinite, FS_EmptySet
    <3> QED
      BY <3>2, WaitingIsFinite DEF Room, TypeOK, ControlOK
  <2>A. ControlOK' /\ LockOK'
    BY <1>2, <2>0 DEF Lock, LockIsFree, TypeOK, ControlOK, LockOK, Places
  <2>B. ChainOK' /\ SpoolOK'
    BY <1>2, <2>0 DEF Lock, LockIsFree, TypeOK, ChainOK, SpoolOK
  <2>C. Places'
    BY <1>2, <2>0 DEF Lock, LockIsFree, TypeOK, ControlOK, SpoolOK, Places
  <2> QED
    BY <2>A, <2>B, <2>C DEF TypeOK
<1>3. ASSUME NEW p \in Process, ReadTail(p)
      PROVE  TypeOK' /\ Places'
  <2>0. /\ current[p] \in Event
        /\ Tip \in Event \cup {Genesis}
    BY <1>3, TipType DEF ReadTail, Places, TypeOK
  <2>A. ControlOK' /\ LockOK'
    BY <1>3, <2>0 DEF ReadTail, TypeOK, ControlOK, LockOK, Places
  <2>B. ChainOK' /\ SpoolOK'
    BY <1>3, <2>0 DEF ReadTail, TypeOK, ChainOK, SpoolOK
  <2>C. Places'
    BY <1>3, <2>0 DEF ReadTail, TypeOK, ControlOK, SpoolOK, Places
  <2> QED
    BY <2>A, <2>B, <2>C DEF TypeOK
<1>4. ASSUME NEW p \in Process, AppendHash(p)
      PROVE  TypeOK' /\ Places'
  <2>0. current[p] \in Event
    BY <1>4 DEF AppendHash, Places
  <2>A. ControlOK' /\ LockOK'
    BY <1>4, <2>0 DEF AppendHash, TypeOK, ControlOK, LockOK, Places
  <2>1. hashes' = hashes \/ hashes' = Append(hashes, current[p])
    BY <1>4 DEF AppendHash
  <2>2. hashes' \in Seq(Event)
    <3> HIDE DEF Event
    <3> QED
      BY <2>0, <2>1 DEF TypeOK, ChainOK
  <2>B. ChainOK' /\ SpoolOK'
    BY <1>4, <2>2 DEF AppendHash, TypeOK, ChainOK, SpoolOK
  <2>C. Places'
    BY <1>4, <2>0 DEF AppendHash, TypeOK, ControlOK, SpoolOK, Places
  <2> QED
    BY <2>A, <2>B, <2>C DEF TypeOK
<1>5. ASSUME NEW p \in Process, AppendLog(p)
      PROVE  TypeOK' /\ Places'
  <2>0. current[p] \in Event
    BY <1>5 DEF AppendLog, Places
  <2>A. ControlOK' /\ LockOK'
    BY <1>5, <2>0 DEF AppendLog, TypeOK, ControlOK, LockOK, Places
  <2>B. ChainOK' /\ SpoolOK'
    BY <1>5, <2>0 DEF AppendLog, TypeOK, ChainOK, SpoolOK
  <2>C. Places'
    BY <1>5, <2>0 DEF AppendLog, TypeOK, ControlOK, SpoolOK, Places
  <2> QED
    BY <2>A, <2>B, <2>C DEF TypeOK
<1>6. ASSUME NEW p \in Process, LogFails(p)
      PROVE  TypeOK' /\ Places'
  <2>1. p \in Emitter
    BY <1>6 DEF LogFails, Places
  <2> QED
    BY <1>6, <2>1, FailedTyped DEF LogFails, TypeOK, ControlOK
<1>7. ASSUME NEW p \in Process, Unlock(p)
      PROVE  TypeOK' /\ Places'
  <2>0. current[p] \in Event
    BY <1>7 DEF Unlock, Places
  <2>1. /\ \A q \in Process \ {p} : pc'[q] = pc[q] /\ current'[q] = current[q]
        /\ \/ pc'[p] = "stamp" /\ current'[p] = current[p]
           \/ pc'[p] \in {"idle", "glob"}
    BY <1>7 DEF Unlock, TypeOK, ControlOK
  <2>A. ControlOK' /\ LockOK'
    BY <1>7, <2>0, <2>1
    DEF Unlock, ReleaseChain, TypeOK, ControlOK, LockOK, Places
  <2>B. ChainOK' /\ SpoolOK'
    BY <1>7, <2>0, <2>1 DEF Unlock, ReleaseChain, TypeOK, ChainOK, SpoolOK
  <2>C. Places'
    BY <1>7, <2>0, <2>1
    DEF Unlock, ReleaseChain, TypeOK, ControlOK, SpoolOK, Places
  <2> QED
    BY <2>A, <2>B, <2>C DEF TypeOK
<1>8. ASSUME NEW p \in Process, Stamp(p)
      PROVE  TypeOK' /\ Places'
  <2>0. current[p] \in Event
    BY <1>8 DEF Stamp, Places
  <2>A. ControlOK' /\ LockOK'
    BY <1>8, <2>0 DEF Stamp, TypeOK, ControlOK, LockOK, Places
  <2>B. ChainOK' /\ SpoolOK'
    BY <1>8, <2>0 DEF Stamp, TypeOK, ChainOK, SpoolOK
  <2>C. Places'
    BY <1>8, <2>0 DEF Stamp, TypeOK, ControlOK, SpoolOK, Places
  <2> QED
    BY <2>A, <2>B, <2>C DEF TypeOK
<1>9. ASSUME NEW p \in Process, Create(p)
      PROVE  TypeOK' /\ Places'
  <2>0. current[p] \in Event
    BY <1>9 DEF Create, Places
  <2>A. ControlOK' /\ LockOK'
    BY <1>9, <2>0 DEF Create, TypeOK, ControlOK, LockOK, Places
  <2>B. ChainOK' /\ SpoolOK'
    BY <1>9, <2>0 DEF Create, TypeOK, ChainOK, SpoolOK
  <2>C. Places'
    BY <1>9, <2>0 DEF Create, TypeOK, ControlOK, SpoolOK, Places
  <2> QED
    BY <2>A, <2>B, <2>C DEF TypeOK
<1>10. ASSUME NEW p \in Process, SpoolFails(p)
       PROVE  TypeOK' /\ Places'
  <2>1. p \in Emitter
    BY <1>10 DEF SpoolFails, Places
  <2> QED
    BY <1>10, <2>1, FailedTyped DEF SpoolFails, TypeOK, ControlOK
<1>11. ASSUME NEW p \in Process, Fill(p)
       PROVE  TypeOK' /\ Places'
  <2>0. current[p] \in Event
    BY <1>11 DEF Fill, Places
  <2>A. ControlOK' /\ LockOK'
    BY <1>11, <2>0 DEF Fill, TypeOK, ControlOK, LockOK, Places
  <2>B. ChainOK' /\ SpoolOK'
    BY <1>11, <2>0 DEF Fill, TypeOK, ChainOK, SpoolOK
  <2>C. Places'
    BY <1>11, <2>0 DEF Fill, TypeOK, ControlOK, SpoolOK, Places
  <2> QED
    BY <2>A, <2>B, <2>C DEF TypeOK
<1>12. ASSUME NEW p \in Process, Trim(p)
       PROVE  TypeOK' /\ Places'
  <2>A. ControlOK' /\ LockOK'
    BY <1>12 DEF Trim, Pending, TypeOK, ControlOK, LockOK, Places
  <2>B. ChainOK' /\ SpoolOK'
    BY <1>12 DEF Trim, Pending, TypeOK, ChainOK, SpoolOK
  <2>C. Places'
    BY <1>12 DEF Trim, Pending, TypeOK, ControlOK, SpoolOK, Places
  <2> QED
    BY <2>A, <2>B, <2>C DEF TypeOK
<1>13. ASSUME NEW p \in Process, Glob(p)
       PROVE  TypeOK' /\ Places'
  <2>A. ControlOK' /\ LockOK'
    BY <1>13 DEF Glob, Pending, TypeOK, ControlOK, LockOK, Places
  <2>B. ChainOK' /\ SpoolOK'
    BY <1>13 DEF Glob, Pending, TypeOK, ChainOK, SpoolOK
  <2>C. Places'
    BY <1>13 DEF Glob, Pending, TypeOK, ControlOK, SpoolOK, Places
  <2> QED
    BY <2>A, <2>B, <2>C DEF TypeOK
<1>14. ASSUME NEW p \in Process, NextFile(p)
       PROVE  TypeOK' /\ Places'
  <2>1. CASE todo[p] = {} /\ FlushReturned(p)
    BY <1>14, <2>1, FlushReturnedTyped DEF NextFile, TypeOK, ControlOK, SpoolOK
  <2>2. ASSUME NEW e \in todo[p], todo' = [todo EXCEPT ![p] = @ \ {e}],
               \/ Goto(p, "cat") /\ current' = [current EXCEPT ![p] = e]
               \/ UNCHANGED <<pc, current>>,
               UNCHANGED <<rounds, data, tries>>
        PROVE  TypeOK' /\ Places'
    <3>1. e \in Event
      BY DEF TypeOK, SpoolOK
    <3>2. ControlOK' /\ LockOK'
      BY <1>14, <2>2, <3>1 DEF NextFile, TypeOK, ControlOK, LockOK
    <3>3. ChainOK' /\ SpoolOK'
      BY <1>14, <2>2 DEF NextFile, TypeOK, ChainOK, SpoolOK
    <3>4. \A q \in Process \ {p} : pc'[q] = pc[q] /\ current'[q] = current[q]
      BY <2>2 DEF TypeOK, ControlOK
    <3>5. \/ pc'[p] = "cat" /\ current'[p] = e
          \/ pc'[p] = "next"
      BY <1>14, <2>2 DEF NextFile, TypeOK, ControlOK
    <3>6. Places'
      BY <1>14, <2>2, <3>1, <3>4, <3>5 DEF Places, TypeOK, ControlOK
    <3> QED
      BY <3>2, <3>3, <3>6 DEF TypeOK
  <2> QED
    BY <1>14, <2>1, <2>2 DEF NextFile
<1>15. ASSUME NEW p \in Process, Cat(p)
       PROVE  TypeOK' /\ Places'
  <2>0. current[p] \in Event
    BY <1>15 DEF Cat, Places
  <2>A. ControlOK' /\ LockOK'
    BY <1>15, <2>0 DEF Cat, TypeOK, ControlOK, LockOK, Places
  <2>B. ChainOK' /\ SpoolOK'
    BY <1>15, <2>0 DEF Cat, TypeOK, ChainOK, SpoolOK
  <2>C. Places'
    BY <1>15, <2>0 DEF Cat, TypeOK, ControlOK, SpoolOK, Places
  <2> QED
    BY <2>A, <2>B, <2>C DEF TypeOK
<1>16. ASSUME NEW p \in Process, Sent(p)
       PROVE  TypeOK' /\ Places'
  <2>0. /\ current[p] \in Event
        /\ data[p] \in Event \cup {Blank}
    BY <1>16 DEF Sent, Places
  <2>A. ControlOK' /\ LockOK'
    BY <1>16, <2>0 DEF Sent, TypeOK, ControlOK, LockOK, Places
  <2>B. ChainOK' /\ SpoolOK'
    BY <1>16, <2>0 DEF Sent, TypeOK, ChainOK, SpoolOK
  <2>C. Places'
    BY <1>16, <2>0 DEF Sent, TypeOK, ControlOK, SpoolOK, Places
  <2> QED
    BY <2>A, <2>B, <2>C DEF TypeOK
<1>17. ASSUME NEW p \in Process, SendFails(p)
       PROVE  TypeOK' /\ Places'
  <2>1. /\ topic' \in Seq(Event \cup {Blank})
        /\ faults' \in 0 .. MaxFaults
    <3>1. data[p] \in Event \cup {Blank}
      BY <1>17 DEF SendFails, Places
    <3>2. faults' \in 0 .. MaxFaults
      BY <1>17 DEF SendFails, TypeOK, ControlOK
    <3>3. topic' = topic \/ topic' = Append(topic, data[p])
      BY <1>17 DEF SendFails
    <3>4. topic \in Seq(Event \cup {Blank})
      BY DEF TypeOK, SpoolOK
    <3> HIDE DEF Event, Blank
    <3> QED
      BY <3>1, <3>2, <3>3, <3>4
  <2>2. CASE GiveUp(p)
    BY <1>17, <2>1, <2>2, FlushReturnedTyped DEF SendFails, GiveUp
  <2>3. CASE tries[p] + 1 < MaxRetries /\ tries' = [tries EXCEPT ![p] = @ + 1]
             /\ UNCHANGED <<pc, current, rounds, todo, data>>
    <3>1. ControlOK' /\ LockOK' /\ ChainOK'
      BY <1>17, <2>1, <2>3 DEF SendFails, TypeOK, ControlOK, LockOK, ChainOK
    <3>2. SpoolOK'
      BY <1>17, <2>1, <2>3 DEF SendFails, TypeOK, SpoolOK
    <3>3. Places'
      BY <2>3 DEF Places
    <3> QED
      BY <3>1, <3>2, <3>3 DEF TypeOK
  <2> QED
    BY <1>17, <2>2, <2>3 DEF SendFails
<1>18. ASSUME NEW p \in Process, Move(p)
       PROVE  TypeOK' /\ Places'
  <2>0. current[p] \in Event
    BY <1>18 DEF Move, Places
  <2>A. ControlOK' /\ LockOK'
    BY <1>18, <2>0 DEF Move, TypeOK, ControlOK, LockOK, Places
  <2>B. ChainOK' /\ SpoolOK'
    BY <1>18, <2>0 DEF Move, TypeOK, ChainOK, SpoolOK
  <2>C. Places'
    BY <1>18, <2>0 DEF Move, TypeOK, ControlOK, SpoolOK, Places
  <2> QED
    BY <2>A, <2>B, <2>C DEF TypeOK
<1>19. ASSUME NEW p \in Process, Leave(p)
       PROVE  TypeOK' /\ Places'
  <2>A. ControlOK' /\ LockOK'
    BY <1>19 DEF Leave, TypeOK, ControlOK, LockOK, Places
  <2>B. ChainOK' /\ SpoolOK'
    BY <1>19 DEF Leave, TypeOK, ChainOK, SpoolOK
  <2>C. Places'
    BY <1>19 DEF Leave, TypeOK, ControlOK, SpoolOK, Places
  <2> QED
    BY <2>A, <2>B, <2>C DEF TypeOK
<1>20. ASSUME NEW p \in Process, Signal(p)
       PROVE  TypeOK' /\ Places'
  <2>A. ControlOK' /\ LockOK'
    BY <1>20 DEF Signal, TypeOK, ControlOK, LockOK, Places
  <2>B. ChainOK' /\ SpoolOK'
    BY <1>20 DEF Signal, TypeOK, ChainOK, SpoolOK
  <2>C. Places'
    BY <1>20 DEF Signal, TypeOK, ControlOK, SpoolOK, Places
  <2> QED
    BY <2>A, <2>B, <2>C DEF TypeOK
<1>21. ASSUME NEW p \in Process, Kill(p)
       PROVE  TypeOK' /\ Places'
  <2>A. ControlOK' /\ LockOK'
    BY <1>21 DEF Kill, FlushOver, TypeOK, ControlOK, LockOK, Places
  <2>B. ChainOK' /\ SpoolOK'
    BY <1>21 DEF Kill, FlushOver, TypeOK, ChainOK, SpoolOK
  <2>C. Places'
    BY <1>21 DEF Kill, FlushOver, TypeOK, ControlOK, SpoolOK, Places
  <2> QED
    BY <2>A, <2>B, <2>C DEF TypeOK
<1>22. CASE UNCHANGED vars
  BY <1>22 DEF vars, TypeOK, ControlOK, LockOK, ChainOK, SpoolOK, Places
<1> QED
  BY <1>1, <1>2, <1>3, <1>4, <1>5, <1>6, <1>7, <1>8, <1>9, <1>10, <1>11,
     <1>12, <1>13, <1>14, <1>15, <1>16, <1>17, <1>18, <1>19, <1>20, <1>21, <1>22
  DEF Next, Proceed, Emit, Flush

\* The invariant, from the three facts above.
LEMMA IInvariance == Spec => []IInv
<1>1. IInv /\ [Next]_vars => IInv'
  BY TypeStep, RoomStep DEF IInv
<1> QED
  BY <1>1, TypeInit, PTL DEF Spec

(***************************************************************************)
(* Every reachable state of a host is well typed; in particular the lock   *)
(* of the chain is held by exactly the process that is between flock -x    *)
(* and flock -u or stuck there, so that the section is exclusive however   *)
(* many processes emit, die and fail.                                      *)
(***************************************************************************)
THEOREM TypeCorrect == Spec => []TypeOK
<1>1. IInv => TypeOK
  BY DEF IInv
<1> QED
  BY <1>1, IInvariance, PTL

-----------------------------------------------------------------------------
(* The chain *)

\* Two processes are never in the critical section together.
LEMMA Exclusion ==
  ASSUME TypeOK, NEW p \in Emitter, NEW q \in Emitter,
         pc[p] \in Critical, pc[q] \in Critical
  PROVE  p = q
  BY DEF TypeOK, LockOK

(***************************************************************************)
(* A step of p that neither signs nor logs, and does not lead p into the   *)
(* commands that do.                                                       *)
(***************************************************************************)
Quiet(p) ==
  /\ UNCHANGED <<emitted, hashes, prev, log>>
  /\ pc'[p] \notin {"read", "sign", "log"}
  /\ \A q \in Emitter \ {p} : pc'[q] = pc[q] /\ current'[q] = current[q]

\* Everything is quiet except Lock, ReadTail, AppendHash and AppendLog.
LEMMA QuietSteps ==
  ASSUME TypeOK, Places, NEW p \in Process,
         \/ Begin(p) \/ LogFails(p) \/ Unlock(p) \/ Stamp(p) \/ Create(p)
         \/ SpoolFails(p) \/ Fill(p) \/ Trim(p)
         \/ Flush(p) \/ Leave(p) \/ Signal(p) \/ Kill(p)
  PROVE  Quiet(p)
<1> USE DEF Process, Quiet, Goto, Done, Returned, chainVars, Critical,
            EmitPc, TypeOK, ControlOK
<1>1. CASE Begin(p)
  BY <1>1 DEF Begin
<1>2. CASE LogFails(p)
  BY <1>2 DEF LogFails, Failed
<1>3. CASE Unlock(p)
  BY <1>3 DEF Unlock
<1>4. CASE Stamp(p) \/ Create(p) \/ Fill(p)
  BY <1>4 DEF Stamp, Create, Fill
<1>5. CASE SpoolFails(p)
  BY <1>5 DEF SpoolFails, Failed
<1>6. CASE Trim(p)
  BY <1>6 DEF Trim
<1>7. CASE Glob(p) \/ Cat(p) \/ Sent(p) \/ Move(p)
  BY <1>7 DEF Glob, Cat, Sent, Move
<1>8. CASE NextFile(p)
  BY <1>8 DEF NextFile, FlushReturned, FlushOver
<1>9. CASE SendFails(p)
  BY <1>9 DEF SendFails, GiveUp, FlushReturned, FlushOver
<1>10. CASE Leave(p) \/ Signal(p) \/ Kill(p)
  BY <1>10 DEF Leave, Signal, Kill, FlushOver
<1> QED
  BY <1>1, <1>2, <1>3, <1>4, <1>5, <1>6, <1>7, <1>8, <1>9, <1>10 DEF Flush

\* Every step keeps the hash file and the log related to each other, as long
\* as no append to the hash file gets lost.
LEMMA ChainStep ==
  ASSUME TypeOK, TypeOK', Places, ChainInv, [Next]_vars, "hash" \notin Faults
  PROVE  ChainInv'
<1> USE DEF Critical
<1>1. ASSUME NEW p \in Process, Quiet(p)
      PROVE  ChainInv'
  BY <1>1 DEF ChainInv, Quiet, Tip
<1>2. ASSUME NEW p \in Process, Lock(p)
      PROVE  ChainInv'
  <2>1. /\ emitted' = emitted + 1
        /\ current' = [current EXCEPT ![p] = emitted + 1]
        /\ pc' = [pc EXCEPT ![p] = "read"]
        /\ UNCHANGED <<hashes, prev, log>>
    BY <1>2 DEF Lock, Goto
  <2>2. 1 .. emitted' = (1 .. emitted) \cup {emitted + 1}
    BY <2>1 DEF TypeOK, ControlOK
  <2>3. emitted + 1 \notin ToSet(hashes)
    BY DEF ChainInv, TypeOK, ControlOK
  <2> QED
    BY <2>1, <2>2, <2>3 DEF ChainInv, TypeOK, ControlOK, Tip, Process
<1>3. ASSUME NEW p \in Process, ReadTail(p)
      PROVE  ChainInv'
  <2>1. /\ p \in Emitter
        /\ current[p] \in Event
        /\ \A q \in Emitter \ {p} : pc[q] \notin Critical
    BY <1>3, Exclusion DEF ReadTail, Places, Process, FlushPc, EmitPc
  <2>2. /\ pc' = [pc EXCEPT ![p] = "sign"]
        /\ prev' = [prev EXCEPT ![current[p]] = Tip]
        /\ UNCHANGED <<emitted, current, hashes, log>>
    BY <1>3 DEF ReadTail, Goto
  <2> QED
    BY <1>3, <2>1, <2>2
    DEF ChainInv, TypeOK, ControlOK, ChainOK, Tip, Process, ReadTail
<1>4. ASSUME NEW p \in Process, AppendHash(p)
      PROVE  ChainInv'
  <2>1. /\ p \in Emitter
        /\ current[p] \in Event
        /\ \A q \in Emitter \ {p} : pc[q] \notin Critical
    BY <1>4, Exclusion DEF AppendHash, Places, Process, FlushPc, EmitPc
  <2>2. /\ pc' = [pc EXCEPT ![p] = "log"]
        /\ hashes' = Append(hashes, current[p])
        /\ UNCHANGED <<emitted, current, prev, log>>
    BY <1>4 DEF AppendHash, Goto, Fault
  <2>3. /\ ToSet(hashes') = ToSet(hashes) \cup {current[p]}
        /\ hashes' # <<>>
        /\ Tip' = current[p]
    BY <2>1, <2>2, SequenceFacts DEF TypeOK, ChainOK, Tip
  <2> QED
    BY <1>4, <2>1, <2>2, <2>3
    DEF ChainInv, TypeOK, ControlOK, Process, AppendHash
<1>5. ASSUME NEW p \in Process, AppendLog(p)
      PROVE  ChainInv'
  <2>1. /\ p \in Emitter
        /\ current[p] \in Event
    BY <1>5 DEF AppendLog, Places, Process, FlushPc, EmitPc
  <2>2. /\ pc' = [pc EXCEPT ![p] = "unlock"]
        /\ log' = Append(log, current[p])
        /\ UNCHANGED <<emitted, current, prev, hashes>>
    BY <1>5 DEF AppendLog, Goto
  <2>3. ToSet(log') = ToSet(log) \cup {current[p]}
    BY <2>1, <2>2, SequenceFacts DEF TypeOK, ChainOK
  <2>4. current[p] \in ToSet(hashes)
    BY <1>5, <2>1, SequenceFacts DEF AppendLog, ChainInv, TypeOK, ChainOK, Tip
  <2> QED
    BY <2>1, <2>2, <2>3, <2>4 DEF ChainInv, TypeOK, ControlOK, Tip, Process
<1>6. CASE UNCHANGED vars
  BY <1>6 DEF ChainInv, vars, chainVars, Tip
<1> QED
  BY <1>1, <1>2, <1>3, <1>4, <1>5, <1>6, QuietSteps DEF Next, Proceed, Emit

-----------------------------------------------------------------------------
(* Refinement *)

\* A sequence of events as SignedLog has it in its log.
Linked(s, link) ==
  [i \in DOMAIN s |-> [event |-> s[i], prev |-> link[s[i]]]]

\* An append to the log is an append to the log of SignedLog.
LEMMA LogAppend ==
  ASSUME NEW S, NEW s \in Seq(S), NEW e \in S, NEW link
  PROVE  Linked(Append(s, e), link)
         = Append(Linked(s, link), [event |-> e, prev |-> link[e]])
<1> DEFINE t == Append(s, e)
           r == [event |-> e, prev |-> link[e]]
           R == {[event |-> x, prev |-> link[x]] : x \in S}
           f == [i \in DOMAIN s |-> [event |-> s[i], prev |-> link[s[i]]]]
           g == [i \in DOMAIN t |-> [event |-> t[i], prev |-> link[t[i]]]]
<1>1. /\ Len(s) \in Nat
      /\ DOMAIN s = 1 .. Len(s)
      /\ DOMAIN t = 1 .. Len(s) + 1
      /\ \A i \in 1 .. Len(s) : t[i] = s[i] /\ s[i] \in S
      /\ t[Len(s) + 1] = e
  OBVIOUS
<1> HIDE DEF t
<1>2. f \in Seq(R) /\ Len(f) = Len(s)
  <2>1. f \in [1 .. Len(s) -> R]
    BY <1>1
  <2> HIDE DEF f, R
  <2> QED
    BY <1>1, <2>1
<1>3. r \in R
  OBVIOUS
<1>4. /\ Append(f, r) \in Seq(R)
      /\ DOMAIN Append(f, r) = 1 .. Len(s) + 1
      /\ \A i \in 1 .. Len(s) : Append(f, r)[i] = f[i]
      /\ Append(f, r)[Len(s) + 1] = r
  <2> HIDE DEF f, r, R
  <2> QED
    BY <1>1, <1>2, <1>3
<1>5. Append(f, r) = [i \in 1 .. Len(s) + 1 |-> Append(f, r)[i]]
  <2> HIDE DEF f, r, R
  <2>1. ASSUME NEW q \in Seq(R), DOMAIN q = 1 .. Len(s) + 1
        PROVE  q = [i \in 1 .. Len(s) + 1 |-> q[i]]
    BY <1>1, <2>1
  <2>2. PICK q \in Seq(R) : q = Append(f, r)
    BY <1>4
  <2> QED
    BY <1>4, <2>1, <2>2
<1>6. ASSUME NEW i \in 1 .. Len(s) + 1
      PROVE  g[i] = Append(f, r)[i]
  <2>1. CASE i \in 1 .. Len(s)
    <3>1. Append(f, r)[i] = f[i]
      BY <1>4, <2>1
    <3> HIDE DEF r
    <3> QED
      BY <1>1, <2>1, <3>1
  <2>2. CASE i = Len(s) + 1
    <3>1. Append(f, r)[i] = r
      BY <1>4, <2>2
    <3> QED
      BY <1>1, <2>2, <3>1
  <2> QED
    BY <1>1, <2>1, <2>2
<1> HIDE DEF f, r, R
<1> QED
  BY <1>1, <1>5, <1>6 DEF t, f, r, Linked

\* While an event is between its two appends, its predecessor is the tip.
AbstractTip    == IF Tip \in Undecided THEN prev[Tip] ELSE Tip
AbstractSigned == ToSet(hashes) \ Undecided
AbstractLog    == Linked(log, prev)

\* A host with an empty log maps to an empty log.
LEMMA ChainInit == Init => Chain!Init /\ ChainInv
<1> SUFFICES ASSUME Init
             PROVE  Chain!Init /\ ChainInv
  OBVIOUS
<1>1. Undecided = {}
  BY DEF Init, Undecided, Process, Emitter
<1>2. ToSet(<<>>) = {}
  BY DEF ToSet
<1>3. Tip = Genesis
  BY DEF Init, Tip
<1>4. [i \in DOMAIN log |-> [event |-> log[i], prev |-> prev[log[i]]]] = <<>>
  BY DEF Init
<1>5. Chain!Init
  BY <1>1, <1>2, <1>3, <1>4 DEF Init, Chain!Init
<1>6. ChainInv
  BY <1>2 DEF Init, ChainInv, Process, Emitter
<1> QED
  BY <1>5, <1>6

(***************************************************************************)
(* AppendLog(p), and whatever cuts p off between its two appends, maps to  *)
(* Sign of the event p was at; every other step maps to a stutter.         *)
(***************************************************************************)
LEMMA SignedLogStep ==
  ASSUME TypeOK, TypeOK', Places, ChainInv, ChainInv', [Next]_vars,
         "hash" \notin Faults
  PROVE  [Chain!Next]_(Chain!vars)
<1> USE DEF Critical
<1>0. ASSUME AbstractTip' = AbstractTip,
             AbstractSigned' = AbstractSigned,
             AbstractLog' = AbstractLog
      PROVE  UNCHANGED Chain!vars
  BY <1>0 DEF AbstractTip, AbstractSigned, AbstractLog, Linked, Chain!vars
<1>1. ASSUME NEW e \in Event,
             e \notin AbstractSigned,
             AbstractSigned' = AbstractSigned \cup {e},
             AbstractTip' = e,
             \/ AbstractLog' = Append(AbstractLog,
                                      [event |-> e, prev |-> AbstractTip])
             \/ AbstractLog' = AbstractLog
      PROVE  Chain!Next
  <2>1. Chain!Sign(e)
    BY <1>1 DEF AbstractTip, AbstractSigned, AbstractLog, Linked, Chain!Sign
  <2> QED
    BY <2>1 DEF Chain!Next
\* One process at most is between its appends.
<1>2. ASSUME NEW p \in Emitter, pc[p] = "log"
      PROVE  /\ Undecided = {current[p]}
             /\ Tip = current[p]
             /\ current[p] \in Event
             /\ current[p] \in ToSet(hashes)
             /\ AbstractTip = prev[current[p]]
             /\ AbstractSigned = ToSet(hashes) \ {current[p]}
  <2>1. {q \in Emitter : pc[q] = "log"} = {p}
    BY <1>2, Exclusion
  <2>2. Undecided = {current[p]}
    BY <2>1 DEF Undecided
  <2>3. Tip = current[p] /\ hashes # <<>>
    BY <1>2 DEF ChainInv
  <2>4. current[p] \in Event
    BY <1>2 DEF Places, EmitPc
  <2>5. current[p] \in ToSet(hashes)
    BY <2>3, <2>4, SequenceFacts DEF Tip, TypeOK, ChainOK
  <2> QED
    BY <2>2, <2>3, <2>4, <2>5 DEF AbstractTip, AbstractSigned
<1>3. ASSUME \A p \in Emitter : pc'[p] # "log"
      PROVE  /\ AbstractTip' = Tip'
             /\ AbstractSigned' = ToSet(hashes')
  <2>1. Undecided' = {}
    BY <1>3 DEF Undecided
  <2> QED
    BY <2>1 DEF AbstractTip, AbstractSigned
<1>4. ASSUME \A p \in Emitter : pc[p] # "log"
      PROVE  /\ AbstractTip = Tip
             /\ AbstractSigned = ToSet(hashes)
  <2>1. Undecided = {}
    BY <1>4 DEF Undecided
  <2> QED
    BY <2>1 DEF AbstractTip, AbstractSigned
<1>5. ASSUME NEW p \in Process, Quiet(p)
      PROVE  [Chain!Next]_(Chain!vars)
  <2>1. AbstractLog' = AbstractLog /\ Tip' = Tip
    BY <1>5 DEF Quiet, AbstractLog, Tip
  <2>2. CASE p \in Emitter /\ pc[p] = "log"
    <3>1. \A q \in Emitter : pc'[q] # "log"
      BY <1>5, <2>2, Exclusion DEF Quiet
    <3> QED
      BY <1>1, <1>2, <1>3, <1>5, <2>1, <2>2, <3>1 DEF Quiet
  <2>3. CASE ~ (p \in Emitter /\ pc[p] = "log")
    <3>1. Undecided' = Undecided
      <4>1. {q \in Emitter : pc'[q] = "log"} = {q \in Emitter : pc[q] = "log"}
        BY <1>5, <2>3 DEF Quiet
      <4>2. \A q \in Emitter : pc[q] = "log" => current'[q] = current[q]
        BY <1>5, <2>3 DEF Quiet
      <4> QED
        BY <4>1, <4>2 DEF Undecided
    <3> QED
      BY <1>0, <1>5, <2>1, <3>1 DEF Quiet, AbstractTip, AbstractSigned
  <2> QED
    BY <2>2, <2>3
<1>6. ASSUME NEW p \in Process, Lock(p)
      PROVE  UNCHANGED Chain!vars
  <2>1. /\ current' = [current EXCEPT ![p] = emitted + 1]
        /\ pc' = [pc EXCEPT ![p] = "read"]
        /\ pc[p] = "wait"
        /\ UNCHANGED <<hashes, prev, log>>
    BY <1>6 DEF Lock, Goto
  <2>2. {q \in Emitter : pc'[q] = "log"} = {q \in Emitter : pc[q] = "log"}
    BY <2>1 DEF TypeOK, ControlOK, Process
  <2>3. \A q \in Emitter : pc[q] = "log" => current'[q] = current[q]
    BY <2>1 DEF TypeOK, ControlOK, Process
  <2>4. Undecided' = Undecided
    BY <2>2, <2>3 DEF Undecided
  <2> QED
    BY <1>0, <2>1, <2>4 DEF AbstractTip, AbstractSigned, AbstractLog, Tip
<1>7. ASSUME NEW p \in Process, ReadTail(p)
      PROVE  UNCHANGED Chain!vars
  <2>1. p \in Emitter /\ pc[p] = "read"
    BY <1>7 DEF ReadTail, Places, Process, FlushPc
  <2>2. /\ pc' = [pc EXCEPT ![p] = "sign"]
        /\ prev' = [prev EXCEPT ![current[p]] = Tip]
        /\ UNCHANGED <<current, hashes, log>>
    BY <1>7 DEF ReadTail, Goto
  <2>3. \A q \in Emitter : pc[q] # "log"
    BY <2>1, Exclusion
  <2>4. \A q \in Emitter : pc'[q] # "log"
    BY <2>2, <2>3 DEF TypeOK, ControlOK, Process
  <2>5. AbstractLog' = AbstractLog
    <3>1. current[p] \notin ToSet(log)
      BY <2>1 DEF ChainInv
    <3>2. \A i \in DOMAIN log : log[i] # current[p] /\ log[i] \in Event
      BY <3>1, SequenceFacts DEF ToSet, TypeOK, ChainOK
    <3>3. \A i \in DOMAIN log : prev'[log[i]] = prev[log[i]]
      BY <2>2, <3>2 DEF TypeOK, ChainOK
    <3> QED
      BY <2>2, <3>3 DEF AbstractLog, Linked
  <2> QED
    BY <1>0, <1>3, <1>4, <2>2, <2>3, <2>4, <2>5 DEF Tip
<1>8. ASSUME NEW p \in Process, AppendHash(p)
      PROVE  UNCHANGED Chain!vars
  <2>1. p \in Emitter /\ pc[p] = "sign"
    BY <1>8 DEF AppendHash, Places, Process, FlushPc
  <2>2. /\ pc' = [pc EXCEPT ![p] = "log"]
        /\ hashes' = Append(hashes, current[p])
        /\ UNCHANGED <<current, prev, log>>
    BY <1>8 DEF AppendHash, Goto, Fault
  <2>3. \A q \in Emitter : pc[q] # "log"
    BY <2>1, Exclusion
  <2>4. {q \in Emitter : pc'[q] = "log"} = {p}
    BY <2>1, <2>2, <2>3 DEF TypeOK, ControlOK, Process
  <2>5. Undecided' = {current[p]}
    BY <2>2, <2>4 DEF Undecided
  <2>6. /\ current[p] \in Event
        /\ current[p] \notin ToSet(hashes)
        /\ prev[current[p]] = Tip
    BY <2>1 DEF ChainInv, Places, EmitPc
  <2>7. /\ Tip' = current[p]
        /\ ToSet(hashes') = ToSet(hashes) \cup {current[p]}
    BY <2>2, <2>6, SequenceFacts DEF TypeOK, ChainOK, Tip
  <2>8. /\ AbstractTip' = Tip
        /\ AbstractSigned' = ToSet(hashes)
        /\ AbstractLog' = AbstractLog
    BY <2>2, <2>5, <2>6, <2>7 DEF AbstractTip, AbstractSigned, AbstractLog
  <2> QED
    BY <1>0, <1>4, <2>3, <2>8
<1>9. ASSUME NEW p \in Process, AppendLog(p)
      PROVE  Chain!Next
  <2>1. p \in Emitter /\ pc[p] = "log"
    BY <1>9 DEF AppendLog, Places, Process, FlushPc
  <2>2. /\ pc' = [pc EXCEPT ![p] = "unlock"]
        /\ log' = Append(log, current[p])
        /\ UNCHANGED <<current, prev, hashes>>
    BY <1>9 DEF AppendLog, Goto
  <2>3. \A q \in Emitter : pc'[q] # "log"
    BY <2>1, <2>2, Exclusion DEF TypeOK, ControlOK, Process
  <2>4. AbstractLog' = Append(AbstractLog, [event |-> current[p],
                                            prev  |-> prev[current[p]]])
    <3>1. log \in Seq(Event) /\ current[p] \in Event
      BY <1>2, <2>1 DEF TypeOK, ChainOK
    <3> QED
      BY <2>2, <3>1, LogAppend DEF AbstractLog
  <2>5. Tip' = Tip
    BY <2>2 DEF Tip
  <2> QED
    BY <1>1, <1>2, <1>3, <2>1, <2>2, <2>3, <2>4, <2>5
<1>10. CASE UNCHANGED vars
  <2>1. /\ Undecided' = Undecided
        /\ Tip' = Tip
        /\ UNCHANGED <<hashes, prev, log>>
    BY <1>10 DEF vars, chainVars, Undecided, Tip
  <2> QED
    BY <1>0, <2>1 DEF AbstractTip, AbstractSigned, AbstractLog
<1> QED
  BY <1>5, <1>6, <1>7, <1>8, <1>9, <1>10, QuietSteps
  DEF Next, Proceed, Emit

(***************************************************************************)
(* As long as appends to the hash file succeed, any number of processes    *)
(* that emit, are killed, signalled or refused by the disk at any command  *)
(* sign one unforked chain and log it in its order.                        *)
(***************************************************************************)
THEOREM LogIsSigned ==
  ASSUME "hash" \notin Faults
  PROVE  Spec => ImplementsSignedLog
<1>1. Init => Chain!Init /\ ChainInv
  BY ChainInit
<1>2. TypeOK /\ TypeOK' /\ Places /\ ChainInv /\ [Next]_vars => ChainInv'
  BY ChainStep
<1>3. TypeOK /\ TypeOK' /\ Places /\ ChainInv /\ ChainInv' /\ [Next]_vars
        => [Chain!Next]_(Chain!vars)
  BY SignedLogStep
<1>4. IInv => TypeOK /\ Places
  BY DEF IInv
<1> QED
  BY <1>1, <1>2, <1>3, <1>4, IInvariance, PTL
  DEF Spec, ImplementsSignedLog, Chain!Spec

-----------------------------------------------------------------------------
(* Lost events *)

\* The processes that are about to remove a file of which they sent no event,
\* and the lines of the topic that are no event.
BlindMoves == {p \in Process : pc[p] = "move" /\ data[p] = Blank}
BlankLines == {i \in DOMAIN topic : topic[i] = Blank}

\* What a process sends is its file's event or no event; what it removes
\* after it sent the event is in the topic.
DataInv ==
  /\ \A p \in Process : pc[p] = "send" => data[p] \in {current[p], Blank}
  /\ \A p \in Process : pc[p] = "move" /\ data[p] # Blank =>
                          current[p] \in ToSet(topic)

\* Every line that is no event pays for one file: for one that is about to be
\* removed, or for one that was.
LossInv ==
  /\ DataInv
  /\ IsFiniteSet(BlindMoves)
  /\ Cardinality(Lost) + Cardinality(BlindMoves) <= Cardinality(BlankLines)

\* A step of p that sends no event for good and removes no file but those a
\* full spool drops.
Calm(p) ==
  /\ \A q \in Process \ {p} : /\ pc'[q] = pc[q]
                              /\ current'[q] = current[q]
                              /\ data'[q] = data[q]
  /\ pc'[p] # "move"
  /\ pc'[p] = "send" => data'[p] \in {current'[p], Blank}
  /\ \/ topic' = topic
     \/ pc[p] = "send" /\ topic' = Append(topic, data[p])
  /\ trimmed \subseteq trimmed'
  /\ \A e \in Event : file'[e] = "gone" => file[e] = "gone" \/ e \in trimmed'

LEMMA CalmSteps ==
  ASSUME TypeOK, Places, DataInv, NEW p \in Process,
         Begin(p) \/ Emit(p) \/ (Flush(p) /\ ~ Sent(p) /\ ~ Move(p))
         \/ Leave(p) \/ Signal(p) \/ Kill(p)
  PROVE  Calm(p)
<1> USE DEF Process, Calm, Goto, Done, Returned, chainVars, spoolVars,
            flushVars
<1>0. /\ pc \in [Process -> Pc]
      /\ current \in [Process -> Event \cup {NoEvent}]
      /\ data \in [Process -> Event \cup {NoEvent, Blank}]
      /\ file \in [Event -> {"none", "empty", "full", "gone"}]
  BY DEF TypeOK, ControlOK, SpoolOK
<1>1. CASE Begin(p) \/ Lock(p) \/ ReadTail(p) \/ AppendHash(p) \/ AppendLog(p)
  BY <1>0, <1>1 DEF Begin, Lock, ReadTail, AppendHash, AppendLog
<1>2. CASE LogFails(p) \/ SpoolFails(p)
  BY <1>0, <1>2 DEF LogFails, SpoolFails, Failed
<1>3. CASE Unlock(p)
  BY <1>0, <1>3 DEF Unlock
<1>4. CASE Stamp(p) \/ Create(p) \/ Fill(p)
  BY <1>0, <1>4 DEF Stamp, Create, Fill
<1>5. CASE Trim(p)
  BY <1>0, <1>5 DEF Trim
<1>6. CASE Glob(p) \/ Cat(p)
  BY <1>0, <1>6 DEF Glob, Cat
<1>7. CASE NextFile(p)
  BY <1>0, <1>7 DEF NextFile, FlushReturned, FlushOver
<1>8. CASE SendFails(p)
  BY <1>0, <1>8 DEF SendFails, GiveUp, FlushReturned, FlushOver, DataInv
<1>9. CASE Leave(p) \/ Signal(p) \/ Kill(p)
  BY <1>0, <1>9 DEF Leave, Signal, Kill, FlushOver
<1> QED
  BY <1>1, <1>2, <1>3, <1>4, <1>5, <1>6, <1>7, <1>8, <1>9 DEF Emit, Flush

\* What a line more does to the topic.
LEMMA TopicGrows ==
  ASSUME TypeOK, NEW x \in Event \cup {Blank}, topic' = Append(topic, x)
  PROVE  /\ ToSet(topic') = ToSet(topic) \cup {x}
         /\ BlankLines \subseteq BlankLines'
         /\ x = Blank => /\ Len(topic) + 1 \notin BlankLines
                         /\ BlankLines' = BlankLines \cup {Len(topic) + 1}
<1> DEFINE S == Event \cup {Blank}
<1>1. topic \in Seq(S) /\ x \in S
  BY DEF TypeOK, SpoolOK
<1> HIDE DEF S
<1>2. /\ Len(topic) \in Nat
      /\ DOMAIN topic = 1 .. Len(topic)
      /\ DOMAIN topic' = 1 .. Len(topic) + 1
      /\ \A i \in 1 .. Len(topic) : topic'[i] = topic[i]
      /\ topic'[Len(topic) + 1] = x
  BY <1>1
<1>3. ToSet(topic') = ToSet(topic) \cup {x}
  BY <1>1, SequenceFacts
<1>4. BlankLines \subseteq BlankLines'
  BY <1>2 DEF BlankLines
<1>5. ASSUME x = Blank
      PROVE  /\ Len(topic) + 1 \notin BlankLines
             /\ BlankLines' = BlankLines \cup {Len(topic) + 1}
  BY <1>2, <1>5 DEF BlankLines
<1> QED
  BY <1>3, <1>4, <1>5

\* Lost events and lines of the topic can be counted.
LEMMA LossIsFinite ==
  ASSUME TypeOK
  PROVE  /\ IsFiniteSet(Lost) /\ Cardinality(Lost) \in Nat
         /\ IsFiniteSet(BlankLines) /\ Cardinality(BlankLines) \in Nat
<1>1. IsFiniteSet(Event)
  <2>1. 1 \in Int /\ MaxEvents \in Int
    OBVIOUS
  <2> QED
    BY <2>1, FS_Interval DEF Event
<1>2. Lost \subseteq Event
  BY DEF Lost
<1>3. Len(topic) \in Nat /\ BlankLines \subseteq 1 .. Len(topic)
  BY DEF TypeOK, SpoolOK, BlankLines
<1>4. IsFiniteSet(1 .. Len(topic))
  <2> HIDE DEF Event
  <2>1. 1 \in Int /\ Len(topic) \in Int
    BY <1>3
  <2> QED
    BY <2>1, FS_Interval
<1> QED
  BY <1>1, <1>2, <1>3, <1>4, FS_Subset, FS_CardinalityType

LEMMA LossIsFinitePrimed ==
  TypeOK' => (/\ IsFiniteSet(Lost) /\ Cardinality(Lost) \in Nat
              /\ IsFiniteSet(BlankLines) /\ Cardinality(BlankLines) \in Nat)'
<1>1. TypeOK => /\ IsFiniteSet(Lost) /\ Cardinality(Lost) \in Nat
                /\ IsFiniteSet(BlankLines) /\ Cardinality(BlankLines) \in Nat
  BY LossIsFinite
<1> QED
  BY <1>1, PTL

LEMMA LossStep ==
  ASSUME TypeOK, TypeOK', Places, LossInv, [Next]_vars
  PROVE  LossInv'
<1>0. /\ DataInv
      /\ IsFiniteSet(BlindMoves)
      /\ Cardinality(BlindMoves) \in Nat
      /\ Cardinality(Lost) + Cardinality(BlindMoves) <= Cardinality(BlankLines)
      /\ IsFiniteSet(Lost) /\ Cardinality(Lost) \in Nat
      /\ IsFiniteSet(BlankLines) /\ Cardinality(BlankLines) \in Nat
      /\ IsFiniteSet(Lost') /\ Cardinality(Lost') \in Nat
      /\ IsFiniteSet(BlankLines') /\ Cardinality(BlankLines') \in Nat
  BY LossIsFinite, LossIsFinitePrimed, FS_CardinalityType DEF LossInv
\* Fewer files are at stake, and no line went away.
<1>1. ASSUME Lost' \subseteq Lost, BlindMoves' \subseteq BlindMoves,
             BlankLines \subseteq BlankLines', DataInv'
      PROVE  LossInv'
  <2>1. /\ Cardinality(Lost') <= Cardinality(Lost)
        /\ IsFiniteSet(BlindMoves')
        /\ Cardinality(BlindMoves') <= Cardinality(BlindMoves)
        /\ Cardinality(BlindMoves') \in Nat
        /\ Cardinality(BlankLines) <= Cardinality(BlankLines')
    BY <1>0, <1>1, FS_Subset, FS_CardinalityType
  <2> QED
    BY <1>0, <1>1, <2>1 DEF LossInv
<1>2. ASSUME ToSet(topic) \subseteq ToSet(topic'), trimmed \subseteq trimmed',
             \A e \in Event :
               file'[e] = "gone" => file[e] = "gone" \/ e \in trimmed'
      PROVE  Lost' \subseteq Lost
  BY <1>2 DEF Lost
<1>3. ASSUME NEW p \in Process, Calm(p)
      PROVE  LossInv'
  <2>1. pc[p] = "send" => data[p] \in Event \cup {Blank}
    BY DEF Places
  <2>2. /\ ToSet(topic) \subseteq ToSet(topic')
        /\ BlankLines \subseteq BlankLines'
    <3>1. CASE topic' = topic
      BY <3>1 DEF BlankLines
    <3>2. CASE topic' # topic
      BY <1>3, <2>1, <3>2, TopicGrows DEF Calm
    <3> QED
      BY <3>1, <3>2
  <2>3. Lost' \subseteq Lost
    BY <1>2, <1>3, <2>2 DEF Calm
  <2>4. BlindMoves' \subseteq BlindMoves
    BY <1>3 DEF Calm, BlindMoves
  <2>5. DataInv'
    BY <1>0, <1>3, <2>2 DEF Calm, DataInv
  <2> QED
    BY <1>1, <2>2, <2>3, <2>4, <2>5
<1>4. ASSUME NEW p \in Process, Sent(p)
      PROVE  LossInv'
  <2>1. /\ pc[p] = "send"
        /\ data[p] \in Event \cup {Blank}
        /\ data[p] \in {current[p], Blank}
        /\ topic' = Append(topic, data[p])
        /\ pc' = [pc EXCEPT ![p] = "move"]
        /\ UNCHANGED <<current, data, file, trimmed>>
    BY <1>0, <1>4 DEF Sent, Goto, Places, DataInv, spoolVars
  <2>2. /\ ToSet(topic') = ToSet(topic) \cup {data[p]}
        /\ BlankLines \subseteq BlankLines'
        /\ data[p] = Blank =>
             /\ Len(topic) + 1 \notin BlankLines
             /\ BlankLines' = BlankLines \cup {Len(topic) + 1}
    BY <2>1, TopicGrows
  <2>3. Lost' \subseteq Lost
    BY <1>2, <2>1, <2>2
  <2>4. DataInv'
    BY <1>0, <2>1, <2>2 DEF DataInv, TypeOK, ControlOK
  <2>5. CASE data[p] # Blank
    <3>1. BlindMoves' \subseteq BlindMoves
      BY <2>1, <2>5 DEF BlindMoves, TypeOK, ControlOK
    <3> QED
      BY <1>1, <2>2, <2>3, <2>4, <3>1
  <2>6. CASE data[p] = Blank
    <3>1. BlindMoves' = BlindMoves \cup {p} /\ p \notin BlindMoves
      BY <2>1, <2>6 DEF BlindMoves, TypeOK, ControlOK
    <3>2. /\ IsFiniteSet(BlindMoves')
          /\ Cardinality(BlindMoves') = Cardinality(BlindMoves) + 1
      BY <1>0, <3>1, FS_AddElement
    <3>3. Cardinality(BlankLines') = Cardinality(BlankLines) + 1
      BY <1>0, <2>2, <2>6, FS_AddElement
    <3>4. Cardinality(Lost') <= Cardinality(Lost)
      BY <1>0, <2>3, FS_Subset
    <3> QED
      BY <1>0, <2>4, <3>2, <3>3, <3>4 DEF LossInv
  <2> QED
    BY <2>5, <2>6
<1>5. ASSUME NEW p \in Process, Move(p)
      PROVE  LossInv'
  <2>1. /\ pc[p] = "move"
        /\ current[p] \in Event
        /\ file' = [file EXCEPT ![current[p]] = "gone"]
        /\ current' = [current EXCEPT ![p] = NoEvent]
        /\ data' = [data EXCEPT ![p] = NoEvent]
        /\ pc' = [pc EXCEPT ![p] = "next"]
        /\ UNCHANGED <<topic, trimmed>>
    BY <1>5 DEF Move, Goto, Done, Places
  <2>2. BlankLines' = BlankLines
    BY <2>1 DEF BlankLines
  <2>3. BlindMoves' = BlindMoves \ {p}
    BY <2>1 DEF BlindMoves, TypeOK, ControlOK, SpoolOK
  <2>4. DataInv'
    BY <1>0, <2>1 DEF DataInv, TypeOK, ControlOK, SpoolOK
  <2>5. Lost' \subseteq Lost \cup {current[p]}
    BY <2>1 DEF Lost, TypeOK, SpoolOK
  <2>6. CASE data[p] # Blank
    <3>1. current[p] \in ToSet(topic)
      BY <1>0, <2>1, <2>6 DEF DataInv
    <3>2. Lost' \subseteq Lost
      BY <2>1, <2>5, <3>1 DEF Lost
    <3> QED
      BY <1>1, <2>2, <2>3, <2>4, <3>2
  <2>7. CASE data[p] = Blank
    <3>1. p \in BlindMoves
      BY <2>1, <2>7 DEF BlindMoves
    <3>2. /\ IsFiniteSet(BlindMoves')
          /\ Cardinality(BlindMoves') = Cardinality(BlindMoves) - 1
      BY <1>0, <2>3, <3>1, FS_RemoveElement
    <3>3. /\ IsFiniteSet(Lost \cup {current[p]})
          /\ Cardinality(Lost \cup {current[p]}) <= Cardinality(Lost) + 1
      <4> DEFINE S == Lost
                 e == current[p]
      <4>1. IsFiniteSet(S) /\ Cardinality(S) \in Nat
        BY <1>0
      <4> HIDE DEF S, e
      <4>2. /\ IsFiniteSet(S \cup {e})
            /\ \/ Cardinality(S \cup {e}) = Cardinality(S)
               \/ Cardinality(S \cup {e}) = Cardinality(S) + 1
        BY <4>1, FS_AddElement
      <4>3. /\ IsFiniteSet(S \cup {e})
            /\ Cardinality(S \cup {e}) <= Cardinality(S) + 1
        BY <4>1, <4>2
      <4> QED
        BY <4>3 DEF S, e
    <3>4. Cardinality(Lost') <= Cardinality(Lost \cup {current[p]})
      BY <2>5, <3>3, FS_Subset
    <3>5. Cardinality(Lost') <= Cardinality(Lost) + 1
      BY <1>0, <3>3, <3>4, FS_CardinalityType
    <3> QED
      BY <1>0, <2>2, <2>4, <3>2, <3>5 DEF LossInv
  <2> QED
    BY <2>6, <2>7
<1>6. CASE UNCHANGED vars
  <2>1. UNCHANGED <<pc, current, data, topic, file, trimmed>>
    BY <1>6 DEF vars, spoolVars, flushVars
  <2> QED
    BY <2>1 DEF LossInv, DataInv, BlindMoves, BlankLines, Lost
<1> QED
  BY <1>0, <1>3, <1>4, <1>5, <1>6, CalmSteps DEF Next, Proceed

LEMMA LossInit == Init => LossInv
<1> SUFFICES ASSUME Init
             PROVE  LossInv
  OBVIOUS
<1>1. DataInv /\ BlindMoves = {}
  BY DEF Init, DataInv, BlindMoves, Process, Emitter
<1>2. Lost = {} /\ BlankLines = {}
  BY DEF Init, Lost, BlankLines
<1> QED
  BY <1>1, <1>2, FS_EmptySet DEF LossInv

(***************************************************************************)
(* However many processes flush the spool side by side, and wherever they  *)
(* are killed or Kafka fails, no more events leave the spool unsent than   *)
(* the topic has lines that are no event, those a full spool drops         *)
(* excepted.                                                               *)
(***************************************************************************)
THEOREM LossesAreSeen == Spec => []LossIsVisible
<1>1. Init => LossInv
  BY LossInit
<1>2. TypeOK /\ TypeOK' /\ Places /\ LossInv /\ [Next]_vars => LossInv'
  BY LossStep
<1>3. IInv => TypeOK /\ Places
  BY DEF IInv
<1>4. TypeOK /\ LossInv => LossIsVisible
  <2> SUFFICES ASSUME TypeOK, LossInv
               PROVE  LossIsVisible
    OBVIOUS
  <2>1. /\ Cardinality(BlindMoves) \in Nat
        /\ Cardinality(Lost) \in Nat
        /\ Cardinality(BlankLines) \in Nat
    BY LossIsFinite, FS_CardinalityType DEF LossInv
  <2> QED
    BY <2>1 DEF LossInv, LossIsVisible, BlankLines
<1> QED
  BY <1>1, <1>2, <1>3, <1>4, IInvariance, PTL DEF Spec

-----------------------------------------------------------------------------
(* Broken links *)

\* The event verify_hash_chain() expects the next line of the log to follow.
LogTip == IF log = <<>> THEN Genesis ELSE Last(log)

\* The number of broken links a comparison stands for.
Break(differs) == IF differs THEN 1 ELSE 0

(***************************************************************************)
(* A fault pays for a link that is broken, or that the next line of the    *)
(* log will break because hash file and log end with different events.     *)
(* Between the two appends of an event two links may be due: that of the   *)
(* event itself, and that of its successor.                                *)
(***************************************************************************)
LinkInv ==
  /\ ToSet(log) \subseteq 1 .. emitted
  /\ \A p \in Emitter :
       /\ pc[p] \in {"read", "sign", "log"} => current[p] \in 1 .. emitted
       /\ pc[p] \in {"read", "sign"} => current[p] \notin ToSet(log)
       /\ pc[p] = "sign" => prev[current[p]] = Tip
       /\ pc[p] = "log" =>
            Cardinality(BrokenLinks) + Break(prev[current[p]] # LogTip)
              + Break(Tip # current[p]) <= faults
  /\ (\A p \in Emitter : pc[p] # "log") =>
       Cardinality(BrokenLinks) + Break(Tip # LogTip) <= faults

LEMMA BreakFacts ==
  /\ \A b : Break(b) \in {0, 1}
  /\ Break(TRUE) = 1
  /\ Break(FALSE) = 0
BY DEF Break

\* The broken links of a log can be counted.
LEMMA BreaksAreFinite ==
  ASSUME ChainOK
  PROVE  /\ IsFiniteSet(BrokenLinks)
         /\ Cardinality(BrokenLinks) \in Nat
         /\ Len(log) + 1 \notin BrokenLinks
<1>1. Len(log) \in Nat /\ DOMAIN log = 1 .. Len(log)
  BY DEF ChainOK
<1>2. BrokenLinks \subseteq 1 .. Len(log)
  BY <1>1 DEF BrokenLinks
<1>3. IsFiniteSet(1 .. Len(log))
  <2>1. 1 \in Int /\ Len(log) \in Int
    BY <1>1
  <2> QED
    BY <2>1, FS_Interval
<1>4. Len(log) + 1 \notin 1 .. Len(log)
  BY <1>1
<1> QED
  BY <1>2, <1>3, <1>4, FS_Subset, FS_CardinalityType

\* A line more in the log breaks one link or none.
LEMMA LinkAppended ==
  ASSUME ChainOK, NEW e \in Event, log' = Append(log, e), prev' = prev
  PROVE  /\ LogTip' = e
         /\ Cardinality(BrokenLinks')
            = Cardinality(BrokenLinks) + Break(prev[e] # LogTip)
<1>1. /\ Len(log) \in Nat
      /\ DOMAIN log = 1 .. Len(log)
      /\ DOMAIN log' = 1 .. Len(log) + 1
      /\ \A i \in 1 .. Len(log) : log'[i] = log[i]
      /\ log'[Len(log) + 1] = e
      /\ log = <<>> <=> Len(log) = 0
  BY DEF ChainOK
<1>2. LogTip' = e
  BY SequenceFacts DEF ChainOK, LogTip
<1>3. LogTip = IF Len(log) = 0 THEN Genesis ELSE log[Len(log)]
  BY <1>1 DEF LogTip, Last
<1>4. ASSUME NEW i \in 1 .. Len(log)
      PROVE  i \in BrokenLinks' <=> i \in BrokenLinks
  BY <1>1 DEF BrokenLinks
<1>5. Len(log) + 1 \in BrokenLinks' <=> prev[e] # LogTip
  <2>1. /\ Len(log) + 1 \in DOMAIN log'
        /\ prev'[log'[Len(log) + 1]] = prev[e]
    BY <1>1
  <2>2. LogTip = IF Len(log) + 1 = 1 THEN Genesis
                                    ELSE log'[(Len(log) + 1) - 1]
    <3>1. CASE Len(log) = 0
      BY <1>3, <3>1
    <3>2. CASE Len(log) # 0
      <4>1. Len(log) \in 1 .. Len(log) /\ (Len(log) + 1) - 1 = Len(log)
        BY <1>1, <3>2
      <4>2. log'[(Len(log) + 1) - 1] = log[Len(log)]
        BY <1>1, <4>1
      <4>3. LogTip = log[Len(log)]
        BY <1>3, <3>2
      <4>4. Len(log) + 1 # 1
        BY <1>1, <3>2
      <4> QED
        BY <4>2, <4>3, <4>4
    <3> QED
      BY <3>1, <3>2
  <2> QED
    BY <2>1, <2>2 DEF BrokenLinks
<1>6. /\ BrokenLinks' \subseteq 1 .. Len(log) + 1
      /\ BrokenLinks \subseteq 1 .. Len(log)
  BY <1>1 DEF BrokenLinks
<1>7. CASE prev[e] # LogTip
  <2>1. BrokenLinks' = BrokenLinks \cup {Len(log) + 1}
    <3> DEFINE n == Len(log) + 1
               B == BrokenLinks
               C == BrokenLinks'
    <3>1. /\ n \in C
          /\ \A i \in 1 .. Len(log) : i \in C <=> i \in B
          /\ C \subseteq 1 .. n
          /\ B \subseteq 1 .. Len(log)
          /\ \A i \in 1 .. n : i = n \/ i \in 1 .. Len(log)
      BY <1>1, <1>4, <1>5, <1>6, <1>7
    <3> HIDE DEF n, B, C
    <3>2. C = B \cup {n}
      BY <3>1
    <3> QED
      BY <3>2 DEF n, B, C
  <2>2. Cardinality(BrokenLinks') = Cardinality(BrokenLinks) + 1
    BY <2>1, BreaksAreFinite, FS_AddElement
  <2> QED
    BY <1>2, <1>7, <2>2 DEF Break
<1>8. CASE prev[e] = LogTip
  <2>1. BrokenLinks' = BrokenLinks
    <3> DEFINE n == Len(log) + 1
               B == BrokenLinks
               C == BrokenLinks'
    <3>1. /\ n \notin C
          /\ \A i \in 1 .. Len(log) : i \in C <=> i \in B
          /\ C \subseteq 1 .. n
          /\ B \subseteq 1 .. Len(log)
          /\ \A i \in 1 .. n : i = n \/ i \in 1 .. Len(log)
      BY <1>1, <1>4, <1>5, <1>6, <1>8
    <3> HIDE DEF n, B, C
    <3>2. C = B
      BY <3>1
    <3> QED
      BY <3>2 DEF B, C
  <2> QED
    BY <1>2, <1>8, <2>1, BreaksAreFinite DEF Break
<1> QED
  BY <1>7, <1>8

\* Whoever leaves the log without having appended to it suffers a fault.
LEMMA QuietIsPaid ==
  ASSUME TypeOK, NEW p \in Process,
         \/ Begin(p) \/ LogFails(p) \/ Unlock(p) \/ Stamp(p) \/ Create(p)
         \/ SpoolFails(p) \/ Fill(p) \/ Trim(p)
         \/ Flush(p) \/ Leave(p) \/ Signal(p) \/ Kill(p)
  PROVE  \/ faults' = faults + 1
         \/ faults' = faults /\ pc[p] # "log"
BY DEF Begin, LogFails, Unlock, Stamp, Create, SpoolFails, Fill, Trim,
       Flush, Glob, NextFile, Cat, Sent, SendFails, Move, Leave, Signal, Kill,
       Fault, NoFault

LEMMA LinkStep ==
  ASSUME TypeOK, TypeOK', Places, LinkInv, [Next]_vars
  PROVE  LinkInv'
<1> USE DEF Critical
<1>0. /\ faults \in Nat /\ faults' \in Nat
      /\ Cardinality(BrokenLinks) \in Nat
      /\ emitted \in Nat
  BY BreaksAreFinite DEF TypeOK, ControlOK
<1>1. ASSUME NEW p \in Process, Quiet(p),
             faults' = faults + 1 \/ (faults' = faults /\ pc[p] # "log")
      PROVE  LinkInv'
  <2>1. UNCHANGED <<Tip, LogTip, BrokenLinks>>
    BY <1>1 DEF Quiet, Tip, LogTip, BrokenLinks
  <2>2. CASE p \in Emitter /\ pc[p] = "log"
    <3>1. \A q \in Emitter : pc'[q] # "log"
      BY <1>1, <2>2, Exclusion DEF Quiet
    <3>2. Cardinality(BrokenLinks) <= faults
      <4>1. Cardinality(BrokenLinks) + Break(prev[current[p]] # LogTip)
              + Break(Tip # current[p]) <= faults
        BY <2>2 DEF LinkInv
      <4> QED
        BY <1>0, <4>1, BreakFacts
    <3>3. Cardinality(BrokenLinks') + Break(Tip' # LogTip') <= faults'
      BY <1>0, <1>1, <2>1, <2>2, <3>2, BreakFacts
    <3> QED
      BY <1>1, <2>1, <3>1, <3>3 DEF LinkInv, Quiet
  <2>3. CASE ~ (p \in Emitter /\ pc[p] = "log")
    <3>1. \A q \in Emitter : pc[q] = "log" <=> pc'[q] = "log"
      BY <1>1, <2>3 DEF Quiet
    <3>2. faults <= faults'
      BY <1>0, <1>1
    <3>3. ASSUME NEW q \in Emitter, pc'[q] = "log"
          PROVE  Cardinality(BrokenLinks')
                   + Break(prev'[current'[q]] # LogTip')
                   + Break(Tip' # current'[q]) <= faults'
      <4>1. current'[q] = current[q] /\ pc[q] = "log" /\ prev' = prev
        BY <1>1, <3>1, <3>3 DEF Quiet
      <4>2. Cardinality(BrokenLinks) + Break(prev[current[q]] # LogTip)
                   + Break(Tip # current[q]) <= faults
        BY <4>1 DEF LinkInv
      <4> QED
        BY <1>0, <2>1, <3>2, <4>1, <4>2, BreakFacts
    <3>4. ASSUME \A q \in Emitter : pc'[q] # "log"
          PROVE  Cardinality(BrokenLinks') + Break(Tip' # LogTip') <= faults'
      <4>1. Cardinality(BrokenLinks) + Break(Tip # LogTip) <= faults
        BY <3>1, <3>4 DEF LinkInv
      <4> QED
        BY <1>0, <2>1, <3>2, <4>1, BreakFacts
    <3> QED
      BY <1>1, <2>1, <3>3, <3>4 DEF LinkInv, Quiet
  <2> QED
    BY <2>2, <2>3
<1>2. ASSUME NEW p \in Process, Lock(p)
      PROVE  LinkInv'
  <2>1. /\ emitted' = emitted + 1
        /\ current' = [current EXCEPT ![p] = emitted + 1]
        /\ pc' = [pc EXCEPT ![p] = "read"]
        /\ pc[p] = "wait"
        /\ UNCHANGED <<hashes, prev, log, faults>>
    BY <1>2 DEF Lock, Goto, NoFault
  <2>2. UNCHANGED <<Tip, LogTip, BrokenLinks>>
    BY <2>1 DEF Tip, LogTip, BrokenLinks
  <2>3. /\ 1 .. emitted' = (1 .. emitted) \cup {emitted + 1}
        /\ emitted + 1 \notin ToSet(log)
    BY <1>0, <2>1 DEF LinkInv
  <2>4. \A q \in Emitter : pc'[q] = "log" <=> pc[q] = "log"
    BY <2>1 DEF TypeOK, ControlOK, Process
  <2>5. ASSUME NEW q \in Emitter
        PROVE  /\ pc'[q] \in {"read", "sign", "log"} =>
                    current'[q] \in 1 .. emitted'
               /\ pc'[q] \in {"read", "sign"} => current'[q] \notin ToSet(log')
               /\ pc'[q] \in {"sign", "log"} =>
                    pc'[q] = pc[q] /\ current'[q] = current[q]
    BY <2>1, <2>3 DEF LinkInv, TypeOK, ControlOK, Process
  <2> QED
    BY <2>1, <2>2, <2>3, <2>4, <2>5 DEF LinkInv
<1>3. ASSUME NEW p \in Process, ReadTail(p)
      PROVE  LinkInv'
  <2>1. /\ p \in Emitter /\ pc[p] = "read"
        /\ current[p] \in Event
        /\ current[p] \notin ToSet(log)
        /\ \A q \in Emitter \ {p} : pc[q] \notin Critical
    BY <1>3, Exclusion
    DEF ReadTail, Places, Process, FlushPc, EmitPc, LinkInv
  <2>2. /\ pc' = [pc EXCEPT ![p] = "sign"]
        /\ prev' = [prev EXCEPT ![current[p]] = Tip]
        /\ UNCHANGED <<emitted, current, hashes, log, faults>>
    BY <1>3 DEF ReadTail, Goto, NoFault
  <2>3. /\ \A q \in Emitter : pc[q] # "log" /\ pc'[q] # "log"
        /\ \A q \in Emitter \ {p} : pc'[q] \notin Critical
        /\ prev'[current[p]] = Tip
    BY <2>1, <2>2 DEF TypeOK, ControlOK, ChainOK, Process
  <2>4. BrokenLinks' = BrokenLinks
    <3>1. \A i \in DOMAIN log : log[i] # current[p] /\ log[i] \in Event
      BY <2>1, SequenceFacts DEF ToSet, TypeOK, ChainOK
    <3>2. \A i \in DOMAIN log : prev'[log[i]] = prev[log[i]]
      BY <2>2, <3>1 DEF TypeOK, ChainOK
    <3> QED
      BY <2>2, <3>2 DEF BrokenLinks
  <2>5. UNCHANGED <<Tip, LogTip>>
    BY <2>2 DEF Tip, LogTip
  <2> QED
    BY <2>1, <2>2, <2>3, <2>4, <2>5 DEF LinkInv
<1>4. ASSUME NEW p \in Process, AppendHash(p)
      PROVE  LinkInv'
  <2>1. /\ p \in Emitter /\ pc[p] = "sign"
        /\ current[p] \in Event
        /\ prev[current[p]] = Tip
        /\ \A q \in Emitter \ {p} : pc[q] \notin Critical
    BY <1>4, Exclusion
    DEF AppendHash, Places, Process, FlushPc, EmitPc, LinkInv
  <2>2. /\ pc' = [pc EXCEPT ![p] = "log"]
        /\ UNCHANGED <<emitted, current, prev, log>>
        /\ \/ hashes' = Append(hashes, current[p]) /\ faults' = faults
           \/ hashes' = hashes /\ faults' = faults + 1
    BY <1>4 DEF AppendHash, Goto, Fault, NoFault
  <2>3. /\ \A q \in Emitter : pc[q] # "log"
        /\ \A q \in Emitter \ {p} : pc'[q] \notin Critical
        /\ pc'[p] = "log"
    BY <2>1, <2>2 DEF TypeOK, ControlOK, Process
  <2>4. UNCHANGED <<LogTip, BrokenLinks>>
    BY <2>2 DEF LogTip, BrokenLinks
  <2>5. Cardinality(BrokenLinks) + Break(Tip # LogTip) <= faults
    BY <2>3 DEF LinkInv
  <2>6. \/ Tip' = current[p] /\ faults' = faults
        \/ faults' = faults + 1
    <3>1. ASSUME hashes' = Append(hashes, current[p])
          PROVE  Tip' = current[p]
      BY <2>1, <3>1, SequenceFacts DEF TypeOK, ChainOK, Tip
    <3> QED
      BY <2>2, <3>1
  <2>7. Cardinality(BrokenLinks') + Break(prev'[current'[p]] # LogTip')
          + Break(Tip' # current'[p]) <= faults'
    <3>1. prev'[current'[p]] = Tip /\ current'[p] = current[p]
      BY <2>1, <2>2
    <3>2. Break(Tip' # current'[p]) <= faults' - faults
      <4>1. CASE Tip' = current[p] /\ faults' = faults
        BY <1>0, <3>1, <4>1 DEF Break
      <4>2. CASE faults' = faults + 1
        BY <1>0, <4>2, BreakFacts
      <4> QED
        BY <2>6, <4>1, <4>2
    <3> QED
      BY <1>0, <2>4, <2>5, <3>1, <3>2, BreakFacts
  <2> QED
    BY <2>1, <2>2, <2>3, <2>4, <2>7 DEF LinkInv
<1>5. ASSUME NEW p \in Process, AppendLog(p)
      PROVE  LinkInv'
  <2>1. /\ p \in Emitter /\ pc[p] = "log"
        /\ current[p] \in Event
        /\ current[p] \in 1 .. emitted
        /\ \A q \in Emitter \ {p} : pc[q] \notin Critical
    BY <1>5, Exclusion
    DEF AppendLog, Places, Process, FlushPc, EmitPc, LinkInv
  <2>2. /\ pc' = [pc EXCEPT ![p] = "unlock"]
        /\ log' = Append(log, current[p])
        /\ UNCHANGED <<emitted, current, prev, hashes, faults>>
    BY <1>5 DEF AppendLog, Goto, NoFault
  <2>3. \A q \in Emitter : pc'[q] \notin {"read", "sign", "log"}
    BY <2>1, <2>2 DEF TypeOK, ControlOK, Process
  <2>4. ToSet(log') = ToSet(log) \cup {current[p]}
    BY <2>1, <2>2, SequenceFacts DEF TypeOK, ChainOK
  <2>5. /\ LogTip' = current[p]
        /\ Cardinality(BrokenLinks')
           = Cardinality(BrokenLinks) + Break(prev[current[p]] # LogTip)
    BY <2>1, <2>2, LinkAppended DEF TypeOK
  <2>6. Cardinality(BrokenLinks) + Break(prev[current[p]] # LogTip)
          + Break(Tip # current[p]) <= faults
    BY <2>1 DEF LinkInv
  <2>7. Cardinality(BrokenLinks') + Break(Tip' # LogTip') <= faults'
    <3>1. Tip' = Tip
      BY <2>2 DEF Tip
    <3> QED
      BY <2>2, <2>5, <2>6, <3>1
  <2> QED
    BY <2>1, <2>2, <2>3, <2>4, <2>7 DEF LinkInv
<1>6. CASE UNCHANGED vars
  <2>1. UNCHANGED <<emitted, pc, current, prev, log, faults, Tip, LogTip,
                    BrokenLinks>>
    BY <1>6 DEF vars, chainVars, Tip, LogTip, BrokenLinks
  <2> QED
    BY <2>1 DEF LinkInv
<1> QED
  BY <1>1, <1>2, <1>3, <1>4, <1>5, <1>6, QuietSteps, QuietIsPaid
  DEF Next, Proceed, Emit

LEMMA LinkInit == Init => LinkInv
<1> SUFFICES ASSUME Init
             PROVE  LinkInv
  OBVIOUS
<1>1. BrokenLinks = {} /\ ToSet(log) = {} /\ Tip = Genesis /\ LogTip = Genesis
  BY DEF Init, BrokenLinks, ToSet, Tip, LogTip
<1>2. Cardinality(BrokenLinks) = 0
  BY <1>1, FS_EmptySet
<1> QED
  BY <1>1, <1>2 DEF Init, LinkInv, Process, Emitter, Break

(***************************************************************************)
(* An untouched log has at most one broken link for every fault its host   *)
(* has suffered, whoever is killed, signalled, or refused by the disk at   *)
(* whichever command of emit_event().                                      *)
(***************************************************************************)
THEOREM LinksBreakByFaults == Spec => []BreaksAreFaults
<1>1. Init => LinkInv
  BY LinkInit
<1>2. TypeOK /\ TypeOK' /\ Places /\ LinkInv /\ [Next]_vars => LinkInv'
  BY LinkStep
<1>3. IInv => TypeOK /\ Places
  BY DEF IInv
<1>4. TypeOK /\ LinkInv => BreaksAreFaults
  <2> SUFFICES ASSUME TypeOK, LinkInv
               PROVE  BreaksAreFaults
    OBVIOUS
  <2>1. Cardinality(BrokenLinks) \in Nat /\ faults \in Nat
    BY BreaksAreFinite DEF TypeOK, ControlOK
  <2>2. CASE \A p \in Emitter : pc[p] # "log"
    BY <2>1, <2>2, BreakFacts DEF LinkInv, BreaksAreFaults
  <2>3. ASSUME NEW p \in Emitter, pc[p] = "log"
        PROVE  BreaksAreFaults
    <3>1. Cardinality(BrokenLinks) + Break(prev[current[p]] # LogTip)
            + Break(Tip # current[p]) <= faults
      BY <2>3 DEF LinkInv
    <3> QED
      BY <2>1, <3>1, BreakFacts DEF BreaksAreFaults
  <2> QED
    BY <2>2, <2>3
<1> QED
  BY <1>1, <1>2, <1>3, <1>4, IInvariance, PTL DEF Spec

=============================================================================
