-------------------------- MODULE ASHHealth_proofs --------------------------
(***************************************************************************)
(* Proofs about ASHHealth, for every number of attempts, events, lives and *)
(* faults, with PostgreSQL and without: the gauge of readiness shows what  *)
(* the endpoint answers, although a decision is published in a step of its *)
(* own and other threads and the signal handler run in between.            *)
(***************************************************************************)
EXTENDS ASHHealth, TLAPS

-----------------------------------------------------------------------------
(* The inductive invariant *)

Busy == FlushPc \cup RefreshPc
Resting == {"down", "sleep"}

\* No event is in memory before the loop runs, none that was not received.
BufferInv == /\ buffer <= received
             /\ pc["main"] \in Startup => buffer = 0

\* Nothing of the last process is left when there is none.
DownInv == ~Up => /\ buffer = 0
                  /\ pc["timer"] = "down"
                  /\ handler = "none"
                  /\ ~stopping

\* One thread at a time flushes and refreshes: the one that has the lock,
\* or the main thread of a process that has not received anything.
MutexInv ==
  /\ \A t \in Thread : pc[t] \in FlushPc => lock = t /\ then[t] \notin Startup
  /\ \A t \in Thread : pc[t] \in RefreshPc =>
        \/ lock = t /\ then[t] \notin Startup
        \/ /\ t = "main" /\ then["main"] \in Startup
           /\ buffer = 0 /\ pc["timer"] \in Resting
  /\ pc["main"] \in Startup => pc["timer"] \in Resting
  /\ \A t \in Thread : then[t] \in Startup => t = "main"

\* The signal handler is what ends running; it says so before.
SignalInv == /\ ~stopping => handler \in {"none", "stop"}
             /\ Up /\ ~stopping => running

\* What a thread has decided is still true when it publishes it.
DecisionInv == \A t \in Thread :
  pc[t] = "publish" /\ ~stopping => decision[t] = Bit(IsReady)

\* With all threads at rest the gauge is right.
RestInv ==
  (/\ pc["main"] \in Published \cup {"cleanup"}
   /\ pc["timer"] \in Resting
   /\ ~stopping) => readyGauge = Bit(IsReady)

ControlInv == BufferInv /\ DownInv /\ MutexInv /\ SignalInv

IInv == TypeOK /\ ControlInv /\ DecisionInv /\ RestInv

-----------------------------------------------------------------------------
(* Types *)

Places == {"down", "sleep", "run", "cleanup", "close"}
            \cup Startup \cup FlushPc \cup RefreshPc

LEMMA GotoType ==
  ASSUME TypeOK, NEW t \in Thread, NEW place \in Places, Goto(t, place)
  PROVE  /\ pc' \in [Thread -> Places]
         /\ \A u \in Thread : pc'[u] = IF u = t THEN place ELSE pc[u]
  BY DEF TypeOK, Goto, Places

LEMMA FaultFacts ==
  ASSUME TypeOK, NEW kind, Fault(kind)
  PROVE  faults' \in 0 .. MaxFaults /\ received' = received /\ lives' = lives
  BY HealthAssumption DEF TypeOK, Fault

LEMMA TypeInit == Init => TypeOK
<1> SUFFICES ASSUME Init PROVE TypeOK
  OBVIOUS
<1>1. /\ buffer \in 0 .. MaxEvents /\ received \in 0 .. MaxEvents
      /\ lives \in 0 .. MaxLives /\ faults \in 0 .. MaxFaults
  BY HealthAssumption DEF Init, Fresh
<1>2. /\ pc \in [Thread -> Places] /\ attempt \in [Thread -> Nat \ {0}]
      /\ decision \in [Thread -> {0, 1}]
      /\ then \in [Thread -> {"sleep", "run", "close"} \cup Startup]
  BY DEF Init, Fresh, Places
<1>3. {running, stopping, flushError, listening, armed, dbUp} \subseteq BOOLEAN
  BY DEF Init, Fresh
<1>4. /\ handler = "none" /\ handlerDecision = 0 /\ lock = Nobody /\ conn = "none"
      /\ dbGauge = 0 /\ readyGauge = 0 /\ notified = "nothing"
  BY DEF Init, Fresh
<1> QED
  BY <1>1, <1>2, <1>3, <1>4 DEF TypeOK, Places

LEMMA GoneTypes ==
  ASSUME HealthAssumption, TypeOK, Gone, dbUp' = dbUp, received' = received, lives' = lives,
         faults' \in 0 .. MaxFaults
  PROVE  TypeOK'
<1>1. buffer' \in 0 .. MaxEvents
  BY DEF Gone, HealthAssumption
<1>2. pc' \in [Thread -> Places]
  BY DEF Gone, Places
<1>3. /\ attempt' \in [Thread -> Nat \ {0}] /\ decision' \in [Thread -> {0, 1}]
      /\ then' \in [Thread -> {"sleep", "run", "close"} \cup Startup]
  BY DEF Gone
<1>4. {running', stopping', flushError', listening', armed', dbUp'} \subseteq BOOLEAN
  BY DEF Gone, TypeOK
<1>5. /\ handler' = "none" /\ handlerDecision' = 0 /\ lock' = Nobody /\ conn' = "none"
      /\ dbGauge' = 0 /\ readyGauge' = 0 /\ notified' = "nothing"
  BY DEF Gone
<1>6. received' \in 0 .. MaxEvents /\ lives' \in 0 .. MaxLives
  BY DEF TypeOK
<1> QED
  BY <1>1, <1>2, <1>3, <1>4, <1>5, <1>6 DEF TypeOK, Places

LEMMA ConstructTypes ==
  ASSUME TypeOK, Start \/ Construct
  PROVE  TypeOK'
<1> USE DEF TypeOK, NoFault, boundVars, handlerVars, stateVars, serviceVars, dbVars
<1>1. CASE Start
  <2>1. lives' \in 0 .. MaxLives
    BY <1>1, HealthAssumption DEF Start
  <2>2. Goto("main", "database") \/ Goto("main", "kafka")
    BY <1>1 DEF Start
  <2>3. pc' \in [Thread -> Places]
    BY <2>2, GotoType DEF Thread, Places, Startup
  <2> QED
    BY <1>1, <2>1, <2>3 DEF Start, Places
<1>2. CASE SetupDatabase
  <2>1. attempt' \in [Thread -> Nat \ {0}] /\ then' \in [Thread -> {"sleep", "run", "close"} \cup Startup]
    BY <1>2 DEF SetupDatabase, Refresh, Startup
  <2>2. pc' \in [Thread -> Places]
    BY <1>2, GotoType DEF SetupDatabase, Refresh, Thread, Places, RefreshPc
  <2>3. dbGauge' \in {0, 1} /\ conn' \in {"none", "open", "dead"}
    BY <1>2 DEF SetupDatabase, Bit
  <2> QED
    BY <1>2, <2>1, <2>2, <2>3 DEF SetupDatabase, Places
<1>3. CASE SetupKafka
  <2>1. attempt' \in [Thread -> Nat \ {0}]
    BY <1>3 DEF SetupKafka, Thread
  <2>2. pc' \in [Thread -> Places]
    BY <1>3, GotoType DEF SetupKafka, Thread, Places, Startup
  <2> QED
    BY <1>3, <2>1, <2>2 DEF SetupKafka, Places
<1>4. CASE KafkaAbsent
  <2>1. faults' \in 0 .. MaxFaults /\ received' = received /\ lives' = lives /\ dbUp' = dbUp
    BY <1>4, FaultFacts DEF KafkaAbsent
  <2>2. CASE Gone
    BY <2>1, <2>2, GoneTypes, HealthAssumption
  <2>3. CASE ~Gone
    <3>0. attempt' = [attempt EXCEPT !["main"] = @ + 1]
      BY <1>4, <2>3 DEF KafkaAbsent
    <3>1. attempt' \in [Thread -> Nat \ {0}]
      BY <3>0 DEF Thread
    <3> QED
      BY <1>4, <2>1, <2>3, <3>1 DEF KafkaAbsent
  <2> QED
    BY <2>2, <2>3
<1>5. CASE Listen
  <2>1. pc' \in [Thread -> Places]
    BY <1>5, GotoType DEF Listen, Thread, Places, Startup
  <2>2. /\ faults' \in 0 .. MaxFaults /\ received' = received /\ lives' = lives
        /\ listening' \in BOOLEAN
    BY <1>5, FaultFacts DEF Listen
  <2> QED
    BY <1>5, <2>1, <2>2 DEF Listen, Places
<1>6. CASE Arm
  <2>1. pc' \in [Thread -> Places]
    BY <1>6 DEF Arm, Places, RefreshPc
  <2>2. then' \in [Thread -> {"sleep", "run", "close"} \cup Startup]
    BY <1>6 DEF Arm, Startup
  <2> QED
    BY <1>6, <2>1, <2>2 DEF Arm, Places
<1>7. CASE Notify
  <2>1. pc' \in [Thread -> Places]
    BY <1>7, GotoType DEF Notify, Thread, Places
  <2> QED
    BY <1>7, <2>1 DEF Notify, Places
<1> QED
  BY <1>1, <1>2, <1>3, <1>4, <1>5, <1>6, <1>7 DEF Construct

LEMMA AttemptTypes ==
  ASSUME TypeOK, NEW t \in Thread, NextAttempt(t)
  PROVE  attempt' \in [Thread -> Nat \ {0}] /\ pc' \in [Thread -> Places]
<1>1. attempt' \in [Thread -> Nat \ {0}]
  BY DEF TypeOK, NextAttempt
<1>2. pc' \in [Thread -> Places]
  BY GotoType DEF TypeOK, NextAttempt, Places, FlushPc
<1> QED
  BY <1>1, <1>2

LEMMA ThreadTypes ==
  ASSUME TypeOK, NEW t \in Thread, ThreadStep(t)
  PROVE  TypeOK'
<1> USE DEF TypeOK, NoFault, InFlush, boundVars, handlerVars, stateVars, serviceVars, dbVars
<1>1. CASE Decide(t)
  <2>1. pc' \in [Thread -> Places]
    BY <1>1, GotoType DEF Decide, Places, RefreshPc
  <2>2. decision' \in [Thread -> {0, 1}]
    BY <1>1 DEF Decide, Bit
  <2> QED
    BY <1>1, <2>1, <2>2 DEF Decide, Places
<1>2. CASE Publish(t)
  <2>1. After(t) \in Places
    BY DEF After, Places, Thread
  <2>2. pc' \in [Thread -> Places]
    BY <1>2, <2>1, GotoType DEF Publish
  <2>3. readyGauge' \in {0, 1} /\ lock' \in Thread \cup {Nobody}
    BY <1>2 DEF Publish
  <2> QED
    BY <1>2, <2>2, <2>3 DEF Publish, Places
<1>3. CASE Write(t)
  <2>1. pc' \in [Thread -> Places]
    BY <1>3, GotoType DEF Write, Places, FlushPc
  <2>2. attempt' \in [Thread -> Nat \ {0}] /\ dbGauge' \in {0, 1}
    BY <1>3 DEF Write, Bit
  <2> QED
    BY <1>3, <2>1, <2>2 DEF Write, Places
<1>4. CASE WriteInterrupted(t)
  <2>1. conn' \in {"none", "open", "dead"} /\ dbGauge' \in {0, 1}
    BY <1>4 DEF WriteInterrupted
  <2> QED
    BY <1>4, <2>1, AttemptTypes DEF WriteInterrupted, Places
<1>5. CASE WriteConnects(t)
  <2>1. conn' \in {"none", "open", "dead"} /\ dbGauge' \in {0, 1}
    BY <1>5 DEF WriteConnects
  <2>2. attempt' \in [Thread -> Nat \ {0}] /\ pc' \in [Thread -> Places]
    BY <1>5, AttemptTypes DEF WriteConnects, Places
  <2> QED
    BY <1>5, <2>1, <2>2 DEF WriteConnects, Places
<1>6. CASE WriteFile(t)
  <2>1. pc' \in [Thread -> Places]
    BY <1>6, GotoType DEF WriteFile, Places, FlushPc
  <2>2. faults' \in 0 .. MaxFaults /\ received' = received /\ lives' = lives
    BY <1>6, FaultFacts DEF WriteFile
  <2> QED
    BY <1>6, <2>1, <2>2 DEF WriteFile, Places
<1>7. CASE Succeeded(t)
  <2>1. pc' \in [Thread -> Places]
    BY <1>7, GotoType DEF Succeeded, PublishSuccess, Refresh, Places, RefreshPc
  <2>2. then' \in [Thread -> {"sleep", "run", "close"} \cup Startup]
    BY <1>7 DEF Succeeded, PublishSuccess, Refresh
  <2>3. buffer' \in 0 .. MaxEvents
    BY <1>7, HealthAssumption DEF Succeeded, HealthAssumption
  <2> QED
    BY <1>7, <2>1, <2>2, <2>3 DEF Succeeded, Places
<1>8. CASE Failed(t)
  <2>1. pc' \in [Thread -> Places]
    BY <1>8, GotoType DEF Failed, Refresh, Places, RefreshPc
  <2>2. then' \in [Thread -> {"sleep", "run", "close"} \cup Startup]
    BY <1>8 DEF Failed, Refresh
  <2> QED
    BY <1>8, <2>1, <2>2 DEF Failed, PutBack, Places
<1> QED
  BY <1>1, <1>2, <1>3, <1>4, <1>5, <1>6, <1>7, <1>8 DEF ThreadStep

LEMMA LoopTypes ==
  ASSUME TypeOK, BufferInv, Message \/ LoopFails \/ TimerFlush \/ TimerEnds \/ Cleanup
  PROVE  TypeOK'
<1> USE DEF TypeOK, NoFault, boundVars, handlerVars, stateVars, serviceVars, dbVars
<1>1. CASE Message
  <2>1. /\ received' \in 0 .. MaxEvents /\ buffer' \in 0 .. MaxEvents
    BY <1>1, HealthAssumption DEF Message, BufferInv, HealthAssumption
  <2>2. pc' \in [Thread -> Places]
    BY <1>1, GotoType DEF Message, Places, FlushPc, Thread
  <2>3. then' \in [Thread -> {"sleep", "run", "close"} \cup Startup]
    BY <1>1 DEF Message
  <2>4. lock' \in Thread \cup {Nobody}
    BY <1>1 DEF Message, Thread
  <2> QED
    BY <1>1, <2>1, <2>2, <2>3, <2>4 DEF Message, Places
<1>2. CASE LoopFails
  <2>1. pc' \in [Thread -> Places]
    BY <1>2, GotoType DEF LoopFails, Places, Thread
  <2>2. faults' \in 0 .. MaxFaults /\ received' = received /\ lives' = lives
    BY <1>2, FaultFacts DEF LoopFails
  <2> QED
    BY <1>2, <2>1, <2>2 DEF LoopFails, Places
<1>3. CASE TimerFlush
  <2>1. pc' \in [Thread -> Places]
    BY <1>3, GotoType DEF TimerFlush, Places, FlushPc, Thread
  <2>2. /\ then' \in [Thread -> {"sleep", "run", "close"} \cup Startup]
        /\ lock' \in Thread \cup {Nobody}
    BY <1>3 DEF TimerFlush, Thread
  <2> QED
    BY <1>3, <2>1, <2>2 DEF TimerFlush, Places
<1>4. CASE TimerEnds
  <2>1. pc' \in [Thread -> Places]
    BY <1>4, GotoType DEF TimerEnds, Places, Thread
  <2> QED
    BY <1>4, <2>1 DEF TimerEnds, Places
<1>5. CASE Cleanup
  <2>1. pc' \in [Thread -> Places]
    BY <1>5, GotoType DEF Cleanup, Places, FlushPc, Thread
  <2>2. /\ then' \in [Thread -> {"sleep", "run", "close"} \cup Startup]
        /\ lock' \in Thread \cup {Nobody}
    BY <1>5 DEF Cleanup, Thread
  <2> QED
    BY <1>5, <2>1, <2>2 DEF Cleanup, Places
<1> QED
  BY <1>1, <1>2, <1>3, <1>4, <1>5

LEMMA EndTypes ==
  ASSUME TypeOK, Close \/ Signal \/ Handler \/ DatabaseGoes \/ DatabaseReturns
  PROVE  TypeOK'
<1> USE DEF NoFault, boundVars, threadVars, handlerVars, stateVars, serviceVars, dbVars
<1>1. CASE Close
  <2>1. faults' \in 0 .. MaxFaults
    BY <1>1 DEF Close, TypeOK
  <2> QED
    BY <1>1, <2>1, GoneTypes, HealthAssumption DEF Close
<1>2. CASE Signal
  <2>1. faults' \in 0 .. MaxFaults /\ received' = received /\ lives' = lives /\ dbUp' = dbUp
    BY <1>2, FaultFacts DEF Signal
  <2>2. CASE Gone
    BY <2>1, <2>2, GoneTypes, HealthAssumption
  <2>3. CASE ~Gone
    BY <1>2, <2>1, <2>3 DEF Signal, TypeOK
  <2> QED
    BY <2>2, <2>3
<1>3. CASE Handler
  BY <1>3 DEF Handler, HandlerStops, HandlerDecides, HandlerPublishes, HandlerNotifies,
       HandlerStep, TypeOK, Bit
<1>4. CASE DatabaseGoes
  <2>1. faults' \in 0 .. MaxFaults /\ received' = received /\ lives' = lives
    BY <1>4, FaultFacts DEF DatabaseGoes
  <2> QED
    BY <1>4, <2>1 DEF DatabaseGoes, TypeOK
<1>5. CASE DatabaseReturns
  BY <1>5 DEF DatabaseReturns, TypeOK
<1> QED
  BY <1>1, <1>2, <1>3, <1>4, <1>5

LEMMA TypeStep ==
  ASSUME TypeOK, BufferInv, [Next]_vars
  PROVE  TypeOK'
<1>1. CASE UNCHANGED vars
  BY <1>1 DEF TypeOK, vars, threadVars, handlerVars, stateVars, serviceVars, dbVars, boundVars
<1>2. CASE Next
  BY <1>2, ConstructTypes, ThreadTypes, LoopTypes, EndTypes DEF Next
<1> QED
  BY <1>1, <1>2

-----------------------------------------------------------------------------
(* One thread at a time *)

LEMMA ThreadNames == "main" \in Thread /\ "timer" \in Thread
                     /\ \A t \in Thread : t = "main" \/ t = "timer"
  BY DEF Thread

LEMMA GoneControl ==
  ASSUME Gone, TypeOK, UNCHANGED received
  PROVE  ControlInv'
<1>1. /\ \A t \in Thread : pc'[t] = "down" /\ then'[t] = "sleep"
      /\ buffer' = 0 /\ stopping' = FALSE /\ handler' = "none" /\ received \in Nat
  BY DEF Gone, TypeOK
<1> QED
  BY <1>1, ThreadNames DEF ControlInv, BufferInv, DownInv, MutexInv, SignalInv, Up,
       Startup, FlushPc, RefreshPc, Resting

LEMMA ConstructControl ==
  ASSUME TypeOK, ControlInv, Start \/ Construct
  PROVE  ControlInv'
<1> USE ThreadNames DEF NoFault, boundVars, handlerVars, stateVars, serviceVars,
      dbVars, Up, At, CanStep, Startup, FlushPc, RefreshPc, Resting
<1>0. BufferInv /\ DownInv /\ MutexInv /\ SignalInv /\ buffer \in Nat /\ received \in Nat
  BY DEF ControlInv, TypeOK
<1>1. CASE Start
  <2>1. PICK place \in {"database", "kafka"} : Goto("main", place)
    BY <1>1 DEF Start
  <2>2. pc'["main"] \in {"database", "kafka"} /\ pc'["timer"] = pc["timer"]
    BY <2>1, GotoType DEF Places
  <2>3. /\ UNCHANGED <<then, lock, handler, stopping, buffer, received>>
        /\ ~Up /\ running' = TRUE
    BY <1>1 DEF Start
  <2> QED
    BY <1>0, <2>2, <2>3 DEF ControlInv, BufferInv, DownInv, MutexInv, SignalInv
<1>2. CASE SetupDatabase
  <2>1. PICK place \in {"database", "kafka"} : Refresh("main", place)
    BY <1>2 DEF SetupDatabase
  <2>2. /\ pc'["main"] = "decide" /\ pc'["timer"] = pc["timer"]
        /\ then'["main"] = place /\ then'["timer"] = then["timer"]
    BY <2>1, GotoType DEF Places, Refresh, TypeOK
  <2>3. /\ UNCHANGED <<lock, handler, stopping, running, buffer, received>>
        /\ pc["main"] = "database"
    BY <1>2 DEF SetupDatabase
  <2> QED
    BY <1>0, <2>2, <2>3 DEF ControlInv, BufferInv, DownInv, MutexInv, SignalInv
<1>3. CASE SetupKafka
  <2>1. pc'["main"] = "listen" /\ pc'["timer"] = pc["timer"] /\ pc["main"] = "kafka"
    BY <1>3, GotoType DEF SetupKafka, Places
  <2>2. UNCHANGED <<then, lock, handler, stopping, running, buffer, received>>
    BY <1>3 DEF SetupKafka
  <2> QED
    BY <1>0, <2>1, <2>2 DEF ControlInv, BufferInv, DownInv, MutexInv, SignalInv
<1>4. CASE KafkaAbsent
  <2>1. received' = received
    BY <1>4, FaultFacts DEF KafkaAbsent
  <2>2. CASE Gone
    BY <2>1, <2>2, GoneControl
  <2>3. CASE ~Gone
    <3>1. UNCHANGED <<pc, then, lock, handler, stopping, running, buffer, received>>
      BY <1>4, <2>1, <2>3 DEF KafkaAbsent
    <3> QED
      BY <1>0, <3>1 DEF ControlInv, BufferInv, DownInv, MutexInv, SignalInv
  <2> QED
    BY <2>2, <2>3
<1>5. CASE Listen
  <2>1. pc'["main"] = "arm" /\ pc'["timer"] = pc["timer"] /\ pc["main"] = "listen"
    BY <1>5, GotoType DEF Listen, Places
  <2>2. UNCHANGED <<then, lock, handler, stopping, running, buffer, received>>
    BY <1>5, FaultFacts DEF Listen
  <2> QED
    BY <1>0, <2>1, <2>2 DEF ControlInv, BufferInv, DownInv, MutexInv, SignalInv
<1>6. CASE Arm
  <2>1. /\ pc'["main"] = "decide" /\ pc'["timer"] = "sleep" /\ pc["main"] = "arm"
        /\ then'["main"] = "notify" /\ then'["timer"] = then["timer"]
    BY <1>6 DEF Arm, TypeOK
  <2>2. UNCHANGED <<lock, handler, stopping, running, buffer, received>>
    BY <1>6 DEF Arm
  <2> QED
    BY <1>0, <2>1, <2>2 DEF ControlInv, BufferInv, DownInv, MutexInv, SignalInv
<1>7. CASE Notify
  <2>1. pc'["main"] = "run" /\ pc'["timer"] = pc["timer"] /\ pc["main"] = "notify"
    BY <1>7, GotoType DEF Notify, Places
  <2>2. UNCHANGED <<then, lock, handler, stopping, running, buffer, received>>
    BY <1>7 DEF Notify
  <2> QED
    BY <1>0, <2>1, <2>2 DEF ControlInv, BufferInv, DownInv, MutexInv, SignalInv
<1> QED
  BY <1>1, <1>2, <1>3, <1>4, <1>5, <1>6, <1>7 DEF Construct

\* A step of a thread that stays in its flush, or goes on to refresh.
LEMMA FlushControl ==
  ASSUME TypeOK, ControlInv, NEW t \in Thread, pc[t] \in FlushPc,
         NEW place \in FlushPc \cup RefreshPc,
         Goto(t, place) \/ pc' = pc, \A u \in Thread : then'[u] = then[u],
         UNCHANGED <<lock, handler, running, stopping, received>>, buffer' \in {0, buffer}
  PROVE  ControlInv'
<1>1. \A u \in Thread : (pc'[u] \in FlushPc \cup RefreshPc /\ u = t) \/ pc'[u] = pc[u]
  BY GotoType DEF Places
<1>2. BufferInv /\ DownInv /\ MutexInv /\ SignalInv /\ buffer \in Nat /\ received \in Nat
  BY DEF ControlInv, TypeOK
<1>3. lock = t /\ then[t] \notin Startup
  BY <1>2 DEF MutexInv
<1>4. BufferInv' /\ DownInv' /\ SignalInv'
  BY <1>1, <1>2, ThreadNames DEF BufferInv, DownInv, SignalInv, Up, Startup, FlushPc, RefreshPc
<1>5. MutexInv'
  BY <1>1, <1>2, <1>3, ThreadNames DEF MutexInv, Startup, FlushPc, RefreshPc, Resting
<1> QED
  BY <1>4, <1>5 DEF ControlInv

LEMMA NextAttemptGoes ==
  ASSUME NEW t \in Thread, NextAttempt(t)
  PROVE  Goto(t, "failed") \/ pc' = pc
  BY DEF NextAttempt

LEMMA RefreshThen ==
  ASSUME TypeOK, NEW t \in Thread, Refresh(t, then[t])
  PROVE  Goto(t, "decide") /\ \A u \in Thread : then'[u] = then[u]
  BY DEF Refresh, TypeOK

LEMMA ThreadControl ==
  ASSUME TypeOK, ControlInv, NEW t \in Thread, ThreadStep(t)
  PROVE  ControlInv'
<1> USE DEF NoFault, InFlush, boundVars, handlerVars, stateVars, serviceVars, dbVars, At
<1>0. BufferInv /\ DownInv /\ MutexInv /\ SignalInv /\ buffer \in Nat /\ received \in Nat
  BY DEF ControlInv, TypeOK
<1>1. CASE Decide(t)
  <2>1. /\ pc[t] = "decide"
        /\ \A u \in Thread : pc'[u] = IF u = t THEN "publish" ELSE pc[u]
    BY <1>1, GotoType DEF Decide, Places, RefreshPc
  <2>2. UNCHANGED <<then, lock, handler, stopping, running, buffer, received>>
    BY <1>1 DEF Decide
  <2> QED
    BY <1>0, <2>1, <2>2, ThreadNames DEF ControlInv, BufferInv, DownInv, MutexInv, SignalInv,
       Up, Startup, FlushPc, RefreshPc, Resting
<1>2. CASE Publish(t)
  <2>1. /\ pc[t] = "publish" /\ After(t) \in Places
        /\ \A u \in Thread : pc'[u] = IF u = t THEN After(t) ELSE pc[u]
    <3>1. After(t) \in Places
      BY DEF After, Places, TypeOK
    <3> QED
      BY <1>2, <3>1, GotoType DEF Publish
  <2>2. UNCHANGED <<then, handler, stopping, running, buffer, received>>
    BY <1>2 DEF Publish
  <2>3. lock' = lock \/ lock = t
    BY <1>2 DEF Publish
  <2>4. then[t] \in {"sleep", "run", "close"} \cup Startup
    BY DEF TypeOK
  <2>5. CASE t = "main"
    BY <1>0, <2>1, <2>2, <2>3, <2>4, <2>5, ThreadNames DEF ControlInv, BufferInv, DownInv,
       MutexInv, SignalInv, After, Up, Startup, FlushPc, RefreshPc, Resting
  <2>6. CASE t = "timer"
    BY <1>0, <2>1, <2>2, <2>3, <2>4, <2>6, ThreadNames DEF ControlInv, BufferInv, DownInv,
       MutexInv, SignalInv, After, Up, Startup, FlushPc, RefreshPc, Resting
  <2> QED
    BY <2>5, <2>6, ThreadNames
<1>3. CASE Write(t)
  BY <1>3, FlushControl DEF Write, FlushPc
<1>4. CASE WriteInterrupted(t)
  <2>1. Goto(t, "failed") \/ pc' = pc
    BY <1>4, NextAttemptGoes DEF WriteInterrupted
  <2> QED
    BY <1>4, <2>1, FlushControl DEF WriteInterrupted, FlushPc
<1>5. CASE WriteConnects(t)
  <2>1. Goto(t, "failed") \/ pc' = pc
    BY <1>5, NextAttemptGoes DEF WriteConnects
  <2> QED
    BY <1>5, <2>1, FlushControl DEF WriteConnects, FlushPc
<1>6. CASE WriteFile(t)
  <2>1. received' = received
    BY <1>6, FaultFacts DEF WriteFile
  <2>2. Goto(t, "succeeded") \/ Goto(t, "failed")
    BY <1>6 DEF WriteFile
  <2> QED
    BY <1>6, <2>1, <2>2, FlushControl DEF WriteFile, FlushPc
<1>7. CASE Succeeded(t)
  <2>1. Goto(t, "decide") /\ \A u \in Thread : then'[u] = then[u]
    BY <1>7, RefreshThen DEF Succeeded, PublishSuccess
  <2> QED
    BY <1>7, <2>1, FlushControl DEF Succeeded, FlushPc, RefreshPc
<1>8. CASE Failed(t)
  <2>1. Goto(t, "decide") /\ \A u \in Thread : then'[u] = then[u]
    BY <1>8, RefreshThen DEF Failed
  <2> QED
    BY <1>8, <2>1, FlushControl DEF Failed, PutBack, FlushPc, RefreshPc
<1> QED
  BY <1>1, <1>2, <1>3, <1>4, <1>5, <1>6, <1>7, <1>8 DEF ThreadStep

LEMMA LoopControl ==
  ASSUME TypeOK, ControlInv, Message \/ LoopFails \/ TimerFlush \/ TimerEnds \/ Cleanup
  PROVE  ControlInv'
<1> USE ThreadNames DEF NoFault, boundVars, handlerVars, stateVars, serviceVars, dbVars,
      At, CanStep, Up, Startup, FlushPc, RefreshPc, Resting
<1>0. BufferInv /\ DownInv /\ MutexInv /\ SignalInv /\ buffer \in Nat /\ received \in Nat
  BY DEF ControlInv, TypeOK
<1>1. CASE Message
  <2>1. /\ pc["main"] = "run" /\ pc'["timer"] = pc["timer"]
        /\ then'["main"] = "run" /\ then'["timer"] = then["timer"]
        /\ UNCHANGED <<handler, stopping, running>>
        /\ received' = received + 1
    BY <1>1, GotoType DEF Message, Places, TypeOK
  <2>2. \/ pc'["main"] \in {"run", "cleanup"} /\ lock' = lock
        \/ pc'["main"] = "write" /\ lock = Nobody /\ lock' = "main"
    BY <1>1, GotoType DEF Message, Places
  <2>3. buffer' = buffer \/ buffer' = buffer + 1
    BY <1>1 DEF Message
  <2>4. BufferInv' /\ DownInv' /\ SignalInv'
    BY <1>0, <2>1, <2>2, <2>3 DEF BufferInv, DownInv, SignalInv
  <2>5. MutexInv'
    BY <1>0, <2>1, <2>2 DEF MutexInv, Nobody
  <2> QED
    BY <2>4, <2>5 DEF ControlInv
<1>2. CASE LoopFails
  <2>1. /\ pc["main"] = "run" /\ pc'["timer"] = pc["timer"] /\ pc'["main"] = "cleanup"
        /\ UNCHANGED <<then, lock, handler, stopping, running, buffer, received>>
    BY <1>2, GotoType, FaultFacts DEF LoopFails, Places
  <2> QED
    BY <1>0, <2>1 DEF ControlInv, BufferInv, DownInv, MutexInv, SignalInv
<1>3. CASE TimerFlush
  <2>1. /\ pc["timer"] = "sleep" /\ pc'["timer"] = "write" /\ pc'["main"] = pc["main"]
        /\ then'["main"] = then["main"] /\ then'["timer"] = "sleep"
        /\ lock = Nobody /\ lock' = "timer" /\ buffer > 0
        /\ UNCHANGED <<handler, stopping, running, buffer, received>>
    BY <1>3, GotoType DEF TimerFlush, Places, TypeOK
  <2> QED
    BY <1>0, <2>1 DEF ControlInv, BufferInv, DownInv, MutexInv, SignalInv, Nobody
<1>4. CASE TimerEnds
  <2>1. /\ pc["timer"] = "sleep" /\ pc'["timer"] = "down" /\ pc'["main"] = pc["main"]
        /\ UNCHANGED <<then, lock, handler, stopping, running, buffer, received>>
    BY <1>4, GotoType DEF TimerEnds, Places
  <2> QED
    BY <1>0, <2>1 DEF ControlInv, BufferInv, DownInv, MutexInv, SignalInv
<1>5. CASE Cleanup
  <2>1. /\ pc["main"] = "cleanup" /\ pc'["timer"] = pc["timer"] /\ then'["timer"] = then["timer"]
        /\ UNCHANGED <<handler, stopping, running, buffer, received>>
    BY <1>5, GotoType DEF Cleanup, Places, TypeOK
  <2>2. \/ pc'["main"] = "close" /\ lock' = lock /\ then' = then
        \/ /\ pc'["main"] = "write" /\ lock = Nobody /\ lock' = "main"
           /\ then'["main"] = "close"
    BY <1>5, GotoType DEF Cleanup, Places, TypeOK
  <2> QED
    BY <1>0, <2>1, <2>2 DEF ControlInv, BufferInv, DownInv, MutexInv, SignalInv, Nobody
<1> QED
  BY <1>1, <1>2, <1>3, <1>4, <1>5

LEMMA EndControl ==
  ASSUME TypeOK, ControlInv,
         Close \/ Signal \/ Handler \/ DatabaseGoes \/ DatabaseReturns \/ UNCHANGED vars
  PROVE  ControlInv'
<1> USE DEF NoFault, boundVars, threadVars, handlerVars, stateVars, serviceVars, dbVars
<1>0. BufferInv /\ DownInv /\ MutexInv /\ SignalInv
  BY DEF ControlInv
<1>1. CASE Close
  BY <1>1, GoneControl DEF Close
<1>2. CASE Signal
  <2>1. received' = received
    BY <1>2, FaultFacts DEF Signal
  <2>2. CASE Gone
    BY <2>1, <2>2, GoneControl
  <2>3. CASE ~Gone
    <3>1. Up /\ handler' = "stop" /\ UNCHANGED <<pc, then, lock, stopping, running, buffer>>
      BY <1>2, <2>3 DEF Signal
    <3> QED
      BY <1>0, <2>1, <3>1 DEF ControlInv, BufferInv, DownInv, MutexInv, SignalInv, Up
  <2> QED
    BY <2>2, <2>3
<1>3. CASE Handler
  <2>1. UNCHANGED <<pc, then, lock, buffer, received>>
    BY <1>3 DEF Handler, HandlerStops, HandlerDecides, HandlerPublishes, HandlerNotifies, HandlerStep
  <2>2. \/ stopping' = TRUE /\ handler = "stop"
        \/ stopping' = stopping /\ handler \in {"decide", "publish", "notify"}
    BY <1>3 DEF Handler, HandlerStops, HandlerDecides, HandlerPublishes, HandlerNotifies, HandlerStep
  <2>3. Up /\ Up'
    BY <1>0, <2>1, <2>2 DEF DownInv, Up
  <2>4. BufferInv' /\ MutexInv'
    BY <1>0, <2>1 DEF BufferInv, MutexInv
  <2>5. SignalInv'
    BY <1>0, <2>2, <2>3 DEF SignalInv
  <2> QED
    BY <2>3, <2>4, <2>5 DEF ControlInv, DownInv
<1>4. CASE DatabaseGoes
  <2>1. UNCHANGED <<pc, then, lock, handler, stopping, running, buffer, received>>
    BY <1>4, FaultFacts DEF DatabaseGoes
  <2> QED
    BY <1>0, <2>1 DEF ControlInv, BufferInv, DownInv, MutexInv, SignalInv, Up
<1>5. CASE DatabaseReturns \/ UNCHANGED vars
  <2>1. UNCHANGED <<pc, then, lock, handler, stopping, running, buffer, received>>
    BY <1>5 DEF DatabaseReturns, vars
  <2> QED
    BY <1>0, <2>1 DEF ControlInv, BufferInv, DownInv, MutexInv, SignalInv, Up
<1> QED
  BY <1>1, <1>2, <1>3, <1>4, <1>5

LEMMA ControlStep ==
  ASSUME TypeOK, ControlInv, [Next]_vars
  PROVE  ControlInv'
  BY ConstructControl, ThreadControl, LoopControl, EndControl DEF Next

-----------------------------------------------------------------------------
(* Decisions and the gauge *)

GaugeInv == DecisionInv /\ RestInv
Rests == pc["main"] \in Published \cup {"cleanup"} /\ pc["timer"] \in Resting

\* Nothing that readiness depends on changes, no decision and no gauge; no
\* thread comes to publish, and none comes to rest.
LEMMA QuietStep ==
  ASSUME GaugeInv,
         UNCHANGED <<running, flushError, dbGauge, stopping, decision, readyGauge>>,
         \A t \in Thread : pc'[t] = "publish" => pc[t] = "publish",
         Rests' => Rests
  PROVE  GaugeInv'
<1>1. Bit(IsReady)' = Bit(IsReady)
  BY DEF Bit, IsReady
<1> QED
  BY <1>1 DEF GaugeInv, DecisionInv, RestInv, Rests

\* A step after which no thread is about to publish, and one is not at rest.
LEMMA BusyStep ==
  ASSUME ~Rests', \A t \in Thread : pc'[t] # "publish"
  PROVE  GaugeInv'
  BY DEF GaugeInv, DecisionInv, RestInv, Rests

LEMMA PublishedPlaces ==
  Published \cup {"cleanup"} \subseteq {"kafka", "listen", "arm", "notify", "run", "close", "cleanup"}
  BY DEF Published

LEMMA GoneGauge ==
  ASSUME Gone
  PROVE  GaugeInv'
<1>1. \A t \in Thread : pc'[t] = "down"
  BY DEF Gone
<1> QED
  BY <1>1, BusyStep, PublishedPlaces, ThreadNames DEF Rests

LEMMA ConstructGauge ==
  ASSUME TypeOK, ControlInv, GaugeInv, Start \/ Construct
  PROVE  GaugeInv'
<1> USE ThreadNames DEF NoFault, boundVars, handlerVars, stateVars, serviceVars,
      dbVars, Up, At, CanStep
<1>0. DownInv /\ MutexInv
  BY DEF ControlInv
<1>1. CASE Start
  <2>1. /\ pc'["main"] = IF DatabaseEnabled THEN "database" ELSE "kafka"
        /\ pc'["timer"] = pc["timer"]
    BY <1>1, GotoType DEF Start, Places, Startup
  <2>2. pc["timer"] = "down"
    BY <1>0, <1>1 DEF Start, DownInv
  <2> QED
    BY <2>1, <2>2, BusyStep DEF Rests, Published
<1>2. CASE SetupDatabase
  <2>1. Goto("main", "decide") /\ pc["main"] = "database"
    BY <1>2 DEF SetupDatabase, Refresh
  <2>2. pc'["main"] = "decide" /\ pc'["timer"] = pc["timer"]
    BY <2>1, GotoType DEF Places, RefreshPc
  <2>3. pc["timer"] \in Resting
    BY <1>0, <2>1 DEF MutexInv, Startup
  <2> QED
    BY <2>2, <2>3, BusyStep, PublishedPlaces DEF Rests, Resting
<1>3. CASE SetupKafka
  <2>1. pc'["main"] = "listen" /\ pc'["timer"] = pc["timer"] /\ pc["main"] = "kafka"
    BY <1>3, GotoType DEF SetupKafka, Places, Startup
  <2>2. Rests' => Rests
    BY <2>1 DEF Rests, Published
  <2> QED
    BY <1>3, <2>1, <2>2, QuietStep DEF SetupKafka
<1>4. CASE KafkaAbsent
  <2>1. CASE ~Gone
    <3>1. UNCHANGED <<pc, running, flushError, dbGauge, stopping, decision, readyGauge>>
      BY <1>4, <2>1 DEF KafkaAbsent
    <3> QED
      BY <3>1, QuietStep DEF Rests
  <2> QED
    BY <2>1, GoneGauge
<1>5. CASE Listen
  <2>1. pc'["main"] = "arm" /\ pc'["timer"] = pc["timer"] /\ pc["main"] = "listen"
    BY <1>5, GotoType DEF Listen, Places, Startup
  <2>2. Rests' => Rests
    BY <2>1 DEF Rests, Published
  <2> QED
    BY <1>5, <2>1, <2>2, QuietStep DEF Listen
<1>6. CASE Arm
  <2>1. pc'["main"] = "decide" /\ pc'["timer"] = "sleep"
    BY <1>6 DEF Arm
  <2> QED
    BY <2>1, BusyStep, PublishedPlaces DEF Rests
<1>7. CASE Notify
  <2>1. pc'["main"] = "run" /\ pc'["timer"] = pc["timer"] /\ pc["main"] = "notify"
    BY <1>7, GotoType DEF Notify, Places
  <2>2. Rests' => Rests
    BY <2>1 DEF Rests, Published
  <2> QED
    BY <1>7, <2>1, <2>2, QuietStep DEF Notify
<1> QED
  BY <1>1, <1>2, <1>3, <1>4, <1>5, <1>6, <1>7 DEF Construct

\* While a thread flushes the other one does not publish.
LEMMA FlushGauge ==
  ASSUME TypeOK, ControlInv, NEW t \in Thread, pc[t] \in FlushPc,
         NEW place \in FlushPc \cup {"decide"}, Goto(t, place) \/ pc' = pc
  PROVE  GaugeInv'
<1>1. /\ pc'[t] \in FlushPc \cup {"decide"}
      /\ \A u \in Thread : u # t => pc'[u] = pc[u]
  BY GotoType DEF Places, RefreshPc
<1>2. MutexInv
  BY DEF ControlInv
<1>3. \A u \in Thread : u # t => pc[u] # "publish"
  <2> SUFFICES ASSUME NEW u \in Thread, u # t, pc[u] = "publish" PROVE FALSE
    OBVIOUS
  <2>1. lock = t
    BY <1>2 DEF MutexInv
  <2>2. u = "main" /\ pc["timer"] \in Resting /\ t = "timer"
    BY <1>2, <2>1, ThreadNames DEF MutexInv, RefreshPc
  <2> QED
    BY <2>2 DEF Resting, FlushPc
<1>4. \A u \in Thread : pc'[u] # "publish"
  BY <1>1, <1>3 DEF FlushPc
<1>5. ~Rests'
  <2>1. CASE t = "main"
    BY <1>1, <2>1, PublishedPlaces DEF Rests, FlushPc
  <2>2. CASE t = "timer"
    BY <1>1, <2>2 DEF Rests, Resting, FlushPc
  <2> QED
    BY <2>1, <2>2, ThreadNames
<1> QED
  BY <1>4, <1>5, BusyStep

LEMMA ThreadGauge ==
  ASSUME TypeOK, ControlInv, GaugeInv, NEW t \in Thread, ThreadStep(t)
  PROVE  GaugeInv'
<1> USE DEF NoFault, InFlush, boundVars, handlerVars, stateVars, serviceVars, dbVars, At
<1>1. CASE Decide(t)
  <2>1. \A u \in Thread : pc'[u] = IF u = t THEN "publish" ELSE pc[u]
    BY <1>1, GotoType DEF Decide, Places, RefreshPc
  <2>2. decision'[t] = Bit(IsReady) /\ \A u \in Thread : u # t => decision'[u] = decision[u]
    BY <1>1 DEF Decide, TypeOK
  <2>3. Bit(IsReady)' = Bit(IsReady) /\ stopping' = stopping
    BY <1>1 DEF Decide, Bit, IsReady
  <2>4. ~Rests'
    BY <2>1, ThreadNames, PublishedPlaces DEF Rests, Resting
  <2> QED
    BY <2>1, <2>2, <2>3, <2>4 DEF GaugeInv, DecisionInv, RestInv, Rests
<1>2. CASE Publish(t)
  <2>1. \A u \in Thread : pc'[u] = IF u = t THEN After(t) ELSE pc[u]
    <3>1. After(t) \in Places
      BY DEF After, Places, TypeOK
    <3> QED
      BY <1>2, <3>1, GotoType DEF Publish
  <2>2. /\ pc[t] = "publish" /\ readyGauge' = decision[t]
        /\ UNCHANGED <<decision, stopping>>
    BY <1>2 DEF Publish
  <2>3. Bit(IsReady)' = Bit(IsReady)
    BY <1>2 DEF Publish, Bit, IsReady
  <2>4. ~stopping => readyGauge' = Bit(IsReady)
    BY <2>2 DEF GaugeInv, DecisionInv
  <2>5. After(t) # "publish"
    BY DEF After, TypeOK, Startup
  <2> QED
    BY <2>1, <2>2, <2>3, <2>4, <2>5 DEF GaugeInv, DecisionInv, RestInv
<1>3. CASE Write(t)
  BY <1>3, FlushGauge DEF Write, FlushPc
<1>4. CASE WriteInterrupted(t)
  BY <1>4, NextAttemptGoes, FlushGauge DEF WriteInterrupted, FlushPc
<1>5. CASE WriteConnects(t)
  <2>1. Goto(t, "failed") \/ pc' = pc
    BY <1>5, NextAttemptGoes DEF WriteConnects
  <2> QED
    BY <1>5, <2>1, FlushGauge DEF WriteConnects, FlushPc
<1>6. CASE WriteFile(t)
  BY <1>6, FlushGauge DEF WriteFile, FlushPc
<1>7. CASE Succeeded(t)
  BY <1>7, FlushGauge DEF Succeeded, PublishSuccess, Refresh, FlushPc
<1>8. CASE Failed(t)
  BY <1>8, FlushGauge DEF Failed, Refresh, FlushPc
<1> QED
  BY <1>1, <1>2, <1>3, <1>4, <1>5, <1>6, <1>7, <1>8 DEF ThreadStep

LEMMA LoopGauge ==
  ASSUME TypeOK, ControlInv, GaugeInv, Message \/ LoopFails \/ TimerFlush \/ TimerEnds \/ Cleanup
  PROVE  GaugeInv'
<1> USE ThreadNames DEF NoFault, boundVars, handlerVars, stateVars, serviceVars, dbVars, At
<1>1. CASE Message
  <2>1. /\ pc["main"] = "run" /\ pc'["timer"] = pc["timer"]
        /\ pc'["main"] \in {"run", "cleanup", "write"}
    BY <1>1, GotoType DEF Message, Places, FlushPc
  <2>2. Rests' => Rests
    BY <2>1 DEF Rests, Published
  <2> QED
    BY <1>1, <2>1, <2>2, QuietStep DEF Message
<1>2. CASE LoopFails
  <2>1. /\ pc["main"] = "run" /\ pc'["timer"] = pc["timer"] /\ pc'["main"] = "cleanup"
    BY <1>2, GotoType DEF LoopFails, Places
  <2>2. Rests' => Rests
    BY <2>1 DEF Rests, Published
  <2> QED
    BY <1>2, <2>1, <2>2, QuietStep DEF LoopFails
<1>3. CASE TimerFlush
  <2>1. pc'["timer"] = "write" /\ pc'["main"] = pc["main"]
    BY <1>3, GotoType DEF TimerFlush, Places, FlushPc
  <2>2. ~Rests'
    BY <2>1 DEF Rests, Resting
  <2> QED
    BY <1>3, <2>1, <2>2, QuietStep DEF TimerFlush
<1>4. CASE TimerEnds
  <2>1. pc["timer"] = "sleep" /\ pc'["timer"] = "down" /\ pc'["main"] = pc["main"]
    BY <1>4, GotoType DEF TimerEnds, Places
  <2>2. Rests' => Rests
    BY <2>1 DEF Rests, Resting
  <2> QED
    BY <1>4, <2>1, <2>2, QuietStep DEF TimerEnds
<1>5. CASE Cleanup
  <2>1. /\ pc["main"] = "cleanup" /\ pc'["timer"] = pc["timer"]
        /\ pc'["main"] \in {"write", "close"}
    BY <1>5, GotoType DEF Cleanup, Places, FlushPc
  <2>2. Rests' => Rests
    BY <2>1 DEF Rests
  <2> QED
    BY <1>5, <2>1, <2>2, QuietStep DEF Cleanup
<1> QED
  BY <1>1, <1>2, <1>3, <1>4, <1>5

LEMMA EndGauge ==
  ASSUME TypeOK, ControlInv, GaugeInv,
         Close \/ Signal \/ Handler \/ DatabaseGoes \/ DatabaseReturns \/ UNCHANGED vars
  PROVE  GaugeInv'
<1> USE DEF NoFault, boundVars, threadVars, handlerVars, stateVars, serviceVars, dbVars
<1>1. CASE Gone
  BY <1>1, GoneGauge
<1>2. CASE Handler
  <2>1. stopping'
    BY <1>2 DEF Handler, HandlerStops, HandlerDecides, HandlerPublishes, HandlerNotifies,
         ControlInv, SignalInv
  <2> QED
    BY <2>1 DEF GaugeInv, DecisionInv, RestInv
<1>3. CASE ~Gone /\ ~Handler
  <2>1. UNCHANGED <<pc, running, flushError, dbGauge, stopping, decision, readyGauge>>
    BY <1>3 DEF Close, Signal, DatabaseGoes, DatabaseReturns, vars
  <2> QED
    BY <2>1, QuietStep DEF Rests
<1> QED
  BY <1>1, <1>2, <1>3

-----------------------------------------------------------------------------
(* Theorems *)

LEMMA InvInit == Init => IInv
<1> SUFFICES ASSUME Init PROVE IInv
  OBVIOUS
<1>1. TypeOK
  BY TypeInit
<1>2. /\ \A t \in Thread : pc[t] = "down" /\ then[t] = "sleep"
      /\ buffer = 0 /\ stopping = FALSE /\ handler = "none" /\ received = 0
  BY DEF Init, Fresh
<1>3. ControlInv
  BY <1>2, ThreadNames DEF ControlInv, BufferInv, DownInv, MutexInv, SignalInv, Up,
     Startup, FlushPc, RefreshPc, Resting
<1>4. DecisionInv /\ RestInv
  BY <1>2, ThreadNames, PublishedPlaces DEF DecisionInv, RestInv
<1> QED
  BY <1>1, <1>3, <1>4 DEF IInv

LEMMA InvStep == IInv /\ [Next]_vars => IInv'
<1> SUFFICES ASSUME IInv, [Next]_vars PROVE IInv'
  OBVIOUS
<1>1. TypeOK /\ ControlInv /\ GaugeInv
  BY DEF IInv, GaugeInv
<1>2. TypeOK' /\ ControlInv'
  BY <1>1, TypeStep, ControlStep DEF ControlInv
<1>3. GaugeInv'
  BY <1>1, ConstructGauge, ThreadGauge, LoopGauge, EndGauge DEF Next
<1> QED
  BY <1>2, <1>3 DEF IInv, GaugeInv

LEMMA InvAlways == Spec => []IInv
  BY InvInit, InvStep, PTL DEF Spec

\* The variables of the process keep their types through every life of it.
THEOREM HealthTypeCorrect == Spec => []TypeOK
<1>1. IInv => TypeOK
  BY DEF IInv
<1> QED
  BY <1>1, InvAlways, PTL

\* Whenever no thread is between a change and its publication, and until a
\* signal comes, the gauge ash_consumer_ready shows what /health/ready says.
THEOREM GaugeShowsReadiness == Spec => []GaugeFollows
<1>1. IInv => GaugeFollows
  BY DEF IInv, RestInv, GaugeFollows, AtRest, Resting
<1> QED
  BY <1>1, InvAlways, PTL
=============================================================================
