------------------------- MODULE ASHAlerting_proofs -------------------------
(***************************************************************************)
(* Theorems about ASHAlerting for any rules, any number of events,         *)
(* webhooks and restarts, and any order of the clock's ticks.              *)
(***************************************************************************)
EXTENDS ASHAlerting, FiniteSetTheorems, SequenceTheorems, TLAPS

USE AlertingAssumption

-----------------------------------------------------------------------------
(* Facts about the rules *)

\* Whatever alert_rules.json holds, the engine's list is a list of rules.
LEMMA RulesType == Rules \in Seq(Rule)
<1> DEFINE loaded == {i \in 1 .. Len(CustomRules) :
                        \A j \in 1 .. i : CustomRules[j] \notin Malformed}
           n == Cardinality(loaded)
<1>1. Len(CustomRules) \in Nat
  OBVIOUS
<1>2. n \in Nat /\ n <= Len(CustomRules)
  <2>1. IsFiniteSet(1 .. Len(CustomRules))
    BY <1>1, FS_Interval
  <2>2. Cardinality(1 .. Len(CustomRules)) = Len(CustomRules)
    <3> DEFINE len == Len(CustomRules)
    <3>1. len \in Int /\ 1 \in Int
      BY <1>1
    <3>2. Cardinality(1 .. len) = IF 1 > len THEN 0 ELSE len - 1 + 1
      <4> HIDE DEF len
      <4> QED
        BY <3>1, FS_Interval
    <3> QED
      BY <1>1, <3>2
  <2>3. loaded \subseteq 1 .. Len(CustomRules)
    OBVIOUS
  <2> HIDE DEF loaded
  <2> QED
    BY <2>1, <2>2, <2>3, FS_Subset, FS_CardinalityType
<1>3. LoadedCustom = SubSeq(CustomRules, 1, n)
  BY DEF LoadedCustom
<1> HIDE DEF n
<1>4. LoadedCustom \in Seq(Rule)
  BY <1>1, <1>2, <1>3
<1> QED
  BY <1>4, ConcatProperties DEF Rules

\* Scores are bounded, so some of them have a highest one.
LEMMA HighestScore ==
  ASSUME NEW S \in SUBSET (0 .. 10), S # {}
  PROVE  \E s \in S : \A t \in S : t <= s
<1>1. SUFFICES ASSUME \A s \in S : \E t \in S : t >= s + 1
               PROVE  FALSE
  OBVIOUS
<1>2. \A s \in S : \E t \in S : t >= s + 2
  BY <1>1
<1>3. \A s \in S : \E t \in S : t >= s + 4
  BY <1>2
<1>4. \A s \in S : \E t \in S : t >= s + 8
  BY <1>3
<1>5. \A s \in S : \E t \in S : t >= s + 16
  BY <1>4
<1>6. PICK s \in S : TRUE
  OBVIOUS
<1>7. PICK t \in S : t >= s + 16
  BY <1>5
<1>8. s \in 0 .. 10 /\ t \in 0 .. 10
  OBVIOUS
<1> QED
  BY <1>7, <1>8

\* The score of an event is one of the 11 there are.
LEMMA RiskScoreType ==
  ASSUME NEW rules \in SUBSET Rule
  PROVE  RiskScore(rules) \in 0 .. 10
<1> DEFINE S == {Score[r] : r \in rules}
<1>1. CASE rules = {}
  BY <1>1 DEF RiskScore
<1>2. CASE rules # {}
  <2>1. S \in SUBSET (0 .. 10) /\ S # {}
    BY <1>2
  <2>2. \E s \in S : \A t \in S : t <= s
    <3> HIDE DEF S
    <3> QED
      BY <2>1, HighestScore
  <2>3. \E s \in S : \A r \in rules : Score[r] <= s
    BY <2>2
  <2> QED
    BY <1>2, <2>1, <2>3 DEF RiskScore
<1> QED
  BY <1>1, <1>2

-----------------------------------------------------------------------------
(* Types *)

Raised == [rule : Rule, id : Event, at : Nat, life : Nat, place : Nat]

\* As much of TypeOK as the arguments below need.
Types ==
  /\ position \in 0 .. Len(Topic)
  /\ committed \in 0 .. position
  /\ seen \subseteq Event
  /\ buffer \in Seq(Scored)
  /\ stored \in [Event -> {None} \cup (0 .. 10)]
  /\ event \in Event
  /\ ruleAt \in Nat \ {0}
  /\ pc \in {"trigger", "act", "post"} => ruleAt <= Len(Rules)
  /\ matched \subseteq Rule
  /\ lastTriggered \in [Rule -> Int]
  /\ raised \in Seq(Raised)
  /\ life \in Nat
  /\ clock \in Nat

LEMMA TypesInit == Init => Types
BY DEF Init, Types, None, Never, Raised

\* The rule in hand while the list has not been looked through.
LEMMA RuleInHand ==
  ASSUME Types, ruleAt <= Len(Rules)
  PROVE  Rules[ruleAt] \in Rule
<1>1. ruleAt \in 1 .. Len(Rules)
  BY RulesType DEF Types
<1> QED
  BY <1>1, RulesType

\* The cache of ids holds ids it held before, and the new one at most.
LEMMA CacheOnlyDrops ==
  ASSUME NEW e, NEW ids \in Cached(e)
  PROVE  ids \subseteq seen \cup {e}
BY DEF Cached

\* The alert the engine is about to raise.
NewAlert == [rule |-> Rules[ruleAt], id |-> event, at |-> clock, life |-> life,
             place |-> position]

LEMMA TriggerFacts ==
  ASSUME Types, Trigger
  PROVE  /\ pc = "trigger" /\ pc' = "act"
         /\ ruleAt <= Len(Rules)
         /\ Rules[ruleAt] \in Rule
         /\ NewAlert \in Raised
         /\ NewAlert.rule = Rules[ruleAt]
         /\ NewAlert.id = event
         /\ NewAlert.at = clock
         /\ NewAlert.life = life
         /\ NewAlert.place = position
         /\ raised' = Append(raised, NewAlert)
         /\ raised' \in Seq(Raised)
         /\ Len(raised) \in Nat
         /\ Len(raised') = Len(raised) + 1
         /\ \A i \in 1 .. Len(raised) : raised'[i] = raised[i]
         /\ raised'[Len(raised) + 1] = NewAlert
         /\ \A i \in 1 .. Len(raised) + 1 :
               i \in 1 .. Len(raised) \/ i = Len(raised) + 1
<1>1. /\ pc = "trigger" /\ pc' = "act"
      /\ ruleAt <= Len(Rules)
      /\ raised' = Append(raised, NewAlert)
  BY DEF Trigger, Types, NewAlert
<1>2. Rules[ruleAt] \in Rule
  BY <1>1, RuleInHand
<1>3. position \in Nat
  BY DEF Types
<1>4. NewAlert \in Raised
  BY <1>2, <1>3 DEF NewAlert, Raised, Types
<1>5. /\ NewAlert.rule = Rules[ruleAt]
      /\ NewAlert.id = event
      /\ NewAlert.at = clock
      /\ NewAlert.life = life
      /\ NewAlert.place = position
  BY DEF NewAlert
<1>6. raised \in Seq(Raised)
  BY DEF Types
<1>7. /\ raised' \in Seq(Raised)
      /\ Len(raised) \in Nat
      /\ Len(raised') = Len(raised) + 1
      /\ \A i \in 1 .. Len(raised) : raised'[i] = raised[i]
      /\ raised'[Len(raised) + 1] = NewAlert
  BY <1>1, <1>4, <1>6
<1>8. \A i \in 1 .. Len(raised) + 1 :
        i \in 1 .. Len(raised) \/ i = Len(raised) + 1
  BY <1>7
<1> QED
  BY <1>1, <1>2, <1>4, <1>5, <1>7, <1>8

\* What raised holds are alerts.
LEMMA RaisedFacts ==
  ASSUME Types
  PROVE  \A i \in 1 .. Len(raised) :
           /\ raised[i].rule \in Rule
           /\ raised[i].at \in Nat
           /\ raised[i].life \in Nat
           /\ raised[i].place \in Nat
<1>1. \A i \in 1 .. Len(raised) : raised[i] \in Raised
  BY DEF Types
<1> QED
  BY <1>1 DEF Raised

\* What the batch writes are scores, and it overwrites none.
LEMMA InsertFacts ==
  ASSUME Types
  PROVE  /\ Insert(stored, buffer) \in [Event -> {None} \cup (0 .. 10)]
         /\ \A e \in Event : stored[e] # None
                               => Insert(stored, buffer)[e] # None
         /\ \A i \in 1 .. Len(buffer) :
              Insert(stored, buffer)[buffer[i].id] # None
<1>1. \A i \in 1 .. Len(buffer) :
         buffer[i].id \in Event /\ buffer[i].score \in 0 .. 10
  <2>1. \A i \in 1 .. Len(buffer) : buffer[i] \in Scored
    BY DEF Types
  <2> QED
    BY <2>1 DEF Scored
<1>2. ASSUME NEW e \in Event,
             \E i \in 1 .. Len(buffer) : buffer[i].id = e
      PROVE  buffer[CHOOSE i \in 1 .. Len(buffer) : buffer[i].id = e].score
               \in 0 .. 10
  <2>1. (CHOOSE i \in 1 .. Len(buffer) : buffer[i].id = e) \in 1 .. Len(buffer)
    BY <1>2
  <2> QED
    BY <1>1, <2>1
<1>3. ASSUME NEW e \in Event
      PROVE  /\ Insert(stored, buffer)[e] \in {None} \cup (0 .. 10)
             /\ stored[e] # None => Insert(stored, buffer)[e] # None
             /\ (\E i \in 1 .. Len(buffer) : buffer[i].id = e)
                  => Insert(stored, buffer)[e] # None
  <2>1. CASE stored[e] # None \/ \A i \in 1 .. Len(buffer) : buffer[i].id # e
    BY <2>1 DEF Types, Insert
  <2>2. CASE stored[e] = None /\ \E i \in 1 .. Len(buffer) : buffer[i].id = e
    <3>1. Insert(stored, buffer)[e] =
            buffer[CHOOSE i \in 1 .. Len(buffer) : buffer[i].id = e].score
      BY <2>2 DEF Insert
    <3>2. Insert(stored, buffer)[e] \in 0 .. 10
      BY <1>2, <2>2, <3>1
    <3>3. Insert(stored, buffer)[e] # None
      BY <3>2 DEF None
    <3> QED
      BY <2>2, <3>2, <3>3
  <2> QED
    BY <2>1, <2>2
<1>4. Insert(stored, buffer) \in [Event -> {None} \cup (0 .. 10)]
  <2>1. Insert(stored, buffer) = [e \in Event |-> Insert(stored, buffer)[e]]
    BY DEF Insert
  <2> QED
    BY <1>3, <2>1
<1> QED
  BY <1>1, <1>3, <1>4

\* One more event in the batch.
LEMMA BufferFacts ==
  ASSUME Types, BufferEvent
  PROVE  /\ buffer' \in Seq(Scored)
         /\ Len(buffer) \in Nat
         /\ Len(buffer') = Len(buffer) + 1
         /\ \A i \in 1 .. Len(buffer) : buffer'[i] = buffer[i]
         /\ buffer'[Len(buffer) + 1].id = event
         /\ buffer'[Len(buffer) + 1].score = RiskScore(matched)
         /\ \A i \in 1 .. Len(buffer) + 1 :
               i \in 1 .. Len(buffer) \/ i = Len(buffer) + 1
<1> DEFINE item == [id |-> event, score |-> RiskScore(matched)]
<1>1. /\ item \in Scored
      /\ item.id = event
      /\ item.score = RiskScore(matched)
  BY RiskScoreType DEF Types, Scored
<1>2. buffer' = Append(buffer, item) /\ buffer \in Seq(Scored)
  BY DEF BufferEvent, Types
<1> HIDE DEF item
<1> QED
  BY <1>1, <1>2

LEMMA TypesStep ==
  ASSUME Types, [Next]_vars
  PROVE  Types'
<1>0. Len(Rules) \in Nat
  BY RulesType
<1>1. CASE Receive \/ DropDuplicate
  <2>1. position' \in 1 .. Len(Topic) /\ position' = position + 1
    BY <1>1 DEF Receive, DropDuplicate, ReadNext, Types
  <2>2. event' = Topic[position'] /\ event' \in Event
    BY <1>1, <2>1 DEF Receive, DropDuplicate, ReadNext
  <2>3. seen' \subseteq Event
    BY <1>1, <2>2, CacheOnlyDrops DEF Receive, DropDuplicate, Types
  <2>4. committed' \in 0 .. position'
    BY <1>1, <2>1 DEF Receive, DropDuplicate, ReadNext, Types
  <2>5. /\ ruleAt' = 1 /\ matched' = {}
        /\ pc' \notin {"trigger", "act", "post"}
        /\ UNCHANGED <<buffer, stored, lastTriggered, raised, life, clock>>
    BY <1>1 DEF Receive, DropDuplicate, ReadNext, alertVars
  <2>6. position' \in 0 .. Len(Topic)
    BY <2>1
  <2> QED
    BY <2>2, <2>3, <2>4, <2>5, <2>6 DEF Types
<1>2. CASE CheckRule
  BY <1>0, <1>2
  DEF CheckRule, NextRule, Types, streamVars, bufferVars, alertVars
<1>3. CASE Trigger
  <2>1. lastTriggered' \in [Rule -> Int]
    BY <1>3, TriggerFacts DEF Trigger, NoteTrigger, Types
  <2>2. matched' \subseteq Rule
    BY <1>3, TriggerFacts DEF Trigger, Types
  <2> QED
    BY <1>3, <2>1, <2>2, TriggerFacts DEF Trigger, Types, streamVars, bufferVars
<1>4. CASE BufferEvent
  <2>1. /\ pc' \notin {"trigger", "act", "post"}
        /\ UNCHANGED <<position, committed, seen, stored, event, ruleAt,
                       matched, lastTriggered, raised, life, clock>>
    BY <1>4 DEF BufferEvent, streamVars, loopVars, alertVars
  <2>2. buffer' \in Seq(Scored)
    BY <1>4, BufferFacts
  <2> QED
    BY <2>1, <2>2 DEF Types
<1>5. CASE FlushBatch
  <2>1. stored' \in [Event -> {None} \cup (0 .. 10)]
    BY <1>5, InsertFacts DEF FlushBatch, Types
  <2>2. buffer' \in Seq(Scored)
    <3>1. <<>> \in Seq(Scored)
      OBVIOUS
    <3>2. buffer' = <<>> \/ buffer' = buffer
      BY <1>5 DEF FlushBatch
    <3> QED
      BY <3>1, <3>2 DEF Types
  <2> QED
    BY <1>5, <2>1, <2>2 DEF FlushBatch, Types, loopVars, alertVars
<1>6. CASE CommitPosition
  BY <1>6 DEF CommitPosition, Types, bufferVars, loopVars, alertVars
<1>7. CASE Restart
  BY <1>7 DEF Restart, Types, Never, loopVars
<1>8. CASE Tick
  BY <1>8 DEF Tick, Types, streamVars, bufferVars, loopVars, alertVars
<1>9. CASE ActionsDone
  BY <1>9
  DEF ActionsDone, NextRule, Types, streamVars, bufferVars, loopVars, alertVars
<1>10. CASE LogAlert
  BY <1>10 DEF LogAlert, Types, streamVars, bufferVars, loopVars, alertVars
<1>11. CASE BuildMessage
  BY <1>11 DEF BuildMessage, Types, streamVars, bufferVars, loopVars, alertVars
<1>12. CASE MessageRaises
  BY <1>12
  DEF MessageRaises, Types, streamVars, bufferVars, loopVars, alertVars
<1>13. CASE PostWebhook
  BY <1>13
  DEF PostWebhook, AfterPost, Types, streamVars, bufferVars, loopVars, alertVars
<1>14. CASE PostsDone
  BY <1>14 DEF PostsDone, Types, streamVars, bufferVars, loopVars, alertVars
<1>15. CASE UNCHANGED vars
  BY <1>15 DEF vars, Types, streamVars, bufferVars, loopVars, alertVars
<1> QED
  BY <1>1, <1>2, <1>3, <1>4, <1>5, <1>6, <1>7, <1>8, <1>9, <1>10, <1>11,
     <1>12, <1>13, <1>14, <1>15 DEF Next, Process

\* Every state of every behaviour is typed.
LEMMA TypesAlways == Spec => []Types
BY TypesInit, TypesStep, PTL DEF Spec

-----------------------------------------------------------------------------
(* Alerts keep their distance *)

(***************************************************************************)
(* AlertsAreSpaced is not inductive: that the next alert of a rule keeps   *)
(* its distance follows from the time the rule remembers, which is the     *)
(* time of its last alert of this life or later, and from the look at the  *)
(* clock before the trigger, which the clock cannot undo.                  *)
(***************************************************************************)
Remembered ==
  \A i \in 1 .. Len(raised) :
     /\ raised[i].life <= life
     /\ raised[i].at <= clock
     /\ raised[i].life = life => raised[i].at <= lastTriggered[raised[i].rule]

Rested == pc = "trigger" => ~Cooling(Rules[ruleAt])

Spacing == Remembered /\ Rested /\ AlertsAreSpaced

LEMMA SpacingInit == Init => Spacing
BY DEF Init, Spacing, Remembered, Rested, AlertsAreSpaced

LEMMA SpacingStep ==
  ASSUME Types, Spacing, [Next]_vars
  PROVE  Spacing'
<1>0. /\ \A i \in 1 .. Len(raised) :
            /\ raised[i].rule \in Rule
            /\ raised[i].at \in Nat
            /\ raised[i].life \in Nat
      /\ clock \in Nat
      /\ life \in Nat
      /\ lastTriggered \in [Rule -> Int]
  BY RaisedFacts DEF Types
<1>1. CASE Trigger
  <2> DEFINE r == Rules[ruleAt]
             n == Len(raised)
             alert == NewAlert
  <2>1. /\ r \in Rule
        /\ n \in Nat
        /\ Len(raised') = n + 1
        /\ \A i \in 1 .. n : raised'[i] = raised[i]
        /\ raised'[n + 1] = alert
        /\ \A i \in 1 .. n + 1 : i \in 1 .. n \/ i = n + 1
        /\ alert.rule = r
        /\ alert.at = clock
        /\ alert.life = life
        /\ pc' = "act"
    BY <1>1, TriggerFacts
  <2>2. /\ life' = life
        /\ clock' = clock
        /\ lastTriggered' = [lastTriggered EXCEPT ![r] = clock]
    BY <1>1 DEF Trigger, NoteTrigger
  <2>3. Cooldown[r] \in Nat /\ clock - lastTriggered[r] >= Cooldown[r]
    <3>1. ~ (clock - lastTriggered[r] < Cooldown[r])
      BY <1>1 DEF Trigger, Spacing, Rested, Cooling
    <3>2. Cooldown[r] \in Nat /\ lastTriggered[r] \in Int
      BY <1>0, <2>1
    <3> HIDE DEF r
    <3> QED
      BY <1>0, <3>1, <3>2
  <2> HIDE DEF r, n, alert
  <2>4. Remembered'
    <3> SUFFICES ASSUME NEW i \in 1 .. n + 1
                 PROVE  /\ raised'[i].life <= life
                        /\ raised'[i].at <= clock
                        /\ raised'[i].life = life
                             => raised'[i].at <= lastTriggered'[raised'[i].rule]
      BY <2>1, <2>2 DEF Remembered
    <3>1. CASE i = n + 1
      BY <1>0, <2>1, <2>2, <3>1
    <3>2. CASE i \in 1 .. n
      <4>1. raised'[i] = raised[i] /\ raised[i].rule \in Rule
        BY <1>0, <2>1, <3>2 DEF n
      <4>2. lastTriggered'[raised[i].rule] >= lastTriggered[raised[i].rule]
        BY <1>0, <2>1, <2>2, <2>3, <4>1
      <4>3. /\ raised[i].at \in Nat
            /\ raised[i].life <= life
            /\ raised[i].at <= clock
            /\ raised[i].life = life
                 => raised[i].at <= lastTriggered[raised[i].rule]
        BY <1>0, <3>2 DEF Spacing, Remembered, n
      <4>4. /\ lastTriggered[raised[i].rule] \in Int
            /\ lastTriggered'[raised[i].rule] \in Int
        BY <1>0, <2>1, <2>2, <4>1
      <4>5. raised[i].life = life
              => raised[i].at <= lastTriggered'[raised[i].rule]
        <5> DEFINE q == raised[i].rule
                   at == raised[i].at
        <5>1. /\ at \in Nat
              /\ lastTriggered[q] \in Int
              /\ lastTriggered'[q] \in Int
              /\ lastTriggered'[q] >= lastTriggered[q]
              /\ raised[i].life = life => at <= lastTriggered[q]
          BY <4>2, <4>3, <4>4
        <5> HIDE DEF q, at
        <5>2. raised[i].life = life => at <= lastTriggered'[q]
          BY <5>1
        <5> QED
          BY <5>2 DEF q, at
      <4> QED
        BY <4>1, <4>3, <4>5
    <3> QED
      BY <2>1, <3>1, <3>2
  <2>5. AlertsAreSpaced'
    <3> SUFFICES ASSUME NEW i \in 1 .. n + 1, NEW j \in 1 .. n + 1, i < j,
                        raised'[i].rule = raised'[j].rule,
                        raised'[i].life = raised'[j].life
                 PROVE  raised'[j].at - raised'[i].at
                          >= Cooldown[raised'[i].rule]
      BY <2>1 DEF AlertsAreSpaced
    <3>1. i \in 1 .. n /\ raised'[i] = raised[i]
      BY <2>1
    <3>2. CASE j = n + 1
      <4>1. raised[i].rule = r /\ raised[i].life = life
        BY <2>1, <3>1, <3>2
      <4>2. raised[i].at <= lastTriggered[r] /\ raised[i].at \in Nat
        BY <1>0, <3>1, <4>1 DEF Spacing, Remembered, n
      <4>3. raised'[j].at = clock /\ lastTriggered[r] \in Int
        BY <1>0, <2>1, <3>2
      <4>4. clock - raised[i].at >= Cooldown[r]
        <5> DEFINE at == raised[i].at
                   last == lastTriggered[r]
                   gap == Cooldown[r]
        <5>1. /\ at \in Nat /\ last \in Int /\ gap \in Nat /\ clock \in Nat
              /\ clock - last >= gap
              /\ at <= last
          BY <1>0, <2>3, <4>2, <4>3
        <5> HIDE DEF at, last, gap
        <5>2. clock - at >= gap
          BY <5>1
        <5> QED
          BY <5>2 DEF at, gap
      <4> QED
        BY <3>1, <4>1, <4>3, <4>4
    <3>3. CASE j \in 1 .. n
      BY <2>1, <3>1, <3>3 DEF Spacing, AlertsAreSpaced, n
    <3> QED
      BY <2>1, <3>2, <3>3
  <2>6. Rested'
    BY <2>1 DEF Rested
  <2> QED
    BY <2>4, <2>5, <2>6 DEF Spacing
<1>2. CASE Restart
  <2>1. raised' = raised /\ clock' = clock /\ life' = life + 1 /\ pc' = "idle"
    BY <1>2 DEF Restart
  <2>2. \A i \in 1 .. Len(raised) :
           /\ raised[i].life <= life + 1
           /\ raised[i].life # life + 1
           /\ raised[i].at <= clock
    <3> SUFFICES ASSUME NEW i \in 1 .. Len(raised)
                 PROVE  /\ raised[i].life <= life + 1
                        /\ raised[i].life # life + 1
                        /\ raised[i].at <= clock
      OBVIOUS
    <3>1. raised[i].life \in Nat /\ raised[i].life <= life /\ life \in Nat
      BY <1>0 DEF Spacing, Remembered
    <3>2. raised[i].at <= clock
      BY DEF Spacing, Remembered
    <3> QED
      BY <3>1, <3>2
  <2>3. Remembered'
    BY <2>1, <2>2 DEF Remembered
  <2> QED
    BY <2>1, <2>3 DEF Spacing, Rested, AlertsAreSpaced
<1>3. CASE Tick
  <2>1. /\ raised' = raised
        /\ lastTriggered' = lastTriggered
        /\ life' = life
        /\ clock' = clock + 1
        /\ pc' = pc
        /\ ruleAt' = ruleAt
    BY <1>3 DEF Tick, alertVars, loopVars
  <2>2. Remembered'
    BY <1>0, <2>1 DEF Spacing, Remembered
  <2>3. ASSUME pc = "trigger"
        PROVE  ~ (clock' - lastTriggered'[Rules[ruleAt]]
                    < Cooldown[Rules[ruleAt]])
    <3> DEFINE r == Rules[ruleAt]
    <3>1. r \in Rule
      BY <2>3, RuleInHand DEF Types
    <3>2. ~ (clock - lastTriggered[r] < Cooldown[r])
      BY <2>3 DEF Spacing, Rested, Cooling
    <3>3. lastTriggered[r] \in Int /\ Cooldown[r] \in Nat
      BY <1>0, <3>1
    <3> HIDE DEF r
    <3>4. ~ (clock' - lastTriggered'[r] < Cooldown[r])
      BY <1>0, <2>1, <3>2, <3>3
    <3> QED
      BY <3>4 DEF r
  <2>4. Rested'
    BY <2>1, <2>3 DEF Rested, Cooling
  <2> QED
    BY <2>1, <2>2, <2>4 DEF Spacing, AlertsAreSpaced
<1>4. CASE CheckRule
  <2>1. /\ UNCHANGED <<raised, lastTriggered, life, clock>>
        /\ pc' = "trigger" => ruleAt' = ruleAt /\ ~Cooling(Rules[ruleAt])
    BY <1>4 DEF CheckRule, RuleMatches, NextRule, alertVars
  <2>2. Rested'
    BY <2>1 DEF Rested, Cooling
  <2> QED
    BY <2>1, <2>2 DEF Spacing, Remembered, AlertsAreSpaced
<1>5. ASSUME UNCHANGED <<raised, lastTriggered, life, clock>>,
             pc' # "trigger" \/ UNCHANGED <<pc, ruleAt>>
      PROVE  Spacing'
  BY <1>5 DEF Spacing, Remembered, Rested, Cooling, AlertsAreSpaced
<1>6. CASE Receive \/ DropDuplicate \/ FlushBatch \/ CommitPosition
           \/ BufferEvent
  <2>1. UNCHANGED <<raised, lastTriggered, life, clock>> /\ pc' # "trigger"
    BY <1>6 DEF Receive, DropDuplicate, ReadNext, FlushBatch, CommitPosition,
       BufferEvent, alertVars
  <2> QED
    BY <1>5, <2>1
<1>7. CASE ActionsDone \/ LogAlert \/ BuildMessage \/ MessageRaises
           \/ PostWebhook \/ PostsDone
  <2>1. UNCHANGED <<raised, lastTriggered, life, clock>> /\ pc' # "trigger"
    BY <1>7 DEF ActionsDone, NextRule, LogAlert, BuildMessage, MessageRaises,
       PostWebhook, AfterPost, PostsDone, alertVars
  <2> QED
    BY <1>5, <2>1
<1>8. CASE UNCHANGED vars
  BY <1>5, <1>8 DEF vars, alertVars, loopVars
<1> QED
  BY <1>1, <1>2, <1>3, <1>4, <1>6, <1>7, <1>8 DEF Next, Process

(***************************************************************************)
(* Two alerts of one rule in one life of the consumer are a cooldown       *)
(* apart, for any rules, any cooldown, and wherever the clock moves.       *)
(***************************************************************************)
THEOREM AlertsKeepTheirDistance == Spec => []AlertsAreSpaced
<1>1. Spec => []Spacing
  BY SpacingInit, SpacingStep, TypesAlways, PTL DEF Spec
<1>2. Spacing => AlertsAreSpaced
  BY DEF Spacing
<1> QED
  BY <1>1, <1>2, PTL

-----------------------------------------------------------------------------
(* The alert engine costs no event but those whose message cannot be built *)

\* An event a restart does not lose sight of: it is stored, or in the batch,
\* or accounted for.
Safe(e) == stored[e] # None \/ Buffered(e) \/ e \in failed \cup lost
Kept(e) == Safe(e) \/ (Looking /\ event = e)

(***************************************************************************)
(* EventsGetThrough is not inductive.  The commit runs when no event is in *)
(* hand, so what it covers is safe; and a duplicate of a remembered event  *)
(* may be dropped because that event is kept.                              *)
(***************************************************************************)
Delivery ==
  /\ \A i \in 1 .. position : Kept(Topic[i])
  /\ \A e \in seen : Kept(e)
  /\ \A i \in 1 .. committed : Safe(Topic[i])

LEMMA DeliveryInit == Init => Delivery
BY DEF Init, Delivery

\* A safe event stays safe, also through a flush that fails and a restart.
LEMMA SafeStays ==
  ASSUME Types, [Next]_vars, NEW e \in Event, Safe(e)
  PROVE  Safe(e)'
<1>1. CASE BufferEvent
  <2>1. Buffered(e) => Buffered(e)'
    BY <1>1, BufferFacts DEF Buffered
  <2> QED
    BY <1>1, <2>1 DEF BufferEvent, Safe
<1>2. CASE FlushBatch
  <2>1. Buffered(e) => Insert(stored, buffer)[e] # None
    BY InsertFacts DEF Buffered
  <2>2. stored[e] # None => Insert(stored, buffer)[e] # None
    BY InsertFacts
  <2>3. \/ stored' = Insert(stored, buffer)
        \/ stored' = stored /\ buffer' = buffer
    BY <1>2 DEF FlushBatch
  <2>4. UNCHANGED <<failed, lost>>
    BY <1>2 DEF FlushBatch
  <2> QED
    BY <2>1, <2>2, <2>3, <2>4 DEF Safe, Buffered
<1>3. CASE Restart
  <2>1. Buffered(e) => e \in lost'
    BY <1>3 DEF Restart, Buffered
  <2> QED
    BY <1>3, <2>1 DEF Restart, Safe
<1>4. CASE MessageRaises
  BY <1>4 DEF MessageRaises, Safe, Buffered
<1>5. CASE ~BufferEvent /\ ~FlushBatch /\ ~Restart /\ ~MessageRaises
  <2>1. UNCHANGED <<buffer, stored, failed, lost>>
    BY <1>5 DEF Next, Process, Receive, DropDuplicate, ReadNext, CheckRule,
       Trigger, ActionsDone, LogAlert, BuildMessage, PostWebhook, PostsDone,
       CommitPosition, Tick, vars, bufferVars
  <2> QED
    BY <2>1 DEF Safe, Buffered
<1> QED
  BY <1>1, <1>2, <1>3, <1>4, <1>5

\* The engine gives an event up only to the batch, or by an exception.
LEMMA KeptStays ==
  ASSUME Types, [Next]_vars, NEW e \in Event, Kept(e),
         ~Receive, ~DropDuplicate, ~Restart
  PROVE  Kept(e)'
<1>1. CASE Safe(e)
  BY <1>1, SafeStays DEF Kept
<1>2. CASE Looking /\ event = e
  <2>1. CASE BufferEvent
    <3>1. /\ event = e
          /\ Len(buffer) \in Nat
          /\ Len(buffer') = Len(buffer) + 1
          /\ buffer'[Len(buffer) + 1].id = event
      BY <1>2, <2>1, BufferFacts
    <3>2. Len(buffer) + 1 \in 1 .. Len(buffer')
      BY <3>1
    <3> QED
      BY <3>1, <3>2 DEF Kept, Safe, Buffered
  <2>2. CASE MessageRaises
    BY <1>2, <2>2 DEF MessageRaises, Kept, Safe
  <2>3. CASE FlushBatch \/ CommitPosition
    BY <1>2, <2>3 DEF FlushBatch, CommitPosition, Looking
  <2>4. CASE CheckRule \/ Trigger \/ ActionsDone \/ LogAlert \/ BuildMessage
             \/ PostWebhook \/ PostsDone
    <3>1. event' = event /\ Looking'
      BY <2>4 DEF CheckRule, Trigger, ActionsDone, LogAlert, BuildMessage,
         PostWebhook, AfterPost, PostsDone, NextRule, Looking
    <3> QED
      BY <1>2, <3>1 DEF Kept
  <2>5. CASE Tick \/ UNCHANGED vars
    BY <1>2, <2>5 DEF Tick, vars, loopVars, Kept, Looking
  <2> QED
    BY <2>1, <2>2, <2>3, <2>4, <2>5 DEF Next, Process
<1> QED
  BY <1>1, <1>2 DEF Kept

LEMMA DeliveryStep ==
  ASSUME Types, Delivery, [Next]_vars
  PROVE  Delivery'
<1>0. /\ \A i \in 1 .. position : Topic[i] \in Event
      /\ \A i \in 1 .. committed : i \in 1 .. position
      /\ seen \subseteq Event
  BY DEF Types
<1>1. \A i \in 1 .. committed : Safe(Topic[i])'
  BY <1>0, SafeStays DEF Delivery
<1>2. CASE Receive \/ DropDuplicate
  <2>1. /\ pc = "idle"
        /\ position' = position + 1
        /\ position' \in 1 .. Len(Topic)
        /\ event' = Topic[position']
        /\ committed' = committed
    BY <1>2 DEF Receive, DropDuplicate, ReadNext, Types
  <2>2. \A e \in Event : Kept(e) => Kept(e)'
    BY <2>1, SafeStays DEF Kept, Looking
  <2>3. PICK read \in Event : read = event'
    BY <2>1
  <2>4. seen' \subseteq seen \cup {read}
    BY <1>2, <2>3, CacheOnlyDrops DEF Receive, DropDuplicate
  <2>5. Kept(read)'
    <3>1. CASE Receive
      BY <2>3, <3>1 DEF Receive, Kept, Looking
    <3>2. CASE DropDuplicate
      BY <2>2, <2>3, <3>2 DEF DropDuplicate, Delivery
    <3> QED
      BY <1>2, <3>1, <3>2
  <2>6. ASSUME NEW i \in 1 .. position'
        PROVE  Kept(Topic[i])'
    <3>1. CASE i = position'
      BY <2>1, <2>3, <2>5, <3>1
    <3>2. CASE i \in 1 .. position
      BY <1>0, <2>2, <3>2 DEF Delivery
    <3> QED
      BY <2>1, <3>1, <3>2 DEF Types
  <2>7. ASSUME NEW e \in seen'
        PROVE  Kept(e)'
    BY <1>0, <2>2, <2>4, <2>5 DEF Delivery
  <2>8. \A i \in 1 .. committed' : Safe(Topic[i])'
    BY <1>1, <2>1
  <2> QED
    BY <2>6, <2>7, <2>8 DEF Delivery
<1>3. CASE Restart
  <2>1. position' = committed /\ committed' = committed /\ seen' = {}
    BY <1>3 DEF Restart
  <2> QED
    BY <1>1, <2>1 DEF Delivery, Kept
<1>4. CASE ~Receive /\ ~DropDuplicate /\ ~Restart
  <2>1. UNCHANGED <<position, seen>>
    BY <1>4 DEF Next, Process, CheckRule, Trigger, ActionsDone, LogAlert,
       BuildMessage, MessageRaises, PostWebhook, PostsDone, BufferEvent,
       FlushBatch, CommitPosition, Tick, vars, streamVars, bufferVars
  <2>2. \A e \in Event : Kept(e) => Kept(e)'
    BY <1>4, KeptStays
  <2>3. /\ \A i \in 1 .. position' : Kept(Topic[i])'
        /\ \A e \in seen' : Kept(e)'
    BY <1>0, <2>1, <2>2 DEF Delivery
  <2>4. \A i \in 1 .. committed' : Safe(Topic[i])'
    <3>1. CASE committed' = committed
      BY <1>1, <3>1
    <3>2. CASE committed' # committed
      <4>1. pc = "commit" /\ committed' = position
        BY <1>4, <3>2 DEF Next, Process, CheckRule, Trigger, ActionsDone,
           LogAlert, BuildMessage, MessageRaises, PostWebhook, PostsDone,
           BufferEvent, FlushBatch, CommitPosition, Tick, vars, streamVars
      <4>2. \A i \in 1 .. position : Safe(Topic[i])
        BY <4>1 DEF Delivery, Kept, Looking
      <4> QED
        BY <1>0, <4>1, <4>2, SafeStays
    <3> QED
      BY <3>1, <3>2
  <2> QED
    BY <2>3, <2>4 DEF Delivery
<1> QED
  BY <1>2, <1>3, <1>4

(***************************************************************************)
(* Whatever webhooks fail, however often the consumer restarts, and        *)
(* whichever ids its cache drops, an event that was read is in hand, in    *)
(* the batch or stored, unless the message of one of its alerts could not  *)
(* be built or a kill found it in the batch.                               *)
(***************************************************************************)
THEOREM AlertsCostNoEvent == Spec => []EventsGetThrough
<1>1. Spec => []Delivery
  BY DeliveryInit, DeliveryStep, TypesAlways, PTL DEF Spec
<1>2. Delivery => EventsGetThrough
  BY DEF Delivery, EventsGetThrough, Kept, Safe
<1> QED
  BY <1>1, <1>2, PTL

-----------------------------------------------------------------------------
(* Scores are backed by alerts *)

\* In life l the engine is done with the message at place p.
Over(l, p) ==
  \/ l < life
  \/ l = life /\ (p < position \/ (p = position /\ ~Looking))

\* Of the alerts of R from that examination, one is for e and has the score s,
\* and none has a higher one.
Backs(R, e, l, p, s) ==
  /\ \E i \in 1 .. Len(R) : /\ R[i].id = e
                            /\ R[i].life = l
                            /\ R[i].place = p
                            /\ Score[R[i].rule] = s
  /\ \A i \in 1 .. Len(R) :
        R[i].life = l /\ R[i].place = p => Score[R[i].rule] <= s

Backed(e, s) ==
  \E l \in Nat, p \in Nat : Over(l, p) /\ Backs(raised, e, l, p, s)

(***************************************************************************)
(* ScoreHasAlert is not inductive: a score must not be overtaken by a      *)
(* later alert of the examination it comes from.  It is not, because the   *)
(* event is put into the batch when its examination is over, and another   *)
(* one of the same event has a place or a life of its own; what the engine *)
(* has matched so far is what it has raised alerts for.                    *)
(***************************************************************************)
Ages == \A i \in 1 .. Len(raised) :
          /\ raised[i].life <= life
          /\ raised[i].life = life => raised[i].place <= position

Here(a) == a.life = life /\ a.place = position

Examination ==
  Looking =>
    /\ \A i \in 1 .. Len(raised) : Here(raised[i]) => raised[i].rule \in matched
    /\ \A r \in matched :
         \E i \in 1 .. Len(raised) : /\ Here(raised[i])
                                     /\ raised[i].rule = r
                                     /\ raised[i].id = event

BatchBacked == \A i \in 1 .. Len(buffer) :
                 buffer[i].score > 0 => Backed(buffer[i].id, buffer[i].score)

TableBacked == \A e \in Event : stored[e] > 0 => Backed(e, stored[e])

ScoreInv == Ages /\ Examination /\ BatchBacked /\ TableBacked

\* The score of an event that matched a rule is the highest of its rules.
LEMMA RiskScoreIsHighest ==
  ASSUME NEW rules \in SUBSET Rule, RiskScore(rules) > 0
  PROVE  /\ RiskScore(rules) \in {Score[r] : r \in rules}
         /\ \A t \in {Score[r] : r \in rules} : t <= RiskScore(rules)
<1> DEFINE S == {Score[r] : r \in rules}
<1>1. rules # {}
  BY DEF RiskScore
<1>2. S \in SUBSET (0 .. 10) /\ S # {}
  BY <1>1
<1>3. \E s \in S : \A t \in S : t <= s
  <2> HIDE DEF S
  <2> QED
    BY <1>2, HighestScore
<1>4. \E s \in S : \A r \in rules : Score[r] <= s
  BY <1>3
<1>5. RiskScore(rules) = CHOOSE s \in S : \A r \in rules : Score[r] <= s
  BY <1>1 DEF RiskScore
<1>6. RiskScore(rules) \in S /\ \A r \in rules : Score[r] <= RiskScore(rules)
  <2> HIDE DEF S
  <2> QED
    BY <1>4, <1>5
<1> QED
  BY <1>6

LEMMA ScoreInit == Init => ScoreInv
<1> SUFFICES ASSUME Init
             PROVE  ScoreInv
  OBVIOUS
<1>1. /\ Len(raised) = 0 /\ Len(buffer) = 0 /\ pc = "idle"
      /\ \A e \in Event : stored[e] = -1
  BY DEF Init, None
<1> QED
  BY <1>1 DEF ScoreInv, Ages, Examination, BatchBacked, TableBacked, Looking

\* An examination that is over stays over.
LEMMA OverStays ==
  ASSUME Types, [Next]_vars, NEW l \in Nat, NEW p \in Nat, Over(l, p)
  PROVE  Over(l, p)'
<1>0. life \in Nat /\ position \in Nat
  BY DEF Types
<1>1. CASE Receive \/ DropDuplicate
  <2>1. life' = life /\ position' = position + 1
    BY <1>1 DEF Receive, DropDuplicate, ReadNext
  <2> QED
    BY <1>0, <2>1 DEF Over
<1>2. CASE Restart
  <2>1. life' = life + 1
    BY <1>2 DEF Restart
  <2> QED
    BY <1>0, <2>1 DEF Over
<1>3. CASE ~Receive /\ ~DropDuplicate /\ ~Restart
  <2>1. UNCHANGED <<life, position>>
    BY <1>3 DEF Next, Process, CheckRule, Trigger, ActionsDone, LogAlert,
       BuildMessage, MessageRaises, PostWebhook, PostsDone, BufferEvent,
       FlushBatch, CommitPosition, Tick, vars, streamVars
  <2>2. Looking' => Looking
    BY <1>3 DEF Next, Process, CheckRule, Trigger, ActionsDone, LogAlert,
       BuildMessage, MessageRaises, PostWebhook, PostsDone, BufferEvent,
       FlushBatch, CommitPosition, Tick, vars, Looking
  <2> QED
    BY <2>1, <2>2 DEF Over
<1> QED
  BY <1>1, <1>2, <1>3

\* Alerts are raised one by one, and only for the message in hand.
LEMMA OnlyTriggerRaises ==
  ASSUME [Next]_vars, ~Trigger
  PROVE  raised' = raised
BY DEF Next, Process, Receive, DropDuplicate, ReadNext, CheckRule, ActionsDone,
   LogAlert, BuildMessage, MessageRaises, PostWebhook, PostsDone, BufferEvent,
   FlushBatch, CommitPosition, Restart, Tick, vars, alertVars

\* A score that is backed stays so: later alerts are of another examination.
LEMMA BackedStays ==
  ASSUME Types, [Next]_vars, NEW e, NEW s, Backed(e, s)
  PROVE  Backed(e, s)'
<1>1. PICK l \in Nat, p \in Nat : Over(l, p) /\ Backs(raised, e, l, p, s)
  BY DEF Backed
<1>2. Over(l, p)'
  BY <1>1, OverStays
<1>3. Backs(raised', e, l, p, s)
  <2>1. CASE ~Trigger
    BY <1>1, <2>1, OnlyTriggerRaises
  <2>2. CASE Trigger
    <3> DEFINE n == Len(raised)
    <3>1. /\ n \in Nat
          /\ Len(raised') = n + 1
          /\ \A i \in 1 .. n : raised'[i] = raised[i]
          /\ raised'[n + 1] = NewAlert
          /\ \A i \in 1 .. n + 1 : i \in 1 .. n \/ i = n + 1
          /\ NewAlert.life = life
          /\ NewAlert.place = position
          /\ pc = "trigger"
      BY <2>2, TriggerFacts
    <3>2. ~ (l = life /\ p = position)
      <4>1. Looking /\ life \in Nat /\ position \in Nat
        BY <3>1 DEF Looking, Types
      <4> QED
        BY <1>1, <4>1 DEF Over
    <3>3. Backs(raised, e, l, p, s)
      BY <1>1
    <3>4. PICK k \in 1 .. n : /\ raised[k].id = e
                              /\ raised[k].life = l
                              /\ raised[k].place = p
                              /\ Score[raised[k].rule] = s
      BY <3>3 DEF Backs
    <3>5. \A i \in 1 .. n :
            raised[i].life = l /\ raised[i].place = p
              => Score[raised[i].rule] <= s
      BY <3>3 DEF Backs
    <3> HIDE DEF n
    <3>6. k \in 1 .. n + 1 /\ raised'[k] = raised[k]
      BY <3>1
    <3>7. ASSUME NEW i \in 1 .. n + 1,
                 raised'[i].life = l, raised'[i].place = p
          PROVE  Score[raised'[i].rule] <= s
      <4>1. i # n + 1
        BY <3>1, <3>2, <3>7
      <4>2. i \in 1 .. n /\ raised'[i] = raised[i]
        BY <3>1, <4>1
      <4> QED
        BY <3>5, <3>7, <4>2
    <3> QED
      BY <3>1, <3>4, <3>6, <3>7 DEF Backs
  <2> QED
    BY <2>1, <2>2
<1> QED
  BY <1>2, <1>3 DEF Backed

LEMMA AgesStep ==
  ASSUME Types, Ages, [Next]_vars
  PROVE  Ages'
<1>0. /\ life \in Nat /\ position \in Nat
      /\ \A i \in 1 .. Len(raised) :
           raised[i].life \in Nat /\ raised[i].place \in Nat
  BY RaisedFacts DEF Types
<1>1. CASE Trigger
  <2> DEFINE n == Len(raised)
  <2>1. /\ n \in Nat
        /\ Len(raised') = n + 1
        /\ \A i \in 1 .. n : raised'[i] = raised[i]
        /\ raised'[n + 1] = NewAlert
        /\ \A i \in 1 .. n + 1 : i \in 1 .. n \/ i = n + 1
        /\ NewAlert.life = life
        /\ NewAlert.place = position
    BY <1>1, TriggerFacts
  <2>2. life' = life /\ position' = position
    BY <1>1 DEF Trigger, streamVars
  <2>3. \A i \in 1 .. n : /\ raised[i].life <= life
                          /\ raised[i].life = life
                               => raised[i].place <= position
    BY DEF Ages
  <2> HIDE DEF n
  <2>4. ASSUME NEW i \in 1 .. n + 1
        PROVE  /\ raised'[i].life <= life
               /\ raised'[i].life = life => raised'[i].place <= position
    <3>1. CASE i = n + 1
      BY <1>0, <2>1, <3>1
    <3>2. CASE i \in 1 .. n
      BY <2>1, <2>3, <3>2
    <3> QED
      BY <2>1, <3>1, <3>2
  <2> QED
    BY <2>1, <2>2, <2>4 DEF Ages
<1>2. CASE Receive \/ DropDuplicate
  <2>1. life' = life /\ position' = position + 1 /\ raised' = raised
    BY <1>2 DEF Receive, DropDuplicate, ReadNext, alertVars
  <2>2. \A i \in 1 .. Len(raised) :
          raised[i].place <= position => raised[i].place <= position + 1
    BY <1>0
  <2> QED
    BY <2>1, <2>2 DEF Ages
<1>3. CASE Restart
  <2>1. life' = life + 1 /\ raised' = raised
    BY <1>3 DEF Restart
  <2>2. ASSUME NEW i \in 1 .. Len(raised)
        PROVE  raised[i].life <= life + 1 /\ raised[i].life # life + 1
    <3>1. raised[i].life \in Nat /\ raised[i].life <= life
      BY <1>0 DEF Ages
    <3> QED
      BY <1>0, <3>1
  <2> QED
    BY <2>1, <2>2 DEF Ages
<1>4. CASE ~Trigger /\ ~Receive /\ ~DropDuplicate /\ ~Restart
  <2>1. UNCHANGED <<raised, life, position>>
    BY <1>4 DEF Next, Process, CheckRule, ActionsDone, LogAlert,
       BuildMessage, MessageRaises, PostWebhook, PostsDone, BufferEvent,
       FlushBatch, CommitPosition, Tick, vars, streamVars, alertVars
  <2> QED
    BY <2>1 DEF Ages
<1> QED
  BY <1>1, <1>2, <1>3, <1>4

LEMMA ExaminationStep ==
  ASSUME Types, Ages, Examination, [Next]_vars
  PROVE  Examination'
<1>0. /\ life \in Nat /\ position \in Nat
      /\ \A i \in 1 .. Len(raised) :
           raised[i].life \in Nat /\ raised[i].place \in Nat
  BY RaisedFacts DEF Types
<1>1. CASE Receive
  <2>1. /\ life' = life /\ position' = position + 1 /\ raised' = raised
        /\ matched' = {}
    BY <1>1 DEF Receive, ReadNext, alertVars
  <2>2. \A i \in 1 .. Len(raised) :
          ~ (raised[i].life = life /\ raised[i].place = position + 1)
    BY <1>0 DEF Ages
  <2> QED
    BY <2>1, <2>2 DEF Examination, Here
<1>2. CASE Trigger
  <2> DEFINE n == Len(raised)
             r == Rules[ruleAt]
  <2>1. /\ n \in Nat
        /\ Len(raised') = n + 1
        /\ \A i \in 1 .. n : raised'[i] = raised[i]
        /\ raised'[n + 1] = NewAlert
        /\ \A i \in 1 .. n + 1 : i \in 1 .. n \/ i = n + 1
        /\ NewAlert.rule = r
        /\ NewAlert.id = event
        /\ NewAlert.life = life
        /\ NewAlert.place = position
        /\ pc = "trigger"
    BY <1>2, TriggerFacts
  <2>2. /\ matched' = matched \cup {r}
        /\ UNCHANGED <<life, position, event>>
    BY <1>2 DEF Trigger, streamVars
  <2>3. /\ \A i \in 1 .. n : Here(raised[i]) => raised[i].rule \in matched
        /\ \A q \in matched : \E i \in 1 .. n : /\ Here(raised[i])
                                              /\ raised[i].rule = q
                                              /\ raised[i].id = event
    BY <2>1 DEF Examination, Looking
  <2>4. \A a : Here(a) <=> (a.life = life' /\ a.place = position')
    BY <2>2 DEF Here
  <2> HIDE DEF n, r
  <2>5. ASSUME NEW i \in 1 .. n + 1, Here(raised'[i])
        PROVE  raised'[i].rule \in matched'
    <3>1. CASE i = n + 1
      BY <2>1, <2>2, <3>1
    <3>2. CASE i \in 1 .. n
      BY <2>1, <2>2, <2>3, <2>5, <3>2
    <3> QED
      BY <2>1, <3>1, <3>2
  <2>6. ASSUME NEW q \in matched'
        PROVE  \E i \in 1 .. n + 1 : /\ Here(raised'[i])
                                     /\ raised'[i].rule = q
                                     /\ raised'[i].id = event
    <3>1. CASE q = r
      <4>1. n + 1 \in 1 .. n + 1
        BY <2>1
      <4>2. Here(NewAlert)
        BY <2>1 DEF Here
      <4> QED
        BY <2>1, <3>1, <4>1, <4>2
    <3>2. CASE q \in matched
      <4>1. PICK i \in 1 .. n : /\ Here(raised[i])
                                /\ raised[i].rule = q
                                /\ raised[i].id = event
        BY <2>3, <3>2
      <4>2. i \in 1 .. n + 1 /\ raised'[i] = raised[i]
        BY <2>1
      <4> QED
        BY <4>1, <4>2
    <3> QED
      BY <2>2, <3>1, <3>2
  <2>7. \A i \in 1 .. n + 1 : Here(raised[i])' => raised'[i].rule \in matched'
    BY <2>4, <2>5 DEF Here
  <2>8. \A q \in matched' : \E i \in 1 .. n + 1 : /\ Here(raised[i])'
                                               /\ raised'[i].rule = q
                                               /\ raised'[i].id = event'
    BY <2>2, <2>6 DEF Here
  <2> QED
    BY <2>1, <2>7, <2>8 DEF Examination
<1>3. CASE ~Receive /\ ~Trigger
  <2>1. \/ ~Looking'
        \/ Looking /\ UNCHANGED <<raised, life, position, matched, event>>
    BY <1>3 DEF Next, Process, DropDuplicate, CheckRule, ActionsDone, LogAlert,
       BuildMessage, MessageRaises, PostWebhook, PostsDone, BufferEvent,
       FlushBatch, CommitPosition, Restart, Tick, vars, Looking, streamVars,
       alertVars, loopVars
  <2> QED
    BY <2>1 DEF Examination, Here
<1> QED
  BY <1>1, <1>2, <1>3

\* The event in hand leaves the engine with a score that is backed.
LEMMA ScoreOfTheEvent ==
  ASSUME Types, Examination, BufferEvent, RiskScore(matched) > 0
  PROVE  Backed(event, RiskScore(matched))'
<1> DEFINE s == RiskScore(matched)
<1>1. /\ s \in {Score[r] : r \in matched}
      /\ \A t \in {Score[r] : r \in matched} : t <= s
  <2>1. matched \in SUBSET Rule
    BY DEF Types
  <2> QED
    BY <2>1, RiskScoreIsHighest
<1>2. /\ Looking /\ ~Looking'
      /\ UNCHANGED <<raised, life, position, event, matched>>
  BY DEF BufferEvent, Looking, streamVars, alertVars, loopVars
<1>3. PICK r \in matched : Score[r] = s
  BY <1>1
<1>4. PICK i \in 1 .. Len(raised) : /\ Here(raised[i])
                                    /\ raised[i].rule = r
                                    /\ raised[i].id = event
  BY <1>2 DEF Examination
<1>5. \A j \in 1 .. Len(raised) :
        raised[j].life = life /\ raised[j].place = position
          => Score[raised[j].rule] <= s
  BY <1>1, <1>2 DEF Examination, Here
<1>6. Backs(raised, event, life, position, s)
  BY <1>3, <1>4, <1>5 DEF Backs, Here
<1>7. Over(life, position)'
  BY <1>2 DEF Over
<1>8. life \in Nat /\ position \in Nat
  BY DEF Types
<1>9. RiskScore(matched') = s
  BY <1>2
<1> HIDE DEF s
<1>10. \E l \in Nat, p \in Nat :
         Over(l, p)' /\ Backs(raised', event', l, p, s)
  BY <1>2, <1>6, <1>7, <1>8
<1> QED
  BY <1>9, <1>10 DEF Backed

LEMMA ScoreStep ==
  ASSUME Types, ScoreInv, [Next]_vars
  PROVE  ScoreInv'
<1>1. Ages'
  BY AgesStep DEF ScoreInv
<1>2. Examination'
  BY ExaminationStep DEF ScoreInv
<1>3. BatchBacked'
  <2>1. CASE BufferEvent
    <3> DEFINE n == Len(buffer)
    <3>1. /\ n \in Nat
          /\ Len(buffer') = n + 1
          /\ \A i \in 1 .. n : buffer'[i] = buffer[i]
          /\ buffer'[n + 1].id = event
          /\ buffer'[n + 1].score = RiskScore(matched)
          /\ \A i \in 1 .. n + 1 : i \in 1 .. n \/ i = n + 1
      BY <2>1, BufferFacts
    <3>2. event' = event /\ matched' = matched
      BY <2>1 DEF BufferEvent, loopVars
    <3>3. \A i \in 1 .. n : buffer[i].score > 0
                             => Backed(buffer[i].id, buffer[i].score)'
      <4> SUFFICES ASSUME NEW i \in 1 .. n, buffer[i].score > 0
                   PROVE  Backed(buffer[i].id, buffer[i].score)'
        OBVIOUS
      <4>1. PICK e, s : e = buffer[i].id /\ s = buffer[i].score
        OBVIOUS
      <4>2. Backed(e, s)
        BY <4>1 DEF ScoreInv, BatchBacked
      <4>3. Backed(e, s)'
        BY <4>2, BackedStays
      <4>4. buffer'[i] = buffer[i]
        BY <3>1
      <4> QED
        BY <4>1, <4>3, <4>4 DEF Backed
    <3> HIDE DEF n
    <3>4. ASSUME NEW i \in 1 .. n + 1, buffer'[i].score > 0
          PROVE  Backed(buffer[i].id, buffer[i].score)'
      <4>1. CASE i = n + 1
        <5>1. RiskScore(matched) > 0
          BY <3>1, <3>4, <4>1
        <5>2. Backed(event, RiskScore(matched))'
          BY <2>1, <5>1, ScoreOfTheEvent DEF ScoreInv
        <5> QED
          BY <3>1, <3>2, <4>1, <5>2
      <4>2. CASE i \in 1 .. n
        BY <3>1, <3>3, <3>4, <4>2
      <4> QED
        BY <3>1, <4>1, <4>2
    <3> QED
      BY <3>1, <3>4 DEF BatchBacked
  <2>2. CASE ~BufferEvent
    <3>1. buffer' = buffer \/ buffer' = <<>>
      BY <2>2 DEF Next, Process, Receive, DropDuplicate, ReadNext, CheckRule,
         Trigger, ActionsDone, LogAlert, BuildMessage, MessageRaises,
         PostWebhook, PostsDone, FlushBatch, CommitPosition, Restart, Tick,
         vars, bufferVars
    <3>2. ASSUME NEW i \in 1 .. Len(buffer), buffer' = buffer,
                 buffer[i].score > 0
          PROVE  Backed(buffer[i].id, buffer[i].score)'
      <4>1. PICK e, s : e = buffer[i].id /\ s = buffer[i].score
        OBVIOUS
      <4>2. Backed(e, s)
        BY <3>2, <4>1 DEF ScoreInv, BatchBacked
      <4>3. Backed(e, s)'
        BY <4>2, BackedStays
      <4> QED
        BY <3>2, <4>1, <4>3 DEF Backed
    <3>3. CASE buffer' = buffer
      <4>1. \A i \in 1 .. Len(buffer') : buffer'[i].score > 0
              => Backed(buffer[i].id, buffer[i].score)'
        BY <3>2, <3>3
      <4> QED
        BY <4>1 DEF BatchBacked
    <3>4. CASE buffer' = <<>>
      <4>1. Len(buffer') = 0
        BY <3>4
      <4> QED
        BY <4>1 DEF BatchBacked
    <3> QED
      BY <3>1, <3>3, <3>4
  <2> QED
    BY <2>1, <2>2
<1>4. TableBacked'
  <2> SUFFICES ASSUME NEW e \in Event, NEW s, s = stored'[e], s > 0
               PROVE  Backed(e, s)'
    BY DEF TableBacked
  <2>1. CASE stored'[e] = stored[e]
    <3>1. Backed(e, s)
      BY <2>1 DEF ScoreInv, TableBacked
    <3> QED
      BY <3>1, BackedStays
  <2>2. CASE stored'[e] # stored[e]
    <3>1. FlushBatch /\ stored' = Insert(stored, buffer)
      BY <2>2 DEF Next, Process, Receive, DropDuplicate, ReadNext, CheckRule,
         Trigger, ActionsDone, LogAlert, BuildMessage, MessageRaises,
         PostWebhook, PostsDone, BufferEvent, FlushBatch, CommitPosition,
         Restart, Tick, vars, bufferVars
    <3>2. PICK i \in 1 .. Len(buffer) :
             buffer[i].id = e /\ s = buffer[i].score
      BY <2>2, <3>1 DEF Insert
    <3>3. Backed(e, s)
      BY <3>2 DEF ScoreInv, BatchBacked
    <3> QED
      BY <3>3, BackedStays
  <2> QED
    BY <2>1, <2>2
<1> QED
  BY <1>1, <1>2, <1>3, <1>4 DEF ScoreInv

(***************************************************************************)
(* A risk score in command_logs is the score of the highest alert that one *)
(* examination of the event raised, for any rules and cooldowns, however   *)
(* often the topic is read again and whatever the id cache forgets.        *)
(***************************************************************************)
THEOREM ScoresAreBacked == Spec => []ScoreHasAlert
<1>1. Spec => []ScoreInv
  BY ScoreInit, ScoreStep, TypesAlways, PTL DEF Spec
<1>2. ScoreInv => ScoreHasAlert
  <2> SUFFICES ASSUME ScoreInv, NEW e \in Event, stored[e] > 0
               PROVE  \E i \in 1 .. Len(raised) :
                        /\ raised[i].id = e
                        /\ Score[raised[i].rule] = stored[e]
                        /\ \A j \in 1 .. Len(raised) :
                              Together(raised[i], raised[j])
                                 => Score[raised[j].rule] <= stored[e]
    BY DEF ScoreHasAlert
  <2>1. PICK l \in Nat, p \in Nat : Backs(raised, e, l, p, stored[e])
    BY DEF ScoreInv, TableBacked, Backed
  <2> QED
    BY <2>1 DEF Backs, Together
<1> QED
  BY <1>1, <1>2, PTL

-----------------------------------------------------------------------------
(* Every webhook is called *)

\* posts has a post to every webhook for the i-th alert.
Called(posts, i) == \A h \in 1 .. Hooks : <<h, i>> \in posts

\* The last alert is that of the rule and event in hand.
InHand ==
  /\ Len(raised) # 0
  /\ ruleAt <= Len(Rules)
  /\ raised[Len(raised)].rule = Rules[ruleAt]
  /\ raised[Len(raised)].life = life
  /\ raised[Len(raised)].place = position

(***************************************************************************)
(* EveryHookIsTried is not inductive: an alert is left behind when the     *)
(* loop over its actions ends, and it has its posts by then because every  *)
(* action "webhook" the loop has passed made all of them.                  *)
(***************************************************************************)
HookInv ==
  /\ actionAt \in Nat \ {0}
  /\ hookAt \in Nat \ {0}
  /\ pc \in {"idle", "match", "trigger", "act", "post", "flush", "commit"}
  /\ \A i \in 1 .. Len(raised) : raised[i].life <= life
  /\ pc \in {"act", "post"} =>
       /\ InHand
       /\ (\E j \in 1 .. Len(Actions[Rules[ruleAt]]) :
             j < actionAt /\ Actions[Rules[ruleAt]][j] = "webhook")
            => Called(attempted, Len(raised))
  /\ pc = "post" => \A h \in 1 .. Hooks :
                       h < hookAt => <<h, Len(raised)>> \in attempted
  /\ \A i \in 1 .. Len(raised) :
       ( /\ Wants(raised[i])
         /\ raised[i].life = life
         /\ raised[i].rule \notin Unsendable
         /\ pc \in {"act", "post"} => i # Len(raised) )
          => Called(attempted, i)

LEMMA HookInit == Init => HookInv
BY DEF Init, HookInv

LEMMA HookStep ==
  ASSUME Types, HookInv, [Next]_vars
  PROVE  HookInv'
<1>0. /\ life \in Nat /\ event \in Event /\ raised \in Seq(Raised)
      /\ Len(raised) \in Nat
      /\ Len(raised) # 0 => Len(raised) \in 1 .. Len(raised)
  BY DEF Types
\* A step outside the loop over actions.
<1>1. ASSUME UNCHANGED <<raised, attempted, life, actionAt, hookAt>>,
             pc \notin {"act", "post"},
             pc' \in {"idle", "match", "trigger", "flush", "commit"}
      PROVE  HookInv'
  BY <1>1 DEF HookInv, Called
<1>2. CASE Receive \/ DropDuplicate \/ BufferEvent \/ FlushBatch
           \/ CommitPosition \/ CheckRule
  <2>1. /\ UNCHANGED <<raised, attempted, life, actionAt, hookAt>>
        /\ pc \notin {"act", "post"}
        /\ pc' \in {"idle", "match", "trigger", "flush", "commit"}
    BY <1>2 DEF Receive, DropDuplicate, ReadNext, BufferEvent, FlushBatch,
       CommitPosition, CheckRule, NextRule, alertVars, loopVars
  <2> QED
    BY <1>1, <2>1
<1>3. CASE Trigger
  <2> DEFINE n == Len(raised)
             a == NewAlert
  <2>1. /\ pc = "trigger" /\ pc' = "act"
        /\ actionAt' = 1
        /\ ruleAt <= Len(Rules)
        /\ UNCHANGED <<life, position, attempted, hookAt, ruleAt>>
    BY <1>3, TriggerFacts DEF Trigger, streamVars
  <2>2. /\ a.rule = Rules[ruleAt] /\ a.life = life /\ a.place = position
        /\ Len(raised') = n + 1
        /\ \A i \in 1 .. n : raised'[i] = raised[i]
        /\ raised'[n + 1] = a
        /\ \A i \in 1 .. n + 1 : i \in 1 .. n \/ i = n + 1
    BY <1>3, TriggerFacts
  <2>3. n \in Nat
    BY <1>0
  <2> HIDE DEF a, n
  <2>4. InHand'
    BY <2>1, <2>2, <2>3 DEF InHand
  <2>5. ASSUME NEW i \in 1 .. n + 1
        PROVE  raised'[i].life <= life
    <3>1. CASE i = n + 1
      BY <1>0, <2>2, <3>1
    <3>2. CASE i \in 1 .. n
      BY <2>2, <3>2 DEF HookInv, n
    <3> QED
      BY <2>2, <3>1, <3>2
  <2>6. \A i \in 1 .. n :
          ( /\ Wants(raised[i])
            /\ raised[i].life = life
            /\ raised[i].rule \notin Unsendable ) => Called(attempted, i)
    BY <2>1 DEF HookInv, n
  <2>7. \A i \in 1 .. n + 1 :
          ( /\ Wants(raised'[i])
            /\ raised'[i].life = life'
            /\ raised'[i].rule \notin Unsendable
            /\ pc' \in {"act", "post"} => i # Len(raised') )
             => Called(attempted', i)
    BY <2>1, <2>2, <2>6 DEF Called
  <2>8. \A i \in 1 .. Len(raised') : raised'[i].life <= life'
    BY <2>1, <2>2, <2>5
  <2>9. ~ (\E j \in 1 .. Len(Actions[Rules[ruleAt]])' : j < actionAt')
    BY <2>1
  <2> QED
    BY <2>1, <2>2, <2>4, <2>7, <2>8, <2>9 DEF HookInv
<1>4. CASE ActionsDone
  <2>1. /\ pc = "act" /\ pc' = "match"
        /\ actionAt > Len(Actions[Rules[ruleAt]])
        /\ UNCHANGED <<raised, attempted, life, position, actionAt, hookAt>>
    BY <1>4 DEF ActionsDone, NextRule, streamVars, alertVars
  <2>2. Wants(raised[Len(raised)]) => Called(attempted, Len(raised))
    <3>1. raised[Len(raised)].rule = Rules[ruleAt] /\ Rules[ruleAt] \in Rule
      BY <2>1, RuleInHand DEF HookInv, InHand
    <3>2. Len(Actions[Rules[ruleAt]]) \in Nat
      BY <3>1
    <3>3. \A j \in 1 .. Len(Actions[Rules[ruleAt]]) : j < actionAt
      BY <2>1, <3>2 DEF HookInv
    <3> QED
      BY <2>1, <3>1, <3>3 DEF HookInv, Wants
  <2> QED
    BY <2>1, <2>2 DEF HookInv, Called
<1>5. CASE LogAlert
  <2>1. /\ pc = "act" /\ pc' = "act"
        /\ actionAt' = actionAt + 1
        /\ Actions[Rules[ruleAt]][actionAt] = "log"
        /\ UNCHANGED <<raised, attempted, life, position, hookAt, ruleAt>>
    BY <1>5 DEF LogAlert, Action, streamVars, alertVars
  <2>2. Rules[ruleAt] \in Rule /\ Len(Actions[Rules[ruleAt]]) \in Nat
    BY <2>1, RuleInHand DEF HookInv, InHand
  <2>3. \A j \in 1 .. Len(Actions[Rules[ruleAt]]) :
          j < actionAt' => j < actionAt \/ j = actionAt
    BY <2>1, <2>2 DEF HookInv
  <2>4. InHand' /\ \A i : Called(attempted', i) <=> Called(attempted, i)
    BY <2>1 DEF HookInv, InHand, Called
  <2>5. (\E j \in 1 .. Len(Actions[Rules[ruleAt]]) :
           j < actionAt' /\ Actions[Rules[ruleAt]][j] = "webhook")
          => Called(attempted, Len(raised))
    BY <2>1, <2>3 DEF HookInv
  <2>6. \A i \in 1 .. Len(raised') :
          ( /\ Wants(raised'[i])
            /\ raised'[i].life = life'
            /\ raised'[i].rule \notin Unsendable
            /\ pc' \in {"act", "post"} => i # Len(raised') )
             => Called(attempted', i)
    BY <2>1, <2>4 DEF HookInv
  <2>7. actionAt' \in Nat \ {0}
    BY <2>1 DEF HookInv
  <2> QED
    BY <2>1, <2>4, <2>5, <2>6, <2>7 DEF HookInv
<1>6. CASE BuildMessage
  <2>1. /\ pc = "act" /\ pc' = "post"
        /\ hookAt' = 1
        /\ UNCHANGED <<raised, attempted, life, position, actionAt,
                       ruleAt>>
    BY <1>6 DEF BuildMessage, streamVars, alertVars
  <2>2. InHand' /\ \A i : Called(attempted', i) <=> Called(attempted, i)
    BY <2>1 DEF HookInv, InHand, Called
  <2>3. \A i \in 1 .. Len(raised') :
          ( /\ Wants(raised'[i])
            /\ raised'[i].life = life'
            /\ raised'[i].rule \notin Unsendable
            /\ pc' \in {"act", "post"} => i # Len(raised') )
             => Called(attempted', i)
    BY <2>1, <2>2 DEF HookInv
  <2>4. (\E j \in 1 .. Len(Actions[Rules[ruleAt']]) :
           j < actionAt' /\ Actions[Rules[ruleAt']][j] = "webhook")
          => Called(attempted', Len(raised'))
    BY <2>1, <2>2 DEF HookInv
  <2>5. \A h \in 1 .. Hooks : ~ (h < hookAt')
    BY <2>1
  <2> QED
    BY <2>1, <2>2, <2>3, <2>4, <2>5 DEF HookInv
<1>7. CASE MessageRaises
  <2>1. /\ pc = "act" /\ pc' = "commit"
        /\ Rules[ruleAt] \in Unsendable
        /\ UNCHANGED <<raised, attempted, life, actionAt, hookAt>>
    BY <1>7 DEF MessageRaises, loopVars, alertVars
  <2>2. raised[Len(raised)].rule \in Unsendable
    BY <2>1 DEF HookInv, InHand
  <2> QED
    BY <2>1, <2>2 DEF HookInv, Called
<1>8. CASE PostWebhook
  <2>1. /\ pc = "post" /\ pc' = "post"
        /\ hookAt' = hookAt + 1
        /\ attempted' = attempted \cup {<<hookAt, Len(raised)>>}
        /\ UNCHANGED <<raised, life, position, actionAt, ruleAt>>
    BY <1>8 DEF PostWebhook, NextHook, AfterPost, streamVars
  <2>2. InHand' /\ \A i : Called(attempted, i) => Called(attempted', i)
    BY <2>1 DEF HookInv, InHand, Called
  <2>3. \A h \in 1 .. Hooks : h < hookAt' => h < hookAt \/ h = hookAt
    BY <2>1 DEF HookInv
  <2>4. \A i \in 1 .. Len(raised') :
          ( /\ Wants(raised'[i])
            /\ raised'[i].life = life'
            /\ raised'[i].rule \notin Unsendable
            /\ pc' \in {"act", "post"} => i # Len(raised') )
             => Called(attempted', i)
    BY <2>1, <2>2 DEF HookInv
  <2>5. \A h \in 1 .. Hooks : h < hookAt' => <<h, Len(raised')>> \in attempted'
    BY <2>1, <2>3 DEF HookInv
  <2>6. hookAt' \in Nat \ {0}
    BY <2>1 DEF HookInv
  <2> QED
    BY <2>1, <2>2, <2>4, <2>5, <2>6 DEF HookInv
<1>9. CASE PostsDone
  <2>1. /\ pc = "post" /\ pc' = "act"
        /\ hookAt > Hooks
        /\ actionAt' = actionAt + 1
        /\ UNCHANGED <<raised, attempted, life, position, hookAt, ruleAt>>
    BY <1>9 DEF PostsDone, streamVars, alertVars
  <2>2. InHand' /\ \A i : Called(attempted, i) => Called(attempted', i)
    BY <2>1 DEF HookInv, InHand, Called
  <2>3. Called(attempted', Len(raised'))
    BY <2>1 DEF HookInv, Called
  <2>4. \A i \in 1 .. Len(raised') :
          ( /\ Wants(raised'[i])
            /\ raised'[i].life = life'
            /\ raised'[i].rule \notin Unsendable
            /\ pc' \in {"act", "post"} => i # Len(raised') )
             => Called(attempted', i)
    BY <2>1, <2>2 DEF HookInv
  <2>5. actionAt' \in Nat \ {0}
    BY <2>1 DEF HookInv
  <2> QED
    BY <2>1, <2>2, <2>3, <2>4, <2>5 DEF HookInv
<1>10. CASE Restart
  <2>1. /\ life' = life + 1 /\ pc' = "idle"
        /\ UNCHANGED <<raised, actionAt, hookAt>>
    BY <1>10 DEF Restart, loopVars
  <2>2. \A i \in 1 .. Len(raised) : raised[i].life \in Nat
    <3>1. \A i \in 1 .. Len(raised) : raised[i] \in Raised
      BY <1>0
    <3> QED
      BY <3>1 DEF Raised
  <2> QED
    BY <1>0, <2>1, <2>2 DEF HookInv
<1>11. CASE Tick \/ UNCHANGED vars
  <2>1. UNCHANGED <<raised, attempted, life, position, actionAt, hookAt,
                    ruleAt, pc>>
    BY <1>11 DEF Tick, vars, streamVars, loopVars, alertVars
  <2> QED
    BY <2>1 DEF HookInv, InHand, Called
<1> QED
  BY <1>2, <1>3, <1>4, <1>5, <1>6, <1>7, <1>8, <1>9, <1>10, <1>11
  DEF Next, Process

(***************************************************************************)
(* Whichever posts fail, an alert the process is done with has been posted *)
(* to every webhook if its rule asks for one, unless building the alert's  *)
(* own message raised an exception.                                        *)
(***************************************************************************)
THEOREM AllHooksAreTried == Spec => []EveryHookIsTried
<1>1. Spec => []HookInv
  BY HookInit, HookStep, TypesAlways, PTL DEF Spec
<1>2. HookInv => EveryHookIsTried
  <2> SUFFICES ASSUME HookInv, NEW i \in 1 .. Len(raised),
                      Wants(raised[i]), raised[i].life = life,
                      raised[i].rule \notin Unsendable,
                      raised[i].place = position => ~Looking
               PROVE  Called(attempted, i)
    BY DEF EveryHookIsTried, Called
  <2>1. pc \in {"act", "post"} => i # Len(raised)
    BY DEF HookInv, InHand, Looking
  <2> QED
    BY <2>1 DEF HookInv
<1> QED
  BY <1>1, <1>2, PTL

=============================================================================
