---------------------------- MODULE ASHAlerting ----------------------------
(***************************************************************************)
(* src/src/consumer/ash_alerting.py inside the consumer's message loop:    *)
(* the rules and their cooldowns, the actions of a rule that matches, and  *)
(* the risk score that goes back onto the event before it is stored.  A    *)
(* step is one look at a rule, one trigger, one action of a rule, or one   *)
(* webhook called; the clock moves between them, as a webhook may take its *)
(* full timeout, and it is not set back.                                   *)
(*                                                                         *)
(* Writing the batch is one step here (ASHConsumer and ASHStore have the   *)
(* details).  What surrounds the engine is run()'s loop: an event that     *)
(* fills the batch has it flushed, the timer flushes between two events,   *)
(* and the commit behind each event stores the position.  A restart loses  *)
(* the engine's state, the buffer and the cache of ids, and reads the      *)
(* topic again from the committed offset.                                  *)
(***************************************************************************)
EXTENDS Integers, Sequences, FiniteSets, SequencesExt

CONSTANTS Event,
          Rule,          \* the AlertRule objects
          DefaultRules,  \* the built-in rules, a sequence
          CustomRules,   \* the rules of alert_rules.json, a sequence
          Malformed,     \* those whose definition AlertRule() refuses
          Unsendable,    \* those whose severity has no upper()
          Matches,       \* Matches[r]: events whose command r's pattern finds
          Score,         \* Score[r]: SEVERITY_RISK_SCORE of its severity
          Actions,       \* Actions[r]: a sequence over {"webhook", "log"}
          Hooks,         \* number of configured webhook URLs
          Cooldown,      \* Cooldown[r]: its cooldown_seconds
          Topic,         \* the events in the order of the Kafka topic
          BatchSize,
          MaxSeenIds,    \* max_dedup_cache
          MaxClock, MaxFaults

ASSUME AlertingAssumption ==
  /\ Event # {}
  /\ DefaultRules \in Seq(Rule)
  /\ CustomRules \in Seq(Rule)
  /\ Malformed \subseteq Rule
  /\ Unsendable \subseteq Rule
  /\ Matches \in [Rule -> SUBSET Event]
  /\ Score \in [Rule -> 0 .. 10]
  /\ Actions \in [Rule -> Seq({"webhook", "log"})]
  /\ Hooks \in Nat
  /\ Cooldown \in [Rule -> Nat]
  /\ Topic \in Seq(Event)
  /\ BatchSize \in Nat \ {0}
  /\ MaxSeenIds \in Nat
  /\ MaxClock \in Nat
  /\ MaxFaults \in Nat

VARIABLES
  position, committed,  \* of the topic
  commitPending,        \* set by a flush, until a commit succeeds
  seen, buffer,         \* dedup cache; batch_buffer, with scores
  stored,               \* command_logs: the score of each stored event
  failed,               \* events whose processing raised
  lost,                 \* events in the buffer when the process died
  pc, event,            \* the message in hand
  ruleAt, actionAt, hookAt,   \* its loops
  matched,
  lastTriggered,        \* of each rule, or Never
  raised,               \* all alerts of all lives, in order
  attempted,            \* <<hook, alert>>: posts attempted
  life, clock, faults

streamVars == <<position, committed, commitPending>>
bufferVars == <<seen, buffer, stored, failed, lost>>
loopVars == <<event, ruleAt, actionAt, hookAt, matched>>
alertVars == <<lastTriggered, raised, attempted>>
vars == <<streamVars, bufferVars, pc, loopVars, alertVars, life, clock,
          faults>>

\* No score
None == -1

\* last_triggered = None: the rule is not cooling at any time of the clock.
Never(r) == -Cooldown[r]

(***************************************************************************)
(* _load_rules(): the loop over the custom rules ends with the first one   *)
(* that AlertRule() refuses, and keeps those before it.                    *)
(***************************************************************************)
LoadedCustom ==
  LET loaded == {i \in 1 .. Len(CustomRules) :
                   \A j \in 1 .. i : CustomRules[j] \notin Malformed}
  IN  SubSeq(CustomRules, 1, Cardinality(loaded))

Rules == DefaultRules \o LoadedCustom

Scored == [id : Event, score : 0 .. 10]

\* An alert and the examination it comes from: the place of the message in
\* the topic, and the life of the process that read it there.
Alert == [rule : Rule, id : Event, at : 0 .. MaxClock, life : 0 .. MaxFaults,
          place : 1 .. Len(Topic)]

\* check_event() has the event in hand.
Looking == pc \in {"match", "trigger", "act", "post"}

TypeOK ==
  /\ position \in 0 .. Len(Topic)
  /\ committed \in 0 .. position
  /\ seen \subseteq Event
  /\ buffer \in Seq(Scored)
  /\ stored \in [Event -> {None} \cup (0 .. 10)]
  /\ failed \subseteq Event
  /\ lost \subseteq Event
  /\ commitPending \in BOOLEAN
  /\ pc \in {"idle", "match", "trigger", "act", "post", "flush", "commit"}
  /\ event \in Event
  /\ ruleAt \in 1 .. Len(Rules) + 1
  /\ actionAt \in Nat \ {0}
  /\ hookAt \in Nat \ {0}
  /\ matched \subseteq ToSet(Rules)
  /\ DOMAIN lastTriggered = Rule
  /\ \A r \in Rule : lastTriggered[r] \in {Never(r)} \cup (0 .. MaxClock)
  /\ raised \in Seq(Alert)
  /\ attempted \subseteq (1 .. Hooks) \X (1 .. Len(raised))
  /\ life \in 0 .. MaxFaults
  /\ clock \in 0 .. MaxClock
  /\ faults \in 0 .. MaxFaults

Init ==
  /\ position = 0
  /\ committed = 0
  /\ commitPending = FALSE
  /\ seen = {}
  /\ buffer = <<>>
  /\ stored = [e \in Event |-> None]
  /\ failed = {}
  /\ lost = {}
  /\ pc = "idle"
  /\ event = CHOOSE e \in Event : TRUE
  /\ ruleAt = 1
  /\ actionAt = 1
  /\ hookAt = 1
  /\ matched = {}
  /\ lastTriggered = [r \in Rule |-> Never(r)]
  /\ raised = <<>>
  /\ attempted = {}
  /\ life = 0
  /\ clock = 0
  /\ faults = 0

Fault == faults < MaxFaults /\ faults' = faults + 1

-----------------------------------------------------------------------------
(* _process_message() up to the alert engine *)

(***************************************************************************)
(* _deduplicate() adds the id; past MaxSeenIds it drops the first half of  *)
(* list(set), an order Python does not define.                             *)
(***************************************************************************)
Cached(e) ==
  LET ids == seen \cup {e}
  IN  IF Cardinality(ids) > MaxSeenIds
      THEN {s \in SUBSET ids :
              Cardinality(s) = Cardinality(ids) - (MaxSeenIds \div 2)}
      ELSE {ids}

ReadNext ==
  /\ pc = "idle"
  /\ position < Len(Topic)
  /\ position' = position + 1
  /\ event' = Topic[position']
  /\ ruleAt' = 1
  /\ matched' = {}
  /\ UNCHANGED <<committed, commitPending, buffer, stored, failed, lost,
                 actionAt, hookAt, alertVars, life, clock, faults>>

\* A new id is remembered before the engine has looked at the event.
Receive ==
  /\ ReadNext
  /\ event' \notin seen
  /\ seen' \in Cached(event')
  /\ pc' = "match"

\* A duplicate is dropped before the engine sees it.
DropDuplicate ==
  /\ ReadNext
  /\ event' \in seen
  /\ pc' = "commit"
  /\ UNCHANGED seen

-----------------------------------------------------------------------------
(* check_event() *)

Cooling(r) == clock - lastTriggered[r] < Cooldown[r]

RuleMatches(r) == ~Cooling(r) /\ event \in Matches[r]

NextRule == ruleAt' = ruleAt + 1 /\ pc' = "match"

\* matches(): the clock is read here, and again by the trigger.
CheckRule ==
  /\ pc = "match"
  /\ ruleAt <= Len(Rules)
  /\ IF RuleMatches(Rules[ruleAt])
     THEN pc' = "trigger" /\ UNCHANGED ruleAt
     ELSE NextRule
  /\ UNCHANGED <<streamVars, bufferVars, event, actionAt, hookAt, matched,
                 alertVars, life, clock, faults>>

\* Mutant: the time of the trigger is not noted.
TriggerForgotten(r) == UNCHANGED lastTriggered

NoteTrigger(r) == lastTriggered' = [lastTriggered EXCEPT ![r] = clock]

Trigger ==
  /\ pc = "trigger"
  /\ LET r == Rules[ruleAt]
     IN  /\ matched' = matched \cup {r}
         /\ NoteTrigger(r)
         /\ raised' = Append(raised, [rule |-> r, id |-> event, at |-> clock,
                                      life |-> life, place |-> position])
  /\ actionAt' = 1
  /\ pc' = "act"
  /\ UNCHANGED <<streamVars, bufferVars, event, ruleAt, hookAt, attempted,
                 life, clock, faults>>

Action == Actions[Rules[ruleAt]][actionAt]

ActionsDone ==
  /\ pc = "act"
  /\ actionAt > Len(Actions[Rules[ruleAt]])
  /\ NextRule
  /\ UNCHANGED <<streamVars, bufferVars, event, actionAt, hookAt, matched,
                 alertVars, life, clock, faults>>

\* _log_alert() swallows whatever goes wrong with alerts.jsonl.
LogAlert ==
  /\ pc = "act"
  /\ actionAt <= Len(Actions[Rules[ruleAt]])
  /\ Action = "log"
  /\ actionAt' = actionAt + 1
  /\ UNCHANGED <<streamVars, bufferVars, pc, event, ruleAt, hookAt, matched,
                 alertVars, life, clock, faults>>

\* _send_webhook() builds the message, outside of any try.
BuildMessage ==
  /\ pc = "act"
  /\ actionAt <= Len(Actions[Rules[ruleAt]])
  /\ Action = "webhook"
  /\ Rules[ruleAt] \notin Unsendable
  /\ hookAt' = 1
  /\ pc' = "post"
  /\ UNCHANGED <<streamVars, bufferVars, event, ruleAt, actionAt, matched,
                 alertVars, life, clock, faults>>

(***************************************************************************)
(* Building the message raises: _process_message() logs the exception and  *)
(* is done with the event, whose id stays in the cache.  (Unsendable also  *)
(* stands for a webhook_urls that is no list: every post then raises.)     *)
(***************************************************************************)
MessageRaises ==
  /\ pc = "act"
  /\ actionAt <= Len(Actions[Rules[ruleAt]])
  /\ Action = "webhook"
  /\ Rules[ruleAt] \in Unsendable
  /\ failed' = failed \cup {event}
  /\ pc' = "commit"
  /\ UNCHANGED <<streamVars, seen, buffer, stored, lost, loopVars, alertVars,
                 life, clock, faults>>

\* Mutant: a failed post ends the loop over the URLs.
PostsUntilFailure(ok) == IF ok THEN hookAt + 1 ELSE Hooks + 1

\* Every failure of one URL is caught; the loop goes on with the next.
NextHook(ok) == hookAt + 1

\* Mutant: the exception of a post is not caught where it is raised.
PostEscapes(ok) == IF ok THEN "post" ELSE "commit"

AfterPost(ok) == "post"

PostWebhook ==
  /\ pc = "post"
  /\ hookAt <= Hooks
  /\ attempted' = attempted \cup {<<hookAt, Len(raised)>>}
  /\ \/ /\ hookAt' = NextHook(TRUE)
        /\ pc' = AfterPost(TRUE)
        /\ UNCHANGED faults
     \/ /\ Fault
        /\ hookAt' = NextHook(FALSE)
        /\ pc' = AfterPost(FALSE)
  /\ UNCHANGED <<streamVars, bufferVars, event, ruleAt, actionAt, matched,
                 lastTriggered, raised, life, clock>>

PostsDone ==
  /\ pc = "post"
  /\ hookAt > Hooks
  /\ actionAt' = actionAt + 1
  /\ pc' = "act"
  /\ UNCHANGED <<streamVars, bufferVars, event, ruleAt, hookAt, matched,
                 alertVars, life, clock, faults>>

-----------------------------------------------------------------------------
(* The rest of _process_message(), the flush, the commit, the process *)

\* Mutant: the first rule that matched gives the score.
FirstScore(rules) == IF rules = {} THEN 0
                     ELSE Score[CHOOSE r \in rules : TRUE]

RiskScore(rules) ==
  IF rules = {} THEN 0
  ELSE CHOOSE s \in {Score[r] : r \in rules} :
         \A r \in rules : Score[r] <= s

BufferEvent ==
  /\ pc = "match"
  /\ ruleAt > Len(Rules)
  /\ buffer' = Append(buffer, [id |-> event, score |-> RiskScore(matched)])
  /\ pc' = IF Len(buffer') >= BatchSize THEN "flush" ELSE "commit"
  /\ UNCHANGED <<streamVars, seen, stored, failed, lost, loopVars, alertVars,
                 life, clock, faults>>

\* ON CONFLICT DO NOTHING: the first score of an event stays.
Insert(table, b) ==
  [e \in Event |->
     IF table[e] # None \/ \A i \in 1 .. Len(b) : b[i].id # e
     THEN table[e]
     ELSE b[CHOOSE i \in 1 .. Len(b) : b[i].id = e].score]

(***************************************************************************)
(* _flush_batch(), on the main thread when the batch is full, or on the    *)
(* timer's, which waits for _processing_lock and so comes between two      *)
(* messages.  A flush that fails puts the batch back; the database may     *)
(* have taken it by then, when it is the file that failed.                 *)
(***************************************************************************)
FlushBatch ==
  /\ pc = "flush" \/ (pc = "idle" /\ buffer # <<>>)
  /\ \/ /\ stored' = Insert(stored, buffer)
        /\ buffer' = <<>>
        /\ commitPending' = TRUE
        /\ UNCHANGED faults
     \/ /\ Fault
        /\ stored' \in {stored, Insert(stored, buffer)}
        /\ UNCHANGED <<buffer, commitPending>>
  /\ pc' = IF pc = "flush" THEN "commit" ELSE pc
  /\ UNCHANGED <<position, committed, seen, failed, lost, loopVars,
                 alertVars, life, clock>>

(***************************************************************************)
(* The end of the loop in run(): after a flush, commit() stores the        *)
(* position, that of the message just processed, which may be waiting in   *)
(* the buffer.  A commit that raises has been stored or not, and is tried  *)
(* again behind the next message.                                          *)
(***************************************************************************)
CommitPosition ==
  /\ pc = "commit"
  /\ pc' = "idle"
  /\ \/ /\ ~commitPending
        /\ UNCHANGED <<committed, commitPending, faults>>
     \/ /\ commitPending
        /\ committed' = position
        /\ commitPending' = FALSE
        /\ UNCHANGED faults
     \/ /\ commitPending
        /\ Fault
        /\ committed' \in {committed, position}
        /\ UNCHANGED commitPending
  /\ UNCHANGED <<position, bufferVars, loopVars, alertVars, life, clock>>

Restart ==
  /\ Fault
  /\ life' = life + 1
  /\ position' = committed
  /\ commitPending' = FALSE
  /\ seen' = {}
  /\ buffer' = <<>>
  /\ lost' = lost \cup {buffer[i].id : i \in 1 .. Len(buffer)}
  /\ pc' = "idle"
  /\ lastTriggered' = [r \in Rule |-> Never(r)]
  /\ UNCHANGED <<committed, stored, failed, loopVars, raised, attempted,
                 clock>>

Tick ==
  /\ clock < MaxClock
  /\ clock' = clock + 1
  /\ UNCHANGED <<streamVars, bufferVars, pc, loopVars, alertVars, life,
                 faults>>

Process == \/ CheckRule
           \/ Trigger
           \/ ActionsDone
           \/ LogAlert
           \/ BuildMessage
           \/ MessageRaises
           \/ PostWebhook
           \/ PostsDone
           \/ BufferEvent

Next == \/ Receive
        \/ DropDuplicate
        \/ Process
        \/ FlushBatch
        \/ CommitPosition
        \/ Restart
        \/ Tick

Spec == Init /\ [][Next]_vars

-----------------------------------------------------------------------------
(* Properties *)

\* In one life of the process, two alerts of a rule are at least its cooldown
\* apart, whatever happens between the look at the clock and the trigger.
AlertsAreSpaced ==
  \A i, j \in 1 .. Len(raised) :
     (i < j /\ raised[i].rule = raised[j].rule
            /\ raised[i].life = raised[j].life)
        => raised[j].at - raised[i].at >= Cooldown[raised[i].rule]

\* The two alerts come from one examination of an event.
Together(a, b) == a.life = b.life /\ a.place = b.place

(***************************************************************************)
(* A stored risk score is the highest of one examination of the event: a   *)
(* rule of that score raised an alert for it, and no alert of the same     *)
(* examination has a higher one.  (An event may be examined several times: *)
(* after a restart, or when its id was dropped from the cache.)            *)
(***************************************************************************)
ScoreHasAlert ==
  \A e \in Event : stored[e] > 0 =>
     \E i \in 1 .. Len(raised) :
        /\ raised[i].id = e
        /\ Score[raised[i].rule] = stored[e]
        /\ \A j \in 1 .. Len(raised) :
              Together(raised[i], raised[j])
                 => Score[raised[j].rule] <= stored[e]

(***************************************************************************)
(* When check_event() is done with the message an alert comes from, it has *)
(* called every webhook for the alert, although earlier calls may have     *)
(* failed (lines 296-337), unless the alert's own message raised.          *)
(***************************************************************************)
Wants(a) == \E i \in 1 .. Len(Actions[a.rule]) : Actions[a.rule][i] = "webhook"

EveryHookIsTried ==
  \A i \in 1 .. Len(raised) :
     ( /\ Wants(raised[i])
       /\ raised[i].rule \notin Unsendable
       /\ raised[i].life = life
       /\ raised[i].place = position => ~Looking )
        => \A h \in 1 .. Hooks : <<h, i>> \in attempted

Buffered(e) == \E i \in 1 .. Len(buffer) : buffer[i].id = e

(***************************************************************************)
(* Whatever its webhooks do, every event that was read comes out of the    *)
(* alert engine: it is in hand, in the batch or stored, or the message of  *)
(* one of its alerts could not be built, or a kill found it in the batch   *)
(* (which a commit may have passed: ASHConsumer, bug_commit.cfg).          *)
(***************************************************************************)
EventsGetThrough ==
  \A i \in 1 .. position :
     \/ stored[Topic[i]] # None
     \/ Buffered(Topic[i])
     \/ Looking /\ event = Topic[i]
     \/ Topic[i] \in failed \cup lost

(***************************************************************************)
(* ash-consumer.py, lines 1176-1178: the score is "actually non-zero for   *)
(* anything the alert engine flagged".                                     *)
(***************************************************************************)
AlertedIsScored ==
  \A i \in 1 .. Len(raised) :
     LET a == raised[i]
     IN  Score[a.rule] > 0 /\ stored[a.id] # None => stored[a.id] > 0

\* README.md, line 575: "Commits a Kafka offset only after the PostgreSQL
\* transaction [...] succeed[s]"; here the offset passes an event that is
\* neither on its way to it nor in a batch that a kill took.
NothingIsLost ==
  \A i \in 1 .. committed :
     stored[Topic[i]] # None \/ Buffered(Topic[i]) \/ Topic[i] \in lost
=============================================================================
