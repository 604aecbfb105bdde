---------------------------- MODULE ASHTelemetry ----------------------------
(***************************************************************************)
(* The spans of src/src/consumer/ash_tracing.py as ash-consumer.py and     *)
(* api_server.py nest them: agent > process > flush > db in the main       *)
(* thread, flush > db in the timer, server in a worker of the API.         *)
(*                                                                         *)
(* Each thread has a context of its own, the current span, and a slot of   *)
(* the id generator with the ids the next span must have.  The start of a  *)
(* span, its attach and its detach may fail, which the code catches.  It   *)
(* also catches a failing end() (lines 305-311) and what goes wrong with   *)
(* the links of a flush (lines 710-715); these always succeed here.  What  *)
(* a span carries besides its ids and its sampled flag is left out, and so *)
(* is the export.                                                          *)
(***************************************************************************)
EXTENDS Integers, FiniteSets, SequencesExt

CONSTANTS
  Event,
  TraceOf, SpanOf, ParentOf,  \* ids in the events, NoId if missing or invalid
                              \* an id is a pair: who made it, and a number
  NoId,
  Kept,         \* the traces that the sample ratio keeps
  Carriers,     \* traceparent headers: {}, or the one parent in a header
  Main, Timer,  \* threads of the consumer
  Worker,       \* a process of the API
  FaultKind, MaxFaults, MaxJobs

Thread == {Main, Timer, Worker}

ASSUME TelemetryAssumption ==
  /\ Cardinality(Thread) = 3
  /\ Thread \cap {"agent", "client"} = {}
  /\ \A e \in Event : /\ TraceOf[e] = NoId \/ TraceOf[e][1] = "agent"
                      /\ SpanOf[e] = NoId \/ SpanOf[e][1] = "agent"
  /\ \A c \in Carriers : \A p \in c : p.trace[1] = "client"
  /\ FaultKind \subseteq {"start", "attach", "detach"}
  /\ {MaxFaults, MaxJobs} \subseteq Nat

VARIABLES
  spans,    \* every span that was started
  ends,     \* how often each was ended
  links,    \* what flush spans link to
  stack,    \* per thread: the handles it is inside of
  current,  \* per thread: the current span, or 0
  slot,     \* per thread: the forced ids
  leaked,   \* threads in which a detach has failed
  buffer,   \* batch_buffer
  jobs, faults

sdkVars == <<spans, ends, links, current, slot, leaked>>
vars == <<sdkVars, stack, buffer, jobs, faults>>

Empty == [trace |-> NoId, span |-> NoId]

Init ==
  /\ spans = <<>>
  /\ ends = <<>>
  /\ links = {}
  /\ stack = [t \in Thread |-> <<>>]
  /\ current = [t \in Thread |-> 0]
  /\ slot = [t \in Thread |-> Empty]
  /\ leaked = {}
  /\ buffer = {}
  /\ jobs = 0
  /\ faults = 0

Fault(k) == /\ k \in FaultKind
            /\ faults < MaxFaults
            /\ faults' = faults + 1

-----------------------------------------------------------------------------
(* Handles *)

Busy(t) == stack[t] # <<>>
Top(t) == Last(stack[t])
At(t, kinds, step) == Busy(t) /\ Top(t).kind \in kinds /\ Top(t).step = step

\* Of the innermost handle of t: it goes to another step, with span or token.
Goto(t, frame) == stack' = [stack EXCEPT ![t] = Append(Front(@), frame)]

NewFrame(kind, of) ==
  [kind |-> kind, of |-> of, span |-> 0, token |-> -1, step |-> "start"]

\* t leaves its innermost handle at step and is about to start one inside.
Inside(t, step, kind, of) ==
  stack' = [stack EXCEPT ![t] = Append(
              Append(Front(@), [Last(@) EXCEPT !.step = step]),
              NewFrame(kind, of))]

Outermost(t, kind, of) == stack' = [stack EXCEPT ![t] = <<NewFrame(kind, of)>>]

-----------------------------------------------------------------------------
(* Tracing.start_*_span() *)

\* trace_context_strings(): both ids, or no context at all.
HasContext(e) == TraceOf[e] # NoId /\ SpanOf[e] # NoId

\* A new random id.
Own(t) == <<t, Len(spans) + 1>>

\* TraceIdRatioBased: the same answer for a trace every time.
Ratio(trace) == trace \in Kept

\* Mutant: the parent is always said to be sampled.
AlwaysKept(e) == TRUE

ParentKept(e) == Ratio(TraceOf[e])

\* parent_span_id, as a remote parent in the trace of the event.
Remote(e) == IF HasContext(e) /\ ParentOf[e] # NoId
             THEN {[trace |-> TraceOf[e], id |-> ParentOf[e],
                    sampled |-> ParentKept(e)]}
             ELSE {}

\* Mutant: the inner spans are roots, too.
NoContext(t) == {}

\* The current span as a parent; without one the new span is a root.
Context(t) ==
  LET i == current[t]
  IN  IF i = 0 THEN {}
      ELSE {[trace |-> spans[i].trace, id |-> spans[i].id,
             sampled |-> spans[i].sampled]}

\* start_root_span(): an explicit empty context.
RootContext(t) == {}

ParentsOf(t) == CASE Top(t).kind = "agent"  -> Remote(Top(t).of)
                  [] Top(t).kind = "flush"  -> RootContext(t)
                  [] Top(t).kind = "server" -> Top(t).of
                  [] OTHER                  -> Context(t)

\* The SDK: ids from the parent or the generator, ParentBased(ratio).
NewSpans(t, parents) ==
  LET trace == IF parents # {} THEN (CHOOSE p \in parents : TRUE).trace
               ELSE IF slot[t].trace # NoId THEN slot[t].trace ELSE Own(t)
  IN  {[trace   |-> trace,
        id      |-> IF slot[t].span # NoId THEN slot[t].span ELSE Own(t),
        parents |-> {p.id : p \in parents},
        sampled |-> s,
        kind    |-> Top(t).kind,
        of      |-> Top(t).of,
        thread  |-> t] :
         s \in IF parents # {} THEN {p.sampled : p \in parents} ELSE {Ratio(trace)}}

\* links_for_events(): a link for each event with a context, with the flag
\* its reconstructed span has.
LinksTo(batch) == {[trace |-> TraceOf[e], id |-> SpanOf[e],
                    sampled |-> Ratio(TraceOf[e])] :
                      e \in {d \in batch : HasContext(d)}}

AfterStart(t, i) ==
  Goto(t, [Top(t) EXCEPT !.span = i,
                         !.step = IF Top(t).kind = "agent" THEN "clear"
                                                           ELSE "attach"])

(***************************************************************************)
(* _safe_span(): the handle has the span, or none if the SDK raises before *)
(* or after it has taken the span id out of the slot.                      *)
(***************************************************************************)
Start(t) ==
  /\ Busy(t)
  /\ Top(t).step = "start"
  /\ \/ /\ \E s \in NewSpans(t, ParentsOf(t)) : spans' = Append(spans, s)
        /\ ends' = Append(ends, 0)
        /\ links' = IF Top(t).kind = "flush" THEN links \cup LinksTo(Top(t).of)
                                             ELSE links
        /\ AfterStart(t, Len(spans) + 1)
        /\ slot' = [slot EXCEPT ![t].span = NoId]
        /\ UNCHANGED faults
     \/ /\ Fault("start")
        /\ AfterStart(t, 0)
        /\ slot' \in {slot, [slot EXCEPT ![t].span = NoId]}
        /\ UNCHANGED <<spans, ends, links>>
  /\ UNCHANGED <<current, leaked, buffer, jobs>>

\* Mutant: the trace id stays forced.
StillForced(t) == [slot EXCEPT ![t].span = NoId]

Cleared(t) == [slot EXCEPT ![t] = Empty]

\* start_agent_span(), finally: self._id_generator.clear()
Clear(t) ==
  /\ At(t, {"agent"}, "clear")
  /\ slot' = Cleared(t)
  /\ Goto(t, [Top(t) EXCEPT !.step = "attach"])
  /\ UNCHANGED <<spans, ends, links, current, leaked, buffer, jobs, faults>>

-----------------------------------------------------------------------------
(* SpanHandle *)

\* A handle without a span attaches nothing.
Attach(t) ==
  /\ Busy(t)
  /\ Top(t).step = "attach"
  /\ \/ /\ Top(t).span # 0
        /\ current' = [current EXCEPT ![t] = Top(t).span]
        /\ Goto(t, [Top(t) EXCEPT !.token = current[t], !.step = "body"])
        /\ UNCHANGED faults
     \/ /\ \/ Top(t).span = 0 /\ UNCHANGED faults
           \/ Top(t).span # 0 /\ Fault("attach")
        /\ Goto(t, [Top(t) EXCEPT !.step = "body"])
        /\ UNCHANGED current
  /\ UNCHANGED <<spans, ends, links, slot, leaked, buffer, jobs>>

\* Mutant: the context of the span stays.
NotRestored(t) == current

Restored(t) == [current EXCEPT ![t] = Top(t).token]

Detach(t) ==
  /\ Busy(t)
  /\ Top(t).step = "detach"
  /\ Goto(t, [Top(t) EXCEPT !.step = "end"])
  /\ \/ /\ Top(t).token = -1
        /\ UNCHANGED <<current, leaked, faults>>
     \/ /\ Top(t).token # -1
        /\ current' = Restored(t)
        /\ UNCHANGED <<leaked, faults>>
     \/ /\ Top(t).token # -1
        /\ Fault("detach")
        /\ leaked' = leaked \cup {t}
        /\ UNCHANGED current
  /\ UNCHANGED <<spans, ends, links, slot, buffer, jobs>>

End(t) ==
  /\ Busy(t)
  /\ Top(t).step = "end"
  /\ ends' = IF Top(t).span = 0 THEN ends
             ELSE [ends EXCEPT ![Top(t).span] = @ + 1]
  /\ stack' = [stack EXCEPT ![t] = Front(@)]
  /\ UNCHANGED <<spans, links, current, slot, leaked, buffer, jobs, faults>>

-----------------------------------------------------------------------------
(* The consumer and the API *)

\* Nobody holds _processing_lock.  A worker of the API has nothing in common
\* with the consumer, so that its requests need not overlap with anything.
Unlocked == \A t \in Thread : ~Busy(t)

NewJob == jobs < MaxJobs /\ jobs' = jobs + 1

\* start_agent_span(): the ids of the event are in the slot, or new ones.
Forced(t, e) == [slot EXCEPT ![t] = IF HasContext(e)
                                    THEN [trace |-> TraceOf[e], span |-> SpanOf[e]]
                                    ELSE [trace |-> Own(t), span |-> Own(t)]]

ProcessMessage(e) ==
  /\ Unlocked
  /\ NewJob
  /\ Outermost(Main, "agent", e)
  /\ slot' = Forced(Main, e)
  /\ UNCHANGED <<spans, ends, links, current, leaked, buffer, faults>>

\* The span of the processing itself, in the current context.
BeginProcess(t) ==
  /\ At(t, {"agent"}, "body")
  /\ Inside(t, "detach", "process", Top(t).of)
  /\ UNCHANGED <<sdkVars, buffer, jobs, faults>>

\* _process_message(): the event is buffered, and the batch may be full.
BufferEvent(t) ==
  /\ At(t, {"process"}, "body")
  /\ buffer' \in {buffer, buffer \cup {Top(t).of}}
  /\ \E step \in {"flush", "detach"} : Goto(t, [Top(t) EXCEPT !.step = step])
  /\ UNCHANGED <<sdkVars, jobs, faults>>

\* _flush_batch(), by size or by the timer.
FlushBatch(t) ==
  /\ \/ /\ At(t, {"process"}, "flush")
        /\ IF buffer = {} THEN Goto(t, [Top(t) EXCEPT !.step = "detach"])
           ELSE Inside(t, "detach", "flush", buffer)
        /\ UNCHANGED jobs
     \/ /\ t = Timer
        /\ Unlocked
        /\ NewJob
        /\ buffer # {}
        /\ Outermost(t, "flush", buffer)
  /\ buffer' = {}
  /\ UNCHANGED <<sdkVars, faults>>

BeginInsert(t) ==
  /\ At(t, {"flush"}, "body")
  /\ Inside(t, "written", "db", Top(t).of)
  /\ UNCHANGED <<sdkVars, buffer, jobs, faults>>

\* The batch is on record, or an exception puts it back.
EndFlush(t) ==
  /\ At(t, {"flush"}, "written")
  /\ buffer' \in {buffer, buffer \cup Top(t).of}
  /\ Goto(t, [Top(t) EXCEPT !.step = "detach"])
  /\ UNCHANGED <<sdkVars, jobs, faults>>

\* A request, between its before_request and its teardown hook.
BeginRequest(carrier) ==
  /\ Unlocked
  /\ NewJob
  /\ Outermost(Worker, "server", carrier)
  /\ UNCHANGED <<sdkVars, buffer, faults>>

BodyDone(t) ==
  /\ At(t, {"db", "server"}, "body")
  /\ Goto(t, [Top(t) EXCEPT !.step = "detach"])
  /\ UNCHANGED <<sdkVars, buffer, jobs, faults>>

Handle(t) == Start(t) \/ Clear(t) \/ Attach(t) \/ Detach(t) \/ End(t)

Next == \/ \E e \in Event : ProcessMessage(e)
        \/ \E c \in Carriers : BeginRequest(c)
        \/ \E t \in Thread : \/ Handle(t)
                             \/ BeginProcess(t)
                             \/ BufferEvent(t)
                             \/ FlushBatch(t)
                             \/ BeginInsert(t)
                             \/ EndFlush(t)
                             \/ BodyDone(t)

Spec == Init /\ [][Next]_vars

-----------------------------------------------------------------------------
(* Properties *)

\* s has the ids and the parent of event e's context.
Exact(s, e) == /\ s.id = SpanOf[e]
               /\ s.trace = TraceOf[e]
               /\ s.parents = {ParentOf[e]} \ {NoId}

(***************************************************************************)
(* docs/OBSERVABILITY.md, line 169: the span of an event has the agent's   *)
(* "exact" ids.  No other span ever takes ids that were forced for an      *)
(* event, although they are in a slot that outlives a failed start: every  *)
(* other id is new, and a batch and an event without a context have a      *)
(* trace of their own.                                                     *)
(***************************************************************************)
AgentIdsAreExact ==
  \A i \in 1 .. Len(spans) :
     LET s == spans[i]
     IN  IF s.kind = "agent" /\ HasContext(s.of)
         THEN Exact(s, s.of)
         ELSE /\ s.id[1] = s.thread
              /\ s.kind \in {"flush", "agent"} => s.trace[1] = s.thread

(***************************************************************************)
(* docs/OBSERVABILITY.md, lines 182-188: spans of one trace, and links to  *)
(* it, have one sampled flag, so that no child is exported whose root was  *)
(* dropped, wherever the flag is decided again.  The traces of clients are *)
(* left out: each of their requests says how it is sampled.                *)
(***************************************************************************)
TraceIsSampledAsOne ==
  LET all == ToSet(spans) \cup links
  IN  \A s, r \in all :
        (s.trace = r.trace /\ s.trace[1] # "client") => s.sampled = r.sampled

\* The spans that may be the parent of s, by the table on lines 169-173.
Parents(s) == {r \in ToSet(spans) :
                 r.of = s.of /\ <<r.kind, s.kind>> \in {<<"agent", "process">>,
                                                       <<"flush", "db">>}}

ChildOf(s, r) == s.parents = {r.id} /\ s.trace = r.trace

(***************************************************************************)
(* The processing of an event is a child of the event's span and a write   *)
(* to the database one of its flush, whoever triggered the flush and       *)
(* whatever that thread did before.  One failed start, attach or detach    *)
(* never attributes the processing of an event to another event: it is a   *)
(* root.                                                                   *)
(***************************************************************************)
StaysInItsTrace ==
  \A i \in 1 .. Len(spans) :
     LET s == spans[i]
     IN  \/ faults = 0 /\ s.kind \in {"process", "db"}
         \/ faults = 1 /\ s.kind = "process" /\ s.parents # {}
         => \E r \in Parents(s) : ChildOf(s, r)

(***************************************************************************)
(* Between two jobs a thread has ended every span it started, each once,   *)
(* has no current span that a log line could name, unless a detach failed, *)
(* and forces no ids.                                                      *)
(***************************************************************************)
NothingLeaks ==
  \A t \in Thread :
     ~Busy(t) =>
       /\ \A i \in 1 .. Len(spans) : spans[i].thread = t => ends[i] = 1
       /\ t \notin leaked => current[t] = 0
       /\ slot[t] = Empty
=============================================================================
