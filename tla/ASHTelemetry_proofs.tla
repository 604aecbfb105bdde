----------------------- MODULE ASHTelemetry_proofs -----------------------
(***************************************************************************)
(* Proofs of the properties of ASHTelemetry, for any events, batches,      *)
(* requests and failures of the SDK.                                       *)
(***************************************************************************)
EXTENDS ASHTelemetry, TLAPS

-----------------------------------------------------------------------------
(* The inductive invariant *)

Id == UNION {Thread \X Nat, {NoId}, {TraceOf[e] : e \in Event},
             {SpanOf[e] : e \in Event}, {ParentOf[e] : e \in Event},
             {p.trace : p \in UNION Carriers}, {p.id : p \in UNION Carriers}}

Kind == {"agent", "process", "flush", "db", "server"}

About == UNION {Event, SUBSET Event, Carriers}

Span == [trace : Id, id : Id, parents : SUBSET Id,
         sampled : BOOLEAN \cup {p.sampled : p \in UNION Carriers},
         kind : Kind, of : About, thread : Thread]

Frame == [kind : Kind, of : About, span : Nat, token : Nat \cup {-1},
          step : {"start", "clear", "attach", "body", "flush", "written",
                  "detach", "end"}]

TypeOK ==
  /\ spans \in Seq(Span)
  /\ ends \in Seq(Nat)
  /\ Len(ends) = Len(spans)
  /\ stack \in [Thread -> Seq(Frame)]
  /\ current \in [Thread -> 0 .. Len(spans)]
  /\ slot \in [Thread -> [trace : Id, span : Id]]
  /\ leaked \subseteq Thread
  /\ buffer \subseteq Event
  /\ faults \in Nat

\* The lock: one thread at a time is inside of handles.
OneBusy == \A t, u \in Thread : Busy(t) /\ Busy(u) => t = u

Subject(kind) == CASE kind \in {"agent", "process"} -> Event
                   [] kind \in {"flush", "db"}      -> SUBSET Event
                   [] OTHER                         -> Carriers

Attached(f) == f.token # -1 /\ f.step # "end"

\* What a handle of t is for, and what it knows of its own span.
HandleOK(t, n) ==
  LET f == stack[t][n]
  IN  /\ f.of \in Subject(f.kind)
      /\ f.span \in 0 .. Len(spans)
      /\ f.span # 0 => /\ spans[f.span].kind = f.kind
                       /\ spans[f.span].of = f.of
                       /\ spans[f.span].thread = t
                       /\ ends[f.span] = 0
      /\ f.step = "start" => f.span = 0
      /\ f.step \in {"start", "clear", "attach"} => f.token = -1
      /\ f.step = "clear" => f.kind = "agent"
      /\ f.token <= Len(spans)
      /\ f.token # -1 => f.span # 0

HandleInv == \A t \in Thread : \A n \in DOMAIN stack[t] : HandleOK(t, n)

Nesting == {<<"agent", "process">>, <<"process", "flush">>, <<"flush", "db">>}

NestOK(t, n) ==
  LET f == stack[t][n]
  IN  /\ n = 1 => f.kind \notin {"process", "db"}
      /\ n > 1 => /\ <<stack[t][n - 1].kind, f.kind>> \in Nesting
                  /\ f.kind # "flush" => f.of = stack[t][n - 1].of
      /\ n < Len(stack[t]) => f.step \in {"written", "detach"}

\* Handles nest like the calls of the consumer.
NestInv == \A t \in Thread : \A n \in DOMAIN stack[t] : NestOK(t, n)

\* No two handles have one span.
DistinctInv ==
  \A t \in Thread : \A m, n \in DOMAIN stack[t] :
     stack[t][m].span = stack[t][n].span => m = n \/ stack[t][m].span = 0

HasHandle(i, t) == \E n \in DOMAIN stack[t] : stack[t][n].span = i

\* A span that has not ended is that of a handle.
OpenInv ==
  \A i \in 1 .. Len(spans) :
     \/ ends[i] = 1
     \/ ends[i] = 0 /\ HasHandle(i, spans[i].thread)

Within(t) == current[t] = 0 \/ \E n \in DOMAIN stack[t] : Attached(stack[t][n])

Based(t, n) == \/ ~Attached(stack[t][n])
               \/ stack[t][n].token = 0
               \/ \E m \in 1 .. n - 1 : Attached(stack[t][m])

\* Outside of all attached handles there is no current span.
ContextInv ==
  \A t \in Thread :
     t \notin leaked => Within(t) /\ \A n \in DOMAIN stack[t] : Based(t, n)

ParentOK(t) ==
  LET n == Len(stack[t])
      f == stack[t][n]
  IN  /\ f.step = "body" /\ f.token # -1 => current[t] = f.span
      /\ (/\ f.kind \in {"process", "db"}
          /\ f.step = "start"
          /\ stack[t][n - 1].token # -1) => current[t] = stack[t][n - 1].span

\* Whose child a span will be that t starts next.
ParentInv == \A t \in Thread : Busy(t) => ParentOK(t)

Good(f) == /\ f.step # "start" => f.span # 0
           /\ f.step \notin {"start", "clear", "attach"} => f.token # -1

AllGood == \A t \in Thread : \A n \in DOMAIN stack[t] : Good(stack[t][n])

\* One fault is one failed attach or start of a handle, or one leak.
BlameInv == /\ faults = 0 => leaked = {} /\ AllGood
            /\ faults = 1 => leaked = {} \/ AllGood

ForcedFor(t, e) == IF HasContext(e)
                   THEN slot[t] = [trace |-> TraceOf[e], span |-> SpanOf[e]]
                   ELSE slot[t].trace[1] = t /\ slot[t].span[1] = t

\* Ids are forced between the start of an event's handle and its first span.
SlotInv ==
  \A t \in Thread :
     \/ slot[t] = Empty
     \/ At(t, {"agent"}, "clear")
     \/ At(t, {"agent"}, "start")

ForceInv ==
  \A t \in Thread : At(t, {"agent"}, "start") => ForcedFor(t, Top(t).of)

Fair(s) == s.trace[1] = "client" \/ s.sampled = Ratio(s.trace)

SampledInv == /\ \A i \in 1 .. Len(spans) : Fair(spans[i])
              /\ \A l \in links : Fair(l)

HandleInvs == OneBusy /\ HandleInv /\ NestInv /\ DistinctInv /\ OpenInv

IInv ==
  /\ TypeOK /\ HandleInvs
  /\ ContextInv /\ ParentInv /\ BlameInv
  /\ SlotInv /\ ForceInv
  /\ AgentIdsAreExact /\ SampledInv /\ StaysInItsTrace

-----------------------------------------------------------------------------
(* Moves of the stacks *)

LEMMA InitHolds == Init => IInv
<1> SUFFICES ASSUME Init PROVE IInv
  OBVIOUS
<1>1. TypeOK
  BY DEF Init, TypeOK, Empty, Id
<1>2. /\ spans = <<>> /\ ends = <<>> /\ links = {} /\ leaked = {} /\ faults = 0
      /\ \A t \in Thread : stack[t] = <<>> /\ current[t] = 0 /\ slot[t] = Empty
  BY DEF Init
<1>3. OneBusy /\ HandleInv /\ NestInv /\ DistinctInv /\ ParentInv /\ ForceInv
  BY <1>2 DEF OneBusy, HandleInv, NestInv, DistinctInv, ParentInv, ForceInv, At,
              Busy
<1>4. OpenInv /\ ContextInv /\ BlameInv /\ SlotInv
  BY <1>2 DEF OpenInv, ContextInv, Within, BlameInv, AllGood, SlotInv
<1>5. AgentIdsAreExact /\ SampledInv /\ StaysInItsTrace
  BY <1>2 DEF AgentIdsAreExact, SampledInv, StaysInItsTrace
<1> QED
  BY <1>1, <1>3, <1>4, <1>5 DEF IInv, HandleInvs

\* The innermost handle of t becomes f.
Moves(t, f) ==
  /\ stack' \in [Thread -> Seq(Frame)]
  /\ Len(stack'[t]) = Len(stack[t])
  /\ \A n \in 1 .. Len(stack[t]) - 1 : stack'[t][n] = stack[t][n]
  /\ stack'[t][Len(stack[t])] = f
  /\ \A u \in Thread \ {t} : stack'[u] = stack[u]

\* It gets this span and token and goes to this step.
Turns(t, span, token, step) ==
  \E f \in Frame :
     /\ Moves(t, f)
     /\ f.kind = Top(t).kind /\ f.of = Top(t).of
     /\ f.span = span /\ f.token = token /\ f.step = step

\* A new handle inside of it.
Nests(t, step, kind, of) ==
  /\ stack' \in [Thread -> Seq(Frame)]
  /\ Len(stack'[t]) = Len(stack[t]) + 1
  /\ \A n \in 1 .. Len(stack[t]) - 1 : stack'[t][n] = stack[t][n]
  /\ LET f == stack'[t][Len(stack[t])]
     IN  /\ f.kind = Top(t).kind /\ f.of = Top(t).of /\ f.span = Top(t).span
         /\ f.token = Top(t).token /\ f.step = step
  /\ stack'[t][Len(stack[t]) + 1] = NewFrame(kind, of)
  /\ \A u \in Thread \ {t} : stack'[u] = stack[u]

Begins(t, f) ==
  /\ stack' \in [Thread -> Seq(Frame)]
  /\ Len(stack'[t]) = 1
  /\ stack'[t][1] = f
  /\ \A u \in Thread \ {t} : stack'[u] = stack[u]

Leaves(t) ==
  /\ stack' \in [Thread -> Seq(Frame)]
  /\ Len(stack'[t]) = Len(stack[t]) - 1
  /\ \A n \in 1 .. Len(stack[t]) - 1 : stack'[t][n] = stack[t][n]
  /\ \A u \in Thread \ {t} : stack'[u] = stack[u]

LEMMA TopIsFrame ==
  ASSUME TypeOK, NEW t \in Thread, Busy(t)
  PROVE  /\ Len(stack[t]) \in Nat \ {0}
         /\ DOMAIN stack[t] = 1 .. Len(stack[t])
         /\ Top(t) = stack[t][Len(stack[t])]
         /\ Top(t) \in Frame
         /\ Front(stack[t]) \in Seq(Frame)
         /\ Len(Front(stack[t])) = Len(stack[t]) - 1
         /\ \A n \in 1 .. Len(stack[t]) - 1 : Front(stack[t])[n] = stack[t][n]
<1>1. stack[t] \in Seq(Frame) /\ stack[t] # <<>>
  BY DEF TypeOK, Busy
<1>2. Len(stack[t]) \in Nat \ {0} /\ DOMAIN stack[t] = 1 .. Len(stack[t])
  BY <1>1
<1>3. Top(t) = stack[t][Len(stack[t])] /\ Top(t) \in Frame
  BY <1>1, <1>2 DEF Top, Last
<1> QED
  BY <1>1, <1>2, <1>3 DEF Front

LEMMA GotoMoves ==
  ASSUME TypeOK, NEW t \in Thread, Busy(t), NEW f \in Frame, Goto(t, f)
  PROVE  Moves(t, f)
<1>1. stack' = [stack EXCEPT ![t] = Append(Front(stack[t]), f)]
  BY DEF Goto
<1>2. stack \in [Thread -> Seq(Frame)]
  BY DEF TypeOK
<1> DEFINE s == Append(Front(stack[t]), f)
<1>3. /\ s \in Seq(Frame)
      /\ Len(s) = Len(stack[t])
      /\ \A n \in 1 .. Len(stack[t]) - 1 : s[n] = stack[t][n]
      /\ s[Len(stack[t])] = f
  BY TopIsFrame
<1> HIDE DEF s
<1>4. stack'[t] = s /\ stack' \in [Thread -> Seq(Frame)]
      /\ \A u \in Thread \ {t} : stack'[u] = stack[u]
  BY <1>1, <1>2, <1>3 DEF s
<1> QED
  BY <1>3, <1>4 DEF Moves

LEMMA NewIsFrame ==
  ASSUME NEW kind \in Kind, NEW of \in About
  PROVE  NewFrame(kind, of) \in Frame
  BY DEF NewFrame, Frame

LEMMA InsideNests ==
  ASSUME TypeOK, NEW t \in Thread, Busy(t), NEW step, NEW kind \in Kind,
         NEW of \in About, Inside(t, step, kind, of), step \in {"detach", "written"}
  PROVE  Nests(t, step, kind, of)
<1> DEFINE f == [Top(t) EXCEPT !.step = step]
           g == NewFrame(kind, of)
<1>1. /\ f \in Frame
      /\ f.kind = Top(t).kind /\ f.of = Top(t).of /\ f.span = Top(t).span
      /\ f.token = Top(t).token /\ f.step = step
  BY TopIsFrame DEF Frame
<1>2. g \in Frame
  BY NewIsFrame
<1>3. stack' = [stack EXCEPT ![t] = Append(Append(Front(stack[t]), f), g)]
  BY DEF Inside, Top
<1> HIDE DEF f, g
<1>4. stack \in [Thread -> Seq(Frame)]
  BY DEF TypeOK
<1> DEFINE s == Append(Append(Front(stack[t]), f), g)
<1>5. /\ s \in Seq(Frame)
      /\ Len(s) = Len(stack[t]) + 1
      /\ \A n \in 1 .. Len(stack[t]) - 1 : s[n] = stack[t][n]
      /\ s[Len(stack[t])] = f
      /\ s[Len(stack[t]) + 1] = g
  BY <1>1, <1>2, TopIsFrame
<1> HIDE DEF s
<1>6. stack'[t] = s /\ stack' \in [Thread -> Seq(Frame)]
      /\ \A u \in Thread \ {t} : stack'[u] = stack[u]
  BY <1>3, <1>4, <1>5 DEF s
<1>7. stack'[t][Len(stack[t]) + 1] = NewFrame(kind, of)
  BY <1>5, <1>6 DEF g
<1> QED
  BY <1>1, <1>5, <1>6, <1>7 DEF Nests

LEMMA OutermostBegins ==
  ASSUME TypeOK, NEW t \in Thread, NEW kind \in Kind, NEW of \in About,
         Outermost(t, kind, of)
  PROVE  Begins(t, NewFrame(kind, of))
<1> DEFINE f == NewFrame(kind, of)
<1>1. f \in Frame
  BY NewIsFrame
<1>2. stack \in [Thread -> Seq(Frame)] /\ stack' = [stack EXCEPT ![t] = <<f>>]
  BY DEF TypeOK, Outermost
<1> HIDE DEF f
<1>3. <<f>> \in Seq(Frame) /\ Len(<<f>>) = 1 /\ <<f>>[1] = f
  BY <1>1
<1>4. stack'[t] = <<f>> /\ stack' \in [Thread -> Seq(Frame)]
      /\ \A u \in Thread \ {t} : stack'[u] = stack[u]
  BY <1>2, <1>3
<1>5. Begins(t, f)
  BY <1>3, <1>4 DEF Begins
<1> QED
  BY <1>5 DEF f

LEMMA EndLeaves ==
  ASSUME TypeOK, NEW t \in Thread, Busy(t), stack' = [stack EXCEPT ![t] = Front(@)]
  PROVE  Leaves(t)
<1>1. stack \in [Thread -> Seq(Frame)] /\ Front(stack[t]) \in Seq(Frame)
  BY TopIsFrame DEF TypeOK
<1>2. stack'[t] = Front(stack[t]) /\ stack' \in [Thread -> Seq(Frame)]
      /\ \A u \in Thread \ {t} : stack'[u] = stack[u]
  BY <1>1
<1> QED
  BY <1>2, TopIsFrame DEF Leaves

-----------------------------------------------------------------------------
(* Types *)

LEMMA TopIsHandle ==
  ASSUME TypeOK, HandleInv, NEW t \in Thread, Busy(t)
  PROVE  /\ Top(t).of \in Subject(Top(t).kind)
         /\ Top(t).span \in 0 .. Len(spans)
         /\ Top(t).span # 0 => /\ spans[Top(t).span].kind = Top(t).kind
                               /\ spans[Top(t).span].of = Top(t).of
                               /\ spans[Top(t).span].thread = t
                               /\ ends[Top(t).span] = 0
         /\ Top(t).step = "start" => Top(t).span = 0
         /\ Top(t).step \in {"start", "clear", "attach"} => Top(t).token = -1
         /\ Top(t).step = "clear" => Top(t).kind = "agent"
         /\ Top(t).token <= Len(spans)
         /\ Top(t).token # -1 => Top(t).span # 0
<1>1. Len(stack[t]) \in DOMAIN stack[t] /\ Top(t) = stack[t][Len(stack[t])]
  BY TopIsFrame
<1> QED
  BY <1>1 DEF HandleInv, HandleOK

LEMMA LenTyped == TypeOK => Len(spans) \in Nat
  BY DEF TypeOK

LEMMA ParentsAreTyped ==
  ASSUME TypeOK, HandleInv, NEW t \in Thread, Busy(t), NEW p \in ParentsOf(t)
  PROVE  /\ p.trace \in Id /\ p.id \in Id
         /\ p.sampled \in BOOLEAN \cup {c.sampled : c \in UNION Carriers}
<1> DEFINE e == Top(t).of
<1>0. Top(t).kind \in Kind /\ Top(t).of \in Subject(Top(t).kind)
  BY TopIsFrame, TopIsHandle DEF Frame
<1>1. CASE Top(t).kind = "agent"
  <2>1. e \in Event
    BY <1>0, <1>1 DEF Subject
  <2>2. p = [trace |-> TraceOf[e], id |-> ParentOf[e], sampled |-> ParentKept(e)]
    BY <1>1 DEF ParentsOf, Remote
  <2>3. p.trace = TraceOf[e] /\ p.id = ParentOf[e] /\ p.sampled = Ratio(TraceOf[e])
    BY <2>2 DEF ParentKept
  <2> HIDE DEF e
  <2> QED
    BY <2>1, <2>3 DEF Id, Ratio
<1>2. CASE Top(t).kind = "server"
  <2>1. p \in UNION Carriers
    BY <1>0, <1>2 DEF Subject, ParentsOf
  <2> QED
    BY <2>1 DEF Id
<1>3. CASE Top(t).kind \in {"process", "db"}
  <2>1. p \in Context(t)
    BY <1>3 DEF ParentsOf
  <2> DEFINE c == current[t]
  <2>2. c \in 0 .. Len(spans) /\ c # 0
    BY <2>1 DEF TypeOK, Context
  <2>3. spans[c] \in Span
    BY <2>2, LenTyped DEF TypeOK
  <2>4. p = [trace |-> spans[c].trace, id |-> spans[c].id,
             sampled |-> spans[c].sampled]
    BY <2>1, <2>2 DEF Context
  <2> HIDE DEF c
  <2> QED
    BY <2>3, <2>4 DEF Span
<1>4. CASE Top(t).kind = "flush"
  BY <1>4 DEF ParentsOf, RootContext
<1> QED
  BY <1>0, <1>1, <1>2, <1>3, <1>4 DEF Kind

LEMMA OwnIsId ==
  ASSUME TypeOK, NEW t \in Thread
  PROVE  Own(t) \in Id /\ Own(t)[1] = t
<1>1. Len(spans) + 1 \in Nat
  BY LenTyped
<1> QED
  BY <1>1 DEF Own, Id

LEMMA NewSpansAreTyped ==
  ASSUME TypeOK, HandleInv, NEW t \in Thread, Busy(t),
         NEW s \in NewSpans(t, ParentsOf(t))
  PROVE  s \in Span
<1> DEFINE parents == ParentsOf(t)
           p == CHOOSE q \in parents : TRUE
           own == IF slot[t].trace # NoId THEN slot[t].trace ELSE Own(t)
           trace == IF parents # {} THEN p.trace ELSE own
           id == IF slot[t].span # NoId THEN slot[t].span ELSE Own(t)
<1>1. PICK flag \in IF parents # {} THEN {q.sampled : q \in parents}
                    ELSE {Ratio(trace)} :
        s = [trace |-> trace, id |-> id, parents |-> {q.id : q \in parents},
             sampled |-> flag, kind |-> Top(t).kind, of |-> Top(t).of,
             thread |-> t]
  BY DEF NewSpans
<1>2. own \in Id /\ id \in Id
  BY OwnIsId DEF TypeOK
<1>3. \A q \in parents : /\ q.trace \in Id /\ q.id \in Id
                         /\ q.sampled \in BOOLEAN \cup {c.sampled : c \in UNION Carriers}
  BY ParentsAreTyped
<1> HIDE DEF own, id, parents
<1>4. trace \in Id
  BY <1>2, <1>3
<1> HIDE DEF trace
<1>5. {q.id : q \in parents} \in SUBSET Id
  BY <1>3
<1>6. flag \in BOOLEAN \cup {c.sampled : c \in UNION Carriers}
  <2>1. Ratio(trace) \in BOOLEAN
    BY DEF Ratio
  <2> QED
    BY <1>1, <1>3, <2>1
<1>7. Top(t).kind \in Kind /\ Top(t).of \in About
  BY TopIsFrame DEF Frame
<1> QED
  BY <1>1, <1>2, <1>4, <1>5, <1>6, <1>7 DEF Span

LEMMA TopEdit ==
  ASSUME TypeOK, NEW t \in Thread, Busy(t),
         NEW step \in {"start", "clear", "attach", "body", "flush", "written",
                       "detach", "end"},
         NEW i \in Nat, NEW token \in Nat \cup {-1}
  PROVE  /\ [Top(t) EXCEPT !.step = step] \in Frame
         /\ [Top(t) EXCEPT !.span = i, !.step = step] \in Frame
         /\ [Top(t) EXCEPT !.token = token, !.step = step] \in Frame
<1>1. Top(t) \in Frame
  BY TopIsFrame
<1> QED
  BY <1>1 DEF Frame

LEMMA AtIsBusy ==
  ASSUME NEW t, NEW kinds, NEW step, At(t, kinds, step)
  PROVE  Busy(t) /\ Top(t).kind \in kinds /\ Top(t).step = step
  BY DEF At

\* What an action does to the stacks, typed.
LEMMA StackTyped ==
  ASSUME TypeOK, HandleInv, Next
  PROVE  stack' \in [Thread -> Seq(Frame)]
<1>1. ASSUME NEW e \in Event, ProcessMessage(e) PROVE stack' \in [Thread -> Seq(Frame)]
  <2>1. "agent" \in Kind /\ e \in About /\ Main \in Thread
    BY DEF Kind, About, Thread
  <2> QED
    BY <1>1, <2>1, OutermostBegins DEF ProcessMessage, Begins
<1>2. ASSUME NEW c \in Carriers, BeginRequest(c)
      PROVE  stack' \in [Thread -> Seq(Frame)]
  <2>1. "server" \in Kind /\ c \in About /\ Worker \in Thread
    BY DEF Kind, About, Thread
  <2> QED
    BY <1>2, <2>1, OutermostBegins DEF BeginRequest, Begins
<1>3. ASSUME NEW t \in Thread, Start(t) PROVE stack' \in [Thread -> Seq(Frame)]
  <2>1. Len(spans) + 1 \in Nat /\ Busy(t)
    BY <1>3, LenTyped DEF Start
  <2>2. PICK i \in Nat : AfterStart(t, i)
    BY <1>3, <2>1 DEF Start
  <2> QED
    BY <2>1, <2>2, TopEdit, GotoMoves DEF AfterStart, Moves
<1>4. ASSUME NEW t \in Thread, Clear(t) PROVE stack' \in [Thread -> Seq(Frame)]
  BY <1>4, TopEdit, AtIsBusy, GotoMoves DEF Clear, Moves
<1>5. ASSUME NEW t \in Thread, Attach(t) PROVE stack' \in [Thread -> Seq(Frame)]
  <2>1. current[t] \in Nat /\ Busy(t)
    BY <1>5, LenTyped DEF TypeOK, Attach
  <2> QED
    BY <1>5, <2>1, TopEdit, GotoMoves DEF Attach, Moves
<1>6. ASSUME NEW t \in Thread, Detach(t) PROVE stack' \in [Thread -> Seq(Frame)]
  BY <1>6, TopEdit, GotoMoves DEF Detach, Moves
<1>7. ASSUME NEW t \in Thread, End(t) PROVE stack' \in [Thread -> Seq(Frame)]
  BY <1>7, EndLeaves DEF End, Leaves
<1>8. ASSUME NEW t \in Thread, BeginProcess(t) PROVE stack' \in [Thread -> Seq(Frame)]
  <2>1. "process" \in Kind /\ Busy(t) /\ Top(t).of \in About
    BY <1>8, AtIsBusy, TopIsFrame DEF BeginProcess, Kind, Frame
  <2> QED
    BY <1>8, <2>1, InsideNests DEF BeginProcess, Nests
<1>9. ASSUME NEW t \in Thread, BufferEvent(t) PROVE stack' \in [Thread -> Seq(Frame)]
  BY <1>9, TopEdit, AtIsBusy, GotoMoves DEF BufferEvent, Moves
<1>10. ASSUME NEW t \in Thread, FlushBatch(t) PROVE stack' \in [Thread -> Seq(Frame)]
  <2>1. "flush" \in Kind /\ buffer \in About
    BY DEF Kind, About, TypeOK
  <2>2. CASE Outermost(t, "flush", buffer)
    BY <2>1, <2>2, OutermostBegins DEF Begins
  <2>3. CASE At(t, {"process"}, "flush") /\ Inside(t, "detach", "flush", buffer)
    BY <2>1, <2>3, AtIsBusy, InsideNests DEF Nests
  <2>4. CASE /\ At(t, {"process"}, "flush")
             /\ Goto(t, [Top(t) EXCEPT !.step = "detach"])
    BY <2>4, AtIsBusy, TopEdit, GotoMoves DEF Moves
  <2> QED
    BY <1>10, <2>2, <2>3, <2>4 DEF FlushBatch
<1>11. ASSUME NEW t \in Thread, BeginInsert(t) PROVE stack' \in [Thread -> Seq(Frame)]
  <2>1. "db" \in Kind /\ Busy(t) /\ Top(t).of \in About
    BY <1>11, AtIsBusy, TopIsFrame DEF BeginInsert, Kind, Frame
  <2> QED
    BY <1>11, <2>1, InsideNests DEF BeginInsert, Nests
<1>12. ASSUME NEW t \in Thread, EndFlush(t) PROVE stack' \in [Thread -> Seq(Frame)]
  BY <1>12, TopEdit, AtIsBusy, GotoMoves DEF EndFlush, Moves
<1>13. ASSUME NEW t \in Thread, BodyDone(t) PROVE stack' \in [Thread -> Seq(Frame)]
  BY <1>13, TopEdit, AtIsBusy, GotoMoves DEF BodyDone, Moves
<1> QED
  BY <1>1, <1>2, <1>3, <1>4, <1>5, <1>6, <1>7, <1>8, <1>9, <1>10, <1>11, <1>12,
     <1>13 DEF Next, Handle

LEMMA TypeStep ==
  ASSUME TypeOK, HandleInv, [Next]_vars
  PROVE  TypeOK'
<1>1. CASE UNCHANGED vars
  BY <1>1 DEF TypeOK, vars, sdkVars
<1>2. CASE Next
  <2>1. stack' \in [Thread -> Seq(Frame)]
    BY <1>2, StackTyped
  <2> DEFINE SdkTyped ==
        /\ spans' \in Seq(Span)
        /\ ends' \in Seq(Nat)
        /\ Len(ends') = Len(spans')
        /\ current' \in [Thread -> 0 .. Len(spans')]
        /\ slot' \in [Thread -> [trace : Id, span : Id]]
        /\ leaked' \subseteq Thread
        /\ faults' \in Nat
  <2>2. ASSUME UNCHANGED <<sdkVars, faults>> PROVE SdkTyped
    BY <2>2 DEF sdkVars, TypeOK
  <2>3. ASSUME UNCHANGED <<spans, ends, current, leaked, faults>>,
               slot' \in [Thread -> [trace : Id, span : Id]]
        PROVE  SdkTyped
    BY <2>3 DEF TypeOK
  <2>4. Empty \in [trace : Id, span : Id]
    BY DEF Empty, Id
  <2>5. ASSUME Fault("start") \/ Fault("attach") \/ Fault("detach")
        PROVE  faults' \in Nat
    BY <2>5 DEF Fault, TypeOK
  <2>6. ASSUME NEW e \in Event, ProcessMessage(e) PROVE SdkTyped /\ buffer' \subseteq Event
    <3>1. Main \in Thread /\ Own(Main) \in Id
      BY OwnIsId DEF Thread
    <3>2. HasContext(e) => TraceOf[e] \in Id /\ SpanOf[e] \in Id
      BY DEF Id
    <3>3. slot' \in [Thread -> [trace : Id, span : Id]]
      BY <2>6, <3>1, <3>2 DEF ProcessMessage, Forced, TypeOK
    <3> QED
      BY <2>3, <2>6, <3>3 DEF ProcessMessage, TypeOK
  <2>7. ASSUME NEW c \in Carriers, BeginRequest(c) PROVE SdkTyped /\ buffer' \subseteq Event
    BY <2>2, <2>7 DEF BeginRequest, TypeOK
  <2>8. ASSUME NEW t \in Thread, Start(t) PROVE SdkTyped /\ buffer' \subseteq Event
    <3> DEFINE freed == [slot EXCEPT ![t].span = NoId]
    <3>1. freed \in [Thread -> [trace : Id, span : Id]]
      BY DEF TypeOK, Id
    <3>2. slot' \in [Thread -> [trace : Id, span : Id]] /\ buffer' \subseteq Event
      BY <2>8, <3>1 DEF Start, TypeOK
    <3>3. CASE UNCHANGED faults
      <4>1. /\ \E s \in NewSpans(t, ParentsOf(t)) : spans' = Append(spans, s)
            /\ ends' = Append(ends, 0)
            /\ UNCHANGED <<current, leaked>>
        BY <2>8, <3>3 DEF Start, Fault, TypeOK
      <4>2. PICK s \in Span : spans' = Append(spans, s)
        BY <2>8, <4>1, NewSpansAreTyped DEF Start
      <4>3. spans' \in Seq(Span) /\ Len(spans') = Len(spans) + 1
        BY <4>2 DEF TypeOK
      <4>4. ends' \in Seq(Nat) /\ Len(ends') = Len(spans')
        BY <4>1, <4>3 DEF TypeOK
      <4>5. current' \in [Thread -> 0 .. Len(spans')]
        BY <4>1, <4>3, LenTyped DEF TypeOK
      <4> QED
        BY <3>2, <3>3, <4>1, <4>3, <4>4, <4>5 DEF TypeOK
    <3>4. CASE Fault("start") /\ UNCHANGED <<spans, ends, links, current, leaked>>
      BY <3>2, <3>4, <2>5 DEF TypeOK
    <3> QED
      BY <2>8, <3>3, <3>4 DEF Start
  <2>9. ASSUME NEW t \in Thread, Clear(t) PROVE SdkTyped /\ buffer' \subseteq Event
    <3>1. slot' \in [Thread -> [trace : Id, span : Id]]
      BY <2>4, <2>9 DEF Clear, Cleared, TypeOK
    <3> QED
      BY <2>3, <2>9, <3>1 DEF Clear, TypeOK
  <2>10. ASSUME NEW t \in Thread, Attach(t) PROVE SdkTyped /\ buffer' \subseteq Event
    <3>1. Top(t).span \in 0 .. Len(spans)
      BY <2>10, TopIsHandle DEF Attach
    <3>2. current' \in [Thread -> 0 .. Len(spans)]
      BY <2>10, <3>1 DEF Attach, TypeOK
    <3>3. faults' \in Nat
      BY <2>10, <2>5 DEF Attach, TypeOK
    <3> QED
      BY <2>10, <3>2, <3>3 DEF Attach, TypeOK
  <2>11. ASSUME NEW t \in Thread, Detach(t) PROVE SdkTyped /\ buffer' \subseteq Event
    <3>1. /\ Top(t).token \in Nat \cup {-1}
          /\ Top(t).token <= Len(spans)
      BY <2>11, TopIsHandle, TopIsFrame DEF Detach, Frame
    <3>2. Top(t).token # -1 => Restored(t) \in [Thread -> 0 .. Len(spans)]
      BY <3>1, LenTyped DEF Restored, TypeOK
    <3>3. current' \in [Thread -> 0 .. Len(spans)]
      BY <2>11, <3>2 DEF Detach, TypeOK
    <3>4. faults' \in Nat /\ leaked' \subseteq Thread
      BY <2>11, <2>5 DEF Detach, TypeOK
    <3> QED
      BY <2>11, <3>3, <3>4 DEF Detach, TypeOK
  <2>12. ASSUME NEW t \in Thread, End(t) PROVE SdkTyped /\ buffer' \subseteq Event
    <3>1. ends' \in Seq(Nat) /\ Len(ends') = Len(ends)
      <4>1. ends \in [1 .. Len(ends) -> Nat] /\ Len(ends) \in Nat
        BY DEF TypeOK
      <4>2. Top(t).span \in 0 .. Len(ends)
        BY <2>12, TopIsHandle DEF End, TypeOK
      <4>3. ends' \in [1 .. Len(ends) -> Nat]
        BY <2>12, <4>1, <4>2 DEF End
      <4> QED
        BY <4>1, <4>3
    <3> QED
      BY <2>12, <3>1 DEF End, TypeOK
  <2>13. ASSUME NEW t \in Thread,
                BeginProcess(t) \/ BeginInsert(t) \/ BodyDone(t)
         PROVE  SdkTyped /\ buffer' \subseteq Event
    BY <2>2, <2>13 DEF BeginProcess, BeginInsert, BodyDone, TypeOK
  <2>14. ASSUME NEW t \in Thread, BufferEvent(t) PROVE SdkTyped /\ buffer' \subseteq Event
    <3>1. Top(t).of \in Event
      BY <2>14, AtIsBusy, TopIsHandle DEF BufferEvent, Subject
    <3> QED
      BY <2>2, <2>14, <3>1 DEF BufferEvent, TypeOK
  <2>15. ASSUME NEW t \in Thread, FlushBatch(t) PROVE SdkTyped /\ buffer' \subseteq Event
    BY <2>2, <2>15 DEF FlushBatch, TypeOK
  <2>16. ASSUME NEW t \in Thread, EndFlush(t) PROVE SdkTyped /\ buffer' \subseteq Event
    <3>1. Top(t).of \subseteq Event
      BY <2>16, AtIsBusy, TopIsHandle DEF EndFlush, Subject
    <3> QED
      BY <2>2, <2>16, <3>1 DEF EndFlush, TypeOK
  <2>17. SdkTyped /\ buffer' \subseteq Event
    BY <1>2, <2>6, <2>7, <2>8, <2>9, <2>10, <2>11, <2>12, <2>13, <2>14, <2>15,
       <2>16 DEF Next, Handle
  <2> QED
    BY <2>1, <2>17 DEF TypeOK
<1> QED
  BY <1>1, <1>2

-----------------------------------------------------------------------------
(* Handles *)

LEMMA OthersIdle ==
  ASSUME TypeOK, OneBusy, NEW t \in Thread, Busy(t)
  PROVE  \A u \in Thread \ {t} : stack[u] = <<>>
  BY DEF OneBusy, Busy

LEMMA SpanIsTyped ==
  ASSUME TypeOK, NEW i \in 1 .. Len(spans)
  PROVE  spans[i] \in Span /\ spans[i].thread \in Thread
<1>1. spans[i] \in Span
  BY DEF TypeOK
<1> QED
  BY <1>1 DEF Span

\* Only the step and the token of the innermost handle change.
LEMMA MoveKeepsHandles ==
  ASSUME TypeOK, HandleInvs, NEW t \in Thread, Busy(t), NEW f \in Frame,
         Moves(t, f), UNCHANGED <<spans, ends>>,
         f.kind = Top(t).kind, f.of = Top(t).of, f.span = Top(t).span,
         f.step # "start", f.step \in {"clear", "attach"} => f.token = -1,
         f.step = "clear" => f.kind = "agent",
         f.token <= Len(spans), f.token # -1 => f.span # 0
  PROVE  HandleInvs'
<1> DEFINE n == Len(stack[t])
<1>1. /\ n \in Nat \ {0} /\ Top(t) = stack[t][n]
      /\ DOMAIN stack[t] = 1 .. n /\ DOMAIN stack'[t] = 1 .. n
      /\ Len(stack'[t]) = n
  BY TopIsFrame DEF Moves
<1>2. /\ stack'[t][n] = f
      /\ \A m \in 1 .. n - 1 : stack'[t][m] = stack[t][m]
  BY DEF Moves
<1>3. \A u \in Thread \ {t} : stack'[u] = <<>> /\ stack[u] = <<>>
  BY OthersIdle DEF Moves, HandleInvs
<1>4. \A m \in 1 .. n : /\ stack'[t][m].kind = stack[t][m].kind
                        /\ stack'[t][m].of = stack[t][m].of
                        /\ stack'[t][m].span = stack[t][m].span
  BY <1>1, <1>2
<1> HIDE DEF n
<1>5. OneBusy'
  BY <1>3 DEF OneBusy, Busy
<1>6. HandleInv'
  <2>1. \A m \in 1 .. n - 1 : HandleOK(t, m)'
    BY <1>1, <1>2 DEF HandleOK, HandleInvs, HandleInv
  <2>2. HandleOK(t, Len(stack[t]))'
    BY <1>1, <1>2, TopIsHandle DEF HandleOK, HandleInvs, n
  <2>3. \A m \in 1 .. n : HandleOK(t, m)'
    BY <1>1, <2>1, <2>2
  <2> QED
    BY <1>1, <1>3, <2>3 DEF HandleInv
<1>7. NestInv'
  <2> SUFFICES ASSUME NEW m \in 1 .. n
               PROVE  NestOK(t, m)'
    BY <1>1, <1>3 DEF NestInv
  <2>1. m > 1 => m - 1 \in 1 .. n
    BY <1>1
  <2>2. m < n => stack'[t][m] = stack[t][m]
    BY <1>1, <1>2
  <2>3. NestOK(t, m)
    BY <1>1 DEF NestInv, HandleInvs
  <2> QED
    <3>1. m = 1 => stack'[t][m].kind \notin {"process", "db"}
      BY <1>4, <2>3 DEF NestOK
    <3>2. m > 1 => /\ stack'[t][m - 1].kind = stack[t][m - 1].kind
                   /\ stack'[t][m - 1].of = stack[t][m - 1].of
      BY <1>4, <2>1
    <3>3. m > 1 => /\ <<stack'[t][m - 1].kind, stack'[t][m].kind>> \in Nesting
                   /\ stack'[t][m].kind # "flush" =>
                        stack'[t][m].of = stack'[t][m - 1].of
      BY <1>4, <2>3, <3>2 DEF NestOK
    <3>4. m < Len(stack'[t]) => stack'[t][m].step \in {"written", "detach"}
      BY <1>1, <2>2, <2>3 DEF NestOK
    <3> QED
      BY <3>1, <3>3, <3>4 DEF NestOK
<1>8. DistinctInv'
  BY <1>1, <1>3, <1>4 DEF DistinctInv, HandleInvs
<1>9. OpenInv'
  <2> SUFFICES ASSUME NEW i \in 1 .. Len(spans), HasHandle(i, spans[i].thread)
               PROVE  HasHandle(i, spans[i].thread)'
    BY DEF OpenInv, HandleInvs
  <2>1. DOMAIN stack'[t] = DOMAIN stack[t]
    BY <1>1
  <2>2. spans[i].thread = t
    BY <2>1, <1>3, SpanIsTyped DEF HasHandle
  <2> QED
    BY <1>1, <1>4, <2>1, <2>2 DEF HasHandle
<1> QED
  BY <1>5, <1>6, <1>7, <1>8, <1>9 DEF HandleInvs

\* A handle is entered inside of the innermost one.
LEMMA NestKeepsHandles ==
  ASSUME TypeOK, HandleInvs, NEW t \in Thread, Busy(t),
         NEW step \in {"detach", "written"}, NEW kind, NEW of,
         Nests(t, step, kind, of),
         UNCHANGED <<spans, ends>>,
         of \in Subject(kind), <<Top(t).kind, kind>> \in Nesting,
         kind # "flush" => of = Top(t).of
  PROVE  HandleInvs'
<1> DEFINE n == Len(stack[t])
           f == stack'[t][n]
           g == stack'[t][n + 1]
<1>1. /\ n \in Nat \ {0} /\ Top(t) = stack[t][n] /\ Top(t) \in Frame
      /\ DOMAIN stack[t] = 1 .. n /\ DOMAIN stack'[t] = 1 .. n + 1
      /\ Len(stack'[t]) = n + 1
  BY TopIsFrame DEF Nests
<1>2. \A m \in 1 .. n - 1 : stack'[t][m] = stack[t][m]
  BY DEF Nests
<1>3. \A u \in Thread \ {t} : stack'[u] = <<>> /\ stack[u] = <<>>
  BY OthersIdle DEF Nests, HandleInvs
<1>f. /\ f.kind = Top(t).kind /\ f.of = Top(t).of /\ f.span = Top(t).span
      /\ f.token = Top(t).token /\ f.step = step
  BY DEF Nests
<1>g. /\ g.kind = kind /\ g.of = of /\ g.span = 0 /\ g.token = -1
      /\ g.step = "start"
  BY DEF Nests, NewFrame
<1>4. \A m \in 1 .. n : /\ stack'[t][m].kind = stack[t][m].kind
                        /\ stack'[t][m].of = stack[t][m].of
                        /\ stack'[t][m].span = stack[t][m].span
  BY <1>1, <1>2, <1>f
<1> HIDE DEF n
<1>5. OneBusy'
  BY <1>3 DEF OneBusy, Busy
<1>6. HandleInv'
  <2>0. \A m \in 1 .. n : HandleOK(t, m)
    BY <1>1 DEF HandleInvs, HandleInv
  <2>1. ASSUME NEW m \in 1 .. n - 1 PROVE HandleOK(t, m)'
    <3>1. HandleOK(t, m) /\ stack'[t][m] = stack[t][m]
      BY <1>1, <1>2, <2>0
    <3> QED
      BY <3>1 DEF HandleOK
  <2>2. ASSUME NEW m \in {n} PROVE HandleOK(t, m)'
    <3>1. HandleOK(t, m) /\ stack[t][m] = Top(t)
      BY <1>1, <2>0
    <3>2. /\ f.kind = Top(t).kind /\ f.of = Top(t).of /\ f.span = Top(t).span
          /\ f.token = Top(t).token /\ f.step \in {"detach", "written"}
      BY <1>f
    <3>3. stack'[t][m] = f
      OBVIOUS
    <3> HIDE DEF f
    <3> QED
      BY <3>1, <3>2, <3>3 DEF HandleOK
  <2>3. ASSUME NEW m \in {n + 1} PROVE HandleOK(t, m)'
    BY <1>2, <1>g, LenTyped DEF HandleOK
  <2>4. \A m \in 1 .. n + 1 : HandleOK(t, m)'
    BY <1>1, <2>1, <2>2, <2>3
  <2> QED
    BY <1>1, <1>3, <2>4 DEF HandleInv
<1>7. NestInv'
  <2> SUFFICES ASSUME NEW m \in 1 .. n + 1
               PROVE  NestOK(t, m)'
    BY <1>1, <1>3 DEF NestInv
  <2>1. CASE m = n + 1
    <3>1. m > 1 /\ m - 1 = n /\ Len(stack'[t]) = m
      BY <1>1, <2>1
    <3> QED
      BY <1>1, <1>2, <1>f, <1>g, <2>1, <3>1 DEF NestOK
  <2>2. CASE m \in 1 .. n
    <3>1. stack'[t][m].step \in {"written", "detach"}
      <4>1. CASE m = n
        BY <1>2, <1>f, <4>1
      <4>2. CASE m \in 1 .. n - 1
        <5>1. NestOK(t, m) /\ m < n
          BY <1>1, <4>2 DEF NestInv, HandleInvs
        <5> QED
          BY <1>2, <4>2, <5>1 DEF NestOK, n
      <4> QED
        BY <1>1, <2>2, <4>1, <4>2
    <3>2. NestOK(t, m)
      BY <1>1, <2>2 DEF NestInv, HandleInvs
    <3>3. m = 1 => stack'[t][m].kind \notin {"process", "db"}
      BY <1>4, <2>2, <3>2 DEF NestOK
    <3>4. m > 1 => /\ stack'[t][m - 1].kind = stack[t][m - 1].kind
                   /\ stack'[t][m - 1].of = stack[t][m - 1].of
      <4>1. m > 1 => m - 1 \in 1 .. n
        BY <1>1
      <4> QED
        BY <1>4, <4>1
    <3>5. m > 1 => /\ <<stack'[t][m - 1].kind, stack'[t][m].kind>> \in Nesting
                   /\ stack'[t][m].kind # "flush" =>
                        stack'[t][m].of = stack'[t][m - 1].of
      BY <1>4, <2>2, <3>2, <3>4 DEF NestOK
    <3> QED
      BY <3>1, <3>3, <3>5 DEF NestOK
  <2> QED
    BY <1>1, <2>1, <2>2
<1>8. DistinctInv'
  <2> SUFFICES ASSUME NEW l \in 1 .. n + 1, NEW m \in 1 .. n + 1,
                      stack'[t][l].span = stack'[t][m].span
               PROVE  l = m \/ stack'[t][l].span = 0
    BY <1>1, <1>3 DEF DistinctInv
  <2>1. CASE l = n + 1 \/ m = n + 1
    BY <1>2, <1>g, <2>1
  <2>2. CASE l \in 1 .. n /\ m \in 1 .. n
    BY <1>1, <1>4, <2>2 DEF DistinctInv, HandleInvs
  <2> QED
    BY <1>1, <2>1, <2>2
<1>9. OpenInv'
  <2> SUFFICES ASSUME NEW i \in 1 .. Len(spans), HasHandle(i, spans[i].thread)
               PROVE  HasHandle(i, spans[i].thread)'
    BY DEF OpenInv, HandleInvs
  <2>1. spans[i].thread = t
    BY <1>3, SpanIsTyped DEF HasHandle
  <2>2. PICK m \in 1 .. n : stack[t][m].span = i
    BY <1>1, <2>1 DEF HasHandle
  <2>3. m \in 1 .. n + 1 /\ stack'[t][m].span = i
    BY <1>1, <1>4, <2>2
  <2> QED
    BY <1>1, <2>1, <2>3 DEF HasHandle
<1> QED
  BY <1>5, <1>6, <1>7, <1>8, <1>9 DEF HandleInvs

\* A job begins while no thread is inside of a handle.
LEMMA BeginKeepsHandles ==
  ASSUME TypeOK, HandleInvs, NEW t \in Thread, Unlocked, NEW kind, NEW of,
         Begins(t, NewFrame(kind, of)), UNCHANGED <<spans, ends>>,
         of \in Subject(kind), kind \notin {"process", "db"}
  PROVE  HandleInvs'
<1> DEFINE g == NewFrame(kind, of)
<1>1. \A u \in Thread : stack[u] = <<>>
  BY DEF Unlocked, Busy
<1>2. /\ \A u \in Thread \ {t} : stack'[u] = <<>>
      /\ DOMAIN stack'[t] = {1} /\ Len(stack'[t]) = 1 /\ stack'[t][1] = g
  BY <1>1 DEF Begins
<1>g. /\ g.kind = kind /\ g.of = of /\ g.span = 0 /\ g.token = -1
      /\ g.step = "start"
  BY DEF NewFrame
<1> HIDE DEF g
<1>3. OneBusy'
  BY <1>2 DEF OneBusy, Busy
<1>4. HandleInv'
  <2>1. ASSUME NEW m \in {1} PROVE HandleOK(t, m)'
    BY <1>2, <1>g, LenTyped DEF HandleOK
  <2> QED
    BY <1>2, <2>1 DEF HandleInv
<1>5. NestInv'
  <2>1. ASSUME NEW m \in {1} PROVE NestOK(t, m)'
    BY <1>2, <1>g DEF NestOK
  <2> QED
    BY <1>2, <2>1 DEF NestInv
<1>6. DistinctInv'
  BY <1>2 DEF DistinctInv
<1>7. OpenInv'
  <2>1. \A i \in 1 .. Len(spans) : ends[i] = 1
    BY <1>1, SpanIsTyped DEF OpenInv, HandleInvs, HasHandle
  <2> QED
    BY <2>1 DEF OpenInv
<1> QED
  BY <1>3, <1>4, <1>5, <1>6, <1>7 DEF HandleInvs

\* The innermost handle ends its span and is left.
LEMMA EndKeepsHandles ==
  ASSUME TypeOK, HandleInvs, NEW t \in Thread, End(t)
  PROVE  HandleInvs'
<1> DEFINE n == Len(stack[t])
           i == Top(t).span
<1>1. /\ Busy(t) /\ UNCHANGED spans
      /\ ends' = IF i = 0 THEN ends ELSE [ends EXCEPT ![i] = @ + 1]
  BY DEF End
<1>2. /\ n \in Nat \ {0} /\ Top(t) = stack[t][n]
      /\ DOMAIN stack[t] = 1 .. n
  BY <1>1, TopIsFrame
<1>3. Leaves(t)
  BY <1>1, EndLeaves DEF End
<1>4. /\ Len(stack'[t]) = n - 1 /\ DOMAIN stack'[t] = 1 .. n - 1
      /\ \A m \in 1 .. n - 1 : stack'[t][m] = stack[t][m]
  BY <1>3 DEF Leaves
<1>5. \A u \in Thread \ {t} : stack'[u] = <<>> /\ stack[u] = <<>>
  BY <1>1, <1>3, OthersIdle DEF Leaves, HandleInvs
<1>6. i \in 0 .. Len(spans) /\ (i # 0 => ends[i] = 0)
  BY <1>1, TopIsHandle DEF HandleInvs
<1>7. \A m \in 1 .. n - 1 : stack[t][m].span = i => i = 0
  BY <1>2 DEF DistinctInv, HandleInvs
<1>8. /\ i # 0 => ends'[i] = 1
      /\ \A j \in 1 .. Len(spans) : j # i => ends'[j] = ends[j]
  <2>1. DOMAIN ends = 1 .. Len(spans)
    BY DEF TypeOK
  <2> HIDE DEF i
  <2> QED
    BY <1>1, <1>6, <2>1
<1> HIDE DEF n, i
<1>9. OneBusy'
  BY <1>5 DEF OneBusy, Busy
<1>10. HandleInv'
  <2> SUFFICES ASSUME NEW m \in 1 .. n - 1 PROVE HandleOK(t, m)'
    BY <1>4, <1>5 DEF HandleInv
  <2>1. HandleOK(t, m) /\ stack'[t][m] = stack[t][m]
    BY <1>2, <1>4 DEF HandleInv, HandleInvs
  <2>2. stack[t][m].span # 0 => ends'[stack[t][m].span] = ends[stack[t][m].span]
    BY <1>7, <1>8, <2>1 DEF HandleOK
  <2> QED
    BY <1>1, <2>1, <2>2 DEF HandleOK
<1>11. NestInv'
  <2> SUFFICES ASSUME NEW m \in 1 .. n - 1 PROVE NestOK(t, m)'
    BY <1>4, <1>5 DEF NestInv
  <2>1. NestOK(t, m) /\ stack'[t][m] = stack[t][m] /\ m < n
    BY <1>2, <1>4 DEF NestInv, HandleInvs
  <2>2. m > 1 => stack'[t][m - 1] = stack[t][m - 1]
    BY <1>2, <1>4
  <2> QED
    BY <1>2, <1>4, <2>1, <2>2 DEF NestOK, n
<1>12. DistinctInv'
  BY <1>2, <1>4, <1>5 DEF DistinctInv, HandleInvs
<1>13. OpenInv'
  <2> SUFFICES ASSUME NEW j \in 1 .. Len(spans), j # i,
                      HasHandle(j, spans[j].thread)
               PROVE  HasHandle(j, spans[j].thread)'
    BY <1>1, <1>8 DEF OpenInv, HandleInvs
  <2>1. spans[j].thread = t
    BY <1>5, SpanIsTyped DEF HasHandle
  <2>2. PICK m \in 1 .. n : stack[t][m].span = j
    BY <1>2, <2>1 DEF HasHandle
  <2>3. m \in 1 .. n - 1
    BY <1>2, <2>2 DEF i
  <2> QED
    BY <1>1, <1>4, <2>1, <2>2, <2>3 DEF HasHandle
<1> QED
  BY <1>9, <1>10, <1>11, <1>12, <1>13 DEF HandleInvs

LEMMA NewSpanIsOfHandle ==
  ASSUME NEW t, NEW parents, NEW s \in NewSpans(t, parents)
  PROVE  s.kind = Top(t).kind /\ s.of = Top(t).of /\ s.thread = t
  BY DEF NewSpans

\* What Start does to the innermost handle.
LEMMA StartMoves ==
  ASSUME TypeOK, HandleInv, NEW t \in Thread, Busy(t), Top(t).step = "start",
         NEW i \in Nat, AfterStart(t, i)
  PROVE  Turns(t, i, -1, IF Top(t).kind = "agent" THEN "clear" ELSE "attach")
<1> DEFINE step == IF Top(t).kind = "agent" THEN "clear" ELSE "attach"
           f == [Top(t) EXCEPT !.span = i, !.step = step]
<1>1. f \in Frame /\ Top(t) \in Frame
  BY TopEdit, TopIsFrame
<1>2. /\ f.kind = Top(t).kind /\ f.of = Top(t).of /\ f.span = i
      /\ f.token = Top(t).token /\ f.step = step
  BY <1>1 DEF Frame
<1>3. Top(t).token = -1
  BY TopIsHandle
<1>4. Goto(t, f)
  BY DEF AfterStart
<1> HIDE DEF f
<1>5. Moves(t, f)
  BY <1>1, <1>4, GotoMoves
<1> QED
  BY <1>1, <1>2, <1>3, <1>5 DEF Turns

LEMMA StartKeepsHandles ==
  ASSUME TypeOK, HandleInvs, NEW t \in Thread, Start(t)
  PROVE  HandleInvs'
<1>1. Busy(t) /\ Top(t).step = "start" /\ HandleInv /\ Len(spans) + 1 \in Nat
  BY LenTyped DEF Start, HandleInvs
<1>2. CASE /\ UNCHANGED <<spans, ends>>
           /\ AfterStart(t, 0)
  <2>1. PICK f \in Frame :
           /\ Moves(t, f)
           /\ f.kind = Top(t).kind /\ f.of = Top(t).of /\ f.span = 0
           /\ f.token = -1
           /\ f.step = IF f.kind = "agent" THEN "clear" ELSE "attach"
    BY <1>1, <1>2, StartMoves DEF Turns
  <2>2. Top(t).span = 0
    BY <1>1, TopIsHandle
  <2> QED
    BY <1>1, <1>2, <2>1, <2>2, LenTyped, MoveKeepsHandles
<1>3. CASE /\ \E s \in NewSpans(t, ParentsOf(t)) : spans' = Append(spans, s)
           /\ ends' = Append(ends, 0)
           /\ AfterStart(t, Len(spans) + 1)
  <2> DEFINE n == Len(stack[t])
             i == Len(spans) + 1
  <2>1. PICK f \in Frame :
           /\ Moves(t, f)
           /\ f.kind = Top(t).kind /\ f.of = Top(t).of /\ f.span = i
           /\ f.token = -1
           /\ f.step = IF f.kind = "agent" THEN "clear" ELSE "attach"
    BY <1>1, <1>3, StartMoves DEF Turns
  <2>2. PICK s \in NewSpans(t, ParentsOf(t)) : spans' = Append(spans, s)
    BY <1>3
  <2>3. s \in Span /\ s.kind = Top(t).kind /\ s.of = Top(t).of /\ s.thread = t
    BY <1>1, NewSpansAreTyped, NewSpanIsOfHandle
  <2>4. /\ i \in Nat \ {0} /\ Len(spans') = i /\ spans'[i] = s
        /\ \A j \in 1 .. i - 1 : spans'[j] = spans[j]
    BY <2>2, <2>3, LenTyped DEF TypeOK
  <2>5. /\ ends'[i] = 0
        /\ \A j \in 1 .. i - 1 : ends'[j] = ends[j]
    BY <1>3, LenTyped DEF TypeOK
  <2>6. /\ n \in Nat \ {0} /\ Top(t) = stack[t][n]
        /\ DOMAIN stack[t] = 1 .. n /\ DOMAIN stack'[t] = 1 .. n
        /\ Len(stack'[t]) = n
    BY <1>1, <2>1, TopIsFrame DEF Moves
  <2>7. /\ stack'[t][n] = f
        /\ \A m \in 1 .. n - 1 : stack'[t][m] = stack[t][m]
    BY <2>1 DEF Moves
  <2>8. \A u \in Thread \ {t} : stack'[u] = <<>> /\ stack[u] = <<>>
    BY <1>1, <2>1, OthersIdle DEF Moves, HandleInvs
  <2>9. Len(spans) = i - 1 /\ Top(t).span = 0
    BY <1>1, LenTyped, TopIsHandle
  <2> HIDE DEF n, i
  <2>10. \A m \in 1 .. n : HandleOK(t, m) /\ NestOK(t, m)
    BY <2>6 DEF HandleInvs, HandleInv, NestInv
  <2>11. OneBusy'
    BY <2>8 DEF OneBusy, Busy
  <2>12. HandleInv'
    <3>1. ASSUME NEW m \in 1 .. n - 1 PROVE HandleOK(t, m)'
      <4>1. HandleOK(t, m) /\ stack'[t][m] = stack[t][m]
        BY <2>6, <2>7, <2>10
      <4>2. stack[t][m].span \in 0 .. i - 1
        BY <2>9, <4>1 DEF HandleOK
      <4>3. stack[t][m].span # 0 =>
              /\ spans'[stack[t][m].span] = spans[stack[t][m].span]
              /\ ends'[stack[t][m].span] = ends[stack[t][m].span]
        BY <2>4, <2>5, <4>2
      <4>4. stack[t][m].token \in Nat \cup {-1}
        <5>1. stack[t] \in Seq(Frame) /\ m \in 1 .. Len(stack[t])
          BY <2>6 DEF TypeOK, n
        <5>2. stack[t][m] \in Frame
          BY <5>1
        <5> QED
          BY <5>2 DEF Frame
      <4> QED
        BY <2>4, <2>9, <4>1, <4>2, <4>3, <4>4 DEF HandleOK
    <3>2. ASSUME NEW m \in {n} PROVE HandleOK(t, m)'
      <4>1. HandleOK(t, m) /\ stack[t][m] = Top(t) /\ stack'[t][m] = f
        BY <2>6, <2>7, <2>10
      <4> QED
        BY <2>1, <2>3, <2>4, <2>5, <4>1 DEF HandleOK
    <3>3. \A m \in 1 .. n : HandleOK(t, m)'
      BY <2>6, <3>1, <3>2
    <3> QED
      BY <2>6, <2>8, <3>3 DEF HandleInv
  <2>13. NestInv'
    <3> SUFFICES ASSUME NEW m \in 1 .. n
                 PROVE  NestOK(t, m)'
      BY <2>6, <2>8 DEF NestInv
    <3>1. \A l \in 1 .. n : /\ stack'[t][l].kind = stack[t][l].kind
                            /\ stack'[t][l].of = stack[t][l].of
      BY <2>1, <2>6, <2>7
    <3>2. m > 1 => /\ stack'[t][m - 1].kind = stack[t][m - 1].kind
                   /\ stack'[t][m - 1].of = stack[t][m - 1].of
      <4>1. m > 1 => m - 1 \in 1 .. n
        BY <2>6
      <4> QED
        BY <3>1, <4>1
    <3>3. NestOK(t, m)
      BY <2>10
    <3>4. m = 1 => stack'[t][m].kind \notin {"process", "db"}
      BY <3>1, <3>3 DEF NestOK
    <3>5. m > 1 => /\ <<stack'[t][m - 1].kind, stack'[t][m].kind>> \in Nesting
                   /\ stack'[t][m].kind # "flush" =>
                        stack'[t][m].of = stack'[t][m - 1].of
      BY <3>1, <3>2, <3>3 DEF NestOK
    <3>6. m < n => stack'[t][m] = stack[t][m]
      BY <2>6, <2>7
    <3>7. m < Len(stack'[t]) => stack'[t][m].step \in {"written", "detach"}
      BY <2>6, <3>3, <3>6 DEF NestOK, n
    <3> QED
      BY <3>4, <3>5, <3>7 DEF NestOK
  <2>14. DistinctInv'
    <3> SUFFICES ASSUME NEW l \in 1 .. n, NEW m \in 1 .. n,
                        stack'[t][l].span = stack'[t][m].span
                 PROVE  l = m \/ stack'[t][l].span = 0
      BY <2>6, <2>8 DEF DistinctInv
    <3>1. \A k \in 1 .. n - 1 : /\ stack'[t][k].span = stack[t][k].span
                                /\ stack'[t][k].span # i
      <4> TAKE k \in 1 .. n - 1
      <4>1. HandleOK(t, k) /\ stack'[t][k] = stack[t][k]
        BY <2>6, <2>7, <2>10
      <4> QED
        BY <2>4, <2>9, <4>1 DEF HandleOK
    <3>2. stack'[t][n].span = i
      BY <2>1, <2>7 DEF i
    <3>3. CASE l \in 1 .. n - 1 /\ m \in 1 .. n - 1
      BY <2>6, <3>1, <3>3 DEF DistinctInv, HandleInvs
    <3>4. CASE l = n \/ m = n
      <4>1. l \in 1 .. n - 1 \/ l = n
        BY <2>6
      <4>2. m \in 1 .. n - 1 \/ m = n
        BY <2>6
      <4> QED
        BY <3>1, <3>2, <3>4, <4>1, <4>2
    <3> QED
      BY <2>6, <3>3, <3>4
  <2>15. OpenInv'
    <3> SUFFICES ASSUME NEW j \in 1 .. i
                 PROVE  (ends[j] = 1 \/ (ends[j] = 0 /\ HasHandle(j, spans[j].thread)))'
      BY <2>4 DEF OpenInv
    <3>1. CASE j = i
      <4>1. n \in DOMAIN stack'[t] /\ stack'[t][n].span = j
        BY <2>1, <2>6, <2>7, <3>1 DEF i
      <4> QED
        BY <2>3, <2>4, <2>5, <3>1, <4>1 DEF HasHandle
    <3>2. CASE j \in 1 .. i - 1
      <4>1. spans'[j] = spans[j] /\ ends'[j] = ends[j]
        BY <2>4, <2>5, <3>2
      <4>2. j \in 1 .. Len(spans) /\ j # 0
        BY <2>9, <3>2
      <4>3. CASE ends[j] = 1
        BY <4>1, <4>3
      <4>4. CASE ends[j] = 0 /\ HasHandle(j, spans[j].thread)
        <5>1. spans[j].thread = t
          BY <2>8, <4>2, <4>4, SpanIsTyped DEF HasHandle
        <5>2. PICK m \in 1 .. n : stack[t][m].span = j
          BY <2>6, <4>4, <5>1 DEF HasHandle
        <5>3. m \in 1 .. n - 1
          BY <2>6, <2>9, <4>2, <5>2
        <5> QED
          BY <2>6, <2>7, <4>1, <4>4, <5>1, <5>2, <5>3 DEF HasHandle
      <4> QED
        BY <4>2, <4>3, <4>4 DEF HandleInvs, OpenInv
    <3> QED
      BY <2>4, <3>1, <3>2
  <2> QED
    BY <2>11, <2>12, <2>13, <2>14, <2>15 DEF HandleInvs
<1> QED
  BY <1>2, <1>3 DEF Start

Steps == {"body", "flush", "written", "detach", "end"}

LEMMA GotoTurns ==
  ASSUME TypeOK, NEW t \in Thread, Busy(t), NEW step \in Steps \cup {"attach"}
  PROVE  /\ Goto(t, [Top(t) EXCEPT !.step = step]) =>
              Turns(t, Top(t).span, Top(t).token, step)
         /\ \A token \in Nat :
              Goto(t, [Top(t) EXCEPT !.token = token, !.step = step]) =>
                Turns(t, Top(t).span, token, step)
<1>1. ASSUME Goto(t, [Top(t) EXCEPT !.step = step])
      PROVE  Turns(t, Top(t).span, Top(t).token, step)
  <2> DEFINE f == [Top(t) EXCEPT !.step = step]
  <2>1. f \in Frame /\ Top(t) \in Frame
    BY TopEdit, TopIsFrame DEF Steps
  <2>2. /\ f.kind = Top(t).kind /\ f.of = Top(t).of /\ f.span = Top(t).span
        /\ f.token = Top(t).token /\ f.step = step
    BY <2>1 DEF Frame
  <2>3. Goto(t, f)
    BY <1>1
  <2> HIDE DEF f
  <2> QED
    BY <2>1, <2>2, <2>3, GotoMoves DEF Turns
<1>2. ASSUME NEW token \in Nat,
             Goto(t, [Top(t) EXCEPT !.token = token, !.step = step])
      PROVE  Turns(t, Top(t).span, token, step)
  <2> DEFINE f == [Top(t) EXCEPT !.token = token, !.step = step]
  <2>1. f \in Frame /\ Top(t) \in Frame
    BY TopEdit, TopIsFrame DEF Steps
  <2>2. /\ f.kind = Top(t).kind /\ f.of = Top(t).of /\ f.span = Top(t).span
        /\ f.token = token /\ f.step = step
    BY <2>1 DEF Frame
  <2>3. Goto(t, f)
    BY <1>2
  <2> HIDE DEF f
  <2> QED
    BY <2>1, <2>2, <2>3, GotoMoves DEF Turns
<1> QED
  BY <1>1, <1>2

LEMMA TurnKeepsHandles ==
  ASSUME TypeOK, HandleInvs, NEW t \in Thread, Busy(t), UNCHANGED <<spans, ends>>,
         NEW token \in Nat \cup {-1}, NEW step \in Steps \cup {"attach"},
         Turns(t, Top(t).span, token, step),
         step = "attach" => token = -1,
         token <= Len(spans), token # -1 => Top(t).span # 0
  PROVE  HandleInvs'
<1>1. PICK f \in Frame :
         /\ Moves(t, f)
         /\ f.kind = Top(t).kind /\ f.of = Top(t).of
         /\ f.span = Top(t).span /\ f.token = token /\ f.step = step
  BY DEF Turns
<1> QED
  BY <1>1, MoveKeepsHandles DEF Steps

-----------------------------------------------------------------------------
(* What each action does to the handles *)

LEMMA ClearTurns ==
  ASSUME TypeOK, HandleInv, NEW t \in Thread, Clear(t)
  PROVE  Busy(t) /\ Turns(t, Top(t).span, -1, "attach")
<1>1. Busy(t) /\ Top(t).step = "clear"
  BY AtIsBusy DEF Clear
<1>2. Top(t).token = -1
  BY <1>1, TopIsHandle
<1> QED
  BY <1>1, <1>2, GotoTurns DEF Clear

LEMMA AttachTurns ==
  ASSUME TypeOK, NEW t \in Thread, Attach(t)
  PROVE  \/ /\ Top(t).span # 0
            /\ Turns(t, Top(t).span, current[t], "body")
            /\ current' = [current EXCEPT ![t] = Top(t).span]
            /\ UNCHANGED faults
         \/ /\ Turns(t, Top(t).span, Top(t).token, "body")
            /\ UNCHANGED current
            /\ \/ Top(t).span = 0 /\ UNCHANGED faults
               \/ Fault("attach")
<1>1. "body" \in Steps \cup {"attach"} /\ Busy(t)
  BY DEF Steps, Attach
<1>2. current[t] \in Nat
  BY LenTyped DEF TypeOK
<1>3. Goto(t, [Top(t) EXCEPT !.step = "body"]) =>
        Turns(t, Top(t).span, Top(t).token, "body")
  BY <1>1, GotoTurns
<1>4. Goto(t, [Top(t) EXCEPT !.token = current[t], !.step = "body"]) =>
        Turns(t, Top(t).span, current[t], "body")
  BY <1>1, <1>2, GotoTurns
<1> QED
  BY <1>3, <1>4 DEF Attach

LEMMA DetachTurns ==
  ASSUME TypeOK, NEW t \in Thread, Detach(t)
  PROVE  Busy(t) /\ Turns(t, Top(t).span, Top(t).token, "end")
  BY GotoTurns DEF Detach, Steps

\* The body of a handle goes on.
GoesOn(t) == \/ BufferEvent(t)
             \/ /\ FlushBatch(t)
                /\ Goto(t, [Top(t) EXCEPT !.step = "detach"])
                /\ At(t, {"process"}, "flush")
             \/ EndFlush(t)
             \/ BodyDone(t)

LEMMA GoesOnTurns ==
  ASSUME TypeOK, NEW t \in Thread, GoesOn(t)
  PROVE  /\ Busy(t)
         /\ Top(t).step \in {"body", "flush", "written"}
         /\ \E step \in {"detach", "flush"} :
               Turns(t, Top(t).span, Top(t).token, step)
<1>1. {"detach", "flush"} \subseteq Steps
  BY DEF Steps
<1>2. /\ Busy(t)
      /\ Top(t).step \in {"body", "flush", "written"}
      /\ \E step \in {"detach", "flush"} : Goto(t, [Top(t) EXCEPT !.step = step])
  BY AtIsBusy DEF GoesOn, BufferEvent, EndFlush, BodyDone
<1> QED
  BY <1>1, <1>2, GotoTurns

\* It enters another handle.
Enters(t) == \/ BeginProcess(t)
             \/ /\ FlushBatch(t)
                /\ Inside(t, "detach", "flush", buffer)
                /\ At(t, {"process"}, "flush")
             \/ BeginInsert(t)

LEMMA EntersNests ==
  ASSUME TypeOK, HandleInv, NEW t \in Thread, Enters(t)
  PROVE  /\ Busy(t)
         /\ Top(t).step \in {"body", "flush"}
         /\ \E step \in {"detach", "written"}, kind \in Kind, of \in About :
              /\ Nests(t, step, kind, of)
              /\ of \in Subject(kind)
              /\ <<Top(t).kind, kind>> \in Nesting
              /\ kind # "flush" => of = Top(t).of /\ Top(t).step = "body"
<1>1. Busy(t) => Top(t).of \in About /\ Top(t).of \in Subject(Top(t).kind)
  BY TopIsFrame, TopIsHandle DEF Frame
<1>2. CASE BeginProcess(t)
  <2>1. /\ Busy(t) /\ Top(t).kind = "agent" /\ Top(t).step = "body"
        /\ Inside(t, "detach", "process", Top(t).of)
    BY <1>2, AtIsBusy DEF BeginProcess
  <2>2. /\ "process" \in Kind /\ Top(t).of \in Subject("process")
        /\ <<"agent", "process">> \in Nesting
    BY <1>1, <2>1 DEF Subject, Kind, Nesting
  <2>3. Nests(t, "detach", "process", Top(t).of)
    BY <1>1, <2>1, <2>2, InsideNests
  <2> QED
    BY <1>1, <2>1, <2>2, <2>3
<1>3. CASE BeginInsert(t)
  <2>1. /\ Busy(t) /\ Top(t).kind = "flush" /\ Top(t).step = "body"
        /\ Inside(t, "written", "db", Top(t).of)
    BY <1>3, AtIsBusy DEF BeginInsert
  <2>2. /\ "db" \in Kind /\ Top(t).of \in Subject("db")
        /\ <<"flush", "db">> \in Nesting
    BY <1>1, <2>1 DEF Subject, Kind, Nesting
  <2>3. Nests(t, "written", "db", Top(t).of)
    BY <1>1, <2>1, <2>2, InsideNests
  <2> QED
    BY <1>1, <2>1, <2>2, <2>3
<1>4. CASE /\ Inside(t, "detach", "flush", buffer)
           /\ At(t, {"process"}, "flush")
  <2>1. Busy(t) /\ Top(t).kind = "process" /\ Top(t).step = "flush"
    BY <1>4, AtIsBusy
  <2>2. /\ "flush" \in Kind /\ buffer \in About /\ buffer \in Subject("flush")
        /\ <<"process", "flush">> \in Nesting
    BY DEF TypeOK, Subject, Kind, Nesting, About
  <2>3. Nests(t, "detach", "flush", buffer)
    BY <1>4, <2>1, <2>2, InsideNests
  <2> QED
    BY <2>1, <2>2, <2>3
<1> QED
  BY <1>2, <1>3, <1>4 DEF Enters

\* A job begins with its outermost handle.
JobBegins(t) == \/ t = Main /\ \E e \in Event : ProcessMessage(e)
                \/ t = Worker /\ \E c \in Carriers : BeginRequest(c)
                \/ FlushBatch(t) /\ Unlocked

LEMMA JobBeginsOutermost ==
  ASSUME TypeOK, NEW t \in Thread, JobBegins(t)
  PROVE  /\ Unlocked
         /\ \E kind \in {"agent", "server", "flush"}, of \in About :
              /\ of \in Subject(kind)
              /\ Begins(t, NewFrame(kind, of))
<1>1. ASSUME NEW e \in Event, ProcessMessage(e), t = Main
      PROVE  /\ Unlocked
             /\ e \in Subject("agent") /\ e \in About
             /\ Begins(t, NewFrame("agent", e))
  <2>1. "agent" \in Kind /\ e \in About /\ e \in Subject("agent")
    BY DEF Kind, About, Subject
  <2> QED
    BY <1>1, <2>1, OutermostBegins DEF ProcessMessage
<1>2. ASSUME NEW c \in Carriers, BeginRequest(c), t = Worker
      PROVE  /\ Unlocked
             /\ c \in Subject("server") /\ c \in About
             /\ Begins(t, NewFrame("server", c))
  <2>1. "server" \in Kind /\ c \in About /\ c \in Subject("server")
    BY DEF Kind, About, Subject
  <2> QED
    BY <1>2, <2>1, OutermostBegins DEF BeginRequest
<1>3. ASSUME FlushBatch(t), Unlocked
      PROVE  /\ buffer \in Subject("flush") /\ buffer \in About
             /\ Begins(t, NewFrame("flush", buffer))
  <2>1. "flush" \in Kind /\ buffer \in About /\ buffer \in Subject("flush")
    BY DEF Kind, About, Subject, TypeOK
  <2>2. Outermost(t, "flush", buffer)
    BY <1>3 DEF FlushBatch, Unlocked, At
  <2> QED
    BY <2>1, <2>2, OutermostBegins
<1> QED
  BY <1>1, <1>2, <1>3 DEF JobBegins

LEMMA NextActs ==
  ASSUME Next
  PROVE  \E t \in Thread :
           \/ Start(t) \/ Clear(t) \/ Attach(t) \/ Detach(t) \/ End(t)
           \/ GoesOn(t) \/ Enters(t) \/ JobBegins(t)
<1>1. ASSUME NEW t \in Thread, FlushBatch(t)
      PROVE  GoesOn(t) \/ Enters(t) \/ JobBegins(t)
  BY <1>1 DEF FlushBatch, GoesOn, Enters, JobBegins
<1>2. Main \in Thread /\ Worker \in Thread
  BY DEF Thread
<1> QED
  BY <1>1, <1>2 DEF Next, Handle, GoesOn, Enters, JobBegins

LEMMA ActsKeepSpans ==
  ASSUME NEW t, Clear(t) \/ Attach(t) \/ Detach(t) \/ GoesOn(t) \/ Enters(t)
                \/ JobBegins(t)
  PROVE  UNCHANGED <<spans, ends, links>>
  BY DEF Clear, Attach, Detach, GoesOn, Enters, JobBegins, BufferEvent,
         FlushBatch, EndFlush, BodyDone, BeginProcess, BeginInsert,
         ProcessMessage, BeginRequest, sdkVars

LEMMA HandlesStep ==
  ASSUME TypeOK, HandleInvs, Next
  PROVE  HandleInvs'
<1>0. HandleInv
  BY DEF HandleInvs
<1>1. PICK t \in Thread :
        \/ Start(t) \/ Clear(t) \/ Attach(t) \/ Detach(t) \/ End(t)
        \/ GoesOn(t) \/ Enters(t) \/ JobBegins(t)
  BY NextActs
<1>2. CASE Start(t)
  BY <1>2, StartKeepsHandles
<1>3. CASE Clear(t)
  <2>1. Busy(t) /\ Turns(t, Top(t).span, -1, "attach") /\ UNCHANGED <<spans, ends>>
    BY <1>0, <1>3, ClearTurns, ActsKeepSpans
  <2> QED
    BY <2>1, LenTyped, TurnKeepsHandles
<1>4. CASE Attach(t)
  <2>1. Busy(t) /\ UNCHANGED <<spans, ends>> /\ Top(t).step = "attach"
    BY <1>4, ActsKeepSpans DEF Attach
  <2>2. current[t] \in 0 .. Len(spans) /\ Top(t).token = -1 /\ "body" \in Steps
    BY <1>0, <2>1, TopIsHandle DEF TypeOK, Steps
  <2> QED
    BY <1>4, <2>1, <2>2, LenTyped, AttachTurns, TurnKeepsHandles
<1>5. CASE Detach(t)
  <2>1. /\ Busy(t) /\ UNCHANGED <<spans, ends>>
        /\ Turns(t, Top(t).span, Top(t).token, "end")
    BY <1>5, ActsKeepSpans, DetachTurns
  <2>2. /\ Top(t).token \in Nat \cup {-1} /\ Top(t).token <= Len(spans)
        /\ Top(t).token # -1 => Top(t).span # 0
        /\ "end" \in Steps
    BY <1>0, <2>1, TopIsHandle, TopIsFrame DEF Frame, Steps
  <2> QED
    BY <2>1, <2>2, TurnKeepsHandles
<1>6. CASE End(t)
  BY <1>6, EndKeepsHandles
<1>7. CASE GoesOn(t)
  <2>1. Busy(t) /\ UNCHANGED <<spans, ends>>
    BY <1>7, ActsKeepSpans, GoesOnTurns
  <2>2. PICK step \in Steps :
          step # "attach" /\ Turns(t, Top(t).span, Top(t).token, step)
    BY <1>7, GoesOnTurns DEF Steps
  <2>3. /\ Top(t).token \in Nat \cup {-1} /\ Top(t).token <= Len(spans)
        /\ Top(t).token # -1 => Top(t).span # 0
    BY <1>0, <2>1, TopIsHandle, TopIsFrame DEF Frame
  <2> QED
    BY <2>1, <2>2, <2>3, TurnKeepsHandles
<1>8. CASE Enters(t)
  <2>1. UNCHANGED <<spans, ends>>
    BY <1>8, ActsKeepSpans
  <2> QED
    BY <1>0, <1>8, <2>1, EntersNests, NestKeepsHandles
<1>9. CASE JobBegins(t)
  <2>1. UNCHANGED <<spans, ends>>
    BY <1>9, ActsKeepSpans
  <2> QED
    BY <1>9, <2>1, JobBeginsOutermost, BeginKeepsHandles
<1> QED
  BY <1>1, <1>2, <1>3, <1>4, <1>5, <1>6, <1>7, <1>8, <1>9

-----------------------------------------------------------------------------
(* The current span *)

\* What Moves and Leaves say, in terms of the two stacks alone.
LEMMA TurnFacts ==
  ASSUME TypeOK, OneBusy, NEW t \in Thread, Busy(t), NEW span, NEW token, NEW step,
         Turns(t, span, token, step)
  PROVE  LET n == Len(stack[t])
         IN  /\ n \in Nat \ {0} /\ Len(stack'[t]) = n
             /\ DOMAIN stack[t] = 1 .. n /\ DOMAIN stack'[t] = 1 .. n
             /\ \A m \in 1 .. n - 1 : stack'[t][m] = stack[t][m]
             /\ stack[t][n] = Top(t)
             /\ stack'[t][n].kind = Top(t).kind /\ stack'[t][n].of = Top(t).of
             /\ stack'[t][n].span = span /\ stack'[t][n].token = token
             /\ stack'[t][n].step = step
             /\ \A u \in Thread \ {t} : stack[u] = <<>> /\ stack'[u] = <<>>
<1>1. PICK f \in Frame :
         /\ Moves(t, f)
         /\ f.kind = Top(t).kind /\ f.of = Top(t).of
         /\ f.span = span /\ f.token = token /\ f.step = step
  BY DEF Turns
<1>2. \A u \in Thread \ {t} : stack[u] = <<>> /\ stack'[u] = <<>>
  BY <1>1, OthersIdle DEF Moves
<1>3. Len(stack'[t]) = Len(stack[t]) /\ DOMAIN stack'[t] = 1 .. Len(stack[t])
  BY <1>1, TopIsFrame DEF Moves
<1> QED
  BY <1>1, <1>2, <1>3, TopIsFrame DEF Moves

LEMMA NestFacts ==
  ASSUME TypeOK, OneBusy, NEW t \in Thread, Busy(t), NEW step, NEW kind, NEW of,
         Nests(t, step, kind, of)
  PROVE  LET n == Len(stack[t])
         IN  /\ n \in Nat \ {0} /\ Len(stack'[t]) = n + 1
             /\ DOMAIN stack[t] = 1 .. n /\ DOMAIN stack'[t] = 1 .. n + 1
             /\ \A m \in 1 .. n - 1 : stack'[t][m] = stack[t][m]
             /\ stack[t][n] = Top(t)
             /\ stack'[t][n].span = Top(t).span
             /\ stack'[t][n].token = Top(t).token
             /\ stack'[t][n].step = step
             /\ stack'[t][n + 1].kind = kind /\ stack'[t][n + 1].token = -1
             /\ stack'[t][n + 1].step = "start"
             /\ \A u \in Thread \ {t} : stack[u] = <<>> /\ stack'[u] = <<>>
<1>1. \A u \in Thread \ {t} : stack[u] = <<>> /\ stack'[u] = <<>>
  BY OthersIdle DEF Nests
<1>2. DOMAIN stack'[t] = 1 .. Len(stack[t]) + 1
  BY TopIsFrame DEF Nests
<1> QED
  BY <1>1, <1>2, TopIsFrame DEF Nests, NewFrame

LEMMA LeaveFacts ==
  ASSUME TypeOK, OneBusy, NEW t \in Thread, End(t)
  PROVE  LET n == Len(stack[t])
         IN  /\ n \in Nat \ {0} /\ Len(stack'[t]) = n - 1
             /\ DOMAIN stack[t] = 1 .. n /\ DOMAIN stack'[t] = 1 .. n - 1
             /\ \A m \in 1 .. n - 1 : stack'[t][m] = stack[t][m]
             /\ stack[t][n] = Top(t) /\ Top(t).step = "end"
             /\ \A u \in Thread \ {t} : stack[u] = <<>> /\ stack'[u] = <<>>
<1>1. Busy(t) /\ Top(t).step = "end" /\ stack' = [stack EXCEPT ![t] = Front(@)]
  BY DEF End
<1>2. Leaves(t)
  BY <1>1, EndLeaves
<1>3. \A u \in Thread \ {t} : stack[u] = <<>> /\ stack'[u] = <<>>
  BY <1>1, <1>2, OthersIdle DEF Leaves
<1>4. DOMAIN stack'[t] = 1 .. Len(stack[t]) - 1
  BY <1>1, <1>2, TopIsFrame DEF Leaves
<1> QED
  BY <1>1, <1>2, <1>3, <1>4, TopIsFrame DEF Leaves

LEMMA BeginFacts ==
  ASSUME TypeOK, Unlocked, NEW t \in Thread, NEW kind, NEW of,
         Begins(t, NewFrame(kind, of))
  PROVE  /\ \A u \in Thread : stack[u] = <<>>
         /\ \A u \in Thread \ {t} : stack'[u] = <<>>
         /\ DOMAIN stack'[t] = {1} /\ Len(stack'[t]) = 1
         /\ stack'[t][1].kind = kind /\ stack'[t][1].token = -1
         /\ stack'[t][1].step = "start"
<1>1. \A u \in Thread : stack[u] = <<>>
  BY DEF Unlocked, Busy
<1>2. DOMAIN stack'[t] = {1}
  BY DEF Begins
<1> QED
  BY <1>1, <1>2 DEF Begins, NewFrame

\* A handle that is not attached has no part in the context.
LEMMA ContextOfTurn ==
  ASSUME TypeOK, OneBusy, ContextInv, NEW t \in Thread, Busy(t),
         NEW span, NEW token, NEW step, Turns(t, span, token, step),
         token = Top(t).token, Top(t).step # "end",
         step # "end" \/ token = -1,
         UNCHANGED <<current, leaked>>
  PROVE  ContextInv'
<1> DEFINE n == Len(stack[t])
<1>1. /\ n \in Nat \ {0}
      /\ DOMAIN stack[t] = 1 .. n /\ DOMAIN stack'[t] = 1 .. n
      /\ \A u \in Thread \ {t} : stack[u] = <<>> /\ stack'[u] = <<>>
  BY TurnFacts
<1>2. \A m \in 1 .. n : /\ Attached(stack'[t][m]) <=> Attached(stack[t][m])
                        /\ stack'[t][m].token = stack[t][m].token
  <2>1. \A m \in 1 .. n - 1 : stack'[t][m] = stack[t][m]
    BY TurnFacts
  <2>2. /\ stack[t][n] = Top(t)
        /\ stack'[t][n].token = token /\ stack'[t][n].step = step
    BY TurnFacts
  <2> QED
    BY <1>1, <2>1, <2>2 DEF Attached
<1> HIDE DEF n
<1> SUFFICES ASSUME NEW u \in Thread, u \notin leaked
             PROVE  Within(u)' /\ \A m \in DOMAIN stack'[u] : Based(u, m)'
  BY DEF ContextInv
<1>3. Within(u) /\ \A m \in DOMAIN stack[u] : Based(u, m)
  BY DEF ContextInv
<1>4. CASE u # t
  BY <1>1, <1>3, <1>4 DEF Within
<1>5. CASE u = t
  <2>1. Within(u)'
    BY <1>1, <1>2, <1>3, <1>5 DEF Within
  <2>2. ASSUME NEW m \in 1 .. n PROVE Based(u, m)'
    <3>1. Based(t, m) /\ 1 .. m - 1 \subseteq 1 .. n
      BY <1>1, <1>3, <1>5
    <3> QED
      BY <1>2, <1>5, <3>1 DEF Based
  <2> QED
    BY <1>1, <1>5, <2>1, <2>2
<1> QED
  BY <1>4, <1>5

LEMMA ContextStep ==
  ASSUME TypeOK, HandleInvs, ContextInv, Next
  PROVE  ContextInv'
<1>0. HandleInv /\ OneBusy
  BY DEF HandleInvs
<1>1. PICK t \in Thread :
        \/ Start(t) \/ Clear(t) \/ Attach(t) \/ Detach(t) \/ End(t)
        \/ GoesOn(t) \/ Enters(t) \/ JobBegins(t)
  BY NextActs
<1>2. CASE Start(t)
  <2>1. /\ Busy(t) /\ Top(t).step = "start" /\ UNCHANGED <<current, leaked>>
        /\ \E i \in Nat : AfterStart(t, i)
    BY <1>2, LenTyped DEF Start
  <2>2. Top(t).token = -1
    BY <1>0, <2>1, TopIsHandle
  <2>3. \E i \in Nat : \E step : step # "end" /\ Turns(t, i, -1, step)
    BY <1>0, <2>1, StartMoves
  <2> QED
    BY <1>0, <2>1, <2>2, <2>3, ContextOfTurn
<1>3. CASE Clear(t)
  <2>1. Busy(t) /\ Top(t).step = "clear" /\ UNCHANGED <<current, leaked>>
    BY <1>3, AtIsBusy DEF Clear
  <2>2. Top(t).token = -1 /\ Turns(t, Top(t).span, -1, "attach")
    BY <1>0, <1>3, <2>1, TopIsHandle, ClearTurns
  <2> QED
    BY <1>0, <2>1, <2>2, ContextOfTurn
<1>4. CASE Attach(t)
  <2>1. Busy(t) /\ Top(t).step = "attach" /\ UNCHANGED leaked
    BY <1>4 DEF Attach
  <2>2. CASE /\ Turns(t, Top(t).span, Top(t).token, "body")
             /\ UNCHANGED current
    BY <1>0, <2>1, <2>2, ContextOfTurn
  <2>3. CASE /\ Turns(t, Top(t).span, current[t], "body")
             /\ current' = [current EXCEPT ![t] = Top(t).span]
    <3> DEFINE n == Len(stack[t])
    <3>1. /\ n \in Nat \ {0}
          /\ DOMAIN stack[t] = 1 .. n /\ DOMAIN stack'[t] = 1 .. n
          /\ \A u \in Thread \ {t} : stack[u] = <<>> /\ stack'[u] = <<>>
      BY <1>0, <2>1, <2>3, TurnFacts
    <3>2. /\ \A m \in 1 .. n - 1 : stack'[t][m] = stack[t][m]
          /\ stack[t][n] = Top(t)
          /\ stack'[t][n].token = current[t] /\ stack'[t][n].step = "body"
      BY <1>0, <2>1, <2>3, TurnFacts
    <3>3. Top(t).token = -1 /\ current[t] \in Nat
      BY <1>0, <2>1, TopIsHandle, LenTyped DEF TypeOK
    <3>4. ~Attached(stack[t][n]) /\ Attached(stack'[t][n])
      BY <3>2, <3>3 DEF Attached
    <3>5. \A u \in Thread \ {t} : current'[u] = current[u]
      BY <2>3 DEF TypeOK
    <3> HIDE DEF n
    <3> SUFFICES ASSUME NEW u \in Thread, u \notin leaked
                 PROVE  Within(u)' /\ \A m \in DOMAIN stack'[u] : Based(u, m)'
      BY <2>1 DEF ContextInv
    <3>6. Within(u) /\ \A m \in DOMAIN stack[u] : Based(u, m)
      BY DEF ContextInv
    <3>7. CASE u # t
      BY <3>1, <3>5, <3>6, <3>7 DEF Within
    <3>8. CASE u = t
      <4>1. Within(u)'
        BY <3>1, <3>4, <3>8 DEF Within
      <4>2. ASSUME NEW m \in {n} PROVE Based(u, m)'
        <5>1. CASE current[t] = 0
          BY <3>2, <3>8, <5>1 DEF Based
        <5>2. CASE current[t] # 0
          <6>1. PICK l \in 1 .. n : Attached(stack[t][l])
            BY <3>1, <3>6, <3>8, <5>2 DEF Within
          <6>2. l \in 1 .. n - 1
            BY <3>1, <3>4, <6>1
          <6> QED
            BY <3>2, <3>8, <6>1, <6>2 DEF Based
        <5> QED
          BY <5>1, <5>2
      <4>3. ASSUME NEW m \in 1 .. n - 1 PROVE Based(u, m)'
        <5>1. Based(t, m) /\ 1 .. m - 1 \subseteq 1 .. n - 1
          BY <3>1, <3>6, <3>8
        <5> QED
          BY <3>2, <3>8, <5>1 DEF Based
      <4>4. \A m \in 1 .. n : Based(u, m)'
        BY <3>1, <4>2, <4>3
      <4> QED
        BY <3>1, <3>8, <4>1, <4>4
    <3> QED
      BY <3>7, <3>8
  <2> QED
    BY <1>0, <1>4, <2>2, <2>3, AttachTurns
<1>5. CASE Detach(t)
  <2>1. Busy(t) /\ Turns(t, Top(t).span, Top(t).token, "end")
    BY <1>5, DetachTurns
  <2> DEFINE n == Len(stack[t])
  <2>2. /\ n \in Nat \ {0}
        /\ DOMAIN stack[t] = 1 .. n /\ DOMAIN stack'[t] = 1 .. n
        /\ \A u \in Thread \ {t} : stack[u] = <<>> /\ stack'[u] = <<>>
    BY <1>0, <2>1, TurnFacts
  <2>3. /\ \A m \in 1 .. n - 1 : stack'[t][m] = stack[t][m]
        /\ stack[t][n] = Top(t) /\ stack'[t][n].step = "end"
    BY <1>0, <2>1, TurnFacts
  <2>4. ~Attached(stack'[t][n])
    BY <2>3 DEF Attached
  <2>5. /\ \A u \in Thread \ {t} : current'[u] = current[u]
        /\ \/ t \in leaked'
           \/ /\ t \notin leaked' => t \notin leaked
              /\ Top(t).token = -1 \/ current'[t] = Top(t).token
              /\ Top(t).token = -1 => current'[t] = current[t]
        /\ \A u \in Thread : u \notin leaked' => u \notin leaked
    BY <1>5 DEF Detach, Restored, TypeOK
  <2>6. Top(t).step = "detach"
    BY <1>5 DEF Detach
  <2> HIDE DEF n
  <2> SUFFICES ASSUME NEW u \in Thread, u \notin leaked'
               PROVE  Within(u)' /\ \A m \in DOMAIN stack'[u] : Based(u, m)'
    BY DEF ContextInv
  <2>7. Within(u) /\ \A m \in DOMAIN stack[u] : Based(u, m)
    BY <2>5 DEF ContextInv
  <2>8. CASE u # t
    BY <2>2, <2>5, <2>7, <2>8 DEF Within
  <2>9. CASE u = t
    <3>1. ASSUME NEW m \in 1 .. n - 1, Attached(stack[t][m]) PROVE Within(u)'
      <4>1. m \in 1 .. n /\ Attached(stack'[t][m])
        BY <2>2, <2>3, <3>1
      <4> QED
        BY <2>2, <2>9, <4>1 DEF Within
    <3>2. Within(u)'
      <4>1. CASE Top(t).token = -1
        <5>1. ~Attached(stack[t][n]) /\ current'[t] = current[t]
          BY <2>3, <2>5, <2>9, <4>1 DEF Attached
        <5>2. current[t] = 0 \/ \E m \in 1 .. n - 1 : Attached(stack[t][m])
          BY <2>2, <2>7, <2>9, <5>1 DEF Within
        <5> QED
          BY <2>9, <3>1, <5>1, <5>2 DEF Within
      <4>2. CASE Top(t).token # -1
        <5>1. Attached(stack[t][n]) /\ current'[t] = Top(t).token
          BY <2>3, <2>5, <2>6, <2>9, <4>2 DEF Attached
        <5>2. Top(t).token = 0 \/ \E m \in 1 .. n - 1 : Attached(stack[t][m])
          BY <2>2, <2>3, <2>7, <2>9, <5>1 DEF Based
        <5> QED
          BY <2>9, <3>1, <5>1, <5>2 DEF Within
      <4> QED
        BY <4>1, <4>2
    <3>3. ASSUME NEW m \in {n} PROVE Based(u, m)'
      BY <2>4, <2>9 DEF Based
    <3>4. ASSUME NEW m \in 1 .. n - 1 PROVE Based(u, m)'
      <4>1. Based(t, m) /\ 1 .. m - 1 \subseteq 1 .. n - 1
        BY <2>2, <2>7, <2>9
      <4> QED
        BY <2>3, <2>9, <4>1 DEF Based
    <3>5. \A m \in 1 .. n : Based(u, m)'
      BY <2>2, <3>3, <3>4
    <3> QED
      BY <2>2, <2>9, <3>2, <3>5
  <2> QED
    BY <2>8, <2>9
<1>6. CASE End(t)
  <2> DEFINE n == Len(stack[t])
  <2>1. /\ n \in Nat \ {0}
        /\ DOMAIN stack[t] = 1 .. n /\ DOMAIN stack'[t] = 1 .. n - 1
        /\ \A m \in 1 .. n - 1 : stack'[t][m] = stack[t][m]
        /\ stack[t][n].step = "end"
        /\ \A u \in Thread \ {t} : stack[u] = <<>> /\ stack'[u] = <<>>
    BY <1>0, <1>6, LeaveFacts
  <2>2. ~Attached(stack[t][n]) /\ UNCHANGED <<current, leaked>>
    BY <1>6, <2>1 DEF Attached, End
  <2> HIDE DEF n
  <2> SUFFICES ASSUME NEW u \in Thread, u \notin leaked
               PROVE  Within(u)' /\ \A m \in DOMAIN stack'[u] : Based(u, m)'
    BY <2>2 DEF ContextInv
  <2>3. Within(u) /\ \A m \in DOMAIN stack[u] : Based(u, m)
    BY DEF ContextInv
  <2>4. CASE u # t
    BY <2>1, <2>2, <2>3, <2>4 DEF Within
  <2>5. CASE u = t
    <3>1. current[t] = 0 \/ \E m \in 1 .. n - 1 : Attached(stack[t][m])
      BY <2>1, <2>2, <2>3, <2>5 DEF Within
    <3>2. Within(u)'
      BY <2>1, <2>2, <2>5, <3>1 DEF Within
    <3>3. ASSUME NEW m \in 1 .. n - 1 PROVE Based(u, m)'
      <4>1. Based(t, m) /\ 1 .. m - 1 \subseteq 1 .. n - 1
        BY <2>1, <2>3, <2>5
      <4> QED
        BY <2>1, <2>5, <4>1 DEF Based
    <3> QED
      BY <2>1, <2>5, <3>2, <3>3
  <2> QED
    BY <2>4, <2>5
<1>7. CASE GoesOn(t)
  <2>1. Busy(t) /\ Top(t).step # "end"
    BY <1>7, GoesOnTurns
  <2>2. \E step : step # "end" /\ Turns(t, Top(t).span, Top(t).token, step)
    BY <1>7, GoesOnTurns
  <2>3. UNCHANGED <<current, leaked>>
    BY <1>7 DEF GoesOn, BufferEvent, FlushBatch, EndFlush, BodyDone, sdkVars
  <2> QED
    BY <1>0, <2>1, <2>2, <2>3, ContextOfTurn
<1>8. CASE Enters(t)
  <2>1. PICK step \in {"detach", "written"}, kind \in Kind, of \in About :
          Nests(t, step, kind, of)
    BY <1>0, <1>8, EntersNests
  <2>2. Busy(t) /\ Top(t).step # "end"
    BY <1>0, <1>8, EntersNests
  <2>3. UNCHANGED <<current, leaked>>
    BY <1>8 DEF Enters, BeginProcess, FlushBatch, BeginInsert, sdkVars
  <2> DEFINE n == Len(stack[t])
  <2>4. /\ n \in Nat \ {0}
        /\ DOMAIN stack[t] = 1 .. n /\ DOMAIN stack'[t] = 1 .. n + 1
        /\ \A u \in Thread \ {t} : stack[u] = <<>> /\ stack'[u] = <<>>
    BY <1>0, <2>1, <2>2, NestFacts
  <2>5. \A m \in 1 .. n : /\ Attached(stack'[t][m]) <=> Attached(stack[t][m])
                          /\ stack'[t][m].token = stack[t][m].token
    <3>1. \A m \in 1 .. n - 1 : stack'[t][m] = stack[t][m]
      BY <1>0, <2>1, <2>2, NestFacts
    <3>2. /\ stack[t][n] = Top(t)
          /\ stack'[t][n].token = Top(t).token /\ stack'[t][n].step = step
      BY <1>0, <2>1, <2>2, NestFacts
    <3> QED
      BY <2>1, <2>2, <2>4, <3>1, <3>2 DEF Attached
  <2>6. ~Attached(stack'[t][n + 1])
    BY <1>0, <2>1, <2>2, NestFacts DEF Attached
  <2> HIDE DEF n
  <2> SUFFICES ASSUME NEW u \in Thread, u \notin leaked
               PROVE  Within(u)' /\ \A m \in DOMAIN stack'[u] : Based(u, m)'
    BY <2>3 DEF ContextInv
  <2>7. Within(u) /\ \A m \in DOMAIN stack[u] : Based(u, m)
    BY DEF ContextInv
  <2>8. CASE u # t
    BY <2>3, <2>4, <2>7, <2>8 DEF Within
  <2>9. CASE u = t
    <3>1. 1 .. n \subseteq 1 .. n + 1
      BY <2>4
    <3>2. Within(u)'
      BY <2>3, <2>4, <2>5, <2>7, <2>9, <3>1 DEF Within
    <3>3. ASSUME NEW m \in {n + 1} PROVE Based(u, m)'
      BY <2>6, <2>9 DEF Based
    <3>4. ASSUME NEW m \in 1 .. n PROVE Based(u, m)'
      <4>1. Based(t, m) /\ 1 .. m - 1 \subseteq 1 .. n
        BY <2>4, <2>7, <2>9
      <4> QED
        BY <2>5, <2>9, <4>1 DEF Based
    <3>5. \A m \in 1 .. n + 1 : Based(u, m)'
      BY <2>4, <3>3, <3>4
    <3> QED
      BY <2>4, <2>9, <3>2, <3>5
  <2> QED
    BY <2>8, <2>9
<1>9. CASE JobBegins(t)
  <2>1. Unlocked /\ \E kind, of : Begins(t, NewFrame(kind, of))
    BY <1>9, JobBeginsOutermost
  <2>2. /\ \A u \in Thread : stack[u] = <<>>
        /\ \A u \in Thread \ {t} : stack'[u] = <<>>
        /\ DOMAIN stack'[t] = {1} /\ stack'[t][1].token = -1
    BY <2>1, BeginFacts
  <2>3. UNCHANGED <<current, leaked>>
    BY <1>9 DEF JobBegins, ProcessMessage, FlushBatch, BeginRequest, sdkVars
  <2>4. \A u \in Thread : u \notin leaked => current[u] = 0
    BY <2>2 DEF ContextInv, Within
  <2>5. ~Attached(stack'[t][1])
    BY <2>2 DEF Attached
  <2>6. \A u \in Thread : u \notin leaked => Within(u)'
    BY <2>3, <2>4 DEF Within
  <2>7. \A u \in Thread : \A m \in DOMAIN stack'[u] : ~Attached(stack'[u][m])
    BY <2>2, <2>5
  <2>8. \A u \in Thread : \A m \in DOMAIN stack'[u] : Based(u, m)'
    BY <2>7 DEF Based
  <2> QED
    BY <2>3, <2>6, <2>8 DEF ContextInv
<1> QED
  BY <1>1, <1>2, <1>3, <1>4, <1>5, <1>6, <1>7, <1>8, <1>9

\* The parent of the next span is the span of the handle around it.
LEMMA ParentStep ==
  ASSUME TypeOK, HandleInvs, ParentInv, Next
  PROVE  ParentInv'
<1>0. HandleInv /\ NestInv /\ OneBusy
  BY DEF HandleInvs
<1>1. PICK t \in Thread :
        \/ Start(t) \/ Clear(t) \/ Attach(t) \/ Detach(t) \/ End(t)
        \/ GoesOn(t) \/ Enters(t) \/ JobBegins(t)
  BY NextActs
<1>2. ASSUME Busy(t), NEW span, NEW token, NEW step, Turns(t, span, token, step),
             step # "start",
             step = "body" /\ token # -1 => current'[t] = span
      PROVE  ParentInv'
  <2>1. /\ \A u \in Thread \ {t} : stack'[u] = <<>>
        /\ stack'[t][Len(stack'[t])].step = step
        /\ stack'[t][Len(stack'[t])].token = token
        /\ stack'[t][Len(stack'[t])].span = span
    BY <1>0, <1>2, TurnFacts
  <2>2. ParentOK(t)'
    BY <1>2, <2>1 DEF ParentOK
  <2> QED
    BY <2>1, <2>2 DEF ParentInv, Busy
<1>3. CASE Start(t)
  <2>1. Busy(t) /\ Top(t).step = "start" /\ \E i \in Nat : AfterStart(t, i)
    BY <1>3, LenTyped DEF Start
  <2>2. \E i \in Nat, step \in {"clear", "attach"} : Turns(t, i, -1, step)
    BY <1>0, <2>1, StartMoves
  <2> QED
    BY <1>2, <2>1, <2>2
<1>4. CASE Clear(t)
  BY <1>0, <1>2, <1>4, ClearTurns
<1>5. CASE Attach(t)
  <2>1. Busy(t) /\ Top(t).token = -1 /\ current \in [Thread -> 0 .. Len(spans)]
    BY <1>0, <1>5, TopIsHandle DEF Attach, TypeOK
  <2> QED
    BY <1>2, <1>5, <2>1, AttachTurns
<1>6. CASE Detach(t)
  BY <1>2, <1>6, DetachTurns
<1>7. CASE End(t)
  <2> DEFINE n == Len(stack[t])
  <2>1. /\ n \in Nat \ {0}
        /\ DOMAIN stack[t] = 1 .. n /\ Len(stack'[t]) = n - 1
        /\ \A m \in 1 .. n - 1 : stack'[t][m] = stack[t][m]
        /\ \A u \in Thread \ {t} : stack'[u] = <<>>
    BY <1>0, <1>7, LeaveFacts
  <2>2. stack' \in [Thread -> Seq(Frame)]
    BY <1>7, EndLeaves DEF End, Leaves
  <2>3. ASSUME Busy(t)'
        PROVE  stack'[t][Len(stack'[t])].step \in {"written", "detach"}
    <3>1. stack'[t] \in Seq(Frame) /\ stack'[t] # <<>>
      BY <2>2, <2>3 DEF Busy
    <3>2. n - 1 \in 1 .. n - 1
      BY <2>1, <3>1
    <3>3. NestOK(t, n - 1) /\ n - 1 < Len(stack[t])
      BY <1>0, <2>1, <3>2 DEF NestInv
    <3>4. stack[t][n - 1].step \in {"written", "detach"}
      BY <3>3 DEF NestOK
    <3> QED
      BY <2>1, <3>2, <3>4
  <2>4. Busy(t)' => ParentOK(t)'
    BY <2>3 DEF ParentOK
  <2> QED
    BY <2>1, <2>4 DEF ParentInv, Busy
<1>8. CASE GoesOn(t)
  <2>1. \E step \in {"detach", "flush"} : Turns(t, Top(t).span, Top(t).token, step)
    BY <1>8, GoesOnTurns
  <2> QED
    BY <1>2, <1>8, <2>1, GoesOnTurns
<1>9. CASE Enters(t)
  <2>1. PICK step \in {"detach", "written"}, kind \in Kind, of \in About :
           /\ Nests(t, step, kind, of)
           /\ kind # "flush" => Top(t).step = "body"
    BY <1>0, <1>9, EntersNests
  <2>2. Busy(t)
    BY <1>0, <1>9, EntersNests
  <2>3. UNCHANGED current
    BY <1>9 DEF Enters, BeginProcess, FlushBatch, BeginInsert, sdkVars
  <2> DEFINE n == Len(stack[t])
  <2>4. /\ n \in Nat \ {0} /\ Len(stack'[t]) = n + 1 /\ stack[t][n] = Top(t)
        /\ stack'[t][n].span = Top(t).span /\ stack'[t][n].token = Top(t).token
        /\ stack'[t][n + 1].kind = kind /\ stack'[t][n + 1].step = "start"
        /\ \A u \in Thread \ {t} : stack'[u] = <<>>
    BY <1>0, <2>1, <2>2, NestFacts
  <2>5. ParentOK(t)
    BY <2>2 DEF ParentInv
  <2>6. kind # "flush" => (Top(t).token # -1 => current[t] = Top(t).span)
    BY <2>1, <2>4, <2>5 DEF ParentOK
  <2> HIDE DEF n
  <2>7. Len(stack'[t]) - 1 = n
    BY <2>4
  <2>8. ParentOK(t)'
    BY <2>3, <2>4, <2>6, <2>7 DEF ParentOK
  <2> QED
    BY <2>4, <2>8 DEF ParentInv, Busy
<1>10. CASE JobBegins(t)
  <2>1. PICK kind, of : /\ kind \in {"agent", "server", "flush"}
                       /\ Begins(t, NewFrame(kind, of))
    BY <1>10, JobBeginsOutermost
  <2>2. /\ \A u \in Thread \ {t} : stack'[u] = <<>>
        /\ Len(stack'[t]) = 1
        /\ stack'[t][1].kind = kind /\ stack'[t][1].step = "start"
    BY <1>10, <2>1, JobBeginsOutermost, BeginFacts
  <2>3. ParentOK(t)'
    BY <2>1, <2>2 DEF ParentOK
  <2> QED
    BY <2>2, <2>3 DEF ParentInv, Busy
<1> QED
  BY <1>1, <1>3, <1>4, <1>5, <1>6, <1>7, <1>8, <1>9, <1>10

-----------------------------------------------------------------------------
(* Faults *)

LEMMA BlameStep ==
  ASSUME TypeOK, HandleInvs, BlameInv, Next
  PROVE  BlameInv'
<1>0. HandleInv /\ OneBusy
  BY DEF HandleInvs
<1>1. PICK t \in Thread :
        \/ Start(t) \/ Clear(t) \/ Attach(t) \/ Detach(t) \/ End(t)
        \/ GoesOn(t) \/ Enters(t) \/ JobBegins(t)
  BY NextActs
<1>a. ASSUME UNCHANGED <<leaked, faults>>, AllGood => AllGood'
      PROVE  BlameInv'
  BY <1>a DEF BlameInv
<1>b. ASSUME NEW kind, Fault(kind), UNCHANGED leaked
      PROVE  BlameInv'
  <2>1. faults' = faults + 1 /\ faults \in Nat
    BY <1>b DEF Fault, TypeOK
  <2> QED
    BY <1>b, <2>1 DEF BlameInv
<1>c. Busy(t) => (AllGood => Good(Top(t)))
  <2>1. Busy(t) => Len(stack[t]) \in DOMAIN stack[t] /\ Top(t) = stack[t][Len(stack[t])]
    BY TopIsFrame
  <2> QED
    BY <2>1 DEF AllGood
<1>d. ASSUME Busy(t), NEW span, NEW token, NEW step, Turns(t, span, token, step),
             Good(Top(t)) => /\ step # "start" => span # 0
                             /\ step \notin {"start", "clear", "attach"} => token # -1,
             AllGood
      PROVE  AllGood'
  <2> DEFINE n == Len(stack[t])
  <2>1. /\ n \in Nat \ {0}
        /\ DOMAIN stack[t] = 1 .. n /\ DOMAIN stack'[t] = 1 .. n
        /\ \A m \in 1 .. n - 1 : stack'[t][m] = stack[t][m]
        /\ stack'[t][n].span = span /\ stack'[t][n].token = token
        /\ stack'[t][n].step = step
        /\ \A u \in Thread \ {t} : stack'[u] = <<>>
    BY <1>0, <1>d, TurnFacts
  <2> HIDE DEF n
  <2>2. \A m \in 1 .. n - 1 : Good(stack'[t][m])
    BY <1>d, <2>1 DEF AllGood
  <2>3. Good(stack'[t][n])
    BY <1>c, <1>d, <2>1 DEF Good
  <2>4. \A m \in 1 .. n : Good(stack'[t][m])
    BY <2>1, <2>2, <2>3
  <2> QED
    BY <2>1, <2>4 DEF AllGood
<1>2. CASE Start(t)
  <2>1. Busy(t) /\ Top(t).step = "start" /\ Len(spans) + 1 \in Nat \ {0} /\ UNCHANGED leaked
    BY <1>2, LenTyped DEF Start
  <2>2. CASE Fault("start")
    BY <1>b, <2>1, <2>2
  <2>3. CASE UNCHANGED faults /\ AfterStart(t, Len(spans) + 1)
    <3>1. \E step \in {"clear", "attach"} : Turns(t, Len(spans) + 1, -1, step)
      BY <1>0, <2>1, <2>3, StartMoves
    <3> QED
      BY <1>a, <1>d, <2>1, <2>3, <3>1
  <2> QED
    BY <1>2, <2>2, <2>3 DEF Start
<1>3. CASE Clear(t)
  <2>1. Busy(t) /\ Top(t).step = "clear" /\ UNCHANGED <<leaked, faults>>
    BY <1>3, AtIsBusy DEF Clear
  <2>2. Good(Top(t)) => Top(t).span # 0
    BY <2>1 DEF Good
  <2> QED
    BY <1>0, <1>3, <1>a, <1>d, <2>1, <2>2, ClearTurns
<1>4. CASE Attach(t)
  <2>1. Busy(t) /\ Top(t).step = "attach" /\ UNCHANGED leaked
    BY <1>4 DEF Attach
  <2>2. Good(Top(t)) => Top(t).span # 0
    BY <2>1 DEF Good
  <2>3. CASE Fault("attach")
    BY <1>b, <2>1, <2>3
  <2>4. CASE /\ Top(t).span # 0
             /\ Turns(t, Top(t).span, current[t], "body")
             /\ UNCHANGED faults
    <3>1. current[t] # -1
      BY LenTyped DEF TypeOK
    <3> QED
      BY <1>a, <1>d, <2>1, <2>4, <3>1
  <2>5. CASE Top(t).span = 0 /\ UNCHANGED faults
    <3>1. ~AllGood
      BY <1>c, <2>1, <2>2, <2>5
    <3> QED
      BY <1>a, <2>1, <2>5, <3>1
  <2> QED
    BY <1>4, <2>3, <2>4, <2>5, AttachTurns
<1>5. CASE Detach(t)
  <2>1. /\ Busy(t) /\ Top(t).step = "detach"
        /\ Turns(t, Top(t).span, Top(t).token, "end")
    BY <1>5, DetachTurns DEF Detach
  <2>2. AllGood => AllGood'
    BY <1>d, <2>1 DEF Good
  <2>3. CASE UNCHANGED <<leaked, faults>>
    BY <1>a, <2>2, <2>3
  <2>4. CASE Fault("detach")
    <3>1. faults' = faults + 1 /\ faults \in Nat
      BY <2>4 DEF Fault, TypeOK
    <3> QED
      BY <2>2, <3>1 DEF BlameInv
  <2> QED
    BY <1>5, <2>3, <2>4 DEF Detach
<1>6. CASE End(t)
  <2> DEFINE n == Len(stack[t])
  <2>1. /\ n \in Nat \ {0}
        /\ DOMAIN stack[t] = 1 .. n /\ DOMAIN stack'[t] = 1 .. n - 1
        /\ \A m \in 1 .. n - 1 : stack'[t][m] = stack[t][m]
        /\ \A u \in Thread \ {t} : stack'[u] = <<>>
    BY <1>0, <1>6, LeaveFacts
  <2> HIDE DEF n
  <2>2. AllGood => AllGood'
    BY <2>1 DEF AllGood
  <2> QED
    BY <1>6, <1>a, <2>2 DEF End
<1>7. CASE GoesOn(t)
  <2>1. Busy(t) /\ Top(t).step \in {"body", "flush", "written"}
    BY <1>7, GoesOnTurns
  <2>2. \E step : Turns(t, Top(t).span, Top(t).token, step)
    BY <1>7, GoesOnTurns
  <2>3. UNCHANGED <<leaked, faults>>
    BY <1>7 DEF GoesOn, BufferEvent, FlushBatch, EndFlush, BodyDone, sdkVars
  <2>4. Good(Top(t)) => Top(t).span # 0 /\ Top(t).token # -1
    BY <2>1 DEF Good
  <2> QED
    BY <1>a, <1>d, <2>1, <2>2, <2>3, <2>4
<1>8. CASE Enters(t)
  <2>1. PICK step \in {"detach", "written"}, kind \in Kind, of \in About :
          Nests(t, step, kind, of)
    BY <1>0, <1>8, EntersNests
  <2>2. Busy(t) /\ Top(t).step \in {"body", "flush"}
    BY <1>0, <1>8, EntersNests
  <2>3. UNCHANGED <<leaked, faults>>
    BY <1>8 DEF Enters, BeginProcess, FlushBatch, BeginInsert, sdkVars
  <2> DEFINE n == Len(stack[t])
  <2>4. /\ n \in Nat \ {0}
        /\ DOMAIN stack[t] = 1 .. n /\ DOMAIN stack'[t] = 1 .. n + 1
        /\ \A m \in 1 .. n - 1 : stack'[t][m] = stack[t][m]
        /\ stack'[t][n].span = Top(t).span /\ stack'[t][n].token = Top(t).token
        /\ stack'[t][n + 1].step = "start"
        /\ \A u \in Thread \ {t} : stack'[u] = <<>>
    BY <1>0, <2>1, <2>2, NestFacts
  <2> HIDE DEF n
  <2>5. ASSUME AllGood PROVE AllGood'
    <3>1. \A m \in 1 .. n - 1 : Good(stack'[t][m])
      BY <2>4, <2>5 DEF AllGood
    <3>2. Good(stack'[t][n]) /\ Good(stack'[t][n + 1])
      BY <1>c, <2>2, <2>4, <2>5 DEF Good
    <3>3. \A m \in 1 .. n + 1 : Good(stack'[t][m])
      BY <2>4, <3>1, <3>2
    <3>4. \A u \in Thread \ {t} : DOMAIN stack'[u] = {}
      BY <2>4
    <3>5. \A u \in Thread : \A m \in DOMAIN stack'[u] : Good(stack'[u][m])
      BY <2>4, <3>3, <3>4
    <3> QED
      BY <3>5 DEF AllGood
  <2> QED
    BY <1>a, <2>3, <2>5
<1>9. CASE JobBegins(t)
  <2>1. \E kind, of : Begins(t, NewFrame(kind, of))
    BY <1>9, JobBeginsOutermost
  <2>2. /\ \A u \in Thread \ {t} : stack'[u] = <<>>
        /\ DOMAIN stack'[t] = {1} /\ stack'[t][1].step = "start"
    BY <1>9, <2>1, JobBeginsOutermost, BeginFacts
  <2>3. AllGood'
    BY <2>2 DEF AllGood, Good
  <2>4. UNCHANGED <<leaked, faults>>
    BY <1>9 DEF JobBegins, ProcessMessage, FlushBatch, BeginRequest, sdkVars
  <2> QED
    BY <1>a, <2>3, <2>4
<1> QED
  BY <1>1, <1>2, <1>3, <1>4, <1>5, <1>6, <1>7, <1>8, <1>9

-----------------------------------------------------------------------------
(* Forced ids *)

LEMMA IdleIsNowhere ==
  ASSUME NEW t, stack[t] = <<>>
  PROVE  \A kinds, step : ~At(t, kinds, step)
  BY DEF At, Busy

LEMMA TopLater ==
  ASSUME NEW t, NEW kinds, NEW step, At(t, kinds, step)'
  PROVE  LET f == stack'[t][Len(stack'[t])]
         IN  /\ stack'[t] # <<>> /\ Top(t)' = f
             /\ f.kind \in kinds /\ f.step = step
  BY DEF At, Busy, Top, Last

LEMMA IsNowAt ==
  ASSUME NEW t, NEW kinds, NEW step, stack'[t] # <<>>,
         stack'[t][Len(stack'[t])].kind \in kinds,
         stack'[t][Len(stack'[t])].step = step
  PROVE  At(t, kinds, step)'
  BY DEF At, Busy, Top, Last

\* The slot is empty wherever a handle is past the start of its span.
LEMMA ForcedStep ==
  ASSUME TypeOK, HandleInvs, SlotInv, ForceInv, Next
  PROVE  SlotInv' /\ ForceInv'
<1>0. HandleInv /\ OneBusy /\ NestInv
  BY DEF HandleInvs
<1>1. PICK t \in Thread :
        \/ Start(t) \/ Clear(t) \/ Attach(t) \/ Detach(t) \/ End(t)
        \/ GoesOn(t) \/ Enters(t) \/ JobBegins(t)
  BY NextActs
<1>2. \A u \in Thread : stack[u] = <<>> => slot[u] = Empty
  BY IdleIsNowhere DEF SlotInv
<1>a. ASSUME \A u \in Thread \ {t} : stack[u] = <<>> /\ stack'[u] = <<>>,
             \A u \in Thread \ {t} : slot'[u] = slot[u],
             slot'[t] = Empty \/ At(t, {"agent"}, "clear")',
             ~At(t, {"agent"}, "start")'
      PROVE  SlotInv' /\ ForceInv'
  <2>1. \A u \in Thread \ {t} : ~At(u, {"agent"}, "start")'
    BY <1>a DEF At, Busy
  <2>2. \A u \in Thread \ {t} : slot'[u] = Empty
    BY <1>2, <1>a
  <2>3. SlotInv'
    BY <1>a, <2>2 DEF SlotInv
  <2>4. \A u \in Thread : ~At(u, {"agent"}, "start")'
    BY <1>a, <2>1
  <2>5. ForceInv'
    BY <2>4 DEF ForceInv
  <2> QED
    BY <2>3, <2>5
<1>b. ASSUME Busy(t), NEW span, NEW token, NEW step, Turns(t, span, token, step),
             step # "start", UNCHANGED slot, slot[t] = Empty
      PROVE  SlotInv' /\ ForceInv'
  <2>1. /\ \A u \in Thread \ {t} : stack[u] = <<>> /\ stack'[u] = <<>>
        /\ stack'[t][Len(stack'[t])].step = step
    BY <1>0, <1>b, TurnFacts
  <2>2. ~At(t, {"agent"}, "start")'
    BY <1>b, <2>1, TopLater
  <2> QED
    BY <1>a, <1>b, <2>1, <2>2
<1>c. Busy(t) /\ Top(t).step \notin {"start", "clear"} => slot[t] = Empty
  BY DEF SlotInv, At
<1>3. CASE Start(t)
  <2>1. /\ Busy(t) /\ Top(t).step = "start"
        /\ \E i \in Nat : AfterStart(t, i)
        /\ slot' \in {slot, [slot EXCEPT ![t].span = NoId]}
    BY <1>3, LenTyped DEF Start
  <2>2. PICK i \in Nat :
          Turns(t, i, -1, IF Top(t).kind = "agent" THEN "clear" ELSE "attach")
    BY <1>0, <2>1, StartMoves
  <2>3. /\ \A u \in Thread \ {t} : stack[u] = <<>> /\ stack'[u] = <<>>
        /\ stack'[t][Len(stack'[t])].kind = Top(t).kind
        /\ stack'[t][Len(stack'[t])].step =
             IF Top(t).kind = "agent" THEN "clear" ELSE "attach"
        /\ Len(stack'[t]) \in Nat \ {0}
    BY <1>0, <2>1, <2>2, TurnFacts
  <2>4. \A u \in Thread \ {t} : slot'[u] = slot[u]
    BY <2>1 DEF TypeOK
  <2>5. ~At(t, {"agent"}, "start")'
    BY <2>3, TopLater
  <2>6. CASE Top(t).kind = "agent"
    <3>1. stack'[t] # <<>>
      BY <2>3
    <3>2. At(t, {"agent"}, "clear")'
      BY <2>3, <2>6, <3>1, IsNowAt
    <3> QED
      BY <1>a, <2>3, <2>4, <2>5, <3>2
  <2>7. CASE Top(t).kind # "agent"
    <3>1. slot[t] = Empty
      BY <2>7 DEF SlotInv, At
    <3>2. slot'[t] = Empty
      BY <2>1, <3>1 DEF TypeOK, Empty
    <3> QED
      BY <1>a, <2>3, <2>4, <2>5, <3>2
  <2> QED
    BY <2>6, <2>7
<1>4. CASE Clear(t)
  <2>1. Busy(t) /\ Turns(t, Top(t).span, -1, "attach") /\ slot' = Cleared(t)
    BY <1>0, <1>4, ClearTurns DEF Clear
  <2>2. /\ \A u \in Thread \ {t} : stack[u] = <<>> /\ stack'[u] = <<>>
        /\ stack'[t][Len(stack'[t])].step = "attach"
    BY <1>0, <2>1, TurnFacts
  <2>3. slot'[t] = Empty /\ \A u \in Thread \ {t} : slot'[u] = slot[u]
    BY <2>1 DEF Cleared, TypeOK
  <2>4. ~At(t, {"agent"}, "start")'
    BY <2>2, TopLater
  <2> QED
    BY <1>a, <2>2, <2>3, <2>4
<1>5. CASE Attach(t)
  <2>1. Busy(t) /\ UNCHANGED slot /\ slot[t] = Empty
    BY <1>5, <1>c DEF Attach
  <2> QED
    BY <1>5, <1>b, <2>1, AttachTurns
<1>6. CASE Detach(t)
  <2>1. Busy(t) /\ UNCHANGED slot /\ slot[t] = Empty
    BY <1>6, <1>c DEF Detach
  <2> QED
    BY <1>6, <1>b, <2>1, DetachTurns
<1>7. CASE End(t)
  <2>1. Busy(t) /\ UNCHANGED slot /\ slot[t] = Empty
    BY <1>7, <1>c DEF End
  <2> DEFINE n == Len(stack[t])
  <2>2. /\ n \in Nat \ {0}
        /\ DOMAIN stack[t] = 1 .. n /\ Len(stack'[t]) = n - 1
        /\ \A m \in 1 .. n - 1 : stack'[t][m] = stack[t][m]
        /\ \A u \in Thread \ {t} : stack[u] = <<>> /\ stack'[u] = <<>>
    BY <1>0, <1>7, LeaveFacts
  <2>3. stack' \in [Thread -> Seq(Frame)]
    BY <1>7, EndLeaves DEF End, Leaves
  <2>4. ASSUME At(t, {"agent"}, "start")' PROVE FALSE
    <3>1. stack'[t] \in Seq(Frame) /\ stack'[t] # <<>>
          /\ stack'[t][Len(stack'[t])].step = "start"
      BY <2>3, <2>4, TopLater
    <3>2. n - 1 \in 1 .. n - 1
      BY <2>2, <3>1
    <3>3. NestOK(t, n - 1) /\ n - 1 < Len(stack[t])
      BY <1>0, <2>2, <3>2 DEF NestInv
    <3>4. stack[t][n - 1].step \in {"written", "detach"}
      BY <3>3 DEF NestOK
    <3> QED
      BY <2>2, <3>1, <3>2, <3>4
  <2> QED
    BY <1>a, <2>1, <2>2, <2>4
<1>8. CASE GoesOn(t)
  <2>1. Busy(t) /\ Top(t).step \in {"body", "flush", "written"}
    BY <1>8, GoesOnTurns
  <2>2. UNCHANGED slot /\ slot[t] = Empty
    BY <1>8, <1>c, <2>1 DEF GoesOn, BufferEvent, FlushBatch, EndFlush, BodyDone, sdkVars
  <2>3. \E step \in {"detach", "flush"} : Turns(t, Top(t).span, Top(t).token, step)
    BY <1>8, GoesOnTurns
  <2> QED
    BY <1>b, <2>1, <2>2, <2>3
<1>9. CASE Enters(t)
  <2>1. PICK step, kind, of :
          Nests(t, step, kind, of) /\ <<Top(t).kind, kind>> \in Nesting
    BY <1>0, <1>9, EntersNests
  <2>2. Busy(t) /\ Top(t).step \in {"body", "flush"}
    BY <1>0, <1>9, EntersNests
  <2>3. UNCHANGED slot /\ slot[t] = Empty
    BY <1>9, <1>c, <2>2 DEF Enters, BeginProcess, FlushBatch, BeginInsert, sdkVars
  <2>4. /\ stack'[t][Len(stack'[t])].kind = kind
        /\ \A u \in Thread \ {t} : stack[u] = <<>> /\ stack'[u] = <<>>
    BY <1>0, <2>1, <2>2, NestFacts
  <2>5. kind # "agent"
    BY <2>1 DEF Nesting
  <2>6. ~At(t, {"agent"}, "start")'
    BY <2>4, <2>5, TopLater
  <2> QED
    BY <1>a, <2>3, <2>4, <2>6
<1>10. CASE JobBegins(t)
  <2>1. Unlocked /\ \A u \in Thread : stack[u] = <<>> /\ slot[u] = Empty
    BY <1>10, <1>2, JobBeginsOutermost DEF Unlocked, Busy
  <2>2. ASSUME NEW kind, NEW of, Outermost(t, kind, of)
        PROVE  /\ stack'[t] = <<NewFrame(kind, of)>>
               /\ \A u \in Thread \ {t} : stack'[u] = <<>>
    BY <2>1, <2>2 DEF Outermost, TypeOK
  <2>3. CASE /\ UNCHANGED slot
             /\ \E kind, of : kind \in {"server", "flush"} /\ Outermost(t, kind, of)
    <3>1. PICK kind, of : kind \in {"server", "flush"} /\ Outermost(t, kind, of)
      BY <2>3
    <3>2. /\ stack'[t][Len(stack'[t])].kind # "agent"
          /\ \A u \in Thread \ {t} : stack'[u] = <<>>
      <4>1. /\ stack'[t] = <<NewFrame(kind, of)>>
            /\ \A u \in Thread \ {t} : stack'[u] = <<>>
        BY <2>2, <3>1
      <4>2. NewFrame(kind, of).kind = kind
        BY DEF NewFrame
      <4>3. stack'[t][Len(stack'[t])] = NewFrame(kind, of)
        BY <4>1
      <4> QED
        BY <3>1, <4>1, <4>2, <4>3
    <3>3. ~At(t, {"agent"}, "start")'
      BY <3>2, TopLater
    <3> QED
      BY <1>a, <2>1, <2>3, <3>2, <3>3
  <2>4. ASSUME NEW e \in Event, t = Main, ProcessMessage(e)
        PROVE  SlotInv' /\ ForceInv'
    <3>1. Outermost(t, "agent", e) /\ slot' = Forced(t, e)
      BY <2>4 DEF ProcessMessage
    <3>2. /\ stack'[t] = <<NewFrame("agent", e)>>
          /\ \A u \in Thread \ {t} : stack'[u] = <<>>
      BY <2>2, <3>1
    <3>3. Top(t)' = NewFrame("agent", e)
      BY <3>2 DEF Top, Last
    <3>4. At(t, {"agent"}, "start")' /\ Top(t)'.of = e
      BY <3>2, <3>3 DEF At, Busy, NewFrame
    <3>5. \A u \in Thread \ {t} : /\ ~At(u, {"agent"}, "start")'
                                  /\ slot'[u] = Empty
      BY <2>1, <3>1, <3>2 DEF At, Busy, Forced, TypeOK
    <3>6. SlotInv'
      BY <3>4, <3>5 DEF SlotInv
    <3>7. slot'[t] = IF HasContext(e)
                     THEN [trace |-> TraceOf[e], span |-> SpanOf[e]]
                     ELSE [trace |-> Own(t), span |-> Own(t)]
      BY <3>1 DEF Forced, TypeOK
    <3>8. Own(t)[1] = t
      BY OwnIsId
    <3> HIDE DEF Own
    <3>9. ForcedFor(t, e)'
      BY <3>7, <3>8 DEF ForcedFor, HasContext
    <3>10. ForceInv'
      BY <3>4, <3>5, <3>9 DEF ForceInv, ForcedFor
    <3> QED
      BY <3>6, <3>10
  <2>5. CASE FlushBatch(t) /\ Unlocked
    BY <2>3, <2>5 DEF FlushBatch, Unlocked, At, sdkVars
  <2>6. CASE t = Worker /\ \E c \in Carriers : BeginRequest(c)
    BY <2>3, <2>6 DEF BeginRequest, sdkVars
  <2> QED
    BY <1>10, <2>4, <2>5, <2>6 DEF JobBegins
<1> QED
  BY <1>1, <1>3, <1>4, <1>5, <1>6, <1>7, <1>8, <1>9, <1>10

-----------------------------------------------------------------------------
(* What a new span is *)

LEMMA NewSpanOf ==
  ASSUME NEW t, NEW parents, NEW s \in NewSpans(t, parents)
  PROVE  /\ s.trace = IF parents # {} THEN (CHOOSE p \in parents : TRUE).trace
                      ELSE IF slot[t].trace # NoId THEN slot[t].trace ELSE Own(t)
         /\ s.id = IF slot[t].span # NoId THEN slot[t].span ELSE Own(t)
         /\ s.parents = {p.id : p \in parents}
         /\ parents = {} => s.sampled = Ratio(s.trace)
         /\ parents # {} => \E p \in parents : s.sampled = p.sampled
         /\ s.kind = Top(t).kind /\ s.of = Top(t).of /\ s.thread = t
  BY DEF NewSpans

LEMMA OneParent ==
  ASSUME NEW t, NEW p, NEW s \in NewSpans(t, {p})
  PROVE  s.trace = p.trace /\ s.parents = {p.id} /\ s.sampled = p.sampled
<1>1. {p} # {} /\ (CHOOSE q \in {p} : TRUE) = p
  OBVIOUS
<1>2. \A q \in {p} : q = p
  OBVIOUS
<1>3. {q.id : q \in {p}} = {p.id}
  OBVIOUS
<1> QED
  BY <1>1, <1>2, <1>3, NewSpanOf

ExactSpan(s) == IF s.kind = "agent" /\ HasContext(s.of)
                THEN Exact(s, s.of)
                ELSE /\ s.id[1] = s.thread
                     /\ s.kind \in {"flush", "agent"} => s.trace[1] = s.thread

LEMMA NewSpanIsExact ==
  ASSUME TypeOK, SlotInv, ForceInv, NEW t \in Thread, Busy(t),
         Top(t).step = "start", NEW s \in NewSpans(t, ParentsOf(t))
  PROVE  ExactSpan(s)
<1> DEFINE e == Top(t).of
<1>1. s.kind = Top(t).kind /\ s.of = e /\ s.thread = t
  BY NewSpanOf
<1>2. Own(t)[1] = t
  BY OwnIsId
<1>3. Top(t).kind # "agent" => slot[t] = Empty
  BY DEF SlotInv, At
<1>4. Top(t).kind = "agent" => ForcedFor(t, e)
  BY DEF ForceInv, At
<1> HIDE DEF e
<1>5. CASE Top(t).kind = "agent" /\ HasContext(e)
  <2>1. /\ slot[t].trace = TraceOf[e] /\ slot[t].span = SpanOf[e]
        /\ TraceOf[e] # NoId /\ SpanOf[e] # NoId
    BY <1>4, <1>5 DEF ForcedFor, HasContext
  <2>2. s.id = SpanOf[e]
    BY <2>1, NewSpanOf
  <2>3. CASE ParentOf[e] = NoId
    <3>1. ParentsOf(t) = {}
      BY <1>5, <2>3 DEF ParentsOf, Remote, e
    <3>2. s.trace = TraceOf[e] /\ s.parents = {}
      BY <2>1, <3>1, NewSpanOf
    <3> QED
      BY <1>1, <1>5, <2>2, <2>3, <3>2 DEF ExactSpan, Exact
  <2>4. CASE ParentOf[e] # NoId
    <3> DEFINE p == [trace |-> TraceOf[e], id |-> ParentOf[e],
                     sampled |-> ParentKept(e)]
    <3>1. ParentsOf(t) = {p}
      BY <1>5, <2>4 DEF ParentsOf, Remote, e
    <3>2. p.trace = TraceOf[e] /\ p.id = ParentOf[e]
      OBVIOUS
    <3> HIDE DEF p
    <3>3. s.trace = TraceOf[e] /\ s.parents = {ParentOf[e]}
      BY <3>1, <3>2, OneParent
    <3> QED
      BY <1>1, <1>5, <2>2, <2>4, <3>3 DEF ExactSpan, Exact
  <2> QED
    BY <2>3, <2>4
<1>6. CASE ~(Top(t).kind = "agent" /\ HasContext(e))
  <2>1. \/ slot[t].span = NoId /\ slot[t].trace = NoId
        \/ slot[t].span[1] = t /\ slot[t].trace[1] = t
    BY <1>3, <1>4, <1>6 DEF ForcedFor, Empty
  <2>2. s.id[1] = t
    BY <1>2, <2>1, NewSpanOf
  <2>3. Top(t).kind \in {"flush", "agent"} => ParentsOf(t) = {}
    BY <1>6 DEF ParentsOf, RootContext, Remote, e
  <2>4. Top(t).kind \in {"flush", "agent"} => s.trace[1] = t
    BY <1>2, <2>1, <2>3, NewSpanOf
  <2> QED
    BY <1>1, <1>6, <2>2, <2>4 DEF ExactSpan
<1> QED
  BY <1>5, <1>6

LEMMA NewSpanIsFair ==
  ASSUME TypeOK, HandleInv, SampledInv, NEW t \in Thread, Busy(t),
         NEW s \in NewSpans(t, ParentsOf(t))
  PROVE  Fair(s)
<1> DEFINE parents == ParentsOf(t)
           e == Top(t).of
<1>1. CASE parents = {}
  BY <1>1, NewSpanOf DEF Fair
<1>2. CASE parents # {}
  <2>1. Top(t).kind \in Kind /\ e \in Subject(Top(t).kind)
    BY TopIsFrame, TopIsHandle DEF Frame
  <2>2. CASE Top(t).kind = "agent"
    <3> DEFINE p == [trace |-> TraceOf[e], id |-> ParentOf[e],
                     sampled |-> ParentKept(e)]
    <3>1. parents = {p}
      BY <1>2, <2>2 DEF ParentsOf, Remote
    <3>2. p.trace = TraceOf[e] /\ p.sampled = Ratio(TraceOf[e])
      BY DEF ParentKept
    <3> HIDE DEF p, e
    <3>3. s.trace = TraceOf[e] /\ s.sampled = Ratio(TraceOf[e])
      BY <3>1, <3>2, OneParent
    <3> QED
      BY <3>3 DEF Fair
  <2>3. CASE Top(t).kind \in {"process", "db"}
    <3> DEFINE c == current[t]
               p == [trace |-> spans[c].trace, id |-> spans[c].id,
                     sampled |-> spans[c].sampled]
    <3>1. parents = {p} /\ c # 0
      BY <1>2, <2>3 DEF ParentsOf, Context
    <3>2. p.trace = spans[c].trace /\ p.sampled = spans[c].sampled
      OBVIOUS
    <3>3. c \in 1 .. Len(spans)
      BY <3>1, LenTyped DEF TypeOK
    <3>4. Fair(spans[c])
      BY <3>3 DEF SampledInv
    <3> HIDE DEF p, c
    <3>5. s.trace = spans[c].trace /\ s.sampled = spans[c].sampled
      BY <3>1, <3>2, OneParent
    <3> QED
      BY <3>4, <3>5 DEF Fair
  <2>4. CASE Top(t).kind = "server"
    <3>1. parents \in Carriers
      BY <2>1, <2>4 DEF Subject, ParentsOf
    <3>2. \A p \in parents : p.trace[1] = "client"
      BY <3>1, TelemetryAssumption
    <3>3. (CHOOSE p \in parents : TRUE) \in parents
      BY <1>2
    <3>4. s.trace[1] = "client"
      BY <1>2, <3>2, <3>3, NewSpanOf
    <3> QED
      BY <3>4 DEF Fair
  <2>5. CASE Top(t).kind = "flush"
    BY <1>2, <2>5 DEF ParentsOf, RootContext
  <2> QED
    BY <2>1, <2>2, <2>3, <2>4, <2>5 DEF Kind
<1> QED
  BY <1>1, <1>2

Child(s, r) == /\ r.of = s.of
               /\ <<r.kind, s.kind>> \in {<<"agent", "process">>, <<"flush", "db">>}
               /\ ChildOf(s, r)

\* Where StaysInItsTrace speaks of a span.
Spoken(s) == \/ faults = 0 /\ s.kind \in {"process", "db"}
             \/ faults = 1 /\ s.kind = "process" /\ s.parents # {}

LEMMA NewSpanIsChild ==
  ASSUME TypeOK, HandleInvs, ContextInv, ParentInv, BlameInv,
         NEW t \in Thread, Busy(t), Top(t).step = "start",
         NEW s \in NewSpans(t, ParentsOf(t)), Spoken(s)
  PROVE  \E i \in 1 .. Len(spans) : Child(s, spans[i])
<1> DEFINE n == Len(stack[t])
           above == stack[t][n - 1]
<1>1. HandleInv /\ NestInv /\ ParentOK(t)
  BY DEF HandleInvs, ParentInv
<1>2. s.kind = Top(t).kind /\ s.of = Top(t).of
  BY NewSpanOf
<1>3. Top(t).kind \in {"process", "db"}
  BY <1>2 DEF Spoken
<1>4. /\ n \in Nat \ {0} /\ Top(t) = stack[t][n] /\ DOMAIN stack[t] = 1 .. n
  BY TopIsFrame
<1>5. NestOK(t, n)
  BY <1>1, <1>4 DEF NestInv
<1>6. n > 1
  <2>1. n = 1 => stack[t][n].kind \notin {"process", "db"}
    BY <1>5 DEF NestOK
  <2> HIDE DEF n
  <2> QED
    BY <1>3, <1>4, <2>1
<1>7. n - 1 \in DOMAIN stack[t] /\ n - 1 < Len(stack[t])
  BY <1>4, <1>6
<1>8. HandleOK(t, n - 1) /\ NestOK(t, n - 1)
  BY <1>1, <1>7 DEF HandleInv, NestInv
<1>9. /\ <<above.kind, Top(t).kind>> \in {<<"agent", "process">>, <<"flush", "db">>}
      /\ above.of = Top(t).of
      /\ above.kind = "agent" => n - 1 = 1
  <2>1. <<above.kind, Top(t).kind>> \in Nesting /\ above.of = Top(t).of
    BY <1>3, <1>4, <1>5, <1>6 DEF NestOK
  <2>2. above.kind = "agent" => n - 1 = 1
    <3>1. n - 1 > 1 => <<stack[t][n - 1 - 1].kind, above.kind>> \in Nesting
      BY <1>8 DEF NestOK
    <3>2. above.kind = "agent" => ~(n - 1 > 1)
      BY <3>1 DEF Nesting
    <3> HIDE DEF n, above
    <3>3. n - 1 \in Nat /\ (n - 1 = 1 \/ n - 1 > 1)
      BY <1>4, <1>6
    <3> QED
      BY <3>2, <3>3
  <2> QED
    BY <1>3, <2>1, <2>2 DEF Nesting
<1>10. above.step \in {"written", "detach"}
  BY <1>7, <1>8 DEF NestOK
<1>11. above.token # -1 => above.span = current[t]
  BY <1>1, <1>3, <1>4 DEF ParentOK
<1>12. s.parents # {} => current[t] # 0
  <2>1. ParentsOf(t) = Context(t)
    BY <1>3 DEF ParentsOf
  <2> QED
    BY <2>1, NewSpanOf DEF Context
<1> HIDE DEF n, above
<1>13. ASSUME above.token = -1
       PROVE  FALSE
  <2>1. ~AllGood
    BY <1>7, <1>10, <1>13 DEF AllGood, Good, above
  <2>2. faults = 1 /\ s.kind = "process" /\ s.parents # {} /\ leaked = {}
    BY <2>1 DEF BlameInv, Spoken
  <2>3. n = 2
    BY <1>2, <1>4, <1>9, <2>2
  <2>4. Top(t).token = -1
    BY <1>1, TopIsHandle
  <2>5. \A m \in DOMAIN stack[t] : ~Attached(stack[t][m])
    BY <1>4, <1>13, <2>3, <2>4 DEF Attached, above
  <2> QED
    BY <1>12, <2>2, <2>5 DEF ContextInv, Within
<1>14. above.span # 0 /\ above.span \in 0 .. Len(spans) /\ current[t] = above.span
  BY <1>8, <1>11, <1>13 DEF HandleOK, above
<1>15. spans[above.span].kind = above.kind /\ spans[above.span].of = above.of
  BY <1>8, <1>14 DEF HandleOK, above
<1> DEFINE i == above.span
           p == [trace |-> spans[i].trace, id |-> spans[i].id,
                 sampled |-> spans[i].sampled]
<1>16. ParentsOf(t) = {p}
  BY <1>3, <1>14 DEF ParentsOf, Context
<1>17. p.trace = spans[i].trace /\ p.id = spans[i].id
  OBVIOUS
<1> HIDE DEF p
<1>18. s.trace = spans[i].trace /\ s.parents = {spans[i].id}
  BY <1>16, <1>17, OneParent
<1>19. i \in 1 .. Len(spans)
  BY <1>14, LenTyped
<1>20. Child(s, spans[i])
  BY <1>2, <1>9, <1>15, <1>18 DEF Child, ChildOf
<1> QED
  BY <1>19, <1>20

-----------------------------------------------------------------------------
(* The theorems *)

LEMMA ActsAddSpan ==
  ASSUME TypeOK, HandleInv, Next
  PROVE  \/ UNCHANGED <<spans, links>>
         \/ \E t \in Thread : \E s \in NewSpans(t, ParentsOf(t)) :
              /\ Busy(t) /\ Top(t).step = "start" /\ s \in Span
              /\ Len(spans') = Len(spans) + 1
              /\ spans'[Len(spans) + 1] = s
              /\ \A i \in 1 .. Len(spans) : spans'[i] = spans[i]
              /\ ToSet(spans') = ToSet(spans) \cup {s}
              /\ links' \subseteq links \cup LinksTo(Top(t).of)
              /\ UNCHANGED faults
<1>1. PICK t \in Thread :
        \/ Start(t) \/ Clear(t) \/ Attach(t) \/ Detach(t) \/ End(t)
        \/ GoesOn(t) \/ Enters(t) \/ JobBegins(t)
  BY NextActs
<1>2. CASE Start(t) /\ ~ UNCHANGED <<spans, links>>
  <2>1. PICK s \in NewSpans(t, ParentsOf(t)) : spans' = Append(spans, s)
    BY <1>2 DEF Start
  <2>2. Busy(t) /\ Top(t).step = "start" /\ UNCHANGED faults
        /\ links' \subseteq links \cup LinksTo(Top(t).of)
    BY <1>2 DEF Start
  <2>3. s \in Span
    BY <2>2, NewSpansAreTyped
  <2>4. /\ Len(spans') = Len(spans) + 1
        /\ spans'[Len(spans) + 1] = s
        /\ \A i \in 1 .. Len(spans) : spans'[i] = spans[i]
        /\ DOMAIN spans' = 1 .. Len(spans) + 1 /\ DOMAIN spans = 1 .. Len(spans)
    BY <2>1, <2>3, LenTyped DEF TypeOK
  <2>5. ToSet(spans') = ToSet(spans) \cup {s}
    BY <2>4, LenTyped DEF ToSet
  <2> QED
    BY <2>2, <2>3, <2>4, <2>5
<1>3. CASE End(t)
  BY <1>3 DEF End
<1> QED
  BY <1>1, <1>2, <1>3, ActsKeepSpans

LEMMA SpansStep ==
  ASSUME IInv, Next
  PROVE  AgentIdsAreExact' /\ SampledInv' /\ StaysInItsTrace'
<1>0. TypeOK /\ HandleInv /\ SampledInv
  BY DEF IInv, HandleInvs
<1>1. faults \in Nat /\ faults' \in Nat /\ faults <= faults'
  <2>1. faults \in Nat /\ (UNCHANGED faults \/ faults' = faults + 1)
    BY <1>0 DEF TypeOK, Next, Handle, Start, Clear, Attach, Detach, End, BeginProcess,
       BufferEvent, FlushBatch, BeginInsert, EndFlush, BodyDone, ProcessMessage,
       BeginRequest, Fault
  <2> QED
    BY <2>1
<1>2. AgentIdsAreExact <=> \A i \in 1 .. Len(spans) : ExactSpan(spans[i])
  BY DEF AgentIdsAreExact, ExactSpan
<1>3. CASE UNCHANGED <<spans, links>>
  <2>1. AgentIdsAreExact' /\ SampledInv'
    BY <1>3 DEF IInv, AgentIdsAreExact, SampledInv
  <2>2. StaysInItsTrace'
    BY <1>1, <1>3 DEF IInv, StaysInItsTrace, Parents
  <2> QED
    BY <2>1, <2>2
<1>4. ASSUME NEW t \in Thread, NEW s \in NewSpans(t, ParentsOf(t)),
             Busy(t), Top(t).step = "start",
             Len(spans') = Len(spans) + 1,
             spans'[Len(spans) + 1] = s,
             \A i \in 1 .. Len(spans) : spans'[i] = spans[i],
             ToSet(spans') = ToSet(spans) \cup {s},
             links' \subseteq links \cup LinksTo(Top(t).of),
             UNCHANGED faults
      PROVE  AgentIdsAreExact' /\ SampledInv' /\ StaysInItsTrace'
  <2>1. /\ Len(spans) \in Nat
        /\ \A i \in 1 .. Len(spans') : i = Len(spans) + 1 \/ i \in 1 .. Len(spans)
    BY <1>0, <1>4, LenTyped
  <2>2. ExactSpan(s)
    BY <1>4, NewSpanIsExact DEF IInv
  <2>3. \A i \in 1 .. Len(spans') : ExactSpan(spans'[i])
    BY <1>2, <1>4, <2>1, <2>2 DEF IInv
  <2>4. AgentIdsAreExact'
    BY <2>3 DEF AgentIdsAreExact, ExactSpan
  <2>5. Fair(s)
    BY <1>0, <1>4, NewSpanIsFair
  <2>6. \A l \in LinksTo(Top(t).of) : Fair(l)
    BY DEF LinksTo, Fair
  <2>7. SampledInv'
    BY <1>0, <1>4, <2>1, <2>5, <2>6 DEF SampledInv
  <2>8. ASSUME NEW i \in 1 .. Len(spans'), Spoken(spans'[i])
        PROVE  \E r \in ToSet(spans') : Child(spans'[i], r)
    <3>1. \A j \in 1 .. Len(spans) : spans[j] \in ToSet(spans)
      <4>1. DOMAIN spans = 1 .. Len(spans)
        BY <1>0 DEF TypeOK
      <4> QED
        BY <4>1 DEF ToSet
    <3>2. CASE i \in 1 .. Len(spans)
      <4>1. spans'[i] = spans[i]
        BY <1>4, <3>2
      <4>2. \E r \in Parents(spans[i]) : ChildOf(spans[i], r)
        BY <2>8, <3>2, <4>1 DEF IInv, StaysInItsTrace, Spoken
      <4>3. \E r \in ToSet(spans) : Child(spans[i], r)
        BY <4>2 DEF Parents, Child
      <4> QED
        BY <1>4, <4>1, <4>3
    <3>3. CASE i = Len(spans) + 1
      <4>1. PICK j \in 1 .. Len(spans) : Child(s, spans[j])
        BY <1>4, <2>8, <3>3, NewSpanIsChild DEF IInv
      <4> QED
        BY <1>4, <3>1, <3>3, <4>1
    <3> QED
      BY <2>1, <3>2, <3>3
  <2>9. \A i \in 1 .. Len(spans') :
           (\/ faults' = 0 /\ spans'[i].kind \in {"process", "db"}
            \/ faults' = 1 /\ spans'[i].kind = "process" /\ spans'[i].parents # {})
           => \E r \in ToSet(spans') : Child(spans'[i], r)
    BY <1>4, <2>8 DEF Spoken
  <2>10. StaysInItsTrace'
    BY <2>9 DEF StaysInItsTrace, Parents, Child
  <2> QED
    BY <2>4, <2>7, <2>10
<1> QED
  BY <1>0, <1>3, <1>4, ActsAddSpan

LEMMA InvStep == IInv /\ [Next]_vars => IInv'
<1> SUFFICES ASSUME IInv, [Next]_vars PROVE IInv'
  OBVIOUS
<1>1. CASE Next
  <2>1. TypeOK /\ HandleInvs /\ HandleInv
    BY DEF IInv, HandleInvs
  <2>2. TypeOK' /\ HandleInvs'
    BY <1>1, <2>1, TypeStep, HandlesStep
  <2>3. ContextInv' /\ ParentInv' /\ BlameInv'
    BY <1>1, <2>1, ContextStep, ParentStep, BlameStep DEF IInv
  <2>4. SlotInv' /\ ForceInv'
    BY <1>1, <2>1, ForcedStep DEF IInv
  <2> QED
    BY <1>1, <2>2, <2>3, <2>4, SpansStep DEF IInv
<1>2. CASE UNCHANGED vars
  <2>1. TypeOK'
    BY <1>2, TypeStep DEF IInv, HandleInvs
  <2>2. HandleInvs'
    BY <1>2 DEF vars, sdkVars, IInv, HandleInvs, OneBusy, Busy, HandleInv, HandleOK,
       NestInv, NestOK, DistinctInv, OpenInv, HasHandle
  <2>3. ContextInv' /\ ParentInv' /\ BlameInv'
    BY <1>2 DEF vars, sdkVars, IInv, ContextInv, Within, Based, ParentInv, ParentOK,
       Busy, BlameInv, AllGood
  <2>4. SlotInv' /\ ForceInv'
    BY <1>2 DEF vars, sdkVars, IInv, SlotInv, ForceInv, ForcedFor, At, Busy, Top
  <2>5. AgentIdsAreExact' /\ SampledInv' /\ StaysInItsTrace'
    BY <1>2 DEF vars, sdkVars, IInv, AgentIdsAreExact, SampledInv, StaysInItsTrace,
       Parents
  <2> QED
    BY <2>1, <2>2, <2>3, <2>4, <2>5 DEF IInv
<1> QED
  BY <1>1, <1>2

LEMMA InvAlways == Spec => []IInv
  BY InitHolds, InvStep, PTL DEF Spec

\* Whatever call of the SDK fails: the span of an event has the ids and the
\* parent the agent gave it, and no other span ever gets ids forced for one.
THEOREM EventSpansAreExact == Spec => []AgentIdsAreExact
<1>1. IInv => AgentIdsAreExact
  BY DEF IInv
<1> QED
  BY <1>1, InvAlways, PTL

\* All spans of a trace, and all links to it, are sampled or none is.
THEOREM TracesAreSampledAsOne == Spec => []TraceIsSampledAsOne
<1>1. ASSUME IInv PROVE TraceIsSampledAsOne
  <2>1. TypeOK /\ SampledInv
    BY <1>1 DEF IInv
  <2>2. \A s \in ToSet(spans) \cup links : Fair(s)
    BY <2>1 DEF ToSet, SampledInv, TypeOK
  <2> QED
    BY <2>2 DEF TraceIsSampledAsOne, Fair
<1> QED
  BY <1>1, InvAlways, PTL

\* Up to one failure of the SDK no event's processing is attributed to
\* another event, and without one every write belongs to its flush.
THEOREM WorkStaysInItsTrace == Spec => []StaysInItsTrace
<1>1. IInv => StaysInItsTrace
  BY DEF IInv
<1> QED
  BY <1>1, InvAlways, PTL

\* A thread that is idle has ended all its spans, forces no ids, and has a
\* current span only if a detach failed in it.
THEOREM NothingIsLeaked == Spec => []NothingLeaks
<1>1. ASSUME IInv PROVE NothingLeaks
  <2> SUFFICES ASSUME NEW t \in Thread, stack[t] = <<>>
               PROVE  /\ \A i \in 1 .. Len(spans) : spans[i].thread = t => ends[i] = 1
                      /\ t \notin leaked => current[t] = 0
                      /\ slot[t] = Empty
    BY DEF NothingLeaks, Busy
  <2>1. \A i \in 1 .. Len(spans) : spans[i].thread = t => ends[i] = 1
    BY <1>1 DEF IInv, HandleInvs, OpenInv, HasHandle
  <2>2. t \notin leaked => current[t] = 0
    BY <1>1 DEF IInv, ContextInv, Within
  <2>3. slot[t] = Empty
    BY <1>1, IdleIsNowhere DEF IInv, SlotInv
  <2> QED
    BY <2>1, <2>2, <2>3
<1> QED
  BY <1>1, InvAlways, PTL

==========================================================================
