----------------------------- MODULE ASHQuery -----------------------------
(***************************************************************************)
(* The queries of src/src/consumer/api_server.py while the consumer        *)
(* inserts batches and the retention deletes old rows.  Every statement    *)
(* sees what is committed when it starts (READ COMMITTED); an endpoint     *)
(* with two statements, and a client that pages, see several such states.  *)
(*                                                                         *)
(* The i-th element of rows is the row with the id i: ids grow in insert   *)
(* order, and no id is given again when the retention deletes its row.     *)
(* A page is the set of its rows.  Timestamps are the agents': they can be *)
(* equal, and then PostgreSQL may order the rows differently for each      *)
(* page, and they can be in the future of the server's clock.              *)
(***************************************************************************)
EXTENDS Integers, FiniteSets, SequencesExt

CONSTANTS
  Event,
  Stamp,          \* log_timestamp
  HostOf, SessionOf,
  Opens, Closes,  \* session_start and session_end events
  Prev,           \* prev_hash: the event signed before, or Genesis
  Unsigned,       \* events without an event_hash
  Genesis,
  Filters,        \* what a client may filter on: sets of events
  PageSize,       \* limit
  BatchSize,      \* of the consumer
  Ordered,        \* TRUE: events arrive in the order they were signed
  KeepTicks,      \* retention_days
  MaxClock, MaxSearches

ASSUME QueryAssumption ==
  /\ Event # {}
  /\ Stamp \in [Event -> Nat]
  /\ Prev \in [Event -> Event \cup {Genesis}]
  /\ Genesis \notin Event
  /\ {Opens, Closes, Unsigned} \subseteq SUBSET Event
  /\ Filters \subseteq SUBSET Event
  /\ PageSize \in Nat \ {0}
  /\ BatchSize \in Nat \ {0}
  /\ Ordered \in BOOLEAN
  /\ {KeepTicks, MaxClock, MaxSearches} \subseteq Nat

VARIABLES
  rows,        \* every event inserted into command_logs, by id
  sessions,    \* the sessions with a row, and whether it has an end_time
  expired,     \* those the retention has deleted
  clock,
  pc,          \* of one client and its request
  filter, offset, page,
  collected,   \* what the client has got from the pages so far
  visible,     \* rows that match and have been there since the first page
  sinceFetch,  \* rows deleted since the page was read
  total,
  asked, sessionRow, replay,   \* get_session()
  searches

tableVars == <<rows, sessions, expired>>
searchVars == <<filter, offset, page, collected, visible, total>>
sessionVars == <<asked, sessionRow, replay>>
vars == <<tableVars, clock, pc, searchVars, sinceFetch, sessionVars, searches>>

Session == {SessionOf[e] : e \in Event}
SessionState == {"absent", "open", "ended"}

TypeOK ==
  /\ rows \in Seq(Event)
  /\ IsInjective(rows)
  /\ sessions \in [Session -> SessionState]
  /\ expired \subseteq ToSet(rows)
  /\ clock \in 0 .. MaxClock
  /\ pc \in {"idle", "page", "count", "answered", "session", "events", "replayed"}
  /\ filter \subseteq Event
  /\ offset \in Nat
  /\ page \subseteq filter
  /\ IsFiniteSet(page) /\ Cardinality(page) <= PageSize
  /\ collected \subseteq filter
  /\ visible \subseteq filter
  /\ sinceFetch \subseteq expired
  /\ total \in Nat
  /\ asked \in Session
  /\ sessionRow \in SessionState
  /\ replay \subseteq Event
  /\ searches \in 0 .. MaxSearches

Init ==
  /\ rows = <<>>
  /\ sessions = [s \in Session |-> "absent"]
  /\ expired = {}
  /\ clock = 0
  /\ pc = "idle"
  /\ filter = {}
  /\ offset = 0
  /\ page = {}
  /\ collected = {}
  /\ visible = {}
  /\ sinceFetch = {}
  /\ total = 0
  /\ asked = CHOOSE s \in Session : TRUE
  /\ sessionRow = "absent"
  /\ replay = {}
  /\ searches = 0

-----------------------------------------------------------------------------
(* The consumer: one transaction each (ASHStore has their steps) *)

Stored == ToSet(rows) \ expired

\* The row of session s after a batch: its first session_start makes it, and
\* a session_end updates it when it is there.
SessionAfter(batch, s) ==
  LET starts == {i \in DOMAIN batch : batch[i] \in Opens /\ SessionOf[batch[i]] = s}
      ends == {i \in DOMAIN batch : batch[i] \in Closes /\ SessionOf[batch[i]] = s}
  IN  IF \E i \in ends : sessions[s] # "absent" \/ \E j \in starts : j < i
      THEN "ended"
      ELSE IF sessions[s] = "absent" /\ starts # {} THEN "open" ELSE sessions[s]

InChainOrder(batch) ==
  \A i \in 1 .. Len(batch) :
     \/ Prev[batch[i]] \in {Genesis} \cup ToSet(rows)
     \/ \E j \in 1 .. i - 1 : batch[j] = Prev[batch[i]]

Batches == UNION {[1 .. n -> Event] : n \in 1 .. BatchSize}

\* A batch of events that have not come before.
Insert ==
  \E batch \in Batches :
    /\ IsInjective(batch)
    /\ ToSet(batch) \cap ToSet(rows) = {}
    /\ Ordered => InChainOrder(batch)
    /\ rows' = rows \o batch
    /\ sessions' = [s \in Session |-> SessionAfter(batch, s)]
    /\ UNCHANGED <<expired, clock, pc, searchVars, sinceFetch,
                   sessionVars, searches>>

Expire ==
  LET old == {e \in Stored : Stamp[e] + KeepTicks < clock}
  IN  /\ old # {}
      /\ expired' = expired \cup old
      /\ visible' = visible \ old
      /\ sinceFetch' = IF pc = "count" THEN sinceFetch \cup old ELSE sinceFetch
      /\ UNCHANGED <<rows, sessions, clock, pc, filter, offset, page,
                     collected, total, sessionVars, searches>>

Tick == /\ clock < MaxClock
        /\ clock' = clock + 1
        /\ UNCHANGED <<tableVars, pc, searchVars, sinceFetch, sessionVars,
                       searches>>

-----------------------------------------------------------------------------
(* search_events() *)

Select(f) == Stored \cap f

\* Mutant: the oldest first.
Older(S, e) == {f \in S : Stamp[f] < Stamp[e]}

\* The rows that have to come before e.
Newer(S, e) == {f \in S : Stamp[f] > Stamp[e]}

\* ORDER BY log_timestamp DESC LIMIT n: with ties there are several results.
Tops(S, n) == {T \in SUBSET S : /\ \A e \in T : Newer(S, e) \subseteq T
                                /\ \/ Cardinality(T) = n
                                   \/ T = S /\ Cardinality(S) < n}

\* Of the first n rows those behind the first o, in one order of the rows.
Part(S, o, n) ==
  UNION {{T \ B : B \in Tops(S, o) \cap SUBSET T} : T \in Tops(S, n)}

\* Mutant: one row more.
PagesInclusive(S, o) == Part(S, o, o + PageSize + 1)

\* LIMIT PageSize OFFSET o
Pages(S, o) == Part(S, o, o + PageSize)

FetchPage(f, o) ==
  /\ page' \in Pages(Select(f), o)
  /\ sinceFetch' = {}
  /\ pc' = "count"

\* A client asks for its first page.
Search ==
  /\ pc = "idle"
  /\ searches < MaxSearches
  /\ searches' = searches + 1
  /\ \E f \in Filters :
       /\ filter' = f
       /\ visible' = Select(f)
       /\ FetchPage(f, 0)
  /\ offset' = 0
  /\ collected' = {}
  /\ UNCHANGED <<tableVars, clock, total, sessionVars>>

CountRows(f) == Cardinality(Select(f))

\* SELECT COUNT(*) with the same conditions, and the answer.
CountTotal ==
  /\ pc = "count"
  /\ total' = CountRows(filter)
  /\ collected' = collected \cup page
  /\ pc' = "answered"
  /\ UNCHANGED <<tableVars, clock, filter, offset, page, visible, sinceFetch,
                 sessionVars, searches>>

\* The client goes on until it gets a page that is not full.
NextPage ==
  /\ pc = "answered"
  /\ Cardinality(page) = PageSize
  /\ offset' = offset + PageSize
  /\ FetchPage(filter, offset')
  /\ UNCHANGED <<tableVars, clock, filter, collected, visible, total,
                 sessionVars, searches>>

SearchDone ==
  /\ pc = "answered"
  /\ Cardinality(page) < PageSize
  /\ pc' = "idle"
  /\ UNCHANGED <<tableVars, clock, searchVars, sinceFetch, sessionVars,
                 searches>>

-----------------------------------------------------------------------------
(* get_session() *)

InSession(s) == {e \in Stored : SessionOf[e] = s}

\* Mutant: events that come after the row was read are left out.
OnlyOpen(s) == IF sessions[s] = "ended" THEN InSession(s) \ Closes
                                        ELSE InSession(s)

EventsOf(s) == InSession(s)

\* Without a row the answer is 404, whatever events there are.
ReadSession ==
  /\ pc = "idle"
  /\ searches < MaxSearches
  /\ searches' = searches + 1
  /\ \E s \in Session :
       /\ asked' = s
       /\ sessionRow' = sessions[s]
       /\ pc' = IF sessions[s] = "absent" THEN "idle" ELSE "events"
  /\ replay' = {}
  /\ UNCHANGED <<tableVars, clock, searchVars, sinceFetch>>

ReadEvents ==
  /\ pc = "events"
  /\ replay' = EventsOf(asked)
  /\ pc' = "replayed"
  /\ UNCHANGED <<tableVars, clock, searchVars, sinceFetch, asked, sessionRow,
                 searches>>

ReplayDone ==
  /\ pc = "replayed"
  /\ pc' = "idle"
  /\ UNCHANGED <<tableVars, clock, searchVars, sinceFetch, sessionVars,
                 searches>>

-----------------------------------------------------------------------------
(* Endpoints of one statement: what they return in the present state *)

\* verify_integrity(): the rows of the host that have a hash.
ChainIds(h) ==
  {i \in DOMAIN rows : HostOf[rows[i]] = h /\ rows[i] \in Stored \ Unsigned}

\* ORDER BY id: row i comes next after row j.
Follows(R, i, j) == j < i /\ \A k \in R : k < i => k <= j

IsFirst(R, i) == \A k \in R : i <= k

\* Mutant: the first row is taken for the beginning of the chain.
AnyStart(R, i) == \/ IsFirst(R, i)
                  \/ \E j \in R : Follows(R, i, j) /\ Prev[rows[i]] = rows[j]

Linked(R, i) == \/ IsFirst(R, i) /\ Prev[rows[i]] = Genesis
                \/ \E j \in R : Follows(R, i, j) /\ Prev[rows[i]] = rows[j]

IntegrityErrors(h) ==
  Cardinality({i \in ChainIds(h) : ~Linked(ChainIds(h), i)})

Verify(h) == IF IntegrityErrors(h) = 0 THEN "PASS" ELSE "FAIL"

-----------------------------------------------------------------------------
Next == \/ Insert
        \/ Expire
        \/ Tick
        \/ Search
        \/ CountTotal
        \/ NextPage
        \/ SearchDone
        \/ ReadSession
        \/ ReadEvents
        \/ ReplayDone

Spec == Init /\ [][Next]_vars

-----------------------------------------------------------------------------
(* Properties *)

\* No two of the events that came and that the client asks for are of the
\* same instant.
Untied == \A e, f \in ToSet(rows) \cap filter : Stamp[e] = Stamp[f] => e = f

LastPageRead == pc = "answered" /\ Cardinality(page) < PageSize

NothingSkipped == (LastPageRead /\ Untied) => visible \subseteq collected

TotalCovers ==
  (pc = "answered" /\ page # {})
     => total + Cardinality(sinceFetch \cap filter) >= offset + Cardinality(page)

(***************************************************************************)
(* A client that pages to the end gets every matching row that was there   *)
(* from its first page to its last, whatever came and went in between, if  *)
(* no two matching rows have the same log_timestamp: inserts push rows to  *)
(* later pages, and the retention deletes behind them.  With a tie it may  *)
(* miss one (PagesMissNothing).  The total, although it is of another      *)
(* snapshot, covers the page next to it, ties or not, up to rows the       *)
(* retention deleted between the statements.                               *)
(***************************************************************************)
PagesAreSound == NothingSkipped /\ TotalCovers

(***************************************************************************)
(* The same without the condition.  Nothing rules ties out: agents stamp   *)
(* with milliseconds, some with seconds (ash-agent.sh, line 554), the rows *)
(* of all hosts are in one table, log_timestamp has no unique constraint,  *)
(* and ORDER BY has no second key (api_server.py, line 562).               *)
(***************************************************************************)
PagesMissNothing == LastPageRead => visible \subseteq collected

\* A replay of a session that has ended shows how it ended, unless the
\* retention took those events: the session row is read first, and committed
\* with the event.
ReplayShowsEnd ==
  (pc = "replayed" /\ sessionRow = "ended")
     => \E e \in Closes : /\ SessionOf[e] = asked
                          /\ e \in replay \cup expired

\* What was signed up to e: the least set with e and, of each of its events,
\* the one signed before.
Signed(e) ==
  {f \in Event :
     \A A \in SUBSET Event :
        e \in A /\ (\A g \in A : Prev[g] \in A \cup {Genesis}) => f \in A}

\* PASS means that the stored log is the beginning of what was signed, in
\* that order: nothing is missing in the middle and nothing is there that was
\* not signed, whatever arrived when.
PassMeansPrefix ==
  \A h \in {HostOf[e] : e \in Event} :
     Verify(h) = "PASS"
       => \A i \in ChainIds(h) :
            {rows[j] : j \in {k \in ChainIds(h) : k <= i}} = Signed(rows[i])

(***************************************************************************)
(* Nobody has tampered with a row here, and every event of the host has    *)
(* come.  docs/EVENT_SCHEMA.md, line 133: "Any mismatch indicates          *)
(* tampering."; api_server.py, lines 836-838: "Chain order is insert       *)
(* order".                                                                 *)
(***************************************************************************)
UntamperedPasses ==
  \A h \in {HostOf[e] : e \in Event} :
     {e \in Event : HostOf[e] = h} \subseteq ToSet(rows)
       => Verify(h) = "PASS"
=============================================================================
