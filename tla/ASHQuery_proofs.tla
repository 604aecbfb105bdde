-------------------------- MODULE ASHQuery_proofs --------------------------
(***************************************************************************)
(* What a reader of the API can rely on, for any events, filters, page     *)
(* and batch sizes and any interleaving with the consumer.  IInv is the    *)
(* inductive invariant; what a page can be comes first, as every argument  *)
(* about pages rests on it.                                                *)
(***************************************************************************)
EXTENDS ASHQuery, FiniteSetTheorems, WellFoundedInduction, TLAPS

-----------------------------------------------------------------------------
(* The induction: on the natural numbers, by their least elements *)

LEMMA Smallest ==
  ASSUME NEW S \in SUBSET Nat, S # {}
  PROVE  \E x \in S : \A y \in S : x <= y
<1> DEFINE R == OpToRel(<, Nat)
<1>1. \A x, y \in Nat : y < x => <<y, x>> \in R
  BY DEF OpToRel
<1>2. IsWellFoundedOn(R, Nat)
  BY NatLessThanWellFounded
<1> HIDE DEF R
<1>3. PICK x \in S : \A y \in S : <<y, x>> \notin R
  BY <1>2, WFMin
<1>4. ASSUME NEW y \in S
      PROVE  x <= y
  <2>1. x \in Nat /\ y \in Nat
    OBVIOUS
  <2>2. ~(y < x)
    BY <1>1, <1>3, <2>1
  <2> QED
    BY <2>1, <2>2
<1> QED
  BY <1>4

-----------------------------------------------------------------------------
(* Ranks: of a finite result, newest first *)

Rank(S, e) == Cardinality(Newer(S, e))

\* A rank is a place in the result.
LEMMA RankType ==
  ASSUME NEW S \in SUBSET Event, IsFiniteSet(S), NEW e
  PROVE  /\ Newer(S, e) \subseteq S
         /\ IsFiniteSet(Newer(S, e))
         /\ Rank(S, e) \in Nat
<1>1. Newer(S, e) \subseteq S
  BY DEF Newer
<1>2. IsFiniteSet(Newer(S, e))
  BY <1>1, FS_Subset
<1> QED
  BY <1>1, <1>2, FS_CardinalityType DEF Rank

\* The first n rows, in any order that the query allows, are rows, and not
\* more than there are.
LEMMA TopsAre ==
  ASSUME NEW S \in SUBSET Event, IsFiniteSet(S), NEW n \in Nat,
         NEW T \in Tops(S, n)
  PROVE  /\ T \subseteq S
         /\ IsFiniteSet(T)
         /\ Cardinality(T) \in Nat
         /\ Cardinality(T) <= n
         /\ T # S => Cardinality(T) = n
         /\ Cardinality(T) <= Cardinality(S)
<1>1. T \subseteq S /\ (Cardinality(T) = n \/ (T = S /\ Cardinality(S) < n))
  BY DEF Tops
<1>2. IsFiniteSet(T) /\ Cardinality(T) <= Cardinality(S)
  BY <1>1, FS_Subset
<1>3. Cardinality(T) \in Nat /\ Cardinality(S) \in Nat
  BY <1>2, FS_CardinalityType
<1>4. CASE Cardinality(T) = n
  BY <1>1, <1>2, <1>3, <1>4
<1>5. CASE T = S /\ Cardinality(S) < n
  BY <1>2, <1>3, <1>5
<1> QED
  BY <1>1, <1>4, <1>5

\* Without ties there is one order, and these are the rows of rank below n.
LEMMA TopsRank ==
  ASSUME NEW S \in SUBSET Event, IsFiniteSet(S), NEW n \in Nat,
         NEW T \in Tops(S, n),
         \A e, f \in S : Stamp[e] = Stamp[f] => e = f,
         NEW e \in S
  PROVE  e \in T <=> Rank(S, e) < n
<1>1. /\ Rank(S, e) = Cardinality(Newer(S, e)) /\ Rank(S, e) \in Nat
      /\ Newer(S, e) \subseteq S /\ IsFiniteSet(Newer(S, e))
  BY RankType DEF Rank
<1>2. /\ T \subseteq S /\ IsFiniteSet(T) /\ Cardinality(T) \in Nat
      /\ Cardinality(T) <= n
      /\ T # S => Cardinality(T) = n
  BY TopsAre
<1>3. \A f \in S : Stamp[f] \in Nat
  BY QueryAssumption
<1>4. ASSUME e \in T
      PROVE  Rank(S, e) < n
  <2> DEFINE N == Newer(S, e)
  <2>1. N \subseteq T /\ e \notin N
    BY <1>3, <1>4 DEF Newer, Tops
  <2> HIDE DEF N
  <2>2. Cardinality(N \cup {e}) = Cardinality(N) + 1
    BY <1>1, <2>1, FS_AddElement DEF N
  <2>3. Cardinality(N \cup {e}) <= Cardinality(T)
    BY <1>2, <1>4, <2>1, FS_Subset
  <2> QED
    BY <1>1, <1>2, <2>2, <2>3 DEF N
<1>5. ASSUME e \notin T
      PROVE  n <= Rank(S, e)
  <2>1. ASSUME NEW f \in T
        PROVE  f \in Newer(S, e)
    <3>1. f \in S /\ Stamp[f] \in Nat /\ Stamp[e] \in Nat
      BY <1>2, <1>3
    <3>2. Stamp[f] # Stamp[e]
      BY <1>5, <3>1
    <3>3. ~(Stamp[e] > Stamp[f])
      BY <1>5 DEF Tops, Newer
    <3> QED
      BY <3>1, <3>2, <3>3 DEF Newer
  <2>2. T \subseteq Newer(S, e)
    BY <2>1
  <2>3. Cardinality(T) <= Cardinality(Newer(S, e))
    BY <1>1, <2>2, FS_Subset
  <2> QED
    BY <1>1, <1>2, <1>5, <2>3
<1> QED
  BY <1>1, <1>4, <1>5

\* What a page is, in terms of the rows up to its end and those before it.
LEMMA PageParts ==
  ASSUME NEW S, NEW o, NEW P \in Pages(S, o)
  PROVE  \E T \in Tops(S, o + PageSize) : \E B \in Tops(S, o) :
            B \subseteq T /\ P = T \ B
BY DEF Pages, Part

\* A page has no more rows than the client asked for; what comes before it
\* and the page are in the result.
LEMMA PageBound ==
  ASSUME NEW S \in SUBSET Event, IsFiniteSet(S), NEW o \in Nat,
         NEW P \in Pages(S, o)
  PROVE  /\ P \subseteq S
         /\ IsFiniteSet(P)
         /\ Cardinality(P) \in Nat
         /\ Cardinality(P) <= PageSize
         /\ P # {} => o + Cardinality(P) <= Cardinality(S)
<1>1. PICK T \in Tops(S, o + PageSize), B \in Tops(S, o) :
         B \subseteq T /\ P = T \ B
  BY PageParts
<1>2. o + PageSize \in Nat /\ PageSize \in Nat
  BY QueryAssumption
<1>3. /\ T \subseteq S /\ IsFiniteSet(T) /\ Cardinality(T) \in Nat
      /\ Cardinality(T) <= o + PageSize /\ Cardinality(T) <= Cardinality(S)
  BY <1>2, TopsAre
<1>4. /\ B \subseteq S /\ IsFiniteSet(B) /\ Cardinality(B) \in Nat
      /\ B # S => Cardinality(B) = o
  BY TopsAre
<1>5. Cardinality(T \ B) = Cardinality(T) - Cardinality(B)
  <2>1. T \cap B = B
    BY <1>1
  <2> QED
    BY <1>3, <2>1, FS_Difference
<1>6. P \subseteq S /\ IsFiniteSet(P) /\ Cardinality(P) \in Nat
  BY <1>1, <1>3, FS_Subset, FS_CardinalityType
<1>7. CASE B = S
  <2>1. P = {}
    BY <1>1, <1>3, <1>7
  <2>2. Cardinality(P) = 0
    BY <2>1, FS_EmptySet
  <2> QED
    BY <1>2, <1>6, <2>1, <2>2
<1>8. CASE B # S
  <2>1. Cardinality(P) = Cardinality(T) - o
    BY <1>1, <1>4, <1>5, <1>8
  <2>2. Cardinality(S) \in Nat
    BY FS_CardinalityType
  <2> QED
    BY <1>2, <1>3, <1>6, <2>1, <2>2
<1> QED
  BY <1>7, <1>8

\* A row that is neither on a page nor before it comes behind it.
LEMMA PageSkips ==
  ASSUME NEW S \in SUBSET Event, IsFiniteSet(S), NEW o \in Nat,
         NEW P \in Pages(S, o),
         \A e, f \in S : Stamp[e] = Stamp[f] => e = f,
         NEW e \in S, o <= Rank(S, e), e \notin P
  PROVE  /\ o + PageSize <= Rank(S, e)
         /\ Cardinality(P) = PageSize
<1>1. PICK T \in Tops(S, o + PageSize), B \in Tops(S, o) :
         B \subseteq T /\ P = T \ B
  BY PageParts
<1>2. o + PageSize \in Nat /\ PageSize \in Nat /\ Rank(S, e) \in Nat
  BY RankType, QueryAssumption
<1>3. e \notin B
  BY <1>2, TopsRank
<1>4. e \notin T
  BY <1>1, <1>3
<1>5. ~(Rank(S, e) < o + PageSize)
  BY <1>2, <1>4, TopsRank
<1>6. Cardinality(T) = o + PageSize /\ IsFiniteSet(T)
  BY <1>2, <1>4, TopsAre
<1>7. Cardinality(B) = o /\ T \cap B = B
  BY <1>1, <1>3, TopsAre
<1>8. Cardinality(P) = Cardinality(T) - Cardinality(B)
  BY <1>1, <1>6, <1>7, FS_Difference
<1> QED
  BY <1>2, <1>5, <1>6, <1>7, <1>8

\* More rows never bring a row forward, and rows leave behind it.
LEMMA RankGrows ==
  ASSUME NEW S \in SUBSET Event, IsFiniteSet(S),
         NEW T \in SUBSET Event, IsFiniteSet(T),
         NEW e, Newer(S, e) \subseteq T
  PROVE  Rank(S, e) <= Rank(T, e)
<1>1. Newer(S, e) \subseteq Newer(T, e)
  BY DEF Newer
<1> QED
  BY <1>1, RankType, FS_Subset DEF Rank

-----------------------------------------------------------------------------
(* The inductive invariant *)

Searching == pc \in {"count", "answered"}

\* What the client has, or has in its answer when the total is counted.
Got == IF pc = "count" THEN collected \cup page ELSE collected

SelectedInv == visible \subseteq Select(filter)

\* What the client has not got is still behind its page.
BehindInv ==
  (Searching /\ Untied)
     => \A e \in visible \ Got : Rank(Select(filter), e) >= offset + PageSize

\* After a page that is not full nothing is behind.
LastInv == (Searching /\ Untied /\ Cardinality(page) < PageSize)
              => visible \subseteq Got

\* The page and those before it match, or were deleted since.
CountInv ==
  (pc = "count" /\ page # {})
     => offset + Cardinality(page)
          <= Cardinality(Select(filter) \cup (sinceFetch \cap filter))

EndOf(s) == \E e \in Closes \cap ToSet(rows) : SessionOf[e] = s

SessionInv ==
  /\ \A s \in Session : sessions[s] = "ended" => EndOf(s)
  /\ (pc = "events" /\ sessionRow = "ended") => EndOf(asked)

IInv == /\ TypeOK
        /\ SelectedInv
        /\ BehindInv
        /\ LastInv
        /\ CountInv
        /\ TotalCovers
        /\ SessionInv
        /\ ReplayShowsEnd

-----------------------------------------------------------------------------
(* The table *)

\* What is inserted is finite.
LEMMA RowsAreFinite ==
  ASSUME NEW R \in Seq(Event)
  PROVE  ToSet(R) \subseteq Event /\ IsFiniteSet(ToSet(R))
<1> DEFINE I == 1 .. Len(R)
<1>1. /\ R \in [I -> Event]
      /\ Len(R) \in Nat
      /\ ToSet(R) = {R[i] : i \in I}
  BY DEF ToSet
<1>2. R \in Surjection(I, ToSet(R))
  BY <1>1 DEF Surjection
<1>3. IsFiniteSet(I)
  BY <1>1, FS_Interval
<1>4. IsFiniteSet(ToSet(R))
  BY <1>2, <1>3, FS_Surjection
<1> QED
  BY <1>1, <1>4

\* What is stored and selected is finite.
LEMMA StoredIsFinite ==
  ASSUME TypeOK, NEW f
  PROVE  /\ Select(f) \subseteq Event
         /\ Select(f) \subseteq Stored
         /\ Stored \subseteq ToSet(rows)
         /\ ToSet(rows) \subseteq Event
         /\ IsFiniteSet(ToSet(rows))
         /\ IsFiniteSet(Select(f))
<1>1. ToSet(rows) \subseteq Event /\ IsFiniteSet(ToSet(rows))
  BY RowsAreFinite DEF TypeOK
<1> QED
  BY <1>1, FS_Subset DEF Select, Stored

\* The table after a batch.
LEMMA Appended ==
  ASSUME NEW R \in Seq(Event), IsInjective(R),
         NEW batch \in Batches, IsInjective(batch), ToSet(batch) \cap ToSet(R) = {}
  PROVE  /\ R \o batch \in Seq(Event)
         /\ IsInjective(R \o batch)
         /\ ToSet(R \o batch) = ToSet(R) \cup ToSet(batch)
<1>1. PICK n \in 1 .. BatchSize :
         batch \in [1 .. n -> Event]
  BY DEF Batches
<1>2. n \in Nat
  BY QueryAssumption
<1>3. batch \in [1 .. n -> Event]
  BY <1>1
<1>4. batch \in Seq(Event) /\ Len(batch) = n
  BY <1>2, <1>3
<1> DEFINE Q == R \o batch
<1>5. /\ Q \in Seq(Event)
      /\ Len(Q) = Len(R) + n
      /\ \A i \in 1 .. Len(R) + n :
           Q[i] = IF i <= Len(R) THEN R[i] ELSE batch[i - Len(R)]
  BY <1>4
<1>6. /\ DOMAIN Q = 1 .. Len(R) + n
      /\ DOMAIN R = 1 .. Len(R)
      /\ DOMAIN batch = 1 .. n
      /\ Len(R) \in Nat
  BY <1>4, <1>5
<1> HIDE DEF Q
<1>7. ToSet(Q) = ToSet(R) \cup ToSet(batch)
  <2>1. ASSUME NEW e \in ToSet(Q)
        PROVE  e \in ToSet(R) \cup ToSet(batch)
    <3>1. PICK i \in 1 .. Len(R) + n : e = Q[i]
      BY <1>6 DEF ToSet
    <3>2. CASE i <= Len(R)
      BY <1>5, <1>6, <3>1, <3>2 DEF ToSet
    <3>3. CASE i > Len(R)
      <4>1. i - Len(R) \in 1 .. n /\ e = batch[i - Len(R)]
        BY <1>2, <1>5, <1>6, <3>1, <3>3
      <4> QED
        BY <4>1, <1>6 DEF ToSet
    <3> QED
      BY <1>6, <3>2, <3>3
  <2>2. ASSUME NEW e \in ToSet(R)
        PROVE  e \in ToSet(Q)
    BY <1>2, <1>5, <1>6 DEF ToSet
  <2>3. ASSUME NEW e \in ToSet(batch)
        PROVE  e \in ToSet(Q)
    <3>1. PICK i \in 1 .. n : e = batch[i]
      BY <1>6 DEF ToSet
    <3>2. /\ Len(R) + i \in 1 .. Len(R) + n
          /\ ~(Len(R) + i <= Len(R))
          /\ (Len(R) + i) - Len(R) = i
      BY <1>2, <1>6
    <3>3. Q[Len(R) + i] = batch[(Len(R) + i) - Len(R)]
      BY <1>5, <3>2
    <3>4. Q[Len(R) + i] = e
      BY <3>1, <3>2, <3>3
    <3> QED
      BY <3>2, <3>4, <1>6 DEF ToSet
  <2> QED
    BY <2>1, <2>2, <2>3
<1>8. ASSUME NEW i \in 1 .. Len(R) + n, NEW j \in 1 .. Len(R) + n, Q[i] = Q[j]
      PROVE  i = j
  <2>1. \A k \in 1 .. Len(R), l \in 1 .. n : R[k] # batch[l]
    BY <1>6 DEF ToSet
  <2>2. CASE i <= Len(R) /\ j <= Len(R)
    BY <1>5, <1>6, <1>8, <2>2 DEF IsInjective
  <2>3. CASE i > Len(R) /\ j > Len(R)
    <3>1. /\ i - Len(R) \in 1 .. n
          /\ j - Len(R) \in 1 .. n
          /\ batch[i - Len(R)] = batch[j - Len(R)]
      BY <1>2, <1>5, <1>6, <1>8, <2>3
    <3>2. i - Len(R) = j - Len(R)
      BY <1>6, <3>1 DEF IsInjective
    <3> QED
      BY <3>2, <1>6, <1>2
  <2>4. CASE i <= Len(R) /\ j > Len(R)
    <3>1. i \in 1 .. Len(R) /\ j - Len(R) \in 1 .. n
      BY <1>2, <1>6, <2>4
    <3>2. R[i] = batch[j - Len(R)]
      BY <1>2, <1>5, <1>6, <1>8, <2>4
    <3> QED
      BY <2>1, <3>1, <3>2
  <2>5. CASE i > Len(R) /\ j <= Len(R)
    <3>1. j \in 1 .. Len(R) /\ i - Len(R) \in 1 .. n
      BY <1>2, <1>6, <2>5
    <3>2. R[j] = batch[i - Len(R)]
      BY <1>2, <1>5, <1>6, <1>8, <2>5
    <3> QED
      BY <2>1, <3>1, <3>2
  <2> QED
    BY <1>2, <1>6, <2>2, <2>3, <2>4, <2>5
<1>9. IsInjective(Q)
  BY <1>6, <1>8 DEF IsInjective
<1> QED
  BY <1>5, <1>7, <1>9 DEF Q

\* After a batch a session still has no row, or one that is open or ended.
LEMMA SessionAfterType ==
  ASSUME TypeOK, NEW batch, NEW s \in Session
  PROVE  SessionAfter(batch, s) \in SessionState
  BY DEF TypeOK, SessionAfter, SessionState

\* A session that a batch ends has its end in the batch.
LEMMA SessionAfterEnd ==
  ASSUME NEW batch, NEW s \in Session, SessionAfter(batch, s) = "ended"
  PROVE  \/ sessions[s] = "ended"
         \/ \E e \in Closes \cap ToSet(batch) : SessionOf[e] = s
  BY DEF SessionAfter, ToSet

-----------------------------------------------------------------------------
(* Types *)

LEMMA InitType ==
  ASSUME Init
  PROVE  TypeOK
<1>1. asked \in Session
  BY QueryAssumption DEF Init, Session
<1>2. rows \in Seq(Event) /\ IsInjective(rows)
  BY DEF Init, IsInjective
<1>3. IsFiniteSet({}) /\ Cardinality({}) = 0
  BY FS_EmptySet
<1> QED
  BY <1>1, <1>2, <1>3, QueryAssumption DEF Init, TypeOK, SessionState

LEMMA FetchType ==
  ASSUME TypeOK, NEW f, NEW o \in Nat, page' \in Pages(Select(f), o)
  PROVE  /\ page' \subseteq f
         /\ IsFiniteSet(page') /\ Cardinality(page') <= PageSize
<1>1. Select(f) \in SUBSET Event /\ IsFiniteSet(Select(f))
  BY StoredIsFinite
<1>2. /\ page' \subseteq Select(f)
      /\ IsFiniteSet(page')
      /\ Cardinality(page') <= PageSize
  BY <1>1, PageBound
<1> QED
  BY <1>2 DEF Select

LEMMA NextType ==
  ASSUME TypeOK, [Next]_vars
  PROVE  TypeOK'
<1>1. CASE Insert
  <2>1. PICK batch \in Batches :
          /\ IsInjective(batch)
          /\ ToSet(batch) \cap ToSet(rows) = {}
          /\ rows' = rows \o batch
          /\ sessions' = [s \in Session |-> SessionAfter(batch, s)]
          /\ UNCHANGED <<expired, clock, pc, searchVars, sinceFetch,
                         sessionVars, searches>>
    BY <1>1 DEF Insert
  <2>2. /\ rows' \in Seq(Event)
        /\ IsInjective(rows')
        /\ ToSet(rows') = ToSet(rows) \cup ToSet(batch)
    BY <2>1, Appended DEF TypeOK
  <2>3. sessions' \in [Session -> SessionState]
    BY <2>1, SessionAfterType
  <2> QED
    BY <2>1, <2>2, <2>3 DEF TypeOK, searchVars, sessionVars
<1>2. CASE Expire
  <2>1. ToSet(rows') = ToSet(rows)
    BY <1>2 DEF Expire
  <2> QED
    BY <1>2, <2>1 DEF Expire, TypeOK, Stored, sessionVars
<1>3. CASE Tick
  BY <1>3, QueryAssumption DEF Tick, TypeOK, tableVars, searchVars, sessionVars
<1>4. CASE Search
  <2>1. PICK f \in Filters :
          filter' = f /\ visible' = Select(f) /\ FetchPage(f, 0)
    BY <1>4 DEF Search
  <2>2. /\ page' \subseteq f
        /\ IsFiniteSet(page') /\ Cardinality(page') <= PageSize
    BY <2>1, FetchType DEF FetchPage
  <2>3. filter' \subseteq Event /\ visible' \subseteq filter'
    BY <2>1, QueryAssumption DEF Select
  <2>4. searches' \in 0 .. MaxSearches
    BY <1>4, QueryAssumption DEF Search, TypeOK
  <2>5. /\ pc' = "count" /\ sinceFetch' = {} /\ offset' = 0 /\ collected' = {}
        /\ UNCHANGED <<rows, sessions, expired, clock, total, asked,
                       sessionRow, replay>>
    BY <1>4, <2>1 DEF Search, FetchPage, tableVars, sessionVars
  <2> QED
    BY <2>1, <2>2, <2>3, <2>4, <2>5 DEF TypeOK
<1>5. CASE CountTotal
  <2>1. CountRows(filter) \in Nat
    BY StoredIsFinite, FS_CardinalityType DEF CountRows
  <2> QED
    BY <1>5, <2>1 DEF CountTotal, TypeOK, tableVars, sessionVars
<1>6. CASE NextPage
  <2>1. offset' \in Nat
    BY <1>6, QueryAssumption DEF NextPage, TypeOK
  <2>2. /\ page' \subseteq filter
        /\ IsFiniteSet(page') /\ Cardinality(page') <= PageSize
    BY <1>6, <2>1, FetchType DEF NextPage, FetchPage
  <2> QED
    BY <1>6, <2>1, <2>2 DEF NextPage, FetchPage, TypeOK, tableVars, sessionVars
<1>7. CASE SearchDone
  BY <1>7 DEF SearchDone, TypeOK, tableVars, searchVars, sessionVars
<1>8. CASE ReadSession
  BY <1>8, QueryAssumption
  DEF ReadSession, TypeOK, SessionState, tableVars, searchVars
<1>9. CASE ReadEvents
  <2>1. EventsOf(asked) \subseteq Event
    BY StoredIsFinite DEF EventsOf, InSession
  <2> QED
    BY <1>9, <2>1 DEF ReadEvents, TypeOK, tableVars, searchVars
<1>10. CASE ReplayDone
  BY <1>10 DEF ReplayDone, TypeOK, tableVars, searchVars, sessionVars
<1>11. CASE UNCHANGED vars
  BY <1>11 DEF vars, TypeOK, tableVars, searchVars, sessionVars
<1> QED
  BY <1>1, <1>2, <1>3, <1>4, <1>5, <1>6, <1>7, <1>8, <1>9, <1>10, <1>11 DEF Next

-----------------------------------------------------------------------------
(* Pages *)

LEMMA InitIInv ==
  ASSUME Init
  PROVE  IInv
<1>1. TypeOK
  BY InitType
<1> QED
  BY <1>1
  DEF Init, IInv, SelectedInv, BehindInv, LastInv, CountInv, TotalCovers,
      SessionInv, ReplayShowsEnd, Searching, Session

\* A page that is read leaves behind it what a client has not got.
LEMMA FetchInvs ==
  ASSUME TypeOK, TypeOK', NEW f, NEW o \in Nat,
         FetchPage(f, o), filter' = f, offset' = o,
         UNCHANGED tableVars, visible' \subseteq Select(f),
         Untied' => \A e \in visible' \ collected' : Rank(Select(f), e) >= o
  PROVE  SelectedInv' /\ BehindInv' /\ LastInv' /\ CountInv' /\ TotalCovers'
<1> DEFINE S == Select(f)
<1>1. S \in SUBSET Event /\ IsFiniteSet(S)
  BY StoredIsFinite
<1>2. Select(filter)' = S
  BY DEF Select, Stored, tableVars
<1>3. pc' = "count" /\ page' \in Pages(S, o) /\ sinceFetch' = {}
  BY DEF FetchPage
<1>4. Got' = collected' \cup page'
  BY <1>3 DEF Got
<1>5. SelectedInv'
  BY <1>2 DEF SelectedInv
<1>6. ASSUME Untied', NEW e \in visible' \ Got'
      PROVE  Rank(S, e) >= o + PageSize /\ Cardinality(page') = PageSize
  <2>1. e \in S /\ e \notin page' /\ o <= Rank(S, e)
    BY <1>1, <1>4, <1>6, RankType
  <2>2. \A g, h \in S : Stamp[g] = Stamp[h] => g = h
    BY <1>6 DEF Untied, Select, Stored, tableVars
  <2> HIDE DEF S
  <2>3. o + PageSize <= Rank(S, e) /\ Cardinality(page') = PageSize
    BY <1>1, <1>3, <2>1, <2>2, PageSkips
  <2>4. Rank(S, e) \in Nat /\ o + PageSize \in Nat
    BY <1>1, RankType, QueryAssumption
  <2> QED
    BY <2>3, <2>4
<1>7. BehindInv'
  BY <1>2, <1>6 DEF BehindInv
<1>8. LastInv'
  BY <1>6, QueryAssumption DEF LastInv
<1>9. CountInv'
  <2>1. S \cup (sinceFetch' \cap f) = S
    BY <1>3
  <2>2. page' # {} => o + Cardinality(page') <= Cardinality(S)
    <3> HIDE DEF S
    <3> QED
      BY <1>1, <1>3, PageBound
  <2> QED
    BY <1>2, <2>1, <2>2 DEF CountInv
<1>10. TotalCovers'
  BY <1>3 DEF TotalCovers
<1> QED
  BY <1>5, <1>7, <1>8, <1>9, <1>10

\* Rows come, and go behind the page: a client that pages loses nothing.
LEMMA TableInvs ==
  ASSUME TypeOK, TypeOK', SelectedInv, BehindInv, LastInv, CountInv,
         UNCHANGED <<pc, filter, offset, page, collected>>,
         visible' \subseteq visible, SelectedInv', Untied' => Untied,
         \A e \in visible' : Newer(Select(filter), e) \subseteq Select(filter)',
         pc = "count" =>
           Select(filter) \cup (sinceFetch \cap filter)
             \subseteq Select(filter)' \cup (sinceFetch' \cap filter')
  PROVE  BehindInv' /\ LastInv' /\ CountInv'
<1> DEFINE S == Select(filter)
           T == Select(filter)'
<1>1. S \in SUBSET Event /\ IsFiniteSet(S)
  BY StoredIsFinite
<1>2. /\ T \in SUBSET Event /\ IsFiniteSet(T)
      /\ IsFiniteSet(ToSet(rows'))
  <2>1. ToSet(rows') \subseteq Event /\ IsFiniteSet(ToSet(rows'))
    BY RowsAreFinite DEF TypeOK
  <2>2. T \subseteq ToSet(rows')
    BY DEF Select, Stored
  <2> QED
    BY <2>1, <2>2, FS_Subset
<1>3. Got' = Got /\ Searching' = Searching
  BY DEF Got, Searching
<1>4. ASSUME Searching, Untied, NEW e \in visible' \ Got'
      PROVE  Rank(T, e) >= offset' + PageSize
  <2>1. Rank(S, e) >= offset + PageSize
    BY <1>3, <1>4 DEF BehindInv
  <2>2. Rank(S, e) <= Rank(T, e)
    BY <1>1, <1>2, RankGrows
  <2>3. Rank(S, e) \in Nat /\ Rank(T, e) \in Nat
    BY <1>1, <1>2, RankType
  <2> QED
    BY <2>1, <2>2, <2>3, QueryAssumption DEF TypeOK
<1>5. BehindInv'
  BY <1>3, <1>4 DEF BehindInv
<1>6. LastInv'
  BY <1>3 DEF LastInv
<1>7. CountInv'
  <2> SUFFICES ASSUME pc = "count", page # {}
               PROVE  offset + Cardinality(page)
                        <= Cardinality(T \cup (sinceFetch' \cap filter'))
    BY DEF CountInv
  <2> DEFINE A == S \cup (sinceFetch \cap filter)
             B == T \cup (sinceFetch' \cap filter')
  <2>1. offset + Cardinality(page) <= Cardinality(A)
    BY DEF CountInv
  <2>2. IsFiniteSet(B)
    <3>1. sinceFetch' \subseteq ToSet(rows')
      BY DEF TypeOK
    <3>2. IsFiniteSet(sinceFetch' \cap filter')
      BY <1>2, <3>1, FS_Subset
    <3> QED
      BY <1>2, <3>2, FS_Union
  <2>3. A \subseteq B
    OBVIOUS
  <2> HIDE DEF A, B
  <2>4. IsFiniteSet(A) /\ Cardinality(A) <= Cardinality(B)
    BY <2>2, <2>3, FS_Subset
  <2>5. Cardinality(A) \in Nat /\ Cardinality(B) \in Nat
    BY <2>2, <2>4, FS_CardinalityType
  <2>6. Cardinality(page) \in Nat /\ offset \in Nat
    BY FS_CardinalityType DEF TypeOK
  <2>7. offset + Cardinality(page) <= Cardinality(B)
    BY <2>1, <2>4, <2>5, <2>6
  <2> QED
    BY <2>7 DEF B
<1> QED
  BY <1>5, <1>6, <1>7

LEMMA InsertKeeps ==
  ASSUME IInv, TypeOK', Insert
  PROVE  IInv'
<1>1. PICK batch \in Batches :
        /\ IsInjective(batch)
        /\ ToSet(batch) \cap ToSet(rows) = {}
        /\ rows' = rows \o batch
        /\ sessions' = [s \in Session |-> SessionAfter(batch, s)]
        /\ UNCHANGED <<expired, clock, pc, searchVars, sinceFetch,
                       sessionVars, searches>>
  BY DEF Insert
<1>2. ToSet(rows') = ToSet(rows) \cup ToSet(batch)
  BY <1>1, Appended DEF IInv, TypeOK
<1>3. /\ UNCHANGED <<pc, filter, offset, page, collected, visible, sinceFetch,
                     total, asked, sessionRow, replay, expired>>
      /\ Select(filter) \subseteq Select(filter)'
  BY <1>1, <1>2 DEF Select, Stored, searchVars, sessionVars
<1>4. SelectedInv'
  BY <1>3 DEF IInv, SelectedInv
<1>5. \A e : Newer(Select(filter), e) \subseteq Select(filter)
  BY DEF Newer
<1>6. BehindInv' /\ LastInv' /\ CountInv'
  <2>1. Untied' => Untied
    BY <1>2, <1>3 DEF Untied
  <2> QED
    BY <1>3, <1>4, <1>5, <2>1, TableInvs DEF IInv
<1>7. TotalCovers'
  BY <1>3 DEF IInv, TotalCovers
<1>8. \A s \in Session : EndOf(s) => EndOf(s)'
  BY <1>2 DEF EndOf
<1>9. SessionInv'
  <2>1. ASSUME NEW s \in Session, sessions'[s] = "ended"
        PROVE  EndOf(s)'
    <3>1. SessionAfter(batch, s) = "ended"
      BY <1>1, <2>1
    <3>2. CASE sessions[s] = "ended"
      BY <3>2, <1>8 DEF IInv, SessionInv
    <3>3. CASE \E e \in Closes \cap ToSet(batch) : SessionOf[e] = s
      BY <3>3, <1>2 DEF EndOf
    <3> QED
      BY <3>1, <3>2, <3>3, SessionAfterEnd
  <2>2. ASSUME pc' = "events", sessionRow' = "ended"
        PROVE  \E e \in Closes \cap ToSet(rows') : SessionOf[e] = asked'
    BY <2>2, <1>2, <1>3 DEF IInv, SessionInv, EndOf
  <2> QED
    BY <2>1, <2>2 DEF SessionInv, EndOf
<1>10. ReplayShowsEnd'
  BY <1>3 DEF IInv, ReplayShowsEnd
<1> QED
  BY <1>4, <1>6, <1>7, <1>9, <1>10 DEF IInv

LEMMA ExpireKeeps ==
  ASSUME IInv, TypeOK', Expire
  PROVE  IInv'
<1> DEFINE old == {e \in Stored : Stamp[e] + KeepTicks < clock}
<1>1. /\ expired' = expired \cup old
      /\ visible' = visible \ old
      /\ sinceFetch' = IF pc = "count" THEN sinceFetch \cup old ELSE sinceFetch
      /\ UNCHANGED <<rows, sessions, pc, filter, offset, page, collected, total,
                     asked, sessionRow, replay>>
  BY DEF Expire, sessionVars
<1>2. Select(filter)' = Select(filter) \ old
  BY <1>1 DEF Select, Stored
<1>3. SelectedInv'
  BY <1>1, <1>2 DEF IInv, SelectedInv
<1>4. ASSUME NEW e \in visible'
      PROVE  Newer(Select(filter), e) \subseteq Select(filter)'
  <2>1. /\ e \in Stored \ old /\ e \in Event
        /\ Select(filter) \subseteq Event
        /\ Select(filter) \subseteq Stored
    BY <1>1, <1>4, StoredIsFinite DEF IInv, SelectedInv, TypeOK
  <2>2. ASSUME NEW f \in Newer(Select(filter), e)
        PROVE  f \notin old
    <3>1. Stamp[f] \in Nat /\ Stamp[e] \in Nat /\ Stamp[f] > Stamp[e]
      BY <2>1, QueryAssumption DEF Newer
    <3>2. ~(Stamp[e] + KeepTicks < clock)
      BY <2>1
    <3>3. KeepTicks \in Nat /\ clock \in Nat
      BY QueryAssumption DEF IInv, TypeOK
    <3> QED
      BY <3>1, <3>2, <3>3
  <2> QED
    BY <1>2, <2>2 DEF Newer
<1>5. pc = "count" =>
        Select(filter) \cup (sinceFetch \cap filter)
          \subseteq Select(filter)' \cup (sinceFetch' \cap filter')
  BY <1>1, <1>2 DEF Select
<1>6. BehindInv' /\ LastInv' /\ CountInv'
  <2> HIDE DEF old
  <2>1. visible' \subseteq visible /\ (Untied' => Untied)
    BY <1>1 DEF Untied
  <2> QED
    BY <1>1, <1>3, <1>4, <1>5, <2>1, TableInvs DEF IInv
<1>7. TotalCovers'
  BY <1>1 DEF IInv, TotalCovers
<1>8. SessionInv'
  BY <1>1 DEF IInv, SessionInv, EndOf
<1>9. ReplayShowsEnd'
  BY <1>1 DEF IInv, ReplayShowsEnd
<1> QED
  BY <1>3, <1>6, <1>7, <1>8, <1>9 DEF IInv

LEMMA SearchKeeps ==
  ASSUME IInv, TypeOK', Search
  PROVE  IInv'
<1>1. PICK f \in Filters :
        filter' = f /\ visible' = Select(f) /\ FetchPage(f, 0)
  BY DEF Search
<1>2. /\ offset' = 0 /\ collected' = {} /\ pc' = "count"
      /\ UNCHANGED tableVars
      /\ UNCHANGED <<rows, sessions, asked, sessionRow, replay>>
  BY <1>1 DEF Search, FetchPage, tableVars, sessionVars
<1>3. \A e \in visible' \ collected' : Rank(Select(f), e) >= 0
  BY StoredIsFinite, RankType DEF IInv
<1>4. SelectedInv' /\ BehindInv' /\ LastInv' /\ CountInv' /\ TotalCovers'
  BY <1>1, <1>2, <1>3, FetchInvs DEF IInv
<1>5. SessionInv' /\ ReplayShowsEnd'
  BY <1>2 DEF IInv, SessionInv, EndOf, ReplayShowsEnd
<1> QED
  BY <1>4, <1>5 DEF IInv

LEMMA NextPageKeeps ==
  ASSUME IInv, TypeOK', NextPage
  PROVE  IInv'
<1>1. /\ pc = "answered" /\ pc' = "count"
      /\ offset' = offset + PageSize
      /\ FetchPage(filter, offset')
      /\ UNCHANGED tableVars
      /\ UNCHANGED <<rows, sessions, filter, collected, visible,
                     asked, sessionRow, replay>>
  BY DEF NextPage, FetchPage, tableVars, sessionVars
<1>2. PICK f : f = filter
  OBVIOUS
<1>3. PICK o \in Nat : o = offset + PageSize
  BY QueryAssumption DEF IInv, TypeOK
<1>4. FetchPage(f, o) /\ filter' = f /\ offset' = o
  BY <1>1, <1>2, <1>3 DEF FetchPage
<1>5. visible' \subseteq Select(f)
  BY <1>1, <1>2 DEF IInv, SelectedInv
<1>6. Untied' => \A e \in visible' \ collected' : Rank(Select(f), e) >= o
  <2>1. Untied' => Untied
    BY <1>1 DEF Untied
  <2> QED
    BY <1>1, <1>2, <1>3, <2>1 DEF IInv, BehindInv, Searching, Got
<1>7. SelectedInv' /\ BehindInv' /\ LastInv' /\ CountInv' /\ TotalCovers'
  BY <1>1, <1>4, <1>5, <1>6, FetchInvs DEF IInv
<1>8. SessionInv' /\ ReplayShowsEnd'
  BY <1>1 DEF IInv, SessionInv, EndOf, ReplayShowsEnd
<1> QED
  BY <1>7, <1>8 DEF IInv

LEMMA CountTotalKeeps ==
  ASSUME IInv, TypeOK', CountTotal
  PROVE  IInv'
<1>1. /\ pc = "count" /\ pc' = "answered"
      /\ total' = Cardinality(Select(filter))
      /\ collected' = collected \cup page
      /\ UNCHANGED <<rows, sessions, expired, filter, offset, page, visible,
                     sinceFetch, asked, sessionRow, replay>>
  BY DEF CountTotal, CountRows, tableVars, sessionVars
<1>2. /\ Got' = Got /\ Searching /\ Searching'
      /\ Select(filter)' = Select(filter) /\ Untied' = Untied
  BY <1>1 DEF Got, Searching, Select, Stored, Untied
<1>3. SelectedInv' /\ BehindInv' /\ LastInv' /\ CountInv'
  BY <1>1, <1>2 DEF IInv, SelectedInv, BehindInv, LastInv, CountInv
<1>4. TotalCovers'
  <2> SUFFICES ASSUME page # {}
               PROVE  total' + Cardinality(sinceFetch \cap filter)
                        >= offset + Cardinality(page)
    BY <1>1 DEF TotalCovers
  <2> DEFINE A == Select(filter)
             B == sinceFetch \cap filter
  <2>1. offset + Cardinality(page) <= Cardinality(A \cup B)
    BY <1>1 DEF IInv, CountInv
  <2>2. IsFiniteSet(A) /\ IsFiniteSet(B)
    <3>1. B \subseteq ToSet(rows)
      BY DEF IInv, TypeOK
    <3> QED
      BY <3>1, StoredIsFinite, FS_Subset DEF IInv
  <2> HIDE DEF A, B
  <2>3. Cardinality(A \cup B)
          = Cardinality(A) + Cardinality(B) - Cardinality(A \cap B)
    BY <2>2, FS_Union
  <2>4. /\ Cardinality(A) \in Nat /\ Cardinality(B) \in Nat
        /\ Cardinality(A \cap B) \in Nat
    BY <2>2, FS_Intersection, FS_CardinalityType
  <2>5. Cardinality(page) \in Nat /\ offset \in Nat
    BY FS_CardinalityType DEF IInv, TypeOK
  <2>6. Cardinality(A) + Cardinality(B) >= offset + Cardinality(page)
    BY <2>1, <2>3, <2>4, <2>5
  <2> QED
    BY <1>1, <2>6 DEF A, B
<1>5. SessionInv' /\ ReplayShowsEnd'
  BY <1>1 DEF IInv, SessionInv, EndOf, ReplayShowsEnd
<1> QED
  BY <1>3, <1>4, <1>5 DEF IInv

-----------------------------------------------------------------------------
(* Replays *)

LEMMA ReadSessionKeeps ==
  ASSUME IInv, TypeOK', ReadSession
  PROVE  IInv'
<1>1. PICK s \in Session :
        /\ asked' = s
        /\ sessionRow' = sessions[s]
        /\ pc' = IF sessions[s] = "absent" THEN "idle" ELSE "events"
  BY DEF ReadSession
<1>2. UNCHANGED <<rows, sessions, expired, filter, offset, page, collected,
                  visible, total>>
  BY DEF ReadSession, tableVars, searchVars
<1>3. SelectedInv'
  BY <1>2 DEF IInv, SelectedInv, Select, Stored
<1>4. BehindInv' /\ LastInv' /\ CountInv' /\ TotalCovers'
  BY <1>1 DEF BehindInv, LastInv, CountInv, TotalCovers, Searching
<1>5. SessionInv'
  BY <1>1, <1>2 DEF IInv, SessionInv, EndOf
<1>6. ReplayShowsEnd'
  BY <1>1 DEF ReplayShowsEnd
<1> QED
  BY <1>3, <1>4, <1>5, <1>6 DEF IInv

LEMMA ReadEventsKeeps ==
  ASSUME IInv, TypeOK', ReadEvents
  PROVE  IInv'
<1>1. /\ pc = "events" /\ pc' = "replayed"
      /\ replay' = {e \in Stored : SessionOf[e] = asked}
      /\ UNCHANGED <<rows, sessions, expired, filter, offset, page, collected,
                     visible, total, asked, sessionRow>>
  BY DEF ReadEvents, EventsOf, InSession, tableVars, searchVars
<1>2. SelectedInv'
  BY <1>1 DEF IInv, SelectedInv, Select, Stored
<1>3. BehindInv' /\ LastInv' /\ CountInv' /\ TotalCovers'
  BY <1>1 DEF BehindInv, LastInv, CountInv, TotalCovers, Searching
<1>4. SessionInv'
  BY <1>1 DEF IInv, SessionInv, EndOf
<1>5. ReplayShowsEnd'
  BY <1>1 DEF IInv, SessionInv, EndOf, ReplayShowsEnd, Stored
<1> QED
  BY <1>2, <1>3, <1>4, <1>5 DEF IInv

-----------------------------------------------------------------------------
(* Every step *)

LEMMA NextKeeps ==
  ASSUME IInv, [Next]_vars
  PROVE  IInv'
<1>1. TypeOK'
  BY NextType DEF IInv
<1>2. CASE Tick \/ UNCHANGED vars
  BY <1>1, <1>2
  DEF Tick, vars, tableVars, searchVars, sessionVars, IInv, SelectedInv,
      BehindInv, LastInv, CountInv, TotalCovers, SessionInv, EndOf,
      ReplayShowsEnd, Searching, Got, Select, Stored, Untied
<1>3. CASE SearchDone \/ ReplayDone
  <2>1. /\ pc' = "idle"
        /\ UNCHANGED <<rows, sessions, expired, filter, visible>>
    BY <1>3 DEF SearchDone, ReplayDone, tableVars, searchVars
  <2> QED
    BY <1>1, <2>1
    DEF IInv, SelectedInv, BehindInv, LastInv, CountInv, TotalCovers,
        SessionInv, EndOf, ReplayShowsEnd, Searching, Select, Stored
<1> QED
  BY <1>1, <1>2, <1>3, InsertKeeps, ExpireKeeps, SearchKeeps, NextPageKeeps,
     CountTotalKeeps, ReadSessionKeeps, ReadEventsKeeps
  DEF Next

-----------------------------------------------------------------------------
(* Integrity: an argument about any table, whatever filled it *)

\* PASS: every row that is read is linked to the one before it.
LEMMA PassLinks ==
  ASSUME TypeOK, NEW h, Verify(h) = "PASS"
  PROVE  /\ ChainIds(h) \subseteq 1 .. Len(rows)
         /\ \A i \in ChainIds(h) : Linked(ChainIds(h), i)
<1>1. Len(rows) \in Nat /\ DOMAIN rows = 1 .. Len(rows)
  BY DEF TypeOK
<1>2. ChainIds(h) \subseteq 1 .. Len(rows)
  BY <1>1 DEF ChainIds
<1> DEFINE bad == {i \in ChainIds(h) : ~Linked(ChainIds(h), i)}
<1>3. IsFiniteSet(bad)
  <2>1. IsFiniteSet(1 .. Len(rows))
    BY <1>1, FS_Interval
  <2>2. bad \subseteq 1 .. Len(rows)
    BY <1>2
  <2> QED
    BY <2>1, <2>2, FS_Subset
<1>4. Cardinality(bad) = 0
  BY DEF Verify, IntegrityErrors
<1> HIDE DEF bad
<1>5. bad = {}
  BY <1>3, <1>4, FS_EmptySet
<1> QED
  BY <1>2, <1>5 DEF bad

\* No event is in the chain before a row unless it is stored before it.
LEMMA SignedIsStored ==
  ASSUME TypeOK, NEW R \in SUBSET (1 .. Len(rows)),
         \A k \in R : Linked(R, k), NEW i \in R
  PROVE  Signed(rows[i]) \subseteq {rows[j] : j \in {k \in R : k <= i}}
<1> DEFINE P == {rows[j] : j \in {k \in R : k <= i}}
<1>1. Len(rows) \in Nat /\ rows \in [1 .. Len(rows) -> Event]
  BY DEF TypeOK
<1>2. P \in SUBSET Event /\ rows[i] \in P
  BY <1>1
<1>3. ASSUME NEW g \in P
      PROVE  Prev[g] \in P \cup {Genesis}
  <2>1. PICK j \in R : j <= i /\ g = rows[j]
    BY <1>3
  <2>2. CASE Prev[rows[j]] = Genesis
    BY <2>1, <2>2
  <2>3. CASE \E k \in R : Follows(R, j, k) /\ Prev[rows[j]] = rows[k]
    <3>1. PICK k \in R : k < j /\ Prev[rows[j]] = rows[k]
      BY <2>3 DEF Follows
    <3>2. k <= i
      BY <1>1, <2>1, <3>1
    <3> QED
      BY <2>1, <3>1, <3>2
  <2> QED
    BY <2>1, <2>2, <2>3 DEF Linked
<1> HIDE DEF P
<1>4. Signed(rows[i]) \subseteq P
  BY <1>2, <1>3 DEF Signed
<1> QED
  BY <1>4 DEF P

\* Every row stored before a row is in the chain before it.
LEMMA StoredIsSigned ==
  ASSUME TypeOK, NEW R \in SUBSET (1 .. Len(rows)),
         \A k \in R : Linked(R, k), NEW i \in R, NEW j \in R, j <= i
  PROVE  rows[j] \in Signed(rows[i])
<1>1. Len(rows) \in Nat /\ rows \in [1 .. Len(rows) -> Event]
  BY DEF TypeOK
<1>2. ASSUME NEW A \in SUBSET Event, rows[i] \in A,
             \A g \in A : Prev[g] \in A \cup {Genesis}
      PROVE  rows[j] \in A
  <2> DEFINE B == {k \in R : j <= k /\ rows[k] \in A}
  <2>1. B \in SUBSET Nat /\ B # {}
    <3>1. B \subseteq R
      OBVIOUS
    <3>2. R \subseteq 1 .. Len(rows) /\ 1 .. Len(rows) \subseteq Nat
      BY <1>1
    <3>3. i \in B
      BY <1>2
    <3> HIDE DEF B
    <3> QED
      BY <3>1, <3>2, <3>3
  <2>2. PICK m \in B : \A k \in B : m <= k
    BY <2>1, Smallest
  <2>3. m \in R /\ j <= m /\ rows[m] \in A /\ m \in Nat /\ j \in Nat
    BY <1>1, <2>2
  <2>4. CASE m = j
    BY <2>3, <2>4
  <2>5. CASE j < m
    <3>1. ~IsFirst(R, m)
      BY <2>3, <2>5 DEF IsFirst
    <3>2. PICK k \in R : Follows(R, m, k) /\ Prev[rows[m]] = rows[k]
      BY <2>3, <3>1 DEF Linked
    <3>3. k < m /\ j <= k /\ k \in Nat
      BY <1>1, <2>3, <2>5, <3>2 DEF Follows
    <3>4. rows[k] # Genesis
      BY <1>1, QueryAssumption
    <3>5. rows[k] \in A
      BY <1>2, <2>3, <3>2, <3>4
    <3>6. k \in B
      BY <3>3, <3>5
    <3> QED
      BY <2>2, <2>3, <3>3, <3>6
  <2> QED
    BY <2>3, <2>4, <2>5
<1> QED
  BY <1>1, <1>2 DEF Signed

LEMMA PassIsPrefix ==
  ASSUME TypeOK
  PROVE  PassMeansPrefix
<1> SUFFICES ASSUME NEW h, Verify(h) = "PASS", NEW i \in ChainIds(h)
             PROVE  {rows[j] : j \in {k \in ChainIds(h) : k <= i}} = Signed(rows[i])
  BY DEF PassMeansPrefix
<1> DEFINE R == ChainIds(h)
<1>1. /\ R \in SUBSET (1 .. Len(rows))
      /\ \A k \in R : Linked(R, k)
      /\ i \in R
  BY PassLinks
<1> HIDE DEF R
<1>2. Signed(rows[i]) \subseteq {rows[j] : j \in {k \in R : k <= i}}
  BY <1>1, SignedIsStored
<1>3. \A j \in R : j <= i => rows[j] \in Signed(rows[i])
  BY <1>1, StoredIsSigned
<1> QED
  BY <1>2, <1>3 DEF R

-----------------------------------------------------------------------------
(* Theorems *)

LEMMA Inductive == Spec => []IInv
<1>1. Init => IInv
  BY InitIInv
<1>2. IInv /\ [Next]_vars => IInv'
  BY NextKeeps
<1> QED
  BY <1>1, <1>2, PTL DEF Spec

\* Whatever is inserted, deleted and asked for, every variable keeps its type;
\* in particular search_events() never returns more than limit rows.
THEOREM QueryTypeCorrect == Spec => []TypeOK
<1>1. IInv => TypeOK
  BY DEF IInv
<1> QED
  BY <1>1, Inductive, PTL

(***************************************************************************)
(* search_events(): a client that pages to the end gets every row that     *)
(* matched from its first page to its last, provided that no two rows that *)
(* match have the same log_timestamp; and, with ties or without, each      *)
(* total covers the page next to it, up to rows the retention deleted      *)
(* between the two statements.                                             *)
(***************************************************************************)
THEOREM PagingIsSound == Spec => []PagesAreSound
<1>1. IInv => PagesAreSound
  BY DEF IInv, LastInv, Searching, Got, PagesAreSound, NothingSkipped,
     LastPageRead
<1> QED
  BY <1>1, Inductive, PTL

\* get_session(): the replay of a session whose row has an end shows the event
\* that ended it, unless the retention has deleted it.
THEOREM ReplaysShowTheEnd == Spec => []ReplayShowsEnd
<1>1. IInv => ReplayShowsEnd
  BY DEF IInv
<1> QED
  BY <1>1, Inductive, PTL

\* verify_integrity(): PASS only when the rows of a host are the beginning of
\* what it signed, without a gap and in its order, in whatever order and
\* batches they came and whatever the retention has deleted.
THEOREM PassIsSound == Spec => []PassMeansPrefix
<1>1. IInv => PassMeansPrefix
  BY PassIsPrefix DEF IInv
<1> QED
  BY <1>1, Inductive, PTL

=============================================================================
