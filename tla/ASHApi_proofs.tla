---------------------------- MODULE ASHApi_proofs ----------------------------
(***************************************************************************)
(* Theorems about ASHApi for any number of workers and process ids, any    *)
(* kinds of request, any limit and window, and workers that are killed at  *)
(* any step of a request.                                                  *)
(***************************************************************************)
EXTENDS ASHApi, FiniteSetTheorems, WellFoundedInduction, TLAPS

-----------------------------------------------------------------------------
(* Induction over finite sets, by a smallest set that is an exception *)
(* (the principle for a predicate needs an operator for a parameter)  *)

\* Every set of numbers has a least element; IsWellFoundedOn says so without
\* an operator for a parameter.
LEMMA Smallest ==
  ASSUME NEW S \in SUBSET Nat, S # {}
  PROVE  \E x \in S : \A y \in S : x <= y
<1> DEFINE R == OpToRel(<, Nat)
<1>1. \A x, y \in Nat : y < x => <<y, x>> \in R
  BY DEF OpToRel
<1>2. IsWellFoundedOn(R, Nat)
  BY NatLessThanWellFounded
<1> HIDE DEF R
<1>3. PICK x \in S : \A y \in S : <<y, x>> \notin R
  BY <1>2, WFMin
<1>4. ASSUME NEW y \in S
      PROVE  x <= y
  <2>1. x \in Nat /\ y \in Nat
    OBVIOUS
  <2>2. ~(y < x)
    BY <1>1, <1>3, <2>1
  <2> QED
    BY <2>1, <2>2
<1> QED
  BY <1>4

\* Among the subsets of a finite set that are exceptions, if there are any,
\* is one none of whose own subsets is.
LEMMA SmallestException ==
  ASSUME NEW T, IsFiniteSet(T), NEW B \in SUBSET SUBSET T, B # {}
  PROVE  \E s \in B : \A x \in s : s \ {x} \notin B
<1> DEFINE N == {Cardinality(s) : s \in B}
<1>1. \A s \in B : IsFiniteSet(s) /\ Cardinality(s) \in Nat
  BY FS_Subset, FS_CardinalityType
<1>2. N \in SUBSET Nat /\ N # {}
  BY <1>1
<1>3. \E n \in N : \A m \in N : n <= m
  <2> HIDE DEF N
  <2> QED
    BY <1>2, Smallest
<1>4. PICK s \in B : \A t \in B : Cardinality(s) <= Cardinality(t)
  BY <1>3
<1>5. ASSUME NEW x \in s, s \ {x} \in B
      PROVE  FALSE
  <2>1. Cardinality(s \ {x}) = Cardinality(s) - 1
    BY <1>1, FS_RemoveElement
  <2> QED
    BY <1>1, <1>4, <1>5, <2>1
<1> QED
  BY <1>5

\* What holds of the empty set and goes on to every larger one holds of all.
LEMMA SetInduction ==
  ASSUME NEW T, IsFiniteSet(T), NEW B \in SUBSET SUBSET T,
         {} \in B,
         \A s \in B : \A x \in T \ s : s \cup {x} \in B
  PROVE  \A s \in SUBSET T : s \in B
<1> SUFFICES ASSUME (SUBSET T) \ B # {}
             PROVE  FALSE
  OBVIOUS
<1>1. PICK s \in (SUBSET T) \ B :
              \A x \in s : s \ {x} \notin (SUBSET T) \ B
  <2> DEFINE C == (SUBSET T) \ B
  <2>1. C \in SUBSET SUBSET T /\ C # {}
    OBVIOUS
  <2> HIDE DEF C
  <2>2. \E s \in C : \A x \in s : s \ {x} \notin C
    BY <2>1, SmallestException
  <2> QED
    BY <2>2 DEF C
<1>2. PICK x \in s : TRUE
  OBVIOUS
<1>3. s \ {x} \in B /\ x \in T \ (s \ {x})
  BY <1>1, <1>2
<1>4. (s \ {x}) \cup {x} = s
  BY <1>2
<1> QED
  BY <1>1, <1>3, <1>4

-----------------------------------------------------------------------------
(* Sums *)

(***************************************************************************)
(* The sum of f over S, as Sum and AttemptsBounded have it.  The library   *)
(* defines it by a CHOOSE among the functions that satisfy a recursion, in *)
(* which the elements come in the order of CHOOSE: there is such a         *)
(* function (TotalsExist), any order gives the same (AnyOrder), and so     *)
(* elements can be added one at a time (TotalFacts).                       *)
(***************************************************************************)
Total(f, S) == MapThenSumSet(LAMBDA x : f[x], S)

Pick(s) == CHOOSE x \in s : TRUE

\* What the sum over s is, given the sums h over its subsets.
TotalOf(f, h, s) == IF s = {} THEN 0 ELSE f[Pick(s)] + h[s \ {Pick(s)}]

\* h has the sum of f over every subset of S.
Sums(f, h, S) == /\ h \in [SUBSET S -> Int]
                 /\ \A s \in SUBSET S : h[s] = TotalOf(f, h, s)

LEMMA TotalDef ==
  ASSUME NEW f, NEW S
  PROVE  Total(f, S)
         = (CHOOSE h : h = [s \in SUBSET S |-> TotalOf(f, h, s)])[S]
BY Zenon DEF Total, TotalOf, Pick, MapThenSumSet, MapThenFoldSet

\* The recursion is well founded: there are such sums.
LEMMA TotalsExist ==
  ASSUME NEW S, IsFiniteSet(S), NEW D, S \subseteq D, NEW f \in [D -> Int]
  PROVE  \E h : Sums(f, h, S)
<1> DEFINE UpTo(n, h) == \A s \in SUBSET S :
                           Cardinality(s) <= n => h[s] = TotalOf(f, h, s)
           N == {n \in Nat : ~ \E h \in [SUBSET S -> Int] : UpTo(n, h)}
<1>1. \A s \in SUBSET S : IsFiniteSet(s) /\ Cardinality(s) \in Nat
  BY FS_Subset, FS_CardinalityType
<1>2. \A s \in SUBSET S : s # {} => /\ Pick(s) \in s
                                    /\ Pick(s) \in D
                                    /\ s \ {Pick(s)} \in SUBSET S
  BY DEF Pick
<1>3. \A s \in SUBSET S : Cardinality(s) = 0 => s = {}
  BY <1>1, FS_EmptySet
<1>4. UpTo(0, [s \in SUBSET S |-> 0])
  BY <1>1, <1>3 DEF TotalOf
<1>5. ASSUME NEW n \in Nat, NEW h \in [SUBSET S -> Int], UpTo(n, h)
      PROVE  \E g \in [SUBSET S -> Int] : UpTo(n + 1, g)
  <2> DEFINE g == [s \in SUBSET S |-> TotalOf(f, h, s)]
  <2>1. g \in [SUBSET S -> Int]
    BY <1>2 DEF TotalOf
  <2>2. ASSUME NEW s \in SUBSET S, Cardinality(s) <= n + 1
        PROVE  g[s] = TotalOf(f, g, s)
    <3>1. CASE s = {}
      BY <3>1 DEF TotalOf
    <3>2. CASE s # {}
      <4> DEFINE t == s \ {Pick(s)}
      <4>1. t \in SUBSET S /\ Cardinality(t) = Cardinality(s) - 1
        BY <1>1, <1>2, <3>2, FS_RemoveElement
      <4>2. Cardinality(t) <= n
        BY <1>1, <2>2, <4>1
      <4>3. g[t] = h[t]
        BY <1>5, <4>1, <4>2
      <4>4. g[s] = f[Pick(s)] + h[t]
        BY <3>2 DEF TotalOf
      <4> QED
        BY <3>2, <4>3, <4>4 DEF TotalOf
    <3> QED
      BY <3>1, <3>2
  <2> QED
    BY <2>1, <2>2
<1>6. N = {}
  <2> SUFFICES ASSUME N # {}
               PROVE  FALSE
    OBVIOUS
  <2>1. PICK n \in N : \A m \in N : n <= m
    <3>1. N \in SUBSET Nat
      OBVIOUS
    <3> HIDE DEF N
    <3> QED
      BY <3>1, Smallest
  <2>2. CASE n = 0
    <3>1. [s \in SUBSET S |-> 0] \in [SUBSET S -> Int]
      OBVIOUS
    <3> QED
      BY <1>4, <2>2, <3>1
  <2>3. CASE n # 0
    <3>1. n - 1 \in Nat /\ n - 1 \notin N /\ (n - 1) + 1 = n
      <4>1. n \in Nat /\ \A m \in N : n <= m
        BY <2>1
      <4> HIDE DEF N
      <4> QED
        BY <2>3, <4>1
    <3>2. PICK h \in [SUBSET S -> Int] : UpTo(n - 1, h)
      BY <3>1
    <3> HIDE DEF UpTo
    <3>3. \E g \in [SUBSET S -> Int] : UpTo((n - 1) + 1, g)
      BY <1>5, <3>1, <3>2
    <3> QED
      BY <3>1, <3>3
  <2> QED
    BY <2>2, <2>3
<1>7. Cardinality(S) \in Nat \ N
  BY <1>1, <1>6
<1>8. PICK h \in [SUBSET S -> Int] : UpTo(Cardinality(S), h)
  BY <1>7
<1>9. \A s \in SUBSET S : Cardinality(s) <= Cardinality(S)
  BY FS_Subset
<1>10. Sums(f, h, S)
  BY <1>8, <1>9 DEF Sums
<1> QED
  BY <1>10

\* The order in which the elements are added does not matter.
LEMMA AnyOrder ==
  ASSUME NEW S, IsFiniteSet(S), NEW D, S \subseteq D, NEW f \in [D -> Int],
         NEW h, Sums(f, h, S)
  PROVE  \A s \in SUBSET S : \A x \in s : h[s] = f[x] + h[s \ {x}]
<1> DEFINE B == {s \in SUBSET S : \E x \in s : h[s] # f[x] + h[s \ {x}]}
<1> SUFFICES ASSUME B # {}
             PROVE  FALSE
  OBVIOUS
<1>1. PICK s \in B : \A x \in s : s \ {x} \notin B
  <2>1. B \in SUBSET SUBSET S
    OBVIOUS
  <2> HIDE DEF B
  <2> QED
    BY <2>1, SmallestException
<1>2. PICK x \in s : h[s] # f[x] + h[s \ {x}]
  OBVIOUS
<1> DEFINE y == Pick(s)
<1>3. y \in s /\ h[s] = f[y] + h[s \ {y}]
  BY <1>2 DEF Sums, TotalOf, Pick
<1> HIDE DEF y
<1>4. x # y
  BY <1>2, <1>3
<1>5. h[s \ {y}] = f[x] + h[(s \ {y}) \ {x}]
  BY <1>1, <1>2, <1>3, <1>4
<1>6. h[s \ {x}] = f[y] + h[(s \ {x}) \ {y}]
  BY <1>1, <1>2, <1>3, <1>4
<1>7. (s \ {x}) \ {y} = (s \ {y}) \ {x}
  OBVIOUS
<1> DEFINE r == h[(s \ {y}) \ {x}]
<1>8. f[x] \in Int /\ f[y] \in Int /\ r \in Int
  <2>1. x \in D /\ y \in D /\ (s \ {y}) \ {x} \in SUBSET S
    BY <1>3
  <2> QED
    BY <2>1 DEF Sums
<1>9. h[s] = f[y] + (f[x] + r) /\ h[s \ {x}] = f[y] + r
  BY <1>3, <1>5, <1>6, <1>7
<1> HIDE DEF r
<1> QED
  BY <1>2, <1>8, <1>9

\* Sums over parts of a set fit together.
LEMMA TotalIs ==
  ASSUME NEW T, IsFiniteSet(T), NEW D, T \subseteq D, NEW f \in [D -> Int],
         NEW h, Sums(f, h, T),
         NEW S \in SUBSET T
  PROVE  Total(f, S) = h[S]
<1> DEFINE c == CHOOSE h1 : h1 = [s \in SUBSET S |-> TotalOf(f, h1, s)]
<1>1. IsFiniteSet(S) /\ S \subseteq D
  BY FS_Subset
<1>2. PICK g : Sums(f, g, S)
  BY <1>1, TotalsExist
<1>3. g = [s \in SUBSET S |-> TotalOf(f, g, s)]
  BY <1>2 DEF Sums
<1>4. c = [s \in SUBSET S |-> TotalOf(f, c, s)]
  BY <1>3
<1>5. Total(f, S) = c[S]
  BY TotalDef
<1> HIDE DEF c
<1> DEFINE B == {s \in SUBSET S : c[s] # h[s]}
<1>6. B = {}
  <2> SUFFICES ASSUME B # {}
               PROVE  FALSE
    OBVIOUS
  <2>1. PICK s \in B : \A x \in s : s \ {x} \notin B
    <3>1. B \in SUBSET SUBSET S
      OBVIOUS
    <3> HIDE DEF B
    <3> QED
      BY <1>1, <3>1, SmallestException
  <2>2. s \in SUBSET S /\ s \in SUBSET T
    OBVIOUS
  <2>3. c[s] = TotalOf(f, c, s) /\ h[s] = TotalOf(f, h, s)
    BY <1>4, <2>2 DEF Sums
  <2>4. s # {} => c[s \ {Pick(s)}] = h[s \ {Pick(s)}]
    BY <2>1, <2>2 DEF Pick
  <2>5. c[s] = h[s]
    BY <2>3, <2>4 DEF TotalOf
  <2> QED
    BY <2>1, <2>5
<1> QED
  BY <1>5, <1>6

\* The three facts the sums below rest on.
LEMMA TotalFacts ==
  ASSUME NEW D, NEW f \in [D -> Int], NEW S \in SUBSET D, IsFiniteSet(S)
  PROVE  /\ Total(f, S) \in Int
         /\ Total(f, {}) = 0
         /\ \A x \in D \ S : Total(f, S \cup {x}) = Total(f, S) + f[x]
<1>0. S \subseteq D
  OBVIOUS
<1>1. PICK h : Sums(f, h, S)
  BY <1>0, TotalsExist
<1>2. Total(f, S) = h[S] /\ Total(f, {}) = h[{}]
  <2>1. S \in SUBSET S /\ {} \in SUBSET S
    OBVIOUS
  <2> QED
    BY <1>0, <1>1, <2>1, TotalIs
<1>3. h[{}] = 0 /\ h[S] \in Int
  BY <1>1 DEF Sums, TotalOf
<1>4. ASSUME NEW x \in D \ S
      PROVE  Total(f, S \cup {x}) = Total(f, S) + f[x]
  <2> DEFINE T == S \cup {x}
  <2>1. IsFiniteSet(T) /\ T \subseteq D
    BY FS_AddElement
  <2>2. x \in T /\ T \ {x} = S /\ S \in SUBSET T /\ T \in SUBSET T
    BY <1>4
  <2> HIDE DEF T
  <2>3. PICK g : Sums(f, g, T)
    BY <2>1, TotalsExist
  <2>4. Total(f, T) = g[T] /\ Total(f, S) = g[S]
    BY <2>1, <2>2, <2>3, TotalIs
  <2>5. g[T] = f[x] + g[S]
    BY <2>1, <2>2, <2>3, AnyOrder
  <2>6. f[x] \in Int /\ g[S] \in Int
    BY <2>2, <2>3 DEF Sums
  <2> QED
    BY <2>4, <2>5, <2>6 DEF T
<1> QED
  BY <1>2, <1>3, <1>4

\* One element less.
LEMMA TotalWithout ==
  ASSUME NEW D, NEW f \in [D -> Int], NEW S \in SUBSET D, IsFiniteSet(S),
         NEW x \in S
  PROVE  Total(f, S) = Total(f, S \ {x}) + f[x]
<1>1. S \ {x} \in SUBSET D /\ IsFiniteSet(S \ {x})
  BY FS_Subset
<1>2. x \in D \ (S \ {x}) /\ (S \ {x}) \cup {x} = S
  OBVIOUS
<1> QED
  BY <1>1, <1>2, TotalFacts

\* What is the sum of a sum, and what is the sum of a part.
LEMMA TotalUnion ==
  ASSUME NEW D, NEW f \in [D -> Int], NEW S \in SUBSET D, IsFiniteSet(S),
         NEW T \in SUBSET D, IsFiniteSet(T), S \cap T = {}
  PROVE  Total(f, S \cup T) = Total(f, S) + Total(f, T)
<1> DEFINE B == {s \in SUBSET T :
                   Total(f, S \cup s) = Total(f, S) + Total(f, s)}
<1>1. {} \in B
  <2>1. S \cup {} = S
    OBVIOUS
  <2> QED
    BY <2>1, TotalFacts
<1>2. ASSUME NEW s \in B, NEW x \in T \ s
      PROVE  s \cup {x} \in B
  <2>1. s \in SUBSET D /\ IsFiniteSet(s) /\ x \in D \ s
    BY FS_Subset
  <2> DEFINE U == S \cup s
  <2>2. U \in SUBSET D /\ IsFiniteSet(U) /\ x \in D \ U
    BY <2>1, FS_Union
  <2>3. S \cup (s \cup {x}) = U \cup {x}
    OBVIOUS
  <2>4. Total(f, U) = Total(f, S) + Total(f, s)
    OBVIOUS
  <2> HIDE DEF U
  <2>5. Total(f, U \cup {x}) = Total(f, U) + f[x]
    BY <2>2, TotalFacts
  <2>6. Total(f, s \cup {x}) = Total(f, s) + f[x]
    BY <2>1, TotalFacts
  <2>7. Total(f, S) \in Int /\ Total(f, s) \in Int /\ f[x] \in Int
    BY <2>1, TotalFacts
  <2>8. Total(f, S \cup (s \cup {x})) = Total(f, U) + f[x]
    BY <2>3, <2>5
  <2>9. Total(f, S \cup (s \cup {x})) = Total(f, S) + Total(f, s \cup {x})
    BY <2>4, <2>6, <2>7, <2>8
  <2> QED
    BY <2>9
<1>3. T \in B
  <2>1. B \in SUBSET SUBSET T
    OBVIOUS
  <2> HIDE DEF B
  <2>2. \A s \in SUBSET T : s \in B
    BY <1>1, <1>2, <2>1, SetInduction
  <2> QED
    BY <2>2
<1> QED
  BY <1>3

\* Only the values on the set matter.
LEMMA TotalSame ==
  ASSUME NEW D, NEW f \in [D -> Int], NEW S \in SUBSET D, IsFiniteSet(S),
         NEW E, NEW g \in [E -> Int], S \subseteq E,
         \A x \in S : f[x] = g[x]
  PROVE  Total(f, S) = Total(g, S)
<1> DEFINE B == {s \in SUBSET S : Total(f, s) = Total(g, s)}
<1>1. {} \in B
  <2>1. {} \in SUBSET D /\ {} \in SUBSET E /\ IsFiniteSet({})
    BY FS_EmptySet
  <2> QED
    BY <2>1, TotalFacts
<1>2. ASSUME NEW s \in B, NEW x \in S \ s
      PROVE  s \cup {x} \in B
  <2>1. /\ s \in SUBSET D /\ IsFiniteSet(s) /\ x \in D \ s
        /\ s \in SUBSET E /\ x \in E \ s
    BY FS_Subset
  <2>2. Total(f, s \cup {x}) = Total(f, s) + f[x]
    BY <2>1, TotalFacts
  <2>3. Total(g, s \cup {x}) = Total(g, s) + g[x]
    BY <2>1, TotalFacts
  <2> QED
    BY <2>2, <2>3
<1>3. S \in B
  <2>1. B \in SUBSET SUBSET S
    OBVIOUS
  <2> HIDE DEF B
  <2>2. \A s \in SUBSET S : s \in B
    BY <1>1, <1>2, <2>1, SetInduction
  <2> QED
    BY <2>2
<1> QED
  BY <1>3

\* One value changes, the sum changes by as much.
LEMMA TotalChange ==
  ASSUME NEW D, NEW f \in [D -> Int], NEW S \in SUBSET D, IsFiniteSet(S),
         NEW g \in [D -> Int], NEW x \in S,
         \A y \in S \ {x} : f[y] = g[y]
  PROVE  Total(g, S) = Total(f, S) + (g[x] - f[x])
<1> DEFINE R == S \ {x}
<1>1. R \in SUBSET D /\ IsFiniteSet(R)
  BY FS_Subset
<1>2. Total(f, S) = Total(f, R) + f[x] /\ Total(g, S) = Total(g, R) + g[x]
  BY TotalWithout
<1>3. \A y \in R : f[y] = g[y]
  OBVIOUS
<1> HIDE DEF R
<1>4. Total(f, R) = Total(g, R)
  BY <1>1, <1>3, TotalSame
<1>5. Total(f, R) \in Int /\ f[x] \in Int /\ g[x] \in Int
  BY <1>1, TotalFacts
<1> QED
  BY <1>2, <1>4, <1>5

\* Values of at most b give a sum of at most b for each element.
LEMMA TotalBound ==
  ASSUME NEW D, NEW f \in [D -> Int], NEW S \in SUBSET D, IsFiniteSet(S),
         NEW b \in Int, \A x \in S : f[x] <= b
  PROVE  Total(f, S) <= b * Cardinality(S)
<1> DEFINE B == {s \in SUBSET S : Total(f, s) <= b * Cardinality(s)}
<1>1. {} \in B
  <2>1. Total(f, {}) = 0 /\ Cardinality({}) = 0
    BY FS_EmptySet, TotalFacts
  <2> QED
    BY <2>1
<1>2. ASSUME NEW s \in B, NEW x \in S \ s
      PROVE  s \cup {x} \in B
  <2>1. s \in SUBSET D /\ IsFiniteSet(s) /\ x \in D \ s /\ x \in S
    BY FS_Subset
  <2>2. Total(f, s \cup {x}) = Total(f, s) + f[x] /\ Total(f, s) \in Int
    BY <2>1, TotalFacts
  <2>3. Cardinality(s \cup {x}) = Cardinality(s) + 1 /\ Cardinality(s) \in Nat
    BY <2>1, FS_AddElement, FS_CardinalityType
  <2>4. f[x] \in Int /\ f[x] <= b
    BY <2>1
  <2>5. Total(f, s) <= b * Cardinality(s)
    OBVIOUS
  <2>6. b * (Cardinality(s) + 1) = b * Cardinality(s) + b
    BY <2>3
  <2>7. b * Cardinality(s) \in Int
    BY <2>3
  <2>8. Total(f, s \cup {x}) <= b * Cardinality(s \cup {x})
    BY <2>2, <2>3, <2>4, <2>5, <2>6, <2>7
  <2> QED
    BY <2>8
<1>3. S \in B
  <2>1. B \in SUBSET SUBSET S
    OBVIOUS
  <2> HIDE DEF B
  <2>2. \A s \in SUBSET S : s \in B
    BY <1>1, <1>2, <2>1, SetInduction
  <2> QED
    BY <2>2
<1> QED
  BY <1>3

Units(f, S) == {x \in S : f[x] = 1}

\* Zeros and ones are counted.
LEMMA TotalCount ==
  ASSUME NEW D, NEW f \in [D -> Int], NEW S \in SUBSET D, IsFiniteSet(S),
         \A x \in S : f[x] \in {0, 1}
  PROVE  Total(f, S) = Cardinality(Units(f, S))
<1> DEFINE Ones(s) == {x \in s : f[x] = 1}
           B == {s \in SUBSET S : Total(f, s) = Cardinality(Ones(s))}
<1>1. {} \in B
  <2>1. Total(f, {}) = 0 /\ Cardinality({}) = 0 /\ Ones({}) = {}
    BY FS_EmptySet, TotalFacts
  <2> QED
    BY <2>1
<1>2. ASSUME NEW s \in B, NEW x \in S \ s
      PROVE  s \cup {x} \in B
  <2>1. s \in SUBSET D /\ IsFiniteSet(s) /\ x \in D \ s /\ x \in S
    BY FS_Subset
  <2>2. Total(f, s \cup {x}) = Total(f, s) + f[x] /\ Total(f, s) \in Int
    BY <2>1, TotalFacts
  <2>3. IsFiniteSet(Ones(s)) /\ x \notin Ones(s)
    BY <2>1, FS_Subset
  <2>4. Cardinality(Ones(s) \cup {x}) = Cardinality(Ones(s)) + 1
    <3> HIDE DEF Ones
    <3> QED
      BY <2>3, FS_AddElement
  <2>5. Ones(s \cup {x}) = IF f[x] = 1 THEN Ones(s) \cup {x} ELSE Ones(s)
    OBVIOUS
  <2>6. Total(f, s) = Cardinality(Ones(s))
    OBVIOUS
  <2>7. f[x] \in {0, 1}
    BY <2>1
  <2> HIDE DEF Ones
  <2>8. Total(f, s \cup {x}) = Cardinality(Ones(s \cup {x}))
    <3>1. CASE f[x] = 1
      BY <2>2, <2>4, <2>5, <2>6, <3>1
    <3>2. CASE f[x] # 1
      BY <2>2, <2>5, <2>6, <2>7, <3>2
    <3> QED
      BY <3>1, <3>2
  <2> QED
    BY <2>8
<1>3. S \in B
  <2>1. B \in SUBSET SUBSET S
    OBVIOUS
  <2> HIDE DEF B
  <2>2. \A s \in SUBSET S : s \in B
    BY <1>1, <1>2, <2>1, SetInduction
  <2> QED
    BY <2>2
<1>4. Total(f, S) = Cardinality(Ones(S))
  BY <1>3
<1>5. Units(f, S) = Ones(S)
  BY Zenon DEF Units
<1> HIDE DEF Ones
<1> QED
  BY <1>4, <1>5

\* Values that are not negative: a larger set has no smaller sum.
LEMMA TotalMore ==
  ASSUME NEW D, NEW f \in [D -> Nat], NEW S \in SUBSET D, IsFiniteSet(S)
  PROVE  /\ Total(f, S) \in Nat
         /\ \A T \in SUBSET S : Total(f, T) <= Total(f, S)
<1>1. f \in [D -> Int]
  OBVIOUS
<1>2. ASSUME NEW T \in SUBSET D, IsFiniteSet(T)
      PROVE  Total(f, T) \in Nat
  <2> DEFINE B == {s \in SUBSET T : Total(f, s) \in Nat}
  <2>1. {} \in B
    <3>1. {} \in SUBSET D /\ IsFiniteSet({})
      BY FS_EmptySet
    <3> QED
      BY <1>1, <3>1, TotalFacts
  <2>2. ASSUME NEW s \in B, NEW x \in T \ s
        PROVE  s \cup {x} \in B
    <3>1. s \in SUBSET D /\ IsFiniteSet(s) /\ x \in D \ s
      BY <1>2, FS_Subset
    <3>2. Total(f, s \cup {x}) = Total(f, s) + f[x]
      BY <1>1, <3>1, TotalFacts
    <3> QED
      BY <3>1, <3>2
  <2>3. T \in B
    <3>1. B \in SUBSET SUBSET T
      OBVIOUS
    <3> HIDE DEF B
    <3>2. \A s \in SUBSET T : s \in B
      BY <1>2, <2>1, <2>2, <3>1, SetInduction
    <3> QED
      BY <3>2
  <2> QED
    BY <2>3
<1>3. ASSUME NEW T \in SUBSET S
      PROVE  Total(f, T) <= Total(f, S)
  <2> DEFINE R == S \ T
  <2>1. /\ T \in SUBSET D /\ IsFiniteSet(T)
        /\ R \in SUBSET D /\ IsFiniteSet(R)
        /\ T \cap R = {} /\ T \cup R = S
    BY FS_Subset
  <2> HIDE DEF R
  <2>2. Total(f, S) = Total(f, T) + Total(f, R)
    BY <1>1, <2>1, TotalUnion
  <2> QED
    BY <1>2, <2>1, <2>2
<1> QED
  BY <1>2, <1>3

\* Nothing but zeros.
LEMMA TotalZero ==
  ASSUME NEW D, NEW f \in [D -> Int], NEW S \in SUBSET D, IsFiniteSet(S),
         \A x \in S : f[x] = 0
  PROVE  Total(f, S) = 0
<1>1. Units(f, S) = {}
  BY DEF Units
<1>2. \A x \in S : f[x] \in {0, 1}
  OBVIOUS
<1> QED
  BY <1>1, <1>2, TotalCount, FS_EmptySet

-----------------------------------------------------------------------------
USE ApiAssumption DEF Absent

-----------------------------------------------------------------------------
(* The inductive invariant *)

\* Nothing is kept for a worker that does not run.
Quiet(p) ==
  /\ step[p] = "idle"
  /\ ~counted[p]
  /\ span[p] = 0
  /\ connections[p] = 0
  /\ health[p] = "unknown"
  /\ transitions[p] = <<>>

\* What a worker holds at each step of a request.
Holds(p) ==
  /\ step[p] \in {"idle", "observe"} => ~counted[p] /\ span[p] = 0
  /\ step[p] \in {"limit", "handle", "execute", "respond", "teardown"}
        => counted[p] /\ span[p] = 1
  /\ step[p] = "execute" <=> connections[p] = 1
  /\ step[p] # "idle" => kind[p] \in Kinds

\* The files of a worker are open; there is none for an id that is unused.
Open(p) == /\ inflightFile[p] = IF counted[p] THEN 1 ELSE 0
           /\ databaseFile[p] # Absent
           /\ requestsFile[p] # Absent

Unopened(p) == /\ inflightFile[p] = Absent
             /\ databaseFile[p] = Absent
             /\ requestsFile[p] = Absent

Workplace ==
  /\ \A p \in Pid \ alive : Quiet(p)
  /\ \A p \in Pid : Holds(p)
  /\ \A p \in alive : Open(p)
  /\ \A p \in Pid \ used : Unopened(p)

IInv == TypeOK /\ Workplace

LEMMA ApiInit == Init => IInv
<1> SUFFICES ASSUME Init
             PROVE  IInv
  OBVIOUS
<1>1. Cardinality(alive) <= Workers
  BY FS_EmptySet DEF Init
<1>2. TypeOK
  BY <1>1 DEF Init, TypeOK, WorkersOK, RequestsOK, MemoryOK, FilesOK,
     BoundsOK
<1>3. Workplace
  BY DEF Init, Workplace, Quiet, Holds, Open, Unopened
<1> QED
  BY <1>2, <1>3 DEF IInv

-----------------------------------------------------------------------------
(* Steps of a request *)

\* The limiter's memory of address c, when it lets a request in.
LEMMA AdmitTypes ==
  ASSUME TypeOK, NEW p \in Pid, NEW c \in Client, Admit(p, c)
  PROVE  /\ hits' \in [Client -> [Pid -> 0 .. LimitPerWindow]]
         /\ windowEnd' \in [Client -> [Pid -> 0 .. MaxClock + Window]]
         /\ admitted' \in [Client -> [0 .. MaxClock -> Nat]]
<1>0. /\ clock \in 0 .. MaxClock
      /\ clock + Window \in 0 .. MaxClock + Window
      /\ hits[c] \in [Pid -> 0 .. LimitPerWindow]
      /\ windowEnd[c] \in [Pid -> 0 .. MaxClock + Window]
      /\ admitted[c] \in [0 .. MaxClock -> Nat]
  BY DEF TypeOK, MemoryOK, BoundsOK
<1>1. hits' \in [Client -> [Pid -> 0 .. LimitPerWindow]]
  <2> DEFINE n == IF Fresh(p, c) THEN 1 ELSE hits[c][p] + 1
  <2>1. n \in 0 .. LimitPerWindow
    <3>1. CASE Fresh(p, c)
      BY <3>1
    <3>2. CASE ~Fresh(p, c)
      <4>1. hits[c][p] < LimitPerWindow /\ hits[c][p] \in 0 .. LimitPerWindow
        BY <1>0, <3>2 DEF Admit
      <4> QED
        BY <3>2, <4>1
    <3> QED
      BY <3>1, <3>2
  <2>2. hits' = [hits EXCEPT ![c] = [hits[c] EXCEPT ![p] = n]]
    BY Zenon DEF Admit, CountHit, Put
  <2>3. [hits[c] EXCEPT ![p] = n] \in [Pid -> 0 .. LimitPerWindow]
    BY <1>0, <2>1
  <2> QED
    BY <2>2, <2>3 DEF TypeOK, MemoryOK
<1>2. windowEnd' \in [Client -> [Pid -> 0 .. MaxClock + Window]]
  <2>1. CASE Fresh(p, c)
    <3>1. windowEnd' = [windowEnd EXCEPT ![c] =
                          [windowEnd[c] EXCEPT ![p] = clock + Window]]
      BY <2>1, Zenon DEF Admit, CountHit, Put
    <3>2. [windowEnd[c] EXCEPT ![p] = clock + Window]
             \in [Pid -> 0 .. MaxClock + Window]
      BY <1>0
    <3> QED
      BY <3>1, <3>2 DEF TypeOK, MemoryOK
  <2>2. CASE ~Fresh(p, c)
    BY <2>2 DEF Admit, CountHit, TypeOK, MemoryOK
  <2> QED
    BY <2>1, <2>2
<1>3. admitted' \in [Client -> [0 .. MaxClock -> Nat]]
  <2>1. admitted' = [admitted EXCEPT ![c] =
                       [admitted[c] EXCEPT ![clock] = admitted[c][clock] + 1]]
    BY Zenon DEF Admit, Put
  <2>2. [admitted[c] EXCEPT ![clock] = admitted[c][clock] + 1]
           \in [0 .. MaxClock -> Nat]
    BY <1>0
  <2> QED
    BY <2>1, <2>2 DEF TypeOK, MemoryOK
<1> QED
  BY <1>1, <1>2, <1>3

LEMMA RequestTypes ==
  ASSUME TypeOK, Workplace, NEW p \in Pid, Request(p)
  PROVE  TypeOK'
<1> USE DEF At, Goto, Put, TypeOK, workerVars, requestVars, limitVars,
            fileVars, healthVars, boundVars
<1>0. Holds(p) /\ (p \in alive => Open(p)) /\ p \in alive
  BY DEF Workplace, Request, Arrive, Admit, Limited, StartObservation, Handle,
     OpenDatabase, Execute, CheckDatabase, LogRequest, FinishObservation
<1>1. CASE \E k \in Kinds : Arrive(p, k)
  <2>1. WorkersOK'
    BY <1>0, <1>1 DEF Arrive, WorkersOK, Holds, Open
  <2>2. RequestsOK'
    BY <1>0, <1>1 DEF Arrive, RequestsOK, Holds, Open
  <2>3. MemoryOK'
    BY <1>0, <1>1 DEF Arrive, MemoryOK, Holds, Open
  <2>4. FilesOK'
    BY <1>0, <1>1 DEF Arrive, FilesOK, Holds, Open
  <2>5. BoundsOK'
    BY <1>0, <1>1 DEF Arrive, BoundsOK, Holds, Open
  <2> QED
    BY <2>1, <2>2, <2>3, <2>4, <2>5
<1>2. CASE \E c \in Client : Admit(p, c)
  <2>0. PICK c \in Client : Admit(p, c)
    BY <1>2
  <2>1. WorkersOK'
    BY <1>0, <2>0 DEF Admit, WorkersOK
  <2>2. RequestsOK'
    BY <1>0, <2>0 DEF Admit, RequestsOK
  <2>3. MemoryOK'
    BY <2>0, AdmitTypes DEF Admit, MemoryOK
  <2>4. FilesOK'
    BY <1>0, <2>0 DEF Admit, FilesOK
  <2>5. BoundsOK'
    BY <1>0, <2>0 DEF Admit, BoundsOK
  <2> QED
    BY <2>1, <2>2, <2>3, <2>4, <2>5
<1>3. CASE \E c \in Client : Limited(p, c)
  <2>1. WorkersOK'
    BY <1>0, <1>3 DEF Limited, WorkersOK
  <2>2. RequestsOK'
    BY <1>0, <1>3 DEF Limited, RequestsOK
  <2>3. MemoryOK'
    BY <1>0, <1>3 DEF Limited, MemoryOK
  <2>4. FilesOK'
    BY <1>0, <1>3 DEF Limited, FilesOK
  <2>5. BoundsOK'
    BY <1>0, <1>3 DEF Limited, BoundsOK
  <2> QED
    BY <2>1, <2>2, <2>3, <2>4, <2>5
<1>4. CASE StartObservation(p)
  <2>1. WorkersOK'
    BY <1>0, <1>4 DEF StartObservation, WorkersOK, Holds, Open
  <2>2. RequestsOK'
    BY <1>0, <1>4 DEF StartObservation, RequestsOK, Holds, Open
  <2>3. MemoryOK'
    BY <1>0, <1>4 DEF StartObservation, MemoryOK, Holds, Open
  <2>4. FilesOK'
    BY <1>0, <1>4 DEF StartObservation, FilesOK, Holds, Open
  <2>5. BoundsOK'
    BY <1>0, <1>4 DEF StartObservation, BoundsOK, Holds, Open
  <2> QED
    BY <2>1, <2>2, <2>3, <2>4, <2>5
<1>5. CASE Handle(p)
  <2>1. WorkersOK'
    BY <1>0, <1>5 DEF Handle, EarlyStatus, WorkersOK, Holds, Open
  <2>2. RequestsOK'
    BY <1>0, <1>5 DEF Handle, EarlyStatus, RequestsOK, Holds, Open
  <2>3. MemoryOK'
    BY <1>0, <1>5 DEF Handle, EarlyStatus, MemoryOK, Holds, Open
  <2>4. FilesOK'
    BY <1>0, <1>5 DEF Handle, EarlyStatus, FilesOK, Holds, Open
  <2>5. BoundsOK'
    BY <1>0, <1>5 DEF Handle, EarlyStatus, BoundsOK, Holds, Open
  <2> QED
    BY <2>1, <2>2, <2>3, <2>4, <2>5
<1>6. CASE OpenDatabase(p)
  <2>1. WorkersOK'
    BY <1>0, <1>6 DEF OpenDatabase, WorkersOK, Holds, Open
  <2>2. RequestsOK'
    BY <1>0, <1>6 DEF OpenDatabase, RequestsOK, Holds, Open
  <2>3. MemoryOK'
    BY <1>0, <1>6 DEF OpenDatabase, MemoryOK, Holds, Open
  <2>4. FilesOK'
    BY <1>0, <1>6 DEF OpenDatabase, FilesOK, Holds, Open
  <2>5. BoundsOK'
    BY <1>0, <1>6 DEF OpenDatabase, BoundsOK, Holds, Open
  <2> QED
    BY <2>1, <2>2, <2>3, <2>4, <2>5
<1>7. CASE Execute(p)
  <2>1. WorkersOK'
    BY <1>0, <1>7 DEF Execute, CloseDatabase, WorkersOK, Holds, Open
  <2>2. RequestsOK'
    BY <1>0, <1>7 DEF Execute, CloseDatabase, RequestsOK, Holds, Open
  <2>3. MemoryOK'
    BY <1>0, <1>7 DEF Execute, CloseDatabase, MemoryOK, Holds, Open
  <2>4. FilesOK'
    BY <1>0, <1>7 DEF Execute, CloseDatabase, FilesOK, Holds, Open
  <2>5. BoundsOK'
    BY <1>0, <1>7 DEF Execute, CloseDatabase, BoundsOK, Holds, Open
  <2> QED
    BY <2>1, <2>2, <2>3, <2>4, <2>5
<1>8. CASE CheckDatabase(p)
  <2>1. WorkersOK'
    BY <1>0, <1>8 DEF CheckDatabase, WasDown, WorkersOK, Holds, Open
  <2>2. RequestsOK'
    BY <1>0, <1>8 DEF CheckDatabase, WasDown, RequestsOK, Holds, Open
  <2>3. MemoryOK'
    <3>1. \A x \in {"failed", "recovered"} :
             Append(transitions[p], x) \in Seq({"failed", "recovered"})
      BY DEF MemoryOK
    <3>2. transitions' \in [Pid -> Seq({"failed", "recovered"})]
      BY <1>8, <3>1 DEF CheckDatabase, WasDown, MemoryOK
    <3> QED
      BY <1>8, <3>2 DEF CheckDatabase, MemoryOK
  <2>4. FilesOK'
    BY <1>0, <1>8 DEF CheckDatabase, WasDown, FilesOK, Holds, Open
  <2>5. BoundsOK'
    BY <1>0, <1>8 DEF CheckDatabase, WasDown, BoundsOK, Holds, Open
  <2> QED
    BY <2>1, <2>2, <2>3, <2>4, <2>5
<1>9. CASE LogRequest(p)
  <2>1. WorkersOK'
    BY <1>0, <1>9 DEF LogRequest, WorkersOK, Holds, Open
  <2>2. RequestsOK'
    BY <1>0, <1>9 DEF LogRequest, RequestsOK, Holds, Open
  <2>3. MemoryOK'
    BY <1>0, <1>9 DEF LogRequest, MemoryOK, Holds, Open
  <2>4. FilesOK'
    BY <1>0, <1>9 DEF LogRequest, FilesOK, Holds, Open
  <2>5. BoundsOK'
    BY <1>0, <1>9 DEF LogRequest, BoundsOK, Holds, Open
  <2> QED
    BY <2>1, <2>2, <2>3, <2>4, <2>5
<1>10. CASE FinishObservation(p)
  <2>1. WorkersOK'
    BY <1>0, <1>10 DEF FinishObservation, Release, WorkersOK, Holds, Open
  <2>2. RequestsOK'
    BY <1>0, <1>10 DEF FinishObservation, Release, RequestsOK, Holds, Open
  <2>3. MemoryOK'
    BY <1>0, <1>10 DEF FinishObservation, Release, MemoryOK, Holds, Open
  <2>4. FilesOK'
    BY <1>0, <1>10 DEF FinishObservation, Release, FilesOK, Holds, Open
  <2>5. BoundsOK'
    BY <1>0, <1>10 DEF FinishObservation, Release, BoundsOK, Holds, Open
  <2> QED
    BY <2>1, <2>2, <2>3, <2>4, <2>5
<1> QED
  BY <1>1, <1>2, <1>3, <1>4, <1>5, <1>6, <1>7, <1>8, <1>9, <1>10 DEF Request

\* What the state holds for process id p.
Row(p) == << <<step[p], counted[p], span[p], connections[p]>>,
             <<kind[p], status[p], health[p], transitions[p]>>,
             <<inflightFile[p], databaseFile[p], requestsFile[p]>> >>

\* A step of a request touches nothing of another worker.
LEMMA RequestIsLocal ==
  ASSUME TypeOK, NEW p \in Pid, Request(p), NEW q \in Pid, q # p
  PROVE  Row(q)' = Row(q)
<1> USE DEF At, Goto, Put, workerVars, requestVars, limitVars,
            fileVars, healthVars, boundVars
<1>1. CASE \E k \in Kinds : Arrive(p, k)
  BY <1>1 DEF Arrive, TypeOK, RequestsOK,
     MemoryOK, FilesOK, Row
<1>2. CASE \E c \in Client : Admit(p, c)
  BY <1>2 DEF Admit, TypeOK, RequestsOK,
     MemoryOK, FilesOK, Row
<1>3. CASE \E c \in Client : Limited(p, c)
  BY <1>3 DEF Limited, TypeOK, RequestsOK,
     MemoryOK, FilesOK, Row
<1>4. CASE StartObservation(p)
  BY <1>4 DEF StartObservation, TypeOK, RequestsOK,
     MemoryOK, FilesOK, Row
<1>5. CASE Handle(p)
  BY <1>5 DEF Handle, TypeOK, RequestsOK,
     MemoryOK, FilesOK, Row
<1>6. CASE OpenDatabase(p)
  BY <1>6 DEF OpenDatabase, TypeOK, RequestsOK,
     MemoryOK, FilesOK, Row
<1>7. CASE Execute(p)
  BY <1>7 DEF Execute, CloseDatabase, TypeOK, RequestsOK,
     MemoryOK, FilesOK, Row
<1>8. CASE CheckDatabase(p)
  BY <1>8 DEF CheckDatabase, WasDown, TypeOK, RequestsOK,
     MemoryOK, FilesOK, Row
<1>9. CASE LogRequest(p)
  BY <1>9 DEF LogRequest, TypeOK, RequestsOK,
     MemoryOK, FilesOK, Row
<1>10. CASE FinishObservation(p)
  BY <1>10 DEF FinishObservation, Release, TypeOK, RequestsOK,
     MemoryOK, FilesOK, Row
<1> QED
  BY <1>1, <1>2, <1>3, <1>4, <1>5, <1>6, <1>7, <1>8, <1>9, <1>10 DEF Request

\* What a step of a request makes of its own worker.
LEMMA RequestHolds ==
  ASSUME TypeOK, Workplace, NEW p \in Pid, Request(p)
  PROVE  /\ p \in alive
         /\ UNCHANGED <<alive, used>>
         /\ Holds(p)' /\ Open(p)'
<1> USE DEF At, Goto, Put, TypeOK, workerVars, requestVars, limitVars,
            fileVars, healthVars, boundVars
<1>0. p \in alive /\ UNCHANGED <<alive, used>>
  BY DEF Request, Arrive, Admit, Limited, StartObservation, Handle,
     OpenDatabase, Execute, CheckDatabase, LogRequest, FinishObservation
<1>a. Holds(p) /\ Open(p)
  BY <1>0 DEF Workplace
<1>1. CASE \E k \in Kinds : Arrive(p, k)
  BY <1>a, <1>1 DEF Arrive, RequestsOK,
     FilesOK, Holds, Open
<1>2. CASE \E c \in Client : Admit(p, c)
  BY <1>a, <1>2 DEF Admit, RequestsOK,
     FilesOK, Holds, Open
<1>3. CASE \E c \in Client : Limited(p, c)
  BY <1>a, <1>3 DEF Limited, RequestsOK,
     FilesOK, Holds, Open
<1>4. CASE StartObservation(p)
  BY <1>a, <1>4 DEF StartObservation, RequestsOK,
     FilesOK, Holds, Open
<1>5. CASE Handle(p)
  BY <1>a, <1>5 DEF Handle, RequestsOK,
     FilesOK, Holds, Open
<1>6. CASE OpenDatabase(p)
  BY <1>a, <1>6 DEF OpenDatabase, RequestsOK,
     FilesOK, Holds, Open
<1>7. CASE Execute(p)
  BY <1>a, <1>7 DEF Execute, CloseDatabase, RequestsOK,
     FilesOK, Holds, Open
<1>8. CASE CheckDatabase(p)
  BY <1>a, <1>8 DEF CheckDatabase, RequestsOK,
     FilesOK, Holds, Open
<1>9. CASE LogRequest(p)
  BY <1>a, <1>9 DEF LogRequest, RequestsOK,
     FilesOK, Holds, Open
<1>10. CASE FinishObservation(p)
  BY <1>a, <1>10 DEF FinishObservation, Release, RequestsOK,
     FilesOK, Holds, Open
<1> QED
  BY <1>0, <1>1, <1>2, <1>3, <1>4, <1>5, <1>6, <1>7, <1>8, <1>9, <1>10 DEF Request

LEMMA RequestPlaces ==
  ASSUME TypeOK, Workplace, NEW p \in Pid, Request(p)
  PROVE  Workplace'
<1>1. /\ p \in alive
      /\ UNCHANGED <<alive, used>>
      /\ Holds(p)' /\ Open(p)'
  BY RequestHolds
<1>2. \A q \in Pid \ {p} : /\ Quiet(q) => Quiet(q)'
                           /\ Holds(q) => Holds(q)'
                           /\ Open(q) => Open(q)'
                           /\ Unopened(q) => Unopened(q)'
  <2> SUFFICES ASSUME NEW q \in Pid, q # p
               PROVE  /\ Quiet(q) => Quiet(q)'
                      /\ Holds(q) => Holds(q)'
                      /\ Open(q) => Open(q)'
                      /\ Unopened(q) => Unopened(q)'
    OBVIOUS
  <2>1. Row(q)' = Row(q)
    BY RequestIsLocal
  <2> QED
    BY <2>1 DEF Row, Quiet, Holds, Open, Unopened
<1>3. alive \subseteq used /\ used \subseteq Pid
  BY DEF TypeOK, WorkersOK
<1> QED
  BY <1>1, <1>2, <1>3 DEF Workplace

-----------------------------------------------------------------------------
(* gunicorn, PostgreSQL and the clock *)

\* A process that goes leaves nothing behind in memory.
LEMMA ForgetFacts ==
  ASSUME TypeOK, NEW S \in SUBSET Pid, Forget(S), UNCHANGED admitted
  PROVE  /\ RequestsOK' /\ MemoryOK'
         /\ \A q \in S : Quiet(q)' /\ Holds(q)'
         /\ \A q \in Pid \ S : /\ Quiet(q) => Quiet(q)'
                               /\ Holds(q) => Holds(q)'
                               /\ counted'[q] = counted[q]
<1> USE DEF TypeOK
<1>1. RequestsOK'
  <2>1. /\ step' \in [Pid -> {"idle", "limit", "observe", "handle", "execute",
                             "respond", "teardown"}]
        /\ kind' \in [Pid -> Kinds \cup {"none"}]
    BY DEF Forget, RequestsOK
  <2>2. status' \in [Pid -> {0, 200, 400, 401, 403, 404, 429, 500, 503}]
    BY DEF Forget, RequestsOK
  <2>3. span' \in [Pid -> {0, 1}] /\ connections' \in [Pid -> {0, 1}]
    BY DEF Forget, RequestsOK
  <2>4. counted' \in [Pid -> BOOLEAN]
    <3>1. counted' = [q \in Pid |-> IF q \in S THEN FALSE ELSE counted[q]]
      BY DEF Forget
    <3>2. \A q \in Pid : (IF q \in S THEN FALSE ELSE counted[q]) \in BOOLEAN
      BY DEF RequestsOK
    <3> QED
      BY <3>1, <3>2
  <2> QED
    BY <2>1, <2>2, <2>3, <2>4 DEF RequestsOK
<1>2. MemoryOK'
  <2>1. <<>> \in Seq({"failed", "recovered"})
    OBVIOUS
  <2>2. /\ health' \in [Pid -> {"unknown", "up", "down"}]
        /\ transitions' \in [Pid -> Seq({"failed", "recovered"})]
    BY <2>1 DEF Forget, MemoryOK
  <2>3. /\ hits' \in [Client -> [Pid -> 0 .. LimitPerWindow]]
        /\ windowEnd' \in [Client -> [Pid -> 0 .. MaxClock + Window]]
    BY DEF Forget, MemoryOK
  <2> QED
    BY <2>2, <2>3 DEF MemoryOK
<1>3. \A q \in S : Quiet(q)' /\ Holds(q)'
  BY DEF Forget, Quiet, Holds
<1>4. \A q \in Pid \ S : /\ Quiet(q) => Quiet(q)'
                         /\ Holds(q) => Holds(q)'
                         /\ counted'[q] = counted[q]
  BY DEF Forget, Quiet, Holds
<1> QED
  BY <1>1, <1>2, <1>3, <1>4

LEMMA SpawnStep ==
  ASSUME IInv, NEW p \in Pid, Spawn(p)
  PROVE  IInv'
<1> USE DEF IInv, TypeOK
<1>1. WorkersOK'
  <2>1. IsFiniteSet(alive) /\ IsFiniteSet(dead)
    BY FS_Subset DEF WorkersOK
  <2>2. Cardinality(alive) \in Nat /\ Cardinality(dead) \in Nat
    BY <2>1, FS_CardinalityType
  <2>3. p \notin alive /\ alive' = alive \cup {p}
    BY DEF Spawn, WorkersOK
  <2>4. Cardinality(alive') = Cardinality(alive) + 1
    BY <2>1, <2>3, FS_AddElement
  <2>5. Cardinality(alive') <= Workers
    BY <2>2, <2>4 DEF Spawn
  <2> QED
    BY <2>5 DEF Spawn, WorkersOK
<1>2. RequestsOK' /\ MemoryOK' /\ BoundsOK'
  BY DEF Spawn, RequestsOK, MemoryOK, BoundsOK, requestVars, healthVars,
     limitVars, boundVars
<1>3. /\ inflightFile' = [inflightFile EXCEPT ![p] = 0]
      /\ databaseFile' = [databaseFile EXCEPT ![p] = 0]
      /\ requestsFile' = [requestsFile EXCEPT ![p] = 0]
  BY DEF Spawn, Opened, Put, Workplace, Unopened
<1>4. FilesOK'
  BY <1>3 DEF FilesOK
<1>5. Workplace'
  <2>1. \A q \in Pid : /\ Quiet(q)' = Quiet(q)
                       /\ Holds(q)' = Holds(q)
                       /\ counted'[q] = counted[q]
    BY DEF Spawn, Quiet, Holds, requestVars, healthVars, limitVars
  <2>2. Quiet(p)
    BY DEF Spawn, Workplace, WorkersOK
  <2>3. Open(p)'
    BY <1>3, <2>1, <2>2 DEF FilesOK, Open, Quiet
  <2>4. \A q \in Pid \ {p} : Open(q)' = Open(q) /\ Unopened(q)' = Unopened(q)
    BY <1>3, <2>1 DEF FilesOK, Open, Unopened
  <2> QED
    BY <2>1, <2>3, <2>4 DEF Spawn, Workplace, WorkersOK
<1> QED
  BY <1>1, <1>2, <1>4, <1>5

LEMMA KillStep ==
  ASSUME IInv, NEW p \in Pid, Kill(p)
  PROVE  IInv'
<1> USE DEF IInv, TypeOK
<1>1. WorkersOK'
  <2>1. IsFiniteSet(alive)
    BY FS_Subset DEF WorkersOK
  <2>2. /\ Cardinality(alive') = Cardinality(alive) - 1
        /\ Cardinality(alive) \in Nat
    BY <2>1, FS_RemoveElement, FS_CardinalityType DEF Kill
  <2>3. Cardinality(alive') <= Workers
    BY <2>2 DEF WorkersOK
  <2> QED
    BY <2>3 DEF Kill, WorkersOK
<1>2. /\ RequestsOK' /\ MemoryOK'
      /\ Quiet(p)' /\ Holds(p)'
      /\ \A q \in Pid \ {p} : /\ Quiet(q) => Quiet(q)'
                              /\ Holds(q) => Holds(q)'
                              /\ counted'[q] = counted[q]
  BY ForgetFacts DEF Kill
<1>3. FilesOK' /\ BoundsOK'
  BY DEF Kill, Fault, FilesOK, BoundsOK, fileVars
<1>4. Workplace'
  <2>1. \A q \in Pid \ {p} : Open(q) => Open(q)'
    BY <1>2 DEF Kill, fileVars, Open
  <2>2. \A q \in Pid : Unopened(q)' = Unopened(q)
    BY DEF Kill, fileVars, Unopened
  <2> QED
    BY <1>2, <2>1, <2>2 DEF Kill, Workplace, WorkersOK
<1> QED
  BY <1>1, <1>2, <1>3, <1>4

LEMMA ChildExitStep ==
  ASSUME IInv, NEW p \in Pid, ChildExit(p)
  PROVE  IInv'
<1> USE DEF IInv, TypeOK
<1>1. WorkersOK' /\ RequestsOK' /\ MemoryOK' /\ BoundsOK'
  BY DEF ChildExit, WorkersOK, RequestsOK, MemoryOK, BoundsOK, requestVars,
     healthVars, limitVars, boundVars
<1>2. FilesOK'
  BY DEF ChildExit, MarkProcessDead, Put, FilesOK
<1>3. Workplace'
  <2>1. \A q \in Pid : Quiet(q)' = Quiet(q) /\ Holds(q)' = Holds(q)
    BY DEF ChildExit, Quiet, Holds, requestVars, healthVars, limitVars
  <2>2. p \notin alive /\ p \in used
    BY DEF ChildExit, WorkersOK
  <2>3. \A q \in Pid \ {p} : Open(q)' = Open(q) /\ Unopened(q)' = Unopened(q)
    BY DEF ChildExit, MarkProcessDead, Put, requestVars, FilesOK, Open, Unopened
  <2> QED
    BY <2>1, <2>2, <2>3 DEF ChildExit, Workplace, WorkersOK
<1> QED
  BY <1>1, <1>2, <1>3

LEMMA BootStep ==
  ASSUME IInv, Boot
  PROVE  IInv'
<1> USE DEF IInv, TypeOK
<1>1. WorkersOK'
  BY FS_EmptySet DEF Boot, WorkersOK
<1>2. RequestsOK' /\ \A q \in Pid : Quiet(q)' /\ Holds(q)'
  BY DEF Boot, Forget, RequestsOK, Quiet, Holds
<1>3. MemoryOK'
  <2>1. \A q \in Pid : Quiet(q)'
    BY <1>2
  <2>2. <<>> \in Seq({"failed", "recovered"})
    OBVIOUS
  <2>3. /\ health' = [q \in Pid |-> "unknown"]
        /\ transitions' = [q \in Pid |-> <<>>]
        /\ hits' = [c \in Client |-> [q \in Pid |-> 0]]
        /\ windowEnd' = [c \in Client |-> [q \in Pid |-> 0]]
    BY DEF Boot, Forget
  <2>4. admitted' \in [Client -> [0 .. MaxClock -> Nat]]
    BY DEF Boot, MemoryOK
  <2> QED
    BY <2>2, <2>3, <2>4 DEF MemoryOK
<1>4. FilesOK' /\ BoundsOK' /\ \A q \in Pid : Unopened(q)'
  BY DEF Boot, Fault, RemoveFiles, FilesOK, BoundsOK, Unopened
<1>5. Workplace'
  BY <1>2, <1>4 DEF Boot, Workplace
<1> QED
  BY <1>1, <1>2, <1>3, <1>4, <1>5

\* What goes on outside of the processes.
LEMMA OutsideStep ==
  ASSUME IInv, DatabaseGoes \/ DatabaseReturns \/ Tick \/ UNCHANGED vars
  PROVE  IInv'
<1> USE DEF IInv, TypeOK
<1>1. UNCHANGED <<workerVars, requestVars, healthVars, limitVars, fileVars>>
  BY DEF DatabaseGoes, DatabaseReturns, Tick, vars
<1>2. WorkersOK' /\ RequestsOK' /\ MemoryOK' /\ FilesOK'
  BY <1>1 DEF WorkersOK, RequestsOK, MemoryOK, FilesOK, workerVars,
     requestVars, healthVars, limitVars, fileVars
<1>3. BoundsOK'
  <2>1. CASE DatabaseGoes
    <3>1. dbUp' \in BOOLEAN /\ answered' \in Nat
      BY <2>1 DEF DatabaseGoes, BoundsOK
    <3>2. /\ clock' \in 0 .. MaxClock
          /\ arrived' \in 0 .. MaxRequests
          /\ faults' \in 0 .. MaxFaults
      BY <2>1 DEF DatabaseGoes, Fault, BoundsOK
    <3> QED
      BY <3>1, <3>2 DEF BoundsOK
  <2>2. CASE DatabaseReturns
    BY <2>2 DEF DatabaseReturns, boundVars, BoundsOK
  <2>3. CASE Tick
    BY <2>3 DEF Tick, BoundsOK
  <2>4. CASE UNCHANGED vars
    BY <2>4 DEF vars, boundVars, BoundsOK
  <2> QED
    BY <2>1, <2>2, <2>3, <2>4
<1>4. Workplace'
  BY <1>1 DEF Workplace, Quiet, Holds, Open, Unopened, workerVars,
     requestVars, healthVars, limitVars, fileVars
<1> QED
  BY <1>2, <1>3, <1>4

LEMMA ApiStep ==
  ASSUME IInv, [Next]_vars
  PROVE  IInv'
<1>1. ASSUME NEW p \in Pid, Request(p)
      PROVE  IInv'
  BY <1>1, RequestTypes, RequestPlaces DEF IInv
<1> QED
  BY <1>1, SpawnStep, KillStep, ChildExitStep, BootStep, OutsideStep DEF Next

-----------------------------------------------------------------------------
(* The theorems *)

LEMMA ApiAlways == Spec => []IInv
BY ApiInit, ApiStep, PTL DEF Spec

\* Every variable keeps its type, and no more workers run than gunicorn is
\* told to keep, whatever is killed and however often the container boots.
THEOREM ApiTypeCorrect == Spec => []TypeOK
<1>1. IInv => TypeOK
  BY DEF IInv
<1> QED
  BY <1>1, ApiAlways, PTL

(***************************************************************************)
(* Whatever a request meets on its way, the limiter's refusal and the      *)
(* error handlers included, its worker ends it without an open span or     *)
(* connection and without a count in flight.                               *)
(***************************************************************************)
THEOREM NothingStaysOpen == Spec => []IdleIsClean
<1>1. IInv => IdleIsClean
  <2> SUFFICES ASSUME IInv, NEW p \in alive, step[p] = "idle"
               PROVE  span[p] = 0 /\ connections[p] = 0 /\ ~counted[p]
    BY DEF IdleIsClean
  <2>1. p \in Pid
    BY DEF IInv, TypeOK, WorkersOK
  <2>2. Holds(p) /\ connections[p] \in {0, 1}
    BY <2>1 DEF IInv, Workplace, TypeOK, RequestsOK
  <2> QED
    BY <2>2 DEF Holds
<1> QED
  BY <1>1, ApiAlways, PTL

\* A log that alternates, beginning with a failure, and says what health is.
Tells(log, h) ==
  /\ \A i \in 1 .. Len(log) :
       log[i] = IF i % 2 = 1 THEN "failed" ELSE "recovered"
  /\ h = "down" <=> Len(log) % 2 = 1

LEMMA NextLine ==
  ASSUME NEW log \in Seq({"failed", "recovered"}), NEW h, Tells(log, h)
  PROVE  /\ h = "down" => Tells(Append(log, "recovered"), "up")
         /\ h # "down" => Tells(Append(log, "failed"), "down")
<1> DEFINE n == Len(log)
<1>1. /\ n \in Nat
      /\ n % 2 \in {0, 1}
      /\ (n + 1) % 2 = 1 - (n % 2)
  OBVIOUS
<1>2. ASSUME NEW x \in {"failed", "recovered"}
      PROVE  /\ Len(Append(log, x)) = n + 1
             /\ \A i \in 1 .. n : Append(log, x)[i] = log[i]
             /\ Append(log, x)[n + 1] = x
  OBVIOUS
<1> HIDE DEF n
<1>3. \A i \in 1 .. n + 1 : i \in 1 .. n \/ i = n + 1
  BY <1>1
<1>4. \A i \in 1 .. n : log[i] = IF i % 2 = 1 THEN "failed" ELSE "recovered"
  BY DEF Tells, n
<1>5. h = "down" <=> n % 2 = 1
  BY DEF Tells, n
<1>6. ASSUME h = "down"
      PROVE  Tells(Append(log, "recovered"), "up")
  BY <1>1, <1>2, <1>3, <1>4, <1>5, <1>6 DEF Tells
<1>7. ASSUME h # "down"
      PROVE  Tells(Append(log, "failed"), "down")
  BY <1>1, <1>2, <1>3, <1>4, <1>5, <1>7 DEF Tells
<1> QED
  BY <1>6, <1>7

LogInv == \A p \in Pid : Tells(transitions[p], health[p])

LEMMA LogStep ==
  ASSUME IInv, LogInv, [Next]_vars
  PROVE  LogInv'
<1>1. Tells(<<>>, "unknown")
  BY DEF Tells
<1>2. ASSUME NEW S \in SUBSET Pid, Forget(S)
      PROVE  LogInv'
  BY <1>1, <1>2 DEF Forget, LogInv
<1>3. ASSUME NEW p \in Pid, CheckDatabase(p)
      PROVE  LogInv'
  <2>1. /\ transitions[p] \in Seq({"failed", "recovered"})
        /\ health[p] \in {"unknown", "up", "down"}
        /\ Tells(transitions[p], health[p])
    BY DEF IInv, TypeOK, MemoryOK, LogInv
  <2>2. Tells(transitions'[p], health'[p])
    <3>1. CASE dbUp /\ health[p] # "down"
      <4>1. health'[p] = "up" /\ transitions'[p] = transitions[p]
        BY <1>3, <3>1 DEF CheckDatabase, WasDown, Put, IInv, TypeOK, MemoryOK
      <4> QED
        BY <2>1, <3>1, <4>1 DEF Tells
    <3>2. CASE dbUp /\ health[p] = "down"
      <4>1. /\ health'[p] = "up"
            /\ transitions'[p] = Append(transitions[p], "recovered")
        BY <1>3, <3>2 DEF CheckDatabase, WasDown, Put, IInv, TypeOK, MemoryOK
      <4> QED
        BY <2>1, <3>2, <4>1, NextLine
    <3>3. CASE ~dbUp /\ health[p] = "down"
      <4>1. health'[p] = "down" /\ transitions'[p] = transitions[p]
        BY <1>3, <3>3 DEF CheckDatabase, Put, IInv, TypeOK, MemoryOK
      <4> QED
        BY <2>1, <3>3, <4>1
    <3>4. CASE ~dbUp /\ health[p] # "down"
      <4>1. /\ health'[p] = "down"
            /\ transitions'[p] = Append(transitions[p], "failed")
        BY <1>3, <3>4 DEF CheckDatabase, Put, IInv, TypeOK, MemoryOK
      <4> QED
        BY <2>1, <3>4, <4>1, NextLine
    <3> QED
      BY <3>1, <3>2, <3>3, <3>4
  <2>3. \A q \in Pid \ {p} : /\ transitions'[q] = transitions[q]
                             /\ health'[q] = health[q]
    BY <1>3 DEF CheckDatabase, WasDown, Put, IInv, TypeOK, MemoryOK
  <2> QED
    BY <2>2, <2>3 DEF LogInv
<1>4. ASSUME UNCHANGED healthVars
      PROVE  LogInv'
  BY <1>4 DEF LogInv, healthVars
<1>5. ASSUME NEW p \in Pid, Kill(p)
      PROVE  LogInv'
  BY <1>2, <1>5 DEF Kill
<1>6. CASE Boot
  BY <1>2, <1>6 DEF Boot
<1>7. ASSUME NEW p \in Pid, Request(p), ~CheckDatabase(p)
      PROVE  LogInv'
  BY <1>4, <1>7 DEF Request, Arrive, Admit, Limited, StartObservation, Handle,
     OpenDatabase, Execute, LogRequest, FinishObservation
<1>8. CASE \/ \E p \in Pid : Spawn(p) \/ ChildExit(p)
           \/ DatabaseGoes \/ DatabaseReturns \/ Tick \/ UNCHANGED vars
  BY <1>4, <1>8 DEF Spawn, ChildExit, DatabaseGoes, DatabaseReturns, Tick, vars
<1> QED
  BY <1>3, <1>5, <1>6, <1>7, <1>8 DEF Next

(***************************************************************************)
(* However many probes come, and in whatever outages, a worker logs each   *)
(* change of PostgreSQL's availability that it sees, and only those.       *)
(***************************************************************************)
THEOREM ChangesAreLogged == Spec => []LogTellsHealth
<1>1. Init => LogInv
  BY DEF Init, LogInv, Tells
<1>2. Spec => []LogInv
  BY <1>1, LogStep, ApiAlways, PTL DEF Spec
<1>3. IInv /\ LogInv => LogTellsHealth
  BY DEF IInv, TypeOK, WorkersOK, LogInv, LogTellsHealth, Tells
<1> QED
  BY <1>2, <1>3, ApiAlways, PTL

-----------------------------------------------------------------------------
(* What the metrics show *)

\* A worker that has found PostgreSQL gone has said so in its file.
Told(p) == health[p] = "down" => databaseFile[p] = 0

\* The responses counted in the files there are.
Counted == Total(requestsFile, Files(requestsFile)) = answered

SignalInv ==
  /\ \A p \in Pid : Told(p)
  /\ \A p \in Pid \ (alive \cup dead) : inflightFile[p] = Absent
  /\ Counted

LEMMA FilesAreFinite ==
  ASSUME NEW f
  PROVE  Files(f) \in SUBSET Pid /\ IsFiniteSet(Files(f))
BY FS_Subset DEF Files

LEMMA SumIsTotal ==
  ASSUME NEW f
  PROVE  Sum(f) = Total(f, Files(f))
BY Zenon DEF Sum, Total

LEMMA SignalInit == Init => SignalInv
<1> SUFFICES ASSUME Init
             PROVE  SignalInv
  OBVIOUS
<1>1. Files(requestsFile) = {}
  BY DEF Init, Files
<1>2. Total(requestsFile, {}) = 0
  <2>1. {} \in SUBSET Pid /\ IsFiniteSet({})
    BY FS_EmptySet
  <2>2. requestsFile \in [Pid -> Int]
    BY DEF Init
  <2> QED
    BY <2>1, <2>2, TotalFacts
<1>3. Counted
  BY <1>1, <1>2 DEF Counted, Init
<1> QED
  BY <1>3 DEF SignalInv, Told, Init

\* A response adds one, no other step of a request anything.
LEMMA CountedStep ==
  ASSUME IInv, Counted, NEW p \in Pid, Request(p)
  PROVE  Counted'
<1>1. CASE LogRequest(p)
  <2>1. p \in alive /\ p \in Files(requestsFile)
    BY <1>1 DEF LogRequest, At, IInv, Workplace, Open, Files
  <2>2. requestsFile' = [requestsFile EXCEPT ![p] = @ + 1]
        /\ answered' = answered + 1
    BY <1>1 DEF LogRequest
  <2>3. /\ requestsFile \in [Pid -> {-1} \cup Nat]
        /\ answered \in Nat
    BY DEF IInv, TypeOK, FilesOK, BoundsOK
  <2>4. Files(requestsFile') = Files(requestsFile)
    BY <2>1, <2>2, <2>3 DEF Files
  <2>5. requestsFile \in [Pid -> Int] /\ requestsFile' \in [Pid -> Int]
    BY <2>2, <2>3
  <2>6. /\ requestsFile'[p] - requestsFile[p] = 1
        /\ \A q \in Files(requestsFile) \ {p} :
              requestsFile[q] = requestsFile'[q]
    BY <2>2, <2>3, FilesAreFinite
  <2> DEFINE F == Files(requestsFile)
             new == requestsFile'
  <2>7. F \in SUBSET Pid /\ IsFiniteSet(F)
    BY FilesAreFinite
  <2>8. Total(new, F) = Total(requestsFile, F) + (new[p] - requestsFile[p])
    <3>1. p \in F /\ F \subseteq Pid /\ IsFiniteSet(F)
      BY <2>1, <2>7
    <3>2. requestsFile \in [Pid -> Int] /\ new \in [Pid -> Int]
      BY <2>5
    <3>3. \A q \in F \ {p} : requestsFile[q] = new[q]
      BY <2>6
    <3> HIDE ApiAssumption DEF F, new
    <3> QED
      BY <3>1, <3>2, <3>3, TotalChange
  <2>9. Total(new, F) = Total(requestsFile, F) + 1
    BY <2>6, <2>8
  <2> QED
    BY <2>2, <2>4, <2>9 DEF Counted
<1>2. CASE ~LogRequest(p)
  <2>1. UNCHANGED <<requestsFile, answered>>
    BY <1>2 DEF Request, Arrive, Admit, Limited, StartObservation, Handle,
       OpenDatabase, Execute, CheckDatabase, FinishObservation, fileVars
  <2> QED
    BY <2>1 DEF Counted
<1> QED
  BY <1>1, <1>2

LEMMA ToldStep ==
  ASSUME IInv, SignalInv, NEW p \in Pid, Request(p)
  PROVE  Told(p)'
<1>0. Told(p)
  BY DEF SignalInv
<1>1. CASE CheckDatabase(p)
  BY <1>1 DEF CheckDatabase, Put, Told, IInv, TypeOK, MemoryOK, FilesOK
<1>2. CASE ~CheckDatabase(p)
  <2>1. UNCHANGED <<health, databaseFile>>
    BY <1>2 DEF Request, Arrive, Admit, Limited, StartObservation, Handle,
       OpenDatabase, Execute, LogRequest, FinishObservation, healthVars,
       fileVars
  <2> QED
    BY <1>0, <2>1 DEF Told
<1> QED
  BY <1>1, <1>2

LEMMA SignalStep ==
  ASSUME IInv, SignalInv, [Next]_vars
  PROVE  SignalInv'
<1>1. ASSUME NEW p \in Pid, Request(p)
      PROVE  SignalInv'
  <2>1. Told(p)'
    BY <1>1, ToldStep
  <2>2. \A q \in Pid \ {p} : Row(q)' = Row(q)
    BY <1>1, RequestIsLocal DEF IInv
  <2>3. \A q \in Pid \ {p} : Told(q)'
    BY <2>2 DEF Row, Told, SignalInv
  <2>4. p \in alive /\ alive' = alive
    BY <1>1, RequestHolds DEF IInv
  <2>5. dead' = dead
    BY <1>1 DEF Request, Arrive, Admit, Limited, StartObservation, Handle,
       OpenDatabase, Execute, CheckDatabase, LogRequest, FinishObservation,
       workerVars
  <2>6. \A q \in Pid \ (alive \cup dead) : inflightFile'[q] = Absent
    BY <2>2, <2>4 DEF Row, SignalInv
  <2>7. Counted'
    BY <1>1, CountedStep DEF SignalInv
  <2> QED
    BY <2>1, <2>3, <2>4, <2>5, <2>6, <2>7 DEF SignalInv
<1>2. ASSUME NEW p \in Pid, Spawn(p)
      PROVE  SignalInv'
  <2> USE DEF IInv, TypeOK, FilesOK
  <2>1. Unopened(p) /\ Quiet(p) /\ p \notin alive
    BY <1>2 DEF Spawn, Workplace, WorkersOK
  <2>2. /\ inflightFile' = [inflightFile EXCEPT ![p] = 0]
        /\ databaseFile' = [databaseFile EXCEPT ![p] = 0]
        /\ requestsFile' = [requestsFile EXCEPT ![p] = 0]
        /\ alive' = alive \cup {p} /\ dead' = dead
        /\ UNCHANGED <<requestVars, healthVars, answered>>
    BY <1>2, <2>1 DEF Spawn, Opened, Put, Unopened
  <2>3. \A q \in Pid : Told(q)'
    BY <2>1, <2>2 DEF Told, Quiet, SignalInv, requestVars, healthVars
  <2>4. \A q \in Pid \ (alive' \cup dead') : inflightFile'[q] = Absent
    BY <2>2 DEF SignalInv
  <2>5. Counted'
    <3>1. p \in Pid \ Files(requestsFile)
      BY <2>1 DEF Files, Unopened
    <3>2. Files(requestsFile') = Files(requestsFile) \cup {p}
      BY <2>2 DEF Files
    <3>3. requestsFile \in [Pid -> Int] /\ requestsFile' \in [Pid -> Int]
      BY <2>2
    <3> DEFINE F == Files(requestsFile)
               new == requestsFile'
    <3>4. F \in SUBSET Pid /\ IsFiniteSet(F)
      BY FilesAreFinite
    <3>5. \A q \in F : requestsFile[q] = new[q]
      BY <2>2, <3>1, <3>4
    <3>6. new[p] = 0
      BY <2>2
    <3>7. Total(requestsFile, F) = answered /\ answered \in Nat
      BY DEF SignalInv, Counted, BoundsOK
    <3>8. new \in [Pid -> Int] /\ p \in Pid \ F
      BY <3>1, <3>3
    <3>9. Total(new, F \cup {p}) = answered
      <4> HIDE ApiAssumption DEF F, new
      <4>1. Total(new, F \cup {p}) = Total(new, F) + new[p]
        BY <3>4, <3>8, TotalFacts
      <4>2. F \subseteq Pid
        BY <3>4
      <4>3. Total(requestsFile, F) = Total(new, F)
        BY <3>3, <3>4, <3>5, <3>8, <4>2, TotalSame
      <4> QED
        BY <3>6, <3>7, <4>1, <4>3
    <3> QED
      BY <2>2, <3>2, <3>9 DEF Counted
  <2> QED
    BY <2>3, <2>4, <2>5 DEF SignalInv
<1>3. ASSUME NEW p \in Pid, Kill(p)
      PROVE  SignalInv'
  <2>1. UNCHANGED <<fileVars, answered>>
    BY <1>3 DEF Kill
  <2>2. Counted'
    BY <2>1 DEF Counted, SignalInv, fileVars
  <2>3. \A q \in Pid : Told(q)'
    BY <1>3, <2>1 DEF Kill, Forget, Told, SignalInv, fileVars
  <2>4. alive' \cup dead' = alive \cup dead
    BY <1>3 DEF Kill
  <2>5. inflightFile' = inflightFile
    BY <2>1 DEF fileVars
  <2> QED
    BY <2>2, <2>3, <2>4, <2>5 DEF SignalInv
<1>4. ASSUME NEW p \in Pid, ChildExit(p)
      PROVE  SignalInv'
  <2>1. UNCHANGED <<requestVars, healthVars, databaseFile, requestsFile,
                    answered, alive>>
    BY <1>4 DEF ChildExit, MarkProcessDead
  <2>2. Counted'
    BY <2>1 DEF Counted, SignalInv
  <2>3. \A q \in Pid : Told(q)'
    BY <2>1 DEF Told, SignalInv, requestVars, healthVars
  <2>4. /\ dead' = dead \ {p}
        /\ inflightFile' = [inflightFile EXCEPT ![p] = Absent]
        /\ inflightFile \in [Pid -> {Absent, 0, 1}]
    BY <1>4 DEF ChildExit, MarkProcessDead, Put, IInv, TypeOK, FilesOK
  <2>5. \A q \in Pid \ (alive' \cup dead') : inflightFile'[q] = Absent
    BY <2>1, <2>4 DEF SignalInv
  <2> QED
    BY <2>2, <2>3, <2>5 DEF SignalInv
<1>5. CASE Boot
  <2>1. Files(requestsFile') = {}
    BY <1>5 DEF Boot, RemoveFiles, Files
  <2>2. Total(requestsFile', {}) = 0
    <3>1. {} \in SUBSET Pid /\ IsFiniteSet({})
      BY FS_EmptySet
    <3>2. requestsFile' \in [Pid -> Int]
      BY <1>5 DEF Boot, RemoveFiles
    <3> QED
      BY <3>1, <3>2, TotalFacts
  <2>3. Counted'
    BY <1>5, <2>1, <2>2 DEF Counted, Boot
  <2>4. \A q \in Pid : Told(q)'
    BY <1>5 DEF Boot, Forget, Told
  <2>5. \A q \in Pid : inflightFile'[q] = Absent
    BY <1>5 DEF Boot, RemoveFiles
  <2> QED
    BY <2>3, <2>4, <2>5 DEF SignalInv
<1>6. CASE DatabaseGoes \/ DatabaseReturns \/ Tick \/ UNCHANGED vars
  <2>1. UNCHANGED <<workerVars, requestVars, healthVars, fileVars, answered>>
    BY <1>6 DEF DatabaseGoes, DatabaseReturns, Tick, vars
  <2>2. Counted'
    BY <2>1 DEF Counted, SignalInv, fileVars
  <2> QED
    BY <2>1, <2>2 DEF SignalInv, Told, workerVars, requestVars, healthVars,
       fileVars
<1> QED
  BY <1>1, <1>2, <1>3, <1>4, <1>5, <1>6 DEF Next

-----------------------------------------------------------------------------
\* The requests in hand are those that are counted.
LEMMA InflightIsExact ==
  ASSUME IInv, SignalInv
  PROVE  InflightExact
<1> USE DEF IInv, TypeOK
<1> SUFFICES ASSUME dead = {}
             PROVE  InflightShown = Cardinality({p \in alive : InHand(p)})
  BY DEF InflightExact
<1> DEFINE Ones == Units(inflightFile, Files(inflightFile))
<1>1. inflightFile \in [Pid -> {-1, 0, 1}]
  BY DEF FilesOK
<1>2. Total(inflightFile, Files(inflightFile)) = Cardinality(Ones)
  <2>1. inflightFile \in [Pid -> Int]
    BY <1>1
  <2>2. \A p \in Files(inflightFile) : inflightFile[p] \in {0, 1}
    BY <1>1 DEF Files
  <2> DEFINE F == Files(inflightFile)
  <2>3. F \in SUBSET Pid /\ IsFiniteSet(F)
    BY FilesAreFinite
  <2>4. \A p \in F : inflightFile[p] \in {0, 1}
    BY <2>2
  <2> HIDE DEF F
  <2>5. Total(inflightFile, F) = Cardinality(Units(inflightFile, F))
    BY <2>1, <2>3, <2>4, TotalCount
  <2> QED
    BY <2>5 DEF F
<1>3. \A p \in Pid : inflightFile[p] = 1 <=> p \in alive /\ counted[p]
  BY DEF SignalInv, Workplace, Open
<1>4. \A p \in alive : counted[p] <=> InHand(p)
  <2> SUFFICES ASSUME NEW p \in alive
               PROVE  counted[p] <=> InHand(p)
    OBVIOUS
  <2>1. p \in Pid
    BY DEF WorkersOK
  <2>2. Holds(p) /\ step[p] \in {"idle", "limit", "observe", "handle",
          "execute", "respond", "teardown"}
    BY <2>1 DEF Workplace, RequestsOK
  <2> QED
    BY <2>2 DEF Holds, InHand
<1>5. Ones = {p \in alive : InHand(p)}
  <2>1. \A p : p \in Ones <=> p \in Pid /\ inflightFile[p] = 1
    BY DEF Files, Units
  <2>2. alive \subseteq Pid
    BY DEF WorkersOK
  <2> HIDE DEF Ones
  <2>3. \A p : p \in Ones <=> p \in alive /\ counted[p]
    BY <1>3, <2>1, <2>2
  <2> QED
    BY <1>4, <2>3
<1> QED
  BY <1>2, <1>5, SumIsTotal DEF InflightShown

LEMMA OutageIsHidden ==
  ASSUME IInv, SignalInv
  PROVE  OutageIsHiddenByTheDead
<1> USE DEF IInv, TypeOK
<1> SUFFICES ASSUME alive # {}, \A p \in alive : health[p] = "down",
                    \A p \in Pid : ~HidesOutage(p)
             PROVE  DatabaseShown = 0
  BY DEF OutageIsHiddenByTheDead
<1>1. \A p \in Pid : databaseFile[p] \in {-1, 0}
  BY DEF SignalInv, Told, HidesOutage, FilesOK
<1>2. PICK p \in alive : TRUE
  OBVIOUS
<1>3. p \in Pid /\ databaseFile[p] = 0
  BY <1>2 DEF WorkersOK, SignalInv, Told
<1>4. Files(databaseFile) # {}
      /\ {databaseFile[q] : q \in Files(databaseFile)} = {0}
  <2>1. p \in Files(databaseFile)
    BY <1>3 DEF Files
  <2>2. \A q \in Files(databaseFile) : databaseFile[q] = 0
    BY <1>1 DEF Files
  <2> QED
    BY <1>3, <2>1, <2>2
<1>5. Max({0}) = 0
  BY DEF Max
<1> QED
  BY <1>4, <1>5 DEF DatabaseShown

(***************************************************************************)
(* What an operator sees is what happens: for any number of workers, at    *)
(* whatever step of a request they are killed, and whichever requests the  *)
(* limiter refuses, in-flight gauge, request counter, health log and       *)
(* database gauge say what SignalsAreExact says they do.                   *)
(***************************************************************************)
THEOREM SignalsAreTrue == Spec => []SignalsAreExact
<1>1. Spec => []SignalInv
  BY SignalInit, SignalStep, ApiAlways, PTL DEF Spec
<1>2. IInv /\ SignalInv => /\ InflightExact
                           /\ CountersSurvive
                           /\ OutageIsHiddenByTheDead
  BY InflightIsExact, OutageIsHidden, SumIsTotal
  DEF CountersSurvive, RequestsShown, SignalInv, Counted
<1> QED
  BY <1>1, <1>2, ChangesAreLogged, ApiAlways, PTL DEF SignalsAreExact

-----------------------------------------------------------------------------
(* The limit of create_token() *)

Times == 0 .. MaxClock

Period(s, e) == {u \in Times : u >= s /\ u < e}

(***************************************************************************)
(* What one worker has let in, a[u] at time u, agrees with its memory of   *)
(* the limit at time c: h hits in a window that ends at w.  A window       *)
(* begins with a hit, and before it, in the reach of a period that ends in *)
(* it, is not a full window's worth.                                       *)
(***************************************************************************)
Within(a, h, w, c) ==
  LET begin == w - Window
  IN  /\ \A u \in Times : u > c => a[u] = 0
      /\ \A t \in Times :
            Total(a, Period(t, t + Window)) <= 2 * LimitPerWindow - 1
      /\ h = 0 => w = 0
      /\ h > 0 =>
           /\ begin \in Times
           /\ begin <= c
           /\ a[begin] > 0
           /\ \A u \in Times : u >= w => a[u] = 0
           /\ Total(a, Period(begin, MaxClock + 1)) = h
           /\ \A t \in Times : t > begin - Window =>
                 Total(a, Period(t, begin)) < LimitPerWindow

LEMMA PeriodFacts ==
  ASSUME NEW s \in Int, NEW e \in Int
  PROVE  Period(s, e) \in SUBSET Times /\ IsFiniteSet(Period(s, e))
<1>1. IsFiniteSet(0 .. MaxClock)
  <2>1. 0 \in Int /\ MaxClock \in Int
    OBVIOUS
  <2> QED
    BY <2>1, FS_Interval
<1>2. Period(s, e) \subseteq 0 .. MaxClock
  BY DEF Period, Times
<1> QED
  BY <1>1, <1>2, FS_Subset DEF Times

\* A sum over a part of a period.
LEMMA PeriodSums ==
  ASSUME NEW a \in [Times -> Nat], NEW s \in Int, NEW e \in Int
  PROVE  /\ Total(a, Period(s, e)) \in Nat
         /\ \A T \in SUBSET Period(s, e) :
               Total(a, T) \in Nat /\ Total(a, T) <= Total(a, Period(s, e))
         /\ \A x \in Period(s, e) :
               Total(a, Period(s, e)) = Total(a, Period(s, e) \ {x}) + a[x]
         /\ (\A x \in Period(s, e) : a[x] = 0) => Total(a, Period(s, e)) = 0
<1> DEFINE P == Period(s, e)
<1>1. P \in SUBSET Times /\ IsFiniteSet(P)
  BY PeriodFacts
<1>2. a \in [Times -> Int]
  OBVIOUS
<1> HIDE ApiAssumption DEF P, Times
<1>3. Total(a, P) \in Nat /\ \A T \in SUBSET P : Total(a, T) <= Total(a, P)
  BY <1>1, TotalMore
<1>4. ASSUME NEW T \in SUBSET P
      PROVE  Total(a, T) \in Nat
  <2>1. T \in SUBSET Times /\ IsFiniteSet(T)
    BY <1>1, FS_Subset
  <2> QED
    BY <2>1, TotalMore
<1>5. \A x \in P : Total(a, P) = Total(a, P \ {x}) + a[x]
  BY <1>1, <1>2, TotalWithout
<1>6. (\A x \in P : a[x] = 0) => Total(a, P) = 0
  BY <1>1, <1>2, TotalZero
<1> QED
  BY <1>3, <1>4, <1>5, <1>6 DEF P

\* Two periods in a row.
LEMMA PeriodSplit ==
  ASSUME NEW a \in [Times -> Nat], NEW s \in Int, NEW m \in Int, NEW e \in Int,
         s <= m, m <= e
  PROVE  Total(a, Period(s, e)) = Total(a, Period(s, m)) + Total(a, Period(m, e))
<1> DEFINE P == Period(s, m)
           Q == Period(m, e)
<1>1. /\ P \in SUBSET Times /\ IsFiniteSet(P)
      /\ Q \in SUBSET Times /\ IsFiniteSet(Q)
  BY PeriodFacts
<1>2. P \cap Q = {} /\ P \cup Q = Period(s, e)
  BY DEF Period, Times
<1>3. a \in [Times -> Int]
  OBVIOUS
<1> HIDE ApiAssumption DEF P, Q, Times
<1>4. Total(a, P \cup Q) = Total(a, P) + Total(a, Q)
  BY <1>1, <1>2, <1>3, TotalUnion
<1> QED
  BY <1>2, <1>4 DEF P, Q

\* One more at time c.
LEMMA PeriodBump ==
  ASSUME NEW a \in [Times -> Nat], NEW c \in Times,
         NEW b \in [Times -> Nat],
         b[c] = a[c] + 1, \A u \in Times \ {c} : a[u] = b[u],
         NEW R, R \in SUBSET Times, IsFiniteSet(R)
  PROVE  /\ c \in R => Total(b, R) = Total(a, R) + 1
         /\ c \notin R => Total(b, R) = Total(a, R)
<1>1. a \in [Times -> Int] /\ b \in [Times -> Int]
  OBVIOUS
<1> HIDE ApiAssumption DEF Times
<1>2. ASSUME c \in R
      PROVE  Total(b, R) = Total(a, R) + 1
  <2>1. \A u \in R \ {c} : a[u] = b[u]
    OBVIOUS
  <2>2. Total(b, R) = Total(a, R) + (b[c] - a[c])
    BY <1>1, <1>2, <2>1, TotalChange
  <2>3. a[c] \in Int
    BY <1>1
  <2> QED
    BY <2>2, <2>3
<1>3. ASSUME c \notin R
      PROVE  Total(b, R) = Total(a, R)
  <2>1. \A u \in R : a[u] = b[u]
    BY <1>3
  <2>2. R \subseteq Times
    OBVIOUS
  <2> QED
    BY <1>1, <2>1, <2>2, TotalSame
<1> QED
  BY <1>2, <1>3

\* The limiter lets one in.
LEMMA AdmitWithin ==
  ASSUME NEW a \in [Times -> Nat], NEW h \in 0 .. LimitPerWindow,
         NEW w \in Int, NEW c \in Times, Within(a, h, w, c),
         h = 0 => \A u \in Times : a[u] = 0,
         c >= w \/ h < LimitPerWindow
  PROVE  Within([a EXCEPT ![c] = @ + 1], IF c >= w THEN 1 ELSE h + 1,
                IF c >= w THEN c + Window ELSE w, c)
<1> DEFINE b == [a EXCEPT ![c] = @ + 1]
           A(s, e) == Total(a, Period(s, e))
           B(s, e) == Total(b, Period(s, e))
           L == LimitPerWindow
<1>0. L \in Nat /\ L > 0 /\ Window \in Nat /\ Window > 0 /\ MaxClock \in Nat
  OBVIOUS
<1>1. b \in [Times -> Nat] /\ b[c] = a[c] + 1
      /\ \A u \in Times : u # c => b[u] = a[u]
  OBVIOUS
<1>2. \A s, e \in Int : /\ A(s, e) \in Nat
                        /\ c \in Period(s, e) => B(s, e) = A(s, e) + 1
                        /\ c \notin Period(s, e) => B(s, e) = A(s, e)
  <2> SUFFICES ASSUME NEW s \in Int, NEW e \in Int
               PROVE  /\ A(s, e) \in Nat
                      /\ c \in Period(s, e) => B(s, e) = A(s, e) + 1
                      /\ c \notin Period(s, e) => B(s, e) = A(s, e)
    OBVIOUS
  <2>1. Period(s, e) \in SUBSET Times /\ IsFiniteSet(Period(s, e))
    BY PeriodFacts
  <2>2. A(s, e) \in Nat
    BY PeriodSums
  <2>3. /\ c \in Period(s, e) => B(s, e) = A(s, e) + 1
        /\ c \notin Period(s, e) => B(s, e) = A(s, e)
    <3> DEFINE P == Period(s, e)
    <3>1. P \in SUBSET Times /\ IsFiniteSet(P)
      BY <2>1
    <3>2. /\ c \in P => Total(b, P) = Total(a, P) + 1
          /\ c \notin P => Total(b, P) = Total(a, P)
      <4>1. \A u \in Times \ {c} : a[u] = b[u]
        OBVIOUS
      <4> HIDE ApiAssumption DEF P, b, Times
      <4> QED
        BY <1>1, <3>1, <4>1, PeriodBump
    <3> QED
      BY <3>2
  <2> QED
    BY <2>2, <2>3
<1>3. \A s, m, e \in Int : s <= m /\ m <= e => A(s, e) = A(s, m) + A(m, e)
  BY PeriodSplit
<1>4. \A s, e \in Int : (\A u \in Period(s, e) : a[u] = 0) => A(s, e) = 0
  BY PeriodSums
<1>5. \A u \in Times : u > c => a[u] = 0
  BY DEF Within
<1>6. \A t \in Times : A(t, t + Window) <= 2 * L - 1
  BY DEF Within
<1>7. \A s, e \in Int : c \in Period(s, e) <=> s <= c /\ c < e
  BY DEF Period, Times
<1>8. \A t \in Times : t \in Int /\ 0 <= t /\ t < MaxClock + 1
  BY DEF Times
<1>9. ASSUME c >= w
      PROVE  Within(b, 1, c + Window, c)
  <2>1. ASSUME NEW t \in Times, t > c - Window
        PROVE  A(t, c) < L
    <3>1. CASE h = 0
      <4>1. \A u \in Period(t, c) : a[u] = 0
        BY <3>1 DEF Period
      <4> QED
        BY <1>0, <1>4, <1>8, <4>1
    <3>2. CASE h > 0
      <4> DEFINE s == w - Window
                 T == Period(s, MaxClock + 1) \ {s}
      <4>1. s \in Times /\ a[s] > 0 /\ A(s, MaxClock + 1) = h
        BY <3>2 DEF Within
      <4>2. s < t
        BY <1>0, <1>8, <1>9, <2>1
      <4>3. s \in Period(s, MaxClock + 1) /\ Period(t, c) \subseteq T
        BY <1>8, <4>1, <4>2 DEF Period
      <4>4. A(s, MaxClock + 1) = Total(a, T) + a[s]
        <5>1. s \in Int /\ MaxClock + 1 \in Int
          BY <1>0, <1>8, <4>1
        <5> DEFINE P == Period(s, MaxClock + 1)
        <5>2. \A x \in P : Total(a, P) = Total(a, P \ {x}) + a[x]
          <6> HIDE DEF s
          <6> QED
            BY <5>1, PeriodSums
        <5>3. s \in P
          BY <4>3
        <5> QED
          BY <5>2, <5>3
      <4>5. A(t, c) <= Total(a, T) /\ Total(a, T) \in Nat
        <5>1. T \in SUBSET Times /\ IsFiniteSet(T)
          BY <1>0, <1>8, <4>1, PeriodFacts, FS_Subset
        <5> HIDE ApiAssumption DEF T
        <5> QED
          BY <4>3, <5>1, TotalMore
      <4>6. a[s] \in Nat /\ A(t, c) \in Nat
        BY <1>2, <1>8, <4>1
      <4> HIDE DEF A, T, s
      <4> QED
        BY <1>0, <4>1, <4>4, <4>5, <4>6
    <3> QED
      BY <3>1, <3>2
  <2>2. \A u \in Times : u >= c => a[u] = 0
    <3>1. a[c] = 0
      BY <1>9 DEF Within
    <3> QED
      BY <1>5, <1>8, <3>1
  <2>3. \A e \in Int : A(c, e) = 0
    <3>1. ASSUME NEW e \in Int
          PROVE  \A u \in Period(c, e) : a[u] = 0
      BY <2>2 DEF Period
    <3> QED
      BY <1>4, <1>8, <3>1
  <2>4. ASSUME NEW t \in Times
        PROVE  B(t, t + Window) <= 2 * L - 1
    <3>1. t \in Int /\ t + Window \in Int /\ c \in Int
      BY <1>0, <1>8
    <3>2. CASE c \notin Period(t, t + Window)
      BY <1>2, <1>6, <3>1, <3>2
    <3>3. CASE c \in Period(t, t + Window)
      <4>1. t <= c /\ c < t + Window
        BY <1>7, <3>1, <3>3
      <4>2. A(t, t + Window) = A(t, c) + A(c, t + Window)
        BY <1>3, <3>1, <4>1
      <4>3. A(t, c) < L /\ A(t, c) \in Nat
        BY <1>0, <1>2, <2>1, <3>1, <4>1
      <4>4. A(c, t + Window) = 0
        BY <2>3, <3>1
      <4>5. B(t, t + Window) = A(t, t + Window) + 1
        BY <1>2, <3>1, <3>3
      <4> HIDE DEF A, B
      <4> QED
        BY <1>0, <4>2, <4>3, <4>4, <4>5
    <3> QED
      BY <3>2, <3>3
  <2>5. /\ \A u \in Times : u > c => b[u] = 0
        /\ b[c] > 0
    BY <1>1, <1>5, <1>8
  <2>6. \A u \in Times : u >= c + Window => b[u] = 0
    BY <1>0, <1>8, <2>5
  <2>7. B(c, MaxClock + 1) = 1
    <3>1. c \in Int /\ MaxClock + 1 \in Int /\ c < MaxClock + 1
      BY <1>0, <1>8
    <3>2. c \in Period(c, MaxClock + 1) /\ A(c, MaxClock + 1) = 0
      BY <1>7, <2>3, <3>1
    <3> HIDE DEF A, B
    <3> QED
      BY <1>2, <3>1, <3>2
  <2>8. ASSUME NEW t \in Times, t > c - Window
        PROVE  B(t, c) < L
    <3>1. c \in Int /\ t \in Int
      BY <1>8
    <3>2. c \notin Period(t, c) /\ A(t, c) < L
      BY <1>7, <2>1, <2>8, <3>1
    <3> HIDE DEF A, B
    <3> QED
      BY <1>2, <3>1, <3>2
  <2>9. (c + Window) - Window = c
    BY <1>0, <1>8
  <2> HIDE DEF b, Times
  <2> QED
    BY <2>4, <2>5, <2>6, <2>7, <2>8, <2>9, <1>8 DEF Within
<1>10. ASSUME c < w
       PROVE  Within(b, h + 1, w, c)
  <2> DEFINE s == w - Window
  <2>1. h > 0 /\ h < L
    BY <1>8, <1>10 DEF Within
  <2>2. /\ s \in Times /\ s <= c /\ a[s] > 0
        /\ \A u \in Times : u >= w => a[u] = 0
        /\ A(s, MaxClock + 1) = h
        /\ \A t \in Times : t > s - Window => A(t, s) < L
    BY <2>1 DEF Within
  <2> HIDE DEF s
  <2>3. ASSUME NEW t \in Times
        PROVE  B(t, t + Window) <= 2 * L - 1
    <3>1. t \in Int /\ t + Window \in Int /\ c \in Int /\ s \in Int
      BY <1>0, <1>8, <2>2
    <3>2. CASE c \notin Period(t, t + Window)
      BY <1>2, <1>6, <3>1, <3>2
    <3>3. CASE c \in Period(t, t + Window)
      <4>1. t <= c /\ c < t + Window
        BY <1>7, <3>1, <3>3
      <4>2. A(t, s) < L /\ A(t, s) \in Nat
        BY <1>0, <1>2, <2>2, <3>1, <4>1
      <4> DEFINE P == Period(t, t + Window)
                 Q == Period(t, s)
                 R == Period(s, MaxClock + 1)
      <4>3. /\ Q \in SUBSET Times /\ IsFiniteSet(Q)
            /\ R \in SUBSET Times /\ IsFiniteSet(R)
            /\ Q \cap R = {}
            /\ P \subseteq Q \cup R
        <5>1. Q \cap R = {} /\ P \subseteq Q \cup R
          <6>1. \A u \in Q : u < s
            BY DEF Period
          <6>2. \A u \in R : u >= s
            BY DEF Period
          <6>3. \A u \in P : u \in Q \/ u \in R
            BY <1>8, <3>1 DEF Period
          <6>4. \A u \in R : u \in Int
            BY <1>8 DEF Period
          <6> HIDE DEF P, Q, R
          <6> QED
            BY <3>1, <6>1, <6>2, <6>3, <6>4
        <5> QED
          BY <1>0, <3>1, <5>1, PeriodFacts
      <4>4. Total(a, P) <= Total(a, Q) + Total(a, R)
        <5>1. Q \cup R \in SUBSET Times /\ IsFiniteSet(Q \cup R)
          BY <4>3, FS_Union
        <5>2. a \in [Times -> Int]
          OBVIOUS
        <5> HIDE ApiAssumption DEF P, Q, R, Times
        <5>3. Total(a, Q \cup R) = Total(a, Q) + Total(a, R)
          BY <4>3, <5>2, TotalUnion
        <5>4. Total(a, P) <= Total(a, Q \cup R)
          BY <4>3, <5>1, TotalMore
        <5> QED
          BY <5>3, <5>4
      <4>5. B(t, t + Window) = Total(a, P) + 1 /\ Total(a, P) \in Nat
        BY <1>2, <3>1, <3>3
      <4>6. Total(a, Q) = A(t, s) /\ Total(a, R) = h
        BY <2>2
      <4> HIDE DEF A, B, P, Q, R
      <4> QED
        BY <1>0, <2>1, <4>2, <4>4, <4>5, <4>6
    <3> QED
      BY <3>2, <3>3
  <2>4. \A u \in Times : (u > c \/ u >= w) => b[u] = 0
    BY <1>1, <1>5, <1>8, <1>10, <2>2
  <2>5. b[s] > 0
    BY <1>1, <2>2
  <2>6. B(s, MaxClock + 1) = h + 1
    <3>1. s \in Int /\ c \in Int /\ MaxClock + 1 \in Int /\ c < MaxClock + 1
      BY <1>0, <1>8, <2>2
    <3>2. c \in Period(s, MaxClock + 1)
      BY <1>7, <2>2, <3>1
    <3> HIDE DEF A, B
    <3> QED
      BY <1>2, <2>2, <3>1, <3>2
  <2>7. ASSUME NEW t \in Times, t > s - Window
        PROVE  B(t, s) < L
    <3>1. s \in Int /\ c \in Int /\ t \in Int
      BY <1>8, <2>2
    <3>2. c \notin Period(t, s) /\ A(t, s) < L
      BY <1>7, <2>2, <2>7, <3>1
    <3> HIDE DEF A, B
    <3> QED
      BY <1>2, <3>1, <3>2
  <2>8. h + 1 > 0 /\ h + 1 # 0
    BY <2>1
  <2> HIDE DEF b, Times
  <2> QED
    BY <2>2, <2>3, <2>4, <2>5, <2>6, <2>7, <2>8 DEF Within, s
<1> QED
  BY <1>8, <1>9, <1>10

HIDE ApiAssumption

\* What each worker has let in at the times in R.
Shares(g, R) == [p \in Pid |-> Total(g[p], R)]

\* The shares of the workers add up to what the container has let in.
Shared(g, all, ids) ==
  \A R \in SUBSET Times :
     Total(all, R) = Total(Shares(g, R), ids)

\* A worker without hits has let nothing in, unless it was killed.
NoneYet(g, h, ids, up) ==
  \A p \in Pid : (h[p] = 0 /\ p \notin ids \ up) => \A u \in Times : g[p][u] = 0

Ledger(g, all, ids, up, h, w, c) ==
  /\ Shared(g, all, ids)
  /\ NoneYet(g, h, ids, up)
  /\ \A p \in Pid : Within(g[p], h[p], w[p], c)

(***************************************************************************)
(* What was admitted of the requests of an address, at any time, is the    *)
(* sum of what each worker admitted within the limit that it keeps for the *)
(* address.  A process that does not run has no hits.                      *)
(***************************************************************************)
AttemptsOf(c) ==
  /\ \A p \in Pid \ alive : hits[c][p] = 0
  /\ \E g \in [Pid -> [Times -> Nat]] :
        Ledger(g, admitted[c], used, alive, hits[c], windowEnd[c], clock)

AttemptInv == \A c \in Client : AttemptsOf(c)

LEMMA TimesFinite == \A R \in SUBSET Times : IsFiniteSet(R)
<1>1. 0 \in Int /\ MaxClock \in Int
  BY ApiAssumption
<1>2. IsFiniteSet(0 .. MaxClock)
  BY <1>1, FS_Interval
<1> QED
  BY <1>2, FS_Subset DEF Times

\* The shares are sums.
LEMMA ShareType ==
  ASSUME NEW g \in [Pid -> [Times -> Nat]], NEW R \in SUBSET Times
  PROVE  /\ Shares(g, R) \in [Pid -> Int]
         /\ \A p \in Pid : Shares(g, R)[p] = Total(g[p], R)
<1>1. \A p \in Pid : Total(g[p], R) \in Nat
  <2> SUFFICES ASSUME NEW p \in Pid
               PROVE  Total(g[p], R) \in Nat
    OBVIOUS
  <2>1. g[p] \in [Times -> Nat] /\ IsFiniteSet(R)
    BY TimesFinite
  <2> HIDE DEF Times
  <2> QED
    BY <2>1, TotalMore
<1> QED
  BY <1>1 DEF Shares

\* Nothing has been let in.
LEMMA LedgerBlank ==
  ASSUME NEW c \in Times, NEW all, NEW h, NEW w,
         all = [u \in Times |-> 0],
         \A p \in Pid : h[p] = 0 /\ w[p] = 0
  PROVE  \E g \in [Pid -> [Times -> Nat]] : Ledger(g, all, {}, {}, h, w, c)
<1> DEFINE zero == [u \in Times |-> 0]
           g == [p \in Pid |-> zero]
<1>1. zero \in [Times -> Nat] /\ g \in [Pid -> [Times -> Nat]]
  OBVIOUS
<1>2. \A R \in SUBSET Times : Total(zero, R) = 0
  <2> SUFFICES ASSUME NEW R \in SUBSET Times
               PROVE  Total(zero, R) = 0
    OBVIOUS
  <2>1. zero \in [Times -> Int] /\ \A u \in R : zero[u] = 0
    OBVIOUS
  <2>2. IsFiniteSet(R)
    BY TimesFinite
  <2> HIDE DEF zero, Times
  <2> QED
    BY <2>1, <2>2, TotalZero
<1>3. Shared(g, all, {})
  <2> SUFFICES ASSUME NEW R \in SUBSET Times
               PROVE  Total(all, R) = Total(Shares(g, R), {})
    BY DEF Shared
  <2> DEFINE f == Shares(g, R)
  <2>1. f \in [Pid -> Int]
    <3> HIDE DEF g
    <3> QED
      BY <1>1, ShareType
  <2>2. {} \in SUBSET Pid /\ IsFiniteSet({})
    BY FS_EmptySet
  <2>3. Total(f, {}) = 0
    <3> HIDE DEF f
    <3> QED
      BY <2>1, <2>2, TotalFacts
  <2>4. Total(all, R) = 0
    BY <1>2
  <2> QED
    BY <2>3, <2>4
<1>4. \A p \in Pid : Within(g[p], h[p], w[p], c)
  <2> SUFFICES ASSUME NEW p \in Pid
               PROVE  Within(zero, h[p], w[p], c)
    OBVIOUS
  <2>1. \A t \in Times : Total(zero, Period(t, t + Window)) = 0
    BY <1>2 DEF Period
  <2>2. 0 <= 2 * LimitPerWindow - 1
    BY ApiAssumption
  <2>3. \A t \in Times :
           Total(zero, Period(t, t + Window)) <= 2 * LimitPerWindow - 1
    BY <2>1, <2>2
  <2>4. \A u \in Times : zero[u] = 0
    OBVIOUS
  <2> HIDE DEF zero, Times
  <2> QED
    BY <2>3, <2>4 DEF Within
<1>5. NoneYet(g, h, {}, {})
  BY DEF NoneYet
<1> HIDE DEF g
<1> QED
  BY <1>1, <1>3, <1>4, <1>5 DEF Ledger

\* The clock goes on.
LEMMA LedgerTick ==
  ASSUME NEW g, NEW all, NEW ids, NEW up, NEW h, NEW w,
         NEW c \in Times, NEW d \in Times, c <= d,
         Ledger(g, all, ids, up, h, w, c)
  PROVE  Ledger(g, all, ids, up, h, w, d)
<1>1. ASSUME NEW p \in Pid
      PROVE  Within(g[p], h[p], w[p], d)
  <2>1. Within(g[p], h[p], w[p], c)
    BY DEF Ledger
  <2>2. \A u \in Times : u \in Int
    BY ApiAssumption DEF Times
  <2>3. \A u \in Times : (u > d => u > c) /\ (u <= c => u <= d)
    BY <2>2
  <2> HIDE DEF Times
  <2> QED
    BY <2>1, <2>3 DEF Within
<1> QED
  BY <1>1 DEF Ledger

\* A process starts.
LEMMA LedgerSpawn ==
  ASSUME NEW g \in [Pid -> [Times -> Nat]], NEW all, NEW ids \in SUBSET Pid,
         NEW up, NEW h, NEW w, NEW c, Ledger(g, all, ids, up, h, w, c),
         NEW p \in Pid \ ids, h[p] = 0
  PROVE  Ledger(g, all, ids \cup {p}, up \cup {p}, h, w, c)
<1>1. \A u \in Times : g[p][u] = 0
  BY DEF Ledger, NoneYet
<1>2. NoneYet(g, h, ids \cup {p}, up \cup {p})
  BY <1>1 DEF Ledger, NoneYet
<1>3. ASSUME NEW R \in SUBSET Times
      PROVE  Total(all, R) = Total(Shares(g, R), ids \cup {p})
  <2> DEFINE f == Shares(g, R)
  <2>1. f \in [Pid -> Int] /\ f[p] = Total(g[p], R)
    BY ShareType
  <2>2. ids \in SUBSET Pid /\ IsFiniteSet(ids) /\ p \in Pid \ ids
    BY ApiAssumption, FS_Subset
  <2>3. Total(all, R) = Total(f, ids)
    BY DEF Ledger, Shared
  <2>4. f[p] = 0
    <3>1. g[p] \in [Times -> Int] /\ IsFiniteSet(R) /\ \A u \in R : g[p][u] = 0
      BY <1>1, TimesFinite
    <3>2. Total(g[p], R) = 0
      <4> HIDE DEF Times
      <4> QED
        BY <3>1, TotalZero
    <3> QED
      BY <2>1, <3>2
  <2> HIDE DEF f
  <2>5. Total(f, ids \cup {p}) = Total(f, ids) + f[p] /\ Total(f, ids) \in Int
    BY <2>1, <2>2, TotalFacts
  <2>6. Total(all, R) = Total(f, ids \cup {p})
    BY <2>3, <2>4, <2>5
  <2> QED
    BY <2>6 DEF f
<1> QED
  BY <1>2, <1>3 DEF Ledger, Shared

\* A process is killed, and its memory of the limit with it.
LEMMA LedgerKill ==
  ASSUME NEW g, NEW all, NEW ids, NEW up \in SUBSET ids, NEW h, NEW w, NEW c,
         Ledger(g, all, ids, up, h, w, c),
         NEW p \in up, NEW i, NEW v, i[p] = 0, v[p] = 0,
         \A q \in Pid \ {p} : i[q] = h[q] /\ v[q] = w[q]
  PROVE  Ledger(g, all, ids, up \ {p}, i, v, c)
<1>1. \A q \in Pid \ {p} : Within(g[q], i[q], v[q], c)
  BY DEF Ledger
<1>2. ASSUME p \in Pid
      PROVE  Within(g[p], 0, 0, c)
  BY <1>2 DEF Ledger, Within
<1>3. \A q \in Pid : Within(g[q], i[q], v[q], c)
  <2> SUFFICES ASSUME NEW q \in Pid
               PROVE  Within(g[q], i[q], v[q], c)
    OBVIOUS
  <2>1. CASE q = p
    BY <1>2, <2>1
  <2>2. CASE q # p
    BY <1>1, <2>2
  <2> QED
    BY <2>1, <2>2
<1>4. NoneYet(g, i, ids, up \ {p})
  BY DEF Ledger, NoneYet
<1> QED
  BY <1>3, <1>4 DEF Ledger

\* A request is let in by a process, and so by the container.
LEMMA SharesAdmit ==
  ASSUME NEW g, NEW all, NEW ids, NEW c, NEW p, NEW f, NEW more
  PROVE  ( /\ g \in [Pid -> [Times -> Nat]] /\ f \in [Pid -> [Times -> Nat]]
           /\ all \in [Times -> Nat] /\ more \in [Times -> Nat]
           /\ ids \in SUBSET Pid /\ p \in ids /\ c \in Times
           /\ \A q \in Pid \ {p} : f[q] = g[q]
           /\ f[p][c] = g[p][c] + 1
           /\ \A u \in Times \ {c} : g[p][u] = f[p][u]
           /\ more[c] = all[c] + 1
           /\ \A u \in Times \ {c} : all[u] = more[u]
           /\ Shared(g, all, ids) ) => Shared(f, more, ids)
<1>a. SUFFICES ASSUME g \in [Pid -> [Times -> Nat]],
                      f \in [Pid -> [Times -> Nat]],
                      all \in [Times -> Nat], more \in [Times -> Nat],
                      ids \in SUBSET Pid, p \in ids, c \in Times,
                      \A q \in Pid \ {p} : f[q] = g[q],
                      f[p][c] = g[p][c] + 1,
                      \A u \in Times \ {c} : g[p][u] = f[p][u],
                      more[c] = all[c] + 1,
                      \A u \in Times \ {c} : all[u] = more[u],
                      Shared(g, all, ids),
                      NEW R, R \in SUBSET Times
               PROVE  Total(more, R) = Total(Shares(f, R), ids)
  BY DEF Shared
<1> DEFINE old == Shares(g, R)
           new == Shares(f, R)
           a == g[p]
           b == f[p]
<1>0. IsFiniteSet(R)
  BY <1>a, TimesFinite
<1>1. /\ old \in [Pid -> Int] /\ new \in [Pid -> Int]
      /\ \A q \in Pid : old[q] = Total(g[q], R) /\ new[q] = Total(f[q], R)
  BY <1>a, ShareType
<1>2. ids \in SUBSET Pid /\ IsFiniteSet(ids)
  BY <1>a, ApiAssumption, FS_Subset
<1>3. Total(all, R) = Total(old, ids)
  BY <1>a DEF Shared
<1>4. /\ old[p] = Total(a, R) /\ new[p] = Total(b, R)
      /\ \A q \in ids \ {p} : old[q] = new[q]
  <2> HIDE DEF old, new
  <2> QED
    BY <1>a, <1>1
<1>5. Total(new, ids) = Total(old, ids) + (new[p] - old[p])
  <2>1. p \in ids
    BY <1>a
  <2> HIDE DEF old, new
  <2> QED
    BY <1>1, <1>2, <1>4, <2>1, TotalChange
<1>6. /\ c \in R => Total(b, R) = Total(a, R) + 1
      /\ c \notin R => Total(b, R) = Total(a, R)
  <2>1. /\ a \in [Times -> Nat] /\ b \in [Times -> Nat]
        /\ b[c] = a[c] + 1
        /\ \A u \in Times \ {c} : a[u] = b[u]
        /\ c \in Times /\ R \in SUBSET Times
    BY <1>a
  <2> HIDE DEF a, b
  <2> QED
    BY <1>0, <2>1, PeriodBump
<1>7. /\ c \in R => Total(more, R) = Total(all, R) + 1
      /\ c \notin R => Total(more, R) = Total(all, R)
  BY <1>0, <1>a, PeriodBump
<1>8. Total(old, ids) \in Int /\ Total(a, R) \in Int
  <2>1. old[p] \in Int
    BY <1>a, <1>1
  <2> HIDE DEF old, a
  <2> QED
    BY <1>1, <1>2, <1>4, <2>1, TotalFacts
<1> HIDE DEF old, new, a, b
<1>9. CASE c \in R
  BY <1>3, <1>4, <1>5, <1>6, <1>7, <1>8, <1>9 DEF new
<1>10. CASE c \notin R
  BY <1>3, <1>4, <1>5, <1>6, <1>7, <1>8, <1>10 DEF new
<1> QED
  BY <1>9, <1>10

\* A process lets a request in.
LedgerType(g, all, ids, h, w, c) ==
  /\ g \in [Pid -> [Times -> Nat]]
  /\ all \in [Times -> Nat]
  /\ ids \in SUBSET Pid
  /\ h \in [Pid -> 0 .. LimitPerWindow]
  /\ w \in [Pid -> Int]
  /\ c \in Times

LEMMA LedgerAdmit ==
  ASSUME NEW g, NEW all, NEW ids, NEW up, NEW h, NEW w, NEW c, NEW p,
         LedgerType(g, all, ids, h, w, c), Ledger(g, all, ids, up, h, w, c),
         p \in ids, p \in up, c >= w[p] \/ h[p] < LimitPerWindow
  PROVE  \E f \in [Pid -> [Times -> Nat]] :
            Ledger(f, [all EXCEPT ![c] = @ + 1], ids, up,
                   [h EXCEPT ![p] = IF c >= w[p] THEN 1 ELSE h[p] + 1],
                   [w EXCEPT ![p] = IF c >= w[p] THEN c + Window ELSE w[p]], c)
<1> DEFINE b == [g[p] EXCEPT ![c] = @ + 1]
           f == [g EXCEPT ![p] = b]
           more == [all EXCEPT ![c] = @ + 1]
           i == IF c >= w[p] THEN 1 ELSE h[p] + 1
           v == IF c >= w[p] THEN c + Window ELSE w[p]
           hh == [h EXCEPT ![p] = i]
           ww == [w EXCEPT ![p] = v]
<1>0. /\ g \in [Pid -> [Times -> Nat]]
      /\ all \in [Times -> Nat]
      /\ ids \in SUBSET Pid
      /\ c \in Times
  BY DEF LedgerType
<1>1. p \in Pid /\ g[p] \in [Times -> Nat]
  BY <1>0
<1>2. /\ b \in [Times -> Nat]
      /\ b[c] = g[p][c] + 1
      /\ \A u \in Times \ {c} : g[p][u] = b[u]
  BY <1>0, <1>1
<1>3. /\ more \in [Times -> Nat]
      /\ more[c] = all[c] + 1
      /\ \A u \in Times \ {c} : all[u] = more[u]
  BY <1>0
<1>4. Within(b, i, v, c)
  <2>1. Within(g[p], h[p], w[p], c)
    BY <1>1 DEF Ledger
  <2>2. h[p] = 0 => \A u \in Times : g[p][u] = 0
    BY <1>1 DEF Ledger, NoneYet
  <2>3. h[p] \in 0 .. LimitPerWindow /\ w[p] \in Int
    BY <1>1 DEF LedgerType
  <2> QED
    BY <1>0, <1>1, <2>1, <2>2, <2>3, AdmitWithin
<1>5. f \in [Pid -> [Times -> Nat]] /\ f[p] = b
      /\ \A q \in Pid \ {p} : f[q] = g[q]
  BY <1>0, <1>1, <1>2
<1>6. /\ hh[p] = i /\ ww[p] = v
      /\ \A q \in Pid \ {p} : hh[q] = h[q] /\ ww[q] = w[q]
  BY <1>1 DEF LedgerType
<1>7. i # 0
  BY <1>1, ApiAssumption DEF LedgerType
<1>8. Shared(f, more, ids)
  <2>1. Shared(g, all, ids)
    BY DEF Ledger
  <2>2. /\ f[p][c] = g[p][c] + 1
        /\ \A u \in Times \ {c} : g[p][u] = f[p][u]
    BY <1>2, <1>5
  <2> HIDE DEF f, more, b
  <2> QED
    BY <1>0, <1>3, <1>5, <2>1, <2>2, SharesAdmit
<1>9. NoneYet(f, hh, ids, up)
  <2> HIDE DEF f, hh, b, i
  <2> QED
    BY <1>5, <1>6, <1>7 DEF Ledger, NoneYet
<1>10. \A q \in Pid : Within(f[q], hh[q], ww[q], c)
  <2> SUFFICES ASSUME NEW q \in Pid
               PROVE  Within(f[q], hh[q], ww[q], c)
    OBVIOUS
  <2> HIDE DEF f, hh, ww, b, i, v
  <2>1. CASE q = p
    BY <1>4, <1>5, <1>6, <2>1
  <2>2. CASE q # p
    BY <1>5, <1>6, <2>2 DEF Ledger
  <2> QED
    BY <2>1, <2>2
<1>11. Ledger(f, more, ids, up, hh, ww, c)
  BY <1>8, <1>9, <1>10 DEF Ledger
<1> HIDE DEF f
<1> QED
  BY <1>5, <1>11

LEMMA ClockType ==
  ASSUME IInv
  PROVE  /\ clock \in Times
         /\ alive \in SUBSET used
         /\ used \in SUBSET Pid
BY ApiAssumption DEF IInv, TypeOK, WorkersOK, BoundsOK, Times

\* What the limiters keep for one address.
LEMMA LimitType ==
  ASSUME IInv, NEW c \in Client
  PROVE  /\ hits[c] \in [Pid -> 0 .. LimitPerWindow]
         /\ windowEnd[c] \in [Pid -> Int]
         /\ admitted[c] \in [Times -> Nat]
<1>1. windowEnd[c] \in [Pid -> 0 .. MaxClock + Window]
  BY DEF IInv, TypeOK, MemoryOK
<1>2. 0 .. MaxClock + Window \subseteq Int
  BY ApiAssumption
<1> QED
  BY <1>1, <1>2 DEF IInv, TypeOK, MemoryOK, Times

LEMMA AttemptInit == Init => AttemptInv
<1> SUFFICES ASSUME Init, NEW c \in Client
             PROVE  AttemptsOf(c)
  BY DEF AttemptInv
<1>1. /\ clock \in Times
      /\ admitted[c] = [u \in Times |-> 0]
      /\ \A p \in Pid : hits[c][p] = 0 /\ windowEnd[c][p] = 0
      /\ used = {} /\ alive = {}
  BY ApiAssumption DEF Init, Times
<1> QED
  BY <1>1, LedgerBlank DEF AttemptsOf

\* The limiter lets a request of address c in.
LEMMA AttemptAdmit ==
  ASSUME IInv, NEW c \in Client, AttemptsOf(c), NEW p \in Pid, Admit(p, c)
  PROVE  AttemptsOf(c)'
<1> DEFINE i == IF clock >= windowEnd[c][p] THEN 1 ELSE hits[c][p] + 1
           v == IF clock >= windowEnd[c][p] THEN clock + Window
                                            ELSE windowEnd[c][p]
<1>0. PICK g \in [Pid -> [Times -> Nat]] :
         Ledger(g, admitted[c], used, alive, hits[c], windowEnd[c], clock)
  BY DEF AttemptsOf
<1>1. /\ p \in alive
      /\ clock >= windowEnd[c][p] \/ hits[c][p] < LimitPerWindow
      /\ UNCHANGED <<used, alive, clock>>
  BY DEF Admit, At, Fresh, workerVars, boundVars
<1>2. hits'[c] = [hits[c] EXCEPT ![p] = i]
  <2>1. hits' = [hits EXCEPT ![c] = [hits[c] EXCEPT ![p] = i]]
    BY Zenon DEF Admit, CountHit, Fresh, Put
  <2>2. c \in DOMAIN hits
    BY DEF IInv, TypeOK, MemoryOK
  <2> QED
    BY <2>1, <2>2
<1>3. windowEnd'[c] = [windowEnd[c] EXCEPT ![p] = v]
  <2>1. c \in DOMAIN windowEnd /\ windowEnd[c] \in [Pid -> Int]
    BY LimitType DEF IInv, TypeOK, MemoryOK
  <2>2. CASE Fresh(p, c)
    <3>1. windowEnd' = [windowEnd EXCEPT ![c] =
                          [windowEnd[c] EXCEPT ![p] = clock + Window]]
      BY <2>2, Zenon DEF Admit, CountHit, Put
    <3> QED
      BY <2>1, <2>2, <3>1 DEF Fresh
  <2>3. CASE ~Fresh(p, c)
    BY <2>1, <2>3 DEF Admit, CountHit, Fresh
  <2> QED
    BY <2>2, <2>3
<1>4. admitted'[c] = [admitted[c] EXCEPT ![clock] = admitted[c][clock] + 1]
  <2>1. admitted' = [admitted EXCEPT ![c] =
                       [admitted[c] EXCEPT ![clock] = admitted[c][clock] + 1]]
    BY Zenon DEF Admit, Put
  <2>2. c \in DOMAIN admitted
    BY DEF IInv, TypeOK, MemoryOK
  <2> QED
    BY <2>1, <2>2
<1>5. /\ LedgerType(g, admitted[c], used, hits[c], windowEnd[c], clock)
      /\ p \in used
  BY <1>0, <1>1, ClockType, LimitType DEF LedgerType
<1>6. \E f \in [Pid -> [Times -> Nat]] :
         Ledger(f, [admitted[c] EXCEPT ![clock] = @ + 1], used, alive,
                [hits[c] EXCEPT ![p] = i], [windowEnd[c] EXCEPT ![p] = v],
                clock)
  BY <1>0, <1>1, <1>5, LedgerAdmit
<1>7. \E f \in [Pid -> [Times -> Nat]] :
         Ledger(f, admitted'[c], used', alive', hits'[c], windowEnd'[c], clock')
  BY <1>1, <1>2, <1>3, <1>4, <1>6
<1>8. \A q \in Pid \ alive' : hits'[c][q] = 0
  <2>1. \A q \in Pid \ alive : q # p /\ hits[c][q] = 0
    BY <1>1 DEF AttemptsOf
  <2>2. hits[c] \in [Pid -> 0 .. LimitPerWindow]
    BY LimitType
  <2> QED
    BY <1>1, <1>2, <2>1, <2>2
<1> QED
  BY <1>7, <1>8 DEF AttemptsOf

LEMMA AttemptStep ==
  ASSUME IInv, [Next]_vars, NEW c \in Client, AttemptsOf(c)
  PROVE  AttemptsOf(c)'
<1>1. PICK g \in [Pid -> [Times -> Nat]] :
         Ledger(g, admitted[c], used, alive, hits[c], windowEnd[c], clock)
  BY DEF AttemptsOf
<1>2. ASSUME UNCHANGED <<used, alive, clock>>, hits'[c] = hits[c],
             windowEnd'[c] = windowEnd[c], admitted'[c] = admitted[c]
      PROVE  AttemptsOf(c)'
  BY <1>2 DEF AttemptsOf
<1>3. ASSUME NEW p \in Pid, Spawn(p)
      PROVE  AttemptsOf(c)'
  <2>1. /\ p \in Pid \ used
        /\ alive' = alive \cup {p} /\ used' = used \cup {p}
        /\ UNCHANGED <<admitted, hits, windowEnd, clock>>
    BY <1>3 DEF Spawn, limitVars, boundVars
  <2>2. hits[c][p] = 0
    BY <2>1, ClockType DEF AttemptsOf
  <2>3. Ledger(g, admitted[c], used \cup {p}, alive \cup {p}, hits[c],
               windowEnd[c], clock)
    BY <1>1, <2>1, <2>2, ClockType, LedgerSpawn
  <2> QED
    BY <2>1, <2>3 DEF AttemptsOf
<1>4. ASSUME NEW p \in Pid, Kill(p)
      PROVE  AttemptsOf(c)'
  <2>1. /\ p \in alive
        /\ alive' = alive \ {p}
        /\ UNCHANGED <<admitted, used, clock>>
    BY <1>4 DEF Kill, Fault
  <2>2. /\ hits'[c][p] = 0 /\ windowEnd'[c][p] = 0
        /\ \A q \in Pid \ {p} : /\ hits'[c][q] = hits[c][q]
                                /\ windowEnd'[c][q] = windowEnd[c][q]
    BY <1>4 DEF Kill, Forget
  <2>3. Ledger(g, admitted[c], used, alive \ {p}, hits'[c], windowEnd'[c],
               clock)
    BY <1>1, <2>1, <2>2, ClockType, LedgerKill
  <2> QED
    BY <2>1, <2>2, <2>3 DEF AttemptsOf
<1>5. CASE Boot
  <2>1. /\ clock' \in Times
        /\ admitted'[c] = [u \in Times |-> 0]
        /\ \A p \in Pid : hits'[c][p] = 0 /\ windowEnd'[c][p] = 0
        /\ used' = {} /\ alive' = {}
    BY <1>5, ClockType DEF Boot, Forget, Fault, Times
  <2> QED
    BY <2>1, LedgerBlank DEF AttemptsOf
<1>6. ASSUME NEW p \in Pid, NEW d \in Client, Admit(p, d), d # c
      PROVE  AttemptsOf(c)'
  <2>1. UNCHANGED <<used, alive, clock>> /\ admitted'[c] = admitted[c]
    BY <1>6 DEF Admit, workerVars, boundVars, IInv, TypeOK, MemoryOK
  <2>2. hits'[c] = hits[c] /\ windowEnd'[c] = windowEnd[c]
    BY <1>6 DEF Admit, CountHit, IInv, TypeOK, MemoryOK
  <2> QED
    BY <1>2, <2>1, <2>2
<1>7. ASSUME NEW p \in Pid, Request(p), ~\E d \in Client : Admit(p, d)
      PROVE  AttemptsOf(c)'
  <2>1. UNCHANGED <<admitted, used, alive, hits, windowEnd, clock>>
    BY <1>7 DEF Request, Arrive, Limited, StartObservation, Handle,
       OpenDatabase, Execute, CheckDatabase, LogRequest, FinishObservation,
       workerVars, limitVars, boundVars
  <2> QED
    BY <1>2, <2>1
<1>8. CASE Tick
  <2>1. /\ clock' \in Times /\ clock <= clock'
        /\ UNCHANGED <<admitted, used, alive, hits, windowEnd>>
    BY <1>8, ClockType, ApiAssumption
    DEF Tick, workerVars, limitVars, Times
  <2>2. Ledger(g, admitted[c], used, alive, hits[c], windowEnd[c], clock')
    BY <1>1, <2>1, ClockType, LedgerTick
  <2> QED
    BY <2>1, <2>2 DEF AttemptsOf
<1>9. CASE \/ \E p \in Pid : ChildExit(p)
           \/ DatabaseGoes \/ DatabaseReturns \/ UNCHANGED vars
  <2>1. UNCHANGED <<admitted, used, alive, hits, windowEnd, clock>>
    BY <1>9 DEF ChildExit, DatabaseGoes, DatabaseReturns, Fault, vars,
       workerVars, limitVars, boundVars
  <2> QED
    BY <1>2, <2>1
<1>10. ASSUME NEW p \in Pid, Request(p)
       PROVE  AttemptsOf(c)'
  BY <1>6, <1>7, <1>10, AttemptAdmit
<1> QED
  BY <1>3, <1>4, <1>5, <1>8, <1>9, <1>10 DEF Next

\* The bound of each worker bounds the sum.
LEMMA AttemptsAreBounded ==
  ASSUME IInv, NEW c \in Client, AttemptsOf(c), NEW t \in Times
  PROVE  MapThenSumSet(LAMBDA u : admitted[c][u],
                       {u \in 0 .. MaxClock : u >= t /\ u < t + Window})
           <= (2 * LimitPerWindow - 1) * Cardinality(used)
<1> DEFINE b == 2 * LimitPerWindow - 1
<1>1. PICK g \in [Pid -> [Times -> Nat]] :
         Ledger(g, admitted[c], used, alive, hits[c], windowEnd[c], clock)
  BY DEF AttemptsOf
<1>2. Total(admitted[c], Period(t, t + Window)) <= b * Cardinality(used)
  <2> DEFINE R == Period(t, t + Window)
             f == Shares(g, R)
  <2>1. R \in SUBSET Times
    BY DEF Period
  <2>2. f \in [Pid -> Int] /\ \A p \in Pid : f[p] = Total(g[p], R)
    <3> HIDE DEF R
    <3> QED
      BY <2>1, ShareType
  <2>3. used \in SUBSET Pid /\ IsFiniteSet(used)
    BY ClockType, ApiAssumption, FS_Subset
  <2>4. \A p \in Pid : Total(g[p], R) <= b
    BY <1>1 DEF Ledger, Within
  <2>5. \A p \in used : f[p] <= b
    <3> HIDE DEF f, R, b
    <3> QED
      BY <2>2, <2>3, <2>4
  <2>6. b \in Int
    BY ApiAssumption
  <2>7. Total(f, used) <= b * Cardinality(used)
    <3> HIDE DEF f, b
    <3> QED
      BY <2>2, <2>3, <2>5, <2>6, TotalBound
  <2>8. Total(admitted[c], R) = Total(f, used)
    BY <1>1, <2>1 DEF Ledger, Shared
  <2> QED
    BY <2>7, <2>8
<1>3. MapThenSumSet(LAMBDA u : admitted[c][u],
                    {u \in 0 .. MaxClock : u >= t /\ u < t + Window})
        = Total(admitted[c], Period(t, t + Window))
  BY Zenon DEF Total, Period, Times
<1> QED
  BY <1>2, <1>3

(***************************************************************************)
(* However many requests come from an address, and whenever they do, each  *)
(* worker lets in at most 2 * LimitPerWindow - 1 token requests of it in a *)
(* period of a window, and the container as many for each of its workers,  *)
(* the killed included.  It is so for any number of addresses; their sum   *)
(* has no bound.                                                           *)
(***************************************************************************)
THEOREM GuessesAreLimited == Spec => []AttemptsBounded
<1>1. Init => AttemptInv
  BY AttemptInit
<1>2. IInv /\ AttemptInv /\ [Next]_vars => AttemptInv'
  BY AttemptStep DEF AttemptInv
<1>3. Spec => []AttemptInv
  BY <1>1, <1>2, ApiAlways, PTL DEF Spec
<1>4. IInv /\ AttemptInv => AttemptsBounded
  BY AttemptsAreBounded DEF AttemptInv, AttemptsBounded, Times
<1> QED
  BY <1>3, <1>4, ApiAlways, PTL

=============================================================================
