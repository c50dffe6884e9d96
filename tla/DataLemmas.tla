------------------------------- MODULE DataLemmas -------------------------------
(***************************************************************************)
(* What the data operators of the specifications compute: unlinking an     *)
(* entry of a list, putting one at its front and taking its head; the      *)
(* least and the greatest element of a set; sums over a finite set.        *)
(***************************************************************************)
EXTENDS Integers, SequencesExt, SequenceTheorems, FiniteSetTheorems, WellFoundedInduction,
        TLAPS

\* Unlinking entry i (the prev/cur loops of chat_server.c) keeps the others
\* and their order.
LEMMA RemoveAtElements ==
  ASSUME NEW S, NEW s \in Seq(S), NEW i \in DOMAIN s
  PROVE  /\ RemoveAt(s, i) \in Seq(S)
         /\ Len(RemoveAt(s, i)) = Len(s) - 1
         /\ \A k \in 1..(Len(s) - 1) :
              RemoveAt(s, i)[k] = IF k < i THEN s[k] ELSE s[k + 1]
<1> DEFINE a == SubSeq(s, 1, i - 1)
           b == SubSeq(s, i + 1, Len(s))
<1>1. i \in 1..Len(s) /\ Len(s) \in Nat
  BY LenProperties
<1>2. \A j \in 1..Len(s) : s[j] \in S
  BY ElementOfSeq
<1>3. /\ a \in Seq(S) /\ Len(a) = i - 1
      /\ \A k \in 1..(i - 1) : a[k] = s[k]
  BY <1>1, <1>2
<1>4. /\ b \in Seq(S) /\ Len(b) = Len(s) - i
      /\ \A k \in 1..(Len(s) - i) : b[k] = s[i + k]
  BY <1>1, <1>2
<1>5. /\ a \o b \in Seq(S)
      /\ Len(a \o b) = Len(a) + Len(b)
      /\ \A k \in 1..(Len(a) + Len(b)) :
           (a \o b)[k] = IF k <= Len(a) THEN a[k] ELSE b[k - Len(a)]
  BY <1>3, <1>4, ConcatProperties
<1>6. RemoveAt(s, i) = a \o b
  BY DEF RemoveAt
<1> HIDE DEF a, b
<1>7. Len(a) + Len(b) = Len(s) - 1
  BY <1>1, <1>3, <1>4
<1>8. ASSUME NEW k \in 1..(Len(s) - 1)
      PROVE  (a \o b)[k] = IF k < i THEN s[k] ELSE s[k + 1]
  <2>1. (a \o b)[k] = IF k <= Len(a) THEN a[k] ELSE b[k - Len(a)]
    BY <1>5, <1>7
  <2>2. CASE k < i
    BY <2>1, <2>2, <1>1, <1>3
  <2>3. CASE ~(k < i)
    <3>1. k - (i - 1) \in 1..(Len(s) - i) /\ i + (k - (i - 1)) = k + 1
      BY <1>1, <2>3
    <3>2. (a \o b)[k] = b[k - (i - 1)]
      BY <1>1, <1>3, <2>1, <2>3
    <3>3. QED
      BY <1>1, <1>4, <2>3, <3>1, <3>2
  <2>4. QED
    BY <2>2, <2>3
<1>9. QED
  BY <1>5, <1>6, <1>7, <1>8

\* A new head (add_client()) pushes every other entry one place back.
LEMMA ConsElements ==
  ASSUME NEW S, NEW s \in Seq(S), NEW e \in S
  PROVE  /\ Cons(e, s) \in Seq(S)
         /\ Len(Cons(e, s)) = Len(s) + 1
         /\ \A k \in 1..(Len(s) + 1) :
              Cons(e, s)[k] = IF k = 1 THEN e ELSE s[k - 1]
<1>1. <<e>> \in Seq(S) /\ Len(<<e>>) = 1 /\ <<e>>[1] = e
  OBVIOUS
<1>2. /\ <<e>> \o s \in Seq(S)
      /\ Len(<<e>> \o s) = 1 + Len(s)
      /\ \A k \in 1..(1 + Len(s)) :
           (<<e>> \o s)[k] = IF k <= 1 THEN <<e>>[k] ELSE s[k - 1]
  BY <1>1, ConcatProperties
<1>3. QED
  BY <1>1, <1>2, LenProperties DEF Cons

\* The tail of a list holds nothing the list did not hold.
LEMMA TailSubset ==
  ASSUME NEW S, NEW s \in Seq(S), s # <<>>
  PROVE  /\ Tail(s) \in Seq(S) /\ Head(s) \in S
         /\ Head(s) \in ToSet(s)
         /\ ToSet(Tail(s)) \subseteq ToSet(s)
<1>1. /\ Tail(s) \in Seq(S) /\ Head(s) \in S
      /\ Len(Tail(s)) = Len(s) - 1
      /\ \A k \in 1..Len(Tail(s)) : Tail(s)[k] = s[k + 1]
  BY HeadTailProperties
<1>2. Len(s) \in Nat \ {0} /\ DOMAIN s = 1..Len(s) /\ Head(s) = s[1]
  BY EmptySeq, LenProperties
<1>3. DOMAIN Tail(s) = 1..Len(Tail(s))
  BY <1>1, LenProperties
<1>4. QED
  BY <1>1, <1>2, <1>3 DEF ToSet

-----------------------------------------------------------------------------
(* The least and the greatest element.                                     *)

LEMMA LeastElement ==
  ASSUME NEW S \in SUBSET Nat, S # {}
  PROVE  Min(S) \in S /\ \A y \in S : Min(S) <= y
<1>1. PICK x \in S : \A y \in S : ~(<<y, x>> \in OpToRel(<, Nat))
  BY NatLessThanWellFounded, WFMin, Zenon
<1>2. ASSUME NEW y \in S PROVE x <= y
  <2>1. y \in Nat /\ x \in Nat
    OBVIOUS
  <2>2. ~(y < x)
    BY <1>1, <2>1 DEF OpToRel
  <2>3. QED
    BY <2>1, <2>2
<1>3. QED
  BY <1>2 DEF Min

\* Induction over the natural numbers, for a set of them.
LEMMA AllNumbers ==
  ASSUME NEW K \in SUBSET Nat, 0 \in K, \A t \in K : t + 1 \in K
  PROVE  K = Nat
<1> SUFFICES ASSUME Nat \ K # {} PROVE FALSE
  OBVIOUS
<1> DEFINE S == Nat \ K
           m == Min(S)
<1>1. m \in S /\ \A y \in S : m <= y
  BY LeastElement
<1> HIDE DEF m
<1>2. m \in Nat /\ m # 0
  BY <1>1
<1>3. m - 1 \in Nat /\ ~(m <= m - 1) /\ (m - 1) + 1 = m
  BY <1>2
<1>4. m - 1 \in K
  BY <1>1, <1>3
<1>5. QED
  BY <1>1, <1>3, <1>4

LEMMA GreatestElement ==
  ASSUME NEW S \in SUBSET Nat, S # {}, NEW n \in Nat, \A y \in S : y <= n
  PROVE  Max(S) \in S /\ \A y \in S : Max(S) >= y
<1> DEFINE U == {m \in Nat : \A y \in S : y <= m}
<1>1. U \in SUBSET Nat /\ U # {}
  OBVIOUS
<1>2. Min(U) \in U /\ \A y \in U : Min(U) <= y
  BY <1>1, LeastElement
<1> DEFINE m == Min(U)
<1>3. m \in Nat /\ (\A y \in S : y <= m) /\ \A k \in Nat : (\A y \in S : y <= k) => m <= k
  BY <1>2
<1> HIDE DEF m, U
<1>4. m \in S
  <2> SUFFICES ASSUME m \notin S PROVE FALSE
    OBVIOUS
  <2>1. \A y \in S : y \in Nat /\ y <= m /\ y # m
    BY <1>3
  <2>2. \A y \in S : y <= m - 1
    BY <1>3, <2>1
  <2>3. PICK y \in S : TRUE
    OBVIOUS
  <2>4. m - 1 \in Nat
    BY <1>3, <2>1, <2>3
  <2>5. QED
    BY <1>3, <2>2, <2>4
<1>5. \E x \in S : \A y \in S : x >= y
  BY <1>3, <1>4
<1>6. QED
  BY <1>5 DEF Max

-----------------------------------------------------------------------------
(* Sums: what MapThenSumSet computes.                                      *)

Pick(s) == CHOOSE x \in s : TRUE

\* g sums f over every subset of S, element by element.
Sums(g, S, f) ==
  g = [s \in SUBSET S |-> IF s = {} THEN 0 ELSE f[Pick(s)] + g[s \ {Pick(s)}]]

Sum(f, S) == (CHOOSE g : Sums(g, S, f))[S]

LEMMA PickIn == ASSUME NEW s, s # {} PROVE Pick(s) \in s
BY DEF Pick

\* Among sets of subsets there is a smallest: the form of induction used here.
LEMMA SmallestSet ==
  ASSUME NEW S, IsFiniteSet(S), NEW T \in SUBSET (SUBSET S), T # {}
  PROVE  \E x \in T : \A y \in T : y \subseteq x => y = x
<1>1. IsWellFoundedOn(StrictSubsetOrdering(S), SUBSET S)
  BY FS_StrictSubsetOrderingWellFounded, FS_FiniteSubsetsOfFinite
<1>2. PICK x \in T : \A y \in T : ~(<<y, x>> \in StrictSubsetOrdering(S))
  BY <1>1, WFMin
<1>3. QED
  BY <1>2 DEF StrictSubsetOrdering

LEMMA SumsExist ==
  ASSUME NEW S, IsFiniteSet(S), NEW f
  PROVE  \E g : Sums(g, S, f)
<1> DEFINE Up(n, g) == \A s \in SUBSET S : Cardinality(s) <= n =>
                          g[s] = IF s = {} THEN 0 ELSE f[Pick(s)] + g[s \ {Pick(s)}]
           K == {n \in Nat : ~\E g : Up(n, g)}
<1>1. \A s \in SUBSET S : IsFiniteSet(s) /\ Cardinality(s) \in Nat
  BY FS_Subset, FS_CardinalityType
<1>2. \A s \in SUBSET S : s # {} => Cardinality(s \ {Pick(s)}) = Cardinality(s) - 1
  BY <1>1, PickIn, FS_RemoveElement
<1>3. \A s \in SUBSET S : Cardinality(s) = 0 => s = {}
  BY <1>1, FS_EmptySet
<1>4. K = {}
  <2> SUFFICES ASSUME K # {} PROVE FALSE
    OBVIOUS
  <2> DEFINE n == Min(K)
  <2>1. n \in K /\ \A m \in K : n <= m
    BY LeastElement
  <2>2. n \in Nat /\ ~\E g : Up(n, g)
    BY <2>1
  <2>3. n # 0
    <3> SUFFICES ASSUME n = 0 PROVE FALSE
      OBVIOUS
    <3>1. \A s \in SUBSET S : Cardinality(s) <= n => s = {}
      BY <1>1, <1>3
    <3>2. Up(n, [s \in SUBSET S |-> 0])
      BY <3>1
    <3>3. QED
      BY <2>2, <3>2
  <2>4. n - 1 \in Nat /\ n - 1 \notin K
    <3>1. n - 1 \in Nat /\ ~(n <= n - 1)
      BY <2>2, <2>3
    <3> HIDE DEF K, n
    <3>2. QED
      BY <2>1, <3>1
  <2>5. PICK g : Up(n - 1, g)
    BY <2>4
  <2> DEFINE h == [s \in SUBSET S |-> IF s = {} THEN 0 ELSE f[Pick(s)] + g[s \ {Pick(s)}]]
  <2>6. ASSUME NEW s \in SUBSET S, Cardinality(s) <= n
        PROVE  h[s] = IF s = {} THEN 0 ELSE f[Pick(s)] + h[s \ {Pick(s)}]
    <3>1. CASE s = {}
      BY <3>1
    <3>2. CASE s # {}
      <4> DEFINE r == s \ {Pick(s)}
      <4>1. r \in SUBSET S /\ Cardinality(r) <= n - 1
        BY <1>1, <1>2, <2>2, <2>6, <3>2
      <4>2. g[r] = h[r]
        BY <2>5, <4>1
      <4>3. QED
        BY <3>2, <4>2
    <3>3. QED
      BY <3>1, <3>2
  <2>7. Up(n, h)
    BY <2>6
  <2>8. QED
    BY <2>2, <2>7
<1>5. PICK g : Up(Cardinality(S), g)
  BY <1>1, <1>4
<1>6. \A s \in SUBSET S : Cardinality(s) <= Cardinality(S)
  BY FS_Subset
<1> DEFINE h == [s \in SUBSET S |-> g[s]]
<1>7. \A s \in SUBSET S : h[s] = IF s = {} THEN 0 ELSE f[Pick(s)] + h[s \ {Pick(s)}]
  BY <1>5, <1>6
<1>8. Sums(h, S, f)
  BY <1>7 DEF Sums
<1>9. QED
  BY <1>8

\* The value does not depend on the function chosen.
LEMMA SumsAgree ==
  ASSUME NEW S, IsFiniteSet(S), NEW f, NEW g, Sums(g, S, f), NEW T \in SUBSET S,
         NEW e, \A x \in T : e[x] = f[x], NEW h, Sums(h, T, e)
  PROVE  g[T] = h[T]
<1> DEFINE K == {s \in SUBSET T : g[s] # h[s]}
<1> SUFFICES K = {}
  OBVIOUS
<1> SUFFICES ASSUME K # {} PROVE FALSE
  OBVIOUS
<1>1. IsFiniteSet(T)
  BY FS_Subset
<1>2. K \in SUBSET (SUBSET T)
  OBVIOUS
<1>3. PICK s \in K : \A y \in K : y \subseteq s => y = s
  <2> HIDE DEF K
  <2> QED
    BY <1>1, <1>2, SmallestSet
<1>4. s \in SUBSET T /\ s \in SUBSET S /\ g[s] # h[s]
  OBVIOUS
<1>5. /\ g[s] = IF s = {} THEN 0 ELSE f[Pick(s)] + g[s \ {Pick(s)}]
      /\ h[s] = IF s = {} THEN 0 ELSE e[Pick(s)] + h[s \ {Pick(s)}]
  BY <1>4 DEF Sums
<1>6. s # {}
  BY <1>4, <1>5
<1>7. Pick(s) \in s
  BY <1>6, PickIn
<1> DEFINE r == s \ {Pick(s)}
<1>8. r \in SUBSET T /\ r \subseteq s /\ r # s
  BY <1>4, <1>7
<1>9. g[r] = h[r]
  <2> HIDE DEF r
  <2>1. r \notin K
    BY <1>3, <1>8
  <2>2. QED
    BY <1>8, <2>1
<1>10. e[Pick(s)] = f[Pick(s)]
  BY <1>4, <1>7
<1>11. QED
  BY <1>4, <1>5, <1>6, <1>9, <1>10

LEMMA SumIs ==
  ASSUME NEW S, IsFiniteSet(S), NEW f, NEW g, Sums(g, S, f)
  PROVE  Sum(f, S) = g[S]
<1> DEFINE h == CHOOSE h : Sums(h, S, f)
<1>1. Sums(h, S, f)
  BY SumsExist
<1> HIDE DEF h
<1>2. S \in SUBSET S /\ \A x \in S : f[x] = f[x]
  OBVIOUS
<1>3. h[S] = g[S]
  BY <1>1, <1>2, SumsAgree
<1>4. QED
  BY <1>3 DEF Sum, h

LEMMA SumSame ==
  ASSUME NEW S, IsFiniteSet(S), NEW f, NEW e, \A x \in S : e[x] = f[x]
  PROVE  Sum(e, S) = Sum(f, S)
<1>1. PICK g : Sums(g, S, f)
  BY SumsExist
<1>2. PICK h : Sums(h, S, e)
  BY SumsExist
<1>3. S \in SUBSET S
  OBVIOUS
<1>4. g[S] = h[S]
  BY <1>1, <1>2, <1>3, SumsAgree
<1>5. Sum(f, S) = g[S] /\ Sum(e, S) = h[S]
  BY <1>1, <1>2, SumIs
<1>6. QED
  BY <1>4, <1>5

LEMMA SumEmpty == ASSUME NEW f PROVE Sum(f, {}) = 0
<1>1. IsFiniteSet({})
  BY FS_EmptySet
<1>2. PICK g : Sums(g, {}, f)
  BY <1>1, SumsExist
<1>3. g[{}] = 0
  BY <1>2 DEF Sums
<1>4. QED
  BY <1>1, <1>2, <1>3, SumIs

LEMMA SumsInt ==
  ASSUME NEW S, IsFiniteSet(S), NEW f, \A x \in S : f[x] \in Int, NEW g, Sums(g, S, f)
  PROVE  \A s \in SUBSET S : g[s] \in Int
<1> DEFINE K == {s \in SUBSET S : g[s] \notin Int}
<1> SUFFICES ASSUME K # {} PROVE FALSE
  OBVIOUS
<1>2. K \in SUBSET (SUBSET S)
  OBVIOUS
<1>3. PICK s \in K : \A y \in K : y \subseteq s => y = s
  <2> HIDE DEF K
  <2> QED
    BY <1>2, SmallestSet
<1>4. s \in SUBSET S /\ g[s] \notin Int
  OBVIOUS
<1>5. g[s] = IF s = {} THEN 0 ELSE f[Pick(s)] + g[s \ {Pick(s)}]
  BY <1>4 DEF Sums
<1>6. s # {}
  BY <1>4, <1>5
<1>7. Pick(s) \in s /\ f[Pick(s)] \in Int
  BY <1>4, <1>6, PickIn
<1> DEFINE r == s \ {Pick(s)}
<1>8. r \in SUBSET S /\ r \subseteq s /\ r # s
  BY <1>4, <1>7
<1>9. g[r] \in Int
  <2> HIDE DEF r
  <2>1. r \notin K
    BY <1>3, <1>8
  <2>2. QED
    BY <1>8, <2>1
<1>10. QED
  BY <1>4, <1>5, <1>6, <1>7, <1>9

\* Any element may be taken out first.
LEMMA SumsRemove ==
  ASSUME NEW S, IsFiniteSet(S), NEW f, \A x \in S : f[x] \in Int, NEW g, Sums(g, S, f),
         NEW t \in SUBSET S, NEW z \in t
  PROVE  g[t] = f[z] + g[t \ {z}]
<1> DEFINE K == {s \in SUBSET S : \E x \in s : g[s] # f[x] + g[s \ {x}]}
<1> SUFFICES ASSUME K # {} PROVE FALSE
  OBVIOUS
<1>1. \A s \in SUBSET S : g[s] \in Int
  BY SumsInt
<1>2. K \in SUBSET (SUBSET S)
  OBVIOUS
<1>3. PICK s \in K : \A y \in K : y \subseteq s => y = s
  <2> HIDE DEF K
  <2> QED
    BY <1>2, SmallestSet
<1>4. PICK x \in s : g[s] # f[x] + g[s \ {x}]
  OBVIOUS
<1> DEFINE c == Pick(s)
<1>5. s \in SUBSET S /\ c \in s /\ x \in S /\ c \in S
  BY PickIn
<1>6. g[s] = f[c] + g[s \ {c}]
  BY <1>5 DEF Sums
<1>7. c # x
  BY <1>4, <1>6
<1> HIDE DEF c
<1>8. \A y \in SUBSET s : y # s => \A w \in y : g[y] = f[w] + g[y \ {w}]
  BY <1>3, <1>5
<1>9. s \ {c} \in SUBSET s /\ s \ {c} # s /\ x \in s \ {c}
  BY <1>5, <1>7
<1>10. s \ {x} \in SUBSET s /\ s \ {x} # s /\ c \in s \ {x}
  BY <1>5, <1>7
<1> DEFINE r == s \ {c, x}
<1>11. (s \ {c}) \ {x} = r /\ (s \ {x}) \ {c} = r /\ r \in SUBSET S
  BY <1>5
<1>14. g[r] \in Int /\ f[x] \in Int /\ f[c] \in Int
  BY <1>1, <1>5, <1>11
<1> HIDE DEF r, K
<1>12. g[s \ {c}] = f[x] + g[r]
  <2>1. g[s \ {c}] = f[x] + g[(s \ {c}) \ {x}]
    BY <1>8, <1>9
  <2>2. QED
    BY <1>11, <2>1
<1>13. g[s \ {x}] = f[c] + g[r]
  <2>1. g[s \ {x}] = f[c] + g[(s \ {x}) \ {c}]
    BY <1>8, <1>10
  <2>2. QED
    BY <1>11, <2>1
<1>15. QED
  BY <1>4, <1>6, <1>12, <1>13, <1>14

LEMMA SumInt ==
  ASSUME NEW S, IsFiniteSet(S), NEW f, \A x \in S : f[x] \in Int
  PROVE  Sum(f, S) \in Int
<1>1. PICK g : Sums(g, S, f)
  BY SumsExist
<1>2. QED
  BY <1>1, SumsInt, SumIs

LEMMA SumRemove ==
  ASSUME NEW S, IsFiniteSet(S), NEW f, \A x \in S : f[x] \in Int, NEW z \in S
  PROVE  Sum(f, S) = f[z] + Sum(f, S \ {z})
<1> DEFINE R == S \ {z}
<1>1. PICK g : Sums(g, S, f)
  BY SumsExist
<1>2. IsFiniteSet(R) /\ R \in SUBSET S /\ S \in SUBSET S
  BY FS_Subset
<1>3. PICK h : Sums(h, R, f)
  BY <1>2, SumsExist
<1>4. g[R] = h[R]
  <2> HIDE DEF R
  <2>1. \A x \in R : f[x] = f[x]
    OBVIOUS
  <2>2. QED
    BY <1>1, <1>2, <1>3, <2>1, SumsAgree
<1>5. g[S] = f[z] + g[R]
  BY <1>1, <1>2, SumsRemove
<1> HIDE DEF R
<1>6. Sum(f, S) = g[S] /\ Sum(f, R) = h[R]
  BY <1>1, <1>2, <1>3, SumIs
<1>7. QED
  BY <1>4, <1>5, <1>6 DEF R

\* One summand changes.
LEMMA SumChange ==
  ASSUME NEW S, IsFiniteSet(S), NEW f, NEW e, NEW z \in S,
         \A x \in S : f[x] \in Int /\ e[x] \in Int /\ (x # z => e[x] = f[x])
  PROVE  Sum(e, S) = Sum(f, S) + (e[z] - f[z])
<1> DEFINE R == S \ {z}
<1>1. IsFiniteSet(R)
  BY FS_Subset
<1>2. Sum(e, R) = Sum(f, R)
  BY <1>1, SumSame
<1>3. Sum(f, S) = f[z] + Sum(f, R) /\ Sum(e, S) = e[z] + Sum(e, R)
  BY SumRemove
<1>4. Sum(f, R) \in Int
  BY <1>1, SumInt
<1> HIDE DEF R
<1>5. QED
  BY <1>2, <1>3, <1>4

\* One summand more.
LEMMA SumAdd ==
  ASSUME NEW S, IsFiniteSet(S), NEW f, NEW z, z \notin S, \A x \in S \cup {z} : f[x] \in Int
  PROVE  Sum(f, S \cup {z}) = Sum(f, S) + f[z]
<1>1. IsFiniteSet(S \cup {z}) /\ z \in S \cup {z} /\ (S \cup {z}) \ {z} = S
  BY FS_AddElement
<1>2. Sum(f, S \cup {z}) = f[z] + Sum(f, S)
  BY <1>1, SumRemove
<1>3. Sum(f, S) \in Int /\ f[z] \in Int
  BY SumInt
<1>4. QED
  BY <1>2, <1>3

\* Larger summands, larger sum.
LEMMA SumGrows ==
  ASSUME NEW S, IsFiniteSet(S), NEW f, NEW e,
         \A x \in S : f[x] \in Int /\ e[x] \in Int /\ f[x] <= e[x]
  PROVE  Sum(f, S) <= Sum(e, S)
<1> DEFINE K == {s \in SUBSET S : ~(Sum(f, s) <= Sum(e, s))}
<1> SUFFICES ASSUME K # {} PROVE FALSE
  OBVIOUS
<1>1. K \in SUBSET (SUBSET S)
  OBVIOUS
<1>2. PICK s \in K : \A y \in K : y \subseteq s => y = s
  <2> HIDE DEF K
  <2> QED
    BY <1>1, SmallestSet
<1>3. s \in SUBSET S /\ ~(Sum(f, s) <= Sum(e, s)) /\ IsFiniteSet(s)
  BY FS_Subset
<1>4. s # {}
  BY <1>3, SumEmpty
<1>5. PICK z \in s : TRUE
  BY <1>4
<1> DEFINE r == s \ {z}
<1>6. r \in SUBSET S /\ r \subseteq s /\ r # s /\ IsFiniteSet(r) /\ z \in S
  BY <1>3, <1>5, FS_Subset
<1>7. Sum(f, s) = f[z] + Sum(f, r) /\ Sum(e, s) = e[z] + Sum(e, r)
  BY <1>3, SumRemove
<1> HIDE DEF r
<1>8. Sum(f, r) <= Sum(e, r)
  <2>1. r \notin K
    BY <1>2, <1>6
  <2>2. QED
    BY <1>6, <2>1
<1>9. Sum(f, r) \in Int /\ Sum(e, r) \in Int
  BY <1>6, SumInt
<1>10. f[z] \in Int /\ e[z] \in Int /\ f[z] <= e[z]
  BY <1>6
<1>11. QED
  BY <1>3, <1>7, <1>8, <1>9, <1>10

LEMMA ZeroSum ==
  ASSUME NEW S, IsFiniteSet(S), NEW f, \A x \in S : f[x] = 0
  PROVE  Sum(f, S) = 0
<1> DEFINE K == {s \in SUBSET S : Sum(f, s) # 0}
<1> SUFFICES ASSUME K # {} PROVE FALSE
  OBVIOUS
<1>1. K \in SUBSET (SUBSET S)
  OBVIOUS
<1>2. \A s \in K : s \in SUBSET S /\ Sum(f, s) # 0
  OBVIOUS
<1>3. \A s \in SUBSET S : s \in K <=> Sum(f, s) # 0
  OBVIOUS
<1> HIDE DEF K
<1>4. PICK s \in K : \A y \in K : y \subseteq s => y = s
  BY <1>1, SmallestSet
<1>5. s # {}
  BY <1>2, SumEmpty
<1>6. PICK x : x \in s
  BY <1>5
<1>7. s \ {x} \notin K /\ s \ {x} \in SUBSET S
  BY <1>2, <1>4, <1>6
<1>8. Sum(f, s \ {x}) = 0
  BY <1>3, <1>7
<1>9. IsFiniteSet(s) /\ \A y \in s : f[y] \in Int
  BY <1>2, FS_Subset
<1>10. Sum(f, s) = f[x] + Sum(f, s \ {x})
  BY <1>6, <1>9, SumRemove
<1>11. QED
  BY <1>2, <1>6, <1>8, <1>10

LEMMA SumNat ==
  ASSUME NEW S, IsFiniteSet(S), NEW f, \A x \in S : f[x] \in Nat
  PROVE  Sum(f, S) \in Nat /\ \A x \in S : f[x] <= Sum(f, S)
<1> DEFINE none == [x \in S |-> 0]
<1>1. ASSUME NEW T \in SUBSET S PROVE Sum(f, T) \in Nat
  <2>1. IsFiniteSet(T) /\ \A x \in T : f[x] \in Int /\ none[x] = 0 /\ none[x] <= f[x]
    BY FS_Subset
  <2> HIDE DEF none
  <2>2. Sum(none, T) = 0 /\ Sum(f, T) \in Int
    BY <2>1, ZeroSum, SumInt
  <2>3. Sum(none, T) <= Sum(f, T)
    BY <2>1, SumGrows
  <2>4. QED
    BY <2>2, <2>3
<1>2. ASSUME NEW x \in S PROVE f[x] <= Sum(f, S)
  <2>1. Sum(f, S) = f[x] + Sum(f, S \ {x})
    BY SumRemove
  <2>2. Sum(f, S \ {x}) \in Nat /\ f[x] \in Nat
    BY <1>1
  <2>3. QED
    BY <2>1, <2>2
<1>3. QED
  BY <1>1, <1>2

LEMMA SumSplit ==
  ASSUME NEW S, IsFiniteSet(S), NEW f, \A x \in S : f[x] \in Int, NEW T \in SUBSET S
  PROVE  Sum(f, S) = Sum(f, T) + Sum(f, S \ T)
<1> DEFINE K == {t \in SUBSET T : Sum(f, S) # Sum(f, t) + Sum(f, S \ t)}
<1> SUFFICES ASSUME K # {} PROVE FALSE
  OBVIOUS
<1>1. K \in SUBSET (SUBSET T) /\ IsFiniteSet(T)
  BY FS_Subset
<1>2. \A t \in SUBSET T : t \in K <=> Sum(f, S) # Sum(f, t) + Sum(f, S \ t)
  OBVIOUS
<1> HIDE DEF K
<1>3. PICK t \in K : \A y \in K : y \subseteq t => y = t
  BY <1>1, SmallestSet
<1>4. t \in SUBSET T /\ IsFiniteSet(t) /\ IsFiniteSet(S \ t)
  BY <1>1, <1>3, FS_Subset
<1>5. t # {}
  <2>1. S \ {} = S /\ Sum(f, S) \in Int
    BY SumInt
  <2>2. Sum(f, {}) = 0 /\ {} \in SUBSET T
    BY SumEmpty
  <2>3. Sum(f, S) = Sum(f, {}) + Sum(f, S \ {})
    BY <2>1, <2>2
  <2>4. {} \notin K
    BY <1>2, <2>2, <2>3
  <2>5. QED
    BY <1>3, <2>4
<1>6. PICK x : x \in t
  BY <1>5
<1> DEFINE r == t \ {x}
<1>7. r \in SUBSET T /\ r \notin K
  BY <1>3, <1>4, <1>6
<1>8. Sum(f, S) = Sum(f, r) + Sum(f, S \ r)
  BY <1>2, <1>7
<1>9. Sum(f, t) = f[x] + Sum(f, r)
  BY <1>4, <1>6, SumRemove
<1>10. Sum(f, S \ r) = f[x] + Sum(f, S \ t)
  <2>1. (S \ r) \ {x} = S \ t /\ x \in S \ r /\ IsFiniteSet(S \ r)
    BY <1>4, <1>6, FS_Subset
  <2>2. \A y \in S \ r : f[y] \in Int
    OBVIOUS
  <2> HIDE DEF r
  <2>3. Sum(f, S \ r) = f[x] + Sum(f, (S \ r) \ {x})
    BY <2>1, <2>2, SumRemove
  <2>4. QED
    BY <2>1, <2>3
<1>11. IsFiniteSet(r)
  BY <1>4, FS_Subset
<1> HIDE DEF r
<1>12. Sum(f, r) \in Int /\ Sum(f, S \ t) \in Int /\ f[x] \in Int
  BY <1>4, <1>6, <1>7, <1>11, SumInt
<1>13. Sum(f, S) = Sum(f, t) + Sum(f, S \ t)
  BY <1>8, <1>9, <1>10, <1>12
<1>14. QED
  BY <1>2, <1>3, <1>4, <1>13

LEMMA SumCount ==
  ASSUME NEW S, IsFiniteSet(S), NEW L \in SUBSET S, NEW f, NEW e,
         \A x \in S : f[x] \in Int /\ e[x] = f[x] + IF x \in L THEN 1 ELSE 0
  PROVE  Sum(e, S) = Sum(f, S) + Cardinality(L)
<1>1. IsFiniteSet(L) /\ IsFiniteSet(S \ L) /\ \A x \in S : e[x] \in Int
  BY FS_Subset
<1>2. Sum(e, S \ L) = Sum(f, S \ L)
  BY <1>1, SumSame
<1> DEFINE K == {t \in SUBSET L : Sum(e, t) # Sum(f, t) + Cardinality(t)}
<1>3. K = {}
  <2> SUFFICES ASSUME K # {} PROVE FALSE
    OBVIOUS
  <2>1. K \in SUBSET (SUBSET L)
    OBVIOUS
  <2>2. \A t \in SUBSET L : t \in K <=> Sum(e, t) # Sum(f, t) + Cardinality(t)
    OBVIOUS
  <2> HIDE DEF K
  <2>3. PICK t \in K : \A y \in K : y \subseteq t => y = t
    BY <1>1, <2>1, SmallestSet
  <2>4. t \in SUBSET L /\ IsFiniteSet(t)
    BY <1>1, <2>1, <2>3, FS_Subset
  <2>5. t # {}
    <3>1. Sum(e, {}) = 0 /\ Sum(f, {}) = 0 /\ Cardinality({}) = 0 /\ {} \in SUBSET L
      BY SumEmpty, FS_EmptySet
    <3>2. {} \notin K
      BY <2>2, <3>1
    <3>3. QED
      BY <2>3, <3>2
  <2>6. PICK x : x \in t
    BY <2>5
  <2> DEFINE r == t \ {x}
  <2>7. r \in SUBSET L /\ r \notin K /\ IsFiniteSet(r)
    BY <2>3, <2>4, <2>6, FS_Subset
  <2>8. Sum(e, r) = Sum(f, r) + Cardinality(r)
    BY <2>2, <2>7
  <2>9. Sum(e, t) = e[x] + Sum(e, r) /\ Sum(f, t) = f[x] + Sum(f, r)
    BY <1>1, <2>4, <2>6, SumRemove
  <2>10. Cardinality(r) = Cardinality(t) - 1 /\ Cardinality(t) \in Nat /\ Cardinality(r) \in Nat
    BY <2>4, <2>6, <2>7, FS_RemoveElement, FS_CardinalityType
  <2> HIDE DEF r
  <2>11. Sum(f, r) \in Int /\ f[x] \in Int /\ e[x] = f[x] + 1
    BY <1>1, <2>4, <2>6, <2>7, SumInt
  <2>12. QED
    BY <2>2, <2>3, <2>4, <2>8, <2>9, <2>10, <2>11
<1>4. Sum(e, L) = Sum(f, L) + Cardinality(L)
  BY <1>3
<1> HIDE DEF K
<1>5. Sum(e, S) = Sum(e, L) + Sum(e, S \ L) /\ Sum(f, S) = Sum(f, L) + Sum(f, S \ L)
  BY <1>1, SumSplit
<1>6. Sum(f, L) \in Int /\ Sum(f, S \ L) \in Int /\ Cardinality(L) \in Nat
  BY <1>1, SumInt, FS_CardinalityType
<1>7. QED
  BY <1>2, <1>4, <1>5, <1>6
=============================================================================
