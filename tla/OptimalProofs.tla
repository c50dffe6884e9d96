------------------------------ MODULE OptimalProofs ------------------------------
(***************************************************************************)
(* Why no algorithm of the report has a smaller sum of turnaround times    *)
(* than STCF.  What an algorithm has done is a history: how much everybody *)
(* still needs at each time.  Of two histories of one workload, one that   *)
(* always runs who needs least is at no time behind the other: leaving     *)
(* aside any number of processes, the rest of those who have arrived needs *)
(* no more in it.  So it never has more of them unfinished, and the sum    *)
(* over time of how many are unfinished is the sum of turnaround times.    *)
(***************************************************************************)
EXTENDS TimelineProofs

USE DEF copyVars, cpuVars, fifoVars, queueVars, vars

-----------------------------------------------------------------------------
(* Histories.                                                              *)

\* R with one unit less for q, who needs it.
RunsUnit(R, S, q) == R[q] > 0 /\ S = [R EXCEPT ![q] = @ - 1]

\* With arrival times A and bursts B: one process at a time, after it arrived.
History(h, A, B) ==
  /\ h \in [Nat -> [Procs -> Nat]]
  /\ \A t \in Nat, q \in Procs : t <= A[q] => h[t][q] = B[q]
  /\ \A t \in Nat : h[t + 1] = h[t] \/ \E q \in Procs : RunsUnit(h[t], h[t + 1], q)

Arrived(A, t) == {q \in Procs : A[q] <= t}

\* From R to S the CPU is with one of V who needs least, or nobody needs it.
RunsShortest(R, S, V) ==
  \/ S = R /\ \A q \in V : R[q] = 0
  \/ \E q \in V : RunsUnit(R, S, q) /\ \A r \in V : R[r] > 0 => R[q] <= R[r]

Shortest(h, A, t) == RunsShortest(h[t], h[t + 1], Arrived(A, t))

\* Whoever is left aside in R, as many in S: the others of V need no more.
Leads(S, R, V) ==
  \A E \in SUBSET V : \E F \in SUBSET V :
    Cardinality(F) <= Cardinality(E) /\ Sum(S, V \ F) <= Sum(R, V \ E)

LEMMA ProcsFinite == ASSUME NEW V \in SUBSET Procs PROVE IsFiniteSet(V) /\ Cardinality(V) \in Nat
<1>1. IsFiniteSet(Procs)
  BY SchedulerAssumption, FS_Interval DEF Procs
<1>2. QED
  BY <1>1, FS_Subset, FS_CardinalityType

LEMMA NeedNat == ASSUME NEW R \in [Procs -> Nat], NEW V \in SUBSET Procs PROVE Sum(R, V) \in Nat
<1>1. IsFiniteSet(V) /\ \A q \in V : R[q] \in Nat
  BY ProcsFinite
<1>2. QED
  BY <1>1, SumNat

LEMMA UnitSum ==
  ASSUME NEW R \in [Procs -> Nat], NEW S, NEW q \in Procs, RunsUnit(R, S, q), NEW V \in SUBSET Procs
  PROVE  S \in [Procs -> Nat] /\ Sum(S, V) = Sum(R, V) - IF q \in V THEN 1 ELSE 0
<1>1. S \in [Procs -> Nat] /\ S[q] = R[q] - 1 /\ \A r \in Procs : r # q => S[r] = R[r]
  BY DEF RunsUnit
<1>2. IsFiniteSet(V) /\ Sum(R, V) \in Nat
  BY ProcsFinite, NeedNat
<1>3. \A r \in V : R[r] \in Int /\ S[r] \in Int /\ (r # q => S[r] = R[r])
  BY <1>1
<1>4. CASE q \in V
  <2>1. Sum(S, V) = Sum(R, V) + (S[q] - R[q])
    BY <1>2, <1>3, <1>4, SumChange
  <2>2. QED
    BY <1>1, <1>2, <1>4, <2>1
<1>5. CASE q \notin V
  <2>1. \A r \in V : S[r] = R[r]
    BY <1>3, <1>5
  <2>2. Sum(S, V) = Sum(R, V)
    BY <1>2, <2>1, SumSame
  <2>3. QED
    BY <1>1, <1>2, <1>5, <2>2
<1>6. QED
  BY <1>4, <1>5

\* One step of each.
LEMMA LeadsStep ==
  ASSUME NEW V \in SUBSET Procs, NEW S \in [Procs -> Nat], NEW S2, NEW R \in [Procs -> Nat], NEW R2,
         Leads(S, R, V), RunsShortest(S, S2, V), R2 = R \/ \E q \in Procs : RunsUnit(R, R2, q)
  PROVE  Leads(S2, R2, V)
<1> SUFFICES ASSUME NEW E \in SUBSET V
             PROVE  \E F \in SUBSET V : Cardinality(F) <= Cardinality(E) /\ Sum(S2, V \ F) <= Sum(R2, V \ E)
  BY DEF Leads
<1>1. PICK F \in SUBSET V : Cardinality(F) <= Cardinality(E) /\ Sum(S, V \ F) <= Sum(R, V \ E)
  BY DEF Leads
<1>2. /\ Sum(R, V \ E) \in Nat /\ Sum(R2, V \ E) \in Nat
      /\ Sum(R2, V \ E) = Sum(R, V \ E) \/ Sum(R2, V \ E) = Sum(R, V \ E) - 1
  <2>1. V \ E \in SUBSET Procs
    OBVIOUS
  <2>2. Sum(R, V \ E) \in Nat
    BY <2>1, NeedNat
  <2>3. CASE R2 = R
    BY <2>2, <2>3
  <2>4. CASE \E q \in Procs : RunsUnit(R, R2, q)
    <3>1. PICK q \in Procs : RunsUnit(R, R2, q)
      BY <2>4
    <3>2. R2 \in [Procs -> Nat] /\ Sum(R2, V \ E) = Sum(R, V \ E) - IF q \in V \ E THEN 1 ELSE 0
      BY <2>1, <3>1, UnitSum
    <3>3. Sum(R2, V \ E) \in Nat
      BY <2>1, <3>2, NeedNat
    <3>4. QED
      BY <2>2, <3>2, <3>3
  <2>5. QED
    BY <2>3, <2>4
<1>3. ASSUME NEW G \in SUBSET V, \A q \in V \ G : S2[q] = 0
      PROVE  Sum(S2, V \ G) <= Sum(R2, V \ E)
  <2>1. IsFiniteSet(V \ G)
    BY ProcsFinite
  <2>2. Sum(S2, V \ G) = 0
    BY <1>3, <2>1, ZeroSum
  <2>3. QED
    BY <1>2, <2>2
<1>4. CASE S2 = S /\ \A q \in V : S[q] = 0
  <2>1. \A q \in V \ E : S2[q] = 0
    BY <1>4
  <2>2. Sum(S2, V \ E) <= Sum(R2, V \ E)
    BY <1>3, <2>1
  <2>3. Cardinality(E) <= Cardinality(E)
    BY ProcsFinite
  <2>4. QED
    BY <2>2, <2>3
<1>5. ASSUME NEW q \in V, RunsUnit(S, S2, q), \A r \in V : S[r] > 0 => S[q] <= S[r]
      PROVE  \E G \in SUBSET V : Cardinality(G) <= Cardinality(E) /\ Sum(S2, V \ G) <= Sum(R2, V \ E)
  <2>1. /\ \A G \in SUBSET V : /\ Sum(S, V \ G) \in Nat
                               /\ Sum(S2, V \ G) = Sum(S, V \ G) - IF q \in V \ G THEN 1 ELSE 0
        /\ S[q] \in Nat /\ S[q] > 0
    <3>1. ASSUME NEW G \in SUBSET V
          PROVE  /\ Sum(S, V \ G) \in Nat
                 /\ Sum(S2, V \ G) = Sum(S, V \ G) - IF q \in V \ G THEN 1 ELSE 0
      <4>1. V \ G \in SUBSET Procs /\ q \in Procs
        OBVIOUS
      <4>2. QED
        BY <1>5, <4>1, NeedNat, UnitSum
    <3>2. S[q] \in Nat /\ S[q] > 0
      BY <1>5 DEF RunsUnit
    <3>3. QED
      BY <3>1, <3>2
  <2>2. CASE q \notin F
    <3>1. Sum(S2, V \ F) <= Sum(R2, V \ E)
      BY <1>1, <1>2, <2>1, <2>2
    <3>2. QED
      BY <1>1, <3>1
  <2>3. CASE q \in F /\ \A r \in V \ F : S[r] = 0
    <3>1. \A r \in V \ F : S2[r] = 0
      BY <1>5, <2>3 DEF RunsUnit
    <3>2. Sum(S2, V \ F) <= Sum(R2, V \ E)
      BY <1>3, <3>1
    <3>3. QED
      BY <1>1, <3>2
  <2>4. CASE q \in F /\ \E r \in V \ F : S[r] # 0
    <3>1. PICK r \in V \ F : S[r] # 0
      BY <2>4
    <3>2. S[r] \in Nat /\ S[q] <= S[r] /\ r # q
      BY <1>5, <2>4, <3>1
    <3> DEFINE G == (F \ {q}) \cup {r}
               M == V \ (F \cup {r})
    <3>3. /\ G \in SUBSET V /\ M \in SUBSET Procs /\ q \notin M /\ r \notin M
          /\ V \ G = M \cup {q} /\ V \ F = M \cup {r} /\ q \in V \ G
      BY <2>4, <3>1, <3>2
    <3>4. Cardinality(G) = Cardinality(F)
      <4>1. IsFiniteSet(F) /\ IsFiniteSet(F \ {q}) /\ Cardinality(F) \in Nat
        BY ProcsFinite
      <4>2. Cardinality(F \ {q}) = Cardinality(F) - 1
        BY <2>4, <4>1, FS_RemoveElement
      <4>3. Cardinality(G) = Cardinality(F \ {q}) + 1
        BY <3>1, <4>1, FS_AddElement
      <4>4. QED
        BY <4>1, <4>2, <4>3
    <3> HIDE DEF G, M
    <3>5. IsFiniteSet(M) /\ Sum(S, M) \in Nat
      BY <3>3, ProcsFinite, NeedNat
    <3>6. Sum(S, M \cup {q}) = Sum(S, M) + S[q] /\ Sum(S, M \cup {r}) = Sum(S, M) + S[r]
      <4>1. (\A x \in M \cup {q} : S[x] \in Int) /\ (\A x \in M \cup {r} : S[x] \in Int)
        BY <3>1, <3>3
      <4>2. QED
        BY <3>3, <3>5, <4>1, SumAdd
    <3>7. Sum(S, V \ G) <= Sum(S, V \ F)
      <4>1. Sum(S, V \ G) = Sum(S, M) + S[q] /\ Sum(S, V \ F) = Sum(S, M) + S[r]
        BY <3>3, <3>6
      <4>2. Sum(S, M) \in Nat /\ S[q] \in Nat /\ S[r] \in Nat /\ S[q] <= S[r]
        BY <2>1, <3>2, <3>5
      <4>3. QED
        BY <4>1, <4>2
    <3>8. Sum(S2, V \ G) = Sum(S, V \ G) - 1 /\ Sum(S, V \ G) \in Nat /\ Sum(S, V \ F) \in Nat
      BY <2>1, <3>3
    <3>9. Sum(S2, V \ G) <= Sum(R2, V \ E)
      BY <1>1, <1>2, <3>7, <3>8
    <3>10. Cardinality(G) <= Cardinality(E)
      BY <1>1, <3>4
    <3>11. QED
      BY <3>3, <3>9, <3>10
  <2>5. QED
    BY <2>2, <2>3, <2>4
<1>6. QED
  BY <1>4, <1>5 DEF RunsShortest

\* Some more arrive, who need the same in both.
LEMMA LeadsMore ==
  ASSUME NEW V \in SUBSET Procs, NEW W \in SUBSET Procs, V \cap W = {},
         NEW S \in [Procs -> Nat], NEW R \in [Procs -> Nat], Leads(S, R, V), \A q \in W : S[q] = R[q]
  PROVE  Leads(S, R, V \cup W)
<1> SUFFICES ASSUME NEW E \in SUBSET (V \cup W)
             PROVE  \E F \in SUBSET (V \cup W) :
                      /\ Cardinality(F) <= Cardinality(E)
                      /\ Sum(S, (V \cup W) \ F) <= Sum(R, (V \cup W) \ E)
  BY DEF Leads
<1> DEFINE EV == E \cap V
           EW == E \cap W
<1>1. PICK D \in SUBSET V : Cardinality(D) <= Cardinality(EV) /\ Sum(S, V \ D) <= Sum(R, V \ EV)
  <2>1. EV \in SUBSET V
    OBVIOUS
  <2> HIDE DEF EV
  <2>2. QED
    BY <2>1 DEF Leads
<1> DEFINE F == D \cup EW
           ME == (V \cup W) \ E
           MF == (V \cup W) \ F
<1>2. /\ EV \in SUBSET Procs /\ EW \in SUBSET Procs /\ D \in SUBSET Procs
      /\ D \cap EW = {} /\ EV \cap EW = {} /\ E = EV \cup EW
  OBVIOUS
<1>3. Cardinality(F) = Cardinality(D) + Cardinality(EW) /\ Cardinality(E) = Cardinality(EV) + Cardinality(EW)
  <2> HIDE DEF EV, EW
  <2>1. /\ IsFiniteSet(D) /\ IsFiniteSet(EV) /\ IsFiniteSet(EW)
        /\ Cardinality(D) \in Nat /\ Cardinality(EV) \in Nat /\ Cardinality(EW) \in Nat
    BY <1>2, ProcsFinite
  <2>2. /\ Cardinality(D \cup EW) = Cardinality(D) + Cardinality(EW) - Cardinality(D \cap EW)
        /\ Cardinality(EV \cup EW) = Cardinality(EV) + Cardinality(EW) - Cardinality(EV \cap EW)
    BY <2>1, FS_Union
  <2>3. Cardinality(D \cap EW) = 0 /\ Cardinality(EV \cap EW) = 0
    BY <1>2, FS_EmptySet
  <2>4. Cardinality(D \cup EW) = Cardinality(D) + Cardinality(EW)
    BY <2>1, <2>2, <2>3
  <2>5. Cardinality(EV \cup EW) = Cardinality(EV) + Cardinality(EW)
    BY <2>1, <2>2, <2>3
  <2>6. QED
    BY <1>2, <2>4, <2>5
<1>4. Cardinality(F) <= Cardinality(E)
  <2>1. Cardinality(D) \in Nat /\ Cardinality(EV) \in Nat /\ Cardinality(EW) \in Nat
    BY <1>2, ProcsFinite
  <2> HIDE DEF EV, EW, F
  <2>2. QED
    BY <1>1, <1>3, <2>1
<1>5. /\ V \ EV \in SUBSET ME /\ ME \ (V \ EV) = W \ EW
      /\ V \ D \in SUBSET MF /\ MF \ (V \ D) = W \ EW
      /\ ME \in SUBSET Procs /\ MF \in SUBSET Procs /\ F \in SUBSET (V \cup W)
  OBVIOUS
<1> HIDE DEF EV, EW, F, ME, MF
<1>6. Sum(R, ME) = Sum(R, V \ EV) + Sum(R, W \ EW) /\ Sum(S, MF) = Sum(S, V \ D) + Sum(S, W \ EW)
  <2>1. /\ IsFiniteSet(ME) /\ IsFiniteSet(MF)
        /\ \A q \in ME : R[q] \in Int
        /\ \A q \in MF : S[q] \in Int
    BY <1>5, ProcsFinite
  <2>2. Sum(R, ME) = Sum(R, V \ EV) + Sum(R, ME \ (V \ EV))
    BY <1>5, <2>1, SumSplit
  <2>3. Sum(S, MF) = Sum(S, V \ D) + Sum(S, MF \ (V \ D))
    BY <1>5, <2>1, SumSplit
  <2>4. QED
    BY <1>5, <2>2, <2>3
<1>7. Sum(S, W \ EW) = Sum(R, W \ EW)
  <2>1. IsFiniteSet(W \ EW)
    BY ProcsFinite
  <2>2. QED
    BY <2>1, SumSame
<1>8. Sum(R, V \ EV) \in Nat /\ Sum(S, V \ D) \in Nat /\ Sum(R, W \ EW) \in Nat
  BY NeedNat
<1>9. Sum(S, MF) <= Sum(R, ME)
  BY <1>1, <1>6, <1>7, <1>8
<1>10. QED
  BY <1>4, <1>5, <1>9 DEF ME, MF

\* Who leads has no more of them unfinished.
LEMMA LeadsFewer ==
  ASSUME NEW V \in SUBSET Procs, NEW S \in [Procs -> Nat], NEW R \in [Procs -> Nat], Leads(S, R, V)
  PROVE  Cardinality({q \in V : S[q] > 0}) <= Cardinality({q \in V : R[q] > 0})
<1> DEFINE E == {q \in V : R[q] > 0}
           L == {q \in V : S[q] > 0}
<1>1. E \in SUBSET V /\ L \in SUBSET V /\ \A q \in V \ E : R[q] = 0
  OBVIOUS
<1>2. \A q \in V : S[q] = 0 => q \notin L
  OBVIOUS
<1> HIDE DEF E, L
<1>3. PICK F \in SUBSET V : Cardinality(F) <= Cardinality(E) /\ Sum(S, V \ F) <= Sum(R, V \ E)
  BY <1>1 DEF Leads
<1>4. Sum(R, V \ E) = 0
  BY <1>1, ProcsFinite, ZeroSum
<1>5. \A q \in V \ F : S[q] <= Sum(S, V \ F)
  <2>1. IsFiniteSet(V \ F) /\ \A q \in V \ F : S[q] \in Nat
    BY ProcsFinite
  <2>2. QED
    BY <2>1, SumNat
<1>6. Sum(S, V \ F) \in Nat
  BY NeedNat
<1>7. \A q \in V \ F : S[q] = 0
  BY <1>3, <1>4, <1>5, <1>6
<1>8. L \subseteq F
  BY <1>1, <1>2, <1>7
<1>9. Cardinality(L) <= Cardinality(F)
  BY <1>8, ProcsFinite, FS_Subset
<1>10. Cardinality(L) \in Nat /\ Cardinality(F) \in Nat /\ Cardinality(E) \in Nat
  BY <1>1, ProcsFinite
<1>11. QED
  BY <1>3, <1>9, <1>10 DEF E, L

\* Of two histories of one workload the shortest one leads at all times.
LEMMA ShortestLeads ==
  ASSUME NEW A \in [Procs -> Nat], NEW B, NEW h, NEW g, History(h, A, B), History(g, A, B),
         \A t \in Nat : Shortest(h, A, t)
  PROVE  \A t \in Nat : Leads(h[t], g[t], Arrived(A, t))
<1> DEFINE K == {t \in Nat : Leads(h[t], g[t], Arrived(A, t))}
<1>1. /\ \A t \in Nat : h[t] \in [Procs -> Nat] /\ g[t] \in [Procs -> Nat] /\ Arrived(A, t) \in SUBSET Procs
      /\ \A t \in Nat, q \in Procs : t <= A[q] => h[t][q] = g[t][q]
  BY DEF History, Arrived
<1>2. 0 \in K
  <2> DEFINE V == Arrived(A, 0)
  <2>1. V \in SUBSET Procs /\ \A q \in V : h[0][q] = g[0][q]
    BY <1>1
  <2> HIDE DEF V
  <2>2. ASSUME NEW E \in SUBSET V
        PROVE  Cardinality(E) <= Cardinality(E) /\ Sum(h[0], V \ E) <= Sum(g[0], V \ E)
    <3>1. IsFiniteSet(V \ E) /\ Cardinality(E) \in Nat
      BY <2>1, ProcsFinite
    <3>2. V \ E \in SUBSET Procs /\ g[0] \in [Procs -> Nat]
      BY <1>1, <2>1
    <3>3. Sum(g[0], V \ E) \in Nat
      BY <3>2, NeedNat
    <3>4. Sum(h[0], V \ E) = Sum(g[0], V \ E)
      BY <2>1, <3>1, SumSame
    <3>5. QED
      BY <3>1, <3>3, <3>4
  <2>3. Leads(h[0], g[0], V)
    BY <2>2 DEF Leads
  <2>4. QED
    BY <2>3 DEF V
<1>3. ASSUME NEW t \in K PROVE t + 1 \in K
  <2> DEFINE V == Arrived(A, t)
             W == Arrived(A, t + 1) \ V
  <2>1. t \in Nat /\ t + 1 \in Nat /\ Leads(h[t], g[t], V)
    OBVIOUS
  <2>2. /\ RunsShortest(h[t], h[t + 1], V)
        /\ g[t + 1] = g[t] \/ \E q \in Procs : RunsUnit(g[t], g[t + 1], q)
    BY <2>1 DEF Shortest, History
  <2>3. V \in SUBSET Procs /\ W \in SUBSET Procs /\ V \cap W = {} /\ V \cup W = Arrived(A, t + 1)
    BY <2>1 DEF Arrived
  <2>4. \A q \in W : h[t + 1][q] = g[t + 1][q]
    <3>1. \A q \in W : q \in Procs /\ t + 1 <= A[q]
      BY <2>1 DEF Arrived
    <3>2. QED
      BY <1>1, <2>1, <3>1
  <2> DEFINE S  == h[t]
             S2 == h[t + 1]
             R  == g[t]
             R2 == g[t + 1]
  <2>5. /\ S \in [Procs -> Nat] /\ R \in [Procs -> Nat] /\ S2 \in [Procs -> Nat] /\ R2 \in [Procs -> Nat]
        /\ Leads(S, R, V) /\ RunsShortest(S, S2, V) /\ (R2 = R \/ \E q \in Procs : RunsUnit(R, R2, q))
        /\ \A q \in W : S2[q] = R2[q]
    BY <1>1, <2>1, <2>2, <2>4
  <2> HIDE DEF K, V, W, S, S2, R, R2
  <2>6. Leads(S2, R2, V)
    BY <2>3, <2>5, LeadsStep
  <2>7. Leads(S2, R2, V \cup W)
    BY <2>3, <2>5, <2>6, LeadsMore
  <2>8. QED
    BY <2>1, <2>3, <2>7 DEF K, S2, R2
<1>4. K \in SUBSET Nat
  OBVIOUS
<1>5. K = Nat
  <2> HIDE DEF K
  <2>1. QED
    BY <1>2, <1>3, <1>4, AllNumbers
<1>6. QED
  BY <1>5

-----------------------------------------------------------------------------
(* Turnaround times.                                                       *)

\* In h everybody finishes at the time C says.
Finishes(h, C) ==
  /\ C \in [Procs -> Nat]
  /\ \A t \in Nat, q \in Procs : h[t][q] = 0 <=> C[q] <= t

Turnaround(A, C) == [q \in Procs |-> C[q] - A[q]]

\* How much of it has gone by at t.
Elapsed(A, C, t) ==
  [q \in Procs |-> IF t <= A[q] THEN 0 ELSE IF t <= C[q] THEN t - A[q] ELSE C[q] - A[q]]

Unfinished(h, A, t) == {q \in Arrived(A, t) : h[t][q] > 0}

LEMMA FinishesLater ==
  ASSUME NEW A \in [Procs -> Nat], NEW B, \A q \in Procs : B[q] > 0,
         NEW h, History(h, A, B), NEW C, Finishes(h, C), NEW q \in Procs
  PROVE  A[q] \in Nat /\ C[q] \in Nat /\ A[q] < C[q]
<1>1. A[q] \in Nat /\ C[q] \in Nat /\ A[q] <= A[q]
  BY DEF Finishes
<1>2. h[A[q]][q] = B[q]
  BY <1>1 DEF History
<1>3. h[A[q]] \in [Procs -> Nat]
  BY <1>1 DEF History
<1>4. h[A[q]][q] # 0
  BY <1>2, <1>3
<1>5. ~(C[q] <= A[q])
  BY <1>1, <1>4 DEF Finishes
<1>6. QED
  BY <1>1, <1>5

LEMMA ElapsedStep ==
  ASSUME NEW A \in [Procs -> Nat], NEW B, \A q \in Procs : B[q] > 0,
         NEW h, History(h, A, B), NEW C, Finishes(h, C), NEW t \in Nat
  PROVE  /\ Sum(Elapsed(A, C, t), Procs) \in Int
         /\ Sum(Elapsed(A, C, t + 1), Procs) =
              Sum(Elapsed(A, C, t), Procs) + Cardinality(Unfinished(h, A, t))
<1> DEFINE f == Elapsed(A, C, t)
           e == Elapsed(A, C, t + 1)
           L == Unfinished(h, A, t)
<1>1. ASSUME NEW q \in Procs PROVE f[q] \in Int /\ e[q] = f[q] + IF q \in L THEN 1 ELSE 0
  <2>1. A[q] \in Nat /\ C[q] \in Nat /\ A[q] < C[q]
    BY FinishesLater
  <2>2. q \in L <=> A[q] <= t /\ ~(C[q] <= t)
    <3>1. h[t][q] \in Nat /\ (h[t][q] = 0 <=> C[q] <= t)
      BY DEF History, Finishes
    <3>2. QED
      BY <3>1 DEF Unfinished, Arrived
  <2>3. /\ f[q] = IF t <= A[q] THEN 0 ELSE IF t <= C[q] THEN t - A[q] ELSE C[q] - A[q]
        /\ e[q] = IF t + 1 <= A[q] THEN 0 ELSE IF t + 1 <= C[q] THEN t + 1 - A[q] ELSE C[q] - A[q]
    BY DEF Elapsed
  <2> HIDE DEF f, e, L
  <2>4. QED
    BY <2>1, <2>2, <2>3
<1>2. L \in SUBSET Procs /\ IsFiniteSet(Procs)
  BY ProcsFinite DEF Unfinished, Arrived
<1> HIDE DEF f, e, L
<1>3. Sum(e, Procs) = Sum(f, Procs) + Cardinality(L)
  BY <1>1, <1>2, SumCount
<1>4. Sum(f, Procs) \in Int
  BY <1>1, <1>2, SumInt
<1>5. QED
  BY <1>3, <1>4 DEF f, e, L

\* A shortest history has the smallest sum of turnaround times.
LEMMA ShortestIsBest ==
  ASSUME NEW A \in [Procs -> Nat], NEW B, \A q \in Procs : B[q] > 0,
         NEW h, History(h, A, B), NEW C, Finishes(h, C), \A t \in Nat : Shortest(h, A, t),
         NEW g, History(g, A, B), NEW D, Finishes(g, D)
  PROVE  Sum(Turnaround(A, C), Procs) <= Sum(Turnaround(A, D), Procs)
<1> DEFINE a(t) == Sum(Elapsed(A, C, t), Procs)
           b(t) == Sum(Elapsed(A, D, t), Procs)
           K    == {t \in Nat : a(t) <= b(t)}
<1>1. IsFiniteSet(Procs)
  BY ProcsFinite
<1>2. ASSUME NEW t \in Nat
      PROVE  /\ a(t) \in Int /\ a(t + 1) = a(t) + Cardinality(Unfinished(h, A, t))
             /\ b(t) \in Int /\ b(t + 1) = b(t) + Cardinality(Unfinished(g, A, t))
  BY ElapsedStep
<1>3. ASSUME NEW t \in Nat
      PROVE  /\ Cardinality(Unfinished(h, A, t)) <= Cardinality(Unfinished(g, A, t))
             /\ Cardinality(Unfinished(h, A, t)) \in Nat /\ Cardinality(Unfinished(g, A, t)) \in Nat
  <2>1. Leads(h[t], g[t], Arrived(A, t)) /\ h[t] \in [Procs -> Nat] /\ g[t] \in [Procs -> Nat]
    BY ShortestLeads DEF History
  <2>2. Arrived(A, t) \in SUBSET Procs
    BY DEF Arrived
  <2>3. Cardinality({q \in Arrived(A, t) : h[t][q] > 0}) <= Cardinality({q \in Arrived(A, t) : g[t][q] > 0})
    BY <2>1, <2>2, LeadsFewer
  <2>4. Unfinished(h, A, t) \in SUBSET Procs /\ Unfinished(g, A, t) \in SUBSET Procs
    BY <2>2 DEF Unfinished
  <2>5. QED
    BY <2>3, <2>4, ProcsFinite DEF Unfinished
<1>4. 0 \in K
  <2>1. (\A q \in Procs : Elapsed(A, C, 0)[q] = 0) /\ (\A q \in Procs : Elapsed(A, D, 0)[q] = 0)
    BY DEF Elapsed
  <2>2. a(0) = 0 /\ b(0) = 0
    BY <1>1, <2>1, ZeroSum
  <2>3. QED
    BY <2>2
<1>5. ASSUME NEW t \in K PROVE t + 1 \in K
  <2>1. t \in Nat /\ t + 1 \in Nat /\ a(t) <= b(t)
    OBVIOUS
  <2>2. /\ a(t) \in Int /\ a(t + 1) = a(t) + Cardinality(Unfinished(h, A, t))
        /\ b(t) \in Int /\ b(t + 1) = b(t) + Cardinality(Unfinished(g, A, t))
    BY <1>2, <2>1
  <2>3. /\ Cardinality(Unfinished(h, A, t)) <= Cardinality(Unfinished(g, A, t))
        /\ Cardinality(Unfinished(h, A, t)) \in Nat /\ Cardinality(Unfinished(g, A, t)) \in Nat
    BY <1>3, <2>1
  <2> HIDE DEF a, b
  <2>4. a(t + 1) <= b(t + 1)
    BY <2>1, <2>2, <2>3
  <2>5. QED
    BY <2>1, <2>4
<1>6. \A t \in Nat : a(t) <= b(t)
  <2>1. K \in SUBSET Nat
    OBVIOUS
  <2>2. K = Nat
    <3> HIDE DEF K
    <3>1. QED
      BY <1>4, <1>5, <2>1, AllNumbers
  <2> HIDE DEF a, b
  <2>3. QED
    BY <2>2 DEF K
<1> DEFINE T == Sum(C, Procs) + Sum(D, Procs)
<1>7. T \in Nat /\ \A q \in Procs : C[q] <= T /\ D[q] <= T /\ C[q] \in Nat /\ D[q] \in Nat
  <2>1. \A q \in Procs : C[q] \in Nat /\ D[q] \in Nat
    BY DEF Finishes
  <2>2. /\ Sum(C, Procs) \in Nat /\ \A q \in Procs : C[q] <= Sum(C, Procs)
        /\ Sum(D, Procs) \in Nat /\ \A q \in Procs : D[q] <= Sum(D, Procs)
    BY <1>1, <2>1, SumNat
  <2>3. QED
    BY <2>1, <2>2
<1> HIDE DEF T
<1>8. \A q \in Procs : /\ Turnaround(A, C)[q] = Elapsed(A, C, T)[q]
                       /\ Turnaround(A, D)[q] = Elapsed(A, D, T)[q]
  <2> SUFFICES ASSUME NEW q \in Procs
               PROVE  /\ Turnaround(A, C)[q] = Elapsed(A, C, T)[q]
                      /\ Turnaround(A, D)[q] = Elapsed(A, D, T)[q]
    OBVIOUS
  <2>1. A[q] \in Nat /\ A[q] < C[q] /\ A[q] < D[q]
    BY FinishesLater
  <2>2. C[q] <= T /\ D[q] <= T /\ C[q] \in Nat /\ D[q] \in Nat /\ T \in Nat
    BY <1>7
  <2>3. QED
    BY <2>1, <2>2 DEF Turnaround, Elapsed
<1>9. Sum(Turnaround(A, C), Procs) = a(T) /\ Sum(Turnaround(A, D), Procs) = b(T)
  BY <1>1, <1>8, SumSame
<1>10. QED
  BY <1>6, <1>7, <1>9

-----------------------------------------------------------------------------
(* What the simulator has done so far is a history.                        *)

\* h leads to the remaining times R and the completion times C at time T.
Tracks(h, A, B, R, C, T) ==
  /\ History(h, A, B)
  /\ \A t \in Nat : T <= t => h[t] = R
  /\ \A t \in Nat, q \in Procs : h[t][q] = 0 <=> R[q] = 0 /\ C[q] <= t

\* g goes on where h is at t0, with q running for d units.
RunsOn(g, h, R, q, t0, d) ==
  /\ \A t \in Nat : t <= t0 => g[t] = h[t]
  /\ \A t \in Nat : t0 <= t /\ t < t0 + d =>
       RunsUnit(g[t], g[t + 1], q) /\ g[t] = [R EXCEPT ![q] = @ - (t - t0)]

LEMMA TracksRun ==
  ASSUME NEW A \in [Procs -> Nat], NEW B, NEW R \in [Procs -> Nat], NEW C \in [Procs -> Nat],
         NEW T \in Nat, NEW h, Tracks(h, A, B, R, C, T),
         NEW q \in Procs, NEW t0 \in Nat, T <= t0, A[q] <= t0, NEW d \in 1..R[q],
         NEW R2, R2 = [R EXCEPT ![q] = @ - d],
         NEW C2, C2 = IF R[q] = d THEN [C EXCEPT ![q] = t0 + d] ELSE C
  PROVE  \E g : Tracks(g, A, B, R2, C2, t0 + d) /\ RunsOn(g, h, R, q, t0, d)
<1> DEFINE used(t) == IF t <= t0 + d THEN t - t0 ELSE d
           g == [t \in Nat |-> IF t <= t0 THEN h[t] ELSE [R EXCEPT ![q] = @ - used(t)]]
<1>1. /\ h \in [Nat -> [Procs -> Nat]] /\ \A t \in Nat : T <= t => h[t] = R
      /\ \A t \in Nat, r \in Procs : t <= A[r] => h[t][r] = B[r]
      /\ \A t \in Nat : h[t + 1] = h[t] \/ \E r \in Procs : RunsUnit(h[t], h[t + 1], r)
      /\ \A t \in Nat, r \in Procs : h[t][r] = 0 <=> R[r] = 0 /\ C[r] <= t
  BY DEF Tracks, History
<1>2. R[q] \in Nat /\ d \in Nat /\ d > 0 /\ d <= R[q]
  OBVIOUS
<1>3. ASSUME NEW t \in Nat, ~(t <= t0)
      PROVE  used(t) \in Nat /\ used(t) <= d /\ R[q] - used(t) \in Nat /\ used(t) > 0
  BY <1>2, <1>3
<1>4. ASSUME NEW t \in Nat, t0 <= t
      PROVE  /\ g[t] = [R EXCEPT ![q] = @ - used(t)] /\ used(t) \in Nat /\ used(t) <= d
             /\ R[q] - used(t) \in Nat
  <2>1. CASE t = t0
    <3>1. g[t] = R /\ used(t) = 0
      BY <1>1, <1>2, <2>1
    <3>2. R = [R EXCEPT ![q] = @ - 0]
      BY <1>2
    <3> HIDE DEF g
    <3>3. R[q] - used(t) \in Nat /\ used(t) \in Nat /\ used(t) <= d
      BY <1>2, <3>1
    <3> HIDE DEF used
    <3>4. QED
      BY <3>1, <3>2, <3>3
  <2>2. CASE t # t0
    <3>1. ~(t <= t0)
      BY <1>4, <2>2
    <3> HIDE DEF used
    <3>2. QED
      BY <1>3, <3>1
  <2>3. QED
    BY <2>1, <2>2
<1>5. g \in [Nat -> [Procs -> Nat]]
  <2> SUFFICES ASSUME NEW t \in Nat PROVE g[t] \in [Procs -> Nat]
    OBVIOUS
  <2>1. CASE t <= t0
    BY <1>1, <2>1
  <2>2. CASE ~(t <= t0)
    <3>1. R[q] - used(t) \in Nat /\ g[t] = [R EXCEPT ![q] = @ - used(t)]
      BY <1>3, <2>2
    <3> HIDE DEF used, g
    <3>2. QED
      BY <3>1
  <2>3. QED
    BY <2>1, <2>2
<1>6. \A t \in Nat : t <= t0 => g[t] = h[t]
  OBVIOUS
<1>7. ASSUME NEW t \in Nat, t0 <= t, t < t0 + d
      PROVE  RunsUnit(g[t], g[t + 1], q) /\ g[t] = [R EXCEPT ![q] = @ - (t - t0)]
  <2>1. used(t) = t - t0 /\ used(t + 1) = (t - t0) + 1 /\ t - t0 \in Nat /\ t - t0 < d
    BY <1>2, <1>7
  <2>2. t + 1 \in Nat /\ t0 <= t + 1
    BY <1>7
  <2>3. g[t] = [R EXCEPT ![q] = @ - used(t)] /\ g[t + 1] = [R EXCEPT ![q] = @ - used(t + 1)]
    BY <1>4, <1>7, <2>2
  <2> HIDE DEF g, used
  <2>4. /\ g[t] = [R EXCEPT ![q] = @ - (t - t0)]
        /\ g[t + 1] = [R EXCEPT ![q] = @ - ((t - t0) + 1)]
    BY <2>1, <2>3
  <2>5. R[q] - (t - t0) > 0 /\ (R[q] - (t - t0)) - 1 = R[q] - ((t - t0) + 1)
    BY <1>2, <2>1
  <2>6. g[t][q] = R[q] - (t - t0)
    BY <2>4
  <2>7. g[t + 1] = [g[t] EXCEPT ![q] = @ - 1]
    BY <2>4, <2>5, <2>6
  <2>8. QED
    BY <2>4, <2>5, <2>6, <2>7 DEF RunsUnit
<1>8. ASSUME NEW t \in Nat, t0 + d <= t PROVE g[t] = R2
  <2>1. t0 <= t /\ used(t) = d
    BY <1>2, <1>8
  <2>2. QED
    BY <1>4, <2>1
<1>9. History(g, A, B)
  <2>1. ASSUME NEW t \in Nat, NEW r \in Procs, t <= A[r] PROVE g[t][r] = B[r]
    <3>1. CASE t <= t0
      BY <1>1, <1>6, <2>1, <3>1
    <3>2. CASE ~(t <= t0)
      <4>1. A[r] \in Nat /\ A[q] \in Nat /\ T <= t /\ t0 <= t
        BY <3>2
      <4>2. r # q
        BY <2>1, <3>2, <4>1
      <4>3. h[t] = R /\ h[t][r] = B[r]
        BY <1>1, <2>1, <4>1
      <4>4. g[t] = [R EXCEPT ![q] = @ - used(t)]
        BY <1>4, <4>1
      <4> HIDE DEF g, used
      <4>5. QED
        BY <4>2, <4>3, <4>4
    <3>3. QED
      BY <3>1, <3>2
  <2>2. ASSUME NEW t \in Nat
        PROVE  g[t + 1] = g[t] \/ \E r \in Procs : RunsUnit(g[t], g[t + 1], r)
    <3>1. CASE t < t0
      <4>1. t + 1 \in Nat /\ t <= t0 /\ t + 1 <= t0
        BY <3>1
      <4>2. g[t] = h[t] /\ g[t + 1] = h[t + 1]
        BY <1>6, <4>1
      <4>3. QED
        BY <1>1, <4>2
    <3>2. CASE t0 <= t /\ t < t0 + d
      BY <1>7, <3>2
    <3>3. CASE t0 + d <= t
      <4>1. t + 1 \in Nat /\ t0 + d <= t + 1
        BY <1>2, <3>3
      <4> HIDE DEF g
      <4>2. QED
        BY <1>8, <3>3, <4>1
    <3>4. t < t0 \/ (t0 <= t /\ t < t0 + d) \/ t0 + d <= t
      BY <1>2
    <3> HIDE DEF g
    <3>5. QED
      BY <3>1, <3>2, <3>3, <3>4
  <2> HIDE DEF g
  <2>3. QED
    BY <1>5, <2>1, <2>2 DEF History
<1>10. ASSUME NEW t \in Nat, NEW r \in Procs PROVE g[t][r] = 0 <=> R2[r] = 0 /\ C2[r] <= t
  <2>1. R[r] \in Nat /\ C[r] \in Nat
    OBVIOUS
  <2>2. CASE r # q
    <3>1. R2[r] = R[r] /\ C2[r] = C[r]
      BY <2>2
    <3>2. g[t][r] = h[t][r]
      <4>1. CASE t <= t0
        BY <1>6, <4>1
      <4>2. CASE ~(t <= t0)
        <5>1. T <= t /\ t0 <= t
          BY <4>2
        <5>2. g[t] = [R EXCEPT ![q] = @ - used(t)] /\ h[t] = R
          BY <1>1, <1>4, <5>1
        <5> HIDE DEF g, used
        <5>3. QED
          BY <2>2, <5>2
      <4>3. QED
        BY <4>1, <4>2
    <3> HIDE DEF g
    <3>3. QED
      BY <1>1, <3>1, <3>2
  <2>3. CASE r = q
    <3>1. R2[q] = R[q] - d /\ (R[q] = d => C2[q] = t0 + d)
      OBVIOUS
    <3>2. CASE t <= t0
      <4>1. g[t][q] = h[t][q] /\ h[t][q] # 0
        BY <1>1, <1>2, <1>6, <3>2
      <4>2. ~(t0 + d <= t)
        BY <1>2, <3>2
      <4> HIDE DEF g
      <4>3. QED
        BY <1>2, <2>3, <3>1, <4>1, <4>2
    <3>3. CASE ~(t <= t0)
      <4>1. g[t] = [R EXCEPT ![q] = @ - used(t)]
        BY <1>4, <3>3
      <4>2. used(t) = IF t <= t0 + d THEN t - t0 ELSE d
        OBVIOUS
      <4> HIDE DEF g, used
      <4>3. g[t][q] = R[q] - used(t)
        BY <4>1
      <4>4. R[q] - used(t) = 0 <=> R[q] = d /\ t0 + d <= t
        BY <1>2, <3>3, <4>2
      <4>5. QED
        BY <1>2, <2>3, <3>1, <4>3, <4>4
    <3>4. QED
      BY <3>2, <3>3
  <2>4. QED
    BY <2>2, <2>3
<1> HIDE DEF g
<1>11. Tracks(g, A, B, R2, C2, t0 + d)
  BY <1>8, <1>9, <1>10 DEF Tracks
<1>12. QED
  BY <1>6, <1>7, <1>11 DEF RunsOn

-----------------------------------------------------------------------------
(* The invariant.                                                          *)

ArrivalOf == [q \in Procs |-> Arrival(q)]
BurstOf   == [q \in Procs |-> Burst(q)]
Positive  == \A q \in Procs : Burst(q) > 0
Together  == \A q, r \in Procs : Arrival(q) = Arrival(r)

\* The algorithms that always run who needs least.
Greedy(a) == a = "STCF" \/ (a = "SJF" /\ Together)

\* What the running algorithm has done.
Recorded ==
  \E h : /\ Tracks(h, ArrivalOf, BurstOf, remaining_time, completion_time, time)
         /\ Greedy(alg) => \A t \in Nat : t < time => Shortest(h, ArrivalOf, t)

\* The metrics of an algorithm are those of a history that it has completed.
Measured(a) ==
  \E h, C :
    /\ History(h, ArrivalOf, BurstOf) /\ Finishes(h, C)
    /\ \A q \in Procs : metrics[a][q].turnaround_time = C[q] - Arrival(q)
    /\ Greedy(a) => \A t \in Nat : Shortest(h, ArrivalOf, t)

\* Which metrics there are: those of SJF before those of STCF.
Staged ==
  /\ DOMAIN metrics = DOMAIN After
  /\ IF alg \in {"FIFO", "SJF"} THEN metrics["STCF"] = <<>> ELSE metrics["SJF"] # <<>>

OptimalInv ==
  /\ Staged
  /\ Positive => Recorded /\ \A a \in DOMAIN After : metrics[a] # <<>> => Measured(a)

LEMMA SameArrivals ==
  ASSUME UNCHANGED processes
  PROVE  /\ ArrivalOf' = ArrivalOf /\ BurstOf' = BurstOf /\ Positive' = Positive
         /\ Together' = Together /\ \A a : Greedy(a)' = Greedy(a)
<1>1. \A q \in Procs : Arrival(q)' = Arrival(q) /\ Burst(q)' = Burst(q)
  BY SameWorkload
<1>2. ArrivalOf' = ArrivalOf /\ BurstOf' = BurstOf
  BY <1>1 DEF ArrivalOf, BurstOf
<1>3. Positive' = Positive /\ Together' = Together
  BY <1>1 DEF Positive, Together
<1>4. QED
  BY <1>2, <1>3 DEF Greedy

LEMMA ArrivalTypes ==
  ASSUME TypeOK
  PROVE  /\ ArrivalOf \in [Procs -> Nat] /\ BurstOf \in [Procs -> Nat]
         /\ remaining_time \in [Procs -> Nat] /\ completion_time \in [Procs -> Nat] /\ time \in Nat
         /\ \A q \in Procs : /\ ArrivalOf[q] = Arrival(q) /\ BurstOf[q] = Burst(q)
                             /\ Arrival(q) \in Nat /\ Burst(q) \in Nat
<1>1. \A q \in Procs : Arrival(q) \in Nat /\ Burst(q) \in Nat
  BY InvFacts
<1>2. QED
  BY <1>1 DEF TypeOK, ArrivalOf, BurstOf

\* Somebody runs; in STCF and SJF it is who needs least.
LEMMA RecordedRun ==
  ASSUME TypeOK, Recorded, NEW q \in Procs, NEW t0 \in Nat, NEW d \in 1..remaining_time[q],
         Execute(q, t0, d), time <= t0, Arrival(q) <= t0, UNCHANGED <<processes, alg>>,
         Greedy(alg) =>
           /\ t0 = time
           /\ \A e \in 0..(d - 1) : \A r \in Procs :
                r # q /\ Arrival(r) <= time + e /\ remaining_time[r] > 0 =>
                  remaining_time[q] - e <= remaining_time[r]
  PROVE  Recorded'
<1> DEFINE A == ArrivalOf
           R == remaining_time
           C == completion_time
<1>1. /\ A \in [Procs -> Nat] /\ R \in [Procs -> Nat] /\ C \in [Procs -> Nat] /\ time \in Nat
      /\ A[q] <= t0 /\ \A r \in Procs : A[r] = Arrival(r)
  BY ArrivalTypes
<1>2. PICK h : /\ Tracks(h, A, BurstOf, R, C, time)
               /\ Greedy(alg) => \A t \in Nat : t < time => Shortest(h, A, t)
  BY DEF Recorded
<1>3. /\ remaining_time' = [R EXCEPT ![q] = @ - d] /\ time' = t0 + d /\ alg' = alg
      /\ completion_time' = IF R[q] = d THEN [C EXCEPT ![q] = t0 + d] ELSE C
      /\ A' = A /\ BurstOf' = BurstOf /\ Greedy(alg)' = Greedy(alg)
  <2>1. A' = A /\ BurstOf' = BurstOf /\ Together' = Together
    BY SameArrivals
  <2>2. QED
    BY <2>1 DEF Execute, Greedy
<1> HIDE DEF A, R, C
<1> DEFINE R2 == [R EXCEPT ![q] = @ - d]
           C2 == IF R[q] = d THEN [C EXCEPT ![q] = t0 + d] ELSE C
<1>4. PICK g : Tracks(g, A, BurstOf, R2, C2, t0 + d) /\ RunsOn(g, h, R, q, t0, d)
  <2>1. d \in 1..R[q] /\ Tracks(h, A, BurstOf, R, C, time) /\ time <= t0 /\ A[q] <= t0
    BY <1>1, <1>2 DEF R
  <2>2. QED
    BY <1>1, <2>1, TracksRun
<1>5. Tracks(g, A', BurstOf', remaining_time', completion_time', time')
  BY <1>3, <1>4
<1>6. ASSUME Greedy(alg), NEW t \in Nat, t < t0 + d PROVE Shortest(g, A, t)
  <2>1. t0 = time /\ d \in Nat /\ R[q] \in Nat
    BY <1>1, <1>6 DEF R
  <2>2. CASE t < time
    <3>1. t + 1 \in Nat /\ t <= t0 /\ t + 1 <= t0
      BY <1>1, <2>1, <2>2
    <3>2. g[t] = h[t] /\ g[t + 1] = h[t + 1]
      BY <1>4, <3>1 DEF RunsOn
    <3>3. QED
      BY <1>2, <1>6, <2>2, <3>2 DEF Shortest
  <2>3. CASE ~(t < time)
    <3>1. /\ t - t0 \in 0..(d - 1) /\ time + (t - t0) = t /\ t0 <= t
      BY <1>1, <1>6, <2>1, <2>3
    <3>2. RunsUnit(g[t], g[t + 1], q) /\ g[t] = [R EXCEPT ![q] = @ - (t - t0)]
      BY <1>4, <1>6, <3>1 DEF RunsOn
    <3>3. ASSUME NEW r \in Arrived(A, t), g[t][r] > 0 PROVE g[t][q] <= g[t][r]
      <4>1. r \in Procs /\ Arrival(r) <= time + (t - t0)
        BY <1>1, <3>1, <3>3 DEF Arrived
      <4>2. g[t][q] = R[q] - (t - t0) /\ (r # q => g[t][r] = R[r])
        BY <1>1, <3>2, <4>1
      <4>3. CASE r # q
        <5>1. R[q] - (t - t0) <= R[r]
          BY <1>6, <3>1, <3>3, <4>1, <4>2, <4>3 DEF R
        <5>2. QED
          BY <4>2, <4>3, <5>1
      <4>4. CASE r = q
        BY <2>1, <3>1, <4>2, <4>4
      <4>5. QED
        BY <4>3, <4>4
    <3>4. q \in Arrived(A, t)
      BY <1>1, <3>1 DEF Arrived
    <3>5. QED
      BY <3>2, <3>3, <3>4 DEF Shortest, RunsShortest
  <2>4. QED
    BY <2>2, <2>3
<1>7. Greedy(alg)' => \A t \in Nat : t < time' => Shortest(g, A', t)
  BY <1>3, <1>6
<1>8. QED
  BY <1>5, <1>7 DEF Recorded, A

\* Nobody runs; in STCF and SJF only when nobody is ready.
LEMMA RecordedIdle ==
  ASSUME TypeOK, Recorded, LeavesCpu,
         Greedy(alg) => time' = time \/ (time' = time + 1 /\ Ready = {})
  PROVE  Recorded'
<1>1. /\ time \in Nat /\ time' \in Nat /\ time <= time' /\ alg' = alg
      /\ remaining_time' = remaining_time /\ completion_time' = completion_time
      /\ remaining_time \in [Procs -> Nat]
      /\ ArrivalOf' = ArrivalOf /\ BurstOf' = BurstOf /\ Together' = Together
      /\ \A r \in Procs : ArrivalOf[r] = Arrival(r)
  BY SameArrivals, ArrivalTypes DEF LeavesCpu
<1>2. PICK h : /\ Tracks(h, ArrivalOf, BurstOf, remaining_time, completion_time, time)
               /\ Greedy(alg) => \A t \in Nat : t < time => Shortest(h, ArrivalOf, t)
  BY DEF Recorded
<1>3. /\ History(h, ArrivalOf, BurstOf) /\ \A t \in Nat : time <= t => h[t] = remaining_time
      /\ \A t \in Nat, q \in Procs : h[t][q] = 0 <=> remaining_time[q] = 0 /\ completion_time[q] <= t
  BY <1>2 DEF Tracks
<1>4. \A t \in Nat : time' <= t => h[t] = remaining_time
  BY <1>1, <1>3
<1>5. Tracks(h, ArrivalOf', BurstOf', remaining_time', completion_time', time')
  BY <1>1, <1>3, <1>4 DEF Tracks
<1>6. ASSUME Greedy(alg), NEW t \in Nat, t < time' PROVE Shortest(h, ArrivalOf, t)
  <2>1. CASE t < time
    BY <1>2, <1>6, <2>1
  <2>2. CASE ~(t < time)
    <3>1. t = time /\ t + 1 \in Nat /\ time <= t /\ time <= t + 1 /\ Ready = {}
      BY <1>1, <1>6, <2>2
    <3>2. h[t] = remaining_time /\ h[t + 1] = remaining_time
      BY <1>3, <3>1
    <3>3. \A r \in Arrived(ArrivalOf, t) : remaining_time[r] = 0
      BY <1>1, <3>1 DEF Ready, Arrived
    <3>4. QED
      BY <3>2, <3>3 DEF Shortest, RunsShortest
  <2>3. QED
    BY <2>1, <2>2
<1>7. Greedy(alg)' <=> Greedy(alg)
  BY <1>1 DEF Greedy
<1>8. Greedy(alg)' => \A t \in Nat : t < time' => Shortest(h, ArrivalOf', t)
  BY <1>1, <1>6, <1>7
<1>9. QED
  BY <1>5, <1>8 DEF Recorded

\* A copy of the workload, and nothing done.
LEMMA RecordedNew ==
  ASSUME NEW A \in [Procs -> Nat], NEW B \in [Procs -> Nat], \A q \in Procs : B[q] > 0, NEW C
  PROVE  Tracks([t \in Nat |-> B], A, B, B, C, 0)
<1> DEFINE h == [t \in Nat |-> B]
<1>1. h \in [Nat -> [Procs -> Nat]] /\ \A t \in Nat : h[t] = B /\ h[t + 1] = B
  OBVIOUS
<1> HIDE DEF h
<1>2. History(h, A, B)
  BY <1>1 DEF History
<1>3. \A t \in Nat, q \in Procs : h[t][q] # 0 /\ B[q] # 0
  BY <1>1
<1>4. Tracks(h, A, B, B, C, 0)
  BY <1>1, <1>2, <1>3 DEF Tracks
<1>5. QED
  BY <1>4 DEF h

LEMMA RecordedSlice ==
  ASSUME TypeOK, Positive, Recorded, ~Greedy(alg), NEW q \in Procs, NEW t \in Nat, NEW d \in Nat,
         GetsSlice(q, t, d)
  PROVE  Recorded'
<1>1. /\ Execute(q, t, d) /\ time <= t /\ Arrival(q) <= t /\ d \in 0..remaining_time[q]
      /\ (d = 0 => Burst(q) = 0) /\ UNCHANGED <<processes, alg>>
  BY DEF GetsSlice
<1>2. Burst(q) # 0
  BY ArrivalTypes DEF Positive
<1>3. d \in 1..remaining_time[q]
  BY <1>1, <1>2, ArrivalTypes
<1>4. QED
  BY <1>1, <1>3, RecordedRun

LEMMA RecordedStep ==
  ASSUME Inv, FifoSlices, Positive, Recorded, [Next]_vars
  PROVE  Recorded'
<1>0. /\ TypeOK /\ time \in Nat /\ remaining_time \in [Procs -> Nat]
      /\ \A q \in Procs : Arrival(q) \in Nat /\ Burst(q) \in Nat /\ Burst(q) > 0
  BY ArrivalTypes DEF Inv, Positive
<1>1. (alg \notin {"SJF", "STCF"}) => ~Greedy(alg)
  BY DEF Greedy
<1>2. Tick /\ UNCHANGED <<processes, alg>> => LeavesCpu /\ time' = time + 1
  BY <1>0 DEF Tick, LeavesCpu
<1>3. UNCHANGED <<processes, alg, cpuVars>> => Recorded'
  <2> SUFFICES ASSUME UNCHANGED <<processes, alg, cpuVars>> PROVE Recorded'
    OBVIOUS
  <2>1. LeavesCpu /\ time' = time
    BY <1>0 DEF LeavesCpu
  <2>2. QED
    BY <1>0, <2>1, RecordedIdle
<1>4. CASE FifoRun
  <2>1. PICK t \in Nat : GetsSlice(p[i], t, Burst(p[i])) /\ p[i] \in Procs /\ Burst(p[i]) \in Nat
    BY <1>4, FifoSlice
  <2>2. ~Greedy(alg)
    BY <1>1, <1>4 DEF FifoRun
  <2>3. QED
    BY <1>0, <2>1, <2>2, RecordedSlice
<1>5. CASE SjfRun
  <2>1. PICK q \in Cheapest([r \in Procs |-> Burst(r)]) : Execute(q, time, Burst(q))
    BY <1>5 DEF SjfRun
  <2>2. /\ q \in Ready /\ q \in Procs /\ Arrival(q) <= time /\ remaining_time[q] > 0
        /\ \A r \in Ready : Burst(q) <= Burst(r)
        /\ UNCHANGED <<processes, alg>> /\ alg = "SJF"
    <3>1. Ready \subseteq Procs
      BY DEF Ready
    <3>2. q \in Ready /\ \A r \in Ready : Burst(q) < Burst(r) \/ Burst(q) = Burst(r)
      BY <3>1, <2>1 DEF Cheapest
    <3>3. \A r \in Ready : Burst(q) <= Burst(r)
      BY <1>0, <3>1, <3>2
    <3>4. QED
      BY <1>5, <3>2, <3>3 DEF SjfRun, Ready
  <2>3. \A r \in Procs : remaining_time[r] > 0 => remaining_time[r] = Burst(r)
    BY <2>2 DEF Inv, SjfInv
  <2>4. Burst(q) \in 1..remaining_time[q] /\ time <= time
    BY <1>0, <2>2, <2>3
  <2>5. ASSUME Greedy(alg), NEW e \in 0..(Burst(q) - 1), NEW r \in Procs, Arrival(r) <= time + e,
               remaining_time[r] > 0
        PROVE  remaining_time[q] - e <= remaining_time[r]
    <3>1. Arrival(r) = Arrival(q)
      BY <2>2, <2>5 DEF Greedy, Together
    <3>2. r \in Ready
      BY <2>2, <2>5, <3>1 DEF Ready
    <3>3. Burst(q) <= Burst(r) /\ remaining_time[q] = Burst(q) /\ remaining_time[r] = Burst(r)
      BY <2>2, <2>3, <2>5, <3>2
    <3>4. e \in Nat /\ Burst(q) \in Nat /\ Burst(r) \in Nat
      BY <1>0, <2>2
    <3>5. QED
      BY <3>3, <3>4
  <2>6. QED
    BY <1>0, <2>1, <2>2, <2>4, <2>5, RecordedRun
<1>6. CASE StcfRun
  <2>1. PICK q \in Cheapest(remaining_time) : Execute(q, time, 1)
    BY <1>6 DEF StcfRun
  <2>2. /\ q \in Procs /\ Arrival(q) <= time /\ remaining_time[q] > 0
        /\ \A r \in Ready : remaining_time[q] <= remaining_time[r]
        /\ UNCHANGED <<processes, alg>>
    <3>1. q \in Ready /\ \A r \in Ready : remaining_time[q] < remaining_time[r]
                                          \/ remaining_time[q] = remaining_time[r]
      BY <2>1 DEF Cheapest
    <3>2. \A r \in Ready : remaining_time[r] \in Nat
      BY <1>0 DEF Ready
    <3>3. \A r \in Ready : remaining_time[q] <= remaining_time[r]
      BY <3>1, <3>2
    <3>4. QED
      BY <1>6, <3>1, <3>3 DEF StcfRun, Ready
  <2>3. 1 \in 1..remaining_time[q] /\ time <= time
    BY <1>0, <2>2
  <2>4. ASSUME NEW e \in 0..(1 - 1), NEW r \in Procs, Arrival(r) <= time + e, remaining_time[r] > 0
        PROVE  remaining_time[q] - e <= remaining_time[r]
    <3>1. e = 0 /\ Arrival(r) <= time
      BY <1>0, <2>4
    <3>2. remaining_time[q] <= remaining_time[r]
      BY <2>2, <2>4, <3>1 DEF Ready
    <3>3. QED
      BY <1>0, <2>2, <3>1, <3>2
  <2>5. QED
    BY <1>0, <2>1, <2>2, <2>3, <2>4, RecordedRun
<1>7. CASE RrVisit
  <2>1. CASE i \in Ready
    <3>1. PICK d \in 1..remaining_time[i] : GetsSlice(i, time, d)
      BY <1>7, <2>1, RrSlice
    <3>2. ~Greedy(alg) /\ i \in Procs /\ d \in Nat
      BY <1>0, <1>1, <1>7, <2>1 DEF RrVisit, Ready
    <3>3. QED
      BY <1>0, <3>1, <3>2, RecordedSlice
  <2>2. CASE i \notin Ready
    BY <1>3, <1>7, <2>2 DEF RrVisit
  <2>3. QED
    BY <2>1, <2>2
<1>8. CASE MlfqRun
  <2>1. PICK q \in Procs, d \in Nat : GetsSlice(q, time, d)
    BY <1>8, MlfqSlice
  <2>2. ~Greedy(alg)
    BY <1>1, <1>8 DEF MlfqRun
  <2>3. QED
    BY <1>0, <2>1, <2>2, RecordedSlice
<1>9. CASE NextAlgorithm
  <2>1. /\ remaining_time' = BurstOf /\ time' = 0 /\ processes' = processes
        /\ ArrivalOf' = ArrivalOf /\ BurstOf' = BurstOf
    BY <1>9, SameArrivals DEF NextAlgorithm, BurstOf
  <2>2. /\ ArrivalOf \in [Procs -> Nat] /\ BurstOf \in [Procs -> Nat]
        /\ \A q \in Procs : BurstOf[q] > 0
    BY <1>0, ArrivalTypes
  <2>3. Tracks([t \in Nat |-> BurstOf], ArrivalOf, BurstOf, BurstOf, completion_time', 0)
    BY <2>2, RecordedNew
  <2>4. PICK h : Tracks(h, ArrivalOf', BurstOf', remaining_time', completion_time', time')
    BY <2>1, <2>3
  <2>5. \A t \in Nat : ~(t < time')
    BY <2>1
  <2>6. QED
    BY <2>4, <2>5 DEF Recorded
<1>10. CASE SjfIdle \/ StcfIdle
  <2>1. LeavesCpu /\ time' = time + 1 /\ Ready = {}
    BY <1>2, <1>10 DEF SjfIdle, StcfIdle
  <2>2. QED
    BY <1>0, <2>1, RecordedIdle
<1>11. CASE MlfqIdle \/ RrPassEnds
  <2>1. ~Greedy(alg)
    BY <1>1, <1>11 DEF MlfqIdle, RrPassEnds
  <2>2. UNCHANGED <<processes, alg, cpuVars>> \/ LeavesCpu
    BY <1>2, <1>11 DEF MlfqIdle, RrPassEnds
  <2>3. QED
    BY <1>0, <1>3, <2>1, <2>2, RecordedIdle
<1>12. CASE FifoSwap \/ FifoSortNext \/ MlfqArrive \/ MlfqArrived \/ MlfqBoost \/ MlfqBoosted
  BY <1>3, <1>12 DEF FifoSwap, FifoSortNext, MlfqArrive, MlfqArrived, MlfqBoost, MlfqBoosted
<1>13. CASE UNCHANGED vars
  BY <1>3, <1>13
<1>14. QED
  BY <1>4, <1>5, <1>6, <1>7, <1>8, <1>9, <1>10, <1>11, <1>12, <1>13 DEF Next

\* Only the end of an algorithm changes the metrics.
LEMMA MetricsKept ==
  ASSUME [Next]_vars, ~NextAlgorithm
  PROVE  UNCHANGED <<processes, alg, metrics>>
BY DEF Next, FifoSwap, FifoSortNext, FifoRun, SjfRun, SjfIdle, StcfRun, StcfIdle, RrVisit, RrPassEnds,
       MlfqArrive, MlfqArrived, MlfqBoost, MlfqBoosted, MlfqRun, MlfqIdle

\* At its end the history is complete: nobody needs anything any more.
LEMMA MeasuredEnd ==
  ASSUME Inv, Recorded, NextAlgorithm, DOMAIN metrics = DOMAIN After, NEW a \in DOMAIN After, a = alg
  PROVE  Measured(a)'
<1>1. \A q \in Procs : remaining_time[q] = 0
  BY EndedDone DEF NextAlgorithm
<1>2. /\ TypeOK /\ completion_time \in [Procs -> Nat] /\ time \in Nat
      /\ \A q \in Procs : ArrivalOf[q] = Arrival(q)
  BY ArrivalTypes DEF Inv
<1>3. /\ metrics' = [metrics EXCEPT ![alg] = [q \in Procs |-> MetricsOf(q)]] /\ processes' = processes
  BY DEF NextAlgorithm
<1>4. metrics'[a] = [q \in Procs |-> MetricsOf(q)]
  BY <1>3
<1>5. /\ ArrivalOf' = ArrivalOf /\ BurstOf' = BurstOf /\ Greedy(a)' = Greedy(a)
      /\ \A q \in Procs : Arrival(q)' = Arrival(q)
  BY <1>3, SameArrivals, SameWorkload
<1>6. PICK h : /\ Tracks(h, ArrivalOf, BurstOf, remaining_time, completion_time, time)
               /\ Greedy(a) => \A t \in Nat : t < time => Shortest(h, ArrivalOf, t)
  BY DEF Recorded
<1>7. History(h, ArrivalOf, BurstOf) /\ Finishes(h, completion_time)
  BY <1>1, <1>2, <1>6 DEF Tracks, Finishes
<1>8. \A q \in Procs : metrics'[a][q].turnaround_time = completion_time[q] - Arrival(q)
  BY <1>4 DEF MetricsOf
<1>9. ASSUME Greedy(a), NEW t \in Nat PROVE Shortest(h, ArrivalOf, t)
  <2>1. CASE t < time
    BY <1>6, <1>9, <2>1
  <2>2. CASE ~(t < time)
    <3>1. time <= t /\ t + 1 \in Nat /\ time <= t + 1
      BY <1>2, <2>2
    <3>2. h[t] = remaining_time /\ h[t + 1] = remaining_time
      BY <1>6, <3>1 DEF Tracks
    <3>3. QED
      BY <1>1, <3>2 DEF Shortest, RunsShortest, Arrived
  <2>3. QED
    BY <2>1, <2>2
<1>10. QED
  BY <1>5, <1>7, <1>8, <1>9 DEF Measured

LEMMA StagedStep ==
  ASSUME Inv, Staged, [Next]_vars
  PROVE  Staged'
<1>1. CASE ~NextAlgorithm
  BY <1>1, MetricsKept DEF Staged
<1>2. CASE NextAlgorithm
  <2>1. /\ metrics' = [metrics EXCEPT ![alg] = [q \in Procs |-> MetricsOf(q)]] /\ alg' = After[alg]
        /\ alg \in DOMAIN After
    BY <1>2, EndedDone DEF NextAlgorithm
  <2>2. [q \in Procs |-> MetricsOf(q)] # <<>>
    <3>1. 1 \in Procs
      BY SchedulerAssumption DEF Procs
    <3>2. DOMAIN <<>> = {}
      OBVIOUS
    <3>3. QED
      BY <3>1, <3>2
  <2>3. /\ DOMAIN metrics' = DOMAIN metrics /\ metrics'[alg] # <<>>
        /\ \A a \in DOMAIN After : a # alg => metrics'[a] = metrics[a]
    BY <2>1, <2>2 DEF Staged
  <2>4. DOMAIN After = {"FIFO", "SJF", "STCF", "RR", "MLFQ"}
    BY DEF After
  <2>5. alg' \in {"FIFO", "SJF"} => alg = "FIFO"
    BY <2>1, <2>4 DEF After
  <2>6. alg' \notin {"FIFO", "SJF"} => alg # "FIFO"
    BY <2>1 DEF After
  <2>7. QED
    BY <2>3, <2>4, <2>5, <2>6 DEF Staged
<1>3. QED
  BY <1>1, <1>2

LEMMA OptimalStep == TimelineInv /\ OptimalInv /\ [Next]_vars => OptimalInv'
<1> SUFFICES ASSUME TimelineInv, OptimalInv, [Next]_vars PROVE OptimalInv'
  OBVIOUS
<1>1. Inv /\ FifoSlices /\ Staged
  BY DEF TimelineInv, OptimalInv
<1>2. Staged'
  BY <1>1, StagedStep
<1>3. processes' = processes
  BY MetricsKept DEF NextAlgorithm
<1>4. ASSUME Positive'
      PROVE  Recorded' /\ \A a \in DOMAIN After : metrics'[a] # <<>> => Measured(a)'
  <2>1. Positive
    BY <1>3, <1>4, SameArrivals
  <2>2. Recorded /\ \A a \in DOMAIN After : metrics[a] # <<>> => Measured(a)
    BY <2>1 DEF OptimalInv
  <2>3. ASSUME NEW a \in DOMAIN After, metrics'[a] # <<>>, metrics'[a] = metrics[a] PROVE Measured(a)'
    <3>1. Measured(a)
      BY <2>2, <2>3
    <3>2. /\ ArrivalOf' = ArrivalOf /\ BurstOf' = BurstOf /\ Greedy(a)' = Greedy(a)
          /\ \A q \in Procs : Arrival(q)' = Arrival(q)
      BY <1>3, SameArrivals, SameWorkload
    <3>3. QED
      BY <2>3, <3>1, <3>2 DEF Measured
  <2>4. ASSUME NEW a \in DOMAIN After, metrics'[a] # <<>> PROVE Measured(a)'
    <3>1. CASE NextAlgorithm /\ a = alg
      BY <1>1, <2>2, <3>1, MeasuredEnd DEF Staged
    <3>2. CASE NextAlgorithm /\ a # alg
      <4>1. metrics'[a] = metrics[a]
        BY <1>1, <3>2 DEF NextAlgorithm, Staged
      <4>2. QED
        BY <2>3, <2>4, <4>1
    <3>3. CASE ~NextAlgorithm
      BY <2>3, <2>4, <3>3, MetricsKept
    <3>4. QED
      BY <3>1, <3>2, <3>3
  <2>5. Recorded'
    BY <1>1, <2>1, <2>2, RecordedStep
  <2>6. QED
    BY <2>4, <2>5
<1>5. QED
  BY <1>2, <1>4 DEF OptimalInv

LEMMA OptimalInit == Init => OptimalInv
<1> SUFFICES ASSUME Init PROVE OptimalInv
  OBVIOUS
<1>1. /\ alg = "FIFO" /\ remaining_time = BurstOf /\ time = 0
      /\ metrics = [a \in DOMAIN After |-> <<>>]
  BY DEF Init, BurstOf
<1>2. Staged
  BY <1>1 DEF Staged, After
<1>3. ASSUME Positive PROVE Recorded
  <2>1. TypeOK
    BY InitInv DEF Inv
  <2>2. ArrivalOf \in [Procs -> Nat] /\ BurstOf \in [Procs -> Nat] /\ \A q \in Procs : BurstOf[q] > 0
    BY <1>3, <2>1, ArrivalTypes DEF Positive
  <2>3. Tracks([t \in Nat |-> BurstOf], ArrivalOf, BurstOf, BurstOf, completion_time, 0)
    BY <2>2, RecordedNew
  <2>4. PICK h : Tracks(h, ArrivalOf, BurstOf, remaining_time, completion_time, time)
    BY <1>1, <2>3
  <2>5. \A t \in Nat : ~(t < time)
    BY <1>1
  <2>6. QED
    BY <2>4, <2>5 DEF Recorded
<1>4. \A a \in DOMAIN After : metrics[a] = <<>>
  BY <1>1
<1>5. QED
  BY <1>2, <1>3, <1>4 DEF OptimalInv

-----------------------------------------------------------------------------
(* The sums of turnaround times.                                           *)

TotalOf(M) == MapThenSumSet(LAMBDA q : M[q].turnaround_time, Procs)

LEMMA TotalIsSum ==
  ASSUME NEW M
  PROVE  TotalOf(M) = Sum([q \in Procs |-> M[q].turnaround_time], Procs)
<1> DEFINE f == [q \in Procs |-> M[q].turnaround_time]
           E(g) == g = [s \in SUBSET Procs |-> IF s = {} THEN 0
                          ELSE M[CHOOSE x \in s : TRUE].turnaround_time
                                  + g[s \ {CHOOSE x \in s : TRUE}]]
           h == CHOOSE g : E(g)
<1>0. IsFiniteSet(Procs)
  BY ProcsFinite
<1>1. PICK g : Sums(g, Procs, f)
  BY <1>0, SumsExist
<1>2. \A s \in SUBSET Procs : s # {} =>
        /\ Pick(s) = CHOOSE x \in s : TRUE
        /\ f[Pick(s)] = M[CHOOSE x \in s : TRUE].turnaround_time
  BY PickIn DEF Pick
<1> HIDE DEF f
<1>3. E(g)
  BY <1>1, <1>2 DEF Sums
<1>4. E(h)
  <2> HIDE DEF E
  <2>1. QED
    BY <1>3
<1>5. TotalOf(M) = h[Procs]
  BY Zenon DEF TotalOf, MapThenSumSet, MapThenFoldSet
<1> HIDE DEF h
<1>6. Sums(h, Procs, f)
  BY <1>2, <1>4 DEF Sums
<1>7. QED
  BY <1>0, <1>5, <1>6, SumIs DEF f

\* The greedy algorithms are not beaten.
LEMMA GreedyIsBest ==
  ASSUME TypeOK, Positive, NEW a, NEW b, Measured(a), Measured(b), Greedy(a)
  PROVE  Total(a) \in Int /\ Total(a) <= Total(b)
<1>1. /\ ArrivalOf \in [Procs -> Nat] /\ \A q \in Procs : ArrivalOf[q] = Arrival(q)
      /\ \A q \in Procs : BurstOf[q] > 0
  BY ArrivalTypes DEF Positive
<1>2. PICK h, C : /\ History(h, ArrivalOf, BurstOf) /\ Finishes(h, C)
                  /\ \A q \in Procs : metrics[a][q].turnaround_time = C[q] - Arrival(q)
                  /\ \A t \in Nat : Shortest(h, ArrivalOf, t)
  BY DEF Measured
<1>3. PICK g, D : /\ History(g, ArrivalOf, BurstOf) /\ Finishes(g, D)
                  /\ \A q \in Procs : metrics[b][q].turnaround_time = D[q] - Arrival(q)
  BY DEF Measured
<1>4. Sum(Turnaround(ArrivalOf, C), Procs) <= Sum(Turnaround(ArrivalOf, D), Procs)
  BY <1>1, <1>2, <1>3, ShortestIsBest
<1>5. /\ Total(a) = TotalOf(metrics[a])
      /\ Total(b) = TotalOf(metrics[b])
  BY DEF Total, TotalOf, MapThenSumSet, MapThenFoldSet
<1>6. /\ Turnaround(ArrivalOf, C) = [q \in Procs |-> metrics[a][q].turnaround_time]
      /\ Turnaround(ArrivalOf, D) = [q \in Procs |-> metrics[b][q].turnaround_time]
  BY <1>1, <1>2, <1>3 DEF Turnaround
<1>7. /\ Total(a) = Sum(Turnaround(ArrivalOf, C), Procs)
      /\ Total(b) = Sum(Turnaround(ArrivalOf, D), Procs)
  BY <1>5, <1>6, TotalIsSum
<1>8. Sum(Turnaround(ArrivalOf, C), Procs) \in Int
  <2>1. \A q \in Procs : Turnaround(ArrivalOf, C)[q] \in Int
    BY <1>1, <1>2 DEF Turnaround, Finishes
  <2>2. IsFiniteSet(Procs)
    BY ProcsFinite
  <2>3. QED
    BY <2>1, <2>2, SumInt
<1>9. QED
  BY <1>4, <1>7, <1>8

\* "Optimal for minimizing average turnaround time", for any number of
\* processes, any arrivals and any bursts but 0: no algorithm of the report
\* beats STCF, nor does STCF beat SJF when all arrive together.
THEOREM NobodyBeatsStcf == Spec => []ShortestFirstIsOptimal
<1>1. TimelineInv /\ OptimalInv => ShortestFirstIsOptimal
  <2> SUFFICES ASSUME TimelineInv, OptimalInv, Positive PROVE ShortestFirstIsOptimal
    BY DEF ShortestFirstIsOptimal, Positive
  <2>1. /\ TypeOK /\ \A a \in DOMAIN After : metrics[a] # <<>> => Measured(a)
        /\ "SJF" \in DOMAIN After /\ "STCF" \in DOMAIN After /\ Greedy("STCF")
    BY DEF TimelineInv, Inv, OptimalInv, After, Greedy
  <2>2. ASSUME NEW a \in DOMAIN After, metrics["STCF"] # <<>>, metrics[a] # <<>>
        PROVE  Total("STCF") <= Total(a)
    BY <2>1, <2>2, GreedyIsBest
  <2>3. ASSUME Together, metrics["STCF"] # <<>> PROVE Total("SJF") = Total("STCF")
    <3>1. metrics["SJF"] # <<>>
      BY <2>3 DEF OptimalInv, Staged
    <3>2. Measured("SJF") /\ Measured("STCF") /\ Greedy("SJF")
      BY <2>1, <2>3, <3>1 DEF Greedy
    <3>3. /\ Total("SJF") \in Int /\ Total("SJF") <= Total("STCF")
          /\ Total("STCF") \in Int /\ Total("STCF") <= Total("SJF")
      BY <2>1, <3>2, GreedyIsBest
    <3>4. QED
      BY <3>3
  <2>4. QED
    BY <2>2, <2>3 DEF ShortestFirstIsOptimal, Together
<1>2. QED
  BY <1>1, OptimalInit, OptimalStep, TimelineInvariance, PTL DEF Spec
=============================================================================
