----------------------------- MODULE SumFacts -----------------------------
(***************************************************************************)
(* What MapThenSumSet of the community modules computes on finite sets of  *)
(* integers, for the accounts of quantities.  Its recursive definition is  *)
(* reasoned about through smallest counterexamples: a nonempty set of      *)
(* subsets of a finite set has a smallest member.                          *)
(***************************************************************************)
EXTENDS Integers, FiniteSetsExt, FiniteSetTheorems, WellFoundedInduction, TLAPS

\* The sum of w[x] for x in S.
SumOf(w, S) == MapThenSumSet(LAMBDA x : w[x], S)

\* The element that the fold takes next.
Pick(s) == CHOOSE x \in s : TRUE

\* g is the fold's recursive function on the subsets of U.
IsFold(g, w, U) ==
    g = [s \in SUBSET U |->
            IF s = {} THEN 0 ELSE w[Pick(s)] + g[s \ {Pick(s)}]]

LEMMA PickIn == ASSUME NEW s, s # {} PROVE Pick(s) \in s
BY DEF Pick

-----------------------------------------------------------------------------
\* The order of the natural numbers is well founded.
LEMMA LeastNat ==
    ASSUME NEW C, C \subseteq Nat, C # {}
    PROVE  \E p \in C : \A q \in C : ~ (q < p)
<1> DEFINE R == OpToRel(<, Nat)
<1>1. IsWellFoundedOn(R, Nat)
    BY NatLessThanWellFounded
<1>2. PICK p \in C : \A q \in C : ~ (<<q, p>> \in R)
    BY <1>1, WFMin
<1>3. \A q \in C : q < p => <<q, p>> \in R
    BY DEF OpToRel
<1> QED BY <1>2, <1>3

\* A smallest member of a set of finite sets: none with one element less.
LEMMA SmallestSet ==
    ASSUME NEW U, IsFiniteSet(U), NEW C, C \subseteq SUBSET U, C # {}
    PROVE  \E T \in C : \A x \in T : T \ {x} \notin C
<1> DEFINE N == {Cardinality(T) : T \in C}
<1>1. \A T \in C : IsFiniteSet(T) /\ Cardinality(T) \in Nat
    BY FS_Subset, FS_CardinalityType
<1>2. N \subseteq Nat /\ N # {}
    BY <1>1
<1>3. PICK n \in N : \A m \in N : ~ (m < n)
    BY <1>2, LeastNat
<1>4. PICK T \in C : n = Cardinality(T)
    BY <1>3
<1>5. ASSUME NEW x \in T, T \ {x} \in C
      PROVE  FALSE
    <2>1. Cardinality(T \ {x}) = Cardinality(T) - 1
        BY <1>1, <1>5, FS_RemoveElement
    <2>2. Cardinality(T \ {x}) \in N
        BY <1>5
    <2>3. n \in Nat
        BY <1>1, <1>4
    <2>4. ~ (n - 1 < n)
        BY <1>3, <1>4, <2>1, <2>2
    <2> QED BY <2>3, <2>4
<1> QED BY <1>4, <1>5

\* The recursion has a solution.
LEMMA FoldExists ==
    ASSUME NEW U, IsFiniteSet(U), NEW w
    PROVE  \E g : IsFold(g, w, U)
<1> DEFINE Part(n) == {T \in SUBSET U : Cardinality(T) <= n}
           Ok(g, n) == g = [s \in Part(n) |->
                IF s = {} THEN 0 ELSE w[Pick(s)] + g[s \ {Pick(s)}]]
           C == {n \in Nat : ~ \E g : Ok(g, n)}
<1>1. \A T \in SUBSET U : /\ IsFiniteSet(T) /\ Cardinality(T) \in Nat
                          /\ Cardinality(T) <= Cardinality(U)
    BY FS_Subset, FS_CardinalityType
<1>2. \A T \in SUBSET U : T # {} =>
          /\ T \ {Pick(T)} \in SUBSET U
          /\ Cardinality(T \ {Pick(T)}) = Cardinality(T) - 1
    BY <1>1, PickIn, FS_RemoveElement
<1>3. SUFFICES ASSUME C # {}
               PROVE  FALSE
    <2>1. SUFFICES ASSUME C = {}
                   PROVE  \E g : IsFold(g, w, U)
        OBVIOUS
    <2>2. Cardinality(U) \in Nat
        BY <1>1
    <2>3. PICK g : Ok(g, Cardinality(U))
        BY <2>1, <2>2
    <2>4. Part(Cardinality(U)) = SUBSET U
        BY <1>1
    <2>5. IsFold(g, w, U)
        BY <2>3, <2>4 DEF IsFold
    <2> QED BY <2>5
<1>4. C \subseteq Nat
    OBVIOUS
<1>5. PICK m \in C : \A k \in C : ~ (k < m)
    BY <1>3, <1>4, LeastNat
<1>6. m \in Nat /\ ~ \E g : Ok(g, m)
    OBVIOUS
<1>7. m # 0
    <2>1. SUFFICES ASSUME m = 0
                   PROVE  FALSE
        OBVIOUS
    <2> DEFINE h == [s \in Part(0) |-> 0]
    <2>2. \A s \in Part(0) : s = {}
        BY <1>1, FS_EmptySet
    <2>3. Ok(h, 0)
        BY <2>2
    <2> QED BY <1>6, <2>1, <2>3
<1>8. m - 1 \in Nat /\ m - 1 < m
    BY <1>6, <1>7
<1>9. PICK g : Ok(g, m - 1)
    BY <1>5, <1>8
<1> DEFINE h == [s \in Part(m) |->
                   IF s = {} THEN 0 ELSE w[Pick(s)] + g[s \ {Pick(s)}]]
<1>10. ASSUME NEW s \in Part(m), s # {}
       PROVE  h[s \ {Pick(s)}] = g[s \ {Pick(s)}]
    <2> DEFINE t == s \ {Pick(s)}
    <2>1. t \in Part(m - 1)
        BY <1>1, <1>2, <1>6, <1>10
    <2>2. t \in Part(m)
        BY <1>1, <1>6, <2>1
    <2> HIDE DEF t
    <2>3. g[t] = IF t = {} THEN 0 ELSE w[Pick(t)] + g[t \ {Pick(t)}]
        BY <1>9, <2>1
    <2>4. h[t] = IF t = {} THEN 0 ELSE w[Pick(t)] + g[t \ {Pick(t)}]
        BY <2>2
    <2>5. h[t] = g[t]
        BY <2>3, <2>4
    <2> QED BY <2>5 DEF t
<1>11. Ok(h, m)
    BY <1>10
<1> QED BY <1>6, <1>11

-----------------------------------------------------------------------------
\* Two solutions agree where their weights do.
LEMMA FoldAgrees ==
    ASSUME NEW U, NEW V, NEW w, NEW v, NEW g, NEW h,
           IsFold(g, w, U), IsFold(h, v, V),
           NEW S, S \subseteq U, S \subseteq V, IsFiniteSet(S),
           \A x \in S : w[x] = v[x]
    PROVE  g[S] = h[S]
<1> DEFINE C == {T \in SUBSET S : g[T] # h[T]}
<1>1. SUFFICES ASSUME C # {}
               PROVE  FALSE
    OBVIOUS
<1>2. C \subseteq SUBSET S
    OBVIOUS
<1>3. PICK T \in C : \A x \in T : T \ {x} \notin C
    BY <1>1, <1>2, SmallestSet
<1>4. /\ g[T] = IF T = {} THEN 0 ELSE w[Pick(T)] + g[T \ {Pick(T)}]
      /\ h[T] = IF T = {} THEN 0 ELSE v[Pick(T)] + h[T \ {Pick(T)}]
    <2>1. T \in SUBSET U /\ T \in SUBSET V
        OBVIOUS
    <2> QED BY <2>1 DEF IsFold
<1>5. T # {}
    BY <1>4
<1>6. Pick(T) \in T
    BY <1>5, PickIn
<1>7. g[T \ {Pick(T)}] = h[T \ {Pick(T)}] /\ w[Pick(T)] = v[Pick(T)]
    BY <1>3, <1>6
<1> QED BY <1>4, <1>5, <1>7

\* SumOf is the solution's value.
LEMMA SumFolds ==
    ASSUME NEW S, IsFiniteSet(S), NEW w
    PROVE  \E g : IsFold(g, w, S) /\ SumOf(w, S) = g[S]
<1> DEFINE it == CHOOSE g : IsFold(g, w, S)
<1>1. IsFold(it, w, S)
    BY FoldExists
<1>2. SumOf(w, S) = it[S]
    BY DEF SumOf, MapThenSumSet, MapThenFoldSet, IsFold, Pick
<1> QED BY <1>1, <1>2

\* One element counts once, whichever the fold takes first.
LEMMA SumSplit ==
    ASSUME NEW S, IsFiniteSet(S), NEW w, \A x \in S : w[x] \in Int
    PROVE  /\ SumOf(w, S) \in Int
           /\ \A x \in S : SumOf(w, S) = w[x] + SumOf(w, S \ {x})
<1>1. PICK g : IsFold(g, w, S) /\ SumOf(w, S) = g[S]
    BY SumFolds
<1>2. \A T \in SUBSET S : IsFiniteSet(T)
    BY FS_Subset
<1>3. \A T \in SUBSET S : T # {} =>
          g[T] = w[Pick(T)] + g[T \ {Pick(T)}] /\ Pick(T) \in T
    BY <1>1, PickIn DEF IsFold
<1>4. {} \in SUBSET S /\ g[{}] = 0
    BY <1>1 DEF IsFold
<1>5. \A T \in SUBSET S : g[T] \in Int
    <2> DEFINE C == {T \in SUBSET S : g[T] \notin Int}
    <2>1. SUFFICES ASSUME C # {}
                   PROVE  FALSE
        OBVIOUS
    <2>2. PICK T \in C : \A x \in T : T \ {x} \notin C
        BY <2>1, SmallestSet
    <2>3. T # {}
        BY <1>4, <2>2
    <2>4. g[T \ {Pick(T)}] \in Int /\ w[Pick(T)] \in Int
        BY <1>3, <2>2, <2>3
    <2>5. T \in SUBSET S /\ g[T] \notin Int
        BY <2>2
    <2>6. g[T] = w[Pick(T)] + g[T \ {Pick(T)}]
        BY <1>3, <2>3, <2>5
    <2> QED BY <2>4, <2>5, <2>6
<1>6. \A T \in SUBSET S : \A x \in T : g[T] = w[x] + g[T \ {x}]
    <2> DEFINE C == {T \in SUBSET S : \E x \in T : g[T] # w[x] + g[T \ {x}]}
    <2>1. SUFFICES ASSUME C # {}
                   PROVE  FALSE
        OBVIOUS
    <2>2. PICK T \in C : \A x \in T : T \ {x} \notin C
        BY <2>1, SmallestSet
    <2>3. PICK x \in T : g[T] # w[x] + g[T \ {x}]
        BY <2>2
    <2> DEFINE p == Pick(T)
               T1 == T \ {p}
               T2 == T \ {x}
               T3 == T \ {p, x}
    <2>4. /\ T \in SUBSET S /\ p \in T /\ g[T] = w[p] + g[T1]
          /\ T1 \in SUBSET S /\ T2 \in SUBSET S /\ T3 \in SUBSET S
        BY <1>3, <2>2, <2>3
    <2>5. p # x
        BY <2>3, <2>4
    <2>6. T1 \notin C /\ T2 \notin C
        BY <2>2, <2>3, <2>4
    <2>7. /\ x \in T1 /\ T1 \ {x} = T3
          /\ p \in T2 /\ T2 \ {p} = T3
        BY <2>3, <2>4, <2>5
    <2>8. g[T1] = w[x] + g[T3] /\ g[T2] = w[p] + g[T3]
        <3>1. \A y \in T1 : g[T1] = w[y] + g[T1 \ {y}]
            BY <2>4, <2>6
        <3>2. \A y \in T2 : g[T2] = w[y] + g[T2 \ {y}]
            BY <2>4, <2>6
        <3> HIDE DEF T1, T2, T3
        <3> QED BY <2>7, <3>1, <3>2
    <2>9. w[p] \in Int /\ w[x] \in Int /\ g[T3] \in Int
        BY <1>5, <2>3, <2>4
    <2>10. g[T] # w[x] + g[T2]
        BY <2>3
    <2> HIDE DEF p, T1, T2, T3
    <2> QED BY <2>4, <2>8, <2>9, <2>10
<1>7. ASSUME NEW x \in S
      PROVE  SumOf(w, S \ {x}) = g[S \ {x}]
    <2>1. S \ {x} \in SUBSET S /\ IsFiniteSet(S \ {x})
        BY <1>2
    <2>2. PICK h : IsFold(h, w, S \ {x}) /\ SumOf(w, S \ {x}) = h[S \ {x}]
        BY <2>1, SumFolds
    <2> QED BY <1>1, <2>1, <2>2, FoldAgrees
<1> QED BY <1>1, <1>5, <1>6, <1>7

LEMMA SumEmpty == ASSUME NEW w PROVE SumOf(w, {}) = 0
<1>1. PICK g : IsFold(g, w, {}) /\ SumOf(w, {}) = g[{}]
    BY SumFolds, FS_EmptySet
<1>2. {} \in SUBSET {}
    OBVIOUS
<1> QED BY <1>1, <1>2 DEF IsFold

LEMMA SumAgrees ==
    ASSUME NEW S, IsFiniteSet(S), NEW w, NEW v, \A x \in S : w[x] = v[x]
    PROVE  SumOf(w, S) = SumOf(v, S)
<1>1. PICK g : IsFold(g, w, S) /\ SumOf(w, S) = g[S]
    BY SumFolds
<1>2. PICK h : IsFold(h, v, S) /\ SumOf(v, S) = h[S]
    BY SumFolds
<1> QED BY <1>1, <1>2, FoldAgrees
============================================================================
