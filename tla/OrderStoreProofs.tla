-------------------------- MODULE OrderStoreProofs --------------------------
(***************************************************************************)
(* Theorems about OrderStore for every capacity and every set of lists:    *)
(* pool and lists together keep what both headers promise, also while a    *)
(* loop walks a list that its body changes.                                *)
(***************************************************************************)
EXTENDS OrderStore, SequenceTheorems, FiniteSetTheorems, TLAPS

Slots == Pool!Slots

\* The address at position i of list l: its head sentinel, the nodes of its
\* objects, its tail sentinel.
Place(l, i) ==
    IF i = 0 THEN IL!Head_(l)
    ELSE IF i = Len(contents[l]) + 1 THEN IL!Tail_(l)
    ELSE IL!Node(contents[l][i])

-----------------------------------------------------------------------------
(***************************************************************************)
(* The inductive invariant.  Beyond the properties to prove, it says that  *)
(* no object is in two places, that only held objects are linked, and that *)
(* a held object that no list links has no pointers.                       *)
(***************************************************************************)
StackSound ==
    /\ \A i, j \in 1 .. Len(free_stack) :
          free_stack[i] = free_stack[j] => i = j
    /\ PoolExact

Apart ==
    \A l, m \in Lists :
        \A i \in 1 .. Len(contents[l]), j \in 1 .. Len(contents[m]) :
            contents[l][i] = contents[m][j] => l = m /\ i = j

Owned == \A l \in Lists : \A i \in 1 .. Len(contents[l]) : contents[l][i] \in held

Chained(l) ==
    /\ \A i \in 0 .. Len(contents[l]) :
          /\ next[Place(l, i)] = Place(l, i + 1)
          /\ prev[Place(l, i + 1)] = Place(l, i)
    /\ size_[l] = Len(contents[l])

Unlinked ==
    \A x \in held \ Linked :
        next[IL!Node(x)] = nullptr /\ prev[IL!Node(x)] = nullptr

\* The loop is at position k of list l.
WalkAt(l, k) ==
    /\ k \in 1 .. Len(contents[l])
    /\ cur.at = IL!Node(contents[l][k])
    /\ Len(due) = Len(contents[l]) - k + 1
    /\ \A j \in 1 .. Len(due) : due[j] = contents[l][k + j - 1]

Walks == cur # NoWalk => \E k \in Nat : WalkAt(cur.list, k)

SInv ==
    /\ StoreTypeOK
    /\ StackSound
    /\ Apart
    /\ Owned
    /\ \A l \in Lists : Chained(l)
    /\ Unlinked
    /\ Walks

-----------------------------------------------------------------------------
(***************************************************************************)
(* What the operators on sequences return.                                 *)
(***************************************************************************)
LEMMA PopFacts ==
    ASSUME NEW S, NEW s \in Seq(S), Len(s) # 0
    PROVE  /\ SubSeq(s, 1, Len(s) - 1) \in Seq(S)
           /\ Len(SubSeq(s, 1, Len(s) - 1)) = Len(s) - 1
           /\ \A i \in 1 .. Len(s) - 1 : SubSeq(s, 1, Len(s) - 1)[i] = s[i]
<1> DEFINE n == Len(s)
           t == SubSeq(s, 1, n - 1)
<1>1. n \in Nat /\ n # 0 /\ \A i \in 1 .. n : s[i] \in S
    OBVIOUS
<1>2. /\ t \in Seq(S)
      /\ Len(t) = IF 1 <= n - 1 THEN n - 1 - 1 + 1 ELSE 0
      /\ \A i \in 1 .. n - 1 - 1 + 1 : t[i] = s[1 + i - 1]
    <2>1. 1 \in Int /\ n - 1 \in Int /\ \A i \in 1 .. n - 1 : s[i] \in S
        BY <1>1
    <2> QED BY <2>1, SubSeqProperties
<1> HIDE DEF n, t
<1>3. Len(t) = n - 1
    BY <1>1, <1>2
<1>4. \A i \in 1 .. n - 1 : t[i] = s[i]
    BY <1>1, <1>2
<1> QED BY <1>2, <1>3, <1>4 DEF n, t

\* RemoveAt closes the gap.
LEMMA RemoveAtFacts ==
    ASSUME NEW S, NEW s \in Seq(S), NEW k \in 1 .. Len(s)
    PROVE  /\ RemoveAt(s, k) \in Seq(S)
           /\ Len(RemoveAt(s, k)) = Len(s) - 1
           /\ \A i \in 1 .. Len(s) - 1 :
                RemoveAt(s, k)[i] = IF i < k THEN s[i] ELSE s[i + 1]
<1> DEFINE n == Len(s)
           a == SubSeq(s, 1, k - 1)
           b == SubSeq(s, k + 1, n)
<1>1. n \in Nat /\ k \in 1 .. n /\ \A i \in 1 .. n : s[i] \in S
    OBVIOUS
<1>2. /\ a \in Seq(S)
      /\ Len(a) = IF 1 <= k - 1 THEN k - 1 - 1 + 1 ELSE 0
      /\ \A i \in 1 .. k - 1 - 1 + 1 : a[i] = s[1 + i - 1]
    <2>1. 1 \in Int /\ k - 1 \in Int /\ \A i \in 1 .. k - 1 : s[i] \in S
        BY <1>1
    <2> QED BY <2>1, SubSeqProperties
<1>3. /\ b \in Seq(S)
      /\ Len(b) = IF k + 1 <= n THEN n - (k + 1) + 1 ELSE 0
      /\ \A i \in 1 .. n - (k + 1) + 1 : b[i] = s[k + 1 + i - 1]
    <2>1. k + 1 \in Int /\ n \in Int /\ \A i \in k + 1 .. n : s[i] \in S
        BY <1>1
    <2> QED BY <2>1, SubSeqProperties
<1>4. RemoveAt(s, k) = a \o b
    BY DEF RemoveAt
<1> HIDE DEF n, a, b
<1>5. /\ Len(a) = k - 1 /\ Len(b) = n - k
      /\ \A i \in 1 .. k - 1 : a[i] = s[i]
      /\ \A i \in 1 .. n - k : b[i] = s[k + i]
    BY <1>1, <1>2, <1>3
<1>6. /\ a \o b \in Seq(S)
      /\ Len(a \o b) = Len(a) + Len(b)
      /\ \A i \in 1 .. Len(a) + Len(b) :
            (a \o b)[i] = IF i <= Len(a) THEN a[i] ELSE b[i - Len(a)]
    BY <1>2, <1>3, ConcatProperties
<1>7. Len(a \o b) = n - 1
    BY <1>1, <1>5, <1>6
<1>8. \A i \in 1 .. n - 1 : (a \o b)[i] = IF i < k THEN s[i] ELSE s[i + 1]
    <2> SUFFICES ASSUME NEW i \in 1 .. n - 1
                 PROVE  (a \o b)[i] = IF i < k THEN s[i] ELSE s[i + 1]
        OBVIOUS
    <2>1. (a \o b)[i] = IF i <= k - 1 THEN a[i] ELSE b[i - (k - 1)]
        <3>1. Len(a) = k - 1 /\ Len(a) + Len(b) = n - 1
            BY <1>1, <1>5
        <3> QED BY <1>6, <3>1
    <2>2. CASE i < k
        BY <1>1, <1>5, <2>1, <2>2
    <2>3. CASE ~ (i < k)
        <3>1. i - (k - 1) \in 1 .. n - k /\ k + (i - (k - 1)) = i + 1
            BY <1>1, <2>3
        <3>2. b[i - (k - 1)] = s[i + 1]
            BY <1>5, <3>1
        <3> QED BY <1>1, <2>1, <2>3, <3>2
    <2> QED BY <2>2, <2>3
<1> QED BY <1>4, <1>6, <1>7, <1>8 DEF n

\* RemoveFirst removes what is there once, and nothing that is not there.
LEMMA RemoveFirstFacts ==
    ASSUME NEW S, NEW s \in Seq(S), NEW e
    PROVE  /\ (\A i \in 1 .. Len(s) : s[i] # e) => RemoveFirst(s, e) = s
           /\ \A k \in 1 .. Len(s) :
                s[k] = e /\ (\A i \in 1 .. Len(s) : s[i] = e => i = k) =>
                    RemoveFirst(s, e) = RemoveAt(s, k)
<1>1. ASSUME \A i \in 1 .. Len(s) : s[i] # e
      PROVE  RemoveFirst(s, e) = s
    BY <1>1 DEF RemoveFirst
<1>2. ASSUME NEW k \in 1 .. Len(s), s[k] = e,
             \A i \in 1 .. Len(s) : s[i] = e => i = k
      PROVE  RemoveFirst(s, e) = RemoveAt(s, k)
    <2>1. {i \in 1 .. Len(s) : s[i] = e} = {k}
        BY <1>2
    <2>2. Min({k}) = k
        <3>1. k \in Nat
            OBVIOUS
        <3> QED BY <3>1 DEF Min
    <2>3. SelectInSeq(s, LAMBDA v : v = e) = k
        BY <2>1, <2>2 DEF SelectInSeq
    <2> QED BY <1>2, <2>3 DEF RemoveFirst
<1> QED BY <1>1, <1>2

\* A sequence with one more element in front.
LEMMA FrontFacts ==
    ASSUME NEW S, NEW s \in Seq(S), NEW x \in S
    PROVE  /\ <<x>> \o s \in Seq(S)
           /\ Len(<<x>> \o s) = Len(s) + 1
           /\ (<<x>> \o s)[1] = x
           /\ \A i \in 1 .. Len(s) : (<<x>> \o s)[i + 1] = s[i]
<1>1. <<x>> \in Seq(S) /\ Len(<<x>>) = 1 /\ <<x>>[1] = x /\ Len(s) \in Nat
    OBVIOUS
<1>2. /\ <<x>> \o s \in Seq(S)
      /\ Len(<<x>> \o s) = 1 + Len(s)
      /\ \A i \in 1 .. 1 + Len(s) :
            (<<x>> \o s)[i] = IF i <= 1 THEN <<x>>[i] ELSE s[i - 1]
    BY <1>1, ConcatProperties
<1>3. (<<x>> \o s)[1] = x
    BY <1>1, <1>2
<1>4. \A i \in 1 .. Len(s) : (<<x>> \o s)[i + 1] = s[i]
    BY <1>1, <1>2
<1> QED BY <1>1, <1>2, <1>3, <1>4

-----------------------------------------------------------------------------
(***************************************************************************)
(* Addresses and places.                                                   *)
(***************************************************************************)
LEMMA AddressFacts ==
    /\ \A x \in Slots : IL!Node(x) \in IL!Address
    /\ \A l \in Lists : IL!Head_(l) \in IL!Address /\ IL!Tail_(l) \in IL!Address
    /\ \A x, y : IL!Node(x) = IL!Node(y) => x = y
    /\ \A l, m : IL!Head_(l) = IL!Head_(m) => l = m
    /\ \A l, m : IL!Tail_(l) = IL!Tail_(m) => l = m
    /\ \A x, l : IL!Node(x) # IL!Head_(l) /\ IL!Node(x) # IL!Tail_(l)
    /\ \A l, m : IL!Head_(l) # IL!Tail_(m)
    /\ nullptr \notin IL!Address
    /\ NoWalk \notin [list : Lists, at : IL!Address]
BY NullAssumption DEF IL!Node, IL!Head_, IL!Tail_, IL!Address, Slots

LEMMA LinkedIs ==
    ASSUME StoreTypeOK
    PROVE  \A x : x \in Linked <=>
              \E l \in Lists : \E i \in 1 .. Len(contents[l]) : contents[l][i] = x
<1>1. \A l \in Lists : DOMAIN contents[l] = 1 .. Len(contents[l])
    BY DEF StoreTypeOK
<1> QED BY <1>1 DEF Linked, Range

LEMMA PlaceFacts ==
    ASSUME StoreTypeOK, Apart
    PROVE  /\ \A l \in Lists : \A i \in 0 .. Len(contents[l]) + 1 :
                Place(l, i) \in IL!Address
           /\ \A l, m \in Lists :
                \A i \in 0 .. Len(contents[l]) + 1, j \in 0 .. Len(contents[m]) + 1 :
                    Place(l, i) = Place(m, j) => l = m /\ i = j
           /\ \A l \in Lists : \A i \in 0 .. Len(contents[l]) + 1 : \A x :
                Place(l, i) = IL!Node(x) =>
                    i \in 1 .. Len(contents[l]) /\ contents[l][i] = x
           /\ \A l \in Lists : \A i \in 1 .. Len(contents[l]) :
                Place(l, i) = IL!Node(contents[l][i])
           /\ \A l \in Lists : /\ Len(contents[l]) \in Nat
                               /\ Place(l, 0) = IL!Head_(l)
                               /\ Place(l, Len(contents[l]) + 1) = IL!Tail_(l)
<1>1. \A l \in Lists :
        /\ Len(contents[l]) \in Nat
        /\ \A i \in 1 .. Len(contents[l]) : contents[l][i] \in Slots
    BY DEF StoreTypeOK, Slots
<1>2. \A l \in Lists : /\ Place(l, 0) = IL!Head_(l)
                       /\ Place(l, Len(contents[l]) + 1) = IL!Tail_(l)
                       /\ \A i \in 1 .. Len(contents[l]) :
                            Place(l, i) = IL!Node(contents[l][i])
    BY <1>1 DEF Place
<1>3. \A l \in Lists : \A i \in 0 .. Len(contents[l]) + 1 :
        \/ i = 0
        \/ i = Len(contents[l]) + 1
        \/ i \in 1 .. Len(contents[l])
    BY <1>1
<1>4. \A l \in Lists : \A i \in 0 .. Len(contents[l]) + 1 :
        Place(l, i) \in IL!Address
    BY <1>1, <1>2, <1>3, AddressFacts
<1>5. \A l \in Lists : \A i \in 0 .. Len(contents[l]) + 1 : \A x :
        Place(l, i) = IL!Node(x) =>
            i \in 1 .. Len(contents[l]) /\ contents[l][i] = x
    BY <1>2, <1>3, AddressFacts
<1>6. ASSUME NEW l \in Lists, NEW m \in Lists,
             NEW i \in 0 .. Len(contents[l]) + 1,
             NEW j \in 0 .. Len(contents[m]) + 1, Place(l, i) = Place(m, j)
      PROVE  l = m /\ i = j
    <2>1. CASE i = 0
        BY <1>2, <1>3, <1>6, <2>1, AddressFacts
    <2>2. CASE i = Len(contents[l]) + 1
        BY <1>2, <1>3, <1>6, <2>2, AddressFacts
    <2>3. CASE i \in 1 .. Len(contents[l])
        <3>1. j \in 1 .. Len(contents[m]) /\ contents[m][j] = contents[l][i]
            BY <1>2, <1>5, <1>6, <2>3
        <3> QED BY <2>3, <3>1 DEF Apart
    <2> QED BY <1>3, <2>1, <2>2, <2>3
<1> QED BY <1>1, <1>2, <1>4, <1>5, <1>6

-----------------------------------------------------------------------------
(***************************************************************************)
(* Linking and unlinking.                                                  *)
(***************************************************************************)
ListTypes ==
    /\ next \in [IL!Address -> IL!Address \cup {nullptr}]
    /\ prev \in [IL!Address -> IL!Address \cup {nullptr}]
    /\ size_ \in [Lists -> Nat]
    /\ contents \in [Lists -> Seq(Slots)]

ListsSound ==
    /\ ListTypes
    /\ Apart
    /\ Owned
    /\ \A l \in Lists : Chained(l)
    /\ Unlinked

\* x joins list l behind position k.
Spliced(l, k, x) ==
    /\ contents' \in [Lists -> Seq(Slots)]
    /\ \A m \in Lists \ {l} : contents'[m] = contents[m]
    /\ Len(contents'[l]) = Len(contents[l]) + 1
    /\ \A i \in 1 .. Len(contents[l]) + 1 :
          contents'[l][i] = IF i <= k THEN contents[l][i]
                            ELSE IF i = k + 1 THEN x ELSE contents[l][i - 1]
    /\ next' = [next EXCEPT ![Place(l, k)] = IL!Node(x),
                            ![IL!Node(x)] = Place(l, k + 1)]
    /\ prev' = [prev EXCEPT ![IL!Node(x)] = Place(l, k),
                            ![Place(l, k + 1)] = IL!Node(x)]
    /\ size_' = [size_ EXCEPT ![l] = @ + 1]
    /\ held' = held

LEMMA SpliceSound ==
    ASSUME StoreTypeOK, ListsSound,
           NEW l \in Lists, NEW x \in held \ Linked,
           NEW k \in 0 .. Len(contents[l]), Spliced(l, k, x)
    PROVE  ListsSound'
<1> DEFINE n == Len(contents[l])
           N == IL!Node(x)
<1>0. /\ n \in Nat /\ k \in Nat /\ k <= n /\ x \in Slots /\ N \in IL!Address
      /\ \A m \in Lists : Len(contents[m]) \in Nat
    BY AddressFacts DEF StoreTypeOK, Slots
<1>1. \A m \in Lists : \A i \in 1 .. Len(contents[m]) : contents[m][i] # x
    BY LinkedIs
<1>2. \A m \in Lists : \A i \in 0 .. Len(contents[m]) + 1 :
        Place(m, i) \in IL!Address /\ Place(m, i) # N
    BY <1>1, PlaceFacts DEF ListsSound
<1>3. /\ \A i \in 0 .. k : Place(l, i)' = Place(l, i)
      /\ Place(l, k + 1)' = N
      /\ \A i \in k + 1 .. n + 1 : Place(l, i + 1)' = Place(l, i)
    <2>1. ASSUME NEW i \in 0 .. k
          PROVE  Place(l, i)' = Place(l, i)
        <3>1. CASE i = 0
            BY <3>1 DEF Place
        <3>2. CASE i # 0
            <4>1. /\ i \in 1 .. n + 1 /\ i <= k /\ i # n + 1 /\ i # n + 1 + 1
                BY <1>0, <3>2
            <4> QED BY <3>2, <4>1 DEF Place, Spliced
        <3> QED BY <3>1, <3>2
    <2>2. Place(l, k + 1)' = N
        BY <1>0 DEF Place, Spliced
    <2>3. ASSUME NEW i \in k + 1 .. n + 1
          PROVE  Place(l, i + 1)' = Place(l, i)
        <3>1. i \in Nat /\ i # 0 /\ i + 1 # 0 /\ ~ (i + 1 <= k) /\ i + 1 # k + 1
              /\ i + 1 - 1 = i
            BY <1>0
        <3>2. CASE i = n + 1
            BY <1>0, <3>1, <3>2 DEF Place, Spliced
        <3>3. CASE i # n + 1
            <4>1. i + 1 \in 1 .. n + 1 /\ i + 1 # n + 1 + 1
                BY <1>0, <3>3
            <4> QED BY <1>0, <3>1, <3>3, <4>1 DEF Place, Spliced
        <3> QED BY <3>2, <3>3
    <2> QED BY <2>1, <2>2, <2>3
<1>4. \A m \in Lists \ {l} : \A i : Place(m, i)' = Place(m, i)
    BY DEF Place, Spliced
<1>5. /\ next' \in [IL!Address -> IL!Address \cup {nullptr}]
      /\ prev' \in [IL!Address -> IL!Address \cup {nullptr}]
      /\ size_' \in [Lists -> Nat]
      /\ size_'[l] = size_[l] + 1 /\ \A m \in Lists \ {l} : size_'[m] = size_[m]
      /\ next'[Place(l, k)] = N /\ next'[N] = Place(l, k + 1)
      /\ prev'[N] = Place(l, k) /\ prev'[Place(l, k + 1)] = N
      /\ \A a \in IL!Address \ {Place(l, k), N} : next'[a] = next[a]
      /\ \A a \in IL!Address \ {Place(l, k + 1), N} : prev'[a] = prev[a]
    <2> DEFINE A == Place(l, k)
               B == Place(l, k + 1)
    <2>1. A \in IL!Address /\ B \in IL!Address /\ A # N /\ B # N
        BY <1>0, <1>2
    <2>2. /\ next' = [next EXCEPT ![A] = N, ![N] = B]
          /\ prev' = [prev EXCEPT ![N] = A, ![B] = N]
          /\ size_' = [size_ EXCEPT ![l] = @ + 1]
        BY DEF Spliced
    <2>3. ListTypes
        BY DEF ListsSound
    <2> HIDE DEF N, A, B
    <2>4. /\ next' \in [IL!Address -> IL!Address \cup {nullptr}]
          /\ next'[A] = N /\ next'[N] = B
          /\ \A a \in IL!Address \ {A, N} : next'[a] = next[a]
        BY <1>0, <2>1, <2>2, <2>3 DEF ListTypes
    <2>5. /\ prev' \in [IL!Address -> IL!Address \cup {nullptr}]
          /\ prev'[N] = A /\ prev'[B] = N
          /\ \A a \in IL!Address \ {B, N} : prev'[a] = prev[a]
        BY <1>0, <2>1, <2>2, <2>3 DEF ListTypes
    <2>6. /\ size_' \in [Lists -> Nat]
          /\ size_'[l] = size_[l] + 1
          /\ \A m \in Lists \ {l} : size_'[m] = size_[m]
        BY <2>2, <2>3 DEF ListTypes
    <2> QED BY <2>4, <2>5, <2>6 DEF A, B
\* Where the object at each new position was.
<1>5a. ASSUME NEW m \in Lists, NEW i \in 1 .. Len(contents'[m])
       PROVE  \/ m = l /\ i = k + 1 /\ contents'[m][i] = x
              \/ \E u \in 1 .. Len(contents[m]) :
                    /\ contents'[m][i] = contents[m][u]
                    /\ i = IF m = l /\ u > k THEN u + 1 ELSE u
    <2>1. CASE m # l
        BY <2>1 DEF Spliced
    <2>2. CASE m = l /\ i <= k
        <3>1. i \in 1 .. n /\ i \in 1 .. n + 1 /\ ~ (i > k)
            BY <1>0, <2>2
        <3> QED BY <2>2, <3>1 DEF Spliced
    <2>3. CASE m = l /\ i = k + 1
        <3>1. i \in 1 .. n + 1 /\ ~ (i <= k)
            BY <1>0, <2>3
        <3> QED BY <2>3, <3>1 DEF Spliced
    <2>4. CASE m = l /\ i > k + 1
        <3>1. i \in 1 .. n + 1
            BY <2>4 DEF Spliced
        <3>2. /\ ~ (i <= k) /\ i # k + 1
              /\ i - 1 \in 1 .. n /\ i - 1 > k /\ i = i - 1 + 1
            BY <1>0, <2>4, <3>1
        <3>3. contents'[m][i] = contents[m][i - 1]
            BY <2>4, <3>1, <3>2 DEF Spliced
        <3> QED BY <2>4, <3>2, <3>3
    <2>5. i \in Nat
        <3>1. m = l => i \in 1 .. n + 1
            BY DEF Spliced
        <3>2. m # l => i \in 1 .. Len(contents[m])
            BY DEF Spliced
        <3> QED BY <1>0, <3>1, <3>2
    <2> QED BY <1>0, <2>1, <2>2, <2>3, <2>4, <2>5
<1>6. Apart'
    <2> SUFFICES ASSUME NEW m \in Lists, NEW p \in Lists,
                        NEW i \in 1 .. Len(contents'[m]),
                        NEW j \in 1 .. Len(contents'[p]),
                        contents'[m][i] = contents'[p][j]
                 PROVE  m = p /\ i = j
        BY DEF Apart
    <2>1. CASE contents'[m][i] = x
        <3>1. m = l /\ i = k + 1
            BY <1>1, <1>5a, <2>1
        <3>2. contents'[p][j] = x
            BY <2>1
        <3>3. p = l /\ j = k + 1
            BY <1>1, <1>5a, <3>2
        <3> QED BY <3>1, <3>3
    <2>2. CASE contents'[m][i] # x
        <3>1. PICK u \in 1 .. Len(contents[m]) :
                /\ contents'[m][i] = contents[m][u]
                /\ i = IF m = l /\ u > k THEN u + 1 ELSE u
            BY <1>5a, <2>2
        <3>2. PICK v \in 1 .. Len(contents[p]) :
                /\ contents'[p][j] = contents[p][v]
                /\ j = IF p = l /\ v > k THEN v + 1 ELSE v
            BY <1>5a, <2>2
        <3>3. m = p /\ u = v
            <4>1. contents[m][u] = contents[p][v]
                BY <3>1, <3>2
            <4>2. Apart
                BY DEF ListsSound
            <4> HIDE DEF n
            <4> QED BY <4>1, <4>2 DEF Apart
        <3> QED BY <3>1, <3>2, <3>3
    <2> QED BY <2>1, <2>2
<1>7. Owned'
    <2> SUFFICES ASSUME NEW m \in Lists, NEW i \in 1 .. Len(contents'[m])
                 PROVE  contents'[m][i] \in held'
        BY DEF Owned
    <2> QED BY <1>5a DEF ListsSound, Owned, Spliced
<1>8. ASSUME NEW m \in Lists
      PROVE  Chained(m)'
    <2>1. CASE m # l
        <3>1. \A i \in 0 .. Len(contents[m]) :
                /\ Place(m, i) \notin {Place(l, k), N}
                /\ Place(m, i + 1) \notin {Place(l, k + 1), N}
                /\ Place(m, i) \in IL!Address /\ Place(m, i + 1) \in IL!Address
            BY <1>0, <1>2, <2>1, PlaceFacts DEF ListsSound
        <3>2. contents'[m] = contents[m]
            BY <2>1 DEF Spliced
        <3> QED BY <1>4, <1>5, <2>1, <3>1, <3>2 DEF ListsSound, Chained
    <2>2. CASE m = l
        <3>1. Chained(l)
            BY DEF ListsSound
        <3>2. ASSUME NEW i \in 0 .. n + 1
              PROVE  /\ next'[Place(l, i)'] = Place(l, i + 1)'
                     /\ prev'[Place(l, i + 1)'] = Place(l, i)'
            <4>1. CASE i < k
                <5>1. i \in 0 .. n /\ i \in 0 .. k /\ i + 1 \in 0 .. k /\ i # k
                    BY <1>0, <4>1
                <5>2. /\ Place(l, i) \in IL!Address \ {Place(l, k), N}
                      /\ Place(l, i + 1) \in IL!Address \ {Place(l, k + 1), N}
                    <6>1. /\ i \in 0 .. n + 1 /\ i + 1 \in 0 .. n + 1
                          /\ k \in 0 .. n + 1 /\ k + 1 \in 0 .. n + 1
                          /\ i # k /\ i + 1 # k + 1
                        BY <1>0, <5>1
                    <6> QED BY <1>2, <6>1, PlaceFacts DEF ListsSound
                <5> QED BY <1>3, <1>5, <3>1, <5>1, <5>2 DEF Chained
            <4>2. CASE i = k
                BY <1>0, <1>3, <1>5, <4>2
            <4>3. CASE i = k + 1
                <5>1. k + 1 \in k + 1 .. n + 1
                    BY <1>0
                <5> QED BY <1>3, <1>5, <4>3, <5>1
            <4>4. CASE i > k + 1
                <5>1. PICK j \in Nat : i = j + 1
                    BY <1>0, <4>4
                <5>2. /\ j \in k + 1 .. n + 1 /\ j + 1 \in k + 1 .. n + 1
                      /\ j \in 0 .. n /\ j # k /\ j + 1 # k + 1
                      /\ j + 1 \in 0 .. n + 1
                    BY <1>0, <4>4, <5>1
                <5>3. /\ Place(l, j) \in IL!Address \ {Place(l, k), N}
                      /\ Place(l, j + 1) \in IL!Address \ {Place(l, k + 1), N}
                    BY <1>0, <1>2, <5>2, PlaceFacts DEF ListsSound
                <5>4. Place(l, i)' = Place(l, j) /\ Place(l, i + 1)' = Place(l, j + 1)
                    BY <1>3, <5>1, <5>2
                <5> QED BY <1>5, <3>1, <5>2, <5>3, <5>4 DEF Chained
            <4> QED BY <1>0, <4>1, <4>2, <4>3, <4>4
        <3>3. size_'[l] = Len(contents'[l])
            BY <1>5, <3>1 DEF Chained, Spliced
        <3>4. Len(contents'[l]) = n + 1
            BY DEF Spliced
        <3> QED BY <2>2, <3>2, <3>3, <3>4 DEF Chained
    <2> QED BY <2>1, <2>2
<1>9. Unlinked'
    <2> SUFFICES ASSUME NEW y \in held', y \notin Linked'
                 PROVE  next'[IL!Node(y)] = nullptr /\ prev'[IL!Node(y)] = nullptr
        BY DEF Unlinked
    <2>1. \A z : z \in Linked' <=>
            \E m \in Lists : \E i \in 1 .. Len(contents'[m]) : contents'[m][i] = z
        <3>1. \A m \in Lists : DOMAIN contents'[m] = 1 .. Len(contents'[m])
            BY DEF Spliced
        <3> QED BY <3>1 DEF Linked, Range
    <2>2. y # x
        <3>0. k + 1 \in 1 .. n + 1 /\ ~ (k + 1 <= k)
            BY <1>0
        <3>1. k + 1 \in 1 .. Len(contents'[l]) /\ contents'[l][k + 1] = x
            BY <3>0 DEF Spliced
        <3> QED BY <2>1, <3>1
    <2>3. y \notin Linked
        <3> SUFFICES ASSUME NEW m \in Lists, NEW i \in 1 .. Len(contents[m]),
                            contents[m][i] = y
                     PROVE  FALSE
            BY LinkedIs
        <3>1. CASE m # l
            BY <2>1, <3>1 DEF Spliced
        <3>2. CASE m = l /\ i <= k
            <4>1. i \in 1 .. n + 1
                BY <1>0, <3>2
            <4>2. contents'[l][i] = y
                BY <3>2, <4>1 DEF Spliced
            <4> QED BY <2>1, <4>1, <4>2 DEF Spliced
        <3>3. CASE m = l /\ i > k
            <4>1. /\ i + 1 \in 1 .. n + 1 /\ ~ (i + 1 <= k) /\ i + 1 # k + 1
                  /\ i + 1 - 1 = i
                BY <1>0, <3>3
            <4>2. contents'[l][i + 1] = y
                BY <3>3, <4>1 DEF Spliced
            <4> QED BY <2>1, <4>1, <4>2 DEF Spliced
        <3> QED BY <1>0, <3>1, <3>2, <3>3
    <2>4. y \in Slots /\ y \in held
        BY DEF Spliced, StoreTypeOK, Slots
    <2>5. IL!Node(y) \in IL!Address /\ IL!Node(y) # N
        BY <2>2, <2>4, AddressFacts
    <2>6. IL!Node(y) # Place(l, k) /\ IL!Node(y) # Place(l, k + 1)
        <3>1. k \in 0 .. n + 1 /\ k + 1 \in 0 .. n + 1
            BY <1>0
        <3>2. \A i \in 0 .. n + 1 : Place(l, i) # IL!Node(y)
            BY <2>3, PlaceFacts, LinkedIs DEF ListsSound
        <3> QED BY <3>1, <3>2
    <2> QED BY <1>5, <2>3, <2>4, <2>5, <2>6 DEF ListsSound, Unlinked
<1> QED BY <1>5, <1>6, <1>7, <1>8, <1>9 DEF ListsSound, ListTypes, Spliced

\* The object at position k leaves list l.
Cut(l, k) ==
    /\ contents' \in [Lists -> Seq(Slots)]
    /\ \A m \in Lists \ {l} : contents'[m] = contents[m]
    /\ Len(contents'[l]) = Len(contents[l]) - 1
    /\ \A i \in 1 .. Len(contents[l]) - 1 :
          contents'[l][i] = IF i < k THEN contents[l][i] ELSE contents[l][i + 1]
    /\ next' = [next EXCEPT ![Place(l, k - 1)] = Place(l, k + 1),
                            ![Place(l, k)] = nullptr]
    /\ prev' = [prev EXCEPT ![Place(l, k + 1)] = Place(l, k - 1),
                            ![Place(l, k)] = nullptr]
    /\ size_' = [size_ EXCEPT ![l] = @ - 1]
    /\ held' = held

LEMMA CutSound ==
    ASSUME StoreTypeOK, ListsSound,
           NEW l \in Lists, NEW k \in 1 .. Len(contents[l]), Cut(l, k)
    PROVE  ListsSound'
<1> DEFINE n == Len(contents[l])
           A == Place(l, k - 1)
           N == Place(l, k)
           B == Place(l, k + 1)
<1>0. /\ n \in Nat /\ k \in Nat /\ k # 0 /\ k <= n
      /\ \A m \in Lists : Len(contents[m]) \in Nat
      /\ Apart /\ Owned /\ Unlinked /\ ListTypes
      /\ \A m \in Lists : Chained(m)
    BY DEF StoreTypeOK, ListsSound
<1>1. /\ k - 1 \in 0 .. n + 1 /\ k \in 0 .. n + 1 /\ k + 1 \in 0 .. n + 1
      /\ k - 1 # k /\ k + 1 # k /\ k - 1 # k + 1
    BY <1>0
<1>2. /\ A \in IL!Address /\ N \in IL!Address /\ B \in IL!Address
      /\ A # N /\ B # N /\ A # B
      /\ N = IL!Node(contents[l][k])
    BY <1>0, <1>1, PlaceFacts
<1>3. /\ \A i \in 0 .. k - 1 : Place(l, i)' = Place(l, i)
      /\ \A i \in k .. n : Place(l, i)' = Place(l, i + 1)
    <2>1. ASSUME NEW i \in 0 .. k - 1
          PROVE  Place(l, i)' = Place(l, i)
        <3>1. CASE i = 0
            BY <3>1 DEF Place
        <3>2. CASE i # 0
            <4>1. i \in 1 .. n - 1 /\ i < k /\ i # n + 1 /\ i # n - 1 + 1
                BY <1>0, <3>2
            <4> QED BY <3>2, <4>1 DEF Place, Cut
        <3> QED BY <3>1, <3>2
    <2>2. ASSUME NEW i \in k .. n
          PROVE  Place(l, i)' = Place(l, i + 1)
        <3>1. CASE i = n
            <4>1. i # 0 /\ i + 1 # 0 /\ i = n - 1 + 1 /\ i + 1 = n + 1
                BY <1>0, <3>1
            <4> QED BY <4>1 DEF Place, Cut
        <3>2. CASE i # n
            <4>1. /\ i \in 1 .. n - 1 /\ ~ (i < k) /\ i # 0 /\ i + 1 # 0
                  /\ i # n - 1 + 1 /\ i + 1 # n + 1
                BY <1>0, <3>2
            <4> QED BY <4>1 DEF Place, Cut
        <3> QED BY <3>1, <3>2
    <2> QED BY <2>1, <2>2
<1>4. \A m \in Lists \ {l} : \A i : Place(m, i)' = Place(m, i)
    BY DEF Place, Cut
<1>5. /\ next' \in [IL!Address -> IL!Address \cup {nullptr}]
      /\ prev' \in [IL!Address -> IL!Address \cup {nullptr}]
      /\ size_' \in [Lists -> Nat]
      /\ size_'[l] = n - 1 /\ \A m \in Lists \ {l} : size_'[m] = size_[m]
      /\ next'[A] = B /\ next'[N] = nullptr
      /\ prev'[B] = A /\ prev'[N] = nullptr
      /\ \A a \in IL!Address \ {A, N} : next'[a] = next[a]
      /\ \A a \in IL!Address \ {B, N} : prev'[a] = prev[a]
    <2>1. /\ next' = [next EXCEPT ![A] = B, ![N] = nullptr]
          /\ prev' = [prev EXCEPT ![B] = A, ![N] = nullptr]
          /\ size_' = [size_ EXCEPT ![l] = @ - 1]
        BY DEF Cut
    <2>2. size_[l] = n
        BY <1>0 DEF Chained
    <2> HIDE DEF N, A, B, n
    <2>3. /\ next' \in [IL!Address -> IL!Address \cup {nullptr}]
          /\ next'[A] = B /\ next'[N] = nullptr
          /\ \A a \in IL!Address \ {A, N} : next'[a] = next[a]
        BY <1>0, <1>2, <2>1 DEF ListTypes
    <2>4. /\ prev' \in [IL!Address -> IL!Address \cup {nullptr}]
          /\ prev'[B] = A /\ prev'[N] = nullptr
          /\ \A a \in IL!Address \ {B, N} : prev'[a] = prev[a]
        BY <1>0, <1>2, <2>1 DEF ListTypes
    <2>5. /\ size_' \in [Lists -> Nat]
          /\ size_'[l] = n - 1
          /\ \A m \in Lists \ {l} : size_'[m] = size_[m]
        <3>1. n - 1 \in Nat
            BY <1>0
        <3> QED BY <1>0, <2>1, <2>2, <3>1 DEF ListTypes
    <2> QED BY <2>3, <2>4, <2>5
\* Where the object at each new position was.
<1>6. ASSUME NEW m \in Lists, NEW i \in 1 .. Len(contents'[m])
      PROVE  \E u \in 1 .. Len(contents[m]) :
                /\ contents'[m][i] = contents[m][u]
                /\ u # k \/ m # l
                /\ i = IF m = l /\ u > k THEN u - 1 ELSE u
    <2>1. CASE m # l
        BY <2>1 DEF Cut
    <2>2. CASE m = l /\ i < k
        <3>1. i \in 1 .. n /\ i \in 1 .. n - 1 /\ ~ (i > k) /\ i # k
            BY <1>0, <2>2
        <3> QED BY <2>2, <3>1 DEF Cut
    <2>3. CASE m = l /\ ~ (i < k)
        <3>1. i \in 1 .. n - 1
            BY <2>3 DEF Cut
        <3>2. i + 1 \in 1 .. n /\ i + 1 > k /\ i + 1 # k /\ i = i + 1 - 1
            BY <1>0, <2>3, <3>1
        <3>3. contents'[m][i] = contents[m][i + 1]
            BY <2>3, <3>1 DEF Cut
        <3> QED BY <2>3, <3>2, <3>3
    <2> QED BY <2>1, <2>2, <2>3
<1>7. Apart'
    <2> SUFFICES ASSUME NEW m \in Lists, NEW p \in Lists,
                        NEW i \in 1 .. Len(contents'[m]),
                        NEW j \in 1 .. Len(contents'[p]),
                        contents'[m][i] = contents'[p][j]
                 PROVE  m = p /\ i = j
        BY DEF Apart
    <2>1. PICK u \in 1 .. Len(contents[m]) :
            /\ contents'[m][i] = contents[m][u]
            /\ i = IF m = l /\ u > k THEN u - 1 ELSE u
            /\ u # k \/ m # l
        BY <1>6
    <2>2. PICK v \in 1 .. Len(contents[p]) :
            /\ contents'[p][j] = contents[p][v]
            /\ j = IF p = l /\ v > k THEN v - 1 ELSE v
            /\ v # k \/ p # l
        BY <1>6
    <2>3. contents[m][u] = contents[p][v]
        BY <2>1, <2>2
    <2> HIDE DEF n
    <2>4. m = p /\ u = v
        <3>1. Apart
            BY <1>0
        <3> QED BY <2>3, <3>1 DEF Apart
    <2> QED BY <2>1, <2>2, <2>4
<1>8. Owned'
    <2> SUFFICES ASSUME NEW m \in Lists, NEW i \in 1 .. Len(contents'[m])
                 PROVE  contents'[m][i] \in held'
        BY DEF Owned
    <2> QED BY <1>0, <1>6 DEF Owned, Cut
<1>9. ASSUME NEW m \in Lists
      PROVE  Chained(m)'
    <2>1. CASE m # l
        <3>1. \A i \in 0 .. Len(contents[m]) :
                /\ Place(m, i) \notin {A, N}
                /\ Place(m, i + 1) \notin {B, N}
                /\ Place(m, i) \in IL!Address /\ Place(m, i + 1) \in IL!Address
            BY <1>0, <1>1, <2>1, PlaceFacts
        <3>2. contents'[m] = contents[m]
            BY <2>1 DEF Cut
        <3>3. Chained(m)
            BY <1>0
        <3> HIDE DEF A, B, N, n
        <3>4. ASSUME NEW i \in 0 .. Len(contents[m])
              PROVE  /\ next'[Place(m, i)'] = Place(m, i + 1)'
                     /\ prev'[Place(m, i + 1)'] = Place(m, i)'
            <4>1. /\ next[Place(m, i)] = Place(m, i + 1)
                  /\ prev[Place(m, i + 1)] = Place(m, i)
                BY <3>3 DEF Chained
            <4>2. Place(m, i)' = Place(m, i) /\ Place(m, i + 1)' = Place(m, i + 1)
                BY <1>4, <2>1
            <4> QED BY <1>5, <3>1, <4>1, <4>2
        <3>5. size_'[m] = Len(contents'[m])
            BY <1>5, <2>1, <3>2, <3>3 DEF Chained
        <3> QED BY <3>2, <3>4, <3>5 DEF Chained
    <2>2. CASE m = l
        <3>1. Chained(l) /\ Len(contents'[l]) = n - 1
            BY <1>0 DEF Cut
        <3>2. \A i, j \in 0 .. n + 1 : Place(l, i) \in IL!Address
                                       /\ (Place(l, i) = Place(l, j) => i = j)
            BY <1>0, PlaceFacts
        <3>3. ASSUME NEW i \in 0 .. n - 1
              PROVE  /\ next'[Place(l, i)'] = Place(l, i + 1)'
                     /\ prev'[Place(l, i + 1)'] = Place(l, i)'
            <4>1. CASE i < k - 1
                <5>1. /\ i \in 0 .. k - 1 /\ i + 1 \in 0 .. k - 1 /\ i \in 0 .. n
                      /\ i \in 0 .. n + 1 /\ i + 1 \in 0 .. n + 1
                      /\ i # k - 1 /\ i # k /\ i + 1 # k + 1 /\ i + 1 # k
                    BY <1>0, <4>1
                <5>2. /\ Place(l, i) \in IL!Address \ {A, N}
                      /\ Place(l, i + 1) \in IL!Address \ {B, N}
                    BY <1>1, <3>2, <5>1
                <5>3. Place(l, i)' = Place(l, i) /\ Place(l, i + 1)' = Place(l, i + 1)
                    BY <1>3, <5>1
                <5> QED BY <1>5, <3>1, <5>1, <5>2, <5>3 DEF Chained
            <4>2. CASE i = k - 1
                <5>1. i \in 0 .. k - 1 /\ i + 1 = k /\ k \in k .. n
                    BY <1>0, <4>2
                <5> QED BY <1>3, <1>5, <4>2, <5>1
            <4>3. CASE i > k - 1
                <5>1. /\ i \in k .. n /\ i + 1 \in k .. n /\ i + 1 \in 0 .. n
                      /\ i + 1 \in 0 .. n + 1 /\ i + 1 + 1 \in 0 .. n + 1
                      /\ i + 1 # k - 1 /\ i + 1 # k
                      /\ i + 1 + 1 # k + 1 /\ i + 1 + 1 # k
                    BY <1>0, <4>3
                <5>2. /\ Place(l, i + 1) \in IL!Address \ {A, N}
                      /\ Place(l, i + 1 + 1) \in IL!Address \ {B, N}
                    BY <1>1, <3>2, <5>1
                <5>3. /\ Place(l, i)' = Place(l, i + 1)
                      /\ Place(l, i + 1)' = Place(l, i + 1 + 1)
                    BY <1>3, <5>1
                <5> QED BY <1>5, <3>1, <5>1, <5>2, <5>3 DEF Chained
            <4> QED BY <1>0, <4>1, <4>2, <4>3
        <3> QED BY <1>5, <2>2, <3>1, <3>3 DEF Chained
    <2> QED BY <2>1, <2>2
<1>10. Unlinked'
    <2> SUFFICES ASSUME NEW y \in held', y \notin Linked'
                 PROVE  next'[IL!Node(y)] = nullptr /\ prev'[IL!Node(y)] = nullptr
        BY DEF Unlinked
    <2>1. CASE y = contents[l][k]
        BY <1>2, <1>5, <2>1
    <2>2. CASE y # contents[l][k]
        <3>1. y \notin Linked
            <4> SUFFICES ASSUME NEW m \in Lists, NEW i \in 1 .. Len(contents[m]),
                                contents[m][i] = y
                         PROVE  FALSE
                BY LinkedIs
            <4>1. \A z : z \in Linked' <=>
                    \E p \in Lists : \E j \in 1 .. Len(contents'[p]) :
                        contents'[p][j] = z
                <5>1. \A p \in Lists : DOMAIN contents'[p] = 1 .. Len(contents'[p])
                    BY DEF Cut
                <5> QED BY <5>1 DEF Linked, Range
            <4>2. CASE m # l
                BY <4>1, <4>2 DEF Cut
            <4>3. CASE m = l /\ i < k
                <5>1. i \in 1 .. n - 1
                    BY <1>0, <4>3
                <5>2. contents'[l][i] = y
                    BY <4>3, <5>1 DEF Cut
                <5> QED BY <4>1, <5>1, <5>2 DEF Cut
            <4>4. CASE m = l /\ i > k
                <5>1. i - 1 \in 1 .. n - 1 /\ ~ (i - 1 < k) /\ i - 1 + 1 = i
                    BY <1>0, <4>4
                <5>2. contents'[l][i - 1] = y
                    BY <4>4, <5>1 DEF Cut
                <5> QED BY <4>1, <5>1, <5>2 DEF Cut
            <4> QED BY <1>0, <2>2, <4>2, <4>3, <4>4
        <3>2. y \in Slots /\ y \in held
            BY DEF Cut, StoreTypeOK, Slots
        <3>3. IL!Node(y) \in IL!Address
            BY <3>2, AddressFacts
        <3>4. IL!Node(y) # A /\ IL!Node(y) # B /\ IL!Node(y) # N
            <4>1. \A i \in 0 .. n + 1 : Place(l, i) # IL!Node(y)
                BY <1>0, <3>1, PlaceFacts, LinkedIs
            <4> QED BY <1>1, <4>1
        <3> HIDE DEF A, B, N
        <3> QED BY <1>0, <1>5, <3>1, <3>2, <3>3, <3>4 DEF Unlinked
    <2> QED BY <2>1, <2>2
<1>11. ListTypes'
    BY <1>5 DEF ListTypes, Cut
<1> QED BY <1>7, <1>8, <1>9, <1>10, <1>11 DEF ListsSound

-----------------------------------------------------------------------------
(***************************************************************************)
(* The pool.                                                               *)
(***************************************************************************)
StackTypes == free_stack \in Seq(Slots) /\ held \in SUBSET Slots

LEMMA HeldFinite ==
    ASSUME StackTypes
    PROVE  IsFiniteSet(held) /\ Cardinality(held) \in Nat
<1>1. IsFiniteSet(Slots)
    BY StoreAssumption, FS_Interval DEF Slots, Pool!Slots
<1> QED BY <1>1, FS_Subset, FS_CardinalityType DEF StackTypes

LEMMA AcquireSound ==
    ASSUME StackTypes, StackSound, NEW x, Pool!Acquire(x), held' = held \cup {x}
    PROVE  x \in Slots \ held /\ StackTypes' /\ StackSound'
<1> DEFINE n == Len(free_stack)
<1>1. /\ free_stack \in Seq(Slots) /\ n \in Nat /\ n # 0
      /\ x = free_stack[n]
      /\ free_stack' = SubSeq(free_stack, 1, n - 1)
    BY DEF Pool!Acquire, Pool!Exhausted, StackTypes
<1>2. /\ free_stack' \in Seq(Slots) /\ Len(free_stack') = n - 1
      /\ \A i \in 1 .. n - 1 : free_stack'[i] = free_stack[i]
    BY <1>1, PopFacts
<1>3. /\ \A i, j \in 1 .. n : free_stack[i] = free_stack[j] => i = j
      /\ \A y : y \in Slots \ held <=> \E i \in 1 .. n : free_stack[i] = y
      /\ n + Cardinality(held) = Capacity
    BY DEF StackSound, PoolExact, Pool!FreeSlots, Slots
<1> HIDE DEF n
<1>4. n \in 1 .. n /\ \A i \in 1 .. n : i \in 1 .. n - 1 \/ i = n
    BY <1>1
<1>5. x \in Slots \ held
    BY <1>1, <1>3, <1>4
<1>6. \A y : y \in Slots \ held' <=> \E i \in 1 .. n - 1 : free_stack'[i] = y
    <2>1. ASSUME NEW y \in Slots \ held'
          PROVE  \E i \in 1 .. n - 1 : free_stack'[i] = y
        BY <1>1, <1>2, <1>3, <1>4
    <2>2. ASSUME NEW i \in 1 .. n - 1
          PROVE  free_stack'[i] \in Slots \ held'
        <3>1. i \in 1 .. n /\ i # n
            BY <1>1
        <3> QED BY <1>1, <1>2, <1>3, <1>4, <3>1
    <2> QED BY <2>1, <2>2
<1>7. \A i, j \in 1 .. n - 1 : free_stack'[i] = free_stack'[j] => i = j
    <2>1. \A i \in 1 .. n - 1 : i \in 1 .. n
        BY <1>1
    <2> QED BY <1>2, <1>3, <2>1
<1>8. n - 1 + Cardinality(held') = Capacity
    <2>1. Cardinality(held') = Cardinality(held) + 1
        BY <1>5, HeldFinite, FS_AddElement
    <2>2. Cardinality(held) \in Nat
        BY HeldFinite
    <2> QED BY <1>1, <1>3, <2>1, <2>2
<1>9. Pool!FreeSlots' = Slots \ held'
    BY <1>2, <1>6 DEF Pool!FreeSlots
<1>10. StackSound'
    BY <1>2, <1>7, <1>8, <1>9 DEF StackSound, PoolExact, Slots
<1> QED BY <1>2, <1>5, <1>10 DEF StackTypes

LEMMA ReleaseSound ==
    ASSUME StackTypes, StackSound, NEW x \in held, Pool!Release(x),
           held' = held \ {x}
    PROVE  StackTypes' /\ StackSound'
<1> DEFINE n == Len(free_stack)
<1>1. /\ free_stack \in Seq(Slots) /\ x \in Slots /\ n \in Nat
      /\ free_stack' = Append(free_stack, x)
    BY DEF Pool!Release, StackTypes
<1>2. /\ free_stack' \in Seq(Slots) /\ Len(free_stack') = n + 1
      /\ \A i \in 1 .. n : free_stack'[i] = free_stack[i]
      /\ free_stack'[n + 1] = x
    BY <1>1
<1>3. /\ \A i, j \in 1 .. n : free_stack[i] = free_stack[j] => i = j
      /\ \A y : y \in Slots \ held <=> \E i \in 1 .. n : free_stack[i] = y
      /\ n + Cardinality(held) = Capacity
    BY DEF StackSound, PoolExact, Pool!FreeSlots, Slots
<1> HIDE DEF n
<1>4. /\ \A i \in 1 .. n + 1 : i \in 1 .. n \/ i = n + 1
      /\ \A i \in 1 .. n : i \in 1 .. n + 1 /\ i # n + 1
      /\ n + 1 \in 1 .. n + 1
    BY <1>1
<1>5. \A i \in 1 .. n : free_stack'[i] # x
    BY <1>2, <1>3
<1>6. \A i, j \in 1 .. n + 1 : free_stack'[i] = free_stack'[j] => i = j
    BY <1>2, <1>3, <1>4, <1>5
<1>7. \A y : y \in Slots \ held' <=> \E i \in 1 .. n + 1 : free_stack'[i] = y
    BY <1>1, <1>2, <1>3, <1>4
<1>8. n + 1 + Cardinality(held') = Capacity
    <2>1. Cardinality(held') = Cardinality(held) - 1
        BY HeldFinite, FS_RemoveElement
    <2>2. Cardinality(held) \in Nat
        BY HeldFinite
    <2> QED BY <1>1, <1>3, <2>1, <2>2
<1>9. Pool!FreeSlots' = Slots \ held'
    BY <1>2, <1>7 DEF Pool!FreeSlots
<1>10. StackSound'
    BY <1>2, <1>6, <1>8, <1>9 DEF StackSound, PoolExact, Slots
<1> QED BY <1>1, <1>2, <1>10 DEF StackTypes

-----------------------------------------------------------------------------
(***************************************************************************)
(* One lemma for each operation.                                           *)
(***************************************************************************)
WalkTypes ==
    /\ cur \in [list : Lists, at : IL!Address] \cup {NoWalk}
    /\ due \in Seq(Slots)

\* The invariant in the parts that the operations change.
LEMMA Parts ==
    /\ SInv <=> StackTypes /\ StackSound /\ ListsSound /\ WalkTypes /\ Walks
    /\ SInv' <=> (StackTypes /\ StackSound /\ ListsSound /\ WalkTypes /\ Walks)'
BY DEF SInv, StoreTypeOK, StackTypes, ListsSound, ListTypes, WalkTypes, Slots

LEMMA ConstructStep ==
    ASSUME SInv, NEW x \in Slots, Construct(x)
    PROVE  SInv'
<1>0. StackTypes /\ StackSound /\ ListsSound /\ WalkTypes /\ Walks /\ StoreTypeOK
    BY Parts DEF SInv
<1> DEFINE N == IL!Node(x)
<1>1. /\ next' = [next EXCEPT ![N] = nullptr]
      /\ prev' = [prev EXCEPT ![N] = nullptr]
      /\ held' = held \cup {x}
      /\ UNCHANGED <<size_, cur, contents, due>>
    BY DEF Construct
<1>2. x \in Slots \ held /\ StackTypes' /\ StackSound'
    BY <1>0, <1>1, AcquireSound DEF Construct
<1>3. \A l, i : Place(l, i)' = Place(l, i)
    BY <1>1 DEF Place
<1>4. \A l \in Lists : \A i \in 0 .. Len(contents[l]) + 1 :
        Place(l, i) \in IL!Address \ {N}
    BY <1>0, <1>2, PlaceFacts DEF ListsSound, Owned
<1>5. N \in IL!Address /\ \A y \in Slots \ {x} : IL!Node(y) \in IL!Address \ {N}
    BY AddressFacts
<1> HIDE DEF N
<1>6. ListTypes' /\ Apart' /\ Owned'
    <2>1. ListTypes /\ Apart /\ Owned
        BY <1>0 DEF ListsSound
    <2>2. ListTypes'
        BY <1>1, <1>5, <2>1 DEF ListTypes
    <2>3. Apart' /\ Owned'
        BY <1>1, <2>1 DEF Apart, Owned
    <2> QED BY <2>2, <2>3
<1>7. /\ \A a \in IL!Address \ {N} : next'[a] = next[a] /\ prev'[a] = prev[a]
      /\ next'[N] = nullptr /\ prev'[N] = nullptr
    BY <1>0, <1>1, <1>5 DEF ListsSound, ListTypes
<1>8. ASSUME NEW l \in Lists
      PROVE  Chained(l)'
    <2>1. \A i \in 0 .. Len(contents[l]) :
            i \in 0 .. Len(contents[l]) + 1 /\ i + 1 \in 0 .. Len(contents[l]) + 1
        BY <1>0, PlaceFacts DEF ListsSound
    <2>2. Chained(l)
        BY <1>0 DEF ListsSound
    <2> QED BY <1>1, <1>3, <1>4, <1>7, <2>1, <2>2 DEF Chained
<1>9. Linked' = Linked
    BY <1>1 DEF Linked
<1>10. Unlinked'
    <2> SUFFICES ASSUME NEW y \in held' \ Linked'
                 PROVE  next'[IL!Node(y)] = nullptr /\ prev'[IL!Node(y)] = nullptr
        BY DEF Unlinked
    <2>1. CASE y = x
        BY <1>7, <2>1 DEF N
    <2>2. CASE y # x
        <3>1. y \in held \ Linked /\ y \in Slots
            BY <1>0, <1>1, <1>9, <2>2 DEF StackTypes
        <3> QED BY <1>0, <1>5, <1>7, <2>2, <3>1 DEF ListsSound, Unlinked
    <2> QED BY <2>1, <2>2
<1>11. WalkTypes' /\ Walks'
    BY <1>0, <1>1 DEF WalkTypes, Walks, WalkAt
<1>12. ListsSound'
    BY <1>6, <1>8, <1>10 DEF ListsSound
<1> QED BY <1>2, <1>11, <1>12, Parts

LEMMA DestroyStep ==
    ASSUME SInv, NEW x \in Slots, Destroy(x)
    PROVE  SInv'
<1>0. StackTypes /\ StackSound /\ ListsSound /\ WalkTypes /\ Walks /\ StoreTypeOK
    BY Parts DEF SInv
<1>1. /\ x \in held \ Linked /\ held' = held \ {x}
      /\ UNCHANGED <<next, prev, size_, cur, contents, due>>
    BY DEF Destroy
<1>2. StackTypes' /\ StackSound'
    BY <1>0, <1>1, ReleaseSound DEF Destroy
<1>3. Owned'
    BY <1>0, <1>1, LinkedIs DEF ListsSound, Owned
<1>4. ListTypes' /\ Apart' /\ \A l \in Lists : Chained(l)'
    BY <1>0, <1>1 DEF ListsSound, ListTypes, Apart, Chained, Place
<1>5. Unlinked'
    BY <1>0, <1>1 DEF ListsSound, Unlinked, Linked
<1>6. WalkTypes' /\ Walks'
    BY <1>0, <1>1 DEF WalkTypes, Walks, WalkAt
<1> QED BY <1>2, <1>3, <1>4, <1>5, <1>6, Parts DEF ListsSound

\* A loop over another list goes on as it was.
LEMMA WalkElsewhere ==
    ASSUME WalkTypes, Walks, NEW l \in Lists, ~ Walking(l),
           \A m \in Lists \ {l} : contents'[m] = contents[m],
           cur' = cur, due' = due
    PROVE  WalkTypes' /\ Walks'
<1>1. cur # NoWalk => cur.list \in Lists \ {l}
    BY DEF WalkTypes, Walking
<1>2. WalkTypes'
    BY <1>1 DEF WalkTypes
<1>3. ASSUME cur' # NoWalk
      PROVE  \E k \in Nat : WalkAt(cur.list, k)'
    <2>1. PICK k \in Nat : WalkAt(cur.list, k)
        BY <1>3 DEF Walks
    <2>2. contents'[cur.list] = contents[cur.list]
        BY <1>1, <1>3
    <2>3. WalkAt(cur.list, k)'
        BY <2>1, <2>2 DEF WalkAt
    <2> QED BY <2>3
<1> QED BY <1>2, <1>3 DEF Walks

LEMMA PutBackStep ==
    ASSUME SInv, NEW l \in Lists, NEW x \in Slots, PutBack(l, x)
    PROVE  SInv'
<1>0. StackTypes /\ StackSound /\ ListsSound /\ WalkTypes /\ Walks /\ StoreTypeOK
    BY Parts DEF SInv
<1> DEFINE c == contents[l]
           n == Len(c)
           e == Append(c, x)
<1>1. /\ x \in held \ Linked
      /\ IL!InsertBack(l, x)
      /\ contents' = [contents EXCEPT ![l] = e]
      /\ due' = IF Walking(l) THEN Append(due, x) ELSE due
      /\ UNCHANGED <<free_stack, cur, held>>
    BY DEF PutBack
<1>2. /\ c \in Seq(Slots) /\ n \in Nat /\ contents \in [Lists -> Seq(Slots)]
      /\ e \in Seq(Slots) /\ Len(e) = n + 1
      /\ \A i \in 1 .. n : e[i] = c[i]
      /\ e[n + 1] = x
    BY <1>0 DEF ListsSound, ListTypes
<1> HIDE DEF e
<1>3. /\ contents' \in [Lists -> Seq(Slots)]
      /\ contents'[l] = e
      /\ \A m \in Lists \ {l} : contents'[m] = contents[m]
    BY <1>1, <1>2
<1>4. n \in 0 .. n /\ Place(l, n + 1) = IL!Tail_(l) /\ prev[Place(l, n + 1)] = Place(l, n)
    <2>1. n \in 0 .. n /\ Chained(l)
        BY <1>0, <1>2 DEF ListsSound
    <2> QED BY <1>0, <2>1, PlaceFacts DEF ListsSound, Chained
<1>5. Spliced(l, n, x)
    <2>1. \A i \in 1 .. n + 1 : e[i] =
            IF i <= n THEN c[i] ELSE IF i = n + 1 THEN x ELSE c[i - 1]
        BY <1>2
    <2>2. /\ next' = [next EXCEPT ![Place(l, n)] = IL!Node(x),
                                  ![IL!Node(x)] = Place(l, n + 1)]
          /\ prev' = [prev EXCEPT ![IL!Node(x)] = Place(l, n),
                                  ![Place(l, n + 1)] = IL!Node(x)]
          /\ size_' = [size_ EXCEPT ![l] = @ + 1]
        BY <1>1, <1>4 DEF IL!InsertBack
    <2> QED BY <1>1, <1>2, <1>3, <2>1, <2>2 DEF Spliced
<1>6. ListsSound'
    <2>1. x \in held \ Linked /\ n \in 0 .. Len(contents[l])
        BY <1>1, <1>4
    <2> QED BY <1>0, <1>5, <2>1, SpliceSound
<1>7. StackTypes' /\ StackSound'
    BY <1>0, <1>1 DEF StackTypes, StackSound, PoolExact, Pool!FreeSlots
<1>8. WalkTypes' /\ Walks'
    <2>1. CASE ~ Walking(l)
        BY <1>0, <1>1, <1>3, <2>1, WalkElsewhere
    <2>2. CASE Walking(l)
        <3>1. /\ due \in Seq(Slots) /\ due' = Append(due, x) /\ cur' = cur
              /\ cur # NoWalk /\ cur.list = l
            BY <1>0, <1>1, <2>2 DEF WalkTypes, Walking
        <3>2. /\ Len(due) \in Nat /\ Len(due') = Len(due) + 1 /\ due' \in Seq(Slots)
              /\ \A j \in 1 .. Len(due) : due'[j] = due[j]
              /\ due'[Len(due) + 1] = x
            BY <3>1
        <3>3. PICK k \in Nat : WalkAt(l, k)
            BY <1>0, <3>1 DEF Walks
        <3>4. /\ k \in 1 .. n /\ k \in 1 .. n + 1 /\ Len(due) = n - k + 1
              /\ cur.at = IL!Node(c[k])
              /\ \A j \in 1 .. Len(due) : due[j] = c[k + j - 1]
            BY <1>2, <3>3 DEF WalkAt
        <3> HIDE DEF c, n
        <3>5. ASSUME NEW j \in 1 .. Len(due')
              PROVE  due'[j] = e[k + j - 1]
            <4>1. CASE j \in 1 .. Len(due)
                <5>1. k + j - 1 \in 1 .. n
                    BY <1>2, <3>2, <3>4, <4>1
                <5> QED BY <1>2, <3>2, <3>4, <4>1, <5>1
            <4>2. CASE j = Len(due) + 1
                <5>1. k + j - 1 = n + 1
                    BY <1>2, <3>2, <3>4, <4>2
                <5> QED BY <1>2, <3>2, <4>2, <5>1
            <4>3. j \in 1 .. Len(due) + 1
                BY <3>2
            <4> QED BY <3>2, <4>1, <4>2, <4>3
        <3>6. Len(due') = n + 1 - k + 1
            BY <1>2, <3>2, <3>4
        <3>7. e[k] = c[k]
            BY <1>2, <3>4
        <3>8. /\ k \in 1 .. Len(e) /\ cur.at = IL!Node(e[k])
              /\ Len(due') = Len(e) - k + 1
              /\ contents'[l] = e /\ cur' = cur
            BY <1>2, <1>3, <3>1, <3>4, <3>6, <3>7
        <3>9. WalkAt(l, k)'
            BY <3>5, <3>8 DEF WalkAt
        <3> QED BY <1>0, <3>1, <3>2, <3>9 DEF WalkTypes, Walks
    <2> QED BY <2>1, <2>2
<1> QED BY <1>6, <1>7, <1>8, Parts

LEMMA PutFrontStep ==
    ASSUME SInv, NEW l \in Lists, NEW x \in Slots, PutFront(l, x)
    PROVE  SInv'
<1>0. StackTypes /\ StackSound /\ ListsSound /\ WalkTypes /\ Walks /\ StoreTypeOK
    BY Parts DEF SInv
<1> DEFINE c == contents[l]
           n == Len(c)
           d == <<x>> \o c
<1>1. /\ x \in held \ Linked
      /\ IL!InsertFront(l, x)
      /\ contents' = [contents EXCEPT ![l] = d]
      /\ UNCHANGED <<free_stack, cur, held, due>>
    BY DEF PutFront
<1>2. /\ c \in Seq(Slots) /\ n \in Nat /\ contents \in [Lists -> Seq(Slots)]
      /\ d \in Seq(Slots) /\ Len(d) = n + 1 /\ d[1] = x
      /\ \A i \in 1 .. n : d[i + 1] = c[i]
    <2>1. c \in Seq(Slots) /\ n \in Nat /\ contents \in [Lists -> Seq(Slots)]
        BY <1>0 DEF ListsSound, ListTypes
    <2> QED BY <2>1, FrontFacts
<1> HIDE DEF d
<1>3. /\ contents' \in [Lists -> Seq(Slots)]
      /\ contents'[l] = d
      /\ \A m \in Lists \ {l} : contents'[m] = contents[m]
    BY <1>1, <1>2
<1>4. 0 \in 0 .. n /\ Place(l, 0) = IL!Head_(l) /\ next[Place(l, 0)] = Place(l, 0 + 1)
    <2>1. 0 \in 0 .. n /\ Chained(l)
        BY <1>0, <1>2 DEF ListsSound
    <2> QED BY <1>0, <2>1, PlaceFacts DEF ListsSound, Chained
<1>5. Spliced(l, 0, x)
    <2>1. ASSUME NEW i \in 1 .. n + 1
          PROVE  d[i] = IF i <= 0 THEN c[i] ELSE IF i = 0 + 1 THEN x ELSE c[i - 1]
        <3>1. CASE i = 1
            BY <1>2, <3>1
        <3>2. CASE i # 1
            <4>1. i - 1 \in 1 .. n /\ i - 1 + 1 = i /\ ~ (i <= 0) /\ i # 0 + 1
                BY <1>2, <3>2
            <4> QED BY <1>2, <4>1
        <3> QED BY <3>1, <3>2
    <2>2. /\ next' = [next EXCEPT ![Place(l, 0)] = IL!Node(x),
                                  ![IL!Node(x)] = Place(l, 0 + 1)]
          /\ prev' = [prev EXCEPT ![IL!Node(x)] = Place(l, 0),
                                  ![Place(l, 0 + 1)] = IL!Node(x)]
          /\ size_' = [size_ EXCEPT ![l] = @ + 1]
        BY <1>1, <1>4 DEF IL!InsertFront
    <2> QED BY <1>1, <1>2, <1>3, <2>1, <2>2 DEF Spliced
<1>6. ListsSound'
    <2>1. x \in held \ Linked /\ 0 \in 0 .. Len(contents[l])
        BY <1>1, <1>4
    <2> QED BY <1>0, <1>5, <2>1, SpliceSound
<1>7. StackTypes' /\ StackSound'
    BY <1>0, <1>1 DEF StackTypes, StackSound, PoolExact, Pool!FreeSlots
<1>8. WalkTypes' /\ Walks'
    <2>1. CASE ~ Walking(l)
        BY <1>0, <1>1, <1>3, <2>1, WalkElsewhere
    <2>2. CASE Walking(l)
        <3>1. cur # NoWalk /\ cur.list = l /\ due \in Seq(Slots)
            BY <1>0, <2>2 DEF WalkTypes, Walking
        <3>2. PICK k \in Nat : WalkAt(l, k)
            BY <1>0, <3>1 DEF Walks
        <3>3. /\ k \in 1 .. n /\ Len(due) = n - k + 1 /\ Len(due) \in Nat
              /\ cur.at = IL!Node(c[k])
              /\ \A j \in 1 .. Len(due) : due[j] = c[k + j - 1]
            BY <3>1, <3>2 DEF WalkAt
        <3> HIDE DEF c, n
        <3>4. k + 1 \in 1 .. n + 1 /\ Len(due) = n + 1 - (k + 1) + 1
              /\ cur.at = IL!Node(d[k + 1])
            BY <1>2, <3>3
        <3>5. ASSUME NEW j \in 1 .. Len(due)
              PROVE  due[j] = d[k + 1 + j - 1]
            <4>1. k + j - 1 \in 1 .. n /\ k + j - 1 + 1 = k + 1 + j - 1
                BY <1>2, <3>3
            <4> QED BY <1>2, <3>3, <4>1
        <3>6. WalkAt(l, k + 1)'
            BY <1>1, <1>2, <1>3, <3>4, <3>5 DEF WalkAt
        <3> QED BY <1>0, <1>1, <3>1, <3>6 DEF WalkTypes, Walks
    <2> QED BY <2>1, <2>2
<1> QED BY <1>6, <1>7, <1>8, Parts

LEMMA TakeOutStep ==
    ASSUME SInv, NEW l \in Lists, NEW x \in Slots, TakeOut(l, x)
    PROVE  SInv'
<1>0. StackTypes /\ StackSound /\ ListsSound /\ WalkTypes /\ Walks /\ StoreTypeOK
    BY Parts DEF SInv
<1> DEFINE c == contents[l]
           n == Len(c)
<1>1. /\ x \in Range(c)
      /\ cur # NoWalk => cur.at # IL!Node(x)
      /\ IL!RemoveNode(l, x)
      /\ contents' = [contents EXCEPT ![l] = RemoveFirst(c, x)]
      /\ due' = IF Walking(l) THEN RemoveFirst(due, x) ELSE due
      /\ UNCHANGED <<free_stack, cur, held>>
    BY DEF TakeOut
<1>2. /\ c \in Seq(Slots) /\ n \in Nat /\ contents \in [Lists -> Seq(Slots)]
      /\ Chained(l) /\ Apart
    BY <1>0 DEF ListsSound, ListTypes
<1>3. PICK k \in 1 .. n : c[k] = x
    BY <1>1, <1>2 DEF Range
<1>4. \A i \in 1 .. n : c[i] = x => i = k
    BY <1>2, <1>3 DEF Apart
<1> DEFINE d == RemoveAt(c, k)
<1>5. /\ d \in Seq(Slots) /\ Len(d) = n - 1
      /\ \A i \in 1 .. n - 1 : d[i] = IF i < k THEN c[i] ELSE c[i + 1]
    BY <1>2, <1>3, RemoveAtFacts
<1>6. RemoveFirst(c, x) = d
    BY <1>2, <1>3, <1>4, RemoveFirstFacts
<1> HIDE DEF d
<1>7. /\ contents' \in [Lists -> Seq(Slots)]
      /\ contents'[l] = d
      /\ \A m \in Lists \ {l} : contents'[m] = contents[m]
    BY <1>1, <1>2, <1>5, <1>6
<1>8. /\ Place(l, k) = IL!Node(x)
      /\ next[Place(l, k)] = Place(l, k + 1)
      /\ prev[Place(l, k)] = Place(l, k - 1)
    <2>1. k \in 0 .. n /\ k - 1 \in 0 .. n /\ k - 1 + 1 = k
        BY <1>2, <1>3
    <2> QED BY <1>0, <1>2, <1>3, <2>1, PlaceFacts DEF Chained
<1>9. Cut(l, k)
    <2>1. /\ next' = [next EXCEPT ![Place(l, k - 1)] = Place(l, k + 1),
                                  ![Place(l, k)] = nullptr]
          /\ prev' = [prev EXCEPT ![Place(l, k + 1)] = Place(l, k - 1),
                                  ![Place(l, k)] = nullptr]
          /\ size_' = [size_ EXCEPT ![l] = @ - 1]
        BY <1>1, <1>8 DEF IL!RemoveNode
    <2> QED BY <1>1, <1>5, <1>7, <2>1 DEF Cut
<1>10. ListsSound'
    BY <1>0, <1>3, <1>9, CutSound
<1>11. StackTypes' /\ StackSound'
    BY <1>0, <1>1 DEF StackTypes, StackSound, PoolExact, Pool!FreeSlots
<1>12. WalkTypes' /\ Walks'
    <2>1. CASE ~ Walking(l)
        BY <1>0, <1>1, <1>7, <2>1, WalkElsewhere
    <2>2. CASE Walking(l)
        <3>1. /\ cur # NoWalk /\ cur.list = l /\ due \in Seq(Slots)
              /\ due' = RemoveFirst(due, x) /\ cur' = cur
            BY <1>0, <1>1, <2>2 DEF WalkTypes, Walking
        <3>2. PICK p \in Nat : WalkAt(l, p)
            BY <1>0, <3>1 DEF Walks
        <3>3. /\ p \in 1 .. n /\ Len(due) = n - p + 1 /\ Len(due) \in Nat
              /\ cur.at = IL!Node(c[p])
              /\ \A j \in 1 .. Len(due) : due[j] = c[p + j - 1]
            BY <3>1, <3>2 DEF WalkAt
        <3>4. p # k
            BY <1>1, <1>3, <3>1, <3>3
        <3> HIDE DEF c, n
        <3>5. CASE k < p
            <4>1. \A j \in 1 .. Len(due) : due[j] # x
                <5> SUFFICES ASSUME NEW j \in 1 .. Len(due)
                             PROVE  due[j] # x
                    OBVIOUS
                <5>1. p + j - 1 \in 1 .. n /\ p + j - 1 # k
                    BY <1>2, <1>3, <3>3, <3>5
                <5> QED BY <1>4, <3>3, <5>1
            <4>2. due' = due
                BY <3>1, <4>1, RemoveFirstFacts
            <4>3. /\ p - 1 \in 1 .. n - 1 /\ ~ (p - 1 < k) /\ p - 1 + 1 = p
                  /\ Len(due) = n - 1 - (p - 1) + 1
                BY <1>2, <1>3, <3>3, <3>5
            <4>4. cur.at = IL!Node(d[p - 1])
                BY <1>5, <3>3, <4>3
            <4>5. ASSUME NEW j \in 1 .. Len(due)
                  PROVE  due[j] = d[p - 1 + j - 1]
                <5>1. /\ p - 1 + j - 1 \in 1 .. n - 1
                      /\ ~ (p - 1 + j - 1 < k)
                      /\ p - 1 + j - 1 + 1 = p + j - 1
                    BY <1>2, <1>3, <3>3, <3>5
                <5> QED BY <1>5, <3>3, <5>1
            <4>6. WalkAt(l, p - 1)' /\ p - 1 \in Nat
                BY <1>5, <1>7, <3>1, <4>2, <4>3, <4>4, <4>5 DEF WalkAt
            <4> QED BY <1>0, <3>1, <4>2, <4>6 DEF WalkTypes, Walks
        <3>6. CASE k > p
            <4> DEFINE q == k - p + 1
                       e == RemoveAt(due, q)
            <4>1. q \in 1 .. Len(due) /\ p + q - 1 = k
                BY <1>2, <1>3, <3>3, <3>6
            <4>2. due[q] = x
                BY <1>3, <3>3, <4>1
            <4>3. ASSUME NEW j \in 1 .. Len(due), due[j] = x
                  PROVE  j = q
                <5>1. p + j - 1 \in 1 .. n
                    BY <1>2, <1>3, <3>3
                <5>2. p + j - 1 = k
                    BY <1>4, <3>3, <4>3, <5>1
                <5> QED BY <1>3, <3>3, <5>2
            <4>4. due' = e
                BY <3>1, <4>1, <4>2, <4>3, RemoveFirstFacts
            <4>5. /\ e \in Seq(Slots) /\ Len(e) = Len(due) - 1
                  /\ \A i \in 1 .. Len(due) - 1 :
                        e[i] = IF i < q THEN due[i] ELSE due[i + 1]
                BY <3>1, <4>1, RemoveAtFacts
            <4> HIDE DEF e
            <4>6. /\ p \in 1 .. n - 1 /\ p < k /\ Len(e) = n - 1 - p + 1
                BY <1>2, <1>3, <3>3, <3>6, <4>5
            <4>7. cur.at = IL!Node(d[p])
                BY <1>5, <3>3, <4>6
            <4>8. ASSUME NEW j \in 1 .. Len(e)
                  PROVE  e[j] = d[p + j - 1]
                <5>1. j \in 1 .. Len(due) - 1 /\ p + j - 1 \in 1 .. n - 1
                    BY <1>2, <1>3, <3>3, <4>5, <4>6
                <5>2. CASE j < q
                    <6>1. p + j - 1 < k /\ j \in 1 .. Len(due)
                        BY <1>3, <3>3, <5>1, <5>2
                    <6> QED BY <1>5, <3>3, <4>5, <5>1, <5>2, <6>1
                <5>3. CASE ~ (j < q)
                    <6>1. /\ ~ (p + j - 1 < k) /\ j + 1 \in 1 .. Len(due)
                          /\ p + (j + 1) - 1 = p + j - 1 + 1
                        BY <1>3, <3>3, <5>1, <5>3
                    <6> QED BY <1>5, <3>3, <4>5, <5>1, <5>3, <6>1
                <5> QED BY <5>2, <5>3
            <4>9. WalkAt(l, p)'
                BY <1>5, <1>7, <3>1, <4>4, <4>6, <4>7, <4>8 DEF WalkAt
            <4> QED BY <1>0, <3>1, <4>4, <4>5, <4>9 DEF WalkTypes, Walks
        <3> QED BY <1>3, <3>3, <3>4, <3>5, <3>6
    <2> QED BY <2>1, <2>2
<1> QED BY <1>10, <1>11, <1>12, Parts

\* Moving the loop alone leaves pool and lists as they were.
LEMMA ListsKept ==
    ASSUME StackTypes, StackSound, ListsSound,
           UNCHANGED <<free_stack, next, prev, size_, held, contents>>
    PROVE  StackTypes' /\ StackSound' /\ ListsSound'
<1>1. StackTypes'
    BY DEF StackTypes
<1>2. StackSound'
    <2>1. Pool!FreeSlots' = Pool!FreeSlots
        BY DEF Pool!FreeSlots
    <2> QED BY <2>1 DEF StackSound, PoolExact
<1>3. ListTypes' /\ Apart' /\ Owned'
    BY DEF ListsSound, ListTypes, Apart, Owned
<1>4. \A l, i : Place(l, i)' = Place(l, i)
    BY DEF Place
<1>5. \A l \in Lists : Chained(l)'
    BY <1>4 DEF ListsSound, Chained
<1>6. Unlinked'
    <2>1. Linked' = Linked
        BY DEF Linked
    <2> QED BY <2>1 DEF ListsSound, Unlinked
<1> QED BY <1>1, <1>2, <1>3, <1>5, <1>6 DEF ListsSound

LEMMA BeginWalkStep ==
    ASSUME SInv, NEW l \in Lists, BeginWalk(l)
    PROVE  SInv'
<1>0. StackTypes /\ StackSound /\ ListsSound /\ WalkTypes /\ Walks /\ StoreTypeOK
    BY Parts DEF SInv
<1> DEFINE c == contents[l]
           n == Len(c)
<1>1. /\ cur' = At(l, next[IL!Head_(l)]) /\ due' = c
      /\ UNCHANGED <<free_stack, next, prev, size_, held, contents>>
    BY DEF BeginWalk, IL!BeginAt
<1>2. c \in Seq(Slots) /\ n \in Nat /\ Chained(l) /\ Apart
    BY <1>0 DEF ListsSound, ListTypes
<1>3. next[IL!Head_(l)] = Place(l, 1)
    <2>1. 0 \in 0 .. n /\ 0 + 1 = 1
        BY <1>2
    <2> QED BY <1>0, <1>2, <2>1, PlaceFacts DEF Chained
<1>4. StackTypes' /\ StackSound' /\ ListsSound'
    BY <1>0, <1>1, ListsKept
<1>5. CASE n = 0
    <2>1. Place(l, 1) = IL!Tail_(l)
        BY <1>0, <1>2, <1>5, PlaceFacts
    <2>2. cur' = NoWalk
        BY <1>1, <1>3, <2>1 DEF At
    <2> QED BY <1>1, <1>2, <1>4, <2>2, Parts DEF WalkTypes, Walks
<1>6. CASE n # 0
    <2>1. /\ 1 \in 1 .. n /\ Place(l, 1) = IL!Node(c[1])
          /\ Place(l, 1) \in IL!Address
        BY <1>0, <1>2, <1>6, PlaceFacts
    <2>2. cur' = [list |-> l, at |-> IL!Node(c[1])]
        BY <1>1, <1>3, <2>1, AddressFacts DEF At
    <2>3. \A j \in 1 .. n : 1 + j - 1 = j
        OBVIOUS
    <2>4. n = n - 1 + 1
        BY <1>2
    <2>5. WalkAt(l, 1)'
        BY <1>1, <2>1, <2>2, <2>3, <2>4 DEF WalkAt
    <2>6. cur'.list = l
        BY <2>2
    <2>7. WalkTypes' /\ Walks'
        BY <1>1, <1>2, <2>1, <2>2, <2>5, <2>6 DEF WalkTypes, Walks
    <2> QED BY <1>4, <2>7, Parts
<1> QED BY <1>5, <1>6

LEMMA StepWalkStep ==
    ASSUME SInv, StepWalk
    PROVE  SInv'
<1>0. StackTypes /\ StackSound /\ ListsSound /\ WalkTypes /\ Walks /\ StoreTypeOK
    BY Parts DEF SInv
<1> DEFINE l == cur.list
           c == contents[l]
           n == Len(c)
<1>1. /\ cur # NoWalk
      /\ cur' = At(l, next[cur.at]) /\ due' = Tail(due)
      /\ UNCHANGED <<free_stack, next, prev, size_, held, contents>>
    BY DEF StepWalk, IL!Following
<1>2. l \in Lists /\ due \in Seq(Slots)
    BY <1>0, <1>1 DEF WalkTypes
<1>3. c \in Seq(Slots) /\ n \in Nat /\ Chained(l) /\ Apart
    BY <1>0, <1>2 DEF ListsSound, ListTypes
<1>4. PICK k \in Nat : WalkAt(l, k)
    BY <1>0, <1>1 DEF Walks
<1>5. /\ k \in 1 .. n /\ Len(due) = n - k + 1 /\ Len(due) \in Nat
      /\ cur.at = IL!Node(c[k])
      /\ \A j \in 1 .. Len(due) : due[j] = c[k + j - 1]
    BY <1>2, <1>4 DEF WalkAt
<1>6. next[cur.at] = Place(l, k + 1)
    <2>1. k \in 0 .. n /\ Place(l, k) = cur.at
        BY <1>0, <1>2, <1>3, <1>5, PlaceFacts
    <2> QED BY <1>3, <2>1 DEF Chained
<1>7. /\ due' \in Seq(Slots) /\ Len(due') = Len(due) - 1
      /\ \A j \in 1 .. Len(due) - 1 : due'[j] = due[j + 1]
    <2>1. due # <<>>
        BY <1>3, <1>5
    <2> QED BY <1>1, <1>2, <2>1
<1>8. StackTypes' /\ StackSound' /\ ListsSound'
    BY <1>0, <1>1, ListsKept
<1>9. CASE k = n
    <2>1. Place(l, k + 1) = IL!Tail_(l)
        BY <1>0, <1>2, <1>3, <1>9, PlaceFacts
    <2>2. cur' = NoWalk
        BY <1>1, <1>6, <2>1 DEF At
    <2> QED BY <1>7, <1>8, <2>2, Parts DEF WalkTypes, Walks
<1>10. CASE k # n
    <2> DEFINE m == l
               p == k + 1
    <2>1. /\ p \in 1 .. n /\ p \in Nat /\ p \in 0 .. n + 1
          /\ Len(due') = n - p + 1
        BY <1>3, <1>5, <1>7, <1>10
    <2>2. Place(l, p) = IL!Node(c[p]) /\ Place(l, p) \in IL!Address
        BY <1>0, <1>2, <1>3, <2>1, PlaceFacts
    <2>3. cur' = [list |-> l, at |-> IL!Node(c[p])]
        BY <1>1, <1>6, <2>2, AddressFacts DEF At
    <2>4. ASSUME NEW j \in 1 .. Len(due')
          PROVE  due'[j] = c[p + j - 1]
        <3>1. /\ j \in 1 .. Len(due) - 1 /\ j + 1 \in 1 .. Len(due)
              /\ k + (j + 1) - 1 = p + j - 1
            BY <1>5, <1>7
        <3> QED BY <1>5, <1>7, <3>1
    <2>5. contents' = contents /\ cur'.list = l /\ cur'.at = IL!Node(c[p])
        BY <1>1, <2>3
    <2>6. PICK b : b = l
        OBVIOUS
    <2>7. WalkAt(b, p)'
        BY <2>1, <2>4, <2>5, <2>6 DEF WalkAt
    <2>8. WalkTypes'
        BY <1>2, <1>7, <2>2, <2>3 DEF WalkTypes
    <2>9. cur'.list = b
        BY <2>5, <2>6
    <2>10. Walks'
        BY <2>1, <2>7, <2>9 DEF Walks
    <2> QED BY <1>8, <2>8, <2>10, Parts
<1> QED BY <1>9, <1>10
-----------------------------------------------------------------------------
(***************************************************************************)
(* The invariant holds.                                                    *)
(***************************************************************************)
LEMMA InitStore ==
    StoreInit => SInv
<1> SUFFICES ASSUME StoreInit
             PROVE  SInv
    OBVIOUS
<1>1. /\ free_stack = [i \in 1 .. Capacity |-> Capacity - i]
      /\ next = [a \in IL!Address |->
                    IF a[1] = "head" THEN IL!Tail_(a[2]) ELSE nullptr]
      /\ prev = [a \in IL!Address |->
                    IF a[1] = "tail" THEN IL!Head_(a[2]) ELSE nullptr]
      /\ size_ = [l \in Lists |-> 0]
      /\ cur = NoWalk /\ held = {} /\ due = <<>>
      /\ contents = [l \in Lists |-> <<>>]
    BY DEF StoreInit, Pool!PoolInit, IL!ListInit
<1>2. Capacity \in Nat /\ Slots = 0 .. Capacity - 1
    BY StoreAssumption DEF Slots, Pool!Slots
<1>3. /\ free_stack \in Seq(Slots) /\ Len(free_stack) = Capacity
      /\ \A i \in 1 .. Capacity : free_stack[i] = Capacity - i
    <2>1. \A i \in 1 .. Capacity : Capacity - i \in Slots
        BY <1>2
    <2> QED BY <1>1, <1>2, <2>1
<1>4. StackTypes
    BY <1>1, <1>3 DEF StackTypes
<1>5. StackSound
    <2>1. \A y : y \in Slots <=> \E i \in 1 .. Capacity : free_stack[i] = y
        <3>1. ASSUME NEW y \in Slots
              PROVE  \E i \in 1 .. Capacity : free_stack[i] = y
            <4>1. Capacity - y \in 1 .. Capacity /\ Capacity - (Capacity - y) = y
                BY <1>2
            <4> QED BY <1>3, <4>1
        <3>2. \A i \in 1 .. Capacity : free_stack[i] \in Slots
            BY <1>2, <1>3
        <3> QED BY <3>1, <3>2
    <2>2. Pool!FreeSlots = Slots \ held
        BY <1>1, <1>3, <2>1 DEF Pool!FreeSlots
    <2>3. Len(free_stack) + Cardinality(held) = Capacity
        BY <1>1, <1>2, <1>3, FS_EmptySet
    <2>4. \A i, j \in 1 .. Len(free_stack) : free_stack[i] = free_stack[j] => i = j
        BY <1>2, <1>3
    <2> QED BY <2>2, <2>3, <2>4 DEF StackSound, PoolExact, Slots
<1>6. ListTypes /\ Apart /\ Owned
    <2>1. \A a \in IL!Address : /\ next[a] \in IL!Address \cup {nullptr}
                                /\ prev[a] \in IL!Address \cup {nullptr}
        BY <1>1 DEF IL!Address, IL!Node, IL!Head_, IL!Tail_
    <2>2. ListTypes
        BY <1>1, <2>1 DEF ListTypes
    <2>3. \A l \in Lists : contents[l] = <<>> /\ Len(contents[l]) = 0
        BY <1>1
    <2> QED BY <2>2, <2>3 DEF Apart, Owned
<1>7. ASSUME NEW l \in Lists
      PROVE  Chained(l)
    <2>1. contents[l] = <<>> /\ Len(contents[l]) = 0 /\ size_[l] = 0
        BY <1>1
    <2>2. Place(l, 0) = IL!Head_(l) /\ Place(l, 0 + 1) = IL!Tail_(l)
        BY <2>1 DEF Place
    <2>3. next[IL!Head_(l)] = IL!Tail_(l) /\ prev[IL!Tail_(l)] = IL!Head_(l)
        BY <1>1, AddressFacts DEF IL!Head_, IL!Tail_
    <2> QED BY <2>1, <2>2, <2>3 DEF Chained
<1>8. Unlinked /\ WalkTypes /\ Walks
    BY <1>1 DEF Unlinked, WalkTypes, Walks
<1> QED BY <1>4, <1>5, <1>6, <1>7, <1>8, Parts DEF ListsSound

LEMMA NextStore ==
    SInv /\ [StoreNext]_storeVars => SInv'
<1> SUFFICES ASSUME SInv, [StoreNext]_storeVars
             PROVE  SInv'
    OBVIOUS
<1>1. CASE UNCHANGED storeVars
    <2>1. StackTypes /\ StackSound /\ ListsSound /\ WalkTypes /\ Walks
        BY Parts
    <2>2. StackTypes' /\ StackSound' /\ ListsSound'
        BY <1>1, <2>1, ListsKept DEF storeVars
    <2>3. WalkTypes' /\ Walks'
        BY <1>1, <2>1 DEF storeVars, WalkTypes, Walks, WalkAt
    <2> QED BY <2>2, <2>3, Parts
<1>2. ASSUME NEW x \in Slots, Construct(x) \/ Destroy(x)
      PROVE  SInv'
    BY <1>2, ConstructStep, DestroyStep
<1>3. CASE ConstructFails
    BY <1>1, <1>3 DEF ConstructFails
<1>4. ASSUME NEW l \in Lists, NEW x \in Slots,
             PutBack(l, x) \/ PutFront(l, x) \/ TakeOut(l, x)
      PROVE  SInv'
    BY <1>4, PutBackStep, PutFrontStep, TakeOutStep
<1>5. ASSUME NEW l \in Lists, BeginWalk(l)
      PROVE  SInv'
    BY <1>5, BeginWalkStep
<1>6. CASE StepWalk
    BY <1>6, StepWalkStep
<1> QED BY <1>1, <1>2, <1>3, <1>4, <1>5, <1>6 DEF StoreNext, Slots

LEMMA StoreInv == StoreSpec => []SInv
BY InitStore, NextStore, PTL DEF StoreSpec

-----------------------------------------------------------------------------
(***************************************************************************)
(* The theorems.                                                           *)
(***************************************************************************)
\* Whatever the client does, the store's state keeps its type: no pointer
\* leaves the slab and the sentinels, and no count goes below zero.
THEOREM StoreIsTyped == StoreSpec => []StoreTypeOK
<1>1. SInv => StoreTypeOK
    BY DEF SInv
<1> QED BY <1>1, StoreInv, PTL

\* acquire() never hands out a slot that someone holds, and release() never
\* pushes one that is free: the free stack and the held slots share the slab.
THEOREM PoolIsExact == StoreSpec => []PoolExact
<1>1. SInv => PoolExact
    BY DEF SInv, StackSound
<1> QED BY <1>1, StoreInv, PTL

\* insert_back(), insert_front() and remove() keep each list, read in either
\* direction, equal to what was put in and not taken out, and its count exact.
THEOREM ListsAreExact == StoreSpec => []ListsExact
<1>1. ASSUME SInv
      PROVE  ListsExact
    <2>0. StoreTypeOK /\ Apart
        BY <1>1 DEF SInv
    <2> SUFFICES ASSUME NEW l \in Lists
                 PROVE  LET c == contents[l]
                            nodes == <<IL!Head_(l)>>
                                        \o [i \in 1 .. Len(c) |-> IL!Node(c[i])]
                                        \o <<IL!Tail_(l)>>
                        IN  /\ \A i \in 1 .. Len(c) + 1 :
                                  /\ next[nodes[i]] = nodes[i + 1]
                                  /\ prev[nodes[i + 1]] = nodes[i]
                            /\ size_[l] = Len(c)
                            /\ c # <<>> => /\ IL!Front(l) = IL!Node(c[1])
                                           /\ IL!Back(l) = IL!Node(c[Len(c)])
                            /\ c = <<>> => IL!Front(l) = nullptr /\ IL!Back(l) = nullptr
        BY DEF ListsExact
    <2> DEFINE c == contents[l]
               n == Len(c)
               t == [i \in 1 .. n |-> IL!Node(c[i])]
               u == <<IL!Head_(l)>> \o t
               nodes == u \o <<IL!Tail_(l)>>
    <2>1. c \in Seq(Slots) /\ n \in Nat /\ Chained(l)
        BY <1>1 DEF SInv, StoreTypeOK, Slots
    <2>2. t \in Seq(IL!Address) /\ Len(t) = n
        <3>1. \A i \in 1 .. n : IL!Node(c[i]) \in IL!Address
            BY <2>1, AddressFacts
        <3> QED BY <2>1, <3>1
    <2>3. u \in Seq(IL!Address) /\ Len(u) = n + 1 /\ u[1] = IL!Head_(l)
          /\ \A i \in 1 .. n : u[i + 1] = IL!Node(c[i])
        <3>1. IL!Head_(l) \in IL!Address /\ \A i \in 1 .. n : t[i] = IL!Node(c[i])
            BY AddressFacts
        <3> HIDE DEF t
        <3> QED BY <2>2, <3>1, FrontFacts
    <2> HIDE DEF u
    <2>4. nodes = Append(u, IL!Tail_(l))
        BY <2>3, AddressFacts
    <2>5. /\ \A i \in 1 .. n + 1 : nodes[i] = u[i]
          /\ nodes[n + 2] = IL!Tail_(l)
        BY <2>1, <2>3, <2>4, AddressFacts
    <2> HIDE DEF nodes
    <2>6. ASSUME NEW j \in 0 .. n + 1
          PROVE  nodes[j + 1] = Place(l, j)
        <3>1. CASE j = 0
            <4>1. 1 \in 1 .. n + 1 /\ 0 + 1 = 1
                BY <2>1
            <4> QED BY <2>3, <2>5, <3>1, <4>1 DEF Place
        <3>2. CASE j = n + 1
            <4>1. j # 0 /\ j + 1 = n + 2
                BY <2>1, <3>2
            <4> QED BY <2>5, <3>2, <4>1 DEF Place
        <3>3. CASE j # 0 /\ j # n + 1
            <4>1. j \in 1 .. n /\ j + 1 \in 1 .. n + 1
                BY <2>1, <3>3
            <4> QED BY <2>3, <2>5, <3>3, <4>1 DEF Place
        <3> QED BY <3>1, <3>2, <3>3
    <2>7. ASSUME NEW i \in 1 .. n + 1
          PROVE  next[nodes[i]] = nodes[i + 1] /\ prev[nodes[i + 1]] = nodes[i]
        <3>1. /\ i - 1 \in 0 .. n /\ i - 1 \in 0 .. n + 1 /\ i \in 0 .. n + 1
              /\ i - 1 + 1 = i
            BY <2>1
        <3>2. nodes[i] = Place(l, i - 1) /\ nodes[i + 1] = Place(l, i)
            BY <2>6, <3>1
        <3> QED BY <2>1, <3>1, <3>2 DEF Chained
    <2>8. size_[l] = n
        BY <2>1 DEF Chained
    <2>9. CASE c # <<>>
        <3>1. n # 0 /\ 0 \in 0 .. n /\ n \in 0 .. n /\ 0 + 1 = 1 /\ 1 # n + 1 /\ 1 # 0 /\ n # n + 1
            BY <2>1, <2>9
        <3>2. /\ Place(l, 0) = IL!Head_(l) /\ Place(l, 1) = IL!Node(c[1])
              /\ Place(l, n) = IL!Node(c[n]) /\ Place(l, n + 1) = IL!Tail_(l)
            BY <2>1, <3>1 DEF Place
        <3>3. next[IL!Head_(l)] = IL!Node(c[1]) /\ prev[IL!Tail_(l)] = IL!Node(c[n])
            BY <2>1, <3>1, <3>2 DEF Chained
        <3> QED BY <2>7, <2>8, <2>9, <3>1, <3>3 DEF IL!Front, IL!Back, nodes, u
    <2>10. CASE c = <<>>
        <3>1. n = 0
            BY <2>10
        <3> QED BY <2>7, <2>8, <2>10, <3>1 DEF IL!Front, IL!Back, nodes, u
    <2> QED BY <2>9, <2>10
<1> QED BY <1>1, StoreInv, PTL

\* is-linked, as remove() asserts it, is exact for every object that a client
\* holds: construct() resets the pointers a slot's last object left.
THEOREM LinkedTestIsExact == StoreSpec => []LinkedTest
<1>1. ASSUME SInv
      PROVE  LinkedTest
    <2>0. StoreTypeOK /\ Apart
        BY <1>1 DEF SInv
    <2> SUFFICES ASSUME NEW x \in held
                 PROVE  IL!LooksLinked(x) <=> x \in Linked
        BY DEF LinkedTest
    <2>1. CASE x \notin Linked
        BY <1>1, <2>1 DEF SInv, Unlinked, IL!LooksLinked
    <2>2. CASE x \in Linked
        <3>0. PICK l \in Lists : \E i \in 1 .. Len(contents[l]) : contents[l][i] = x
            BY <2>0, <2>2, LinkedIs
        <3>1. PICK i \in 1 .. Len(contents[l]) : contents[l][i] = x
            BY <3>0
        <3> DEFINE n == Len(contents[l])
        <3>2. n \in Nat /\ Chained(l)
            BY <1>1, <2>0 DEF SInv, StoreTypeOK
        <3>3. i \in 1 .. n
            BY <3>1
        <3> HIDE DEF n
        <3>4. /\ i \in 0 .. n /\ i - 1 \in 0 .. n /\ i - 1 + 1 = i
              /\ i + 1 \in 0 .. n + 1 /\ i - 1 \in 0 .. n + 1
            BY <3>2, <3>3
        <3>5. Place(l, i) = IL!Node(x)
            BY <2>0, <3>1, PlaceFacts
        <3>6. next[IL!Node(x)] = Place(l, i + 1) /\ prev[IL!Node(x)] = Place(l, i - 1)
            BY <3>2, <3>4, <3>5 DEF Chained, n
        <3>7. Place(l, i + 1) \in IL!Address /\ Place(l, i - 1) \in IL!Address
            BY <2>0, <3>4, PlaceFacts DEF n
        <3> QED BY <2>2, <3>6, <3>7, AddressFacts DEF IL!LooksLinked
    <2> QED BY <2>1, <2>2
<1> QED BY <1>1, StoreInv, PTL

\* A range-based for loop stays in its list and visits what is still to come,
\* in order, whatever its body inserts and removes, so long as the body leaves
\* the object that the loop is at.
THEOREM WalksAreExact == StoreSpec => []WalkExact
<1>1. ASSUME SInv
      PROVE  WalkExact
    <2> SUFFICES ASSUME cur # NoWalk
                 PROVE  /\ due # <<>> /\ cur.at = IL!Node(Head(due))
                        /\ \E k \in 0 .. Len(contents[cur.list]) :
                              due = SubSeq(contents[cur.list], k + 1,
                                           Len(contents[cur.list]))
        BY DEF WalkExact
    <2> DEFINE c == contents[cur.list]
               n == Len(c)
    <2>1. due \in Seq(Slots) /\ c \in Seq(Slots) /\ n \in Nat
        BY <1>1 DEF SInv, StoreTypeOK, Slots
    <2>2. PICK k \in Nat : WalkAt(cur.list, k)
        BY <1>1 DEF SInv, Walks
    <2>3. /\ k \in 1 .. n /\ cur.at = IL!Node(c[k]) /\ Len(due) = n - k + 1
          /\ \A j \in 1 .. Len(due) : due[j] = c[k + j - 1]
        BY <2>2 DEF WalkAt
    <2> HIDE DEF c, n
    <2>4. due # <<>> /\ Head(due) = c[k]
        <3>1. 1 \in 1 .. Len(due) /\ k + 1 - 1 = k /\ Len(due) # 0
            BY <2>1, <2>3
        <3>2. due # <<>> /\ Head(due) = due[1]
            BY <2>1, <3>1
        <3> QED BY <2>3, <3>1, <3>2
    <2>5. due = SubSeq(c, k, n)
        <3> DEFINE b == SubSeq(c, k, n)
        <3>1. /\ b \in Seq(Slots)
              /\ Len(b) = IF k <= n THEN n - k + 1 ELSE 0
              /\ \A j \in 1 .. n - k + 1 : b[j] = c[k + j - 1]
            <4>1. k \in Int /\ n \in Int /\ \A j \in k .. n : c[j] \in Slots
                BY <2>1, <2>3 DEF n
            <4> QED BY <2>1, <4>1, SubSeqProperties
        <3> HIDE DEF b
        <3>2. Len(b) = Len(due) /\ \A j \in 1 .. Len(due) : b[j] = due[j]
            BY <2>1, <2>3, <3>1
        <3>3. b = due
            BY <2>1, <3>1, <3>2, SeqEqual
        <3> QED BY <3>3 DEF b
    <2>6. k - 1 \in 0 .. n /\ k - 1 + 1 = k
        BY <2>1, <2>3
    <2> QED BY <2>3, <2>4, <2>5, <2>6 DEF c, n
<1> QED BY <1>1, StoreInv, PTL
============================================================================
