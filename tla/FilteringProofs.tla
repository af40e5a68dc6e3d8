--------------------------- MODULE FilteringProofs ---------------------------
(***************************************************************************)
(* What filtering a queue does, for every queue: it keeps the elements     *)
(* that are not taken out, and their order.                                *)
(***************************************************************************)
EXTENDS Filtering, Integers, FiniteSetTheorems, SequenceTheorems, Functions, TLAPS

-----------------------------------------------------------------------------
(* The places of a finite set of naturals, numbered from the smallest.     *)

\* A later place has a higher rank, and every place has one.
LEMMA RankGrows ==
    ASSUME NEW n \in Nat, NEW K \in SUBSET (1..n)
    PROVE  /\ IsFiniteSet(K) /\ Cardinality(K) \in Nat
           /\ \A i \in K : Rank(K, i) \in 1..Cardinality(K)
           /\ \A i, j \in K : i < j => Rank(K, i) < Rank(K, j)
<1>0. \A i \in K : i \in Nat
    OBVIOUS
<1>1. IsFiniteSet(1..n)
    BY FS_Interval
<1>2. IsFiniteSet(K) /\ Cardinality(K) \in Nat
    BY <1>1, FS_Subset, FS_CardinalityType
<1>3. ASSUME NEW i \in K
      PROVE  /\ {j \in K : j <= i} \in SUBSET K /\ IsFiniteSet({j \in K : j <= i})
             /\ Rank(K, i) \in Nat /\ Rank(K, i) <= Cardinality(K)
    BY <1>2, FS_Subset, FS_CardinalityType DEF Rank
<1>4. ASSUME NEW i \in K
      PROVE  Rank(K, i) # 0
    <2>1. i \in {j \in K : j <= i}
        OBVIOUS
    <2>2. QED
        BY <2>1, <1>3, FS_EmptySet DEF Rank
<1>5. ASSUME NEW i \in K, NEW j \in K, i < j
      PROVE  Rank(K, i) < Rank(K, j)
    <2>0. i \in Int /\ j \in Int
        BY <1>0
    <2>1. ASSUME NEW k \in K, k <= i
          PROVE  k <= j
        <3>1. k \in Int
            BY <1>0
        <3>2. QED
            BY <3>1, <2>0, <2>1, <1>5
    <2>2. {k \in K : k <= i} \in SUBSET {k \in K : k <= j}
        BY <2>1
    <2>3. j \in {k \in K : k <= j} /\ j \notin {k \in K : k <= i}
        BY <2>0, <1>5
    <2>4. Rank(K, i) <= Rank(K, j) /\ Rank(K, i) # Rank(K, j)
        BY <2>2, <2>3, <1>3, FS_Subset DEF Rank
    <2>5. Rank(K, i) \in Nat /\ Rank(K, j) \in Nat
        BY <1>3
    <2>6. QED
        BY <2>4, <2>5
<1>6. ASSUME NEW i \in K
      PROVE  Rank(K, i) \in 1..Cardinality(K)
    <2>1. Rank(K, i) \in Nat /\ Rank(K, i) <= Cardinality(K) /\ Rank(K, i) # 0
        BY <1>3, <1>4
    <2>2. QED
        BY <2>1, <1>2
<1>7. QED
    BY <1>2, <1>5, <1>6

\* So there is a k-th place for every k, in increasing order.
LEMMA NthPlace ==
    ASSUME NEW n \in Nat, NEW K \in SUBSET (1..n)
    PROVE  /\ \A k \in 1..Cardinality(K) : Nth(K, k) \in K /\ Rank(K, Nth(K, k)) = k
           /\ \A i \in K : Rank(K, i) \in 1..Cardinality(K) /\ Nth(K, Rank(K, i)) = i
           /\ \A k, l \in 1..Cardinality(K) : k < l => Nth(K, k) < Nth(K, l)
           /\ Cardinality(K) \in Nat
<1>0. \A i \in K : i \in Nat
    OBVIOUS
<1> DEFINE c == Cardinality(K)
           f == [i \in K |-> Rank(K, i)]
<1>1. /\ IsFiniteSet(K) /\ c \in Nat
      /\ \A i \in K : Rank(K, i) \in 1..c
      /\ \A i, j \in K : i < j => Rank(K, i) < Rank(K, j)
    BY RankGrows
<1>2. \A i, j \in K : Rank(K, i) = Rank(K, j) => i = j
    BY <1>1
<1>3. f \in Injection(K, 1..c)
    BY <1>1, <1>2 DEF Injection, IsInjective
<1>4. IsFiniteSet(1..c) /\ Cardinality(1..c) = c
    BY <1>1, FS_Interval
<1>5. f \in Surjection(K, 1..c)
    BY <1>3, <1>4, FS_Injection
<1>6. \A k \in 1..c : \E i \in K : Rank(K, i) = k
    BY <1>5 DEF Surjection
<1>7. \A k \in 1..c : Nth(K, k) \in K /\ Rank(K, Nth(K, k)) = k
    BY <1>6 DEF Nth
<1>8. \A i \in K : Nth(K, Rank(K, i)) = i
    BY <1>1, <1>2, <1>7
<1>9. ASSUME NEW k \in 1..c, NEW l \in 1..c, k < l
      PROVE  Nth(K, k) < Nth(K, l)
    <2>1. /\ Nth(K, k) \in K /\ Rank(K, Nth(K, k)) = k
          /\ Nth(K, l) \in K /\ Rank(K, Nth(K, l)) = l
        BY <1>7
    <2>2. Nth(K, k) \in Nat /\ Nth(K, l) \in Nat
        BY <1>0, <2>1
    <2>0. k \in Int /\ l \in Int
        BY <1>1
    <2>3. CASE Nth(K, l) < Nth(K, k)
        <3>1. l < k
            BY <1>1, <2>1, <2>3
        <3>2. QED
            BY <3>1, <2>0, <1>9
    <2>4. CASE Nth(K, l) = Nth(K, k)
        BY <2>1, <2>4, <2>0, <1>9
    <2>5. QED
        BY <2>2, <2>3, <2>4
<1>10. QED
    BY <1>1, <1>7, <1>8, <1>9
-----------------------------------------------------------------------------
(* Filtering.                                                              *)

LEMMA WithoutPlaces ==
    ASSUME NEW S, NEW q \in Seq(S), NEW gone
    PROVE  LET w == Without(q, gone)
               K == Kept(q, gone)
           IN  /\ K \in SUBSET (1..Len(q)) /\ Len(q) \in Nat /\ DOMAIN q = 1..Len(q)
               /\ Cardinality(K) \in Nat
               /\ w \in Seq(S) /\ Len(w) = Cardinality(K) /\ DOMAIN w = 1..Cardinality(K)
               /\ \A k \in DOMAIN w : Nth(K, k) \in K /\ w[k] = q[Nth(K, k)]
               /\ \A k, l \in DOMAIN w : k < l => Nth(K, k) < Nth(K, l)
               /\ \A i \in K : Rank(K, i) \in DOMAIN w /\ Nth(K, Rank(K, i)) = i
<1> DEFINE w == Without(q, gone)
           K == Kept(q, gone)
           c == Cardinality(K)
<1>1. Len(q) \in Nat /\ DOMAIN q = 1..Len(q) /\ \A i \in DOMAIN q : q[i] \in S
    OBVIOUS
<1>2. K \in SUBSET (1..Len(q))
    BY <1>1 DEF Kept
<1>3. /\ \A k \in 1..c : Nth(K, k) \in K
      /\ \A i \in K : Rank(K, i) \in 1..c /\ Nth(K, Rank(K, i)) = i
      /\ \A k, l \in 1..c : k < l => Nth(K, k) < Nth(K, l)
      /\ c \in Nat
    BY <1>1, <1>2, NthPlace
<1> HIDE DEF K
<1>4. w = [k \in 1..c |-> q[Nth(K, k)]]
    BY DEF Without, K
<1>5. \A k \in 1..c : q[Nth(K, k)] \in S
    BY <1>1, <1>2, <1>3
<1>6. w \in Seq(S) /\ Len(w) = c /\ DOMAIN w = 1..c
    BY <1>3, <1>4, <1>5
<1>7. QED
    BY <1>1, <1>2, <1>3, <1>4, <1>6 DEF K

\* What is left is what is not gone.
LEMMA WithoutItems ==
    ASSUME NEW S, NEW q \in Seq(S), NEW gone
    PROVE  /\ Without(q, gone) \in Seq(S)
           /\ Items(Without(q, gone)) = Items(q) \ gone
<1> DEFINE w == Without(q, gone)
           K == Kept(q, gone)
<1>1. /\ w \in Seq(S)
      /\ \A k \in DOMAIN w : Nth(K, k) \in K /\ w[k] = q[Nth(K, k)]
      /\ \A i \in K : Rank(K, i) \in DOMAIN w /\ Nth(K, Rank(K, i)) = i
    BY WithoutPlaces
<1> HIDE DEF w
<1>2. Items(w) \subseteq Items(q) \ gone
    BY <1>1 DEF Items, Kept
<1>3. Items(q) \ gone \subseteq Items(w)
    <2> SUFFICES ASSUME NEW i \in DOMAIN q, q[i] \notin gone
                 PROVE  q[i] \in Items(w)
        BY DEF Items
    <2>1. i \in K
        BY DEF Kept
    <2>2. Rank(K, i) \in DOMAIN w /\ w[Rank(K, i)] = q[i]
        BY <2>1, <1>1
    <2>3. QED
        BY <2>2 DEF Items
<1>4. QED
    BY <1>1, <1>2, <1>3 DEF w

\* Two that are left stand in the order they stood in.
LEMMA WithoutOrder ==
    ASSUME NEW S, NEW q \in Seq(S), NEW gone,
           NEW i \in DOMAIN Without(q, gone), NEW j \in DOMAIN Without(q, gone), i < j
    PROVE  \E p, r \in DOMAIN q :
              p < r /\ Without(q, gone)[i] = q[p] /\ Without(q, gone)[j] = q[r]
<1> DEFINE w == Without(q, gone)
           K == Kept(q, gone)
<1>1. /\ \A k \in DOMAIN w : Nth(K, k) \in K /\ w[k] = q[Nth(K, k)]
      /\ \A k, l \in DOMAIN w : k < l => Nth(K, k) < Nth(K, l)
    BY WithoutPlaces
<1>2. K \subseteq DOMAIN q
    BY DEF Kept
<1>3. QED
    BY <1>1, <1>2

\* And of two that stay the earlier one stays in front.
LEMMA WithoutKeepsOrder ==
    ASSUME NEW S, NEW q \in Seq(S), NEW gone,
           NEW p \in DOMAIN q, NEW r \in DOMAIN q, p < r, q[p] \notin gone, q[r] \notin gone
    PROVE  \E i, j \in DOMAIN Without(q, gone) :
              i < j /\ Without(q, gone)[i] = q[p] /\ Without(q, gone)[j] = q[r]
<1> DEFINE w == Without(q, gone)
           K == Kept(q, gone)
<1>1. /\ K \in SUBSET (1..Len(q)) /\ Len(q) \in Nat
      /\ \A k \in DOMAIN w : w[k] = q[Nth(K, k)]
      /\ \A i \in K : Rank(K, i) \in DOMAIN w /\ Nth(K, Rank(K, i)) = i
    BY WithoutPlaces
<1>2. p \in K /\ r \in K
    BY DEF Kept
<1>3. Rank(K, p) < Rank(K, r)
    BY <1>1, <1>2, RankGrows
<1>4. w[Rank(K, p)] = q[p] /\ w[Rank(K, r)] = q[r]
    BY <1>1, <1>2
<1>5. QED
    BY <1>1, <1>2, <1>3, <1>4

\* Nothing of the queue is gone: it stays as it is.
LEMMA WithoutNothing ==
    ASSUME NEW S, NEW q \in Seq(S), NEW gone, Items(q) \cap gone = {}
    PROVE  Without(q, gone) = q
<1> DEFINE n == Len(q)
<1>1. n \in Nat /\ q \in [1..n -> S] /\ DOMAIN q = 1..n
    OBVIOUS
<1>2. Kept(q, gone) = 1..n
    BY <1>1 DEF Kept, Items
<1>3. Cardinality(1..n) = n
    BY <1>1, FS_Interval
<1>4. ASSUME NEW k \in 1..n
      PROVE  Nth(1..n, k) = k
    <2>1. {j \in 1..n : j <= k} = 1..k
        BY <1>1
    <2>2. k \in Int /\ ~(1 > k)
        BY <1>1
    <2>3. Cardinality(1..k) = k - 1 + 1 /\ k - 1 + 1 = k
        BY <2>2, FS_Interval
    <2>4. Rank(1..n, k) = k
        BY <2>1, <2>3, Zenon DEF Rank
    <2>5. Nth(1..n, Rank(1..n, k)) = k
        BY <1>1, NthPlace
    <2>6. QED
        BY <2>4, <2>5
<1>5. Without(q, gone) = [k \in 1..n |-> q[k]]
    BY <1>2, <1>3, <1>4 DEF Without
<1>6. QED
    BY <1>1, <1>5

\* Nothing occurs twice in what is left, if nothing did before.
LEMMA WithoutUnique ==
    ASSUME NEW S, NEW q \in Seq(S), NEW gone, Unique(q)
    PROVE  Unique(Without(q, gone))
<1> DEFINE w == Without(q, gone)
           K == Kept(q, gone)
<1>1. /\ \A k \in DOMAIN w : Nth(K, k) \in K /\ w[k] = q[Nth(K, k)]
      /\ \A k, l \in DOMAIN w : k < l => Nth(K, k) < Nth(K, l)
      /\ Cardinality(K) \in Nat /\ DOMAIN w = 1..Cardinality(K)
      /\ K \in SUBSET (1..Len(q)) /\ Len(q) \in Nat /\ DOMAIN q = 1..Len(q)
    BY WithoutPlaces
<1> HIDE DEF w, K
<1> SUFFICES ASSUME NEW i \in DOMAIN w, NEW j \in DOMAIN w, w[i] = w[j]
             PROVE  i = j
    BY DEF Unique, w
<1>2. Nth(K, i) = Nth(K, j)
    BY <1>1 DEF Unique
<1>3. i \in Nat /\ j \in Nat
    <2> DEFINE c == Cardinality(K)
    <2>1. c \in Nat /\ i \in 1..c /\ j \in 1..c
        BY <1>1
    <2> HIDE DEF c
    <2>2. QED
        BY <2>1
<1>4. Nth(K, i) \in Nat
    <2> DEFINE m == Nth(K, i)
    <2>1. m \in K /\ K \subseteq 1..Len(q) /\ 1..Len(q) \subseteq Nat
        BY <1>1
    <2> HIDE DEF m
    <2>2. m \in Nat
        BY <2>1
    <2>3. QED
        BY <2>2 DEF m
<1>5. ~(i < j) /\ ~(j < i)
    <2>1. ~(Nth(K, i) < Nth(K, i))
        BY <1>4
    <2>2. QED
        BY <2>1, <1>1, <1>2
<1>6. QED
    BY <1>3, <1>5

\* Without its head a queue is its tail, if the head occurs once.
LEMMA WithoutTheHead ==
    ASSUME NEW S, NEW q \in Seq(S), q # <<>>, Unique(q)
    PROVE  Without(q, {Head(q)}) = Tail(q)
<1> DEFINE n == Len(q)
           K == 2..n
<1>1. n \in Nat \ {0} /\ q \in [1..n -> S] /\ DOMAIN q = 1..n /\ Head(q) = q[1]
    OBVIOUS
<1>2. Kept(q, {Head(q)}) = K
    <2>1. \A i \in 1..n : q[i] = q[1] => i = 1
        BY <1>1 DEF Unique
    <2>2. Kept(q, {Head(q)}) = {i \in 1..n : i # 1}
        BY <2>1, <1>1 DEF Kept
    <2>3. {i \in 1..n : i # 1} = 2..n
        BY <1>1
    <2>4. QED
        BY <2>2, <2>3
<1>3. Cardinality(K) = n - 1
    <2>1. Cardinality(K) = IF 2 > n THEN 0 ELSE n - 2 + 1
        BY <1>1, FS_Interval
    <2>2. QED
        BY <2>1, <1>1
<1>4. ASSUME NEW k \in 1..(n - 1)
      PROVE  Nth(K, k) = k + 1
    <2>1. {j \in K : j <= k + 1} = 2..(k + 1)
        BY <1>1
    <2>2. k + 1 \in Int /\ ~(2 > k + 1) /\ k + 1 - 2 + 1 = k /\ k + 1 \in K
        BY <1>1
    <2>3. Cardinality(2..(k + 1)) = IF 2 > k + 1 THEN 0 ELSE k + 1 - 2 + 1
        BY <2>2, FS_Interval
    <2>4. Rank(K, k + 1) = k
        BY <2>1, <2>2, <2>3 DEF Rank
    <2>5. K \in SUBSET (1..n)
        BY <1>1
    <2>6. Nth(K, Rank(K, k + 1)) = k + 1
        BY <2>2, <2>5, <1>1, NthPlace
    <2>7. QED
        BY <2>4, <2>6
<1>5. Without(q, {Head(q)}) = [k \in 1..(n - 1) |-> q[k + 1]]
    BY <1>2, <1>3, <1>4 DEF Without
<1>6. /\ Tail(q) \in Seq(S) /\ Len(Tail(q)) = n - 1
      /\ \A k \in 1..Len(Tail(q)) : Tail(q)[k] = q[k + 1]
    BY HeadTailProperties
<1>7. Tail(q) = [k \in 1..(n - 1) |-> q[k + 1]]
    <2> DEFINE t == Tail(q)
    <2> HIDE DEF t
    <2>1. t = [k \in 1..Len(t) |-> t[k]]
        <3>1. t \in Seq(S)
            BY <1>6 DEF t
        <3>2. t \in [1..Len(t) -> S]
            BY <3>1, LenProperties
        <3>3. QED
            BY <3>2
    <2>2. QED
        BY <2>1, <1>6 DEF t
<1>8. QED
    BY <1>5, <1>7

\* The head stays the head unless it is taken out.
LEMMA WithoutKeepsHead ==
    ASSUME NEW S, NEW q \in Seq(S), NEW gone, q # <<>>, Head(q) \notin gone
    PROVE  Without(q, gone) # <<>> /\ Head(Without(q, gone)) = Head(q)
<1> DEFINE w == Without(q, gone)
           K == Kept(q, gone)
<1>1. /\ K \in SUBSET (1..Len(q)) /\ Len(q) \in Nat /\ DOMAIN q = 1..Len(q)
      /\ w \in Seq(S) /\ Len(w) = Cardinality(K) /\ DOMAIN w = 1..Cardinality(K)
      /\ Cardinality(K) \in Nat
      /\ \A k \in DOMAIN w : w[k] = q[Nth(K, k)]
      /\ \A i \in K : Rank(K, i) \in DOMAIN w /\ Nth(K, Rank(K, i)) = i
    BY WithoutPlaces
<1>2. Len(q) # 0 /\ Head(q) = q[1] /\ 1 \in DOMAIN q
    BY <1>1
<1>3. 1 \in K
    BY <1>2 DEF Kept
<1>4. Rank(K, 1) = 1
    <2>1. {j \in K : j <= 1} = {1}
        BY <1>1, <1>3
    <2>2. QED
        BY <2>1, FS_Singleton DEF Rank
<1>5. 1 \in DOMAIN w /\ w[1] = q[1]
    BY <1>1, <1>3, <1>4
<1> HIDE DEF w
<1>6. w # <<>> /\ Head(w) = w[1]
    BY <1>1, <1>5
<1>7. QED
    BY <1>2, <1>5, <1>6 DEF w

\* All of it is gone.
LEMMA WithoutEverything ==
    ASSUME NEW S, NEW q \in Seq(S), NEW gone, Items(q) \subseteq gone
    PROVE  Without(q, gone) = <<>>
<1>1. Items(Without(q, gone)) = {} /\ Without(q, gone) \in Seq(S)
    BY WithoutItems
<1> DEFINE w == Without(q, gone)
<1> HIDE DEF w
<1>2. ASSUME w # <<>>
      PROVE  FALSE
    <2>1. 1 \in DOMAIN w
        BY <1>1, <1>2 DEF w
    <2>2. QED
        BY <2>1, <1>1 DEF Items, w
<1>3. QED
    BY <1>2 DEF w

\* Only what is in the queue counts.
LEMMA WithoutSame ==
    ASSUME NEW q, NEW A, NEW B, Items(q) \cap A = Items(q) \cap B
    PROVE  Without(q, A) = Without(q, B)
<1>1. Kept(q, A) = Kept(q, B)
    BY DEF Kept, Items
<1>2. QED
    BY <1>1 DEF Without

-----------------------------------------------------------------------------
(* Joining and shortening a queue.                                         *)

\* What is in a queue has its type.
LEMMA ItemsTyped ==
    ASSUME NEW S, NEW s \in Seq(S)
    PROVE  Items(s) \subseteq S
BY DEF Items

\* The elements of two queues put together; the head is that of the first.
LEMMA ConcatItems ==
    ASSUME NEW S, NEW s \in Seq(S), NEW t \in Seq(S)
    PROVE  /\ s \o t \in Seq(S)
           /\ Items(s \o t) = Items(s) \cup Items(t)
           /\ s # <<>> => s \o t # <<>> /\ Head(s \o t) = Head(s)
<1> DEFINE q == s \o t
           n == Len(s)
<1>1. /\ q \in Seq(S) /\ n \in Nat /\ Len(t) \in Nat /\ Len(q) = n + Len(t)
      /\ DOMAIN q = 1..Len(q) /\ DOMAIN s = 1..n /\ DOMAIN t = 1..Len(t)
      /\ \A i \in 1..n : q[i] = s[i]
      /\ \A i \in 1..Len(t) : q[n + i] = t[i]
    BY ConcatProperties, LenProperties
<1> HIDE DEF q, n
<1>2. ASSUME NEW i \in DOMAIN q
      PROVE  q[i] \in Items(s) \cup Items(t)
    <2>1. CASE i <= n
        BY <1>1, <2>1 DEF Items
    <2>2. CASE ~(i <= n)
        <3>1. i - n \in 1..Len(t) /\ n + (i - n) = i
            BY <1>1, <2>2
        <3>2. QED
            BY <1>1, <3>1 DEF Items
    <2>3. QED
        BY <2>1, <2>2
<1>3. ASSUME NEW i \in DOMAIN s
      PROVE  s[i] \in Items(q)
    <2>1. i \in DOMAIN q
        BY <1>1
    <2>2. QED
        BY <1>1, <2>1 DEF Items
<1>4. ASSUME NEW i \in DOMAIN t
      PROVE  t[i] \in Items(q)
    <2>1. n + i \in DOMAIN q
        BY <1>1
    <2>2. QED
        BY <1>1, <2>1 DEF Items
<1>5. Items(q) = Items(s) \cup Items(t)
    BY <1>2, <1>3, <1>4 DEF Items
<1>6. s # <<>> => q # <<>> /\ Head(q) = Head(s)
    <2>1. s # <<>> => n > 0
        BY <1>1, EmptySeq DEF n
    <2>2. s # <<>> => 1 \in 1..n /\ 1 \in DOMAIN q
        BY <1>1, <2>1
    <2>3. QED
        BY <1>1, <2>2, HeadTailProperties, EmptySeq
<1>7. QED
    BY <1>1, <1>5, <1>6 DEF q

\* Two queues that share nothing, and hold nothing twice, hold nothing twice together.
LEMMA ConcatUnique ==
    ASSUME NEW S, NEW s \in Seq(S), NEW t \in Seq(S),
           Unique(s), Unique(t), Items(s) \cap Items(t) = {}
    PROVE  Unique(s \o t)
<1> DEFINE q == s \o t
           n == Len(s)
<1>1. /\ n \in Nat /\ Len(t) \in Nat /\ Len(q) = n + Len(t)
      /\ DOMAIN q = 1..Len(q) /\ DOMAIN s = 1..n /\ DOMAIN t = 1..Len(t)
      /\ \A i \in 1..n : q[i] = s[i]
      /\ \A i \in 1..Len(t) : q[n + i] = t[i]
    BY ConcatProperties, LenProperties
<1> HIDE DEF q, n
<1>2. ASSUME NEW i \in DOMAIN q
      PROVE  /\ i <= n => i \in DOMAIN s /\ q[i] = s[i] /\ q[i] \in Items(s)
             /\ ~(i <= n) => i - n \in DOMAIN t /\ q[i] = t[i - n] /\ q[i] \in Items(t)
    <2>1. CASE i <= n
        BY <1>1, <2>1 DEF Items
    <2>2. CASE ~(i <= n)
        <3>1. i - n \in 1..Len(t) /\ n + (i - n) = i
            BY <1>1, <2>2
        <3>2. QED
            BY <1>1, <2>2, <3>1 DEF Items
    <2>3. QED
        BY <2>1, <2>2
<1>3. ASSUME NEW i \in DOMAIN q, NEW j \in DOMAIN q, q[i] = q[j]
      PROVE  i = j
    <2>1. (i <= n) <=> (j <= n)
        BY <1>2, <1>3
    <2>2. i \in Nat /\ j \in Nat
        BY <1>1
    <2>3. CASE i <= n
        BY <1>2, <1>3, <2>1, <2>3 DEF Unique
    <2>4. CASE ~(i <= n)
        <3>1. i - n = j - n
            BY <1>2, <1>3, <2>1, <2>4 DEF Unique
        <3>2. QED
            BY <1>1, <2>2, <3>1
    <2>5. QED
        BY <2>3, <2>4
<1>4. QED
    BY <1>3 DEF Unique, q

\* The tail of a queue that holds nothing twice: all of it but its head.
LEMMA TailItems ==
    ASSUME NEW S, NEW s \in Seq(S), s # <<>>, Unique(s)
    PROVE  Tail(s) \in Seq(S) /\ Unique(Tail(s)) /\ Items(Tail(s)) = Items(s) \ {Head(s)}
<1> DEFINE w == Without(s, {Head(s)})
<1>1. w = Tail(s)
    BY WithoutTheHead
<1>2. w \in Seq(S) /\ Items(w) = Items(s) \ {Head(s)}
    BY WithoutItems
<1>3. Unique(w)
    BY WithoutUnique
<1> HIDE DEF w
<1>4. QED
    BY <1>1, <1>2, <1>3

=============================================================================
