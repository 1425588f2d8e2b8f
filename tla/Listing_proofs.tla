------------------------------ MODULE Listing_proofs ------------------------------
(***************************************************************************)
(* Lemmas about sorted lists, about pieces put one after the other, and    *)
(* about recursions: that one has a solution, and what holds along it.     *)
(***************************************************************************)
EXTENDS Listing, TLAPS, FiniteSetTheorems, WellFoundedInduction

\* The numbers of a set have a smallest.
LEMMA SmallestNumber ==
    ASSUME NEW S \in SUBSET Nat, S # {}
    PROVE  \E p \in S : \A q \in S : p <= q
<1> DEFINE Below(x) == {y \in S : y <= x}
           W == {Below(x) : x \in S}
<1>1. W \in SUBSET FiniteSubsetsOf(S)
  <2>1. ASSUME NEW x \in S PROVE Below(x) \in FiniteSubsetsOf(S)
    <3>0. S \subseteq Nat
      OBVIOUS
    <3>1. Below(x) \in SUBSET (0 .. x) /\ Below(x) \in SUBSET S
      <4>1. ASSUME NEW y \in S, y <= x PROVE y \in 0 .. x
        BY <2>1, <3>0, <4>1
      <4> QED
        BY <4>1
    <3>2. IsFiniteSet(0 .. x)
      <4>1. 0 \in Int /\ x \in Int
        OBVIOUS
      <4> QED
        BY <4>1, FS_Interval
    <3>3. IsFiniteSet(Below(x))
      BY <3>1, <3>2, FS_Subset
    <3> QED
      BY <3>1, <3>3 DEF FiniteSubsetsOf
  <2> QED
    BY <2>1
<1>2. W # {}
  OBVIOUS
<1>3. IsWellFoundedOn(StrictSubsetOrdering(S), FiniteSubsetsOf(S))
  BY FS_StrictSubsetOrderingWellFounded
<1>4. PICK B \in W : \A C \in W : <<C, B>> \notin StrictSubsetOrdering(S)
  <2> HIDE DEF W
  <2> QED
    BY <1>1, <1>2, <1>3, WFMin
<1>5. PICK p \in S : B = Below(p)
  OBVIOUS
<1>6. ASSUME NEW q \in S, q < p PROVE FALSE
  <2>1. Below(q) \in W /\ Below(q) \subseteq B /\ p \in B /\ p \notin Below(q)
    <3>1. p \in Nat /\ q \in Nat /\ S \subseteq Nat
      OBVIOUS
    <3>2. p \in Below(p) /\ p \notin Below(q)
      BY <1>6, <3>1
    <3>3. \A y \in S : y <= q => y <= p
      BY <1>6, <3>1
    <3>4. Below(q) \subseteq Below(p)
      BY <3>3
    <3> QED
      BY <1>5, <3>2, <3>4
  <2>2. Below(q) \in SUBSET S /\ B \in SUBSET S /\ Below(q) # B
    BY <1>5, <2>1
  <2>3. <<Below(q), B>> \in StrictSubsetOrdering(S)
    BY <2>1, <2>2 DEF StrictSubsetOrdering
  <2> QED
    BY <1>4, <2>1, <2>3
<1> QED
  BY <1>6

\* seq lists every element of S once.
Enumerates(seq, S) ==
    /\ Cardinality(S) \in Nat /\ seq \in [1 .. Cardinality(S) -> S]
    /\ \A m, n \in 1 .. Cardinality(S) : seq[m] = seq[n] => m = n
    /\ \A i \in S : \E n \in 1 .. Cardinality(S) : seq[n] = i

\* A linear order of S, UpTo[i] being those no later than i.
Linear(S, UpTo) ==
    /\ IsFiniteSet(S) /\ UpTo \in [S -> SUBSET S] /\ \A i \in S : i \in UpTo[i]
    /\ \A i, k \in S : \/ i = k
                       \/ UpTo[i] \subseteq UpTo[k] /\ k \notin UpTo[i]
                       \/ UpTo[k] \subseteq UpTo[i] /\ i \notin UpTo[k]

\* InOrder lists a set by such an order, each element where it counts.
LEMMA InOrderLists ==
    ASSUME NEW S, NEW UpTo, Linear(S, UpTo)
    PROVE  /\ Enumerates(InOrder(S, UpTo), S)
           /\ \A n \in 1 .. Cardinality(S) : Cardinality(UpTo[InOrder(S, UpTo)[n]]) = n
           /\ \A i, k \in S : Cardinality(UpTo[i]) = Cardinality(UpTo[k]) => i = k
           /\ \A m, n \in 1 .. Cardinality(S) :
                 m < n => InOrder(S, UpTo)[n] \notin UpTo[InOrder(S, UpTo)[m]]
<1>0. /\ IsFiniteSet(S) /\ UpTo \in [S -> SUBSET S] /\ \A i \in S : i \in UpTo[i]
      /\ \A i, k \in S : \/ i = k
                         \/ UpTo[i] \subseteq UpTo[k] /\ k \notin UpTo[i]
                         \/ UpTo[k] \subseteq UpTo[i] /\ i \notin UpTo[k]
  BY DEF Linear
<1> DEFINE N == Cardinality(S)
           Rank(i) == Cardinality(UpTo[i])
           seq == InOrder(S, UpTo)
<1>1. N \in Nat
  BY <1>0, FS_CardinalityType
<1>2. ASSUME NEW i \in S PROVE IsFiniteSet(UpTo[i]) /\ Rank(i) \in 1 .. N
  <2>1. UpTo[i] \subseteq S /\ i \in UpTo[i]
    BY <1>0
  <2>2. IsFiniteSet(UpTo[i]) /\ Cardinality(UpTo[i]) <= N /\ Cardinality(UpTo[i]) \in Nat
    BY <1>0, <2>1, FS_Subset, FS_CardinalityType
  <2>3. Cardinality(UpTo[i]) # 0
    BY <2>1, <2>2, FS_EmptySet
  <2> HIDE DEF N
  <2> QED
    BY <1>1, <2>2, <2>3
<1>3. ASSUME NEW i \in S, NEW k \in S, UpTo[i] \subseteq UpTo[k], k \notin UpTo[i] PROVE Rank(i) < Rank(k)
  <2>1. UpTo[i] # UpTo[k]
    <3>1. k \in UpTo[k]
      BY <1>0
    <3> QED
      BY <1>3, <3>1
  <2> QED
    BY <1>2, <1>3, <2>1, FS_Subset
<1>4. ASSUME NEW i \in S, NEW k \in S, Rank(i) = Rank(k) PROVE i = k
  <2>1. Rank(i) \in Int
    BY <1>1, <1>2
  <2>2. CASE UpTo[i] \subseteq UpTo[k] /\ k \notin UpTo[i]
    <3>1. Rank(i) < Rank(k)
      BY <1>3, <2>2
    <3> HIDE DEF Rank
    <3> QED
      BY <1>4, <2>1, <3>1
  <2>3. CASE UpTo[k] \subseteq UpTo[i] /\ i \notin UpTo[k]
    <3>1. Rank(k) < Rank(i)
      BY <1>3, <2>3
    <3> HIDE DEF Rank
    <3> QED
      BY <1>4, <2>1, <3>1
  <2> QED
    BY <1>0, <2>2, <2>3
<1>5. \A n \in 1 .. N : (\E i \in S : Rank(i) = n) => seq[n] \in S /\ Rank(seq[n]) = n
  BY DEF InOrder
<1>11. seq = [n \in 1 .. N |-> seq[n]]
  BY DEF InOrder
<1> HIDE DEF Rank, seq
<1>6. ASSUME NEW n \in 1 .. N PROVE \E i \in S : Rank(i) = n
  <2> DEFINE f == [i \in S |-> Rank(i)]
  <2>1. f \in [S -> 1 .. N] /\ \A i, k \in S : f[i] = f[k] => i = k
    BY <1>2, <1>4
  <2>2. f \in Injection(S, 1 .. N)
    <3> HIDE DEF f
    <3> QED
      BY <2>1 DEF Injection, IsInjective
  <2>3. IsFiniteSet(1 .. N) /\ Cardinality(1 .. N) = N
    BY <1>1, FS_Interval
  <2>4. f \in Surjection(S, 1 .. N)
    <3> HIDE DEF f
    <3> QED
      BY <2>2, <2>3, FS_Injection
  <2> QED
    BY <2>4 DEF Surjection
<1>7. \A n \in 1 .. N : seq[n] \in S /\ Rank(seq[n]) = n
  BY <1>5, <1>6
<1>8. seq \in [1 .. N -> S]
  BY <1>7, <1>11
<1>9. \A m, n \in 1 .. N : seq[m] = seq[n] => m = n
  BY <1>7
<1>10. ASSUME NEW i \in S PROVE Rank(i) \in 1 .. N /\ seq[Rank(i)] = i
  <2>1. Rank(i) \in 1 .. N
    BY <1>2
  <2>2. seq[Rank(i)] \in S /\ Rank(seq[Rank(i)]) = Rank(i)
    BY <1>7, <2>1
  <2> QED
    BY <1>4, <2>1, <2>2
<1>12. Enumerates(seq, S)
  BY <1>1, <1>8, <1>9, <1>10 DEF Enumerates
<1>13. \A n \in 1 .. N : Cardinality(UpTo[seq[n]]) = n
  BY <1>7 DEF Rank
<1>14. \A i, k \in S : Cardinality(UpTo[i]) = Cardinality(UpTo[k]) => i = k
  BY <1>4 DEF Rank
<1>15. ASSUME NEW m \in 1 .. N, NEW n \in 1 .. N, m < n PROVE seq[n] \notin UpTo[seq[m]]
  <2>1. seq[m] \in S /\ seq[n] \in S /\ Rank(seq[m]) = m /\ Rank(seq[n]) = n
    BY <1>7
  <2>2. seq[n] # seq[m]
    BY <1>15, <2>1
  <2>3. ~(UpTo[seq[n]] \subseteq UpTo[seq[m]] /\ seq[m] \notin UpTo[seq[n]])
    BY <1>3, <1>15, <2>1
  <2> QED
    BY <1>0, <2>1, <2>2, <2>3
<1> QED
  BY <1>12, <1>13, <1>14, <1>15 DEF seq

\* Two sets that are ordered alike are listed alike.
OrderedAlike(S, UpTo, T, Until, g) ==
    /\ Linear(S, UpTo) /\ Linear(T, Until) /\ g \in Bijection(S, T)
    /\ \A i, k \in S : i \in UpTo[k] <=> g[i] \in Until[g[k]]

LEMMA OrderCarriesOver ==
    ASSUME NEW S, NEW UpTo, NEW T, NEW Until, NEW g, OrderedAlike(S, UpTo, T, Until, g)
    PROVE  /\ Cardinality(T) = Cardinality(S)
           /\ \A n \in 1 .. Cardinality(S) : InOrder(T, Until)[n] = g[InOrder(S, UpTo)[n]]
<1>0. /\ Linear(S, UpTo) /\ Linear(T, Until) /\ g \in Bijection(S, T)
      /\ \A i, k \in S : i \in UpTo[k] <=> g[i] \in Until[g[k]]
  BY DEF OrderedAlike
<1>1. /\ g \in [S -> T] /\ \A t \in T : \E i \in S : g[i] = t
      /\ \A i, k \in S : g[i] = g[k] => i = k
  BY <1>0 DEF Bijection, Injection, Surjection, IsInjective
<1>2. Cardinality(T) = Cardinality(S)
  <2>1. ExistsBijection(S, T)
    BY <1>0 DEF ExistsBijection
  <2> QED
    BY <1>0, <2>1, FS_Bijection DEF Linear
<1>3. ASSUME NEW k \in S PROVE Cardinality(Until[g[k]]) = Cardinality(UpTo[k])
  <2> DEFINE A == UpTo[k]
             B == Until[g[k]]
             f == [i \in A |-> g[i]]
  <2>1. A \subseteq S /\ B \subseteq T /\ IsFiniteSet(S)
    BY <1>0, <1>1 DEF Linear
  <2>2. \A i \in S : i \in A <=> g[i] \in B
    BY <1>0
  <2> HIDE DEF A, B
  <2>3. f \in Injection(A, B) /\ f \in Surjection(A, B)
    BY <1>1, <2>1, <2>2 DEF Injection, Surjection, IsInjective
  <2>4. ExistsBijection(A, B)
    BY <2>3 DEF ExistsBijection, Bijection
  <2>5. IsFiniteSet(A)
    BY <2>1, FS_Subset
  <2>6. Cardinality(B) = Cardinality(A)
    BY <2>4, <2>5, FS_Bijection
  <2> QED
    BY <2>6 DEF A, B
<1>4. ASSUME NEW n \in 1 .. Cardinality(S)
      PROVE  InOrder(T, Until)[n] = g[InOrder(S, UpTo)[n]]
  <2> DEFINE a == InOrder(S, UpTo)[n]
             b == InOrder(T, Until)[n]
  <2>1. a \in S /\ Cardinality(UpTo[a]) = n
    BY <1>0, InOrderLists DEF Enumerates
  <2>2. b \in T /\ Cardinality(Until[b]) = n
    BY <1>0, <1>2, InOrderLists DEF Enumerates
  <2>3. g[a] \in T /\ Cardinality(Until[g[a]]) = n
    BY <1>1, <1>3, <2>1
  <2>4. \A i, k \in T : Cardinality(Until[i]) = Cardinality(Until[k]) => i = k
    BY <1>0, InOrderLists
  <2> QED
    BY <2>2, <2>3, <2>4
<1> QED
  BY <1>2, <1>4

\* The recursion of Concat has a solution, built one piece after the other.
Joins(joined, pieces, m) ==
    /\ joined = [n \in 0 .. m |-> IF n = 0 THEN <<>> ELSE joined[n - 1] \o pieces[n]]

LEMMA JoinsExist ==
    ASSUME NEW pieces, NEW N \in Nat PROVE \E joined : Joins(joined, pieces, N)
<1> DEFINE P(m) == \E joined : Joins(joined, pieces, m)
           Bad == {m \in 0 .. N : ~P(m)}
<1>1. P(0)
  <2> DEFINE joined == [n \in 0 .. 0 |-> <<>>]
  <2>1. Joins(joined, pieces, 0)
    BY DEF Joins
  <2> QED
    BY <2>1
<1>2. ASSUME NEW m \in 1 .. N, P(m - 1) PROVE P(m)
  <2>1. PICK f : Joins(f, pieces, m - 1)
    BY <1>2
  <2> DEFINE joined == [n \in 0 .. m |-> IF n = m THEN f[m - 1] \o pieces[m] ELSE f[n]]
  <2>2. \A n \in 0 .. m - 1 : f[n] = IF n = 0 THEN <<>> ELSE f[n - 1] \o pieces[n]
    BY <2>1 DEF Joins
  <2>3. ASSUME NEW n \in 0 .. m
        PROVE joined[n] = IF n = 0 THEN <<>> ELSE joined[n - 1] \o pieces[n]
    <3>1. n # 0 => n - 1 \in 0 .. m - 1 /\ n - 1 \in 0 .. m /\ n - 1 # m
      OBVIOUS
    <3>2. n # 0 => joined[n - 1] = f[n - 1]
      BY <3>1
    <3>3. CASE n = m
      BY <3>2, <3>3
    <3>4. CASE n # m
      <4>1. n \in 0 .. m - 1 /\ joined[n] = f[n]
        BY <3>4
      <4> HIDE DEF joined
      <4> QED
        BY <2>2, <3>2, <4>1
    <3> QED
      BY <3>3, <3>4
  <2>4. DOMAIN joined = 0 .. m /\ joined = [n \in 0 .. m |-> joined[n]]
    OBVIOUS
  <2> HIDE DEF joined
  <2>5. Joins(joined, pieces, m)
    BY <2>3, <2>4 DEF Joins
  <2> QED
    BY <2>5
<1>3. Bad = {}
  <2> SUFFICES ASSUME Bad # {} PROVE FALSE
    OBVIOUS
  <2>1. PICK m \in Bad : \A q \in Bad : m <= q
    <3>1. Bad \in SUBSET Nat
      OBVIOUS
    <3> HIDE DEF Bad
    <3> QED
      BY <3>1, SmallestNumber
  <2>2. m \in 0 .. N /\ ~P(m)
    BY DEF Bad
  <2> HIDE DEF P
  <2>3. m \in 1 .. N /\ m - 1 \in 0 .. N /\ ~(m <= m - 1)
    BY <1>1, <2>2
  <2>4. P(m - 1)
    BY <2>1, <2>3 DEF Bad
  <2> QED
    BY <1>2, <2>2, <2>3, <2>4
<1> HIDE DEF P
<1>4. ASSUME ~P(N) PROVE FALSE
  <2>1. N \in Bad
    BY <1>4
  <2> QED
    BY <1>3, <2>1
<1> QED
  BY <1>4 DEF P

LEMMA ConcatRule ==
    ASSUME NEW pieces, Len(pieces) \in Nat
    PROVE  \E joined : /\ Concat(pieces) = joined[Len(pieces)] /\ joined[0] = <<>>
                       /\ \A n \in 1 .. Len(pieces) : joined[n] = joined[n - 1] \o pieces[n]
<1> DEFINE N == Len(pieces)
           Eq(f) == [n \in 0 .. N |-> IF n = 0 THEN <<>> ELSE f[n - 1] \o pieces[n]]
           J == CHOOSE f : f = Eq(f)
<1>1. Concat(pieces) = J[N]
  BY DEF Concat
<1>2. PICK g : Joins(g, pieces, N)
  <2> HIDE DEF N
  <2>1. N \in Nat
    BY DEF N
  <2> QED
    BY <2>1, JoinsExist
<1>3. g = Eq(g)
  BY <1>2 DEF Joins
<1>4. J = Eq(J)
  <2> HIDE DEF Eq
  <2> QED
    BY <1>3
<1> HIDE DEF J
<1>5. \A n \in 0 .. N : J[n] = IF n = 0 THEN <<>> ELSE J[n - 1] \o pieces[n]
  <2>1. \A n \in 0 .. N : J[n] = Eq(J)[n]
    BY <1>4
  <2> QED
    BY <2>1
<1>6. J[0] = <<>> /\ \A n \in 1 .. N : J[n] = J[n - 1] \o pieces[n]
  <2> HIDE DEF N
  <2>1. N \in Nat
    BY DEF N
  <2>2. 0 \in 0 .. N /\ \A n \in 1 .. N : n \in 0 .. N /\ n # 0
    BY <2>1
  <2> QED
    BY <1>5, <2>2
<1> QED
  BY <1>1, <1>6

\* Induction over the numbers up to N, upwards and downwards, for the set of those at
\* which something holds.
LEMMA Upwards ==
    ASSUME NEW N \in Nat, NEW S,
           \A m \in 0 .. N : (\A k \in 0 .. N : k < m => k \in S) => m \in S
    PROVE  0 .. N \subseteq S
<1> DEFINE Bad == {m \in 0 .. N : m \notin S}
<1>1. ASSUME Bad # {} PROVE FALSE
  <2>1. PICK m \in Bad : \A q \in Bad : m <= q
    <3>1. Bad \in SUBSET Nat
      OBVIOUS
    <3> HIDE DEF Bad
    <3> QED
      BY <1>1, <3>1, SmallestNumber
  <2>2. m \in 0 .. N /\ m \notin S
    OBVIOUS
  <2>3. \A k \in 0 .. N : k < m => k \in S
    BY <2>1, <2>2
  <2> QED
    BY <2>2, <2>3
<1> QED
  BY <1>1

LEMMA Downwards ==
    ASSUME NEW N \in Nat, NEW S,
           \A m \in 0 .. N : (\A k \in 0 .. N : m < k => k \in S) => m \in S
    PROVE  0 .. N \subseteq S
<1> DEFINE T == {m \in 0 .. N : N - m \in S}
<1>1. ASSUME NEW m \in 0 .. N, \A k \in 0 .. N : k < m => k \in T PROVE m \in T
  <2>1. ASSUME NEW k \in 0 .. N, N - m < k PROVE k \in S
    <3>1. N - k \in 0 .. N /\ N - k < m /\ N - (N - k) = k
      BY <2>1
    <3> QED
      BY <1>1, <3>1
  <2>2. N - m \in 0 .. N
    OBVIOUS
  <2> QED
    BY <2>1, <2>2
<1>2. 0 .. N \subseteq T
  <2> HIDE DEF T
  <2> QED
    BY <1>1, Upwards
<1>3. ASSUME NEW m \in 0 .. N PROVE m \in S
  <2>1. N - m \in 0 .. N /\ N - (N - m) = m
    OBVIOUS
  <2> QED
    BY <1>2, <2>1
<1> QED
  BY <1>3

\* A recursion in which the value at d depends on values of lower rank only has a solution:
\* step by step the values of the next rank become right.
Recursive(D, V, N, rank, step) ==
    /\ N \in Nat /\ rank \in [D -> 0 .. N] /\ step \in [[D -> V] -> [D -> V]]
    /\ \A f, g \in [D -> V], d \in D :
          (\A c \in D : rank[c] < rank[d] => f[c] = g[c]) => step[f][d] = step[g][d]

LEMMA Recursion ==
    ASSUME NEW D, NEW V, NEW N, NEW rank, NEW step, Recursive(D, V, N, rank, step), V # {}
    PROVE  \E f \in [D -> V] : f = step[f]
<1>0. /\ N \in Nat /\ rank \in [D -> 0 .. N] /\ step \in [[D -> V] -> [D -> V]]
      /\ \A f, g \in [D -> V], d \in D :
            (\A c \in D : rank[c] < rank[d] => f[c] = g[c]) => step[f][d] = step[g][d]
  BY DEF Recursive
<1> DEFINE Right(f, m) == \A d \in D : rank[d] < m => f[d] = step[f][d]
           S == {m \in 0 .. N + 1 : \E f \in [D -> V] : Right(f, m)}
<1>1. \E f \in [D -> V] : Right(f, 0)
  <2>1. PICK v \in V : TRUE
    OBVIOUS
  <2>2. [d \in D |-> v] \in [D -> V]
    OBVIOUS
  <2>3. \A d \in D : ~(rank[d] < 0)
    BY <1>0
  <2> QED
    BY <2>2, <2>3
<1>2. ASSUME NEW m \in 1 .. N + 1, NEW f \in [D -> V], Right(f, m - 1)
      PROVE  step[f] \in [D -> V] /\ Right(step[f], m)
  <2> DEFINE g == step[f]
  <2>1. g \in [D -> V]
    BY <1>0
  <2> HIDE DEF g
  <2>2. ASSUME NEW d \in D, rank[d] < m PROVE g[d] = step[g][d]
    <3>1. \A c \in D : rank[c] < rank[d] => rank[c] < m - 1
      BY <1>0, <2>2
    <3>2. \A c \in D : rank[c] < rank[d] => f[c] = g[c]
      BY <1>2, <3>1 DEF g
    <3>3. step[f][d] = step[g][d]
      BY <1>0, <2>1, <3>2
    <3> QED
      BY <3>3 DEF g
  <2> QED
    BY <2>1, <2>2 DEF g
<1> HIDE DEF Right
<1>3. ASSUME NEW m \in 0 .. N + 1, \A k \in 0 .. N + 1 : k < m => k \in S PROVE m \in S
  <2>1. CASE m = 0
    BY <1>1, <2>1
  <2>2. CASE m # 0
    <3>1. m \in 1 .. N + 1 /\ m - 1 \in 0 .. N + 1 /\ m - 1 < m
      BY <1>0, <2>2
    <3>2. m - 1 \in S
      BY <1>3, <3>1
    <3> QED
      BY <1>2, <3>1, <3>2
  <2> QED
    BY <2>1, <2>2
<1>4. N + 1 \in Nat /\ N + 1 \in 0 .. N + 1
  BY <1>0
<1>5. 0 .. N + 1 \subseteq S
  <2> HIDE DEF S
  <2> QED
    BY <1>3, <1>4, Upwards
<1>6. PICK f \in [D -> V] : Right(f, N + 1)
  BY <1>4, <1>5
<1>7. \A d \in D : f[d] = step[f][d]
  BY <1>0, <1>6 DEF Right
<1> QED
  BY <1>0, <1>7

\* Pieces of one kind make a sequence of that kind.
LEMMA ConcatTyped ==
    ASSUME NEW T, NEW N \in Nat, NEW pieces \in [1 .. N -> Seq(T)]
    PROVE  Concat(pieces) \in Seq(T) /\ Len(pieces) = N
<1>1. pieces \in Seq(Seq(T)) /\ Len(pieces) = N
  OBVIOUS
<1>2. PICK joined : /\ Concat(pieces) = joined[N] /\ joined[0] = <<>>
                    /\ \A n \in 1 .. N : joined[n] = joined[n - 1] \o pieces[n]
  <2>1. Len(pieces) \in Nat
    BY <1>1
  <2> QED
    BY <1>1, <2>1, ConcatRule
<1> DEFINE S == {n \in 0 .. N : joined[n] \in Seq(T)}
<1>3. ASSUME NEW m \in 0 .. N, \A k \in 0 .. N : k < m => k \in S PROVE m \in S
  <2>1. CASE m = 0
    <3>1. <<>> \in Seq(T)
      OBVIOUS
    <3> QED
      BY <1>2, <2>1, <3>1
  <2>2. CASE m # 0
    <3>1. m \in 1 .. N /\ m - 1 \in 0 .. N /\ m - 1 < m
      BY <2>2
    <3>2. joined[m - 1] \in Seq(T) /\ pieces[m] \in Seq(T)
      BY <1>3, <3>1
    <3>3. joined[m - 1] \o pieces[m] \in Seq(T)
      BY <3>2
    <3>4. joined[m] \in Seq(T)
      BY <1>2, <3>1, <3>3
    <3> QED
      BY <3>4
  <2> QED
    BY <2>1, <2>2
<1>4. 0 .. N \subseteq S
  <2> HIDE DEF S
  <2> QED
    BY <1>3, Upwards
<1> QED
  BY <1>1, <1>2, <1>4

\* Two sequences, one after the other.
LEMMA Concatenation ==
    ASSUME NEW T, NEW s \in Seq(T), NEW t \in Seq(T)
    PROVE  /\ s \o t \in Seq(T) /\ Len(s \o t) = Len(s) + Len(t)
           /\ Len(s) \in Nat /\ Len(t) \in Nat
           /\ \A j \in 1 .. Len(s) : (s \o t)[j] = s[j]
           /\ \A j \in 1 .. Len(t) : (s \o t)[Len(s) + j] = t[j]
OBVIOUS

================================================================================
