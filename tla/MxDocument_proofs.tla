------------------------------ MODULE MxDocument_proofs ------------------------------
(***************************************************************************)
(* Theorems about writing and reading ISO 20022 documents, for every       *)
(* schema, every document and every message.                               *)
(***************************************************************************)
EXTENDS MxDocument, Listing_proofs

(***************************************************************************)
(* Schemas are trees.                                                      *)
(***************************************************************************)
InUse == schema \in DOMAIN Schemas
Top(e) == Shape[e].parent = 0

LEMMA Tree ==
    ASSUME InUse
    PROVE  /\ Len(Shape) \in Nat /\ Elements = 1 .. Len(Shape)
           /\ \A e \in Elements :
                 /\ Shape[e].parent \in Nat /\ Shape[e].parent < e
                 /\ ~Top(e) => Shape[e].parent \in Elements /\ ~Shape[Shape[e].parent].leaf
                 /\ Shape[e].repeats \in BOOLEAN /\ Shape[e].leaf \in BOOLEAN
                 /\ Shape[e].choice => ~Shape[e].leaf
<1> DEFINE Record == [parent : Nat, repeats : BOOLEAN, leaf : BOOLEAN, mandatory : BOOLEAN, choice : BOOLEAN]
<1>1. /\ Shape \in Seq(Record)
      /\ \A e \in DOMAIN Shape : /\ Shape[e].parent < e
                                 /\ Shape[e].parent # 0 => ~Shape[Shape[e].parent].leaf
                                 /\ Shape[e].choice => ~Shape[e].leaf
  BY SchemasAreTrees DEF InUse, Shape
<1> HIDE DEF Record
<1>2. Len(Shape) \in Nat /\ Elements = 1 .. Len(Shape)
  BY <1>1 DEF Elements
<1>3. \A e \in Elements : Shape[e] \in Record
  BY <1>1, <1>2
<1>4. ASSUME NEW e \in Elements
      PROVE  Shape[e].parent \in Nat /\ Shape[e].repeats \in BOOLEAN /\ Shape[e].leaf \in BOOLEAN
  BY <1>3 DEF Record
<1>5. ASSUME NEW e \in Elements, ~Top(e) PROVE Shape[e].parent \in Elements
  BY <1>1, <1>2, <1>4, <1>5 DEF Top
<1> QED
  BY <1>1, <1>2, <1>4, <1>5 DEF Elements, Top

\* What is above an element, and the element.
Above(e) == IF Top(e) THEN {} ELSE Path[Shape[e].parent]

LEMMA PathRule ==
    ASSUME InUse
    PROVE  /\ Path \in [Elements -> SUBSET Elements]
           /\ \A e \in Elements : Path[e] = {e} \cup Above(e)
<1> DEFINE V == SUBSET Elements
           Eq(f) == [e \in Elements |-> {e} \cup (IF Shape[e].parent = 0 THEN {} ELSE f[Shape[e].parent])]
           step == [f \in [Elements -> V] |-> Eq(f)]
           rank == [e \in Elements |-> e]
           N == Len(Shape)
<1>1. Recursive(Elements, V, N, rank, step)
  <2>1. ASSUME NEW f \in [Elements -> V] PROVE Eq(f) \in [Elements -> V]
    BY Tree DEF Top
  <2>2. ASSUME NEW f \in [Elements -> V], NEW g \in [Elements -> V], NEW d \in Elements,
               \A c \in Elements : rank[c] < rank[d] => f[c] = g[c]
        PROVE  Eq(f)[d] = Eq(g)[d]
    <3>1. Shape[d].parent # 0 => f[Shape[d].parent] = g[Shape[d].parent]
      BY <2>2, Tree DEF Top
    <3> QED
      BY <3>1
  <2>3. N \in Nat /\ rank \in [Elements -> 0 .. N]
    BY Tree
  <2> HIDE DEF V, Eq, rank, N
  <2> QED
    BY <2>1, <2>2, <2>3 DEF Recursive
<1>2. PICK g \in [Elements -> V] : g = Eq(g)
  <2>1. PICK g \in [Elements -> V] : g = step[g]
    <3> HIDE DEF V, step, rank, N
    <3>1. V # {}
      BY DEF V
    <3> QED
      BY <1>1, <3>1, Recursion
  <2> QED
    BY <2>1
<1>3. Path = CHOOSE f : f = Eq(f)
  BY DEF Path
<1>4. Path = Eq(Path)
  <2> HIDE DEF Eq
  <2> QED
    BY <1>2, <1>3
<1>5. ASSUME NEW e \in Elements PROVE Path[e] = {e} \cup Above(e)
  <2>1. Path[e] = Eq(Path)[e]
    BY <1>4
  <2> QED
    BY <2>1 DEF Above, Top
<1>6. DOMAIN Path = Elements /\ Path = [e \in Elements |-> Path[e]]
  BY <1>4
<1> DEFINE S == {m \in 0 .. N : m \in Elements => Path[m] \in V}
<1>7. ASSUME NEW m \in 0 .. N, \A k \in 0 .. N : k < m => k \in S PROVE m \in S
  <2>1. ASSUME m \in Elements PROVE Above(m) \subseteq Elements
    BY <1>7, <2>1, Tree DEF Above
  <2> QED
    BY <1>5, <2>1
<1>8. \A e \in Elements : Path[e] \in V
  <2>1. 0 .. N \subseteq S
    <3> HIDE DEF S, N
    <3>1. N \in Nat
      BY Tree DEF N
    <3> QED
      BY <1>7, <3>1, Upwards
  <2> QED
    BY <2>1, Tree
<1> QED
  BY <1>5, <1>6, <1>8

\* An element stands below the elements of its path and nothing else, in their order.
LEMMA PathFacts ==
    ASSUME InUse
    PROVE  /\ \A e \in Elements : e \in Path[e]
           /\ \A e \in Elements : \A a \in Path[e] :
                 /\ a \in Elements /\ a <= e /\ Path[a] \subseteq Path[e]
                 /\ \A b \in Path[e] : a <= b => a \in Path[b]
                 /\ Shape[a].leaf => a = e
                 /\ a # e => \E c \in Path[e] : ~Top(c) /\ Shape[c].parent = a
                 /\ ~Top(a) => Shape[a].parent \in Path[e]
<1> DEFINE N == Len(Shape)
           Good(e) == \A a \in Path[e] :
                 /\ a \in Elements /\ a <= e /\ Path[a] \subseteq Path[e]
                 /\ \A b \in Path[e] : a <= b => a \in Path[b]
                 /\ Shape[a].leaf => a = e
                 /\ a # e => \E c \in Path[e] : ~Top(c) /\ Shape[c].parent = a
                 /\ ~Top(a) => Shape[a].parent \in Path[e]
           S == {m \in 0 .. N : m \in Elements => Good(m)}
<1>1. \A e \in Elements : e \in Path[e] /\ Path[e] = {e} \cup Above(e)
  BY PathRule
<1>2. ASSUME NEW m \in 0 .. N, \A k \in 0 .. N : k < m => k \in S, m \in Elements PROVE Good(m)
  <2>1. CASE Top(m)
    <3>1. Path[m] = {m}
      BY <1>1, <1>2, <2>1 DEF Above
    <3> QED
      BY <1>2, <2>1, <3>1, Tree
  <2>2. CASE ~Top(m)
    <3> DEFINE p == Shape[m].parent
    <3>1. p \in Elements /\ p < m /\ ~Shape[p].leaf /\ Path[m] = {m} \cup Path[p] /\ p \in Path[p]
      BY <1>1, <1>2, <2>2, Tree DEF Above
    <3>2. p \in 0 .. N
      BY <3>1, Tree
    <3>3. Good(p)
      BY <1>2, <3>1, <3>2
    <3> HIDE DEF p
    <3>4. \A a \in Path[p] : a \in Elements /\ a <= p /\ Path[a] \subseteq Path[p] /\ ~Shape[a].leaf
      BY <3>1, <3>3
    <3>5. \A a \in Path[m] : a \in Elements /\ a <= m /\ Path[a] \subseteq Path[m] /\ (Shape[a].leaf => a = m)
      <4>1. \A a \in Path[p] : a \in Nat /\ a <= m
        BY <3>1, <3>4, Tree
      <4> QED
        BY <1>2, <3>1, <3>4, <4>1
    <3>6. ASSUME NEW a \in Path[m], NEW b \in Path[m], a <= b PROVE a \in Path[b]
      <4>1. CASE b = m
        BY <4>1
      <4>2. CASE b # m /\ a = m
        <5>1. b \in Path[p] /\ b <= p /\ b \in Nat /\ p \in Nat
          BY <3>1, <3>4, <4>2, Tree
        <5> QED
          BY <3>1, <3>6, <4>2, <5>1, Tree
      <4>3. CASE b # m /\ a # m
        BY <3>1, <3>3, <3>6, <4>3
      <4> QED
        BY <4>1, <4>2, <4>3
    <3>7. ASSUME NEW a \in Path[m], a # m PROVE \E c \in Path[m] : ~Top(c) /\ Shape[c].parent = a
      <4>1. CASE a = p
        BY <2>2, <3>1, <4>1 DEF p
      <4>2. CASE a # p
        BY <3>1, <3>3, <3>7, <4>2
      <4> QED
        BY <4>1, <4>2
    <3>8. ASSUME NEW a \in Path[m], ~Top(a) PROVE Shape[a].parent \in Path[m]
      <4>1. CASE a = m
        BY <3>1, <4>1 DEF p
      <4>2. CASE a # m
        BY <3>1, <3>3, <3>8, <4>2
      <4> QED
        BY <4>1, <4>2
    <3> QED
      BY <3>5, <3>6, <3>7, <3>8
  <2> QED
    BY <2>1, <2>2
<1>3. \A e \in Elements : Good(e)
  <2>1. 0 .. N \subseteq S
    <3>1. \A m \in 0 .. N : (\A k \in 0 .. N : k < m => k \in S) => m \in S
      BY <1>2
    <3> HIDE DEF S, N
    <3>2. N \in Nat
      BY Tree DEF N
    <3> QED
      BY <3>1, <3>2, Upwards
  <2> QED
    BY <2>1, Tree
<1> QED
  BY <1>1, <1>3

\* How deep an element stands.
Depth(e) == Cardinality(Path[e])

LEMMA DepthRule ==
    ASSUME InUse
    PROVE  /\ \A e \in Elements : IsFiniteSet(Path[e]) /\ Depth(e) \in Nat /\ Depth(e) >= 1
           /\ \A e \in Elements : Depth(e) = IF Top(e) THEN 1 ELSE Depth(Shape[e].parent) + 1
<1>1. ASSUME NEW e \in Elements PROVE IsFiniteSet(Path[e])
  <2>1. IsFiniteSet(Elements)
    BY Tree, FS_Interval
  <2> QED
    BY <2>1, PathRule, FS_Subset
<1>2. ASSUME NEW e \in Elements PROVE Depth(e) \in Nat /\ Depth(e) >= 1
  <2>1. Depth(e) \in Nat /\ Path[e] # {}
    BY <1>1, PathFacts, FS_CardinalityType DEF Depth
  <2>2. Depth(e) # 0
    BY <1>1, <2>1, FS_EmptySet DEF Depth
  <2> QED
    BY <2>1, <2>2
<1>3. ASSUME NEW e \in Elements, Top(e) PROVE Depth(e) = 1
  <2>1. Path[e] = {e}
    BY <1>3, PathRule DEF Above
  <2> QED
    BY <2>1, FS_Singleton DEF Depth
<1>4. ASSUME NEW e \in Elements, ~Top(e) PROVE Depth(e) = Depth(Shape[e].parent) + 1
  <2> DEFINE p == Shape[e].parent
  <2>1. p \in Elements /\ Path[e] = Path[p] \cup {e}
    BY <1>4, PathRule, Tree DEF Above
  <2>2. e \notin Path[p]
    <3>1. p < e /\ p \in Nat /\ e \in Nat
      BY Tree
    <3> HIDE DEF p
    <3> QED
      BY <2>1, <3>1, PathFacts
  <2>3. IsFiniteSet(Path[p])
    BY <1>1, <2>1
  <2> HIDE DEF p
  <2>4. Cardinality(Path[p] \cup {e}) = Cardinality(Path[p]) + 1
    BY <2>2, <2>3, FS_AddElement
  <2> QED
    BY <2>1, <2>4 DEF Depth, p
<1> QED
  BY <1>1, <1>2, <1>3, <1>4

\* What repeats around an element repeats around what it stands below and, when it does not
\* repeat, around its parent already.
LEMMA RepeatingRule ==
    ASSUME InUse
    PROVE  /\ \A e \in Elements : \A a \in Path[e] : Repeating(a) \subseteq Repeating(e)
           /\ \A e \in Elements :
                 /\ IsFiniteSet(Repeating(e)) /\ Repeating(e) \subseteq Elements
                 /\ Shape[e].repeats <=> e \in Repeating(e)
                 /\ ~Shape[e].repeats => Repeating(e) = IF Top(e) THEN {} ELSE Repeating(Shape[e].parent)
<1>1. ASSUME NEW e \in Elements, NEW a \in Path[e] PROVE Repeating(a) \subseteq Repeating(e)
  BY PathFacts DEF Repeating
<1>2. ASSUME NEW e \in Elements PROVE IsFiniteSet(Repeating(e)) /\ Repeating(e) \subseteq Elements
  <2>1. Repeating(e) \subseteq Path[e] /\ IsFiniteSet(Path[e]) /\ Path[e] \subseteq Elements
    BY DepthRule, PathRule DEF Repeating
  <2> QED
    BY <2>1, FS_Subset
<1>3. ASSUME NEW e \in Elements PROVE Shape[e].repeats <=> e \in Repeating(e)
  BY PathFacts DEF Repeating
<1>4. ASSUME NEW e \in Elements, ~Shape[e].repeats
      PROVE  Repeating(e) = IF Top(e) THEN {} ELSE Repeating(Shape[e].parent)
  <2>1. Path[e] = {e} \cup Above(e)
    BY PathRule
  <2> QED
    BY <1>4, <2>1 DEF Repeating, Above
<1> QED
  BY <1>1, <1>2, <1>3, <1>4

\* Of an element that is addressable, at most one element above it repeats.
LEMMA AddressableRule ==
    ASSUME InUse
    PROVE  /\ \A e \in Elements : \A a \in Path[e] : Addressable(e) => Addressable(a)
           /\ \A e \in Elements, q, r \in Elements :
                 Addressable(e) /\ q \in Repeating(e) /\ r \in Repeating(e) => q = r
           /\ \A e \in Elements : \A a \in Path[e] :
                 Addressable(e) /\ Shape[e].repeats /\ a # e => Repeating(a) = {}
           /\ \A e \in Elements : \A a \in Path[e] :
                 Addressable(e) /\ Repeating(a) # {} => Repeating(e) = Repeating(a)
<1>1. ASSUME NEW e \in Elements, NEW a \in Path[e], Addressable(e) PROVE Addressable(a)
  <2>1. Repeating(a) \subseteq Repeating(e) /\ IsFiniteSet(Repeating(e))
    BY RepeatingRule
  <2>2. /\ Cardinality(Repeating(a)) <= Cardinality(Repeating(e))
        /\ Cardinality(Repeating(a)) \in Nat /\ Cardinality(Repeating(e)) \in Nat
    BY <2>1, FS_Subset, FS_CardinalityType
  <2> QED
    BY <1>1, <2>2 DEF Addressable
<1>2. ASSUME NEW e \in Elements, NEW q, NEW r, Addressable(e), q \in Repeating(e), r \in Repeating(e), q # r
      PROVE  FALSE
  <2>1. {q, r} \subseteq Repeating(e) /\ IsFiniteSet(Repeating(e))
    BY <1>2, RepeatingRule
  <2>2. Cardinality({q, r}) <= Cardinality(Repeating(e)) /\ Cardinality(Repeating(e)) \in Nat
    BY <2>1, FS_Subset, FS_CardinalityType
  <2>3. Cardinality({q, r}) = 2
    <3>1. IsFiniteSet({q}) /\ Cardinality({q}) = 1 /\ r \notin {q} /\ {q, r} = {q} \cup {r}
      BY <1>2, FS_Singleton
    <3>2. Cardinality({q} \cup {r}) = Cardinality({q}) + 1
      BY <3>1, FS_AddElement
    <3> QED
      BY <3>1, <3>2
  <2> QED
    BY <1>2, <2>2, <2>3 DEF Addressable
<1>3. ASSUME NEW e \in Elements, NEW a \in Path[e], Addressable(e), Shape[e].repeats, a # e
      PROVE  Repeating(a) = {}
  <2>1. a \in Elements /\ a <= e /\ a \in Nat /\ e \in Nat
    BY PathFacts, Tree
  <2>2. ASSUME NEW r \in Repeating(a) PROVE r = e
    BY <1>2, <1>3, RepeatingRule
  <2>3. e \notin Repeating(a)
    <3>1. \A r \in Path[a] : r \in Nat /\ r <= a
      BY <2>1, PathFacts, Tree
    <3> QED
      BY <1>3, <2>1, <3>1 DEF Repeating
  <2> QED
    BY <2>2, <2>3
<1>4. ASSUME NEW e \in Elements, NEW a \in Path[e], Addressable(e), Repeating(a) # {}
      PROVE  Repeating(e) = Repeating(a)
  <2>1. Repeating(a) \subseteq Repeating(e)
    BY RepeatingRule
  <2>2. PICK r : r \in Repeating(a)
    BY <1>4
  <2>3. \A q \in Repeating(e) : q = r
    BY <1>2, <1>4, <2>1, <2>2
  <2> QED
    BY <2>1, <2>2, <2>3
<1> QED
  BY <1>1, <1>2, <1>3, <1>4

--------------------------------------------------------------------------------
(***************************************************************************)
(* The node that encloses another is the last one before it that is less   *)
(* deep.                                                                   *)
(***************************************************************************)
DepthsOf(nodes) ==
    /\ Len(nodes) \in Nat /\ DOMAIN nodes = 1 .. Len(nodes)
    /\ \A n \in DOMAIN nodes : nodes[n].depth \in Nat
Encloses(nodes, i, n) ==
    /\ i = 0 \/ nodes[i].depth < nodes[n].depth
    /\ \A k \in i + 1 .. n - 1 : nodes[k].depth >= nodes[n].depth

LEMMA EnclosingIs ==
    ASSUME NEW nodes, DepthsOf(nodes), NEW n \in DOMAIN nodes
    PROVE  /\ Enclosing(nodes, n) \in 0 .. n - 1 /\ Encloses(nodes, Enclosing(nodes, n), n)
           /\ \A i \in 0 .. n - 1 : Encloses(nodes, i, n) => i = Enclosing(nodes, n)
<1> DEFINE above == {m \in 1 .. n - 1 : nodes[m].depth < nodes[n].depth}
           D(k) == nodes[k].depth
<1>1. n \in Nat /\ n # 0 /\ \A k \in 1 .. n : D(k) \in Nat
  BY DEF DepthsOf
<1>2. ASSUME above # {} PROVE \E m \in above : \A k \in above : k <= m
  <2> DEFINE S == {n - m : m \in above}
  <2>1. S \in SUBSET Nat /\ S # {}
    BY <1>1, <1>2
  <2>2. PICK s \in S : \A q \in S : s <= q
    <3> HIDE DEF S
    <3> QED
      BY <2>1, SmallestNumber
  <2>3. PICK m \in above : s = n - m
    OBVIOUS
  <2>4. ASSUME NEW k \in above PROVE k <= m
    <3>1. n - k \in S
      OBVIOUS
    <3>2. n - m <= n - k
      BY <2>2, <2>3, <3>1
    <3> QED
      BY <1>1, <3>2
  <2> QED
    BY <2>4
<1>3. CASE above = {}
  <2>1. Enclosing(nodes, n) = 0
    BY <1>3 DEF Enclosing
  <2>2. \A k \in 1 .. n - 1 : D(k) >= D(n)
    <3>1. \A k \in 1 .. n - 1 : ~(D(k) < D(n)) /\ D(k) \in Nat /\ D(n) \in Nat
      BY <1>1, <1>3
    <3> HIDE DEF D
    <3> QED
      BY <3>1
  <2>3. ASSUME NEW i \in 0 .. n - 1, Encloses(nodes, i, n) PROVE i = 0
    BY <1>1, <1>3, <2>3 DEF Encloses
  <2> QED
    BY <1>1, <2>1, <2>2, <2>3 DEF Encloses
<1>4. CASE above # {}
  <2> DEFINE m == Enclosing(nodes, n)
  <2>1. m \in above /\ \A k \in above : k <= m
    BY <1>2, <1>4 DEF Enclosing
  <2> HIDE DEF m
  <2>2. m \in 1 .. n - 1 /\ D(m) < D(n)
    BY <2>1
  <2>3. ASSUME NEW k \in m + 1 .. n - 1 PROVE D(k) >= D(n)
    <3>1. k \in 1 .. n - 1 /\ ~(k <= m)
      BY <1>1, <2>2
    <3>2. ~(D(k) < D(n)) /\ D(k) \in Nat /\ D(n) \in Nat
      BY <1>1, <2>1, <3>1
    <3> HIDE DEF D
    <3> QED
      BY <3>2
  <2>4. ASSUME NEW i \in 0 .. n - 1, Encloses(nodes, i, n) PROVE i = m
    <3>1. CASE i < m
      <4>1. m \in i + 1 .. n - 1
        BY <2>2, <3>1
      <4>2. D(m) >= D(n) /\ D(m) \in Nat /\ D(n) \in Nat
        BY <1>1, <2>2, <2>4, <4>1 DEF Encloses
      <4> HIDE DEF D
      <4> QED
        BY <2>2, <4>2
    <3>2. CASE i > m
      <4>1. i \in 1 .. n - 1 /\ ~(i <= m) /\ i # 0
        BY <2>2, <3>2
      <4>2. D(i) < D(n)
        BY <2>4, <4>1 DEF Encloses
      <4> QED
        BY <2>1, <4>1, <4>2
    <3> QED
      BY <1>1, <2>2, <3>1, <3>2
  <2> QED
    BY <2>2, <2>3, <2>4 DEF Encloses, m
<1> QED
  BY <1>3, <1>4

\* Nodes that come later do not matter to it.
LEMMA EnclosingBefore ==
    ASSUME NEW s, NEW t, DepthsOf(s), DepthsOf(t), NEW n \in DOMAIN s, n \in DOMAIN t,
           \A k \in 1 .. n : s[k].depth = t[k].depth
    PROVE  Enclosing(s, n) = Enclosing(t, n)
<1>1. Enclosing(s, n) \in 0 .. n - 1 /\ Encloses(s, Enclosing(s, n), n)
  BY EnclosingIs
<1>2. n \in Nat /\ n # 0
  BY DEF DepthsOf
<1>3. Encloses(t, Enclosing(s, n), n)
  BY <1>1, <1>2 DEF Encloses
<1> QED
  BY <1>1, <1>3, EnclosingIs

--------------------------------------------------------------------------------
(***************************************************************************)
(* What is visited, and in which order.                                    *)
(***************************************************************************)
Message(values) ==
    /\ IsFiniteSet(values)
    /\ values \subseteq [element : Elements, occ : Nat \ {0}, value : Nat \ {0}]
    /\ \A v \in values : Shape[v.element].leaf
    /\ \A v, w \in values : v.element = w.element /\ v.occ = w.occ => v = w

LEMMA OrderIsLinear ==
    ASSUME NEW S, NEW key \in [S -> Nat \X Nat], IsFiniteSet(S), \A p, q \in S : key[p] = key[q] => p = q
    PROVE  Linear(S, [q \in S |-> {p \in S : NotAfter(key[p], key[q])}])
<1> DEFINE UpTo == [q \in S |-> {p \in S : NotAfter(key[p], key[q])}]
           Le(p, q) == NotAfter(key[p], key[q])
<1>1. \A p \in S : key[p] = <<key[p][1], key[p][2]>> /\ key[p][1] \in Nat /\ key[p][2] \in Nat
  OBVIOUS
<1>2. /\ \A p \in S : Le(p, p)
      /\ \A p, q \in S : p = q \/ (Le(p, q) /\ ~Le(q, p)) \/ (Le(q, p) /\ ~Le(p, q))
      /\ \A p, q, r \in S : Le(p, q) /\ Le(q, r) => Le(p, r)
  <2>1. \A p, q \in S : p = q \/ key[p][1] # key[q][1] \/ key[p][2] # key[q][2]
    BY <1>1
  <2> QED
    BY <1>1, <2>1 DEF NotAfter
<1> HIDE DEF Le
<1>3. UpTo \in [S -> SUBSET S] /\ \A q \in S : UpTo[q] = {p \in S : Le(p, q)}
  BY DEF Le
<1> HIDE DEF UpTo
<1>4. Linear(S, UpTo)
  BY <1>2, <1>3 DEF Linear
<1> QED
  BY <1>4 DEF UpTo

LEMMA OccsOf ==
    ASSUME NEW values, Message(values)
    PROVE  IsFiniteSet(Occs(values)) /\ Occs(values) \subseteq Nat \ {0} /\ 1 \in Occs(values)
<1>1. IsFiniteSet({v.occ : v \in values}) /\ IsFiniteSet({1})
  <2>1. IsFiniteSet(values)
    BY DEF Message
  <2>2. IsFiniteSet({v.occ : v \in values})
    <3> DEFINE f == [v \in values |-> v.occ]
               R == {v.occ : v \in values}
    <3>1. f \in Surjection(values, R)
      BY DEF Surjection
    <3> HIDE DEF f, R
    <3>2. IsFiniteSet(R)
      BY <2>1, <3>1, FS_Surjection
    <3> QED
      BY <3>2 DEF R
  <2> QED
    BY <2>2, FS_Singleton
<1>2. IsFiniteSet({1} \cup {v.occ : v \in values})
  BY <1>1, FS_Union
<1>3. \A v \in values : v.occ \in Nat \ {0}
  BY DEF Message
<1> QED
  BY <1>2, <1>3 DEF Occs

Pairs(values) == Elements \X Occs(values)
Before(p, q) == p[1] < q[1] \/ (p[1] = q[1] /\ p[2] < q[2])

VisitsUpTo(values, e, occ) ==
    LET visits == Visits(values, e, occ) IN [q \in visits |-> {p \in visits : NotAfter(p, q)}]

LEMMA VisitsListed ==
    ASSUME InUse, NEW values, Message(values), NEW e, NEW occ
    PROVE  /\ Visits(values, e, occ) \subseteq Pairs(values)
           /\ Linear(Visits(values, e, occ), VisitsUpTo(values, e, occ))
           /\ VisitsInOrder(values, e, occ) = InOrder(Visits(values, e, occ), VisitsUpTo(values, e, occ))
           /\ Enumerates(VisitsInOrder(values, e, occ), Visits(values, e, occ))
           /\ \A m, n \in DOMAIN VisitsInOrder(values, e, occ) :
                 m < n => Before(VisitsInOrder(values, e, occ)[m], VisitsInOrder(values, e, occ)[n])
<1> DEFINE S == Visits(values, e, occ)
           key == [p \in S |-> p]
           UpTo == [q \in S |-> {p \in S : NotAfter(p, q)}]
           seq == VisitsInOrder(values, e, occ)
           C == Cardinality(S)
<1>1. S \subseteq Pairs(values)
  BY DEF Visits, ChildElements, Pairs
<1>2. IsFiniteSet(S) /\ \A p \in S : p \in Nat \X Nat
  <2>1. Elements \subseteq Nat /\ IsFiniteSet(Elements)
    BY Tree, FS_Interval
  <2>2. Occs(values) \subseteq Nat /\ IsFiniteSet(Occs(values))
    BY OccsOf
  <2>3. IsFiniteSet(Pairs(values))
    BY <2>1, <2>2, FS_Product DEF Pairs
  <2>4. Pairs(values) \subseteq Nat \X Nat
    BY <2>1, <2>2 DEF Pairs
  <2> HIDE DEF S
  <2> QED
    BY <1>1, <2>3, <2>4, FS_Subset
<1>3. seq = InOrder(S, UpTo)
  BY DEF VisitsInOrder
<1> HIDE DEF S
<1>4. Linear(S, UpTo)
  <2>1. key \in [S -> Nat \X Nat] /\ \A p, q \in S : key[p] = key[q] => p = q
    BY <1>2
  <2>2. [q \in S |-> {p \in S : NotAfter(key[p], key[q])}] = UpTo
    OBVIOUS
  <2> HIDE DEF key, UpTo
  <2>3. Linear(S, [q \in S |-> {p \in S : NotAfter(key[p], key[q])}])
    BY <1>2, <2>1, OrderIsLinear
  <2> QED
    BY <2>2, <2>3
<1>5. \A q \in S : UpTo[q] = {p \in S : NotAfter(p, q)}
  OBVIOUS
<1> HIDE DEF UpTo, seq
<1>6. /\ Enumerates(seq, S)
      /\ \A m, n \in 1 .. C : m < n => seq[n] \notin UpTo[seq[m]]
  BY <1>3, <1>4, InOrderLists
<1>7. seq \in [1 .. C -> S]
  BY <1>6 DEF Enumerates
<1>8. ASSUME NEW m \in 1 .. C, NEW n \in 1 .. C, m < n PROVE Before(seq[m], seq[n])
  <2>1. seq[m] \in S /\ seq[n] \in S
    BY <1>7
  <2>2. ~NotAfter(seq[n], seq[m])
    BY <1>5, <1>6, <1>8, <2>1
  <2>3. \A p \in S : p[1] \in Nat /\ p[2] \in Nat
    BY <1>2
  <2> QED
    BY <2>1, <2>2, <2>3 DEF NotAfter, Before
<1> QED
  <2>1. VisitsUpTo(values, e, occ) = UpTo
    BY DEF VisitsUpTo, UpTo, S
  <2> QED
    BY <1>1, <1>3, <1>4, <1>6, <1>7, <1>8, <2>1 DEF S, seq

--------------------------------------------------------------------------------
(***************************************************************************)
(* The recursion of Document: the node of a pair of element and            *)
(* occurrence, and below it what it visits.                                *)
(***************************************************************************)
ValueOf(values, p) == IF Shape[p[1]].leaf THEN ValueAt(values, p[1], p[2]) ELSE 0
NodeOf(values, p) == Node(p[1], ValueOf(values, p))
Nodes(values) == {NodeOf(values, p) : p \in Pairs(values)}
WriteBelow(write, values, e, occ) ==
    LET visits == VisitsInOrder(values, e, occ) IN Concat([k \in DOMAIN visits |-> write[visits[k]]])
Writes(write, values) ==
    /\ write \in [Pairs(values) -> Seq(Nodes(values))]
    /\ \A p \in Pairs(values) :
          write[p] = <<NodeOf(values, p)>>
                        \o (IF Shape[p[1]].leaf THEN <<>> ELSE WriteBelow(write, values, p[1], p[2]))

LEMMA VisitsAreBelow ==
    ASSUME InUse, NEW values, Message(values), NEW e, NEW occ
    PROVE  /\ Cardinality(Visits(values, e, occ)) \in Nat
           /\ DOMAIN VisitsInOrder(values, e, occ) = 1 .. Cardinality(Visits(values, e, occ))
           /\ \A k \in DOMAIN VisitsInOrder(values, e, occ) :
                 /\ VisitsInOrder(values, e, occ)[k] \in Visits(values, e, occ)
                 /\ VisitsInOrder(values, e, occ)[k] \in Pairs(values)
           /\ \A p \in Visits(values, e, occ) : /\ p \in Pairs(values)
                                                /\ Shape[p[1]].parent = e /\ e < p[1]
<1>1. /\ Visits(values, e, occ) \subseteq Pairs(values)
      /\ Enumerates(VisitsInOrder(values, e, occ), Visits(values, e, occ))
  BY VisitsListed
<1>2. \A p \in Visits(values, e, occ) : Shape[p[1]].parent = e /\ e < p[1]
  <2>1. \A p \in Visits(values, e, occ) : p[1] \in Elements /\ Shape[p[1]].parent = e
    BY DEF Visits, ChildElements
  <2> QED
    BY <2>1, Tree
<1> QED
  BY <1>1, <1>2 DEF Enumerates

LEMMA WriteBelowTyped ==
    ASSUME InUse, NEW values, Message(values), NEW e, NEW occ, NEW T, NEW f,
           \A p \in Visits(values, e, occ) : f[p] \in Seq(T)
    PROVE  WriteBelow(f, values, e, occ) \in Seq(T)
<1> DEFINE visits == VisitsInOrder(values, e, occ)
           C == Cardinality(Visits(values, e, occ))
           pieces == [k \in DOMAIN visits |-> f[visits[k]]]
<1>1. C \in Nat /\ DOMAIN visits = 1 .. C /\ \A k \in 1 .. C : visits[k] \in Visits(values, e, occ)
  BY VisitsAreBelow
<1>2. WriteBelow(f, values, e, occ) = Concat(pieces)
  BY DEF WriteBelow
<1>3. pieces \in [1 .. C -> Seq(T)]
  <2> HIDE DEF visits, C
  <2> QED
    BY <1>1
<1> HIDE DEF pieces, C
<1> QED
  BY <1>1, <1>2, <1>3, ConcatTyped

LEMMA WriteBelowDepends ==
    ASSUME InUse, NEW values, Message(values), NEW e, NEW occ, NEW f, NEW g,
           \A p \in Visits(values, e, occ) : f[p] = g[p]
    PROVE  WriteBelow(f, values, e, occ) = WriteBelow(g, values, e, occ)
<1> DEFINE visits == VisitsInOrder(values, e, occ)
<1>1. \A k \in DOMAIN visits : visits[k] \in Visits(values, e, occ)
  BY VisitsAreBelow
<1> HIDE DEF visits
<1>2. [k \in DOMAIN visits |-> f[visits[k]]] = [k \in DOMAIN visits |-> g[visits[k]]]
  BY <1>1
<1> QED
  BY <1>2 DEF WriteBelow, visits

LEMMA DocumentIsWritten ==
    ASSUME InUse, NEW values, Message(values)
    PROVE  \E write : Writes(write, values) /\ Document(values) = WriteBelow(write, values, 0, 1)
<1> DEFINE D == Pairs(values)
           V == Seq(Nodes(values))
           N == Len(Shape)
           Eq(f) == [p \in Elements \X Occs(values) |->
                        IF Shape[p[1]].leaf THEN <<Node(p[1], ValueAt(values, p[1], p[2]))>>
                        ELSE LET visits == VisitsInOrder(values, p[1], p[2])
                             IN  <<Node(p[1], 0)>> \o Concat([k \in DOMAIN visits |-> f[visits[k]]])]
           rank == [p \in D |-> N - p[1]]
           step == [f \in [D -> V] |-> Eq(f)]
           Write == CHOOSE f : f = Eq(f)
           At(f, p) == IF Shape[p[1]].leaf THEN <<NodeOf(values, p)>>
                       ELSE <<NodeOf(values, p)>> \o WriteBelow(f, values, p[1], p[2])
<1>0. N \in Nat /\ \A p \in D : p[1] \in 1 .. N /\ p[1] \in Elements
  BY Tree DEF Pairs
<1>1. ASSUME NEW f PROVE DOMAIN Eq(f) = D /\ Eq(f) = [p \in D |-> Eq(f)[p]]
                         /\ \A p \in D : Eq(f)[p] = At(f, p)
  BY DEF Pairs, WriteBelow, NodeOf, ValueOf
<1> HIDE DEF Eq
<1>2. ASSUME NEW f, NEW p \in D, \A q \in D : p[1] < q[1] => f[q] \in V
      PROVE  At(f, p) \in V
  <2>1. <<NodeOf(values, p)>> \in V
    BY DEF Nodes
  <2>2. WriteBelow(f, values, p[1], p[2]) \in V
    <3>1. \A q \in Visits(values, p[1], p[2]) : f[q] \in Seq(Nodes(values))
      BY <1>2, VisitsAreBelow
    <3> QED
      BY <3>1, WriteBelowTyped
  <2> QED
    BY <2>1, <2>2
<1>3. ASSUME NEW f, NEW g, NEW p \in D, \A q \in D : p[1] < q[1] => f[q] = g[q]
      PROVE  At(f, p) = At(g, p)
  <2>1. \A q \in Visits(values, p[1], p[2]) : f[q] = g[q]
    BY <1>3, VisitsAreBelow
  <2>2. WriteBelow(f, values, p[1], p[2]) = WriteBelow(g, values, p[1], p[2])
    BY <2>1, WriteBelowDepends
  <2> QED
    BY <2>2
<1> HIDE DEF At, V, D, N
<1>4. Recursive(D, V, N, rank, step)
  <2>1. N \in Nat /\ rank \in [D -> 0 .. N]
    BY <1>0
  <2>2. step \in [[D -> V] -> [D -> V]]
    <3>1. ASSUME NEW f \in [D -> V] PROVE Eq(f) \in [D -> V]
      <4>1. \A p \in D : Eq(f)[p] \in V
        BY <1>1, <1>2
      <4> QED
        BY <1>1, <4>1
    <3> QED
      BY <3>1
  <2>3. ASSUME NEW f \in [D -> V], NEW g \in [D -> V], NEW d \in D,
               \A c \in D : rank[c] < rank[d] => f[c] = g[c]
        PROVE  step[f][d] = step[g][d]
    <3>1. \A c \in D : d[1] < c[1] => rank[c] < rank[d]
      BY <1>0
    <3>2. At(f, d) = At(g, d)
      BY <1>3, <2>3, <3>1
    <3> QED
      BY <1>1, <3>2
  <2> HIDE DEF rank, step
  <2> QED
    BY <2>1, <2>2, <2>3 DEF Recursive
<1>5. PICK g : g = Eq(g)
  <2>1. V # {}
    <3>1. <<>> \in Seq(Nodes(values))
      OBVIOUS
    <3> QED
      BY <3>1 DEF V
  <2>2. PICK g \in [D -> V] : g = step[g]
    <3> HIDE DEF rank, step
    <3> QED
      BY <1>4, <2>1, Recursion
  <2> QED
    BY <2>2
<1>6. Write = Eq(Write)
  BY <1>5
<1>7. Document(values) = WriteBelow(Write, values, 0, 1)
  BY DEF Document, WriteBelow, Eq
<1> HIDE DEF Write
<1>8. \A p \in D : Write[p] = At(Write, p)
  BY <1>1, <1>6
<1> DEFINE S == {m \in 0 .. N : \A p \in D : p[1] = m => Write[p] \in V}
<1>9. ASSUME NEW m \in 0 .. N, \A k \in 0 .. N : m < k => k \in S PROVE m \in S
  <2>1. ASSUME NEW p \in D, p[1] = m PROVE Write[p] \in V
    <3>1. \A q \in D : p[1] < q[1] => Write[q] \in V
      BY <1>0, <1>9, <2>1
    <3> QED
      BY <1>2, <1>8, <3>1
  <2> QED
    BY <2>1
<1>10. \A p \in D : Write[p] \in V
  <2>1. 0 .. N \subseteq S
    <3> HIDE DEF S
    <3> QED
      BY <1>0, <1>9, Downwards
  <2> QED
    BY <1>0, <2>1
<1>11. Write \in [D -> V]
  BY <1>1, <1>6, <1>10
<1>12. ASSUME NEW p \in D
       PROVE  Write[p] = <<NodeOf(values, p)>>
                  \o (IF Shape[p[1]].leaf THEN <<>> ELSE WriteBelow(Write, values, p[1], p[2]))
  <2>1. <<NodeOf(values, p)>> \in V
    BY DEF Nodes, D, V
  <2>2. <<NodeOf(values, p)>> \o <<>> = <<NodeOf(values, p)>>
    BY <2>1 DEF V
  <2> QED
    BY <1>8, <2>2 DEF At
<1> QED
  BY <1>7, <1>11, <1>12 DEF Writes, D, V

--------------------------------------------------------------------------------
(***************************************************************************)
(* What is written spells the visits: there are labels, pairs of element   *)
(* and occurrence, such that inside every node stand exactly the pairs     *)
(* that its own pair visits, in their order.                               *)
(***************************************************************************)
Spells(values, t, L) ==
    /\ t \in Seq(Nodes(values)) /\ L \in Seq(Pairs(values)) /\ Len(t) = Len(L)
    /\ \A j \in 1 .. Len(t) : t[j] = NodeOf(values, L[j])
\* what stands inside node n, W being what stands outside of every node
Expected(values, L, n, W) == IF n = 0 THEN W ELSE Visits(values, L[n][1], L[n][2])
Forest(values, t, L, W, d) ==
    /\ Spells(values, t, L)
    /\ W \subseteq Pairs(values) /\ d \in Nat /\ \A p \in W : Depth(p[1]) = d
    /\ \A j \in 1 .. Len(t) : Depth(L[j][1]) >= d
    /\ \A j \in 1 .. Len(t) : L[j] \in Expected(values, L, Enclosing(t, j), W)
    /\ \A i, j \in 1 .. Len(t) : i < j /\ Enclosing(t, i) = Enclosing(t, j) => Before(L[i], L[j])
    /\ \A n \in 0 .. Len(t) : \A p \in Expected(values, L, n, W) :
          \E j \in 1 .. Len(t) : Enclosing(t, j) = n /\ L[j] = p

LEMMA SpelledNodes ==
    ASSUME InUse, NEW values, NEW t, NEW L, Spells(values, t, L)
    PROVE  /\ DepthsOf(t) /\ Len(t) \in Nat /\ DOMAIN t = 1 .. Len(t) /\ DOMAIN L = 1 .. Len(t)
           /\ \A j \in 1 .. Len(t) : /\ L[j] \in Pairs(values) /\ L[j][1] \in Elements
                                     /\ t[j].element = L[j][1] /\ t[j].value = ValueOf(values, L[j])
                                     /\ t[j].depth = Depth(L[j][1]) /\ t[j].depth \in Nat
<1>1. Len(t) \in Nat /\ DOMAIN t = 1 .. Len(t) /\ DOMAIN L = 1 .. Len(t)
  BY DEF Spells
<1>2. \A j \in 1 .. Len(t) : L[j] \in Pairs(values) /\ t[j] = NodeOf(values, L[j])
  BY <1>1 DEF Spells
<1>3. \A p \in Pairs(values) : /\ p[1] \in Elements /\ Depth(p[1]) \in Nat
                               /\ NodeOf(values, p).element = p[1] /\ NodeOf(values, p).depth = Depth(p[1])
                               /\ NodeOf(values, p).value = ValueOf(values, p)
  BY DepthRule DEF Pairs, NodeOf, Node, Depth
<1> QED
  BY <1>1, <1>2, <1>3 DEF DepthsOf

LEMMA NoForest ==
    ASSUME NEW values, NEW d \in Nat PROVE Forest(values, <<>>, <<>>, {}, d)
<1>1. <<>> \in Seq(Nodes(values)) /\ <<>> \in Seq(Pairs(values)) /\ Len(<<>>) = 0
  OBVIOUS
<1> QED
  BY <1>1 DEF Forest, Spells, Expected

LEMMA ForestsTogether ==
    ASSUME InUse, NEW values, NEW d, NEW s, NEW K, NEW U, Forest(values, s, K, U, d),
           NEW t, NEW L, NEW W, Forest(values, t, L, W, d),
           \A u \in U, w \in W : Before(u, w)
    PROVE  Forest(values, s \o t, K \o L, U \cup W, d)
<1> DEFINE r == s \o t
           R == K \o L
           a == Len(s)
           b == Len(t)
<1>1. Spells(values, s, K) /\ Spells(values, t, L)
  BY DEF Forest
<1>2. a \in Nat /\ b \in Nat /\ DepthsOf(s) /\ DepthsOf(t)
  BY <1>1, SpelledNodes
<1>3. /\ r \in Seq(Nodes(values)) /\ R \in Seq(Pairs(values)) /\ Len(r) = a + b /\ Len(R) = a + b
      /\ \A j \in 1 .. a : r[j] = s[j] /\ R[j] = K[j]
      /\ \A j \in 1 .. b : r[a + j] = t[j] /\ R[a + j] = L[j]
  <2>1. /\ s \in Seq(Nodes(values)) /\ t \in Seq(Nodes(values))
        /\ K \in Seq(Pairs(values)) /\ L \in Seq(Pairs(values)) /\ Len(K) = a /\ Len(L) = b
    BY <1>1 DEF Spells
  <2>2. /\ r \in Seq(Nodes(values)) /\ Len(r) = a + b
        /\ \A j \in 1 .. a : r[j] = s[j]
        /\ \A j \in 1 .. b : r[a + j] = t[j]
    BY <2>1, Concatenation
  <2>3. /\ R \in Seq(Pairs(values)) /\ Len(R) = a + b
        /\ \A j \in 1 .. a : R[j] = K[j]
        /\ \A j \in 1 .. b : R[a + j] = L[j]
    <3>0. K \in Seq(Pairs(values)) /\ L \in Seq(Pairs(values))
      BY <2>1
    <3>1. /\ R \in Seq(Pairs(values)) /\ Len(R) = Len(K) + Len(L)
          /\ \A j \in 1 .. Len(K) : R[j] = K[j]
          /\ \A j \in 1 .. Len(L) : R[Len(K) + j] = L[j]
      BY <3>0, Concatenation
    <3> HIDE DEF a, b, R
    <3> QED
      BY <2>1, <3>1
  <2> QED
    BY <2>2, <2>3
<1> HIDE DEF r, R
<1>4. \A n \in 1 .. a + b : n \in 1 .. a \/ \E m \in 1 .. b : n = a + m
  <2>1. ASSUME NEW n \in 1 .. a + b, n \notin 1 .. a PROVE \E m \in 1 .. b : n = a + m
    <3>1. n - a \in 1 .. b /\ n = a + (n - a)
      BY <1>2, <2>1
    <3> QED
      BY <3>1
  <2> QED
    BY <2>1
<1>5. \A j \in 1 .. a : s[j] = NodeOf(values, K[j])
  BY <1>1 DEF Spells
<1>6. \A j \in 1 .. b : t[j] = NodeOf(values, L[j])
  BY <1>1 DEF Spells
<1>7. Spells(values, r, R)
  <2>1. \A n \in 1 .. a + b : r[n] = NodeOf(values, R[n])
    BY <1>3, <1>4, <1>5, <1>6
  <2> QED
    BY <1>3, <2>1 DEF Spells
<1>8. DepthsOf(r) /\ DOMAIN r = 1 .. a + b
  BY <1>3, <1>7, SpelledNodes
<1>9. ASSUME NEW j \in 1 .. a PROVE Enclosing(r, j) = Enclosing(s, j) /\ Enclosing(s, j) \in 0 .. j - 1
  <2>1. j \in DOMAIN s /\ j \in DOMAIN r
    BY <1>2, <1>8 DEF DepthsOf
  <2>2. \A k \in 1 .. j : r[k].depth = s[k].depth
    BY <1>2, <1>3
  <2> QED
    BY <1>2, <1>8, <2>1, <2>2, EnclosingBefore, EnclosingIs
<1>10. ASSUME NEW j \in 1 .. b
       PROVE  /\ Enclosing(t, j) \in 0 .. j - 1
              /\ Enclosing(r, a + j) = IF Enclosing(t, j) = 0 THEN 0 ELSE a + Enclosing(t, j)
  <2> DEFINE i == Enclosing(t, j)
  <2>1. j \in DOMAIN t /\ a + j \in DOMAIN r
    BY <1>2, <1>8 DEF DepthsOf
  <2>2. i \in 0 .. j - 1 /\ Encloses(t, i, j)
    BY <1>2, <2>1, EnclosingIs
  <2>3. r[a + j] = t[j]
    BY <1>3
  <2>4. CASE i = 0
    <3>1. L[j] \in W
      BY <2>4 DEF Forest, Expected
    <3>2. t[j].depth = d
      BY <1>1, <3>1, SpelledNodes DEF Forest
    <3>3. ASSUME NEW k \in 1 .. a + j - 1 PROVE r[k].depth >= d
      <4>0. k \in 1 .. Len(r)
        BY <1>2, <1>3
      <4>1. R[k] \in Pairs(values) /\ r[k].depth = Depth(R[k][1])
        BY <1>7, <4>0, SpelledNodes
      <4>2. CASE k \in 1 .. a
        <5>1. Depth(K[k][1]) >= d
          BY <4>2 DEF Forest
        <5> QED
          BY <1>3, <4>1, <4>2, <5>1
      <4>3. CASE k \notin 1 .. a
        <5>1. k \in 1 .. a + b
          BY <1>2
        <5>2. PICK m \in 1 .. b : k = a + m
          BY <1>4, <4>3, <5>1
        <5>3. Depth(L[m][1]) >= d
          BY DEF Forest
        <5> QED
          BY <1>3, <4>1, <5>2, <5>3
      <4> QED
        BY <4>2, <4>3
    <3>4. Encloses(r, 0, a + j)
      BY <2>3, <3>2, <3>3 DEF Encloses
    <3>5. 0 \in 0 .. a + j - 1
      BY <1>2
    <3>6. Enclosing(r, a + j) = 0
      BY <1>8, <2>1, <3>4, <3>5, EnclosingIs
    <3> QED
      BY <2>2, <2>4, <3>6
  <2>5. CASE i # 0
    <3> HIDE DEF i
    <3>1. i \in 1 .. b /\ t[i].depth < t[j].depth /\ \A k \in i + 1 .. j - 1 : t[k].depth >= t[j].depth
      BY <2>2, <2>5 DEF Encloses
    <3>2. r[a + i] = t[i]
      BY <1>3, <3>1
    <3>3. ASSUME NEW k \in a + i + 1 .. a + j - 1 PROVE r[k].depth >= r[a + j].depth
      <4>1. k - a \in i + 1 .. j - 1 /\ k - a \in 1 .. b /\ k = a + (k - a)
        BY <1>2, <3>1
      <4>2. r[k] = t[k - a]
        BY <1>3, <4>1
      <4> QED
        BY <2>3, <3>1, <4>1, <4>2
    <3>4. Encloses(r, a + i, a + j)
      BY <2>3, <3>1, <3>2, <3>3 DEF Encloses
    <3>5. a + i \in 0 .. a + j - 1
      BY <1>2, <2>2
    <3>6. Enclosing(r, a + j) = a + i
      <4>1. PICK n, k : n = a + j /\ k = a + i
        OBVIOUS
      <4>2. DepthsOf(r) /\ n \in DOMAIN r /\ k \in 0 .. n - 1 /\ Encloses(r, k, n)
        BY <1>8, <2>1, <3>4, <3>5, <4>1
      <4>3. k = Enclosing(r, n)
        BY <4>2, EnclosingIs
      <4> QED
        BY <4>1, <4>3
    <3>7. i \in 0 .. j - 1
      BY <2>2
    <3> QED
      BY <2>5, <3>6, <3>7 DEF i
  <2> QED
    BY <2>4, <2>5
<1>11. ASSUME NEW n \in 1 .. a + b PROVE R[n] \in Expected(values, R, Enclosing(r, n), U \cup W)
  <2>1. CASE n \in 1 .. a
    <3>1. K[n] \in Expected(values, K, Enclosing(s, n), U)
      BY <2>1 DEF Forest
    <3>2. R[n] = K[n] /\ Enclosing(r, n) = Enclosing(s, n)
          /\ (Enclosing(s, n) # 0 => R[Enclosing(s, n)] = K[Enclosing(s, n)])
      <4>1. Enclosing(s, n) # 0 => Enclosing(s, n) \in 1 .. a
        BY <1>2, <1>9, <2>1
      <4> QED
        BY <1>3, <1>9, <2>1, <4>1
    <3> QED
      BY <3>1, <3>2 DEF Expected
  <2>2. ASSUME NEW m \in 1 .. b, n = a + m PROVE R[n] \in Expected(values, R, Enclosing(r, n), U \cup W)
    <3>1. L[m] \in Expected(values, L, Enclosing(t, m), W)
      BY DEF Forest
    <3>2. Enclosing(t, m) # 0 => /\ Enclosing(t, m) \in 1 .. b /\ a + Enclosing(t, m) # 0
                                 /\ R[a + Enclosing(t, m)] = L[Enclosing(t, m)]
      BY <1>2, <1>3, <1>10
    <3> QED
      BY <1>3, <1>10, <2>2, <3>1, <3>2 DEF Expected
  <2> QED
    BY <1>4, <2>1, <2>2
<1>12. ASSUME NEW i \in 1 .. a + b, NEW j \in 1 .. a + b, i < j, Enclosing(r, i) = Enclosing(r, j)
       PROVE  Before(R[i], R[j])
  <2>1. CASE j \in 1 .. a
    <3>1. i \in 1 .. a
      BY <1>2, <1>12, <2>1
    <3>2. Before(K[i], K[j])
      BY <1>9, <1>12, <2>1, <3>1 DEF Forest
    <3> QED
      BY <1>3, <2>1, <3>1, <3>2
  <2>2. ASSUME NEW m \in 1 .. b, j = a + m, i \in 1 .. a PROVE Before(R[i], R[j])
    <3>1. Enclosing(r, i) \in 0 .. a - 1
      BY <1>2, <1>9, <2>2
    <3>2. Enclosing(t, m) = 0
      BY <1>2, <1>10, <1>12, <2>2, <3>1
    <3>3. Enclosing(s, i) = 0
      BY <1>9, <1>10, <1>12, <2>2, <3>2
    <3>4. K[i] \in U /\ L[m] \in W
      BY <2>2, <3>2, <3>3 DEF Forest, Expected
    <3> QED
      BY <1>3, <2>2, <3>4
  <2>3. ASSUME NEW m \in 1 .. b, j = a + m, NEW k \in 1 .. b, i = a + k PROVE Before(R[i], R[j])
    <3>0. \A x, y \in Nat : (IF x = 0 THEN 0 ELSE a + x) = (IF y = 0 THEN 0 ELSE a + y) => x = y
      BY <1>2
    <3>1. k < m /\ Enclosing(t, k) = Enclosing(t, m)
      <4>1. k < m
        BY <1>2, <1>12, <2>3
      <4>2. Enclosing(t, k) \in Nat /\ Enclosing(t, m) \in Nat
        BY <1>10
      <4>3. Enclosing(r, a + k) = Enclosing(r, a + m)
        BY <1>12, <2>3
      <4>4. (IF Enclosing(t, k) = 0 THEN 0 ELSE a + Enclosing(t, k))
              = IF Enclosing(t, m) = 0 THEN 0 ELSE a + Enclosing(t, m)
        BY <1>10, <4>3
      <4> QED
        BY <3>0, <4>1, <4>2, <4>4
    <3>2. Before(L[k], L[m])
      BY <3>1 DEF Forest
    <3> QED
      BY <1>3, <2>3, <3>2
  <2> QED
    BY <1>4, <2>1, <2>2, <2>3
<1>13. ASSUME NEW n \in 0 .. a + b, NEW p \in Expected(values, R, n, U \cup W)
       PROVE  \E j \in 1 .. a + b : Enclosing(r, j) = n /\ R[j] = p
  <2>0. \A j \in 1 .. a : j \in 1 .. a + b
    BY <1>2
  <2>00. \A m \in 1 .. b : a + m \in 1 .. a + b
    BY <1>2
  <2>1. ASSUME NEW k \in 0 .. a, p \in Expected(values, K, k, U), n = k
        PROVE  \E j \in 1 .. a + b : Enclosing(r, j) = n /\ R[j] = p
    <3>1. PICK j \in 1 .. a : Enclosing(s, j) = k /\ K[j] = p
      BY <2>1 DEF Forest
    <3> QED
      BY <1>3, <1>9, <2>0, <2>1, <3>1
  <2>2. ASSUME NEW k \in 0 .. b, p \in Expected(values, L, k, W), n = IF k = 0 THEN 0 ELSE a + k
        PROVE  \E j \in 1 .. a + b : Enclosing(r, j) = n /\ R[j] = p
    <3>1. PICK j \in 1 .. b : Enclosing(t, j) = k /\ L[j] = p
      BY <2>2 DEF Forest
    <3> QED
      BY <1>3, <1>10, <2>00, <2>2, <3>1
  <2>3. CASE n = 0
    <3>1. 0 \in 0 .. a /\ 0 \in 0 .. b
      BY <1>2
    <3>2. p \in U \/ p \in W
      BY <2>3 DEF Expected
    <3>3. p \in Expected(values, K, 0, U) \/ p \in Expected(values, L, 0, W)
      BY <3>2 DEF Expected
    <3> QED
      BY <2>1, <2>2, <2>3, <3>1, <3>3
  <2>4. CASE n \in 1 .. a
    <3>1. p \in Expected(values, K, n, U) /\ n \in 0 .. a
      BY <1>2, <1>3, <2>4 DEF Expected
    <3> QED
      BY <2>1, <3>1
  <2>5. ASSUME NEW m \in 1 .. b, n = a + m PROVE \E j \in 1 .. a + b : Enclosing(r, j) = n /\ R[j] = p
    <3>1. p \in Expected(values, L, m, W) /\ m \in 0 .. b /\ m # 0
      BY <1>2, <1>3, <2>5 DEF Expected
    <3> QED
      BY <2>2, <2>5, <3>1
  <2>6. n = 0 \/ n \in 1 .. a + b
    BY <1>2
  <2> QED
    BY <1>4, <2>3, <2>4, <2>5, <2>6
<1>14. ASSUME NEW n \in 1 .. a + b PROVE Depth(R[n][1]) >= d
  <2>1. \A j \in 1 .. a : Depth(K[j][1]) >= d
    BY DEF Forest
  <2>2. \A j \in 1 .. b : Depth(L[j][1]) >= d
    BY DEF Forest
  <2>3. CASE n \in 1 .. a
    <3>1. R[n] = K[n]
      BY <1>3, <2>3
    <3> QED
      BY <2>1, <2>3, <3>1
  <2>4. ASSUME NEW m \in 1 .. b, n = a + m PROVE Depth(R[n][1]) >= d
    <3>1. R[n] = L[m]
      BY <1>3, <2>4
    <3> QED
      BY <2>2, <3>1
  <2> QED
    BY <1>4, <2>3, <2>4
<1>15. U \cup W \subseteq Pairs(values) /\ d \in Nat /\ \A p \in U \cup W : Depth(p[1]) = d
  BY DEF Forest
<1> HIDE DEF a, b
<1>16. Forest(values, r, R, U \cup W, d)
  <2>1. Len(r) = a + b
    BY <1>3
  <2>2. \A j \in 1 .. Len(r) : Depth(R[j][1]) >= d
    BY <1>14, <2>1
  <2>3. \A j \in 1 .. Len(r) : R[j] \in Expected(values, R, Enclosing(r, j), U \cup W)
    BY <1>11, <2>1
  <2>4. \A i, j \in 1 .. Len(r) : i < j /\ Enclosing(r, i) = Enclosing(r, j) => Before(R[i], R[j])
    BY <1>12, <2>1
  <2>5. \A n \in 0 .. Len(r) : \A p \in Expected(values, R, n, U \cup W) :
          \E j \in 1 .. Len(r) : Enclosing(r, j) = n /\ R[j] = p
    BY <1>13, <2>1
  <2> QED
    BY <1>7, <1>15, <2>2, <2>3, <2>4, <2>5 DEF Forest
<1> QED
  BY <1>16 DEF r, R

LEMMA ForestOfRoot ==
    ASSUME InUse, NEW values, NEW p \in Pairs(values), NEW t, NEW L,
           Forest(values, t, L, Visits(values, p[1], p[2]), Depth(p[1]) + 1)
    PROVE  Forest(values, <<NodeOf(values, p)>> \o t, <<p>> \o L, {p}, Depth(p[1]))
<1> DEFINE W == Visits(values, p[1], p[2])
           d == Depth(p[1])
           r == <<NodeOf(values, p)>> \o t
           R == <<p>> \o L
           b == Len(t)
<1>1. /\ Spells(values, t, L) /\ t \in Seq(Nodes(values)) /\ L \in Seq(Pairs(values)) /\ Len(L) = b
      /\ \A j \in 1 .. b : t[j] = NodeOf(values, L[j])
  BY DEF Forest, Spells
<1>2. b \in Nat /\ DepthsOf(t) /\ DOMAIN t = 1 .. b
  BY <1>1, SpelledNodes
<1>3. /\ r \in Seq(Nodes(values)) /\ R \in Seq(Pairs(values)) /\ Len(r) = 1 + b /\ Len(R) = 1 + b
      /\ r[1] = NodeOf(values, p) /\ R[1] = p
      /\ \A j \in 1 .. b : r[1 + j] = t[j] /\ R[1 + j] = L[j]
  <2>1. <<NodeOf(values, p)>> \in Seq(Nodes(values)) /\ Len(<<NodeOf(values, p)>>) = 1
    BY DEF Nodes
  <2>2. <<p>> \in Seq(Pairs(values)) /\ Len(<<p>>) = 1
    OBVIOUS
  <2>3. /\ r \in Seq(Nodes(values)) /\ Len(r) = 1 + b
        /\ \A j \in 1 .. 1 : r[j] = <<NodeOf(values, p)>>[j]
        /\ \A j \in 1 .. b : r[1 + j] = t[j]
    BY <1>1, <2>1, Concatenation
  <2>4. /\ R \in Seq(Pairs(values)) /\ Len(R) = 1 + Len(L)
        /\ \A j \in 1 .. 1 : R[j] = <<p>>[j]
        /\ \A j \in 1 .. Len(L) : R[1 + j] = L[j]
    BY <1>1, <2>2, Concatenation
  <2> QED
    BY <1>1, <2>3, <2>4
<1> HIDE DEF r, R
<1>4. \A n \in 1 .. 1 + b : n = 1 \/ \E m \in 1 .. b : n = 1 + m
  <2>1. ASSUME NEW n \in 1 .. 1 + b, n # 1 PROVE \E m \in 1 .. b : n = 1 + m
    <3>1. n - 1 \in 1 .. b /\ n = 1 + (n - 1)
      BY <1>2, <2>1
    <3> QED
      BY <3>1
  <2> QED
    BY <2>1
<1>5. Spells(values, r, R)
  <2>1. \A n \in 1 .. 1 + b : r[n] = NodeOf(values, R[n])
    BY <1>1, <1>3, <1>4
  <2> QED
    BY <1>3, <2>1 DEF Spells
<1>6. DepthsOf(r) /\ DOMAIN r = 1 .. 1 + b /\ d \in Nat /\ r[1].depth = d /\ 1 \in 1 .. 1 + b
  <2>1. 1 \in 1 .. 1 + b
    BY <1>2
  <2> QED
    BY <1>3, <1>5, <2>1, SpelledNodes
<1>7. Enclosing(r, 1) = 0
  BY <1>6, EnclosingIs
<1>8. ASSUME NEW j \in 1 .. b
      PROVE  /\ Enclosing(t, j) \in 0 .. j - 1 /\ Enclosing(r, 1 + j) = 1 + Enclosing(t, j)
  <2> DEFINE i == Enclosing(t, j)
  <2>1. j \in DOMAIN t /\ 1 + j \in DOMAIN r
    BY <1>2, <1>6
  <2>2. i \in 0 .. j - 1 /\ Encloses(t, i, j)
    BY <1>2, <2>1, EnclosingIs
  <2> HIDE DEF i
  <2>3. r[1 + j] = t[j] /\ t[j].depth \in Nat /\ t[j].depth >= d + 1
    <3>1. t[j].depth = Depth(L[j][1]) /\ t[j].depth \in Nat
      BY <1>1, SpelledNodes
    <3>2. Depth(L[j][1]) >= d + 1
      BY DEF Forest
    <3> QED
      BY <1>3, <3>1, <3>2
  <2>4. r[1 + i].depth < r[1 + j].depth
    <3>1. CASE i = 0
      BY <1>6, <2>3, <3>1
    <3>2. CASE i # 0
      <4>1. i \in 1 .. b /\ t[i].depth < t[j].depth
        BY <2>2, <3>2 DEF Encloses
      <4>2. r[1 + i] = t[i]
        BY <1>3, <4>1
      <4> QED
        BY <2>3, <4>1, <4>2
    <3> QED
      BY <3>1, <3>2
  <2>5. ASSUME NEW k \in (1 + i) + 1 .. (1 + j) - 1 PROVE r[k].depth >= r[1 + j].depth
    <3>1. k - 1 \in i + 1 .. j - 1 /\ k - 1 \in 1 .. b /\ k = 1 + (k - 1)
      BY <1>2, <2>2
    <3>2. r[k] = t[k - 1] /\ t[k - 1].depth >= t[j].depth
      BY <1>3, <2>2, <3>1 DEF Encloses
    <3> QED
      BY <2>3, <3>2
  <2>6. Encloses(r, 1 + i, 1 + j) /\ 1 + i \in 0 .. (1 + j) - 1
    BY <2>2, <2>4, <2>5 DEF Encloses
  <2> QED
    BY <1>6, <2>1, <2>2, <2>6, EnclosingIs DEF i
<1>9. \A m \in 0 .. b : Expected(values, L, m, W) = Expected(values, R, 1 + m, {p})
  <2>1. ASSUME NEW m \in 0 .. b PROVE Expected(values, L, m, W) = Expected(values, R, 1 + m, {p})
    <3>1. 1 + m # 0
      OBVIOUS
    <3>2. CASE m = 0
      BY <1>3, <3>1, <3>2 DEF Expected
    <3>3. CASE m # 0
      <4>1. m \in 1 .. b
        BY <3>3
      <4> QED
        BY <1>3, <3>1, <3>3, <4>1 DEF Expected
    <3> QED
      BY <3>2, <3>3
  <2> QED
    BY <2>1
<1>10. ASSUME NEW n \in 1 .. 1 + b PROVE R[n] \in Expected(values, R, Enclosing(r, n), {p})
  <2>1. CASE n = 1
    BY <1>3, <1>7, <2>1 DEF Expected
  <2>2. ASSUME NEW m \in 1 .. b, n = 1 + m PROVE R[n] \in Expected(values, R, Enclosing(r, n), {p})
    <3>1. L[m] \in Expected(values, L, Enclosing(t, m), W)
      BY DEF Forest
    <3>2. Enclosing(t, m) \in 0 .. b
      BY <1>2, <1>8
    <3> QED
      BY <1>3, <1>8, <1>9, <2>2, <3>1, <3>2
  <2> QED
    BY <1>4, <2>1, <2>2
<1>11. ASSUME NEW i \in 1 .. 1 + b, NEW j \in 1 .. 1 + b, i < j, Enclosing(r, i) = Enclosing(r, j)
       PROVE  Before(R[i], R[j])
  <2>1. j # 1
    BY <1>11
  <2>2. PICK m \in 1 .. b : j = 1 + m
    BY <1>4, <2>1
  <2>3. i # 1
    BY <1>7, <1>8, <1>11, <2>2
  <2>4. PICK k \in 1 .. b : i = 1 + k
    BY <1>4, <2>3
  <2>5. k < m /\ Enclosing(t, k) = Enclosing(t, m)
    <3>1. Enclosing(t, k) \in Nat /\ Enclosing(t, m) \in Nat
      BY <1>8
    <3>2. 1 + Enclosing(t, k) = 1 + Enclosing(t, m)
      BY <1>8, <1>11, <2>2, <2>4
    <3> QED
      BY <1>11, <2>2, <2>4, <3>1, <3>2
  <2>6. Before(L[k], L[m])
    BY <2>5 DEF Forest
  <2> QED
    BY <1>3, <2>2, <2>4, <2>6
<1>12. ASSUME NEW n \in 0 .. 1 + b, NEW q \in Expected(values, R, n, {p})
       PROVE  \E j \in 1 .. 1 + b : Enclosing(r, j) = n /\ R[j] = q
  <2>1. CASE n = 0
    <3>1. q = p
      BY <2>1 DEF Expected
    <3> QED
      BY <1>3, <1>6, <1>7, <2>1, <3>1
  <2>2. CASE n # 0
    <3>1. n - 1 \in 0 .. b /\ n = 1 + (n - 1)
      BY <1>2, <2>2
    <3>2. q \in Expected(values, L, n - 1, W)
      BY <1>9, <3>1
    <3>3. PICK j \in 1 .. b : Enclosing(t, j) = n - 1 /\ L[j] = q
      BY <3>1, <3>2 DEF Forest
    <3>4. 1 + j \in 1 .. 1 + b
      BY <1>2
    <3> QED
      BY <1>3, <1>8, <3>1, <3>3, <3>4
  <2> QED
    BY <2>1, <2>2
<1>13. ASSUME NEW n \in 1 .. 1 + b PROVE Depth(R[n][1]) >= d
  <2>1. CASE n = 1
    BY <1>3, <1>6, <2>1
  <2>2. ASSUME NEW m \in 1 .. b, n = 1 + m PROVE Depth(R[n][1]) >= d
    <3>1. Depth(L[m][1]) >= d + 1 /\ Depth(L[m][1]) \in Nat
      <4>1. L[m][1] \in Elements
        BY <1>1, SpelledNodes
      <4> QED
        BY <4>1, DepthRule DEF Forest
    <3> QED
      BY <1>3, <1>6, <2>2, <3>1
  <2> QED
    BY <1>4, <2>1, <2>2
<1>14. {p} \subseteq Pairs(values) /\ d \in Nat /\ \A q \in {p} : Depth(q[1]) = d
  BY <1>6
<1> HIDE DEF b, d
<1>15. Forest(values, r, R, {p}, d)
  <2>1. Len(r) = 1 + b
    BY <1>3
  <2>2. \A j \in 1 .. Len(r) : Depth(R[j][1]) >= d
    BY <1>13, <2>1
  <2>3. \A j \in 1 .. Len(r) : R[j] \in Expected(values, R, Enclosing(r, j), {p})
    BY <1>10, <2>1
  <2>4. \A i, j \in 1 .. Len(r) : i < j /\ Enclosing(r, i) = Enclosing(r, j) => Before(R[i], R[j])
    BY <1>11, <2>1
  <2>5. \A n \in 0 .. Len(r) : \A q \in Expected(values, R, n, {p}) :
          \E j \in 1 .. Len(r) : Enclosing(r, j) = n /\ R[j] = q
    BY <1>12, <2>1
  <2> QED
    BY <1>5, <1>14, <2>2, <2>3, <2>4, <2>5 DEF Forest
<1> QED
  BY <1>15 DEF r, R, d

\* When the visits of a pair are forests of their own, together they are one.
LEMMA BelowSpells ==
    ASSUME InUse, NEW values, Message(values), NEW write, NEW e, NEW occ, NEW d \in Nat,
           \A p \in Visits(values, e, occ) : \E L : Forest(values, write[p], L, {p}, d)
    PROVE  \E L : Forest(values, WriteBelow(write, values, e, occ), L, Visits(values, e, occ), d)
<1> DEFINE visits == VisitsInOrder(values, e, occ)
           C == Cardinality(Visits(values, e, occ))
           pieces == [k \in DOMAIN visits |-> write[visits[k]]]
           W(n) == {visits[k] : k \in 1 .. n}
<1>1. C \in Nat /\ DOMAIN visits = 1 .. C /\ \A k \in 1 .. C : visits[k] \in Visits(values, e, occ)
  BY VisitsAreBelow
<1>2. \A m, n \in 1 .. C : m < n => Before(visits[m], visits[n])
  BY <1>1, VisitsListed
<1>3. WriteBelow(write, values, e, occ) = Concat(pieces)
  BY DEF WriteBelow
<1>4. W(C) = Visits(values, e, occ)
  <2>1. Enumerates(visits, Visits(values, e, occ))
    BY VisitsListed
  <2> HIDE DEF visits
  <2> QED
    BY <1>1, <2>1 DEF Enumerates
<1> HIDE DEF visits, C
<1>5. \A k \in 1 .. C : pieces[k] = write[visits[k]] /\ pieces[k] \in Seq(Nodes(values))
  <2>1. ASSUME NEW k \in 1 .. C PROVE write[visits[k]] \in Seq(Nodes(values))
    <3>1. PICK L : Forest(values, write[visits[k]], L, {visits[k]}, d)
      BY <1>1
    <3> QED
      BY <3>1 DEF Forest, Spells
  <2> QED
    BY <1>1, <2>1
<1>6. pieces \in [1 .. C -> Seq(Nodes(values))]
  BY <1>1, <1>5
<1>7. Len(pieces) = C
  <2> HIDE DEF pieces
  <2> QED
    BY <1>1, <1>6, ConcatTyped
<1>8. PICK joined : /\ Concat(pieces) = joined[C] /\ joined[0] = <<>>
                    /\ \A n \in 1 .. C : joined[n] = joined[n - 1] \o pieces[n]
  <2> HIDE DEF pieces
  <2> QED
    BY <1>1, <1>7, ConcatRule
<1> HIDE DEF pieces, W
<1> DEFINE S == {n \in 0 .. C : \E L : Forest(values, joined[n], L, W(n), d)}
<1>9. ASSUME NEW m \in 0 .. C, \A k \in 0 .. C : k < m => k \in S PROVE m \in S
  <2>1. CASE m = 0
    <3>1. W(0) = {}
      BY DEF W
    <3>2. Forest(values, joined[0], <<>>, W(0), d)
      BY <1>8, <3>1, NoForest
    <3> QED
      BY <2>1, <3>2
  <2>2. CASE m # 0
    <3>1. m \in 1 .. C /\ m - 1 \in 0 .. C /\ m - 1 < m /\ m \in Nat
      BY <1>1, <2>2
    <3>2. PICK K : Forest(values, joined[m - 1], K, W(m - 1), d)
      BY <1>9, <3>1
    <3>3. PICK L : Forest(values, pieces[m], L, {visits[m]}, d)
      BY <1>1, <1>5, <3>1
    <3>4. \A u \in W(m - 1), w \in {visits[m]} : Before(u, w)
      <4>1. \A k \in 1 .. m - 1 : k \in 1 .. C /\ k < m
        BY <1>1, <3>1
      <4> QED
        BY <1>2, <3>1, <4>1 DEF W
    <3>5. W(m) = W(m - 1) \cup {visits[m]}
      <4>1. 1 .. m = (1 .. m - 1) \cup {m}
        BY <3>1
      <4> QED
        BY <4>1 DEF W
    <3>6. Forest(values, joined[m - 1] \o pieces[m], K \o L, W(m - 1) \cup {visits[m]}, d)
      BY <3>2, <3>3, <3>4, ForestsTogether
    <3> QED
      BY <1>8, <3>1, <3>5, <3>6
  <2> QED
    BY <2>1, <2>2
<1>10. 0 .. C \subseteq S
  <2> HIDE DEF S
  <2> QED
    BY <1>1, <1>9, Upwards
<1>11. C \in S
  BY <1>1, <1>10
<1> QED
  BY <1>3, <1>4, <1>8, <1>11

LEMMA WriteSpells ==
    ASSUME InUse, NEW values, Message(values), NEW write, Writes(write, values)
    PROVE  \A p \in Pairs(values) : \E L : Forest(values, write[p], L, {p}, Depth(p[1]))
<1> DEFINE N == Len(Shape)
           Good(p) == \E L : Forest(values, write[p], L, {p}, Depth(p[1]))
           S == {m \in 0 .. N : \A p \in Pairs(values) : p[1] = m => Good(p)}
<1>0. N \in Nat /\ \A p \in Pairs(values) : p[1] \in 0 .. N /\ p[1] \in Elements /\ Depth(p[1]) \in Nat
  BY Tree, DepthRule DEF Pairs
<1>1. ASSUME NEW p \in Pairs(values), \A q \in Pairs(values) : p[1] < q[1] => Good(q) PROVE Good(p)
  <2> DEFINE W == Visits(values, p[1], p[2])
             below == IF Shape[p[1]].leaf THEN <<>> ELSE WriteBelow(write, values, p[1], p[2])
  <2>1. write[p] = <<NodeOf(values, p)>> \o below
    BY DEF Writes
  <2>2. \A q \in W : q \in Pairs(values) /\ Shape[q[1]].parent = p[1] /\ p[1] < q[1]
    BY VisitsAreBelow
  <2>3. \A q \in W : Depth(q[1]) = Depth(p[1]) + 1 /\ ~Shape[p[1]].leaf
    <3>1. \A q \in W : q[1] \in Elements /\ p[1] \in Elements /\ p[1] # 0
      BY <1>0, <2>2, Tree
    <3> HIDE DEF W
    <3> QED
      BY <2>2, <3>1, Tree, DepthRule DEF Top
  <2>4. \E L : Forest(values, below, L, W, Depth(p[1]) + 1)
    <3>1. CASE Shape[p[1]].leaf
      <4>1. W = {}
        BY <2>3, <3>1
      <4>2. Depth(p[1]) + 1 \in Nat
        BY <1>0
      <4>3. Forest(values, <<>>, <<>>, {}, Depth(p[1]) + 1)
        BY <4>2, NoForest
      <4> QED
        BY <3>1, <4>1, <4>3
    <3>2. CASE ~Shape[p[1]].leaf
      <4>1. \A q \in W : \E L : Forest(values, write[q], L, {q}, Depth(p[1]) + 1)
        BY <1>1, <2>2, <2>3
      <4>2. Depth(p[1]) + 1 \in Nat
        BY <1>0
      <4>3. \E L : Forest(values, WriteBelow(write, values, p[1], p[2]), L, W, Depth(p[1]) + 1)
        BY <4>1, <4>2, BelowSpells
      <4> QED
        BY <3>2, <4>3
    <3> QED
      BY <3>1, <3>2
  <2>5. PICK L : Forest(values, below, L, W, Depth(p[1]) + 1)
    BY <2>4
  <2> HIDE DEF below
  <2>6. Forest(values, <<NodeOf(values, p)>> \o below, <<p>> \o L, {p}, Depth(p[1]))
    BY <2>5, ForestOfRoot
  <2> QED
    BY <2>1, <2>6
<1> HIDE DEF Good, N
<1>2. ASSUME NEW m \in 0 .. N, \A k \in 0 .. N : m < k => k \in S PROVE m \in S
  <2>1. ASSUME NEW p \in Pairs(values), p[1] = m PROVE Good(p)
    <3>1. \A q \in Pairs(values) : p[1] < q[1] => Good(q)
      BY <1>0, <1>2, <2>1
    <3> QED
      BY <1>1, <3>1
  <2> QED
    BY <2>1
<1>3. 0 .. N \subseteq S
  <2> HIDE DEF S
  <2> QED
    BY <1>0, <1>2, Downwards
<1> QED
  BY <1>0, <1>3 DEF Good

\* Document writes the visits of the message root.
LEMMA DocumentSpells ==
    ASSUME InUse, NEW values, Message(values)
    PROVE  \E L : Forest(values, Document(values), L, Visits(values, 0, 1), 1)
<1>1. PICK write : Writes(write, values) /\ Document(values) = WriteBelow(write, values, 0, 1)
  BY DocumentIsWritten
<1>2. \A p \in Visits(values, 0, 1) : p \in Pairs(values) /\ Depth(p[1]) = 1
  <2>1. \A p \in Visits(values, 0, 1) : p \in Pairs(values) /\ Shape[p[1]].parent = 0
    BY VisitsAreBelow
  <2> QED
    BY <2>1, DepthRule DEF Top, Pairs
<1>3. \A p \in Visits(values, 0, 1) : \E L : Forest(values, write[p], L, {p}, 1)
  BY <1>1, <1>2, WriteSpells
<1> QED
  BY <1>1, <1>3, BelowSpells

--------------------------------------------------------------------------------
(***************************************************************************)
(* Every value is written, when the elements around no repeating one have  *)
(* a value of the occurrence 1 in which they are visited.                  *)
(***************************************************************************)
Written(values, t, L) == Forest(values, t, L, Visits(values, 0, 1), 1)
Grounded(values) ==
    /\ \A v \in values : Repeating(v.element) = {} => v.occ = 1
    /\ \A a \in Elements : Repeating(a) = {} /\ Within(values, a) # {} => Has(values, a, 1)

LEMMA ValueFound ==
    ASSUME InUse, NEW values, Message(values), NEW v \in values
    PROVE  /\ v.element \in Elements /\ v.occ \in Nat \ {0} /\ v.value \in Nat \ {0}
           /\ Shape[v.element].leaf /\ v.occ \in Occs(values)
           /\ v = [element |-> v.element, occ |-> v.occ, value |-> v.value]
           /\ <<v.element, v.occ>> \in Pairs(values)
           /\ ValueOf(values, <<v.element, v.occ>>) = v.value
<1>1. /\ v.element \in Elements /\ v.occ \in Nat \ {0} /\ v.value \in Nat \ {0} /\ Shape[v.element].leaf
      /\ v = [element |-> v.element, occ |-> v.occ, value |-> v.value]
  BY DEF Message
<1>2. v.occ \in Occs(values)
  BY DEF Occs
<1>3. ValueAt(values, v.element, v.occ) = v.value
  <2>1. \A w \in values : w.element = v.element /\ w.occ = v.occ => w = v
    BY DEF Message
  <2> QED
    BY <2>1 DEF ValueAt
<1> QED
  BY <1>1, <1>2, <1>3 DEF Pairs, ValueOf

\* The pair that a visit of e inside a given occurrence goes to.
LEMMA VisitsOf ==
    ASSUME InUse, NEW values, Message(values), NEW e \in Elements, NEW v \in values, e \in Path[v.element],
           NEW occ, NEW inherited, Has(values, e, occ), occ \in Occs(values),
           occ = IF Shape[e].repeats THEN v.occ ELSE inherited
    PROVE  <<e, occ>> \in Visits(values, Shape[e].parent, inherited)
<1>1. e \in ChildElements(Shape[e].parent)
  BY DEF ChildElements
<1>2. v \in Within(values, e)
  BY DEF Within
<1>3. occ \in Visited(values, e, inherited)
  BY <1>2 DEF Visited
<1> QED
  BY <1>1, <1>3 DEF Visits

AllReached(values, t, L) == \A v \in values : \E j \in 1 .. Len(t) : L[j] = <<v.element, v.occ>>

LEMMA ValuesAreReached ==
    ASSUME InUse, NEW values, Message(values), Grounded(values), NEW t, NEW L, Written(values, t, L)
    PROVE  AllReached(values, t, L)
<1> SUFFICES ASSUME NEW v \in values PROVE \E j \in 1 .. Len(t) : L[j] = <<v.element, v.occ>>
  BY DEF AllReached
<1> DEFINE N == Len(Shape)
           Occ(a) == IF Repeating(a) = {} THEN 1 ELSE v.occ
           Reached(a) == \E j \in 1 .. Len(t) : L[j] = <<a, Occ(a)>>
           S == {m \in 0 .. N : m \in Path[v.element] => Reached(m)}
<1>0. /\ N \in Nat /\ v.element \in Elements /\ v.element \in Path[v.element] /\ v.occ \in Occs(values)
      /\ 1 \in Occs(values)
  BY Tree, ValueFound, PathFacts, OccsOf
<1>1. ASSUME NEW a \in Path[v.element], ~Top(a) => Reached(Shape[a].parent) PROVE Reached(a)
  <2>0. a \in Elements
    BY <1>0, PathFacts
  <2>1. Has(values, a, Occ(a)) /\ Occ(a) \in Occs(values)
    <3>1. v \in Within(values, a)
      BY DEF Within
    <3> QED
      BY <1>0, <2>0, <3>1 DEF Has, Grounded
  <2> DEFINE inherited == IF Top(a) THEN 1 ELSE Occ(Shape[a].parent)
  <2>2. Occ(a) = IF Shape[a].repeats THEN v.occ ELSE inherited
    <3>1. Shape[a].repeats => Repeating(a) # {}
      BY <2>0, RepeatingRule
    <3>2. ~Shape[a].repeats => Repeating(a) = IF Top(a) THEN {} ELSE Repeating(Shape[a].parent)
      BY <2>0, RepeatingRule
    <3> QED
      BY <3>1, <3>2
  <2> HIDE DEF Occ, inherited
  <2>3. <<a, Occ(a)>> \in Visits(values, Shape[a].parent, inherited)
    BY <2>0, <2>1, <2>2, VisitsOf
  <2>4. CASE Top(a)
    <3>1. <<a, Occ(a)>> \in Visits(values, 0, 1)
      BY <2>3, <2>4 DEF Top, inherited
    <3>2. <<a, Occ(a)>> \in Expected(values, L, 0, Visits(values, 0, 1))
      BY <3>1 DEF Expected
    <3>3. 0 \in 0 .. Len(t)
      BY SpelledNodes DEF Written, Forest
    <3> QED
      BY <3>2, <3>3 DEF Written, Forest
  <2>5. CASE ~Top(a)
    <3>1. PICK j \in 1 .. Len(t) : L[j] = <<Shape[a].parent, Occ(Shape[a].parent)>>
      BY <1>1, <2>5
    <3>2. j \in 0 .. Len(t) /\ j # 0
      BY <3>1, SpelledNodes DEF Written, Forest
    <3>3. <<a, Occ(a)>> \in Expected(values, L, j, Visits(values, 0, 1))
      BY <2>3, <2>5, <3>1, <3>2 DEF Expected, inherited
    <3> QED
      BY <3>2, <3>3 DEF Written, Forest
  <2> QED
    BY <2>4, <2>5
<1> HIDE DEF Reached
<1>2. ASSUME NEW m \in 0 .. N, \A k \in 0 .. N : k < m => k \in S PROVE m \in S
  <2>1. ASSUME m \in Path[v.element] PROVE Reached(m)
    <3>1. ASSUME ~Top(m) PROVE Reached(Shape[m].parent)
      <4>1. m \in Elements /\ Shape[m].parent \in Path[v.element]
        BY <1>0, <2>1, <3>1, PathFacts
      <4>2. Shape[m].parent \in 0 .. N /\ Shape[m].parent < m
        BY <1>0, <4>1, Tree
      <4> QED
        BY <1>2, <4>1, <4>2
    <3> QED
      BY <1>1, <2>1, <3>1
  <2> QED
    BY <2>1
<1>3. Reached(v.element)
  <2>1. 0 .. N \subseteq S
    <3> HIDE DEF S, N
    <3> QED
      BY <1>0, <1>2, Upwards
  <2>2. v.element \in 0 .. N
    BY <1>0, Tree
  <2> QED
    BY <1>0, <2>1, <2>2
<1>4. Occ(v.element) = v.occ
  BY DEF Grounded
<1> QED
  BY <1>3, <1>4 DEF Reached

--------------------------------------------------------------------------------
(***************************************************************************)
(* Occurrences: what they are, for any list of nodes.                      *)
(***************************************************************************)
Listed(nodes) == DepthsOf(nodes) /\ \A n \in DOMAIN nodes : nodes[n].element \in Elements

LEMMA NamesakesAre ==
    ASSUME NEW nodes, DepthsOf(nodes), NEW n \in DOMAIN nodes
    PROVE  /\ n \in Namesakes(nodes, n) /\ Namesakes(nodes, n) \subseteq 1 .. n
           /\ IsFiniteSet(Namesakes(nodes, n)) /\ Cardinality(Namesakes(nodes, n)) \in Nat \ {0}
<1>1. n \in Nat /\ n \in 1 .. n
  BY DEF DepthsOf
<1>2. n \in Namesakes(nodes, n) /\ Namesakes(nodes, n) \subseteq 1 .. n
  BY <1>1 DEF Namesakes
<1>3. IsFiniteSet(1 .. n)
  BY <1>1, FS_Interval
<1>4. IsFiniteSet(Namesakes(nodes, n))
  BY <1>2, <1>3, FS_Subset
<1>5. Cardinality(Namesakes(nodes, n)) \in Nat
  BY <1>4, FS_CardinalityType
<1>6. Cardinality(Namesakes(nodes, n)) # 0
  BY <1>2, <1>4, FS_EmptySet
<1> QED
  BY <1>2, <1>4, <1>5, <1>6

LEMMA OccurrencesRule ==
    ASSUME InUse, NEW nodes, Listed(nodes)
    PROVE  /\ Occurrences(nodes) \in [DOMAIN nodes -> Nat \ {0}]
           /\ \A n \in DOMAIN nodes :
                 Occurrences(nodes)[n] = IF Shape[nodes[n].element].repeats THEN Cardinality(Namesakes(nodes, n))
                                         ELSE IF Enclosing(nodes, n) = 0 THEN 1
                                         ELSE Occurrences(nodes)[Enclosing(nodes, n)]
<1> DEFINE D == DOMAIN nodes
           V == Nat \ {0}
           N == Len(nodes)
           Eq(f) == [n \in DOMAIN nodes |->
                        IF Shape[nodes[n].element].repeats THEN Cardinality(Namesakes(nodes, n))
                        ELSE IF Enclosing(nodes, n) = 0 THEN 1 ELSE f[Enclosing(nodes, n)]]
           rank == [n \in D |-> n]
           step == [f \in [D -> V] |-> Eq(f)]
           Occ == CHOOSE f : f = Eq(f)
<1>0. N \in Nat /\ D = 1 .. N /\ DepthsOf(nodes)
  BY DEF Listed, DepthsOf
<1>1. ASSUME NEW n \in D PROVE /\ Cardinality(Namesakes(nodes, n)) \in V
                               /\ Enclosing(nodes, n) # 0 => Enclosing(nodes, n) \in D /\ Enclosing(nodes, n) < n
  <2>1. Enclosing(nodes, n) \in 0 .. n - 1
    BY <1>0, EnclosingIs
  <2> QED
    BY <1>0, <2>1, NamesakesAre
<1>2. Recursive(D, V, N, rank, step)
  <2>1. ASSUME NEW f \in [D -> V] PROVE Eq(f) \in [D -> V]
    BY <1>1
  <2>2. ASSUME NEW f \in [D -> V], NEW g \in [D -> V], NEW n \in D, \A c \in D : rank[c] < rank[n] => f[c] = g[c]
        PROVE  Eq(f)[n] = Eq(g)[n]
    <3>1. Enclosing(nodes, n) # 0 => f[Enclosing(nodes, n)] = g[Enclosing(nodes, n)]
      BY <1>1, <2>2
    <3> QED
      BY <3>1
  <2>3. rank \in [D -> 0 .. N]
    BY <1>0
  <2> HIDE DEF D, V, N, Eq, rank
  <2>4. step \in [[D -> V] -> [D -> V]] /\ \A f \in [D -> V] : step[f] = Eq(f)
    BY <2>1
  <2> HIDE DEF step
  <2>5. \A f, g \in [D -> V], n \in D :
            (\A c \in D : rank[c] < rank[n] => f[c] = g[c]) => step[f][n] = step[g][n]
    BY <2>2, <2>4
  <2> QED
    BY <1>0, <2>3, <2>4, <2>5 DEF Recursive
<1>3. PICK g : g = Eq(g)
  <2>1. V # {}
    OBVIOUS
  <2>2. PICK g \in [D -> V] : g = step[g]
    <3> HIDE DEF D, V, N, rank, step
    <3> QED
      BY <1>2, <2>1, Recursion
  <2> QED
    BY <2>2
<1>4. Occ = Eq(Occ)
  <2> HIDE DEF Eq
  <2> QED
    BY <1>3
<1>5. Occurrences(nodes) = Occ
  BY DEF Occurrences
<1> HIDE DEF Occ
<1>6. ASSUME NEW n \in D
      PROVE  Occ[n] = IF Shape[nodes[n].element].repeats THEN Cardinality(Namesakes(nodes, n))
                      ELSE IF Enclosing(nodes, n) = 0 THEN 1 ELSE Occ[Enclosing(nodes, n)]
  <2>1. Occ[n] = Eq(Occ)[n]
    BY <1>4
  <2> QED
    BY <2>1
<1>7. DOMAIN Occ = D /\ Occ = [n \in D |-> Occ[n]]
  BY <1>4
<1> DEFINE S == {n \in 0 .. N : n \in D => Occ[n] \in V}
<1>8. ASSUME NEW m \in 0 .. N, \A k \in 0 .. N : k < m => k \in S PROVE m \in S
  <2>1. ASSUME m \in D PROVE Occ[m] \in V
    <3>1. Enclosing(nodes, m) # 0 => Occ[Enclosing(nodes, m)] \in V
      BY <1>0, <1>1, <1>8, <2>1
    <3> QED
      BY <1>1, <1>6, <2>1, <3>1
  <2> QED
    BY <2>1
<1>9. \A n \in D : Occ[n] \in V
  <2>1. 0 .. N \subseteq S
    <3> HIDE DEF S, N
    <3> QED
      BY <1>0, <1>8, Upwards
  <2> QED
    BY <1>0, <2>1
<1> QED
  BY <1>5, <1>6, <1>7, <1>9

--------------------------------------------------------------------------------
(***************************************************************************)
(* Documents that are imported: nodes that open at most one level at a     *)
(* time.                                                                   *)
(***************************************************************************)
NodeList(nodes) == nodes \in Seq([element : Elements, depth : Nat \ {0}, value : Nat])
Imported(nodes) ==
    /\ NodeList(nodes)
    /\ \A n \in DOMAIN nodes : nodes[n].depth <= 1 + (IF n = 1 THEN 0 ELSE nodes[n - 1].depth)
Proper(nodes) ==
    NodeList(nodes) /\ \A n \in DOMAIN nodes : Sound(nodes, n) /\ nodes[n].depth = Depth(nodes[n].element)
Filled(nodes) == \A n \in DOMAIN nodes \ LeafNodes(nodes) : Inside(nodes, n) # {}
OccOf(nodes, n) == Occurrences(nodes)[n]

LEMMA ListedNodes ==
    ASSUME NEW nodes, NodeList(nodes)
    PROVE  /\ Listed(nodes) /\ Len(nodes) \in Nat /\ DOMAIN nodes = 1 .. Len(nodes)
           /\ \A n \in DOMAIN nodes :
                 /\ nodes[n].element \in Elements /\ nodes[n].depth \in Nat \ {0} /\ nodes[n].value \in Nat
                 /\ nodes[n] = [element |-> nodes[n].element, depth |-> nodes[n].depth, value |-> nodes[n].value]
<1>1. nodes \in Seq([element : Elements, depth : Nat \ {0}, value : Nat])
  BY DEF NodeList
<1>2. Len(nodes) \in Nat /\ DOMAIN nodes = 1 .. Len(nodes)
  BY <1>1
<1>3. \A n \in DOMAIN nodes : nodes[n] \in [element : Elements, depth : Nat \ {0}, value : Nat]
  <2> DEFINE R == [element : Elements, depth : Nat \ {0}, value : Nat]
  <2>1. nodes \in Seq(R)
    BY <1>1
  <2> HIDE DEF R
  <2>2. \A n \in DOMAIN nodes : nodes[n] \in R
    BY <2>1
  <2> QED
    BY <2>2 DEF R
<1>4. \A n \in DOMAIN nodes :
          /\ nodes[n].element \in Elements /\ nodes[n].depth \in Nat \ {0} /\ nodes[n].value \in Nat
          /\ nodes[n] = [element |-> nodes[n].element, depth |-> nodes[n].depth, value |-> nodes[n].value]
  BY <1>3
<1> QED
  BY <1>2, <1>4 DEF Listed, DepthsOf

\* Without errors, every node stands inside one of its parent, ...
LEMMA SoundNodes ==
    ASSUME InUse, NEW nodes, NodeList(nodes), \A n \in DOMAIN nodes : Sound(nodes, n)
    PROVE  \A n \in DOMAIN nodes :
              /\ Enclosing(nodes, n) \in 0 .. n - 1 /\ Encloses(nodes, Enclosing(nodes, n), n)
              /\ Enclosing(nodes, n) = 0 <=> Top(nodes[n].element)
              /\ Enclosing(nodes, n) # 0 =>
                    /\ Enclosing(nodes, n) \in DOMAIN nodes /\ Enclosing(nodes, n) < n
                    /\ nodes[Enclosing(nodes, n)].element = Shape[nodes[n].element].parent
<1> DEFINE E(n) == nodes[n].element
<1>0. /\ Len(nodes) \in Nat /\ DOMAIN nodes = 1 .. Len(nodes) /\ DepthsOf(nodes)
      /\ \A n \in DOMAIN nodes : E(n) \in Elements /\ E(n) # 0
  BY ListedNodes, Tree DEF Listed
<1>2. ASSUME NEW n \in DOMAIN nodes
      PROVE  /\ Enclosing(nodes, n) \in 0 .. n - 1 /\ Encloses(nodes, Enclosing(nodes, n), n)
             /\ Shape[E(n)].parent = IF Enclosing(nodes, n) = 0 THEN 0 ELSE E(Enclosing(nodes, n))
             /\ Enclosing(nodes, n) # 0 => Enclosing(nodes, n) \in DOMAIN nodes /\ Enclosing(nodes, n) < n
  <2>1. Enclosing(nodes, n) \in 0 .. n - 1 /\ Encloses(nodes, Enclosing(nodes, n), n)
    BY <1>0, EnclosingIs
  <2>2. Sound(nodes, n)
    OBVIOUS
  <2> QED
    BY <1>0, <2>1, <2>2 DEF Sound
<1>3. ASSUME NEW n \in DOMAIN nodes
      PROVE  /\ Enclosing(nodes, n) = 0 <=> Top(E(n))
             /\ Enclosing(nodes, n) # 0 => E(Enclosing(nodes, n)) = Shape[E(n)].parent
  BY <1>0, <1>2 DEF Top
<1> QED
  BY <1>2, <1>3

\* ... as deep as its element.
LEMMA ImportsAreProper ==
    ASSUME InUse, NEW nodes, Imported(nodes), \A n \in DOMAIN nodes : Sound(nodes, n)
    PROVE  Proper(nodes)
<1> DEFINE N == Len(nodes)
           D(n) == nodes[n].depth
           E(n) == nodes[n].element
           S == {n \in 0 .. N : n \in DOMAIN nodes => D(n) = Depth(E(n))}
<1>0. /\ NodeList(nodes)
      /\ N \in Nat /\ DOMAIN nodes = 1 .. N /\ DepthsOf(nodes)
      /\ \A n \in DOMAIN nodes : E(n) \in Elements /\ D(n) \in Nat \ {0} /\ E(n) # 0
  BY ListedNodes, Tree DEF Listed, Imported
<1>1. \A n \in DOMAIN nodes : D(n) <= 1 + (IF n = 1 THEN 0 ELSE D(n - 1))
  BY DEF Imported
<1>2. ASSUME NEW n \in DOMAIN nodes
      PROVE  /\ Enclosing(nodes, n) \in 0 .. n - 1 /\ Encloses(nodes, Enclosing(nodes, n), n)
             /\ Enclosing(nodes, n) # 0 => Enclosing(nodes, n) \in DOMAIN nodes /\ Enclosing(nodes, n) < n
  BY <1>0, SoundNodes
<1>3. ASSUME NEW n \in DOMAIN nodes
      PROVE  /\ Enclosing(nodes, n) = 0 <=> Top(E(n))
             /\ Enclosing(nodes, n) # 0 => E(Enclosing(nodes, n)) = Shape[E(n)].parent
  BY <1>0, SoundNodes
<1>4. ASSUME NEW n \in 0 .. N, \A k \in 0 .. N : k < n => k \in S, n \in DOMAIN nodes
      PROVE  D(n) = Depth(E(n))
  <2> DEFINE i == Enclosing(nodes, n)
  <2>1. i \in 0 .. n - 1 /\ Encloses(nodes, i, n)
    BY <1>2, <1>4
  <2>2. CASE i = 0
    <3>1. Depth(E(n)) = 1
      BY <1>0, <1>3, <1>4, <2>2, DepthRule
    <3>2. D(1) = 1 /\ 1 \in DOMAIN nodes
      <4>1. 1 \in DOMAIN nodes
        BY <1>0, <1>4
      <4>2. D(1) <= 1 + 0
        BY <1>1, <4>1
      <4>3. D(1) \in Nat \ {0}
        BY <1>0, <4>1
      <4> HIDE DEF D
      <4> QED
        BY <4>1, <4>2, <4>3
    <3>3. n # 1 => D(1) >= D(n)
      <4>1. n # 1 => 1 \in 0 + 1 .. n - 1
        BY <1>0, <1>4
      <4> QED
        BY <2>1, <2>2, <4>1 DEF Encloses
    <3>4. D(n) \in Nat \ {0}
      BY <1>0, <1>4
    <3> HIDE DEF D
    <3> QED
      BY <3>1, <3>2, <3>3, <3>4
  <2>3. CASE i # 0
    <3> HIDE DEF i
    <3>1. i \in DOMAIN nodes /\ i < n /\ E(i) = Shape[E(n)].parent /\ ~Top(E(n))
      BY <1>2, <1>3, <1>4, <2>3 DEF i
    <3>2. D(i) = Depth(E(i))
      BY <1>0, <1>4, <3>1
    <3>3. Depth(E(n)) = D(i) + 1
      BY <1>0, <1>4, <3>1, <3>2, DepthRule
    <3>4. D(i) < D(n) /\ \A k \in i + 1 .. n - 1 : D(k) >= D(n)
      BY <2>1, <2>3 DEF Encloses
    <3>5. i + 1 \in DOMAIN nodes /\ i + 1 # 1 /\ (i + 1) - 1 = i /\ D(i + 1) >= D(n)
      <4>1. i + 1 \in DOMAIN nodes /\ i + 1 # 1 /\ (i + 1) - 1 = i
        BY <1>0, <1>4, <3>1
      <4>2. CASE i + 1 = n
        BY <1>0, <4>1, <4>2
      <4>3. CASE i + 1 # n
        <5>1. i + 1 \in i + 1 .. n - 1
          BY <1>0, <1>4, <3>1, <4>3
        <5> QED
          BY <3>4, <4>1, <5>1
      <4> QED
        BY <4>1, <4>2, <4>3
    <3>6. D(i + 1) <= 1 + D(i)
      BY <1>1, <3>5
    <3>7. D(i) \in Nat /\ D(n) \in Nat /\ D(i + 1) \in Nat
      BY <1>0, <1>4, <3>1, <3>5
    <3> HIDE DEF D
    <3> QED
      BY <3>3, <3>4, <3>5, <3>6, <3>7
  <2> QED
    BY <2>2, <2>3
<1>5. 0 .. N \subseteq S
  <2>1. \A n \in 0 .. N : (\A k \in 0 .. N : k < n => k \in S) => n \in S
    BY <1>4
  <2> HIDE DEF S, N
  <2> QED
    BY <1>0, <2>1, Upwards
<1> QED
  BY <1>0, <1>5 DEF Proper

\* Around a node stand nodes of all the elements of its path; one below a repeating element
\* has the occurrence of that one, if it is the only one.
LEMMA Ancestors ==
    ASSUME InUse, NEW nodes, Proper(nodes)
    PROVE  \A n \in DOMAIN nodes : \A a \in Path[nodes[n].element] :
              \E m \in DOMAIN nodes :
                  /\ nodes[m].element = a
                  /\ Addressable(nodes[n].element) /\ Repeating(a) # {} => OccOf(nodes, m) = OccOf(nodes, n)
<1> DEFINE N == Len(nodes)
           E(n) == nodes[n].element
           Good(n) == \A a \in Path[E(n)] : \E m \in DOMAIN nodes :
                         /\ E(m) = a
                         /\ Addressable(E(n)) /\ Repeating(a) # {} => OccOf(nodes, m) = OccOf(nodes, n)
           S == {n \in 0 .. N : n \in DOMAIN nodes => Good(n)}
<1>0. N \in Nat /\ DOMAIN nodes = 1 .. N /\ Listed(nodes) /\ \A n \in DOMAIN nodes : E(n) \in Elements
  BY ListedNodes DEF Proper
<1>1. ASSUME NEW n \in 0 .. N, \A k \in 0 .. N : k < n => k \in S, n \in DOMAIN nodes, NEW a \in Path[E(n)]
      PROVE  \E m \in DOMAIN nodes :
                 /\ E(m) = a
                 /\ Addressable(E(n)) /\ Repeating(a) # {} => OccOf(nodes, m) = OccOf(nodes, n)
  <2>1. CASE a = E(n)
    BY <1>1, <2>1
  <2>2. CASE a # E(n)
    <3> DEFINE i == Enclosing(nodes, n)
    <3>1. Path[E(n)] = {E(n)} \cup Above(E(n))
      BY <1>0, <1>1, PathRule
    <3>2. ~Top(E(n)) /\ a \in Path[Shape[E(n)].parent]
      BY <1>1, <2>2, <3>1 DEF Above
    <3>3. i # 0 /\ i \in DOMAIN nodes /\ i < n /\ E(i) = Shape[E(n)].parent
      BY <1>1, <3>2, SoundNodes DEF Proper
    <3>4. Good(i)
      <4>1. i \in 0 .. N /\ i < n
        BY <1>0, <3>3
      <4>2. i \in S
        BY <1>1, <4>1
      <4> HIDE DEF i, Good, N
      <4> QED
        BY <3>3, <4>2
    <3>5. PICK m \in DOMAIN nodes : /\ E(m) = a
                                    /\ Addressable(E(i)) /\ Repeating(a) # {} => OccOf(nodes, m) = OccOf(nodes, i)
      BY <3>2, <3>3, <3>4
    <3>6. ASSUME Addressable(E(n)), Repeating(a) # {} PROVE OccOf(nodes, m) = OccOf(nodes, n)
      <4>1. E(i) \in Path[E(n)]
        BY <1>0, <1>1, <3>2, <3>3, PathFacts
      <4>2. Addressable(E(i)) /\ ~Shape[E(n)].repeats
        BY <1>0, <1>1, <2>2, <3>6, <4>1, AddressableRule
      <4>3. OccOf(nodes, n) = OccOf(nodes, i)
        BY <1>0, <1>1, <3>3, <4>2, OccurrencesRule DEF OccOf
      <4> QED
        BY <3>5, <3>6, <4>2, <4>3
    <3> QED
      BY <3>5, <3>6
  <2> QED
    BY <2>1, <2>2
<1>2. \A n \in 0 .. N : (\A k \in 0 .. N : k < n => k \in S) => n \in S
  BY <1>1
<1>3. 0 .. N \subseteq S
  <2> HIDE DEF S, N
  <2> QED
    BY <1>0, <1>2, Upwards
<1> QED
  BY <1>0, <1>3

LEMMA UnrepeatedIsFirst ==
    ASSUME InUse, NEW nodes, Proper(nodes)
    PROVE  \A n \in DOMAIN nodes : Repeating(nodes[n].element) = {} => OccOf(nodes, n) = 1
<1> DEFINE N == Len(nodes)
           E(n) == nodes[n].element
           S == {n \in 0 .. N : n \in DOMAIN nodes /\ Repeating(E(n)) = {} => OccOf(nodes, n) = 1}
<1>0. N \in Nat /\ DOMAIN nodes = 1 .. N /\ Listed(nodes) /\ \A n \in DOMAIN nodes : E(n) \in Elements
  BY ListedNodes DEF Proper
<1>1. ASSUME NEW n \in 0 .. N, \A k \in 0 .. N : k < n => k \in S, n \in DOMAIN nodes, Repeating(E(n)) = {}
      PROVE  OccOf(nodes, n) = 1
  <2> DEFINE i == Enclosing(nodes, n)
  <2>1. ~Shape[E(n)].repeats
    BY <1>0, <1>1, RepeatingRule
  <2>2. CASE i = 0
    BY <1>0, <1>1, <2>1, <2>2, OccurrencesRule DEF OccOf
  <2>3. CASE i # 0
    <3>1. i \in DOMAIN nodes /\ i < n /\ E(i) = Shape[E(n)].parent /\ ~Top(E(n))
      BY <1>1, <2>3, SoundNodes DEF Proper
    <3>2. Repeating(E(i)) = {}
      BY <1>0, <1>1, <2>1, <3>1, RepeatingRule
    <3>3. OccOf(nodes, i) = 1
      BY <1>0, <1>1, <3>1, <3>2
    <3> QED
      BY <1>0, <1>1, <2>1, <2>3, <3>3, OccurrencesRule DEF OccOf
  <2> QED
    BY <2>2, <2>3
<1>2. \A n \in 0 .. N : (\A k \in 0 .. N : k < n => k \in S) => n \in S
  BY <1>1
<1>3. 0 .. N \subseteq S
  <2> HIDE DEF S, N
  <2> QED
    BY <1>0, <1>2, Upwards
<1> QED
  BY <1>0, <1>3

\* Among repeats, one is the first.
LEMMA FirstNamesake ==
    ASSUME InUse, NEW nodes, Listed(nodes), NEW n, NEW c \in Inside(nodes, n), Shape[nodes[c].element].repeats
    PROVE  \E m \in Inside(nodes, n) : nodes[m].element = nodes[c].element /\ OccOf(nodes, m) = 1
<1> DEFINE T == {m \in Inside(nodes, n) : nodes[m].element = nodes[c].element}
<1>1. DepthsOf(nodes) /\ DOMAIN nodes \subseteq Nat /\ Inside(nodes, n) \subseteq DOMAIN nodes
  BY DEF Listed, DepthsOf, Inside
<1>2. PICK m \in T : \A k \in T : m <= k
  <2>1. T \in SUBSET Nat /\ T # {}
    BY <1>1
  <2> HIDE DEF T
  <2> QED
    BY <2>1, SmallestNumber
<1>3. m \in DOMAIN nodes /\ Enclosing(nodes, m) = n
  BY DEF Inside
<1>4. Namesakes(nodes, m) = {m}
  <2>1. m \in Namesakes(nodes, m) /\ Namesakes(nodes, m) \subseteq 1 .. m
    BY <1>1, <1>3, NamesakesAre
  <2>2. ASSUME NEW k \in Namesakes(nodes, m) PROVE k = m
    <3>1. k \in 1 .. m /\ k \in DOMAIN nodes
      BY <1>1, <1>3, <2>1 DEF DepthsOf
    <3>2. k \in T
      BY <1>3, <3>1 DEF Namesakes, Inside
    <3> QED
      BY <1>1, <1>2, <1>3, <3>1, <3>2
  <2> QED
    BY <2>1, <2>2
<1>5. OccOf(nodes, m) = Cardinality({m})
  BY <1>3, <1>4, OccurrencesRule DEF OccOf
<1> QED
  BY <1>5, FS_Singleton

\* Below a node of the first occurrence there is a leaf of the first occurrence; below any
\* node, if leaves are addressable, one of the node's own.
LEMMA LeafBelow ==
    ASSUME InUse, NEW nodes, Proper(nodes), Filled(nodes)
    PROVE  \A n \in DOMAIN nodes :
              OccOf(nodes, n) = 1 \/ (\A l \in LeafNodes(nodes) : Addressable(nodes[l].element)) =>
                 \E l \in LeafNodes(nodes) :
                    nodes[n].element \in Path[nodes[l].element] /\ OccOf(nodes, l) = OccOf(nodes, n)
<1> DEFINE N == Len(nodes)
           E(n) == nodes[n].element
           Occ(n) == OccOf(nodes, n)
           Plain == \A l \in LeafNodes(nodes) : Addressable(E(l))
           Good(n) == \E l \in LeafNodes(nodes) : E(n) \in Path[E(l)] /\ Occ(l) = Occ(n)
           S == {n \in 0 .. N : n \in DOMAIN nodes /\ (Occ(n) = 1 \/ Plain) => Good(n)}
<1>0. N \in Nat /\ DOMAIN nodes = 1 .. N /\ Listed(nodes) /\ \A n \in DOMAIN nodes : E(n) \in Elements
  BY ListedNodes DEF Proper
<1>1. ASSUME NEW n \in 0 .. N, \A k \in 0 .. N : n < k => k \in S, n \in DOMAIN nodes, Occ(n) = 1 \/ Plain
      PROVE  Good(n)
  <2>1. CASE n \in LeafNodes(nodes)
    BY <1>0, <1>1, <2>1, PathFacts
  <2>2. CASE n \notin LeafNodes(nodes)
    <3>1. PICK c \in Inside(nodes, n) : TRUE
      BY <1>1, <2>2 DEF Filled
    <3>2. \A m \in Inside(nodes, n) : /\ m \in DOMAIN nodes /\ m \in 0 .. N /\ n < m
                                      /\ E(n) = Shape[E(m)].parent /\ ~Top(E(m))
      <4>1. \A m \in Inside(nodes, n) : m \in DOMAIN nodes /\ Enclosing(nodes, m) = n /\ n # 0
        BY <1>0, <1>1 DEF Inside
      <4> QED
        BY <1>0, <4>1, SoundNodes DEF Proper
    <3>3. ASSUME NEW m \in Inside(nodes, n), NEW l \in LeafNodes(nodes), E(m) \in Path[E(l)]
          PROVE  E(n) \in Path[E(l)]
      <4>1. E(l) \in Elements
        BY <1>0 DEF LeafNodes
      <4> QED
        BY <3>2, <3>3, <4>1, PathFacts
    <3>4. CASE ~Shape[E(c)].repeats
      <4>1. Occ(c) = Occ(n)
        <5>1. c \in DOMAIN nodes /\ Enclosing(nodes, c) = n /\ n # 0
          BY <1>0, <1>1 DEF Inside
        <5> QED
          BY <1>0, <3>4, <5>1, OccurrencesRule DEF OccOf
      <4>2. Good(c)
        BY <1>1, <3>2, <4>1
      <4> QED
        BY <3>3, <4>1, <4>2
    <3>5. CASE Shape[E(c)].repeats
      <4>1. PICK m \in Inside(nodes, n) : E(m) = E(c) /\ Occ(m) = 1
        BY <1>0, <3>5, FirstNamesake
      <4>2. PICK l \in LeafNodes(nodes) : E(m) \in Path[E(l)] /\ Occ(l) = Occ(m)
        BY <1>1, <3>2, <4>1
      <4>3. E(n) \in Path[E(l)]
        BY <3>3, <4>2
      <4>4. Occ(n) = 1
        <5>1. CASE Plain
          <6>1. Addressable(E(l)) /\ E(l) \in Elements
            BY <1>0, <5>1 DEF LeafNodes
          <6>2. Addressable(E(m)) /\ E(m) \in Elements /\ E(n) \in Path[E(m)] /\ E(n) # E(m)
            <7>1. E(m) \in Elements /\ Shape[E(m)].parent < E(m) /\ E(m) \in Nat /\ E(n) = Shape[E(m)].parent
              BY <1>0, <3>2, Tree
            <7>2. E(n) \in Path[E(m)]
              BY <3>2, <7>1, PathFacts
            <7>3. Addressable(E(m))
              BY <4>2, <6>1, AddressableRule
            <7> QED
              BY <7>1, <7>2, <7>3, Tree
          <6>3. Repeating(E(n)) = {}
            BY <3>5, <4>1, <6>2, AddressableRule
          <6> QED
            BY <1>1, <6>3, UnrepeatedIsFirst
        <5> QED
          BY <1>1, <5>1
      <4> QED
        BY <4>1, <4>2, <4>3, <4>4
    <3> QED
      BY <3>4, <3>5
  <2> QED
    BY <2>1, <2>2
<1>2. \A n \in 0 .. N : (\A k \in 0 .. N : n < k => k \in S) => n \in S
  BY <1>1
<1>3. 0 .. N \subseteq S
  <2> HIDE DEF S, N
  <2> QED
    BY <1>0, <1>2, Downwards
<1> QED
  BY <1>0, <1>3

--------------------------------------------------------------------------------
(***************************************************************************)
(* The values that a document is read as.                                  *)
(***************************************************************************)
Entry(nodes, n) == [element |-> nodes[n].element, occ |-> OccOf(nodes, n), value |-> nodes[n].value]

LEMMA Entries ==
    ASSUME InUse, NEW nodes, NodeList(nodes)
    PROVE  /\ Read(nodes) = {Entry(nodes, n) : n \in LeafNodes(nodes)}
           /\ \A n \in DOMAIN nodes : /\ Entry(nodes, n).element = nodes[n].element
                                      /\ Entry(nodes, n).occ = OccOf(nodes, n)
                                      /\ Entry(nodes, n).value = nodes[n].value
                                      /\ OccOf(nodes, n) \in Nat \ {0}
           /\ \A n \in LeafNodes(nodes) : n \in DOMAIN nodes /\ Entry(nodes, n) \in Read(nodes)
<1>1. Read(nodes) = {Entry(nodes, n) : n \in LeafNodes(nodes)}
  BY DEF Read, Entry, OccOf
<1>2. \A n \in DOMAIN nodes : OccOf(nodes, n) \in Nat \ {0}
  BY ListedNodes, OccurrencesRule DEF OccOf
<1>3. LeafNodes(nodes) \subseteq DOMAIN nodes
  BY DEF LeafNodes
<1> QED
  BY <1>1, <1>2, <1>3 DEF Entry

\* They are a message: the reader refuses a second value for an address.
LEMMA ReadIsMessage ==
    ASSUME InUse, NEW nodes, Proper(nodes), Accepted(nodes)
    PROVE  Message(Read(nodes))
<1> DEFINE values == Read(nodes)
           leaves == LeafNodes(nodes)
           entry == [n \in leaves |-> Entry(nodes, n)]
<1>0. NodeList(nodes) /\ leaves \subseteq DOMAIN nodes
  BY DEF Proper, LeafNodes
<1>1. /\ values = {Entry(nodes, n) : n \in leaves}
      /\ \A n \in DOMAIN nodes : /\ Entry(nodes, n).element = nodes[n].element
                                 /\ Entry(nodes, n).occ = OccOf(nodes, n)
                                 /\ Entry(nodes, n).value = nodes[n].value
                                 /\ OccOf(nodes, n) \in Nat \ {0}
  BY <1>0, Entries
<1>2. IsFiniteSet(values)
  <2>1. IsFiniteSet(leaves)
    <3>1. IsFiniteSet(1 .. Len(nodes)) /\ DOMAIN nodes = 1 .. Len(nodes)
      BY <1>0, ListedNodes, FS_Interval
    <3> QED
      BY <1>0, <3>1, FS_Subset
  <2>2. entry \in Surjection(leaves, values)
    BY <1>1 DEF Surjection
  <2> QED
    BY <2>1, <2>2, FS_Surjection
<1>3. \A n \in leaves : /\ Entry(nodes, n) \in [element : Elements, occ : Nat \ {0}, value : Nat \ {0}]
                        /\ Shape[Entry(nodes, n).element].leaf
  <2>1. ASSUME NEW n \in leaves
        PROVE  nodes[n].element \in Elements /\ nodes[n].value \in Nat /\ nodes[n].value # 0 /\ Shape[nodes[n].element].leaf
    BY <1>0, ListedNodes DEF Proper, Sound, LeafNodes
  <2> QED
    BY <1>0, <1>1, <2>1 DEF Entry
<1>4. \A m, n \in leaves : nodes[m].element = nodes[n].element /\ OccOf(nodes, m) = OccOf(nodes, n) => m = n
  BY DEF Accepted, Claim, OccOf
<1>5. \A v, w \in values : v.element = w.element /\ v.occ = w.occ => v = w
  BY <1>0, <1>1, <1>4
<1> QED
  BY <1>1, <1>2, <1>3, <1>5 DEF Message

\* What stands below a node that is not empty is read from a leaf below it.
LEMMA ReadIsGrounded ==
    ASSUME InUse, NEW nodes, Proper(nodes), Filled(nodes)
    PROVE  Grounded(Read(nodes))
<1> DEFINE values == Read(nodes)
           leaves == LeafNodes(nodes)
<1>0. NodeList(nodes) /\ leaves \subseteq DOMAIN nodes
  BY DEF Proper, LeafNodes
<1>1. /\ values = {Entry(nodes, n) : n \in leaves}
      /\ \A n \in DOMAIN nodes : /\ Entry(nodes, n).element = nodes[n].element
                                 /\ Entry(nodes, n).occ = OccOf(nodes, n)
  BY <1>0, Entries
<1>2. ASSUME NEW v \in values, Repeating(v.element) = {} PROVE v.occ = 1
  BY <1>0, <1>1, <1>2, UnrepeatedIsFirst
<1>3. ASSUME NEW a \in Elements, Repeating(a) = {}, Within(values, a) # {} PROVE Has(values, a, 1)
  <2>1. PICK n \in leaves : a \in Path[nodes[n].element]
    BY <1>0, <1>1, <1>3 DEF Within
  <2>2. PICK m \in DOMAIN nodes : nodes[m].element = a
    BY <1>0, <2>1, Ancestors
  <2>3. OccOf(nodes, m) = 1
    BY <1>3, <2>2, UnrepeatedIsFirst
  <2>4. PICK l \in leaves : a \in Path[nodes[l].element] /\ OccOf(nodes, l) = 1
    BY <2>2, <2>3, LeafBelow
  <2>5. Entry(nodes, l) \in Within(values, a) /\ Entry(nodes, l).occ = 1
    BY <1>0, <1>1, <2>4 DEF Within
  <2> QED
    BY <2>5 DEF Has
<1> QED
  BY <1>2, <1>3 DEF Grounded

\* The document written from a message has every value.
LEMMA ValuesAreWritten ==
    ASSUME InUse, NEW values, Message(values), Grounded(values)
    PROVE  \A v \in values : Node(v.element, v.value) \in Range(Document(values))
<1>1. PICK t, L : t = Document(values) /\ Written(values, t, L)
  BY DocumentSpells DEF Written
<1>2. Spells(values, t, L)
  BY <1>1 DEF Written, Forest
<1>3. \A v \in values : \E j \in 1 .. Len(t) : L[j] = <<v.element, v.occ>>
  BY <1>1, ValuesAreReached DEF AllReached
<1>4. ASSUME NEW v \in values PROVE Node(v.element, v.value) \in Range(t)
  <2>1. PICK j \in 1 .. Len(t) : L[j] = <<v.element, v.occ>>
    BY <1>3
  <2>2. ValueOf(values, <<v.element, v.occ>>) = v.value
    BY ValueFound
  <2>3. t[j] = NodeOf(values, L[j]) /\ DOMAIN t = 1 .. Len(t)
    BY <1>2, SpelledNodes DEF Spells
  <2>4. t[j] = Node(v.element, v.value)
    BY <2>1, <2>2, <2>3 DEF NodeOf
  <2> QED
    BY <2>3, <2>4 DEF Range
<1> QED
  BY <1>1, <1>4

LEMMA ValuesAreKept ==
    ASSUME InUse, NEW nodes, Proper(nodes), Accepted(nodes), Filled(nodes)
    PROVE  \A n \in LeafNodes(nodes) :
              Node(nodes[n].element, nodes[n].value) \in Range(Document(Read(nodes)))
<1>1. Message(Read(nodes)) /\ Grounded(Read(nodes))
  BY ReadIsMessage, ReadIsGrounded
<1>2. \A n \in LeafNodes(nodes) : /\ Entry(nodes, n) \in Read(nodes)
                                  /\ Entry(nodes, n).element = nodes[n].element
                                  /\ Entry(nodes, n).value = nodes[n].value
  BY Entries DEF Proper
<1> QED
  BY <1>1, <1>2, ValuesAreWritten

--------------------------------------------------------------------------------
(***************************************************************************)
(* An element and its occurrence are a place in the document, when the     *)
(* element is addressable.                                                 *)
(***************************************************************************)
Place(nodes, n) == <<nodes[n].element, OccOf(nodes, n)>>
AllAddressable(nodes) == \A n \in DOMAIN nodes : Addressable(nodes[n].element)

\* Later repeats inside a node have higher occurrences.
LEMMA NamesakesGrow ==
    ASSUME InUse, NEW nodes, Proper(nodes), NEW m \in DOMAIN nodes, NEW n \in DOMAIN nodes, m < n,
           nodes[m].element = nodes[n].element, Enclosing(nodes, m) = Enclosing(nodes, n)
    PROVE  Shape[nodes[n].element].repeats /\ OccOf(nodes, m) < OccOf(nodes, n)
<1>1. /\ Listed(nodes) /\ DepthsOf(nodes) /\ m \in Nat /\ n \in Nat /\ m >= 1
  BY ListedNodes DEF Proper, Listed
<1>2. m \in Namesakes(nodes, n)
  BY <1>1 DEF Namesakes
<1>3. Shape[nodes[n].element].repeats
  BY <1>1, <1>2 DEF Proper, Sound
<1>4. /\ n \in Namesakes(nodes, n) /\ IsFiniteSet(Namesakes(nodes, n)) /\ Cardinality(Namesakes(nodes, n)) \in Nat
      /\ Namesakes(nodes, m) \subseteq 1 .. m /\ Cardinality(Namesakes(nodes, m)) \in Nat
  BY <1>1, NamesakesAre
<1>5. Namesakes(nodes, m) \subseteq Namesakes(nodes, n) /\ n \notin Namesakes(nodes, m)
  BY <1>1, <1>4 DEF Namesakes
<1>6. Cardinality(Namesakes(nodes, m)) < Cardinality(Namesakes(nodes, n))
  BY <1>4, <1>5, FS_Subset
<1>7. OccOf(nodes, m) = Cardinality(Namesakes(nodes, m)) /\ OccOf(nodes, n) = Cardinality(Namesakes(nodes, n))
  BY <1>1, <1>3, OccurrencesRule DEF OccOf
<1> QED
  BY <1>3, <1>6, <1>7

\* The occurrence that the places inside a node inherit from it.
Inherited(nodes, n) == IF n = 0 THEN 1 ELSE OccOf(nodes, n)

LEMMA PlacesAreUnique ==
    ASSUME InUse, NEW nodes, Proper(nodes), AllAddressable(nodes)
    PROVE  \A m, n \in DOMAIN nodes :
              nodes[m].element = nodes[n].element /\ OccOf(nodes, m) = OccOf(nodes, n) => m = n
<1> DEFINE N == Len(Shape)
           E(n) == nodes[n].element
           Unique(e) == \A m, n \in DOMAIN nodes : E(m) = e /\ E(n) = e /\ OccOf(nodes, m) = OccOf(nodes, n) => m = n
           S == {e \in 0 .. N : Unique(e)}
<1>0. /\ N \in Nat /\ Elements = 1 .. N /\ Listed(nodes) /\ NodeList(nodes)
      /\ DOMAIN nodes \subseteq Nat /\ \A n \in DOMAIN nodes : E(n) \in Elements
  BY Tree, ListedNodes DEF Proper
<1>1. ASSUME NEW e \in 0 .. N, \A k \in 0 .. N : k < e => k \in S,
             NEW m \in DOMAIN nodes, NEW n \in DOMAIN nodes, E(m) = e, E(n) = e, OccOf(nodes, m) = OccOf(nodes, n)
      PROVE  m = n
  <2> DEFINE i == Enclosing(nodes, m)
             k == Enclosing(nodes, n)
  <2>1. i = k
    <3>1. CASE Top(e)
      <4>1. i = 0 /\ k = 0
        BY <1>0, <1>1, <3>1, SoundNodes DEF Proper
      <4> QED
        BY <4>1
    <3>2. CASE ~Top(e)
      <4>1. i # 0 /\ k # 0
        BY <1>0, <1>1, <3>2, SoundNodes DEF Proper
      <4>2. i \in DOMAIN nodes /\ k \in DOMAIN nodes /\ E(i) = Shape[e].parent /\ E(k) = Shape[e].parent
        BY <1>0, <1>1, <4>1, SoundNodes DEF Proper
      <4>3. OccOf(nodes, i) = OccOf(nodes, k)
        <5>1. CASE Shape[e].repeats
          <6>1. e \in Elements /\ Addressable(e) /\ E(i) \in Path[e] /\ E(i) # e
            BY <1>0, <1>1, <3>2, <4>2, PathFacts, Tree DEF AllAddressable
          <6>2. Repeating(E(i)) = {}
            BY <5>1, <6>1, AddressableRule
          <6>3. OccOf(nodes, i) = 1 /\ OccOf(nodes, k) = 1
            BY <4>2, <6>2, UnrepeatedIsFirst
          <6> QED
            BY <6>3
        <5>2. CASE ~Shape[e].repeats
          <6>1. OccOf(nodes, m) = OccOf(nodes, i) /\ OccOf(nodes, n) = OccOf(nodes, k)
            BY <1>0, <1>1, <4>1, <5>2, OccurrencesRule DEF OccOf
          <6> QED
            BY <1>1, <6>1
        <5> QED
          BY <5>1, <5>2
      <4>4. Unique(Shape[e].parent)
        <5>1. Shape[e].parent \in 0 .. N /\ Shape[e].parent < e
          BY <1>0, <1>1, <3>2, Tree
        <5>2. Shape[e].parent \in S
          BY <1>1, <5>1
        <5> QED
          BY <5>2
      <4> QED
        BY <4>2, <4>3, <4>4
    <3> QED
      BY <3>1, <3>2
  <2>2. m < n => FALSE
    <3>1. m < n => OccOf(nodes, m) < OccOf(nodes, n)
      BY <1>1, <2>1, NamesakesGrow
    <3>2. OccOf(nodes, m) \in Nat
      BY <1>0, OccurrencesRule DEF OccOf
    <3> QED
      BY <1>1, <3>1, <3>2
  <2>3. n < m => FALSE
    <3>1. n < m => OccOf(nodes, n) < OccOf(nodes, m)
      BY <1>1, <2>1, NamesakesGrow
    <3>2. OccOf(nodes, m) \in Nat
      BY <1>0, OccurrencesRule DEF OccOf
    <3> QED
      BY <1>1, <3>1, <3>2
  <2> QED
    BY <1>0, <2>2, <2>3
<1>2. \A e \in 0 .. N : (\A k \in 0 .. N : k < e => k \in S) => e \in S
  BY <1>1
<1>3. 0 .. N \subseteq S
  <2> HIDE DEF S, N
  <2> QED
    BY <1>0, <1>2, Upwards
<1> QED
  BY <1>0, <1>3

LEMMA NodesAreAddressable ==
    ASSUME InUse, NEW nodes, Proper(nodes), Filled(nodes),
           \A n \in LeafNodes(nodes) : Addressable(nodes[n].element)
    PROVE  AllAddressable(nodes)
<1>1. \A n \in DOMAIN nodes : \E l \in LeafNodes(nodes) : nodes[n].element \in Path[nodes[l].element]
  BY LeafBelow
<1>2. \A l \in LeafNodes(nodes) : nodes[l].element \in Elements
  BY ListedNodes DEF LeafNodes, Proper
<1> QED
  BY <1>1, <1>2, AddressableRule DEF AllAddressable

\* The writer visits the places inside a node, and no other, for the values read there.
ElementAt(nodes, n) == IF n = 0 THEN 0 ELSE nodes[n].element

LEMMA PlacesAreVisited ==
    ASSUME InUse, NEW nodes, Proper(nodes), Filled(nodes), AllAddressable(nodes),
           NEW values, values = Read(nodes), Message(values), NEW n \in 0 .. Len(nodes)
    PROVE  /\ \A m \in Inside(nodes, n) :
                 Place(nodes, m) \in Visits(values, ElementAt(nodes, n), Inherited(nodes, n))
           /\ \A p \in Visits(values, ElementAt(nodes, n), Inherited(nodes, n)) :
                 \E m \in Inside(nodes, n) : Place(nodes, m) = p
<1> DEFINE leaves == LeafNodes(nodes)
           E(m) == nodes[m].element
           Occ(m) == OccOf(nodes, m)
<1>0. /\ NodeList(nodes) /\ Listed(nodes) /\ DOMAIN nodes = 1 .. Len(nodes) /\ leaves \subseteq DOMAIN nodes
      /\ \A m \in DOMAIN nodes : E(m) \in Elements /\ Occ(m) \in Nat \ {0}
  BY ListedNodes, Entries DEF Proper, LeafNodes
<1>1. /\ values = {Entry(nodes, m) : m \in leaves}
      /\ \A m \in leaves : /\ Entry(nodes, m) \in values
                           /\ Entry(nodes, m).element = E(m) /\ Entry(nodes, m).occ = Occ(m)
  BY <1>0, Entries
<1>2. ASSUME NEW m \in Inside(nodes, n)
      PROVE  Place(nodes, m) \in Visits(values, ElementAt(nodes, n), Inherited(nodes, n))
  <2>1. m \in DOMAIN nodes /\ Enclosing(nodes, m) = n /\ E(m) \in Elements
    BY <1>0 DEF Inside
  <2>2. Shape[E(m)].parent = ElementAt(nodes, n)
    BY <1>0, <2>1, SoundNodes DEF Proper, ElementAt, Top
  <2>3. PICK l \in leaves : E(m) \in Path[E(l)] /\ Occ(l) = Occ(m)
    <3>1. \A l \in leaves : Addressable(E(l))
      BY <1>0 DEF AllAddressable
    <3> QED
      BY <2>1, <3>1, LeafBelow
  <2>4. PICK v \in values : v.element = E(l) /\ v.occ = Occ(m)
    BY <1>1, <2>3
  <2>5. Has(values, E(m), Occ(m)) /\ Occ(m) \in Occs(values)
    BY <2>3, <2>4 DEF Has, Within, Occs
  <2>6. ~Shape[E(m)].repeats => Occ(m) = Inherited(nodes, n)
    BY <1>0, <2>1, OccurrencesRule DEF OccOf, Inherited
  <2>7. <<E(m), Occ(m)>> \in Visits(values, Shape[E(m)].parent, Inherited(nodes, n))
    <3>1. Occ(m) = IF Shape[E(m)].repeats THEN v.occ ELSE Inherited(nodes, n)
      BY <2>4, <2>6
    <3>2. E(m) \in Path[v.element]
      BY <2>3, <2>4
    <3> HIDE DEF E, Occ
    <3> QED
      BY <2>1, <2>5, <3>1, <3>2, VisitsOf
  <2> QED
    BY <2>2, <2>7 DEF Place
<1>3. ASSUME NEW p \in Visits(values, ElementAt(nodes, n), Inherited(nodes, n))
      PROVE  \E m \in Inside(nodes, n) : Place(nodes, m) = p
  <2> DEFINE c == p[1]
             o == p[2]
  <2>1. /\ p = <<c, o>> /\ c \in Elements /\ Shape[c].parent = ElementAt(nodes, n)
        /\ Has(values, c, o) /\ (~Shape[c].repeats => o = Inherited(nodes, n))
    BY DEF Visits, Visited, ChildElements
  <2> HIDE DEF c, o
  <2>2. PICK v \in values : c \in Path[v.element] /\ v.occ = o
    BY <2>1 DEF Has, Within
  <2>3. PICK l \in leaves : c \in Path[E(l)] /\ Occ(l) = o
    BY <1>1, <2>2
  <2>4. PICK m \in DOMAIN nodes : E(m) = c /\ (Repeating(c) # {} => Occ(m) = o)
    <3>1. l \in DOMAIN nodes /\ Addressable(E(l))
      BY <1>0 DEF AllAddressable
    <3>2. \E m \in DOMAIN nodes : E(m) = c /\ (Addressable(E(l)) /\ Repeating(c) # {} => Occ(m) = Occ(l))
      BY <2>3, <3>1, Ancestors
    <3> QED
      BY <2>3, <3>1, <3>2
  <2>5. n # 0 => /\ n \in DOMAIN nodes /\ E(n) = Shape[c].parent /\ ~Top(c)
                 /\ (Repeating(E(n)) = {} => Inherited(nodes, n) = 1)
    <3>1. n # 0 => n \in DOMAIN nodes /\ E(n) = Shape[c].parent
      BY <1>0, <2>1 DEF ElementAt
    <3>2. n # 0 => ~Top(c)
      BY <1>0, <3>1, Tree DEF Top
    <3>3. n # 0 /\ Repeating(E(n)) = {} => Inherited(nodes, n) = 1
      BY <3>1, UnrepeatedIsFirst DEF Inherited
    <3> QED
      BY <3>1, <3>2, <3>3
  <2>6. n = 0 => Top(c) /\ Inherited(nodes, n) = 1
    BY <2>1 DEF ElementAt, Top, Inherited
  <2>7. Occ(m) = o
    <3>1. CASE Repeating(c) # {}
      BY <2>4, <3>1
    <3>2. CASE Repeating(c) = {}
      <4>1. Occ(m) = 1
        BY <2>4, <3>2, UnrepeatedIsFirst
      <4>2. o = Inherited(nodes, n) /\ (n # 0 => Repeating(E(n)) = {})
        BY <2>1, <2>5, <3>2, RepeatingRule
      <4> QED
        BY <2>5, <2>6, <4>1, <4>2
    <3> QED
      BY <3>1, <3>2
  <2>8. Enclosing(nodes, m) = n
    <3> DEFINE i == Enclosing(nodes, m)
    <3>1. CASE n = 0
      BY <2>4, <2>6, <3>1, SoundNodes DEF Proper
    <3>2. CASE n # 0
      <4>1. i # 0 /\ i \in DOMAIN nodes /\ E(i) = E(n)
        BY <2>4, <2>5, <3>2, SoundNodes DEF Proper
      <4>2. Occ(i) = Occ(n)
        <5>1. CASE Shape[c].repeats
          <6>1. Addressable(c) /\ E(n) \in Path[c] /\ E(n) # c
            BY <1>0, <2>1, <2>4, <2>5, <3>2, PathFacts, Tree DEF AllAddressable
          <6>2. Repeating(E(n)) = {}
            BY <2>1, <5>1, <6>1, AddressableRule
          <6> QED
            BY <2>5, <3>2, <4>1, <6>2, UnrepeatedIsFirst
        <5>2. CASE ~Shape[c].repeats
          <6>1. Occ(m) = Occ(i)
            BY <1>0, <2>4, <4>1, <5>2, OccurrencesRule DEF OccOf
          <6>2. o = Occ(n)
            BY <2>1, <3>2, <5>2 DEF Inherited
          <6> QED
            BY <2>7, <6>1, <6>2
        <5> QED
          BY <5>1, <5>2
      <4> QED
        BY <2>5, <3>2, <4>1, <4>2, PlacesAreUnique
    <3> QED
      BY <3>1, <3>2
  <2> QED
    BY <2>1, <2>4, <2>7, <2>8 DEF Inside, Place
<1> QED
  BY <1>2, <1>3

--------------------------------------------------------------------------------
(***************************************************************************)
(* A document with the children of every node in the order of the schema.  *)
(***************************************************************************)
InsideUpTo(nodes, n) ==
    LET inside == Inside(nodes, n)
    IN  [k \in inside |-> {m \in inside : NotAfter(<<nodes[m].element, m>>, <<nodes[k].element, k>>)}]

LEMMA InsideListed ==
    ASSUME NEW nodes, NodeList(nodes), InUse, NEW n
    PROVE  /\ Inside(nodes, n) \subseteq DOMAIN nodes
           /\ Linear(Inside(nodes, n), InsideUpTo(nodes, n))
           /\ InsideInOrder(nodes, n) = InOrder(Inside(nodes, n), InsideUpTo(nodes, n))
           /\ Enumerates(InsideInOrder(nodes, n), Inside(nodes, n))
           /\ Cardinality(Inside(nodes, n)) \in Nat
           /\ DOMAIN InsideInOrder(nodes, n) = 1 .. Cardinality(Inside(nodes, n))
           /\ \A k \in DOMAIN InsideInOrder(nodes, n) : InsideInOrder(nodes, n)[k] \in Inside(nodes, n)
<1> DEFINE S == Inside(nodes, n)
           E(m) == nodes[m].element
           key == [m \in S |-> <<E(m), m>>]
           UpTo == [k \in S |-> {m \in S : NotAfter(<<E(m), m>>, <<E(k), k>>)}]
           seq == InsideInOrder(nodes, n)
<1>0. S \subseteq DOMAIN nodes /\ Len(nodes) \in Nat /\ DOMAIN nodes = 1 .. Len(nodes)
  BY ListedNodes DEF Inside
<1>1. IsFiniteSet(S) /\ S \subseteq Nat /\ \A m \in S : E(m) \in Nat
  <2>1. IsFiniteSet(1 .. Len(nodes)) /\ 1 .. Len(nodes) \subseteq Nat
    BY <1>0, FS_Interval
  <2>2. \A m \in DOMAIN nodes : E(m) \in Nat
    BY ListedNodes, Tree
  <2> HIDE DEF S, E
  <2> QED
    BY <1>0, <2>1, <2>2, FS_Subset
<1>2. seq = InOrder(S, UpTo) /\ InsideUpTo(nodes, n) = UpTo
  BY DEF InsideInOrder, InsideUpTo
<1> HIDE DEF S, seq, E
<1>3. Linear(S, UpTo)
  <2>1. key \in [S -> Nat \X Nat] /\ \A p, q \in S : key[p] = key[q] => p = q
    BY <1>1
  <2>2. [q \in S |-> {p \in S : NotAfter(key[p], key[q])}] = UpTo
    OBVIOUS
  <2> HIDE DEF key, UpTo
  <2>3. Linear(S, [q \in S |-> {p \in S : NotAfter(key[p], key[q])}])
    BY <1>1, <2>1, OrderIsLinear
  <2> QED
    BY <2>2, <2>3
<1> HIDE DEF UpTo
<1>4. Enumerates(seq, S)
  BY <1>2, <1>3, InOrderLists
<1>5. Cardinality(S) \in Nat /\ DOMAIN seq = 1 .. Cardinality(S) /\ \A k \in DOMAIN seq : seq[k] \in S
  BY <1>4 DEF Enumerates
<1> QED
  BY <1>0, <1>2, <1>3, <1>4, <1>5 DEF S, seq

\* The writer visits the places inside a node in the order of the rearranged document.
LEMMA PlacesInOrder ==
    ASSUME InUse, NEW nodes, Proper(nodes), Filled(nodes), AllAddressable(nodes),
           NEW values, values = Read(nodes), Message(values), NEW n \in 0 .. Len(nodes)
    PROVE  LET visits == VisitsInOrder(values, ElementAt(nodes, n), Inherited(nodes, n))
               inside == InsideInOrder(nodes, n)
           IN  DOMAIN visits = DOMAIN inside /\ \A k \in DOMAIN inside : visits[k] = Place(nodes, inside[k])
<1> DEFINE e == ElementAt(nodes, n)
           occ == Inherited(nodes, n)
           V == Visits(values, e, occ)
           S == Inside(nodes, n)
           g == [m \in S |-> Place(nodes, m)]
           E(m) == nodes[m].element
           Occ(m) == OccOf(nodes, m)
<1>0. /\ NodeList(nodes) /\ S \subseteq DOMAIN nodes /\ DOMAIN nodes \subseteq Nat
      /\ \A m \in DOMAIN nodes : E(m) \in Nat /\ Occ(m) \in Nat
  BY ListedNodes, Entries, Tree DEF Proper, Inside
<1>1. (\A m \in S : Place(nodes, m) \in V) /\ (\A p \in V : \E m \in S : Place(nodes, m) = p)
  BY PlacesAreVisited
<1>2. \A m \in S : Place(nodes, m)[1] = E(m) /\ Place(nodes, m)[2] = Occ(m)
  BY DEF Place
<1>3. \A m, k \in S : Place(nodes, m) = Place(nodes, k) => m = k
  BY <1>0, <1>2, PlacesAreUnique
<1>4. g \in Bijection(S, V)
  <2> HIDE DEF S, V
  <2>1. g \in Injection(S, V)
    BY <1>1, <1>3 DEF Injection, IsInjective
  <2>2. g \in Surjection(S, V)
    BY <1>1 DEF Surjection
  <2> QED
    BY <2>1, <2>2 DEF Bijection
<1>5. ASSUME NEW i \in S, NEW k \in S
      PROVE  NotAfter(<<E(i), i>>, <<E(k), k>>) <=> NotAfter(Place(nodes, i), Place(nodes, k))
  <2>1. i \in Nat /\ k \in Nat /\ E(i) \in Nat /\ E(k) \in Nat /\ Occ(i) \in Nat /\ Occ(k) \in Nat
    BY <1>0
  <2>2. E(i) = E(k) => (i < k => Occ(i) < Occ(k)) /\ (k < i => Occ(k) < Occ(i))
    BY <1>0, NamesakesGrow DEF Inside
  <2>3. E(i) = E(k) => (i <= k <=> Occ(i) <= Occ(k))
    <3> HIDE DEF E, Occ
    <3>1. i = k => Occ(i) = Occ(k)
      OBVIOUS
    <3> QED
      BY <2>1, <2>2, <3>1
  <2>4. NotAfter(Place(nodes, i), Place(nodes, k)) <=> E(i) < E(k) \/ (E(i) = E(k) /\ Occ(i) <= Occ(k))
    BY <1>2 DEF NotAfter
  <2>5. NotAfter(<<E(i), i>>, <<E(k), k>>) <=> E(i) < E(k) \/ (E(i) = E(k) /\ i <= k)
    BY DEF NotAfter
  <2> QED
    BY <2>3, <2>4, <2>5
<1>6. \A i, k \in S : i \in InsideUpTo(nodes, n)[k] <=> g[i] \in VisitsUpTo(values, e, occ)[g[k]]
  <2>1. \A i, k \in S : i \in InsideUpTo(nodes, n)[k] <=> NotAfter(<<E(i), i>>, <<E(k), k>>)
    BY DEF InsideUpTo
  <2>2. \A p, q \in V : p \in VisitsUpTo(values, e, occ)[q] <=> NotAfter(p, q)
    BY DEF VisitsUpTo
  <2>3. \A i \in S : g[i] = Place(nodes, i) /\ g[i] \in V
    BY <1>1
  <2> HIDE DEF V, S, g, e, occ
  <2>4. ASSUME NEW i \in S, NEW k \in S
        PROVE  i \in InsideUpTo(nodes, n)[k] <=> g[i] \in VisitsUpTo(values, e, occ)[g[k]]
    <3>1. i \in InsideUpTo(nodes, n)[k] <=> NotAfter(Place(nodes, i), Place(nodes, k))
      BY <1>5, <2>1
    <3>2. g[i] \in VisitsUpTo(values, e, occ)[g[k]] <=> NotAfter(Place(nodes, i), Place(nodes, k))
      BY <2>2, <2>3
    <3> QED
      BY <3>1, <3>2
  <2> QED
    BY <2>4
<1>7. /\ Linear(S, InsideUpTo(nodes, n)) /\ InsideInOrder(nodes, n) = InOrder(S, InsideUpTo(nodes, n))
      /\ DOMAIN InsideInOrder(nodes, n) = 1 .. Cardinality(S)
      /\ \A k \in DOMAIN InsideInOrder(nodes, n) : InsideInOrder(nodes, n)[k] \in S
  BY <1>0, InsideListed
<1>8. /\ Linear(V, VisitsUpTo(values, e, occ)) /\ VisitsInOrder(values, e, occ) = InOrder(V, VisitsUpTo(values, e, occ))
      /\ DOMAIN VisitsInOrder(values, e, occ) = 1 .. Cardinality(V)
  BY VisitsListed, VisitsAreBelow
<1> HIDE DEF V, S, g
<1> DEFINE U == InsideUpTo(nodes, n)
           W == VisitsUpTo(values, e, occ)
<1>9. OrderedAlike(S, U, V, W, g)
  BY <1>4, <1>6, <1>7, <1>8 DEF OrderedAlike
<1>10. /\ Cardinality(V) = Cardinality(S)
       /\ \A k \in 1 .. Cardinality(S) : InOrder(V, W)[k] = g[InOrder(S, U)[k]]
  <2> HIDE DEF U, W
  <2> QED
    BY <1>9, OrderCarriesOver
<1>11. /\ Cardinality(V) = Cardinality(S)
      /\ \A k \in 1 .. Cardinality(S) : VisitsInOrder(values, e, occ)[k] = g[InsideInOrder(nodes, n)[k]]
  BY <1>7, <1>8, <1>10
<1> QED
  BY <1>7, <1>8, <1>11 DEF g

\* The recursion of Rearranged: what is inside a node comes after it.
RearrangeInside(tree, nodes, n) ==
    LET inside == InsideInOrder(nodes, n) IN Concat([k \in DOMAIN inside |-> tree[inside[k]]])
Rearranges(tree, nodes) ==
    \A n \in 0 .. Len(nodes) :
        tree[n] = (IF n = 0 THEN <<>> ELSE <<nodes[n]>>) \o RearrangeInside(tree, nodes, n)

LEMMA RearrangedRule ==
    ASSUME InUse, NEW nodes, Proper(nodes)
    PROVE  \E tree : Rearranges(tree, nodes) /\ Rearranged(nodes) = tree[0]
<1> DEFINE N == Len(nodes)
           D == 0 .. N
           R == [element : Elements, depth : Nat \ {0}, value : Nat]
           V == Seq(R)
           At(f, n) == (IF n = 0 THEN <<>> ELSE <<nodes[n]>>) \o RearrangeInside(f, nodes, n)
           Eq(f) == [n \in 0 .. Len(nodes) |->
                        LET inside == InsideInOrder(nodes, n)
                        IN  (IF n = 0 THEN <<>> ELSE <<nodes[n]>>)
                               \o Concat([k \in DOMAIN inside |-> f[inside[k]]])]
           rank == [n \in D |-> N - n]
           step == [f \in [D -> V] |-> Eq(f)]
           T == CHOOSE f : f = Eq(f)
<1>0. /\ NodeList(nodes) /\ N \in Nat /\ DOMAIN nodes = 1 .. N /\ nodes \in V
      /\ \A n \in DOMAIN nodes : <<nodes[n]>> \in V
  <2>1. NodeList(nodes) /\ N \in Nat /\ DOMAIN nodes = 1 .. N /\ nodes \in V
    BY ListedNodes DEF Proper, NodeList
  <2>2. \A n \in DOMAIN nodes : nodes[n] \in R
    <3> HIDE DEF R
    <3> QED
      BY <2>1
  <2> QED
    BY <2>1, <2>2
<1>1. ASSUME NEW f PROVE /\ DOMAIN Eq(f) = D /\ Eq(f) = [n \in D |-> Eq(f)[n]]
                         /\ \A n \in D : Eq(f)[n] = At(f, n)
  BY DEF RearrangeInside
<1> HIDE DEF Eq
<1>2. ASSUME NEW n \in D
      PROVE  LET inside == InsideInOrder(nodes, n)
                 C == Cardinality(Inside(nodes, n))
             IN  /\ DOMAIN inside = 1 .. C /\ C \in Nat
                 /\ \A k \in DOMAIN inside : inside[k] \in D /\ inside[k] > n
  <2>1. \A m \in Inside(nodes, n) : m \in D /\ m > n
    <3>1. \A m \in Inside(nodes, n) : m \in DOMAIN nodes /\ Enclosing(nodes, m) = n
      BY DEF Inside
    <3>2. \A m \in DOMAIN nodes : Enclosing(nodes, m) \in 0 .. m - 1
      BY <1>0, SoundNodes DEF Proper
    <3> QED
      BY <1>0, <3>1, <3>2
  <2>2. /\ DOMAIN InsideInOrder(nodes, n) = 1 .. Cardinality(Inside(nodes, n))
        /\ Cardinality(Inside(nodes, n)) \in Nat
        /\ \A k \in DOMAIN InsideInOrder(nodes, n) : InsideInOrder(nodes, n)[k] \in Inside(nodes, n)
    BY <1>0, InsideListed
  <2> HIDE DEF D
  <2> QED
    BY <2>1, <2>2
<1>3. ASSUME NEW f, NEW n \in D, \A k \in D : n < k => f[k] \in V
      PROVE  At(f, n) \in V
  <2> DEFINE inside == InsideInOrder(nodes, n)
             C == Cardinality(Inside(nodes, n))
             pieces == [k \in DOMAIN inside |-> f[inside[k]]]
  <2>1. DOMAIN inside = 1 .. C /\ C \in Nat /\ \A k \in DOMAIN inside : inside[k] \in D /\ n < inside[k]
    BY <1>2
  <2> HIDE DEF inside, C, D
  <2>2. pieces \in [1 .. C -> V]
    BY <1>3, <2>1
  <2>3. RearrangeInside(f, nodes, n) = Concat(pieces)
    BY DEF RearrangeInside, inside
  <2> HIDE DEF pieces, R
  <2>4. RearrangeInside(f, nodes, n) \in V
    BY <2>1, <2>2, <2>3, ConcatTyped
  <2>5. (IF n = 0 THEN <<>> ELSE <<nodes[n]>>) \in V
    BY <1>0 DEF D
  <2> QED
    BY <2>4, <2>5
<1>4. ASSUME NEW f, NEW g, NEW n \in D, \A k \in D : n < k => f[k] = g[k]
      PROVE  At(f, n) = At(g, n)
  <2> DEFINE inside == InsideInOrder(nodes, n)
  <2>1. \A k \in DOMAIN inside : inside[k] \in D /\ n < inside[k]
    BY <1>2
  <2> HIDE DEF inside, D
  <2>2. [k \in DOMAIN inside |-> f[inside[k]]] = [k \in DOMAIN inside |-> g[inside[k]]]
    BY <1>4, <2>1
  <2> QED
    BY <2>2 DEF RearrangeInside, inside
<1> HIDE DEF At, V
<1>5. Recursive(D, V, N, rank, step)
  <2>1. N \in Nat /\ rank \in [D -> 0 .. N]
    BY <1>0
  <2>2. step \in [[D -> V] -> [D -> V]]
    <3>1. ASSUME NEW f \in [D -> V] PROVE Eq(f) \in [D -> V]
      <4>1. \A n \in D : Eq(f)[n] \in V
        BY <1>1, <1>3
      <4> QED
        BY <1>1, <4>1
    <3> QED
      BY <3>1
  <2>3. ASSUME NEW f \in [D -> V], NEW g \in [D -> V], NEW d \in D,
               \A c \in D : rank[c] < rank[d] => f[c] = g[c]
        PROVE  step[f][d] = step[g][d]
    <3>1. \A c \in D : d < c => rank[c] < rank[d]
      BY <1>0
    <3>2. At(f, d) = At(g, d)
      BY <1>4, <2>3, <3>1
    <3> QED
      BY <1>1, <3>2
  <2> HIDE DEF rank, step
  <2> QED
    BY <2>1, <2>2, <2>3 DEF Recursive
<1>6. PICK g : g = Eq(g)
  <2>1. V # {}
    BY <1>0
  <2>2. PICK g \in [D -> V] : g = step[g]
    <3> HIDE DEF rank, step, D, N
    <3> QED
      BY <1>5, <2>1, Recursion
  <2> QED
    BY <2>2
<1>7. T = Eq(T)
  BY <1>6
<1>8. Rearranged(nodes) = T[0]
  BY DEF Rearranged, Eq
<1> HIDE DEF T
<1>9. \A n \in D : T[n] = At(T, n)
  BY <1>1, <1>7
<1> QED
  BY <1>8, <1>9 DEF Rearranges, At

\* Where every value tells its place, writing what was read rearranges the document.
LEMMA WrittenIsRearranged ==
    ASSUME InUse, NEW nodes, Proper(nodes), Accepted(nodes), Filled(nodes),
           \A n \in LeafNodes(nodes) : Addressable(nodes[n].element)
    PROVE  Document(Read(nodes)) = Rearranged(nodes)
<1>0. PICK values : values = Read(nodes)
  OBVIOUS
<1>1. Message(values) /\ AllAddressable(nodes)
  BY <1>0, ReadIsMessage, NodesAreAddressable
<1>2. PICK write : Writes(write, values) /\ Document(values) = WriteBelow(write, values, 0, 1)
  BY <1>1, DocumentIsWritten
<1>3. PICK tree : Rearranges(tree, nodes) /\ Rearranged(nodes) = tree[0]
  BY RearrangedRule
<1> DEFINE N == Len(nodes)
           E(n) == nodes[n].element
           Occ(n) == OccOf(nodes, n)
           Same(n) == write[Place(nodes, n)] = tree[n]
           S == {n \in 0 .. N : n \in DOMAIN nodes => Same(n)}
<1>4. /\ NodeList(nodes) /\ N \in Nat /\ DOMAIN nodes = 1 .. N
      /\ \A n \in DOMAIN nodes : E(n) \in Elements /\ Enclosing(nodes, n) \in 0 .. n - 1
  BY ListedNodes, SoundNodes DEF Proper
<1>5. ASSUME NEW n \in 0 .. N, \A k \in 0 .. N : n < k => k \in S
      PROVE  WriteBelow(write, values, ElementAt(nodes, n), Inherited(nodes, n)) = RearrangeInside(tree, nodes, n)
  <2> DEFINE visits == VisitsInOrder(values, ElementAt(nodes, n), Inherited(nodes, n))
             inside == InsideInOrder(nodes, n)
  <2>1. DOMAIN visits = DOMAIN inside /\ \A k \in DOMAIN inside : visits[k] = Place(nodes, inside[k])
    BY <1>0, <1>1, PlacesInOrder
  <2>2. \A k \in DOMAIN inside : Same(inside[k])
    <3>1. \A k \in DOMAIN inside : inside[k] \in Inside(nodes, n)
      BY <1>4, InsideListed
    <3>2. \A m \in Inside(nodes, n) : m \in DOMAIN nodes /\ n < m
      <4>1. \A m \in Inside(nodes, n) : m \in DOMAIN nodes /\ Enclosing(nodes, m) = n
        BY DEF Inside
      <4> QED
        BY <1>4, <4>1
    <3>3. \A m \in Inside(nodes, n) : m \in 0 .. N /\ m \in S
      BY <1>4, <1>5, <3>2
    <3>4. \A m \in Inside(nodes, n) : Same(m)
      BY <3>2, <3>3
    <3> HIDE DEF Same, inside
    <3> QED
      BY <3>1, <3>4
  <2> HIDE DEF visits, inside
  <2>3. [k \in DOMAIN visits |-> write[visits[k]]] = [k \in DOMAIN inside |-> tree[inside[k]]]
    BY <2>1, <2>2
  <2> QED
    BY <2>3 DEF WriteBelow, RearrangeInside, visits, inside
<1>6. ASSUME NEW n \in 0 .. N, \A k \in 0 .. N : n < k => k \in S, n \in DOMAIN nodes
      PROVE  Same(n)
  <2> DEFINE p == Place(nodes, n)
  <2>0. n # 0
    BY <1>4, <1>6
  <2>1. tree[n] = <<nodes[n]>> \o RearrangeInside(tree, nodes, n)
    BY <1>3, <1>4, <1>6, <2>0 DEF Rearranges
  <2>2. p \in Pairs(values) /\ p[1] = E(n) /\ p[2] = Occ(n)
    <3>1. p \in Visits(values, ElementAt(nodes, Enclosing(nodes, n)), Inherited(nodes, Enclosing(nodes, n)))
      <4>1. n \in Inside(nodes, Enclosing(nodes, n)) /\ Enclosing(nodes, n) \in 0 .. N
        BY <1>4, <1>6 DEF Inside
      <4> QED
        BY <1>0, <1>1, <4>1, PlacesAreVisited
    <3>2. p \in Pairs(values)
      BY <1>1, <3>1, VisitsAreBelow
    <3> QED
      BY <3>2 DEF Place
  <2>3. NodeOf(values, p) = nodes[n]
    <3>1. nodes[n] = [element |-> E(n), depth |-> Depth(E(n)), value |-> nodes[n].value]
      BY <1>4, <1>6, ListedNodes DEF Proper
    <3>2. ValueOf(values, p) = nodes[n].value
      <4>1. CASE Shape[E(n)].leaf
        <5>1. n \in LeafNodes(nodes)
          BY <1>6, <4>1 DEF LeafNodes
        <5>2. /\ Entry(nodes, n) \in values /\ Entry(nodes, n).element = E(n)
              /\ Entry(nodes, n).occ = Occ(n) /\ Entry(nodes, n).value = nodes[n].value
          BY <1>0, <1>4, <1>6, <5>1, Entries
        <5>3. PICK v \in values : v.element = E(n) /\ v.occ = Occ(n) /\ v.value = nodes[n].value
          BY <5>2
        <5>4. ValueOf(values, <<v.element, v.occ>>) = v.value
          BY <1>1, ValueFound
        <5> QED
          BY <5>3, <5>4 DEF Place
      <4>2. CASE ~Shape[E(n)].leaf
        <5>1. nodes[n].value = 0
          BY <1>6, <4>2 DEF Proper, Sound
        <5> QED
          BY <2>2, <4>2, <5>1 DEF ValueOf
      <4> QED
        BY <4>1, <4>2
    <3> QED
      BY <2>2, <3>1, <3>2 DEF NodeOf, Node, Depth
  <2>4. (IF Shape[E(n)].leaf THEN <<>> ELSE WriteBelow(write, values, E(n), Occ(n))) = RearrangeInside(tree, nodes, n)
    <3>1. CASE ~Shape[E(n)].leaf
      <4>1. ElementAt(nodes, n) = E(n) /\ Inherited(nodes, n) = Occ(n)
        BY <2>0 DEF ElementAt, Inherited
      <4> QED
        BY <1>5, <1>6, <3>1, <4>1
    <3>2. CASE Shape[E(n)].leaf
      <4>1. Inside(nodes, n) = {}
        <5>1. ASSUME NEW m \in Inside(nodes, n) PROVE FALSE
          <6>1. m \in DOMAIN nodes /\ Enclosing(nodes, m) = n
            BY DEF Inside
          <6>2. ~Top(E(m)) /\ E(n) = Shape[E(m)].parent
            BY <1>4, <2>0, <6>1, SoundNodes DEF Proper
          <6> QED
            BY <1>4, <3>2, <6>1, <6>2, Tree
        <5> QED
          BY <5>1
      <4> DEFINE inside == InsideInOrder(nodes, n)
                 pieces == [k \in DOMAIN inside |-> tree[inside[k]]]
      <4>2. DOMAIN inside = {}
        BY <1>4, <4>1, FS_EmptySet, InsideListed
      <4>3. pieces = <<>>
        BY <4>2
      <4>4. Len(pieces) = 0
        BY <4>3
      <4>5. RearrangeInside(tree, nodes, n) = Concat(pieces)
        BY DEF RearrangeInside
      <4> HIDE DEF pieces
      <4>6. Concat(pieces) = <<>>
        <5>1. Len(pieces) \in Nat
          BY <4>4
        <5>2. PICK joined : Concat(pieces) = joined[Len(pieces)] /\ joined[0] = <<>>
          BY <5>1, ConcatRule
        <5> QED
          BY <4>4, <5>2
      <4> QED
        BY <3>2, <4>5, <4>6
    <3> QED
      BY <3>1, <3>2
  <2>5. write[p] = <<NodeOf(values, p)>>
                      \o (IF Shape[p[1]].leaf THEN <<>> ELSE WriteBelow(write, values, p[1], p[2]))
    BY <1>2, <2>2 DEF Writes
  <2> HIDE DEF p
  <2> QED
    BY <2>1, <2>2, <2>3, <2>4, <2>5 DEF p
<1>7. 0 .. N \subseteq S
  <2>1. \A n \in 0 .. N : (\A k \in 0 .. N : n < k => k \in S) => n \in S
    BY <1>6
  <2> HIDE DEF S, N
  <2> QED
    BY <1>4, <2>1, Downwards
<1>8. Document(values) = RearrangeInside(tree, nodes, 0)
  <2>1. ElementAt(nodes, 0) = 0 /\ Inherited(nodes, 0) = 1 /\ 0 \in 0 .. N
    BY <1>4 DEF ElementAt, Inherited
  <2> HIDE DEF S, N
  <2> QED
    BY <1>2, <1>5, <1>7, <2>1
<1>9. tree[0] = <<>> \o RearrangeInside(tree, nodes, 0)
  <2>1. 0 \in 0 .. Len(nodes)
    BY <1>4
  <2>2. \A n \in 0 .. Len(nodes) :
            tree[n] = (IF n = 0 THEN <<>> ELSE <<nodes[n]>>) \o RearrangeInside(tree, nodes, n)
    BY <1>3 DEF Rearranges
  <2> QED
    BY <2>1, <2>2
<1>10. Document(values) \in Seq(Nodes(values))
  <2>1. \A p \in Visits(values, 0, 1) : write[p] \in Seq(Nodes(values))
    BY <1>1, <1>2, VisitsAreBelow DEF Writes
  <2> QED
    BY <1>1, <1>2, <2>1, WriteBelowTyped
<1>11. <<>> \o Document(values) = Document(values)
  BY <1>10
<1> QED
  BY <1>0, <1>3, <1>8, <1>9, <1>11

--------------------------------------------------------------------------------
(***************************************************************************)
(* Messages that pass validation, with occurrences numbered from 1.        *)
(***************************************************************************)
Generated(values) ==
    Message(values) /\ Valid(values) /\ Numbered(values) /\ \A v \in values : Addressable(v.element)

\* What repeats, or has nothing repeating around it, has the occurrences before each it has.
LEMMA EarlierOccurrences ==
    ASSUME InUse, NEW values, Generated(values), NEW e \in Elements, Shape[e].repeats \/ Repeating(e) = {},
           NEW v \in values, e \in Path[v.element]
    PROVE  \A k \in 1 .. v.occ : Has(values, e, k)
<1> DEFINE N == v.occ
           S == {m \in 0 .. N : m >= 1 => Has(values, e, m)}
<1>0. /\ Message(values) /\ Numbered(values) /\ N \in Nat
      /\ \A w \in values : w.element \in Elements /\ w.occ \in Nat /\ Addressable(w.element)
  BY DEF Generated, Message
<1>1. ASSUME NEW m \in 0 .. N, \A k \in 0 .. N : m < k => k \in S, m >= 1 PROVE Has(values, e, m)
  <2>1. CASE m = N
    BY <2>1 DEF Has, Within
  <2>2. CASE m < N
    <3>1. Has(values, e, m + 1)
      BY <1>0, <1>1, <2>2
    <3>2. PICK w \in values : e \in Path[w.element] /\ w.occ = m + 1
      BY <3>1 DEF Has, Within
    <3>3. PICK x \in values : /\ x.occ = m
                              /\ x.element = w.element \/ Repeating(w.element) \cap Path[x.element] # {}
      <4>1. w.occ > 1 /\ w.occ - 1 = m
        BY <1>1, <3>2
      <4> QED
        BY <1>0, <4>1 DEF Numbered
    <3>4. e \in Path[x.element]
      <4>1. CASE x.element = w.element
        BY <3>2, <4>1
      <4>2. CASE x.element # w.element
        <5>1. PICK r \in Repeating(w.element) : r \in Path[x.element]
          BY <3>3, <4>2
        <5>2. r \in Path[w.element] /\ Shape[r].repeats /\ w.element \in Elements /\ x.element \in Elements
          BY <1>0 DEF Repeating
        <5>3. CASE Shape[e].repeats
          <6>1. e \in Repeating(w.element) /\ r \in Elements
            BY <3>2, <5>2, <5>3, PathFacts DEF Repeating
          <6>2. r = e
            BY <1>0, <5>2, <6>1, AddressableRule
          <6> QED
            BY <5>1, <6>2
        <5>4. CASE Repeating(e) = {}
          <6>1. r \in Elements /\ r \in Nat /\ e \in Nat
            BY <5>2, PathFacts, Tree
          <6>2. CASE e <= r
            <7>1. e \in Path[r]
              BY <3>2, <5>2, <6>2, PathFacts
            <7> QED
              BY <5>1, <5>2, <7>1, PathFacts
          <6>3. CASE r <= e
            <7>1. r \in Path[e]
              BY <3>2, <5>2, <6>3, PathFacts
            <7> QED
              BY <5>2, <5>4, <7>1 DEF Repeating
          <6> QED
            BY <6>1, <6>2, <6>3
        <5> QED
          BY <5>3, <5>4
      <4> QED
        BY <4>1, <4>2
    <3> QED
      BY <3>3, <3>4 DEF Has, Within
  <2> QED
    BY <1>0, <2>1, <2>2
<1>2. 0 .. N \subseteq S
  <2>1. \A m \in 0 .. N : (\A k \in 0 .. N : m < k => k \in S) => m \in S
    BY <1>1
  <2> HIDE DEF S, N
  <2> QED
    BY <1>0, <2>1, Downwards
<1> QED
  BY <1>0, <1>2

LEMMA GeneratedIsGrounded ==
    ASSUME InUse, NEW values, Generated(values)
    PROVE  Grounded(values)
<1>0. /\ Message(values) /\ Valid(values) /\ Numbered(values) /\ IsFiniteSet(values)
      /\ \A w \in values : w.element \in Elements /\ w.occ \in Nat \ {0} /\ Shape[w.element].leaf
  BY DEF Generated, Message
<1>1. ASSUME NEW v \in values, Repeating(v.element) = {} PROVE v.occ = 1
  <2>1. ASSUME v.occ # 1 PROVE FALSE
    <3>1. PICK w \in values : /\ w.occ = v.occ - 1
                              /\ w.element = v.element \/ Repeating(v.element) \cap Path[w.element] # {}
      <4>1. v.occ > 1
        BY <1>0, <2>1
      <4> QED
        BY <1>0, <4>1 DEF Numbered
    <3>2. w.element = v.element /\ w # v
      BY <1>0, <1>1, <3>1
    <3>3. v \in Within(values, v.element) /\ w \in Within(values, v.element)
      BY <1>0, <3>2, PathFacts DEF Within
    <3>4. IsFiniteSet(Within(values, v.element)) /\ Cardinality(Within(values, v.element)) <= 1
      <4>1. Within(values, v.element) \subseteq values
        BY DEF Within
      <4> QED
        BY <1>0, <1>1, <4>1, FS_Subset DEF Valid
    <3>5. Cardinality({v, w}) = 2 /\ IsFiniteSet({v, w})
      <4>1. IsFiniteSet({v}) /\ Cardinality({v}) = 1 /\ {v} \cup {w} = {v, w}
        BY FS_Singleton
      <4> QED
        BY <3>2, <4>1, FS_AddElement
    <3>6. Cardinality({v, w}) <= Cardinality(Within(values, v.element))
      BY <3>3, <3>4, FS_Subset
    <3>7. Cardinality(Within(values, v.element)) \in Nat
      BY <3>4, FS_CardinalityType
    <3> QED
      BY <3>4, <3>5, <3>6, <3>7
  <2> QED
    BY <2>1
<1>2. ASSUME NEW a \in Elements, Repeating(a) = {}, Within(values, a) # {} PROVE Has(values, a, 1)
  <2>1. PICK v \in values : a \in Path[v.element]
    BY <1>2 DEF Within
  <2>2. \A k \in 1 .. v.occ : Has(values, a, k)
    BY <1>2, <2>1, EarlierOccurrences
  <2>3. 1 \in 1 .. v.occ
    BY <1>0
  <2> QED
    BY <2>2, <2>3
<1> QED
  BY <1>1, <1>2 DEF Grounded

\* What its places tell of a written document.
PlaceOf(L, n) == IF n = 0 THEN <<0, 1>> ELSE L[n]

AllVisited(values, t, L) ==
    \A n \in 0 .. Len(t) : \A p \in Visits(values, PlaceOf(L, n)[1], PlaceOf(L, n)[2]) :
        \E j \in 1 .. Len(t) : Enclosing(t, j) = n /\ L[j] = p

LEMMA WrittenFacts ==
    ASSUME InUse, NEW values, Message(values), NEW t, NEW L, Written(values, t, L)
    PROVE  /\ NodeList(t) /\ Listed(t) /\ DepthsOf(t) /\ Len(t) \in Nat /\ DOMAIN t = 1 .. Len(t)
           /\ \A j \in DOMAIN t :
                 /\ L[j] = <<t[j].element, L[j][2]>> /\ L[j] \in Pairs(values) /\ L[j][2] \in Nat \ {0}
                 /\ t[j].element \in Elements /\ t[j].depth = Depth(t[j].element)
                 /\ t[j].value = ValueOf(values, L[j])
                 /\ Enclosing(t, j) \in 0 .. j - 1
                 /\ Shape[t[j].element].parent = PlaceOf(L, Enclosing(t, j))[1]
                 /\ Has(values, t[j].element, L[j][2])
                 /\ ~Shape[t[j].element].repeats => L[j][2] = PlaceOf(L, Enclosing(t, j))[2]
           /\ \A i, j \in DOMAIN t : i < j /\ Enclosing(t, i) = Enclosing(t, j) => Before(L[i], L[j])
           /\ AllVisited(values, t, L)
<1> DEFINE W == Visits(values, 0, 1)
<1>0. /\ Spells(values, t, L)
      /\ \A j \in 1 .. Len(t) : L[j] \in Expected(values, L, Enclosing(t, j), W)
      /\ \A i, j \in 1 .. Len(t) : i < j /\ Enclosing(t, i) = Enclosing(t, j) => Before(L[i], L[j])
      /\ \A n \in 0 .. Len(t) : \A p \in Expected(values, L, n, W) :
            \E j \in 1 .. Len(t) : Enclosing(t, j) = n /\ L[j] = p
  BY DEF Written, Forest
<1>1. /\ DepthsOf(t) /\ Len(t) \in Nat /\ DOMAIN t = 1 .. Len(t)
      /\ \A j \in 1 .. Len(t) : /\ L[j] \in Pairs(values) /\ L[j][1] \in Elements
                                /\ t[j].element = L[j][1] /\ t[j].value = ValueOf(values, L[j])
                                /\ t[j].depth = Depth(L[j][1])
  BY <1>0, SpelledNodes
<1>2. \A n : Expected(values, L, n, W) = Visits(values, PlaceOf(L, n)[1], PlaceOf(L, n)[2])
  BY DEF Expected, PlaceOf
<1>3. \A j \in DOMAIN t : /\ L[j] = <<t[j].element, L[j][2]>> /\ L[j][2] \in Nat \ {0}
                          /\ Enclosing(t, j) \in 0 .. j - 1
  BY <1>1, OccsOf, EnclosingIs DEF Pairs
<1>4. ASSUME NEW j \in DOMAIN t
      PROVE  /\ Shape[t[j].element].parent = PlaceOf(L, Enclosing(t, j))[1]
             /\ Has(values, t[j].element, L[j][2])
             /\ ~Shape[t[j].element].repeats => L[j][2] = PlaceOf(L, Enclosing(t, j))[2]
  <2> DEFINE a == PlaceOf(L, Enclosing(t, j))[1]
             o == PlaceOf(L, Enclosing(t, j))[2]
  <2>1. L[j] \in Visits(values, a, o)
    BY <1>0, <1>1, <1>2
  <2> HIDE DEF a, o
  <2>2. L[j][1] \in ChildElements(a) /\ L[j][2] \in Visited(values, L[j][1], o) /\ Has(values, L[j][1], L[j][2])
    BY <2>1 DEF Visits
  <2>3. L[j][1] = t[j].element
    BY <1>1
  <2> QED
    BY <2>2, <2>3 DEF ChildElements, Visited, a, o
<1>5. NodeList(t)
  <2> DEFINE R == [element : Elements, depth : Nat \ {0}, value : Nat]
  <2>1. t \in Seq(Nodes(values))
    BY <1>0 DEF Spells
  <2>2. \A j \in DOMAIN t : t[j] \in R
    <3> SUFFICES ASSUME NEW j \in DOMAIN t PROVE t[j] \in R
      OBVIOUS
    <3>1. t[j] = Node(L[j][1], ValueOf(values, L[j])) /\ L[j][1] \in Elements
      BY <1>0, <1>1 DEF Spells, NodeOf
    <3>2. Cardinality(Path[L[j][1]]) \in Nat \ {0}
      BY <3>1, DepthRule DEF Depth
    <3>3. ValueOf(values, L[j]) \in Nat
      <4>1. CASE Shape[L[j][1]].leaf
        <5>1. PICK v \in values : L[j][1] \in Path[v.element] /\ v.occ = L[j][2]
          BY <1>1, <1>4 DEF Has, Within
        <5>2. v.element \in Elements /\ v.value \in Nat /\ ValueOf(values, <<v.element, v.occ>>) = v.value
          BY ValueFound
        <5>3. L[j][1] = v.element
          BY <4>1, <5>1, <5>2, PathFacts
        <5>4. L[j] = <<v.element, v.occ>>
          BY <1>1, <1>3, <5>1, <5>3
        <5> QED
          BY <5>2, <5>4
      <4>2. CASE ~Shape[L[j][1]].leaf
        BY <4>2 DEF ValueOf
      <4> QED
        BY <4>1, <4>2
    <3> QED
      BY <3>1, <3>2, <3>3 DEF Node
  <2>3. t \in Seq(R)
    <3> HIDE DEF R
    <3> QED
      BY <2>1, <2>2
  <2> QED
    BY <2>3 DEF NodeList
<1>6. Listed(t)
  BY <1>5, ListedNodes
<1>7. AllVisited(values, t, L)
  BY <1>0, <1>2 DEF AllVisited
<1> QED
  BY <1>0, <1>1, <1>3, <1>4, <1>5, <1>6, <1>7

\* The reader counts the occurrences that the writer meant.
LEMMA RepeatsAreCounted ==
    ASSUME InUse, NEW values, Generated(values), NEW t, NEW L, Written(values, t, L),
           NEW j \in DOMAIN t, Shape[t[j].element].repeats
    PROVE  Cardinality(Namesakes(t, j)) = L[j][2]
<1> DEFINE e == t[j].element
           o == L[j][2]
           i == Enclosing(t, j)
           Nm == Namesakes(t, j)
           f == [m \in Nm |-> L[m][2]]
<1>0. Message(values)
  BY DEF Generated
<1>1. /\ DepthsOf(t) /\ Len(t) \in Nat /\ DOMAIN t = 1 .. Len(t)
      /\ \A m \in DOMAIN t : L[m] = <<t[m].element, L[m][2]>> /\ L[m][2] \in Nat \ {0} /\ t[m].element \in Elements
      /\ \A m, n \in DOMAIN t : m < n /\ Enclosing(t, m) = Enclosing(t, n) => Before(L[m], L[n])
      /\ i \in 0 .. j - 1 /\ Shape[e].parent = PlaceOf(L, i)[1] /\ Has(values, e, o)
  <2>1. DepthsOf(t) /\ Len(t) \in Nat /\ DOMAIN t = 1 .. Len(t)
    BY <1>0, WrittenFacts
  <2>2. \A m \in DOMAIN t : L[m] = <<t[m].element, L[m][2]>> /\ L[m][2] \in Nat \ {0} /\ t[m].element \in Elements
    BY <1>0, WrittenFacts
  <2>3. \A m, n \in DOMAIN t : m < n /\ Enclosing(t, m) = Enclosing(t, n) => Before(L[m], L[n])
    BY <1>0, WrittenFacts
  <2>4. i \in 0 .. j - 1 /\ Shape[e].parent = PlaceOf(L, i)[1] /\ Has(values, e, o)
    BY <1>0, WrittenFacts
  <2> QED
    BY <2>1, <2>2, <2>3, <2>4
<1>11. AllVisited(values, t, L)
  BY <1>0, WrittenFacts
<1>2. \A m \in Nm : m \in DOMAIN t /\ m <= j /\ t[m].element = e /\ Enclosing(t, m) = i
  BY <1>1, NamesakesAre DEF Namesakes
<1>3. ASSUME NEW m \in DOMAIN t, NEW n \in DOMAIN t, m < n,
             t[m].element = e, t[n].element = e, Enclosing(t, m) = i, Enclosing(t, n) = i
      PROVE  L[m][2] < L[n][2]
  <2>1. Before(L[m], L[n]) /\ L[m][1] = e /\ L[n][1] = e /\ e \in Nat
    <3>1. L[m] = <<e, L[m][2]>> /\ L[n] = <<e, L[n][2]>> /\ Before(L[m], L[n])
      BY <1>1, <1>3
    <3>2. e \in Nat
      BY <1>1, Tree
    <3> QED
      BY <3>1, <3>2
  <2> HIDE DEF e
  <2> QED
    BY <2>1 DEF Before
<1>4. ASSUME NEW k \in 1 .. o PROVE \E m \in Nm : L[m][2] = k
  <2>0. e \in Elements /\ o \in Nat
    BY <1>1
  <2>1. PICK v \in values : e \in Path[v.element] /\ v.occ = o
    BY <1>1 DEF Has, Within
  <2>2. Has(values, e, k)
    BY <1>4, <2>0, <2>1, EarlierOccurrences
  <2>3. PICK w \in values : e \in Path[w.element] /\ w.occ = k
    BY <2>2 DEF Has, Within
  <2>4. <<e, k>> \in Visits(values, Shape[e].parent, PlaceOf(L, i)[2])
    <3>1. k \in Occs(values) /\ k = IF Shape[e].repeats THEN w.occ ELSE PlaceOf(L, i)[2]
      BY <2>3 DEF Occs
    <3> HIDE DEF e, i
    <3> QED
      BY <1>0, <2>0, <2>2, <2>3, <3>1, VisitsOf
  <2>5. PICK m \in DOMAIN t : Enclosing(t, m) = i /\ L[m] = <<e, k>>
    <3>1. i \in 0 .. Len(t)
      BY <1>1
    <3>2. <<e, k>> \in Visits(values, PlaceOf(L, i)[1], PlaceOf(L, i)[2])
      BY <1>1, <2>4
    <3> HIDE DEF i, e
    <3>3. \E m \in 1 .. Len(t) : Enclosing(t, m) = i /\ L[m] = <<e, k>>
      BY <1>11, <3>1, <3>2 DEF AllVisited
    <3> QED
      BY <1>1, <3>3
  <2>6. L[m][2] = k /\ t[m].element = e
    BY <1>1, <2>5
  <2>7. m <= j
    <3>1. j < m => o < k
      BY <1>3, <2>5, <2>6
    <3> QED
      BY <1>1, <1>4, <2>0, <3>1
  <2>8. m \in Nm
    BY <1>1, <2>5, <2>6, <2>7 DEF Namesakes
  <2> QED
    BY <2>6, <2>8
<1>5. \A m \in Nm : L[m][2] \in 1 .. o
  <2> SUFFICES ASSUME NEW m \in Nm PROVE L[m][2] \in 1 .. o
    OBVIOUS
  <2>1. m \in DOMAIN t /\ m <= j /\ t[m].element = e /\ Enclosing(t, m) = i
    BY <1>2
  <2>2. m < j => L[m][2] < o
    BY <1>3, <2>1
  <2>3. L[m][2] \in Nat \ {0} /\ o \in Nat /\ m \in Nat /\ j \in Nat
    BY <1>1, <2>1
  <2> HIDE DEF o, Nm
  <2>4. m = j => L[m][2] = o
    BY DEF o
  <2> QED
    BY <2>1, <2>2, <2>3, <2>4
<1>6. \A m, n \in Nm : L[m][2] = L[n][2] => m = n
  <2> SUFFICES ASSUME NEW m \in Nm, NEW n \in Nm, L[m][2] = L[n][2] PROVE m = n
    OBVIOUS
  <2>1. /\ m \in DOMAIN t /\ t[m].element = e /\ Enclosing(t, m) = i
        /\ n \in DOMAIN t /\ t[n].element = e /\ Enclosing(t, n) = i
    BY <1>2
  <2>2. (m < n => L[m][2] < L[n][2]) /\ (n < m => L[n][2] < L[m][2])
    BY <1>3, <2>1
  <2>3. m \in Nat /\ n \in Nat /\ L[m][2] \in Nat /\ L[n][2] \in Nat
    BY <1>1, <2>1
  <2> HIDE DEF Nm
  <2> QED
    BY <2>2, <2>3
<1>7. f \in Bijection(Nm, 1 .. o)
  <2> HIDE DEF Nm, o
  <2>1. f \in Injection(Nm, 1 .. o)
    BY <1>5, <1>6 DEF Injection, IsInjective
  <2>2. f \in Surjection(Nm, 1 .. o)
    BY <1>4, <1>5 DEF Surjection
  <2> QED
    BY <2>1, <2>2 DEF Bijection
<1>8. IsFiniteSet(Nm)
  BY <1>1, NamesakesAre
<1>9. Cardinality(1 .. o) = Cardinality(Nm)
  <2>1. ExistsBijection(Nm, 1 .. o)
    BY <1>7 DEF ExistsBijection
  <2> HIDE DEF Nm, o
  <2> QED
    BY <1>8, <2>1, FS_Bijection
<1>10. Cardinality(1 .. o) = o
  <2>1. o \in Nat
    BY <1>1
  <2> HIDE DEF o
  <2> QED
    BY <2>1, FS_Interval
<1> QED
  BY <1>9, <1>10

LEMMA OccurrencesAreSpelled ==
    ASSUME InUse, NEW values, Generated(values), NEW t, NEW L, Written(values, t, L)
    PROVE  \A j \in DOMAIN t : OccOf(t, j) = L[j][2]
<1> DEFINE N == Len(t)
           S == {j \in 0 .. N : j \in DOMAIN t => OccOf(t, j) = L[j][2]}
<1>0. Message(values)
  BY DEF Generated
<1>1. /\ Listed(t) /\ N \in Nat /\ DOMAIN t = 1 .. N
      /\ \A j \in DOMAIN t : /\ Enclosing(t, j) \in 0 .. j - 1
                             /\ ~Shape[t[j].element].repeats => L[j][2] = PlaceOf(L, Enclosing(t, j))[2]
  BY <1>0, WrittenFacts
<1>2. ASSUME NEW j \in 0 .. N, \A k \in 0 .. N : k < j => k \in S, j \in DOMAIN t
      PROVE  OccOf(t, j) = L[j][2]
  <2>1. CASE Shape[t[j].element].repeats
    <3>1. OccOf(t, j) = Cardinality(Namesakes(t, j))
      BY <1>1, <1>2, <2>1, OccurrencesRule DEF OccOf
    <3> QED
      BY <1>2, <2>1, <3>1, RepeatsAreCounted
  <2>2. CASE ~Shape[t[j].element].repeats
    <3> DEFINE i == Enclosing(t, j)
    <3>1. OccOf(t, j) = IF i = 0 THEN 1 ELSE OccOf(t, i)
      BY <1>1, <1>2, <2>2, OccurrencesRule DEF OccOf
    <3>2. L[j][2] = PlaceOf(L, i)[2] /\ i \in 0 .. j - 1
      BY <1>1, <1>2, <2>2
    <3>3. i # 0 => OccOf(t, i) = L[i][2]
      <4>1. i # 0 => i \in DOMAIN t /\ i \in 0 .. N /\ i < j
        BY <1>1, <1>2, <3>2
      <4> QED
        BY <1>2, <4>1
    <3> QED
      BY <3>1, <3>2, <3>3 DEF PlaceOf
  <2> QED
    BY <2>1, <2>2
<1>3. 0 .. N \subseteq S
  <2>1. \A j \in 0 .. N : (\A k \in 0 .. N : k < j => k \in S) => j \in S
    BY <1>2
  <2> HIDE DEF S, N
  <2> QED
    BY <1>1, <2>1, Upwards
<1> QED
  BY <1>1, <1>3

\* It finds no error at a node that was written.
LEMMA WrittenIsProper ==
    ASSUME InUse, NEW values, Generated(values), NEW t, NEW L, Written(values, t, L)
    PROVE  Proper(t)
<1>0. Message(values)
  BY DEF Generated
<1>1. /\ NodeList(t) /\ DepthsOf(t) /\ Len(t) \in Nat /\ DOMAIN t = 1 .. Len(t)
      /\ \A j \in DOMAIN t :
            /\ L[j] = <<t[j].element, L[j][2]>> /\ L[j][2] \in Nat
            /\ t[j].element \in Elements /\ t[j].depth = Depth(t[j].element)
            /\ t[j].value = ValueOf(values, L[j])
            /\ Enclosing(t, j) \in 0 .. j - 1
            /\ Shape[t[j].element].parent = PlaceOf(L, Enclosing(t, j))[1]
            /\ Has(values, t[j].element, L[j][2])
            /\ ~Shape[t[j].element].repeats => L[j][2] = PlaceOf(L, Enclosing(t, j))[2]
      /\ \A i, j \in DOMAIN t : i < j /\ Enclosing(t, i) = Enclosing(t, j) => Before(L[i], L[j])
  BY <1>0, WrittenFacts
<1>2. ASSUME NEW j \in DOMAIN t PROVE Sound(t, j)
  <2> DEFINE e == t[j].element
             i == Enclosing(t, j)
  <2>1. Shape[e].parent = IF i = 0 THEN 0 ELSE t[i].element
    <3>1. i # 0 => i \in DOMAIN t /\ L[i] = <<t[i].element, L[i][2]>>
      BY <1>1
    <3> QED
      BY <1>1, <3>1 DEF PlaceOf
  <2>2. ASSUME ~Shape[e].repeats PROVE Namesakes(t, j) = {j}
    <3>1. j \in Namesakes(t, j) /\ Namesakes(t, j) \subseteq 1 .. j
      BY <1>1, NamesakesAre
    <3>2. ASSUME NEW m \in Namesakes(t, j), m # j PROVE FALSE
      <4>1. m \in DOMAIN t /\ m < j /\ t[m].element = e /\ Enclosing(t, m) = i
        BY <1>1, <3>1, <3>2 DEF Namesakes
      <4>2. L[m] = <<e, PlaceOf(L, i)[2]>> /\ L[j] = <<e, PlaceOf(L, i)[2]>>
        BY <1>1, <2>2, <4>1
      <4>3. Before(L[m], L[j])
        BY <1>1, <4>1
      <4>4. L[m] = L[j] /\ L[j][1] \in Nat /\ L[j][2] \in Nat
        <5>1. e \in Nat
          BY <1>1, Tree
        <5> QED
          BY <1>1, <4>2, <5>1
      <4> QED
        BY <4>3, <4>4 DEF Before
    <3> QED
      BY <3>1, <3>2
  <2>3. Shape[e].leaf <=> t[j].value # 0
    <3>1. t[j].value = ValueOf(values, L[j]) /\ L[j][1] = e
      BY <1>1
    <3>2. CASE Shape[e].leaf
      <4>1. PICK v \in values : e \in Path[v.element] /\ v.occ = L[j][2]
        BY <1>1 DEF Has, Within
      <4>2. v.element \in Elements /\ v.value # 0 /\ ValueOf(values, <<v.element, v.occ>>) = v.value
        BY <1>0, ValueFound
      <4>3. e = v.element
        BY <3>2, <4>1, <4>2, PathFacts
      <4> QED
        BY <1>1, <3>1, <3>2, <4>1, <4>2, <4>3
    <3>3. CASE ~Shape[e].leaf
      BY <3>1, <3>3 DEF ValueOf
    <3> QED
      BY <3>2, <3>3
  <2> QED
    BY <2>1, <2>2, <2>3 DEF Sound
<1> QED
  BY <1>1, <1>2 DEF Proper

LEMMA WrittenIsAddressable ==
    ASSUME InUse, NEW values, Generated(values), NEW t, NEW L, Written(values, t, L)
    PROVE  AllAddressable(t)
<1>1. Message(values)
  BY DEF Generated
<1>2. \A j \in DOMAIN t : Has(values, t[j].element, L[j][2])
  BY <1>1, WrittenFacts
<1>3. ASSUME NEW j \in DOMAIN t PROVE Addressable(t[j].element)
  <2>1. PICK v \in values : t[j].element \in Path[v.element]
    BY <1>2 DEF Has, Within
  <2>2. v.element \in Elements /\ Addressable(v.element)
    BY <1>1 DEF Generated, Message
  <2> QED
    BY <2>1, <2>2, AddressableRule
<1> QED
  BY <1>3 DEF AllAddressable

\* A leaf that was written is read as the value it was written for.
LEMMA LeavesAreRead ==
    ASSUME InUse, NEW values, Generated(values), NEW t, NEW L, Written(values, t, L),
           NEW j \in LeafNodes(t)
    PROVE  Entry(t, j) \in values /\ L[j] = <<Entry(t, j).element, Entry(t, j).occ>>
<1>0. Message(values) /\ j \in DOMAIN t /\ Shape[t[j].element].leaf
  BY DEF Generated, LeafNodes
<1>1. /\ L[j] = <<t[j].element, L[j][2]>> /\ t[j].value = ValueOf(values, L[j])
      /\ Has(values, t[j].element, L[j][2])
  BY <1>0, WrittenFacts
<1>2. PICK v \in values : t[j].element \in Path[v.element] /\ v.occ = L[j][2]
  BY <1>1 DEF Has, Within
<1>3. /\ v = [element |-> v.element, occ |-> v.occ, value |-> v.value] /\ v.element \in Elements
      /\ ValueOf(values, <<v.element, v.occ>>) = v.value
  BY <1>0, ValueFound
<1>4. t[j].element = v.element
  BY <1>0, <1>2, <1>3, PathFacts
<1>5. OccOf(t, j) = L[j][2]
  BY <1>0, OccurrencesAreSpelled
<1>6. Entry(t, j) = [element |-> v.element, occ |-> v.occ, value |-> v.value]
  BY <1>1, <1>2, <1>3, <1>4, <1>5 DEF Entry
<1>7. Entry(t, j) = v
  BY <1>3, <1>6
<1> QED
  BY <1>1, <1>2, <1>4, <1>7

LEMMA WrittenIsRead ==
    ASSUME InUse, NEW values, Generated(values), NEW t, NEW L, Written(values, t, L)
    PROVE  Read(t) = values
<1>0. Message(values) /\ Grounded(values) /\ NodeList(t) /\ DOMAIN t = 1 .. Len(t)
  BY GeneratedIsGrounded, WrittenIsProper, ListedNodes DEF Generated, Proper
<1>1. Read(t) = {Entry(t, n) : n \in LeafNodes(t)}
  BY <1>0, Entries
<1>2. \A n \in LeafNodes(t) : Entry(t, n) \in values
  BY LeavesAreRead
<1>3. ASSUME NEW v \in values PROVE \E n \in LeafNodes(t) : Entry(t, n) = v
  <2>1. \A w \in values : \E j \in 1 .. Len(t) : L[j] = <<w.element, w.occ>>
    <3>1. AllReached(values, t, L)
      BY <1>0, ValuesAreReached
    <3> QED
      BY <3>1 DEF AllReached
  <2>2. PICK j \in 1 .. Len(t) : L[j] = <<v.element, v.occ>>
    BY <2>1
  <2>3. j \in DOMAIN t /\ L[j] = <<t[j].element, L[j][2]>>
    BY <1>0, WrittenFacts
  <2>4. j \in LeafNodes(t)
    <3>1. t[j].element = v.element /\ Shape[v.element].leaf
      BY <1>0, <2>2, <2>3 DEF Message
    <3> QED
      BY <2>3, <3>1 DEF LeafNodes
  <2>5. Entry(t, j) \in values /\ L[j] = <<Entry(t, j).element, Entry(t, j).occ>>
    BY <2>4, LeavesAreRead
  <2>6. Entry(t, j).element = v.element /\ Entry(t, j).occ = v.occ
    BY <2>2, <2>5
  <2>7. Entry(t, j) = v
    BY <1>0, <2>5, <2>6 DEF Message
  <2> QED
    BY <2>4, <2>7
<1> QED
  BY <1>1, <1>2, <1>3

LEMMA WrittenIsAccepted ==
    ASSUME InUse, NEW values, Generated(values), values # {}, NEW t, NEW L, Written(values, t, L)
    PROVE  Accepted(t)
<1>1. Proper(t) /\ AllAddressable(t)
  BY WrittenIsProper, WrittenIsAddressable
<1>2. \A m, n \in LeafNodes(t) : Claim(t, m) = Claim(t, n) => m = n
  <2>1. LeafNodes(t) \subseteq DOMAIN t
    BY DEF LeafNodes
  <2>2. \A m, n \in DOMAIN t : t[m].element = t[n].element /\ OccOf(t, m) = OccOf(t, n) => m = n
    BY <1>1, PlacesAreUnique
  <2> QED
    BY <2>1, <2>2 DEF Claim, OccOf
<1>3. LeafNodes(t) # {}
  <2>1. Read(t) = values /\ Read(t) = {Entry(t, n) : n \in LeafNodes(t)}
    BY <1>1, WrittenIsRead, Entries DEF Proper
  <2> QED
    BY <2>1
<1> QED
  BY <1>1, <1>2, <1>3 DEF Accepted, Proper

\* The visit of a child that a value needs is written inside its parent.
LEMMA ChildIsWritten ==
    ASSUME InUse, NEW values, Generated(values), NEW t, NEW L, Written(values, t, L),
           NEW n \in 0 .. Len(t), NEW c \in Elements, Shape[c].parent = PlaceOf(L, n)[1],
           NEW v \in values, c \in Path[v.element], Shape[c].repeats \/ v.occ = PlaceOf(L, n)[2]
    PROVE  \E m \in Inside(t, n) : t[m].element = c
<1> DEFINE a == PlaceOf(L, n)[1]
           o == PlaceOf(L, n)[2]
<1>0. Message(values)
  BY DEF Generated
<1>1. Has(values, c, v.occ) /\ v.occ \in Occs(values)
  BY DEF Has, Within, Occs
<1>2. <<c, v.occ>> \in Visits(values, a, o)
  <2>1. v.occ = IF Shape[c].repeats THEN v.occ ELSE o
    OBVIOUS
  <2>2. Shape[c].parent = a
    OBVIOUS
  <2> HIDE DEF a, o
  <2>3. <<c, v.occ>> \in Visits(values, Shape[c].parent, o)
    BY <1>0, <1>1, <2>1, VisitsOf
  <2> QED
    BY <2>2, <2>3
<1>3. AllVisited(values, t, L) /\ DOMAIN t = 1 .. Len(t)
  BY <1>0, WrittenFacts
<1>4. PICK m \in 1 .. Len(t) : Enclosing(t, m) = n /\ L[m] = <<c, v.occ>>
  BY <1>2, <1>3 DEF AllVisited
<1>5. L[m] = <<t[m].element, L[m][2]>>
  BY <1>0, <1>3, WrittenFacts
<1> QED
  BY <1>3, <1>4, <1>5 DEF Inside

LEMMA WrittenIsComplete ==
    ASSUME InUse, NEW values, Generated(values), NEW t, NEW L, Written(values, t, L)
    PROVE  Complete(t)
<1> DEFINE Held(n) == {t[m].element : m \in Inside(t, n)}
           E(n) == t[n].element
<1>0. Message(values) /\ Valid(values) /\ Grounded(values) /\ Proper(t) /\ NodeList(t)
  BY GeneratedIsGrounded, WrittenIsProper DEF Generated, Proper
<1>1. /\ Len(t) \in Nat /\ DOMAIN t = 1 .. Len(t)
      /\ \A j \in DOMAIN t :
            /\ L[j] = <<E(j), L[j][2]>> /\ E(j) \in Elements
            /\ Shape[E(j)].parent = PlaceOf(L, Enclosing(t, j))[1]
            /\ Has(values, E(j), L[j][2])
  BY <1>0, WrittenFacts
<1>2. ASSUME NEW n \in DOMAIN t, Shape[E(n)].choice PROVE Cardinality(Held(n)) = 1
  <2> DEFINE U == {c \in ChildElements(E(n)) : Used(values, c)}
  <2>0. n # 0 /\ n \in 0 .. Len(t) /\ PlaceOf(L, n) = L[n] /\ L[n][1] = E(n) /\ E(n) \in Elements
    BY <1>1 DEF PlaceOf
  <2>1. Held(n) \subseteq U
    <3> SUFFICES ASSUME NEW m \in Inside(t, n) PROVE E(m) \in U
      OBVIOUS
    <3>1. m \in DOMAIN t /\ Enclosing(t, m) = n
      BY DEF Inside
    <3>2. Shape[E(m)].parent = E(n) /\ E(m) \in Elements /\ Has(values, E(m), L[m][2])
      BY <1>1, <2>0, <3>1
    <3> QED
      BY <3>2 DEF ChildElements, Used, Has
  <2>2. IsFiniteSet(U) /\ Cardinality(U) <= 1
    <3>1. U \subseteq Elements /\ IsFiniteSet(Elements)
      BY Tree, FS_Interval DEF ChildElements
    <3>2. Cardinality(U) <= 1
      BY <1>0, <1>2, <2>0 DEF Valid
    <3> QED
      BY <3>1, <3>2, FS_Subset
  <2>3. Held(n) # {}
    <3>1. PICK v \in values : E(n) \in Path[v.element] /\ v.occ = L[n][2]
      BY <1>1, <1>2 DEF Has, Within
    <3>2. v.element \in Elements /\ Shape[v.element].leaf /\ ~Shape[E(n)].leaf
      BY <1>0, <1>2, <2>0, Tree DEF Message
    <3>3. PICK c \in Path[v.element] : ~Top(c) /\ Shape[c].parent = E(n)
      BY <3>1, <3>2, PathFacts
    <3>4. c \in Elements
      BY <3>2, PathFacts
    <3>5. \E m \in Inside(t, n) : t[m].element = c
      BY <2>0, <3>1, <3>3, <3>4, ChildIsWritten
    <3> QED
      BY <3>5
  <2>4. IsFiniteSet(Held(n)) /\ Cardinality(Held(n)) \in Nat /\ Cardinality(Held(n)) <= Cardinality(U)
    <3> HIDE DEF U, Held
    <3> QED
      BY <2>1, <2>2, FS_Subset, FS_CardinalityType
  <2>5. Cardinality(Held(n)) # 0
    BY <2>3, <2>4, FS_EmptySet
  <2>6. Cardinality(U) \in Nat
    BY <2>2, FS_CardinalityType
  <2> QED
    BY <2>2, <2>4, <2>5, <2>6
<1>3. ASSUME NEW e \in Elements, Shape[e].mandatory, Repeating(e) \subseteq {e}, NEW n \in 0 .. Len(t),
             Shape[e].parent = (IF n = 0 THEN 0 ELSE E(n))
      PROVE  e \in Held(n)
  <2>1. PlaceOf(L, n)[1] = Shape[e].parent
    BY <1>1, <1>3 DEF PlaceOf
  <2>2. n # 0 => Used(values, E(n)) /\ n \in DOMAIN t
    BY <1>1 DEF Has, Used
  <2>3. Used(values, e)
    BY <1>0, <1>3, <2>2 DEF Valid
  <2>4. PlaceOf(L, n)[2] = 1
    <3>1. CASE n = 0
      BY <3>1 DEF PlaceOf
    <3>2. CASE n # 0
      <4>1. E(n) \in Elements /\ Shape[e].parent = E(n) /\ ~Top(e)
        BY <1>1, <1>3, <2>2, <3>2, Tree DEF Top
      <4>2. E(n) \in Path[e] /\ E(n) # e /\ e \notin Path[E(n)]
        BY <1>3, <4>1, PathFacts, Tree
      <4>3. Repeating(E(n)) = {}
        <5>1. Repeating(E(n)) \subseteq Repeating(e)
          BY <4>2, RepeatingRule
        <5>2. e \notin Repeating(E(n))
          BY <4>2 DEF Repeating
        <5> QED
          BY <1>3, <5>1, <5>2
      <4>4. OccOf(t, n) = 1 /\ OccOf(t, n) = L[n][2]
        BY <1>0, <2>2, <3>2, <4>3, UnrepeatedIsFirst, OccurrencesAreSpelled
      <4> QED
        BY <3>2, <4>4 DEF PlaceOf
    <3> QED
      BY <3>1, <3>2
  <2>5. PICK v \in values : e \in Path[v.element] /\ (Shape[e].repeats \/ v.occ = 1)
    <3>1. CASE Shape[e].repeats
      BY <2>3, <3>1 DEF Used, Within
    <3>2. CASE ~Shape[e].repeats
      <4>1. Repeating(e) = {}
        BY <1>3, <3>2 DEF Repeating
      <4>2. Has(values, e, 1)
        BY <1>0, <2>3, <4>1 DEF Grounded, Used
      <4> QED
        BY <4>2 DEF Has, Within
    <3> QED
      BY <3>1, <3>2
  <2>6. \E m \in Inside(t, n) : t[m].element = e
    BY <2>1, <2>4, <2>5, ChildIsWritten
  <2> QED
    BY <2>6
<1> HIDE DEF E
<1>4. /\ \A n \in DOMAIN t : Shape[t[n].element].choice => Cardinality({t[m].element : m \in Inside(t, n)}) = 1
      /\ \A e \in Elements : Shape[e].mandatory /\ Repeating(e) \subseteq {e} =>
            \A n \in 0 .. Len(t) : Shape[e].parent = (IF n = 0 THEN 0 ELSE t[n].element) =>
                e \in {t[m].element : m \in Inside(t, n)}
  BY <1>2, <1>3 DEF E
<1> QED
  BY <1>4 DEF Complete

--------------------------------------------------------------------------------
(***************************************************************************)
(* Documents that are imported and messages that are filled in.            *)
(***************************************************************************)
MxInv == InUse /\ Imported(document) /\ Message(supplied)

LEMMA MxInvInitially == MxInit => MxInv
<1> SUFFICES ASSUME MxInit PROVE MxInv
  OBVIOUS
<1>1. document = <<>> /\ supplied = {} /\ InUse
  BY DEF MxInit, InUse
<1>2. Imported(document)
  BY <1>1 DEF Imported, NodeList
<1>3. Message(supplied)
  BY <1>1, FS_EmptySet DEF Message
<1> QED
  BY <1>1, <1>2, <1>3 DEF MxInv

LEMMA PastesKeeps ==
    ASSUME MxInv, NEW e \in Elements, NEW depth \in 1 .. MaxNodes, NEW filled \in BOOLEAN,
           Pastes(e, depth, filled)
    PROVE  MxInv'
<1> DEFINE R == [element : Elements, depth : Nat \ {0}, value : Nat]
           new == [element |-> e, depth |-> depth, value |-> IF filled THEN Len(document) + 1 ELSE 0]
           N == Len(document)
<1>1. /\ InUse /\ document \in Seq(R)
      /\ \A n \in DOMAIN document : document[n].depth <= 1 + (IF n = 1 THEN 0 ELSE document[n - 1].depth)
  BY DEF MxInv, Imported, NodeList
<1>2. /\ schema' = schema /\ supplied' = supplied /\ document' = Append(document, new)
      /\ depth <= 1 + (IF document = <<>> THEN 0 ELSE Last(document).depth)
  BY DEF Pastes
<1>3. MaxNodes \in Nat
  BY SchemasAreTrees
<1>4. N \in Nat /\ new \in R /\ new.depth = depth /\ depth \in Nat
  <2>1. N \in Nat
    BY <1>1
  <2>2. depth \in Nat \ {0}
    BY <1>3
  <2> QED
    BY <2>1, <2>2
<1> HIDE DEF R, new
<1>5. document' \in Seq(R) /\ Len(document') = N + 1 /\ DOMAIN document' = 1 .. N + 1 /\ DOMAIN document = 1 .. N
  BY <1>1, <1>2, <1>4
<1>6. document'[N + 1] = new /\ \A n \in 1 .. N : document'[n] = document[n]
  BY <1>1, <1>2, <1>4
<1>7. ASSUME NEW n \in 1 .. N + 1
      PROVE  document'[n].depth <= 1 + (IF n = 1 THEN 0 ELSE document'[n - 1].depth)
  <2>1. CASE n = N + 1
    <3>1. n # 1 => document # <<>> /\ document'[n - 1] = Last(document)
      <4>1. n # 1 => N # 0 /\ n - 1 = N /\ n - 1 \in 1 .. N
        BY <1>4, <2>1
      <4>2. document = <<>> => N = 0
        OBVIOUS
      <4> QED
        BY <1>6, <4>1, <4>2 DEF Last
    <3>2. n = 1 => document = <<>>
      <4>1. n = 1 => N = 0
        BY <1>4, <2>1
      <4>2. N = 0 => document = <<>>
        BY <1>1
      <4> QED
        BY <4>1, <4>2
    <3> QED
      BY <1>2, <1>4, <1>6, <2>1, <3>1, <3>2
  <2>2. CASE n # N + 1
    <3>1. n \in 1 .. N /\ (n # 1 => n - 1 \in 1 .. N)
      BY <1>4, <2>2
    <3> QED
      BY <1>1, <1>5, <1>6, <3>1
  <2> QED
    BY <2>1, <2>2
<1>8. Imported(document)'
  <2>1. Elements' = Elements
    BY <1>2 DEF Elements, Shape
  <2>2. NodeList(document)'
    BY <1>5, <2>1 DEF NodeList, R
  <2>3. \A n \in DOMAIN document' : document'[n].depth <= 1 + (IF n = 1 THEN 0 ELSE document'[n - 1].depth)
    BY <1>5, <1>7
  <2> QED
    BY <2>2, <2>3 DEF Imported
<1>9. Message(supplied)' /\ InUse'
  BY <1>1, <1>2 DEF MxInv, Message, InUse, Elements, Shape
<1> QED
  BY <1>8, <1>9 DEF MxInv

LEMMA SuppliesKeeps ==
    ASSUME MxInv, NEW e \in Elements, NEW occ \in 1 .. MaxRepeat, Supplies(e, occ)
    PROVE  MxInv'
<1> DEFINE new == [element |-> e, occ |-> occ, value |-> MaxRepeat * e + occ]
           R == [element : Elements, occ : Nat \ {0}, value : Nat \ {0}]
<1>1. /\ schema' = schema /\ document' = document /\ supplied' = supplied \cup {new}
      /\ Shape[e].leaf /\ ~\E v \in supplied : v.element = e /\ v.occ = occ
  BY DEF Supplies
<1>2. new \in R
  <2>1. MaxRepeat \in Nat /\ e \in Nat /\ occ \in Nat \ {0}
    BY SchemasAreTrees, Tree DEF MxInv
  <2>2. MaxRepeat * e \in Nat
    BY <2>1
  <2> DEFINE x == MaxRepeat * e
  <2>3. x \in Nat
    BY <2>2
  <2> HIDE DEF x
  <2>4. x + occ \in Nat \ {0}
    BY <2>1, <2>3
  <2>5. new = [element |-> e, occ |-> occ, value |-> x + occ]
    BY DEF x
  <2> HIDE DEF new
  <2> QED
    BY <2>1, <2>4, <2>5
<1>3. /\ IsFiniteSet(supplied) /\ supplied \subseteq R
      /\ \A v \in supplied : Shape[v.element].leaf
      /\ \A v, w \in supplied : v.element = w.element /\ v.occ = w.occ => v = w
  BY DEF MxInv, Message
<1>4. new.element = e /\ new.occ = occ
  OBVIOUS
<1> HIDE DEF new, R
<1>5. /\ IsFiniteSet(supplied') /\ supplied' \subseteq R
      /\ \A v \in supplied' : Shape[v.element].leaf
      /\ \A v, w \in supplied' : v.element = w.element /\ v.occ = w.occ => v = w
  BY <1>1, <1>2, <1>3, <1>4, FS_AddElement
<1>6. Shape' = Shape /\ Elements' = Elements
  BY <1>1 DEF Shape, Elements
<1>7. Message(supplied)'
  BY <1>5, <1>6 DEF Message, R
<1>8. Imported(document)' /\ InUse'
  BY <1>1, <1>6 DEF MxInv, Imported, NodeList, InUse
<1> QED
  BY <1>7, <1>8 DEF MxInv

\* Every document is imported and every message filled in as MxInv says.
THEOREM MxInvHolds == MxSpec => []MxInv
<1>1. MxInv /\ [MxNext]_mxVars => MxInv'
  <2> SUFFICES ASSUME MxInv, [MxNext]_mxVars PROVE MxInv'
    OBVIOUS
  <2>1. ASSUME NEW e \in Elements, NEW depth \in 1 .. MaxNodes, NEW filled \in BOOLEAN, Pastes(e, depth, filled)
        PROVE  MxInv'
    BY <2>1, PastesKeeps
  <2>2. ASSUME NEW e \in Elements, NEW occ \in 1 .. MaxRepeat, Supplies(e, occ) PROVE MxInv'
    BY <2>2, SuppliesKeeps
  <2>3. ASSUME UNCHANGED mxVars PROVE MxInv'
    BY <2>3 DEF mxVars, MxInv, InUse, Imported, NodeList, Message, Elements, Shape
  <2> QED
    BY <2>1, <2>2, <2>3 DEF MxNext
<1> QED
  BY <1>1, MxInvInitially, PTL DEF MxSpec

\* An imported document keeps its values and, where every value tells its place, its shape.
LEMMA ImportsAreKept == MxInv => ImportIsKept
<1> SUFFICES ASSUME MxInv, Accepted(document),
                    \A n \in DOMAIN document \ LeafNodes(document) : Inside(document, n) # {}
             PROVE  /\ \A n \in LeafNodes(document) :
                          Node(document[n].element, document[n].value) \in Range(Document(Read(document)))
                    /\ (\A n \in LeafNodes(document) : Addressable(document[n].element))
                          => Document(Read(document)) = Rearranged(document)
  BY DEF ImportIsKept
<1>1. PICK nodes : nodes = document
  OBVIOUS
<1>2. InUse /\ Imported(nodes) /\ Accepted(nodes) /\ Filled(nodes)
  BY <1>1 DEF MxInv, Filled
<1>3. Proper(nodes)
  BY <1>2, ImportsAreProper DEF Accepted
<1>4. \A n \in LeafNodes(nodes) : Node(nodes[n].element, nodes[n].value) \in Range(Document(Read(nodes)))
  BY <1>2, <1>3, ValuesAreKept
<1>5. (\A n \in LeafNodes(nodes) : Addressable(nodes[n].element)) => Document(Read(nodes)) = Rearranged(nodes)
  BY <1>2, <1>3, WrittenIsRearranged
<1> QED
  BY <1>1, <1>4, <1>5

\* A message that is valid, numbered and addressable is read back as it was.
LEMMA MessagesAreRead == MxInv => GeneratedIsRead
<1> SUFFICES ASSUME MxInv, supplied # {}, Valid(supplied), Numbered(supplied),
                    \A v \in supplied : Addressable(v.element)
             PROVE  /\ Complete(Document(supplied)) /\ Accepted(Document(supplied))
                    /\ Read(Document(supplied)) = supplied
  BY DEF GeneratedIsRead
<1>1. PICK values : values = supplied
  OBVIOUS
<1>2. InUse /\ Message(values) /\ Generated(values) /\ values # {}
  BY <1>1 DEF MxInv, Generated
<1>3. PICK t, L : t = Document(values) /\ Written(values, t, L)
  BY <1>2, DocumentSpells DEF Written
<1>4. Complete(t) /\ Accepted(t) /\ Read(t) = values
  BY <1>2, <1>3, WrittenIsComplete, WrittenIsAccepted, WrittenIsRead
<1> QED
  BY <1>1, <1>3, <1>4

\* What generator.py writes and parser.py reads agree, for every schema: DocumentsRoundTrip.
THEOREM DocumentsAlwaysRoundTrip == MxSpec => []DocumentsRoundTrip
<1>1. MxInv => DocumentsRoundTrip
  BY ImportsAreKept, MessagesAreRead DEF DocumentsRoundTrip
<1> QED
  BY <1>1, MxInvHolds, PTL

================================================================================
