----------------------------- MODULE HeapLemmas -----------------------------
(***************************************************************************)
(* What holds of free lists and of the blocks of a memory, whatever memory *)
(* it is: an ordered list after an insertion, a removal and a replacement, *)
(* the division of an arena into blocks after a frame, a split and a       *)
(* merge, and the sum of a function over a finite set.                     *)
(***************************************************************************)
EXTENDS Heap, FiniteSetTheorems, WellFoundedInduction, TLAPS

-----------------------------------------------------------------------------
(* Least elements                                                          *)

LEMMA Least ==
  ASSUME NEW S, S \subseteq Nat, S # {}
  PROVE  \E x \in S : \A y \in S : x <= y
<1> DEFINE R == {ss \in Nat \X Nat : ss[1] < ss[2]}
<1>1. IsWellFoundedOn(R, Nat)
  BY NatLessThanWellFounded DEF OpToRel
<1>2. PICK x \in S : \A y \in S : <<y, x>> \notin R
  BY <1>1, WFMin, Zenon
<1>3. ASSUME NEW y \in S PROVE x <= y
  <2>1. x \in Nat /\ y \in Nat
    OBVIOUS
  <2>2. ~(y < x)
    BY <1>2, <2>1
  <2> QED
    BY <2>1, <2>2
<1> QED
  BY <1>3

LEMMA MinIsLeast ==
  ASSUME NEW S, S \subseteq Nat, S # {}
  PROVE  Min(S) \in S /\ \A y \in S : Min(S) <= y
BY Least DEF Min

-----------------------------------------------------------------------------
(* A free list in address order                                            *)

\* x is what follows address b in a list of the blocks F.
After(x, b, F) ==
  IF x = NULL THEN \A c \in F : c <= b
  ELSE x \in F /\ x > b /\ \A c \in F : c > b => x <= c

\* From head, the links of memory m lead through F in address order.
Chain(m, F, head) ==
  /\ After(head, 0, F)
  /\ \A b \in F : After(m[b + 1], b, F)

\* The link behind position p: the head, or that of a block.
Link(m, head, p) == IF p = NULL THEN head ELSE m[p + 1]

LEMMA AfterIsFirst ==
  ASSUME NEW F, F \subseteq Nat \ {0}, NEW b \in Nat, NEW x, After(x, b, F)
  PROVE  x = First({c \in F : c > b})
<1> DEFINE S == {c \in F : c > b}
<1>1. CASE x = NULL
  <2>1. \A c \in F : ~(c > b)
    BY <1>1 DEF After
  <2> QED
    BY <1>1, <2>1 DEF First
<1>2. CASE x # NULL
  <2>1. x \in S /\ \A y \in S : x <= y
    BY <1>2 DEF After
  <2>2. Min(S) \in S /\ \A y \in S : Min(S) <= y
    BY <2>1, MinIsLeast
  <2>3. x = Min(S)
    <3>1. x \in Nat /\ Min(S) \in Nat /\ x <= Min(S) /\ Min(S) <= x
      BY <2>1, <2>2
    <3> QED
      BY <3>1
  <2> QED
    BY <2>1, <2>3 DEF First
<1> QED
  BY <1>1, <1>2

\* The list that a merge has left leads only to its own blocks.
LEMMA ChainLink ==
  ASSUME NEW m, NEW F, NEW head, Chain(m, F, head), NEW b \in F
  PROVE  m[b + 1] \in F \cup {NULL}
BY DEF Chain, After

LEMMA LinkIsAfter ==
  ASSUME NEW F, NEW m, NEW head, Chain(m, F, head), NEW p \in F \cup {NULL}
  PROVE  After(Link(m, head, p), p, F)
BY DEF Chain, Link, NULL

\* From (m, head) to (m2, head2), block t is put behind p.
Inserted(m, head, m2, head2, F, t, p) ==
  /\ F \subseteq Nat \ {0} /\ t \in (Nat \ {0}) \ F /\ p \in F \cup {NULL}
  /\ p < t /\ (m2[t + 1] = NULL \/ ~(m2[t + 1] < t))
  /\ m2[t + 1] = Link(m, head, p)
  /\ \A b \in F : b # p => m2[b + 1] = m[b + 1]
  /\ Link(m2, head2, p) = t
  /\ p # NULL => head2 = head

LEMMA ChainInsert ==
  ASSUME NEW F, NEW m, NEW head, NEW t, NEW p, NEW m2, NEW head2,
         Chain(m, F, head), Inserted(m, head, m2, head2, F, t, p)
  PROVE  Chain(m2, F \cup {t}, head2)
<1> DEFINE c == m2[t + 1]
<1>0. /\ p \in Nat /\ p < t /\ t \in Nat /\ \A b \in F : b \in Nat /\ b # 0
      /\ c = NULL \/ ~(c < t)
      /\ p \in F \cup {NULL} /\ t \notin F /\ t # 0
  BY DEF NULL, Inserted
<1>1. After(c, p, F)
  BY LinkIsAfter DEF Inserted
<1> HIDE DEF c
<1>2. \A b \in F : b > p => b > t
  <2>1. CASE c = NULL
    BY <1>0, <1>1, <2>1 DEF After
  <2>2. CASE c # NULL
    <3>1. c \in Nat /\ t <= c
      <4>1. c \in F /\ ~(c < t)
        BY <1>0, <1>1, <2>2 DEF After
      <4> QED
        BY <1>0, <4>1
    <3>2. \A b \in F : b > p => c <= b
      BY <1>1, <2>2 DEF After
    <3> QED
      BY <1>0, <3>1, <3>2
  <2> QED
    BY <2>1, <2>2
<1>3. After(t, p, F \cup {t})
  BY <1>0, <1>2 DEF After, NULL
<1>4. After(c, t, F \cup {t})
  <2>1. CASE c = NULL
    <3>1. \A b \in F : b <= p
      BY <1>1, <2>1 DEF After
    <3> QED
      BY <1>0, <2>1, <3>1 DEF After
  <2>2. CASE c # NULL
    <3>1. c \in F /\ c > p /\ \A b \in F : b > p => c <= b
      BY <1>1, <2>2 DEF After
    <3>2. \A b \in F : b > t => c <= b
      BY <1>0, <3>1
    <3> QED
      BY <1>0, <1>2, <2>2, <3>1, <3>2 DEF After
  <2> QED
    BY <2>1, <2>2
<1>5. ASSUME NEW b \in F \cup {0}, b # p, NEW x, After(x, b, F)
      PROVE  After(x, b, F \cup {t})
  <2>1. b \in Nat /\ (b > p => b > t) /\ (b < p => p \in F /\ p > b)
    BY <1>0, <1>2 DEF NULL
  <2>2. CASE x = NULL
    <3>1. p \in F => p <= b
      BY <1>5, <2>2 DEF After
    <3>2. t <= b
      BY <1>0, <1>5, <2>1, <3>1
    <3> QED
      BY <1>5, <2>2, <3>2 DEF After
  <2>3. CASE x # NULL
    <3>1. x \in F /\ x > b /\ \A d \in F : d > b => x <= d
      BY <1>5, <2>3 DEF After
    <3>2. t > b => x <= t
      BY <1>0, <1>5, <2>1, <3>1
    <3> QED
      BY <2>3, <3>1, <3>2 DEF After
  <2> QED
    BY <2>2, <2>3
<1>6. After(head2, 0, F \cup {t})
  BY <1>0, <1>3, <1>5 DEF Chain, Link, NULL, Inserted
<1>7. ASSUME NEW b \in F PROVE After(m2[b + 1], b, F \cup {t})
  BY <1>0, <1>3, <1>5 DEF Chain, Link, NULL, Inserted
<1> QED
  BY <1>4, <1>6, <1>7 DEF Chain, c

\* The block x behind p is replaced by y, which lies before its successor.
Replaced(m, head, m2, head2, F, x, y, p) ==
  /\ F \subseteq Nat \ {0} /\ x \in F /\ p \in F \cup {NULL}
  /\ Link(m, head, p) = x
  /\ y \in Nat /\ x < y /\ \A c \in F : c > x => y < c
  /\ m2[y + 1] = m[x + 1]
  /\ \A b \in F \ {x} : b # p => m2[b + 1] = m[b + 1]
  /\ Link(m2, head2, p) = y
  /\ p # NULL => head2 = head

LEMMA ChainReplace ==
  ASSUME NEW F, NEW m, NEW head, NEW x, NEW y, NEW p, NEW m2, NEW head2,
         Chain(m, F, head), Replaced(m, head, m2, head2, F, x, y, p)
  PROVE  Chain(m2, (F \ {x}) \cup {y}, head2)
<1> USE DEF Replaced
<1> DEFINE G == (F \ {x}) \cup {y}
<1>0. /\ p \in Nat /\ x \in Nat /\ x < y /\ \A b \in F : b \in Nat /\ b # 0
      /\ x # NULL /\ y # NULL
  BY DEF NULL
<1>1. x > p /\ \A b \in F : b > p => x <= b
  BY LinkIsAfter, <1>0 DEF After
<1>2. After(m[x + 1], x, F)
  BY DEF Chain
<1>3. After(m[x + 1], y, G)
  <2>1. CASE m[x + 1] = NULL
    <3>1. \A b \in F : b <= x
      BY <1>2, <2>1 DEF After
    <3> QED
      BY <1>0, <2>1, <3>1 DEF After
  <2>2. CASE m[x + 1] # NULL
    <3>1. /\ m[x + 1] \in F /\ m[x + 1] > x
          /\ \A b \in F : b > x => m[x + 1] <= b
      BY <1>2, <2>2 DEF After
    <3>2. m[x + 1] \in G /\ m[x + 1] > y
      <4>1. \A b \in F : b > x => b > y /\ b # x
        BY <1>0
      <4> QED
        BY <3>1, <4>1
    <3>3. \A b \in G : b > y => m[x + 1] <= b
      BY <1>0, <3>1
    <3> QED
      BY <2>2, <3>2, <3>3 DEF After
  <2> QED
    BY <2>1, <2>2
<1>4. After(y, p, G)
  <2>1. y > p /\ \A b \in G : b > p => y <= b
    BY <1>0, <1>1
  <2> QED
    BY <1>0, <2>1 DEF After
<1>5. ASSUME NEW b \in F \cup {0}, b # p, b # x, NEW z, After(z, b, F)
      PROVE  After(z, b, G)
  <2>1. b \in Nat /\ (b > p => b > x) /\ (b > x => b > y)
        /\ (b < p => p \in F /\ p > b)
    BY <1>0, <1>1, <1>5 DEF NULL
  <2>2. CASE z = NULL
    <3>1. \A d \in F : d <= b
      BY <1>5, <2>2 DEF After
    <3>2. y <= b
      BY <1>0, <1>5, <2>1, <3>1
    <3> QED
      BY <2>2, <3>1, <3>2 DEF After
  <2>3. CASE z # NULL
    <3>1. z \in F /\ z > b /\ \A d \in F : d > b => z <= d
      BY <1>5, <2>3 DEF After
    <3>2. z # x /\ (y > b => z <= y)
      BY <1>0, <1>1, <1>5, <2>1, <3>1
    <3> QED
      BY <2>3, <3>1, <3>2 DEF After
  <2> QED
    BY <2>2, <2>3
<1>6. After(head2, 0, G)
  BY <1>0, <1>4, <1>5 DEF Chain, Link, NULL
<1>7. ASSUME NEW b \in F \ {x} PROVE After(m2[b + 1], b, G)
  BY <1>4, <1>5 DEF Chain, Link, NULL
<1> QED
  BY <1>3, <1>6, <1>7 DEF Chain

\* The block x behind p is taken out.
Removed(m, head, m2, head2, F, x, p) ==
  /\ F \subseteq Nat \ {0} /\ x \in F /\ p \in F \cup {NULL}
  /\ Link(m, head, p) = x
  /\ \A b \in F \ {x} : b # p => m2[b + 1] = m[b + 1]
  /\ Link(m2, head2, p) = m[x + 1]
  /\ p # NULL => head2 = head

LEMMA ChainRemove ==
  ASSUME NEW F, NEW m, NEW head, NEW x, NEW p, NEW m2, NEW head2,
         Chain(m, F, head), Removed(m, head, m2, head2, F, x, p)
  PROVE  Chain(m2, F \ {x}, head2)
<1> USE DEF Removed
<1>0. p \in Nat /\ x \in Nat /\ \A b \in F : b \in Nat /\ b # 0
  BY DEF NULL
<1>1. x > p /\ \A b \in F : b > p => x <= b
  BY LinkIsAfter, <1>0 DEF After, NULL
<1>2. After(m[x + 1], x, F)
  BY DEF Chain
<1>3. After(m[x + 1], p, F \ {x})
  <2>1. CASE m[x + 1] = NULL
    <3>1. \A b \in F : b <= x
      BY <1>2, <2>1 DEF After
    <3>2. \A b \in F \ {x} : b <= p
      BY <1>0, <1>1, <3>1
    <3> QED
      BY <2>1, <3>2 DEF After
  <2>2. CASE m[x + 1] # NULL
    <3>1. /\ m[x + 1] \in F /\ m[x + 1] > x
          /\ \A b \in F : b > x => m[x + 1] <= b
      BY <1>2, <2>2 DEF After
    <3>2. m[x + 1] \in F \ {x} /\ m[x + 1] > p
      <4>1. \A b \in F : b > x => b > p /\ b # x
        BY <1>0, <1>1
      <4> QED
        BY <3>1, <4>1
    <3>3. \A b \in F \ {x} : b > p => m[x + 1] <= b
      BY <1>0, <1>1, <3>1
    <3> QED
      BY <2>2, <3>2, <3>3 DEF After
  <2> QED
    BY <2>1, <2>2
<1>4. ASSUME NEW b \in F \cup {0}, b # p, b # x, NEW z, After(z, b, F)
      PROVE  After(z, b, F \ {x})
  <2>1. CASE z = NULL
    BY <1>4, <2>1 DEF After
  <2>2. CASE z # NULL
    <3>1. z \in F /\ z > b /\ \A d \in F : d > b => z <= d
      BY <1>4, <2>2 DEF After
    <3>2. b \in Nat /\ (b < p => p \in F /\ p > b)
      BY <1>0 DEF NULL
    <3>3. z # x
      BY <1>0, <1>1, <1>4, <3>1, <3>2
    <3> QED
      BY <2>2, <3>1, <3>3 DEF After
  <2> QED
    BY <2>1, <2>2
<1>5. After(head2, 0, F \ {x})
  BY <1>0, <1>3, <1>4 DEF Chain, Link, NULL
<1>6. ASSUME NEW b \in F \ {x} PROVE After(m2[b + 1], b, F \ {x})
  BY <1>3, <1>4 DEF Chain, Link, NULL
<1> QED
  BY <1>5, <1>6 DEF Chain

-----------------------------------------------------------------------------
(* Sums over a finite set                                                  *)

\* The element that a sum over s takes first, and what it leaves.
Pick(s) == CHOOSE y \in s : TRUE
Rest(s) == s \ {Pick(s)}

\* g sums f over every set of elements of S.
IsSum(g, f, S) ==
  g = [s \in SUBSET S |-> IF s = {} THEN 0 ELSE f[Pick(s)] + g[Rest(s)]]

\* The sum of f over S.
Total(f, S) == (CHOOSE g : IsSum(g, f, S))[S]

\* The community modules' sum of a function is its total.
LEMMA SumIsTotal ==
  ASSUME NEW f
  PROVE  SumFunction(f) = Total(f, DOMAIN f)
BY Zenon DEF SumFunction, SumFunctionOnSet, FoldFunctionOnSet, MapThenFoldSet, Total, IsSum,
             Pick, Rest

\* Of some finite sets, one is smallest.
LEMMA SmallestSet ==
  ASSUME NEW B, B # {}, \A s \in B : IsFiniteSet(s)
  PROVE  \E s \in B : \A t \in B : Cardinality(s) <= Cardinality(t)
<1> DEFINE N == {Cardinality(s) : s \in B}
<1>1. N \subseteq Nat /\ N # {}
  BY FS_CardinalityType
<1>2. PICK n \in N : \A m \in N : n <= m
  BY <1>1, Least
<1> QED
  BY <1>2

LEMMA Smaller ==
  ASSUME NEW s, IsFiniteSet(s), NEW x \in s, NEW r, r = s \ {x}
  PROVE  IsFiniteSet(r) /\ Cardinality(r) \in Nat /\ Cardinality(s) \in Nat
         /\ Cardinality(r) < Cardinality(s)
<1>1. IsFiniteSet(r) /\ Cardinality(r) = Cardinality(s) - 1
  BY FS_RemoveElement
<1> QED
  BY <1>1, FS_CardinalityType

LEMMA Picked ==
  ASSUME NEW s, IsFiniteSet(s), s # {}
  PROVE  /\ Pick(s) \in s /\ Rest(s) \subseteq s /\ IsFiniteSet(Rest(s))
         /\ Cardinality(Rest(s)) \in Nat /\ Cardinality(s) \in Nat
         /\ Cardinality(Rest(s)) < Cardinality(s)
BY Smaller DEF Pick, Rest

\* Two sums of functions that agree on s agree on s: a smallest set on which they
\* differ would have a smaller one.
LEMMA SumUnique ==
  ASSUME NEW g, NEW f, NEW S, IsSum(g, f, S), NEW h, NEW e, NEW T, IsSum(h, e, T),
         NEW s \in SUBSET S, s \in SUBSET T, IsFiniteSet(s), \A x \in s : f[x] = e[x]
  PROVE  g[s] = h[s]
<1> DEFINE B == {t \in SUBSET s : g[t] # h[t]}
<1>1. \A t \in B : IsFiniteSet(t)
  BY FS_Subset
<1>2. SUFFICES ASSUME B # {} PROVE FALSE
  OBVIOUS
<1>3. PICK t \in B : \A r \in B : Cardinality(t) <= Cardinality(r)
  BY <1>1, <1>2, SmallestSet
<1>4. /\ g[t] = IF t = {} THEN 0 ELSE f[Pick(t)] + g[Rest(t)]
      /\ h[t] = IF t = {} THEN 0 ELSE e[Pick(t)] + h[Rest(t)]
  <2>1. t \in SUBSET S /\ t \in SUBSET T
    OBVIOUS
  <2> QED
    BY <2>1, Zenon DEF IsSum
<1>5. t # {} /\ IsFiniteSet(t)
  BY <1>1, <1>4
<1>6. /\ Pick(t) \in s /\ Rest(t) \in SUBSET s
      /\ ~(Cardinality(t) <= Cardinality(Rest(t)))
  BY <1>5, Picked
<1>7. g[Rest(t)] = h[Rest(t)] /\ f[Pick(t)] = e[Pick(t)]
  BY <1>3, <1>6
<1> QED
  BY <1>4, <1>5, <1>7

\* Over a finite set there is a sum: a smallest set without one could be given one.
LEMMA SumExists ==
  ASSUME NEW f, NEW S, IsFiniteSet(S)
  PROVE  \E g : IsSum(g, f, S)
<1> DEFINE Has(T) == \E g : IsSum(g, f, T)
           B == {T \in SUBSET S : ~Has(T)}
<1>1. \A T \in B : IsFiniteSet(T)
  BY FS_Subset
<1>2. SUFFICES ASSUME B # {} PROVE FALSE
  OBVIOUS
<1>3. PICK T \in B : \A r \in B : Cardinality(T) <= Cardinality(r)
  <2> HIDE DEF Has
  <2> QED
    BY <1>1, <1>2, SmallestSet
<1>4. IsFiniteSet(T) /\ T \subseteq S /\ ~Has(T)
  BY <1>1
<1> DEFINE G == [s \in SUBSET T |-> IF s = {} THEN 0 ELSE f[Pick(s)] + Total(f, Rest(s))]
<1>5. ASSUME NEW r \in SUBSET T, Cardinality(r) < Cardinality(T)
      PROVE  IsSum(CHOOSE g : IsSum(g, f, r), f, r)
  <2>1. Cardinality(r) \in Nat /\ Cardinality(T) \in Nat
    BY <1>4, FS_Subset, FS_CardinalityType
  <2>2. Has(r)
    <3>1. r \in SUBSET S /\ ~(Cardinality(T) <= Cardinality(r))
      BY <1>4, <1>5, <2>1
    <3> HIDE DEF Has
    <3> QED
      BY <1>3, <3>1
  <2> QED
    BY <2>2, Zenon
<1>6. ASSUME NEW s \in SUBSET T, s # {}
      PROVE  Total(f, Rest(s)) = G[Rest(s)]
  <2> DEFINE r == Rest(s)
             h == CHOOSE g : IsSum(g, f, r)
  <2>1. IsFiniteSet(s) /\ IsFiniteSet(r) /\ r \in SUBSET T
    BY <1>4, <1>6, FS_Subset, Picked
  <2>2. Cardinality(r) < Cardinality(T)
    <3>1. /\ Cardinality(r) \in Nat /\ Cardinality(s) \in Nat /\ Cardinality(r) < Cardinality(s)
          /\ Cardinality(s) <= Cardinality(T) /\ Cardinality(T) \in Nat
      BY <1>4, <1>6, <2>1, FS_Subset, FS_CardinalityType, Picked
    <3> QED
      BY <3>1
  <2>3. IsSum(h, f, r)
    BY <1>5, <2>1, <2>2
  <2>4. Total(f, r) = h[r]
    BY DEF Total
  <2>5. h[r] = IF r = {} THEN 0 ELSE f[Pick(r)] + h[Rest(r)]
    <3> HIDE DEF r, h
    <3>1. r \in SUBSET r
      OBVIOUS
    <3> QED
      BY <2>3, <3>1, Zenon DEF IsSum
  <2>6. CASE r = {}
    BY <2>1, <2>4, <2>5, <2>6
  <2>7. CASE r # {}
    <3> DEFINE q == Rest(r)
               k == CHOOSE g : IsSum(g, f, q)
    <3>1. /\ q \in SUBSET r /\ q \in SUBSET T /\ IsFiniteSet(q)
          /\ Cardinality(q) < Cardinality(T)
      <4>1. /\ q \subseteq r /\ IsFiniteSet(q) /\ Cardinality(q) \in Nat
            /\ Cardinality(r) \in Nat /\ Cardinality(q) < Cardinality(r)
        BY <2>1, <2>7, Picked
      <4>2. Cardinality(T) \in Nat
        BY <1>4, FS_CardinalityType
      <4> QED
        BY <2>1, <2>2, <4>1, <4>2
    <3>2. IsSum(k, f, q)
      BY <1>5, <3>1
    <3>3. h[q] = k[q]
      <4> HIDE DEF h, k, q, r
      <4>1. q \in SUBSET q
        OBVIOUS
      <4> QED
        BY <2>3, <3>1, <3>2, <4>1, SumUnique
    <3>4. Total(f, q) = k[q]
      BY DEF Total
    <3>5. G[r] = f[Pick(r)] + Total(f, q)
      BY <2>1, <2>7
    <3> QED
      BY <2>4, <2>5, <2>7, <3>3, <3>4, <3>5
  <2> QED
    BY <2>6, <2>7
<1>7. IsSum(G, f, T)
  <2>1. ASSUME NEW s \in SUBSET T
        PROVE  (IF s = {} THEN 0 ELSE f[Pick(s)] + Total(f, Rest(s)))
                 = (IF s = {} THEN 0 ELSE f[Pick(s)] + G[Rest(s)])
    BY <1>6
  <2>2. G = [s \in SUBSET T |-> IF s = {} THEN 0 ELSE f[Pick(s)] + G[Rest(s)]]
    BY <2>1, Zenon
  <2> QED
    BY <2>2, Zenon DEF IsSum
<1> QED
  BY <1>4, <1>7

\* The recursion that the choice of a sum stands for.
LEMMA TotalIs ==
  ASSUME NEW f, NEW S, IsFiniteSet(S)
  PROVE  Total(f, S) = IF S = {} THEN 0 ELSE f[Pick(S)] + Total(f, Rest(S))
<1> DEFINE g == CHOOSE h : IsSum(h, f, S)
           k == CHOOSE h : IsSum(h, f, Rest(S))
<1>1. IsSum(g, f, S)
  BY SumExists, Zenon
<1>2. Total(f, S) = g[S] /\ Total(f, Rest(S)) = k[Rest(S)]
  BY DEF Total
<1>3. g[S] = IF S = {} THEN 0 ELSE f[Pick(S)] + g[Rest(S)]
  <2> HIDE DEF g
  <2>1. S \in SUBSET S
    OBVIOUS
  <2> QED
    BY <1>1, <2>1, Zenon DEF IsSum
<1>4. CASE S # {}
  <2>1. /\ IsFiniteSet(Rest(S)) /\ Rest(S) \in SUBSET S
        /\ Rest(S) \in SUBSET Rest(S)
    BY <1>4, Picked
  <2>2. IsSum(k, f, Rest(S))
    BY <2>1, SumExists, Zenon
  <2>3. g[Rest(S)] = k[Rest(S)]
    <3> HIDE DEF g, k
    <3> QED
      BY <1>1, <2>1, <2>2, SumUnique
  <2> QED
    BY <1>2, <1>3, <1>4, <2>3
<1> QED
  BY <1>2, <1>3, <1>4

LEMMA TotalSame ==
  ASSUME NEW f, NEW e, NEW S, IsFiniteSet(S), \A x \in S : f[x] = e[x]
  PROVE  Total(f, S) = Total(e, S)
<1> DEFINE g == CHOOSE k : IsSum(k, f, S)
           h == CHOOSE k : IsSum(k, e, S)
<1>1. IsSum(g, f, S) /\ IsSum(h, e, S)
  BY SumExists, Zenon
<1>2. Total(f, S) = g[S] /\ Total(e, S) = h[S]
  BY DEF Total
<1> HIDE DEF g, h
<1>3. S \in SUBSET S
  OBVIOUS
<1>4. g[S] = h[S]
  BY <1>1, <1>3, SumUnique
<1> QED
  BY <1>2, <1>4

LEMMA TotalNat ==
  ASSUME NEW f, NEW S, IsFiniteSet(S), \A x \in S : f[x] \in Nat
  PROVE  Total(f, S) \in Nat
<1> DEFINE B == {t \in SUBSET S : Total(f, t) \notin Nat}
<1>1. \A t \in B : IsFiniteSet(t)
  BY FS_Subset
<1>2. SUFFICES ASSUME B # {} PROVE FALSE
  OBVIOUS
<1>3. PICK t \in B : \A r \in B : Cardinality(t) <= Cardinality(r)
  BY <1>1, <1>2, SmallestSet
<1>4. Total(f, t) = IF t = {} THEN 0 ELSE f[Pick(t)] + Total(f, Rest(t))
  BY <1>1, TotalIs
<1>5. t # {} /\ IsFiniteSet(t)
  BY <1>1, <1>4
<1>6. /\ Pick(t) \in S /\ Rest(t) \in SUBSET S
      /\ ~(Cardinality(t) <= Cardinality(Rest(t)))
  BY <1>5, Picked
<1>7. Total(f, Rest(t)) \in Nat /\ f[Pick(t)] \in Nat
  BY <1>3, <1>6
<1> QED
  BY <1>4, <1>5, <1>7

\* A total does not depend on what it takes first.
LEMMA TotalWithout ==
  ASSUME NEW f, NEW S, IsFiniteSet(S), \A x \in S : f[x] \in Nat,
         NEW y \in S, NEW R, R = S \ {y}
  PROVE  Total(f, S) = f[y] + Total(f, R)
<1> DEFINE Bad(t) == \E z \in t : Total(f, t) # f[z] + Total(f, t \ {z})
           B == {t \in SUBSET S : Bad(t)}
<1>1. \A t \in B : IsFiniteSet(t) /\ t \subseteq S /\ Bad(t)
  BY FS_Subset
<1>2. SUFFICES ASSUME B # {} PROVE FALSE
  <2>1. S \in SUBSET S
    OBVIOUS
  <2> QED
    BY <2>1
<1>3. PICK t \in B : \A r \in B : Cardinality(t) <= Cardinality(r)
  <2> HIDE DEF Bad
  <2> QED
    BY <1>1, <1>2, SmallestSet
<1>4. PICK z \in t : Total(f, t) # f[z] + Total(f, t \ {z})
  BY <1>1
<1>5. IsFiniteSet(t) /\ t \subseteq S /\ t # {}
  BY <1>1
<1>6. Total(f, t) = f[Pick(t)] + Total(f, Rest(t)) /\ Pick(t) \in t
  BY <1>5, TotalIs, Picked
<1>7. Pick(t) # z
  BY <1>4, <1>6 DEF Rest
<1> DEFINE x == Pick(t)
           u == Rest(t)
           v == t \ {z}
           w == u \ {z}
<1>8. /\ u \subseteq S /\ v \subseteq S /\ z \in u /\ x \in v
      /\ w = v \ {x}
  BY <1>5, <1>6, <1>7 DEF Rest
<1>9. /\ IsFiniteSet(u) /\ ~(Cardinality(t) <= Cardinality(u))
      /\ IsFiniteSet(v) /\ ~(Cardinality(t) <= Cardinality(v))
  <2>1. /\ IsFiniteSet(u) /\ Cardinality(u) \in Nat /\ Cardinality(t) \in Nat
        /\ Cardinality(u) < Cardinality(t)
    BY <1>5, Picked
  <2>2. /\ IsFiniteSet(v) /\ Cardinality(v) \in Nat /\ Cardinality(v) < Cardinality(t)
    BY <1>4, <1>5, Smaller
  <2> QED
    BY <2>1, <2>2
<1>10. ~Bad(u) /\ ~Bad(v)
  <2> HIDE DEF Bad, u, v
  <2> QED
    BY <1>3, <1>8, <1>9
<1>11. Total(f, u) = f[z] + Total(f, w) /\ Total(f, v) = f[x] + Total(f, w)
  BY <1>8, <1>10
<1>12. f[x] \in Nat /\ f[z] \in Nat /\ Total(f, w) \in Nat
  <2>1. w \in SUBSET S /\ IsFiniteSet(w)
    BY <1>5, <1>8, FS_Subset
  <2>2. Total(f, w) \in Nat
    <3> HIDE DEF w
    <3> QED
      BY <2>1, TotalNat
  <2> QED
    BY <1>5, <1>6, <2>2
<1>13. Total(f, t) = f[x] + Total(f, u)
  BY <1>6
<1>14. Total(f, t) # f[z] + Total(f, v)
  BY <1>4
<1> HIDE DEF x, u, v, w
<1> QED
  BY <1>11, <1>12, <1>13, <1>14

-----------------------------------------------------------------------------
(* The division of an arena into blocks                                    *)

Even(n) == n % AlignWords = 0

LEMMA EvenPlus ==
  ASSUME NEW a \in Int, NEW b \in Int, Even(a), Even(b)
  PROVE  Even(a + b)
BY DEF Even, AlignWords

LEMMA EvenMinus ==
  ASSUME NEW a \in Int, NEW b \in Int, Even(a), Even(b)
  PROVE  Even(a - b)
BY DEF Even, AlignWords

LEMMA EvenFour ==
  ASSUME NEW a \in Int, Even(a)
  PROVE  Even(a + 4) /\ Even(a - 4)
BY DEF Even, AlignWords

LEMMA EvenNext ==
  ASSUME NEW a \in Int, NEW b \in Int, Even(a), Even(b)
  PROVE  a + 1 # b
BY DEF Even, AlignWords

\* The address behind the block at b of memory m.
Ends(m, b) == b + HeaderWords + m[b]

\* The headers B of memory m divide the words A among them.
Layout(m, B, A) ==
  /\ \A b \in B : /\ b \in Nat \ {0} /\ Even(b)
                  /\ m[b] \in Nat /\ Even(m[b])
                  /\ m[b + 3] = Magic
  /\ \A b \in B : \A w \in b .. Ends(m, b) - 1 : w \in A
  /\ \A b, c \in B : b # c => Ends(m, b) <= c \/ Ends(m, c) <= b
  /\ \A w \in A : \E b \in B : w \in b .. Ends(m, b) - 1

\* Headers hold their sizes and magic numbers from one memory to the next.
SameHeaders(m, m2, B) == \A b \in B : m2[b] = m[b] /\ m2[b + 3] = m[b + 3]

\* Blocks and their ends lie on 16-byte boundaries.
LEMMA LayoutType ==
  ASSUME NEW m, NEW B, NEW A, Layout(m, B, A), NEW b \in B
  PROVE  /\ b \in Nat /\ b # 0 /\ Even(b) /\ m[b] \in Nat /\ Even(m[b])
         /\ m[b + 3] = Magic /\ Ends(m, b) = b + 4 + m[b]
         /\ Ends(m, b) \in Nat /\ Even(Ends(m, b))
<1>1. b \in Nat /\ b # 0 /\ Even(b) /\ m[b] \in Nat /\ Even(m[b]) /\ m[b + 3] = Magic
  BY DEF Layout
<1>2. Ends(m, b) = b + 4 + m[b]
  BY DEF Ends, HeaderWords
<1>3. Even(b + 4) /\ b + 4 \in Int /\ m[b] \in Int
  BY <1>1, EvenFour
<1>4. Even((b + 4) + m[b])
  BY <1>1, <1>3, EvenPlus, Zenon
<1> QED
  BY <1>1, <1>2, <1>4

LEMMA LayoutSame ==
  ASSUME NEW m, NEW B, NEW A, Layout(m, B, A), NEW m2, SameHeaders(m, m2, B)
  PROVE  Layout(m2, B, A)
<1>1. \A b \in B : m2[b] = m[b] /\ m2[b + 3] = m[b + 3] /\ Ends(m2, b) = Ends(m, b)
  BY DEF SameHeaders, Ends
<1> QED
  BY <1>1 DEF Layout

\* A new block t on words that the arena does not have yet.
LEMMA LayoutGrow ==
  ASSUME NEW m, NEW B, NEW A, Layout(m, B, A),
         NEW m2, SameHeaders(m, m2, B),
         NEW t \in Nat \ {0}, Even(t),
         m2[t] \in Nat, Even(m2[t]), m2[t + 3] = Magic,
         \A w \in t .. Ends(m2, t) - 1 : w \notin A,
         NEW A2, A2 = A \cup (t .. Ends(m2, t) - 1)
  PROVE  Layout(m2, B \cup {t}, A2)
<1>1. Layout(m2, B, A)
  BY LayoutSame
<1>2. Ends(m2, t) = t + 4 + m2[t] /\ Ends(m2, t) \in Nat
  BY DEF Ends, HeaderWords
<1>3. ASSUME NEW b \in B PROVE Ends(m2, b) <= t \/ Ends(m2, t) <= b
  <2>1. b \in Nat /\ Ends(m2, b) \in Nat /\ b < Ends(m2, b)
    BY <1>1, LayoutType
  <2>2. b \in A /\ (t \in b .. Ends(m2, b) - 1 => t \in A)
    BY <1>1, <2>1 DEF Layout
  <2> QED
    BY <1>2, <2>1, <2>2
<1>4. \A b, c \in B \cup {t} : b # c => Ends(m2, b) <= c \/ Ends(m2, c) <= b
  BY <1>1, <1>3 DEF Layout
<1>5. \A b \in B \cup {t} : \A w \in b .. Ends(m2, b) - 1 : w \in A2
  BY <1>1 DEF Layout
<1>6. \A w \in A2 : \E b \in B \cup {t} : w \in b .. Ends(m2, b) - 1
  BY <1>1 DEF Layout
<1> QED
  BY <1>1, <1>4, <1>5, <1>6 DEF Layout

\* Block x cut in two, the second from r on.
LEMMA LayoutSplit ==
  ASSUME NEW m, NEW B, NEW A, Layout(m, B, A),
         NEW x \in B, NEW r \in Nat, Even(r),
         x + HeaderWords <= r, r + HeaderWords <= Ends(m, x),
         NEW m2, SameHeaders(m, m2, B \ {x}),
         Ends(m2, x) = r, m2[x] \in Nat, m2[x + 3] = Magic,
         Ends(m2, r) = Ends(m, x), m2[r] \in Nat, m2[r + 3] = Magic
  PROVE  Layout(m2, B \cup {r}, A)
<1>1. \A b \in B : /\ b \in Nat /\ b # 0 /\ Even(b) /\ m[b] \in Nat /\ Even(m[b])
                   /\ m[b + 3] = Magic /\ Ends(m, b) = b + 4 + m[b]
                   /\ Ends(m, b) \in Nat /\ Even(Ends(m, b))
  BY LayoutType
<1>2. \A b \in B \ {x} : m2[b] = m[b] /\ m2[b + 3] = m[b + 3] /\ Ends(m2, b) = Ends(m, b)
  BY DEF SameHeaders, Ends
<1>3. x + 4 <= r /\ r + 4 <= Ends(m, x) /\ r \notin B
  <2>1. x + 4 <= r /\ r + 4 <= Ends(m, x)
    BY DEF HeaderWords
  <2>2. ASSUME r \in B PROVE FALSE
    <3>1. Ends(m, r) <= x \/ Ends(m, x) <= r
      BY <1>1, <2>1, <2>2 DEF Layout
    <3> QED
      BY <1>1, <2>1, <2>2, <3>1
  <2> QED
    BY <2>1, <2>2
<1>4. Even(m2[x]) /\ Even(m2[r])
  <2>1. m2[x] = r - x - 4 /\ m2[r] = Ends(m, x) - r - 4
    BY <1>1 DEF Ends, HeaderWords
  <2>2. Even(4) /\ Even(r - x) /\ Even(Ends(m, x) - r)
    <3>1. x \in Int /\ r \in Int /\ Ends(m, x) \in Int
      BY <1>1
    <3>2. Even(r - x) /\ Even(Ends(m, x) - r)
      BY <1>1, <3>1, EvenMinus, Zenon
    <3> QED
      BY <3>2 DEF Even, AlignWords
  <2>3. Ends(m, x) - r \in Int /\ r - x \in Int
    BY <1>1
  <2> HIDE DEF Ends
  <2>4. Even((r - x) - 4)
    BY <2>2, <2>3, EvenFour
  <2>5. Even((Ends(m, x) - r) - 4)
    BY <2>2, <2>3, EvenFour
  <2> QED
    BY <2>1, <2>4, <2>5
<1>5. \A b \in B \cup {r} : /\ b \in Nat \ {0} /\ Even(b)
                            /\ m2[b] \in Nat /\ Even(m2[b]) /\ m2[b + 3] = Magic
  BY <1>1, <1>2, <1>3, <1>4
<1>6. \A b \in B \cup {r} : \A w \in b .. Ends(m2, b) - 1 : w \in A
  <2>1. \A w \in x .. Ends(m, x) - 1 : w \in A
    BY DEF Layout
  <2>2. \A w \in x .. r - 1 : w \in A
    BY <1>1, <1>3, <2>1
  <2>3. \A w \in r .. Ends(m, x) - 1 : w \in A
    BY <1>1, <1>3, <2>1
  <2> QED
    BY <1>2, <2>2, <2>3 DEF Layout
<1>7. \A b, c \in B \cup {r} : b # c => Ends(m2, b) <= c \/ Ends(m2, c) <= b
  <2>1. \A b, c \in B : b # c => Ends(m, b) <= c \/ Ends(m, c) <= b
    BY DEF Layout
  <2>2. ASSUME NEW b \in B \ {x}
        PROVE  /\ Ends(m2, b) <= x \/ Ends(m2, x) <= b
               /\ Ends(m2, b) <= r \/ Ends(m2, r) <= b
    <3>1. Ends(m, b) <= x \/ Ends(m, x) <= b
      BY <2>1
    <3> QED
      BY <1>1, <1>2, <1>3, <3>1
  <2>3. Ends(m2, x) <= r
    BY <1>3
  <2> QED
    BY <1>2, <2>1, <2>2, <2>3
<1>8. \A w \in A : \E b \in B \cup {r} : w \in b .. Ends(m2, b) - 1
  <2> SUFFICES ASSUME NEW w \in A
               PROVE  \E b \in B \cup {r} : w \in b .. Ends(m2, b) - 1
    OBVIOUS
  <2>1. PICK b \in B : w \in b .. Ends(m, b) - 1
    BY DEF Layout
  <2>2. CASE b # x
    BY <1>2, <2>1, <2>2
  <2>3. CASE b = x
    <3>1. w \in x .. r - 1 \/ w \in r .. Ends(m, x) - 1
      BY <1>1, <1>3, <2>1, <2>3
    <3> QED
      BY <3>1
  <2> QED
    BY <2>2, <2>3
<1> QED
  BY <1>5, <1>6, <1>7, <1>8 DEF Layout

\* Block x grown over the block y behind it.
LEMMA LayoutMerge ==
  ASSUME NEW m, NEW B, NEW A, Layout(m, B, A),
         NEW x \in B, NEW y \in B, Ends(m, x) = y,
         NEW m2, \A b \in B : b # x /\ b # y => m2[b] = m[b] /\ m2[b + 3] = m[b + 3],
         m2[x] = m[x] + HeaderWords + m[y], m2[x + 3] = m[x + 3],
         NEW B2, B2 = B \ {y}
  PROVE  Layout(m2, B2, A) /\ Ends(m2, x) = Ends(m, y)
<1>1. \A b \in B : /\ b \in Nat /\ b # 0 /\ Even(b) /\ m[b] \in Nat /\ Even(m[b])
                   /\ m[b + 3] = Magic /\ Ends(m, b) = b + 4 + m[b]
                   /\ Ends(m, b) \in Nat /\ Even(Ends(m, b))
  BY LayoutType
<1>2. \A b \in B \ {x, y} : m2[b] = m[b] /\ m2[b + 3] = m[b + 3] /\ Ends(m2, b) = Ends(m, b)
  BY DEF Ends
<1>3. Ends(m2, x) = Ends(m, y) /\ m2[x] \in Nat /\ x < y
  BY <1>1 DEF Ends, HeaderWords
<1>4. Even(m2[x])
  <2>1. Even(m[x] + 4) /\ m[x] + 4 \in Int /\ m[y] \in Int
    BY <1>1, EvenFour
  <2>2. Even((m[x] + 4) + m[y])
    BY <1>1, <2>1, EvenPlus, Zenon
  <2> QED
    BY <2>2 DEF HeaderWords
<1>5. \A b \in B \ {y} : /\ b \in Nat \ {0} /\ Even(b)
                         /\ m2[b] \in Nat /\ Even(m2[b]) /\ m2[b + 3] = Magic
  BY <1>1, <1>2, <1>3, <1>4
<1>6. \A b \in B \ {y} : \A w \in b .. Ends(m2, b) - 1 : w \in A
  <2>1. \A w \in x .. Ends(m, x) - 1 : w \in A
    BY DEF Layout
  <2>2. \A w \in y .. Ends(m, y) - 1 : w \in A
    BY DEF Layout
  <2>3. \A w \in x .. Ends(m2, x) - 1 : w \in A
    <3>1. x \in Nat /\ y \in Nat /\ Ends(m, x) = y /\ Ends(m, y) \in Nat /\ Ends(m2, x) = Ends(m, y)
      BY <1>1, <1>3
    <3> HIDE DEF Ends
    <3>2. \A w \in x .. Ends(m2, x) - 1 : w \in x .. Ends(m, x) - 1 \/ w \in y .. Ends(m, y) - 1
      BY <3>1
    <3> QED
      BY <2>1, <2>2, <3>2
  <2> QED
    BY <1>2, <2>3 DEF Layout
<1>7. \A b, c \in B \ {y} : b # c => Ends(m2, b) <= c \/ Ends(m2, c) <= b
  <2>1. \A b, c \in B : b # c => Ends(m, b) <= c \/ Ends(m, c) <= b
    BY DEF Layout
  <2>2. ASSUME NEW b \in B \ {x, y} PROVE Ends(m2, b) <= x \/ Ends(m2, x) <= b
    <3>1. (Ends(m, b) <= x \/ Ends(m, x) <= b) /\ (Ends(m, b) <= y \/ Ends(m, y) <= b)
      BY <2>1
    <3> QED
      BY <1>1, <1>2, <1>3, <3>1
  <2> QED
    BY <1>2, <2>1, <2>2
<1>8. \A w \in A : \E b \in B \ {y} : w \in b .. Ends(m2, b) - 1
  <2> SUFFICES ASSUME NEW w \in A
               PROVE  \E b \in B \ {y} : w \in b .. Ends(m2, b) - 1
    OBVIOUS
  <2>1. PICK b \in B : w \in b .. Ends(m, b) - 1
    BY DEF Layout
  <2>2. CASE b \notin {x, y}
    BY <1>2, <2>1, <2>2
  <2>3. CASE b \in {x, y}
    <3>1. w \in x .. Ends(m2, x) - 1
      BY <1>1, <1>3, <2>1, <2>3
    <3>2. x \in B \ {y}
      BY <1>1, <1>3
    <3> QED
      BY <3>1, <3>2
  <2> QED
    BY <2>2, <2>3
<1> QED
  BY <1>3, <1>5, <1>6, <1>7, <1>8 DEF Layout

\* No word of one header is a word of another.
LEMMA HeadersApart ==
  ASSUME NEW m, NEW B, NEW A, Layout(m, B, A), NEW b \in B, NEW c \in B, b # c
  PROVE  /\ b # c + 1 /\ b # c + 2 /\ b # c + 3
         /\ b + 1 # c /\ b + 1 # c + 1 /\ b + 1 # c + 2 /\ b + 1 # c + 3
         /\ b + 2 # c /\ b + 2 # c + 1 /\ b + 2 # c + 2 /\ b + 2 # c + 3
         /\ b + 3 # c /\ b + 3 # c + 1 /\ b + 3 # c + 2 /\ b + 3 # c + 3
<1>1. /\ b \in Nat /\ m[b] \in Nat /\ Ends(m, b) = b + 4 + m[b]
      /\ c \in Nat /\ m[c] \in Nat /\ Ends(m, c) = c + 4 + m[c]
  BY LayoutType
<1>2. Ends(m, b) <= c \/ Ends(m, c) <= b
  BY DEF Layout
<1> QED
  BY <1>1, <1>2

LEMMA HeaderInside ==
  ASSUME NEW m, NEW B, NEW A, Layout(m, B, A), NEW b \in B
  PROVE  b \in A /\ b + 1 \in A /\ b + 2 \in A /\ b + 3 \in A
<1>1. b \in Nat /\ m[b] \in Nat /\ Ends(m, b) = b + 4 + m[b]
  BY LayoutType
<1>2. \A w \in b .. Ends(m, b) - 1 : w \in A
  BY DEF Layout
<1> QED
  BY <1>1, <1>2

\* Block t, in no list, lies between p and c, neighbours in the list F.
Between(m, B, A, F, t, p, c) ==
  /\ Layout(m, B, A) /\ F \subseteq B
  /\ t \in B /\ t \notin F /\ p \in F \cup {NULL} /\ p < t
  /\ After(c, p, F) /\ (c = NULL \/ ~(c < t))

\* The only blocks of the list that can touch t are its neighbours.
LEMMA NeighboursTouch ==
  ASSUME NEW m, NEW B, NEW A, NEW F, NEW t, NEW p, NEW c, Between(m, B, A, F, t, p, c)
  PROVE  /\ \A b \in F : Ends(m, b) = t => b = p
         /\ \A d \in F : Ends(m, t) = d => d = c
<1> USE DEF Between
<1>1. /\ \A b \in B : /\ b \in Nat /\ b # 0 /\ Ends(m, b) \in Nat /\ b < Ends(m, b)
      /\ \A b, d \in B : b # d => Ends(m, b) <= d \/ Ends(m, d) <= b
      /\ p \in Nat
  <2>1. \A b \in B : /\ b \in Nat /\ b # 0 /\ m[b] \in Nat /\ Ends(m, b) = b + 4 + m[b]
    BY LayoutType
  <2> QED
    BY <2>1 DEF Layout, NULL
<1>2. \A b \in F : b > p => c # NULL /\ c \in F /\ c <= b /\ c > t
  <2>1. CASE c = NULL
    BY <1>1, <2>1 DEF After
  <2>2. CASE c # NULL
    <3>1. c \in F /\ ~(c < t) /\ \A b \in F : b > p => c <= b
      BY <2>2 DEF After
    <3>2. c # t
      BY <3>1
    <3> QED
      BY <1>1, <2>2, <3>1, <3>2
  <2> QED
    BY <2>1, <2>2
<1>3. ASSUME NEW b \in F, Ends(m, b) = t PROVE b = p
  <2>1. b \in B /\ b < t /\ ~(b > p)
    <3>1. b \in B /\ b \in Nat /\ t \in Nat /\ b < t
      BY <1>1, <1>3
    <3>2. b > p => c \in Nat /\ c <= b /\ c > t
      BY <1>1, <1>2
    <3> QED
      BY <3>1, <3>2
  <2>2. CASE p = NULL
    BY <1>1, <2>1, <2>2 DEF NULL
  <2>3. CASE p \in F /\ b # p
    <3>1. Ends(m, b) <= p \/ Ends(m, p) <= b
      BY <1>1, <2>3
    <3> QED
      BY <1>1, <1>3, <2>1, <2>3, <3>1
  <2> QED
    BY <2>2, <2>3
<1>4. ASSUME NEW d \in F, Ends(m, t) = d PROVE d = c
  <2>1. d > p /\ d > t
    BY <1>1, <1>4
  <2>2. c \in F /\ c <= d /\ c > t
    BY <1>2, <2>1
  <2>3. Ends(m, t) <= c \/ Ends(m, c) <= t
    BY <1>1, <2>2
  <2> QED
    BY <1>1, <1>4, <2>2, <2>3
<1> QED
  BY <1>3, <1>4

\* No block of F ends where another begins, except at an edge, or where t meets
\* c or p meets t.
SeparatedBut(m, F, E, t, c, p) ==
  \A b, d \in F : Ends(m, b) = d => \/ d \in E
                                    \/ b = t /\ d = c
                                    \/ b = p /\ d = t

Separated(m, F, E) == \A b, d \in F : Ends(m, b) = d => d \in E

\* Cutting a block in two and keeping the second part makes no neighbours.
LEMMA SeparatedSplit ==
  ASSUME NEW m, NEW B, NEW A, Layout(m, B, A), NEW F, F \subseteq B,
         NEW E, Separated(m, F, E),
         NEW x \in F, NEW r \in Nat,
         x + HeaderWords <= r, r + HeaderWords <= Ends(m, x),
         NEW m2, \A b \in F \ {x} : Ends(m2, b) = Ends(m, b),
         Ends(m2, r) = Ends(m, x)
  PROVE  Separated(m2, (F \ {x}) \cup {r}, E)
<1>1. /\ \A b \in B : /\ b \in Nat /\ b # 0 /\ Ends(m, b) \in Nat /\ b < Ends(m, b)
      /\ \A b, d \in B : b # d => Ends(m, b) <= d \/ Ends(m, d) <= b
      /\ x < r /\ r < Ends(m, x)
  <2>1. \A b \in B : /\ b \in Nat /\ b # 0 /\ m[b] \in Nat /\ Ends(m, b) = b + 4 + m[b]
    BY LayoutType
  <2> QED
    BY <2>1 DEF Layout, HeaderWords
<1>2. ASSUME NEW b \in F \ {x} PROVE Ends(m, b) # r
  <2>1. Ends(m, b) <= x \/ Ends(m, x) <= b
    BY <1>1
  <2> QED
    BY <1>1, <2>1
<1> QED
  BY <1>1, <1>2 DEF Separated

\* From m to m2, block x of the list F is grown over its successor y.
Joined(W, m, B, A, F, head, x, y, m2, B2, F2) ==
  /\ m \in [W -> Nat] /\ Layout(m, B, A) /\ A \subseteq W
  /\ F \subseteq B /\ Chain(m, F, head)
  /\ x \in F /\ y \in F /\ x # y /\ m[x + 1] = y
  /\ Ends(m, x) = y /\ m2 = Merged(m, x, y)
  /\ B2 = B \ {y} /\ F2 = F \ {y}

LEMMA MergeBlocks ==
  ASSUME NEW W, NEW m, NEW B, NEW A, NEW F, NEW head, NEW x, NEW y, NEW m2,
         NEW B2, NEW F2,
         Joined(W, m, B, A, F, head, x, y, m2, B2, F2)
  PROVE  /\ m2 # m /\ m2 \in [W -> Nat]
         /\ Layout(m2, B2, A) /\ Chain(m2, F2, head)
         /\ Ends(m2, x) = Ends(m, y) /\ m2[x + 1] = m[y + 1]
         /\ \A w \in W : w # x /\ w # x + 1 => m2[w] = m[w]
<1>0. /\ m \in [W -> Nat] /\ Layout(m, B, A) /\ A \subseteq W
      /\ F \subseteq B /\ Chain(m, F, head)
      /\ x \in F /\ y \in F /\ x # y /\ m[x + 1] = y
      /\ Ends(m, x) = y /\ m2 = Merged(m, x, y) /\ B2 = B \ {y} /\ F2 = F \ {y}
  BY DEF Joined
<1> USE <1>0
<1>1. /\ \A b \in B : /\ b \in Nat /\ b # 0 /\ Even(b) /\ m[b] \in Nat
                      /\ b \in W /\ b + 1 \in W /\ b + 2 \in W /\ b + 3 \in W
      /\ x # NULL /\ y # NULL
  BY LayoutType, HeaderInside DEF NULL
<1>2. m2 = [m EXCEPT ![x] = m[x] + HeaderWords + m[y], ![x + 1] = m[y + 1]]
  BY <1>1 DEF Merged, Ends
<1>3. /\ m2 \in [W -> Nat] /\ m2[x] = m[x] + HeaderWords + m[y] /\ m2[x + 1] = m[y + 1]
      /\ \A w \in W \ {x, x + 1} : m2[w] = m[w]
  BY <1>1, <1>2 DEF HeaderWords
<1>4. m2 # m
  BY <1>1, <1>3 DEF HeaderWords
<1>5. ASSUME NEW b \in B \ {x}
      PROVE  m2[b] = m[b] /\ m2[b + 1] = m[b + 1] /\ m2[b + 3] = m[b + 3]
  <2>1. b # x + 1 /\ b + 1 # x /\ b + 1 # x + 1 /\ b + 3 # x /\ b + 3 # x + 1
    BY HeadersApart
  <2> QED
    BY <1>1, <1>3, <2>1
<1>6. Layout(m2, B2, A) /\ Ends(m2, x) = Ends(m, y)
  <2>1. /\ x \in B /\ y \in B /\ m2[x + 3] = m[x + 3]
        /\ \A b \in B : b # x /\ b # y => m2[b] = m[b] /\ m2[b + 3] = m[b + 3]
    BY <1>1, <1>3, <1>5
  <2> QED
    BY <1>3, <2>1, LayoutMerge
<1>7. Chain(m2, F \ {y}, head)
  <2>1. F \subseteq Nat \ {0} /\ x \in F \cup {NULL} /\ Link(m, head, x) = y
        /\ Link(m2, head, x) = m[y + 1]
    BY <1>1, <1>3 DEF Link
  <2>2. Removed(m, head, m2, head, F, y, x)
    BY <1>5, <2>1 DEF Removed
  <2> QED
    BY <2>2, ChainRemove
<1> QED
  BY <1>3, <1>4, <1>6, <1>7

\* A memory with the same headers and links divides the arena and chains the list
\* as before.
LEMMA SameBlocks ==
  ASSUME NEW m, NEW B, NEW A, Layout(m, B, A), NEW F, F \subseteq B,
         NEW head, Chain(m, F, head), NEW E, Separated(m, F, E),
         NEW m2, SameHeaders(m, m2, B), \A b \in F : m2[b + 1] = m[b + 1]
  PROVE  Layout(m2, B, A) /\ Chain(m2, F, head) /\ Separated(m2, F, E)
<1>1. \A b \in B : Ends(m2, b) = Ends(m, b)
  BY DEF SameHeaders, Ends
<1> QED
  BY <1>1, LayoutSame DEF Chain, Separated

\* From (m, head) to (m2, head2), block t of the arena A is linked behind p.
LinkStep(W, m, B, A, F, head, t, p, m2, head2) ==
  /\ m \in [W -> Nat] /\ Layout(m, B, A) /\ A \subseteq W
  /\ F \subseteq B /\ Chain(m, F, head)
  /\ t \in B \ F /\ p \in F \cup {NULL} /\ p < t
  /\ Link(m, head, p) \in Nat
  /\ Link(m, head, p) = NULL \/ ~(Link(m, head, p) < t)
  /\ m2 = Linked([m EXCEPT ![t + 1] = Link(m, head, p)], p, t)
  /\ head2 = (IF p = NULL THEN t ELSE head)

LEMMA LinkBlock ==
  ASSUME NEW W, NEW m, NEW B, NEW A, NEW F, NEW head, NEW t, NEW p, NEW m2, NEW head2,
         LinkStep(W, m, B, A, F, head, t, p, m2, head2)
  PROVE  /\ m2 \in [W -> Nat]
         /\ m2[t + 1] = Link(m, head, p)
         /\ p # NULL => m2[p + 1] = t
         /\ \A w \in W : w # t + 1 /\ (p = NULL \/ w # p + 1) => m2[w] = m[w]
         /\ Layout(m2, B, A)
         /\ \A b \in B : Ends(m2, b) = Ends(m, b)
         /\ Chain(m2, F \cup {t}, head2)
<1> DEFINE c == Link(m, head, p)
<1>0. /\ m \in [W -> Nat] /\ Layout(m, B, A) /\ A \subseteq W
      /\ F \subseteq B /\ Chain(m, F, head)
      /\ t \in B /\ t \notin F /\ p \in F \cup {NULL} /\ p < t
      /\ c \in Nat /\ (c = NULL \/ ~(c < t))
      /\ m2 = Linked([m EXCEPT ![t + 1] = c], p, t)
      /\ head2 = (IF p = NULL THEN t ELSE head) /\ c = Link(m, head, p)
  BY DEF LinkStep
<1> HIDE DEF c
<1> USE <1>0
<1>1. /\ \A b \in B : /\ b \in Nat /\ b # 0
                      /\ b \in W /\ b + 1 \in W /\ b + 2 \in W /\ b + 3 \in W
      /\ p # t
  BY LayoutType, HeaderInside DEF NULL
<1>2. /\ m2 \in [W -> Nat]
      /\ m2[t + 1] = c
      /\ p # NULL => m2[p + 1] = t
      /\ \A w \in W : w # t + 1 /\ (p = NULL \/ w # p + 1) => m2[w] = m[w]
  <2>1. CASE p = NULL
    BY <1>1, <2>1 DEF Linked
  <2>2. CASE p # NULL
    <3>1. p \in F /\ p + 1 \in W /\ t + 1 \in W /\ p + 1 # t + 1 /\ t \in Nat
      BY <1>1, <2>2
    <3>2. m2 = [[m EXCEPT ![t + 1] = c] EXCEPT ![p + 1] = t]
      BY <2>2 DEF Linked
    <3>3. [m EXCEPT ![t + 1] = c] \in [W -> Nat]
      BY <3>1
    <3>4. /\ [m EXCEPT ![t + 1] = c][t + 1] = c
          /\ \A w \in W : w # t + 1 => [m EXCEPT ![t + 1] = c][w] = m[w]
      BY <3>1
    <3> DEFINE n == [m EXCEPT ![t + 1] = c]
    <3>5. n \in [W -> Nat] /\ n[t + 1] = c /\ \A w \in W : w # t + 1 => n[w] = m[w]
      BY <3>3, <3>4
    <3>6. m2 = [n EXCEPT ![p + 1] = t]
      BY <3>2
    <3> HIDE DEF n
    <3>7. m2 \in [W -> Nat] /\ m2[p + 1] = t /\ \A w \in W : w # p + 1 => m2[w] = n[w]
      BY <3>1, <3>5, <3>6
    <3>8. m2[t + 1] = n[t + 1]
      BY <3>1, <3>7
    <3> QED
      BY <2>2, <3>5, <3>7, <3>8
  <2> QED
    BY <2>1, <2>2
<1>3. ASSUME NEW b \in B PROVE m2[b] = m[b] /\ m2[b + 3] = m[b + 3]
  <2>1. ASSUME NEW d \in B PROVE b # d + 1 /\ b + 3 # d + 1
    BY <1>1, HeadersApart
  <2> QED
    BY <1>1, <1>2, <2>1
<1>4. Layout(m2, B, A) /\ \A b \in B : Ends(m2, b) = Ends(m, b)
  BY <1>3, LayoutSame DEF SameHeaders, Ends
<1>5. Chain(m2, F \cup {t}, head2)
  <2>1. F \subseteq Nat \ {0} /\ t \in (Nat \ {0}) \ F /\ p \in F \cup {NULL}
    BY <1>1
  <2>2. \A b \in F : b # p => m2[b + 1] = m[b + 1]
    <3>1. ASSUME NEW b \in F, b # p PROVE m2[b + 1] = m[b + 1]
      <4>1. b + 1 \in W /\ b + 1 # t + 1 /\ (p = NULL \/ b + 1 # p + 1)
        BY <1>1, <3>1
      <4> QED
        BY <1>2, <4>1
    <3> QED
      BY <3>1
  <2>3. Link(m2, head2, p) = t /\ (p # NULL => head2 = head)
    BY <1>2 DEF Link
  <2>4. Inserted(m, head, m2, head2, F, t, p)
    BY <1>2, <2>1, <2>2, <2>3 DEF Inserted
  <2> QED
    BY <2>4, ChainInsert
<1> QED
  BY <1>2, <1>4, <1>5

\* The block that a merge from m to m2 swallows.
Swallowed(m, m2, y) == IF m2 # m THEN {y} ELSE {}

\* From m to m2, x is merged with y, to which the list leads from it, if they
\* touch.
MergeStep(W, m, B, A, F, head, x, y, m2, B2, F2) ==
  /\ m \in [W -> Nat] /\ Layout(m, B, A) /\ A \subseteq W
  /\ F \subseteq B /\ Chain(m, F, head)
  /\ x \in F \cup {NULL} /\ y \in F \cup {NULL} /\ x # y
  /\ x # NULL /\ y # NULL => m[x + 1] = y
  /\ m2 = Merged(m, x, y)
  /\ B2 = B \ Swallowed(m, m2, y) /\ F2 = F \ Swallowed(m, m2, y)

\* What that leaves.
MergeLeaves(W, m, B, A, F, head, x, y, m2, B2, F2) ==
  /\ m2 \in [W -> Nat]
  /\ Layout(m2, B2, A)
  /\ Chain(m2, F2, head)
  /\ m2 = m =>
       /\ x = NULL \/ y = NULL \/ Ends(m, x) # y
       /\ B2 = B /\ F2 = F
  /\ m2 # m =>
       /\ x \in F /\ y \in F
       /\ Ends(m, x) = y
       /\ Ends(m2, x) = Ends(m, y)
       /\ m2[x + 1] = m[y + 1]
       /\ B2 = B \ {y} /\ F2 = F \ {y}
  /\ \A w \in W : x = NULL \/ (w # x /\ w # x + 1) => m2[w] = m[w]
  /\ \A b \in B : b # x => Ends(m2, b) = Ends(m, b)

LEMMA MergeStage ==
  ASSUME NEW W, NEW m, NEW B, NEW A, NEW F, NEW head, NEW x, NEW y,
         NEW m2, NEW B2, NEW F2,
         MergeStep(W, m, B, A, F, head, x, y, m2, B2, F2)
  PROVE  MergeLeaves(W, m, B, A, F, head, x, y, m2, B2, F2)
<1> USE DEF MergeLeaves
<1>1. /\ m \in [W -> Nat] /\ Layout(m, B, A) /\ A \subseteq W
      /\ F \subseteq B /\ Chain(m, F, head)
      /\ x \in F \cup {NULL} /\ y \in F \cup {NULL} /\ x # y
      /\ x # NULL /\ y # NULL => m[x + 1] = y
      /\ m2 = Merged(m, x, y)
      /\ B2 = B \ Swallowed(m, m2, y) /\ F2 = F \ Swallowed(m, m2, y)
  BY DEF MergeStep
<1>2. m2 = m => B2 = B /\ F2 = F
  BY <1>1 DEF Swallowed
<1>3. m2 # m => B2 = B \ {y} /\ F2 = F \ {y}
  BY <1>1 DEF Swallowed
<1>4. CASE x = NULL \/ y = NULL
  <2>1. m2 = m
    BY <1>1, <1>4 DEF Merged
  <2> QED
    BY <1>1, <1>2, <1>4, <2>1
<1>5. CASE x # NULL /\ y # NULL /\ Ends(m, x) # y
  <2>1. m2 = m
    BY <1>1, <1>5 DEF Merged, Ends
  <2> QED
    BY <1>1, <1>2, <1>5, <2>1
<1>6. CASE x # NULL /\ y # NULL /\ Ends(m, x) = y
  <2>1. x \in F /\ y \in F /\ m[x + 1] = y
    BY <1>1, <1>6
  <2>2. Joined(W, m, B, A, F, head, x, y, m2, B \ {y}, F \ {y})
    BY <1>1, <1>6, <2>1 DEF Joined
  <2>3. /\ m2 # m /\ m2 \in [W -> Nat]
        /\ Layout(m2, B \ {y}, A) /\ Chain(m2, F \ {y}, head)
        /\ Ends(m2, x) = Ends(m, y) /\ m2[x + 1] = m[y + 1]
        /\ \A w \in W : w # x /\ w # x + 1 => m2[w] = m[w]
    BY <2>2, MergeBlocks
  <2>4. B2 = B \ {y} /\ F2 = F \ {y}
    BY <1>3, <2>3
  <2>5. ASSUME NEW b \in B, b # x PROVE Ends(m2, b) = Ends(m, b)
    <3>1. x \in B /\ b # x + 1 /\ b \in W
      BY <1>1, <2>1, <2>5, HeadersApart, HeaderInside
    <3> QED
      BY <2>3, <2>5, <3>1 DEF Ends
  <2> QED
    BY <1>6, <2>1, <2>3, <2>4, <2>5
<1> QED
  BY <1>4, <1>5, <1>6

-----------------------------------------------------------------------------
(* Frames                                                                  *)

Arena == UNION {FrameSpan(f) : f \in heap_frames}
Edges == {FrameStart(f) : f \in heap_frames}

LEMMA MulMono ==
  ASSUME NEW a \in Nat, NEW b \in Nat, NEW d \in Nat, a <= b
  PROVE  a * d \in Nat /\ b * d \in Nat /\ a * d <= b * d /\ (a + 1) * d = a * d + d
BY Z3

LEMMA EvenMul ==
  ASSUME NEW a \in Nat, NEW d \in Nat, Even(d)
  PROVE  Even(a * d)
<1>1. PICK k \in Nat : d = 2 * k
  BY DEF Even, AlignWords
<1>2. a * d = 2 * (a * k) /\ a * k \in Nat
  BY <1>1, Z3
<1>3. \A j \in Nat : (2 * j) % 2 = 0
  OBVIOUS
<1>4. (2 * (a * k)) % 2 = 0
  BY <1>2, <1>3
<1> QED
  BY <1>2, <1>4 DEF Even, AlignWords

LEMMA FrameType ==
  ASSUME NEW f \in Frames
  PROVE  /\ FrameStart(f) \in Nat /\ FrameStart(f) > 0 /\ Even(FrameStart(f))
         /\ FrameSpan(f) = FrameStart(f) .. FrameStart(f) + FrameWords - 1
         /\ FrameStart(f) \in FrameSpan(f)
         /\ FrameSpan(f) \subseteq Words
<1>1. f \in Nat /\ FrameWords \in Nat /\ Even(FrameWords) /\ Hhdm \in Nat /\ Hhdm > 0
      /\ FrameWords >= 6 /\ Even(Hhdm)
  BY HeapAssumption DEF Even, AlignWords, HeaderWords
<1>2. f * FrameWords \in Nat
  BY <1>1, MulMono
<1>3. Even(Hhdm + f * FrameWords)
  <2>1. Even(f * FrameWords)
    BY <1>1, EvenMul
  <2>2. f * FrameWords \in Int /\ Hhdm \in Int
    BY <1>1, <1>2
  <2> QED
    BY <1>1, <2>1, <2>2, EvenPlus, Zenon
<1> QED
  BY <1>1, <1>2, <1>3 DEF FrameStart, FrameSpan, Words

LEMMA WordsType == Words \subseteq Nat /\ 0 \notin Words
<1>1. ASSUME NEW w \in Words PROVE w \in Nat /\ w # 0
  <2>1. PICK f \in Frames : w \in FrameSpan(f)
    BY DEF Words
  <2> QED
    BY <2>1, FrameType, HeapAssumption
<1> QED
  BY <1>1

\* Frames do not overlap.
LEMMA FramesApart ==
  ASSUME NEW f \in Frames, NEW g \in Frames, f < g
  PROVE  FrameStart(f) + FrameWords <= FrameStart(g)
<1>1. f \in Nat /\ g \in Nat /\ FrameWords \in Nat /\ Hhdm \in Nat /\ f + 1 <= g
  BY HeapAssumption
<1>2. (f + 1) * FrameWords = f * FrameWords + FrameWords
      /\ f * FrameWords \in Nat /\ g * FrameWords \in Nat
      /\ (f + 1) * FrameWords <= g * FrameWords
  BY <1>1, MulMono
<1> QED
  BY <1>1, <1>2 DEF FrameStart

LEMMA FramesDisjoint ==
  ASSUME NEW f \in Frames, NEW g \in Frames, f # g
  PROVE  \A w \in FrameSpan(f) : w \notin FrameSpan(g)
<1>1. f \in Nat /\ g \in Nat /\ FrameWords \in Nat
  BY HeapAssumption
<1>2. FrameStart(f) + FrameWords <= FrameStart(g) \/ FrameStart(g) + FrameWords <= FrameStart(f)
  BY <1>1, FramesApart
<1>3. /\ FrameStart(f) \in Nat /\ FrameSpan(f) = FrameStart(f) .. FrameStart(f) + FrameWords - 1
      /\ FrameStart(g) \in Nat /\ FrameSpan(g) = FrameStart(g) .. FrameStart(g) + FrameWords - 1
  BY FrameType, Zenon
<1> QED
  BY <1>1, <1>2, <1>3

\* What begins where a frame ends is the next frame.
LEMMA FrameEnd ==
  ASSUME NEW f \in Frames, NEW g \in Frames,
         FrameStart(f) + FrameWords \in FrameSpan(g)
  PROVE  FrameStart(f) + FrameWords = FrameStart(g)
<1>1. f \in Nat /\ g \in Nat /\ FrameWords \in Nat /\ Hhdm \in Nat
      /\ FrameWords > 0
  BY HeapAssumption DEF HeaderWords, AlignWords
<1>2. /\ FrameStart(f) \in Nat /\ FrameStart(g) \in Nat
      /\ FrameSpan(g) = FrameStart(g) .. FrameStart(g) + FrameWords - 1
  BY FrameType, Zenon
<1>3. FrameStart(g) <= FrameStart(f) + FrameWords
      /\ FrameStart(f) < FrameStart(g)
  BY <1>1, <1>2
<1>4. f < g
  <2>1. g < f => FrameStart(g) + FrameWords <= FrameStart(f)
    BY FramesApart
  <2>2. g = f => FrameStart(g) = FrameStart(f)
    OBVIOUS
  <2> QED
    BY <1>1, <1>2, <1>3, <2>1, <2>2
<1>5. FrameStart(f) + FrameWords <= FrameStart(g)
  BY <1>4, FramesApart
<1> QED
  BY <1>1, <1>2, <1>3, <1>5

\* Words that are addresses come in pairs.
LEMMA EvenBelow ==
  ASSUME NEW a \in Nat, Even(a), a + 3 \in Words
  PROVE  a + 2 \in Words
<1>1. PICK f \in Frames : a + 3 \in FrameSpan(f)
  BY DEF Words
<1>2. FrameStart(f) \in Nat /\ FrameStart(f) # a + 3
  <2>1. Even(a + 2) /\ a + 2 \in Int /\ FrameStart(f) \in Int /\ Even(FrameStart(f))
    BY FrameType DEF Even, AlignWords
  <2>2. (a + 2) + 1 # FrameStart(f)
    BY <2>1, EvenNext, Zenon
  <2> QED
    BY <2>1, <2>2, FrameType
<1>3. a + 2 \in FrameSpan(f)
  BY <1>1, <1>2, FrameType, HeapAssumption
<1> QED
  BY <1>3, FrameType
=============================================================================
