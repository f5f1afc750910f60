----------------------------- MODULE BootProofs -----------------------------
(***************************************************************************)
(* Proofs about Boot and Paging: that the walkers see what the processor   *)
(* sees, what each store of lapic.c does to the pages that are mapped, and *)
(* that kmain halts only on a machine which lacks what it needs.  A path   *)
(* has at most four indices, so that a proof goes down it level by level,  *)
(* by Further.  For the self-tests the invariant follows kmain: which      *)
(* frames are out, and, stage by stage, the words of memory that make the  *)
(* free list.  What pmm.c promises is taken from PmmProofs.                *)
(***************************************************************************)
EXTENDS Boot, SequenceTheorems, FiniteSetTheorems, TLAPS

\* The length of a path.
LEMMA Length == ASSUME NEW n \in Nat, NEW p \in [1 .. n -> Index] PROVE Len(p) = n
OBVIOUS

\* The entries on the way down a path.
Descent(b, t, p, n) ==
  /\ EntryAt(t, p) = b[n]
  /\ b[0] = ToTable(Cr3)
  /\ \A k \in 1 .. n : b[k] = Below(t, b[k - 1], p[k])

LEMMA Unfolded ==
  ASSUME NEW t, NEW n \in 0 .. 4, NEW p \in [1 .. n -> Index]
  PROVE  \E b : Descent(b, t, p, n)
<1> DEFINE F(b) == [k \in 0 .. n |->
                      IF k = 0 THEN ToTable(Cr3) ELSE Below(t, b[k - 1], p[k])]
           e1 == Below(t, ToTable(Cr3), p[1])
           e2 == Below(t, e1, p[2])
           e3 == Below(t, e2, p[3])
           e4 == Below(t, e3, p[4])
           c == [k \in 0 .. n |-> CASE k = 0 -> ToTable(Cr3) [] k = 1 -> e1
                                    [] k = 2 -> e2 [] k = 3 -> e3 [] k = 4 -> e4]
<1>1. Len(p) = n
  BY Length
<1>2. c = F(c)
  <2>1. ASSUME NEW k \in 0 .. n PROVE c[k] = F(c)[k]
    <3>1. CASE k = 0
      BY <3>1
    <3>2. CASE k = 1
      <4>1. c[0] = ToTable(Cr3) /\ c[1] = e1 BY <3>2
      <4> QED BY <4>1, <3>2
    <3>3. CASE k = 2
      <4>1. c[1] = e1 /\ c[2] = e2 BY <3>3
      <4> QED BY <4>1, <3>3
    <3>4. CASE k = 3
      <4>1. c[2] = e2 /\ c[3] = e3 BY <3>4
      <4> QED BY <4>1, <3>4
    <3>5. CASE k = 4
      <4>1. c[3] = e3 /\ c[4] = e4 BY <3>5
      <4> QED BY <4>1, <3>5
    <3> QED
      BY <3>1, <3>2, <3>3, <3>4, <3>5
  <2> QED
    BY <2>1
<1> DEFINE b == CHOOSE b : b = F(b)
<1>3. b = F(b)
  <2> HIDE DEF c, F
  <2> QED
    BY <1>2
<1>4. EntryAt(t, p) = b[n]
  BY <1>1 DEF EntryAt
<1>5. b[0] = ToTable(Cr3) /\ \A k \in 1 .. n : b[k] = Below(t, b[k - 1], p[k])
  <2> DEFINE bb == b
  <2>1. bb = F(bb)
    BY <1>3
  <2> HIDE DEF b
  <2> QED
    BY <2>1
<1> HIDE DEF b
<1> QED
  BY <1>4, <1>5 DEF Descent

LEMMA Root ==
  ASSUME NEW t, NEW p \in [1 .. 0 -> Index]
  PROVE  EntryAt(t, p) = ToTable(Cr3)
<1>1. 0 \in 0 .. 4
  OBVIOUS
<1>2. PICK b : Descent(b, t, p, 0)
  BY <1>1, Unfolded
<1> QED
  BY <1>2 DEF Descent

\* A path that goes one index further than q.
Beyond(p, q, n) == \A k \in 1 .. n : p[k] = q[k]

LEMMA Further ==
  ASSUME NEW t, NEW n \in 0 .. 3, NEW p \in [1 .. n + 1 -> Index],
         NEW q \in [1 .. n -> Index], Beyond(p, q, n)
  PROVE  EntryAt(t, p) = Below(t, EntryAt(t, q), p[n + 1])
<1>1. PICK b : Descent(b, t, p, n + 1)
  BY Unfolded, n + 1 \in 0 .. 4
<1>2. PICK c : Descent(c, t, q, n)
  BY Unfolded, n \in 0 .. 4
<1>3. b[n + 1] = Below(t, b[n], p[n + 1])
  BY <1>1, n + 1 \in 1 .. n + 1, (n + 1) - 1 = n DEF Descent
<1>4. \A k \in 1 .. n : b[k] = Below(t, b[k - 1], q[k])
  BY <1>1 DEF Beyond, Descent
<1>5. b[0] = c[0]
  BY <1>1, <1>2 DEF Descent
<1>6. 1 \in 1 .. n => b[1] = c[1]
  BY <1>2, <1>4, <1>5, 1 - 1 = 0 DEF Descent
<1>7. 2 \in 1 .. n => b[2] = c[2]
  BY <1>2, <1>4, <1>6, 2 - 1 = 1, 2 \in 1 .. n => 1 \in 1 .. n DEF Descent
<1>8. 3 \in 1 .. n => b[3] = c[3]
  BY <1>2, <1>4, <1>7, 3 - 1 = 2, 3 \in 1 .. n => 2 \in 1 .. n DEF Descent
<1>9. b[n] = c[n]
  BY <1>5, <1>6, <1>7, <1>8
<1> QED
  BY <1>1, <1>2, <1>3, <1>9 DEF Descent

\* The paths by their lengths.
LEMMA PathType ==
  /\ \A n \in 1 .. 4 : \A p \in [1 .. n -> Index] : p \in Paths
  /\ \A n \in 0 .. 3 : \A p \in [1 .. n -> Index] :
       p \in Paths \cup {<<>>} /\ Len(p) < 4
  /\ \A p \in Paths \cup {<<>>} : \E n \in 0 .. 4 : p \in [1 .. n -> Index] /\ Len(p) = n
  /\ \A p \in Paths : \E n \in 1 .. 4 : p \in [1 .. n -> Index] /\ Len(p) = n
<1>1. \A n \in 1 .. 4 : \A p \in [1 .. n -> Index] : p \in Paths
  BY DEF Paths
<1>2. \A p \in [1 .. 0 -> Index] : p = <<>>
  OBVIOUS
<1>3. \A n \in 0 .. 4 : \A p \in [1 .. n -> Index] : Len(p) = n
  BY Length
<1>4. \A n \in 0 .. 3 : \A p \in [1 .. n -> Index] : p \in Paths \cup {<<>>} /\ Len(p) < 4
  <2>1. ASSUME NEW n \in 0 .. 3, NEW p \in [1 .. n -> Index]
        PROVE  p \in Paths \cup {<<>>} /\ Len(p) < 4
    <3>1. CASE n = 0
      BY <1>2, <1>3, <3>1
    <3>2. CASE n # 0
      <4>1. n \in 1 .. 4 /\ Len(p) = n
        BY <1>3, <3>2
      <4>2. p \in Paths
        BY <1>1, <4>1, Zenon
      <4>3. n < 4
        OBVIOUS
      <4> QED
        BY <4>1, <4>2, <4>3
    <3> QED
      BY <3>1, <3>2
  <2> QED
    BY <2>1
<1>5. \A p \in Paths : \E n \in 1 .. 4 : p \in [1 .. n -> Index] /\ Len(p) = n
  BY <1>3 DEF Paths
<1>6. <<>> \in [1 .. 0 -> Index] /\ Len(<<>>) = 0
  OBVIOUS
<1>7. \A p \in Paths \cup {<<>>} : \E n \in 0 .. 4 : p \in [1 .. n -> Index] /\ Len(p) = n
  <2>1. 0 \in 0 .. 4 /\ 1 .. 4 \subseteq 0 .. 4
    OBVIOUS
  <2> QED
    BY <1>5, <1>6, <2>1
<1> QED
  BY <1>1, <1>4, <1>5, <1>7

-----------------------------------------------------------------------------
(* Two images on whose tables the processor reads the same                 *)

Leading(t, p) == EntryAt(t, p).present /\ ~EntryAt(t, p).huge

LEMMA Led ==
  ASSUME NEW t, NEW n \in 0 .. 3, NEW p \in [1 .. n -> Index], Leading(t, p)
  PROVE  EntryAt(t, p).frame \in Tables(t) /\ p \in TablePaths(t, EntryAt(t, p).frame)
BY PathType DEF Leading, Tables, TablePaths

SameAt(t, u, n) == \A p \in [1 .. n -> Index] : EntryAt(u, p) = EntryAt(t, p)

LEMMA Same ==
  ASSUME NEW t, NEW u,
         \A f \in Tables(t), i \in Index : Read(u, f, i) = Read(t, f, i)
  PROVE  \A n \in 0 .. 4 : SameAt(t, u, n)
<1>1. SameAt(t, u, 0)
  BY Root DEF SameAt
<1>2. ASSUME NEW n \in 0 .. 3, SameAt(t, u, n) PROVE SameAt(t, u, n + 1)
  <2> SUFFICES ASSUME NEW p \in [1 .. n + 1 -> Index]
               PROVE  EntryAt(u, p) = EntryAt(t, p)
    BY DEF SameAt
  <2> DEFINE q == [k \in 1 .. n |-> p[k]]
  <2>1. q \in [1 .. n -> Index] /\ Beyond(p, q, n) /\ p[n + 1] \in Index
    BY DEF Beyond
  <2> HIDE DEF q
  <2>2. EntryAt(u, q) = EntryAt(t, q)
    BY <1>2, <2>1 DEF SameAt
  <2>3. /\ EntryAt(u, p) = Below(u, EntryAt(t, q), p[n + 1])
        /\ EntryAt(t, p) = Below(t, EntryAt(t, q), p[n + 1])
    BY <2>1, <2>2, Further
  <2>4. Leading(t, q) => EntryAt(t, q).frame \in Tables(t)
    BY <2>1, Led
  <2> QED
    BY <2>1, <2>3, <2>4 DEF Below, Leading
<1>3. SameAt(t, u, 1) /\ SameAt(t, u, 2) /\ SameAt(t, u, 3) /\ SameAt(t, u, 4)
  <2>1. SameAt(t, u, 1)
    BY <1>1, <1>2, 0 + 1 = 1, 0 \in 0 .. 3
  <2>2. SameAt(t, u, 2)
    BY <2>1, <1>2, 1 + 1 = 2, 1 \in 0 .. 3
  <2>3. SameAt(t, u, 3)
    BY <2>2, <1>2, 2 + 1 = 3, 2 \in 0 .. 3
  <2>4. SameAt(t, u, 4)
    BY <2>3, <1>2, 3 + 1 = 4, 3 \in 0 .. 3
  <2> QED
    BY <2>1, <2>2, <2>3, <2>4
<1>4. \A n \in 0 .. 4 : n = 0 \/ n = 1 \/ n = 2 \/ n = 3 \/ n = 4
  OBVIOUS
<1> QED
  BY <1>1, <1>3, <1>4

-----------------------------------------------------------------------------
(* A store of an entry e into the slot i of a table f, to which only the    *)
(* path q leads.  The path w ends in that slot.                             *)

Slot(t, f, q, w, m) ==
  /\ q \in [1 .. m -> Index] /\ w \in [1 .. m + 1 -> Index] /\ Beyond(w, q, m)
  /\ f \in DOMAIN t
  /\ TablePaths(t, f) = {q}
  /\ ~EntryAt(t, w).present

\* A cleared table, at which no path ends.
Spare(t, g) ==
  /\ g \in DOMAIN t /\ t[g] = [i \in Index |-> Absent]
  /\ g \notin Tables(t)

LEMMA SamePath ==
  ASSUME NEW n \in 0 .. 3, NEW p \in [1 .. n + 1 -> Index],
         NEW w \in [1 .. n + 1 -> Index], NEW q, Beyond(p, q, n), Beyond(w, q, n)
  PROVE  p = w <=> p[n + 1] = w[n + 1]
<1>1. ASSUME p[n + 1] = w[n + 1] PROVE p = w
  <2>1. \A k \in 1 .. n + 1 : k \in 1 .. n \/ k = n + 1
    OBVIOUS
  <2>2. \A k \in 1 .. n + 1 : p[k] = w[k]
    BY <1>1, <2>1 DEF Beyond
  <2> QED
    BY <2>2
<1> QED
  BY <1>1

Grafted(t, u, w, m, e, n) ==
  \A p \in [1 .. n -> Index] :
    EntryAt(u, p) = IF n = m + 1 /\ p = w THEN e ELSE EntryAt(t, p)

LEMMA Graft ==
  ASSUME NEW t, NEW f, NEW m \in 0 .. 3, NEW q, NEW w, Slot(t, f, q, w, m),
         IsImage(t), NEW e \in Entries, m = 3 \/ Spare(t, e.frame)
  PROVE  \A n \in 0 .. 4 :
           Grafted(t, [t EXCEPT ![f][w[m + 1]] = e], w, m, e, n)
<1> DEFINE u == [t EXCEPT ![f][w[m + 1]] = e]
<1>1. /\ DOMAIN u = DOMAIN t
      /\ \A g \in DOMAIN t : g # f => u[g] = t[g]
      /\ \A i \in Index : u[f][i] = IF i = w[m + 1] THEN e ELSE t[f][i]
  BY DEF Slot, IsImage
<1> HIDE DEF u
<1>2. Grafted(t, u, w, m, e, 0)
  BY Root, m + 1 # 0 DEF Grafted
<1>3. ASSUME NEW n \in 0 .. 3, Grafted(t, u, w, m, e, n)
      PROVE  Grafted(t, u, w, m, e, n + 1)
  <2> SUFFICES ASSUME NEW p \in [1 .. n + 1 -> Index]
               PROVE  EntryAt(u, p) = IF n = m /\ p = w THEN e ELSE EntryAt(t, p)
    BY DEF Grafted
  <2> DEFINE r == [k \in 1 .. n |-> p[k]]
  <2>1. r \in [1 .. n -> Index] /\ Beyond(p, r, n) /\ p[n + 1] \in Index
    BY DEF Beyond
  <2> HIDE DEF r
  <2>2. EntryAt(u, r) = IF n = m + 1 /\ r = w THEN e ELSE EntryAt(t, r)
    BY <1>3, <2>1 DEF Grafted
  <2>3. /\ EntryAt(u, p) = Below(u, EntryAt(u, r), p[n + 1])
        /\ EntryAt(t, p) = Below(t, EntryAt(t, r), p[n + 1])
    BY <2>1, Further
  <2>4. Leading(t, r) => /\ EntryAt(t, r).frame \in Tables(t)
                         /\ r \in TablePaths(t, EntryAt(t, r).frame)
    BY <2>1, Led
  <2>5. CASE n = m + 1 /\ r = w
    <3>1. EntryAt(t, p) = Absent
      BY <2>3, <2>5 DEF Below, Slot
    <3>2. e.present /\ ~e.huge => Read(u, e.frame, p[n + 1]) = Absent
      <4>1. Spare(t, e.frame)
        BY <2>5
      <4>2. e.frame # f
        <5>1. q \in TablePaths(t, f)
          BY DEF Slot
        <5>2. f \in Tables(t)
          BY <5>1 DEF TablePaths, Tables
        <5> QED
          BY <4>1, <5>2 DEF Spare
      <4> QED
        BY <1>1, <2>1, <4>1, <4>2 DEF Read, Spare
    <3>3. EntryAt(u, p) = Absent
      BY <2>2, <2>3, <2>5, <3>2 DEF Below
    <3> QED
      BY <2>5, <3>1, <3>3
  <2>6. CASE ~(n = m + 1 /\ r = w) /\ ~Leading(t, r)
    <3>1. EntryAt(u, p) = Absent /\ EntryAt(t, p) = Absent
      BY <2>2, <2>3, <2>6 DEF Below, Leading
    <3>2. ~(n = m /\ p = w)
      <4> SUFFICES ASSUME n = m, p = w PROVE FALSE
        OBVIOUS
      <4>1. r = q
        BY <2>1 DEF Slot, Beyond
      <4>2. q \in TablePaths(t, f)
        BY DEF Slot
      <4> QED
        BY <2>6, <4>1, <4>2 DEF TablePaths, Leading
    <3> QED
      BY <3>1, <3>2
  <2>7. CASE ~(n = m + 1 /\ r = w) /\ Leading(t, r) /\ EntryAt(t, r).frame # f
    <3>1. EntryAt(u, p) = EntryAt(t, p)
      BY <1>1, <2>2, <2>3, <2>7 DEF Below, Leading, Read
    <3>2. ~(n = m /\ p = w)
      <4> SUFFICES ASSUME n = m, p = w PROVE FALSE
        OBVIOUS
      <4>1. r = q
        BY <2>1 DEF Slot, Beyond
      <4>2. q \in TablePaths(t, f)
        BY DEF Slot
      <4> QED
        BY <2>7, <4>1, <4>2 DEF TablePaths
    <3> QED
      BY <3>1, <3>2
  <2>8. CASE ~(n = m + 1 /\ r = w) /\ Leading(t, r) /\ EntryAt(t, r).frame = f
    <3>1. r = q
      BY <2>4, <2>8 DEF Slot
    <3>2. n = m
      <4>1. DOMAIN r = 1 .. n /\ DOMAIN q = 1 .. m
        BY <2>1 DEF Slot
      <4> QED
        BY <3>1, <4>1
    <3>3. p = w <=> p[n + 1] = w[n + 1]
      BY <2>1, <3>1, <3>2, SamePath DEF Slot
    <3>4. /\ EntryAt(u, p) = u[f][p[n + 1]]
          /\ EntryAt(t, p) = t[f][p[n + 1]]
      BY <1>1, <2>2, <2>3, <2>8 DEF Below, Leading, Read, Slot
    <3> QED
      BY <1>1, <2>1, <3>2, <3>3, <3>4
  <2> QED
    BY <2>5, <2>6, <2>7, <2>8
<1>4. /\ Grafted(t, u, w, m, e, 1) /\ Grafted(t, u, w, m, e, 2)
      /\ Grafted(t, u, w, m, e, 3) /\ Grafted(t, u, w, m, e, 4)
  <2>1. Grafted(t, u, w, m, e, 1)
    BY <1>2, <1>3, 0 + 1 = 1, 0 \in 0 .. 3
  <2>2. Grafted(t, u, w, m, e, 2)
    BY <2>1, <1>3, 1 + 1 = 2, 1 \in 0 .. 3
  <2>3. Grafted(t, u, w, m, e, 3)
    BY <2>2, <1>3, 2 + 1 = 3, 2 \in 0 .. 3
  <2>4. Grafted(t, u, w, m, e, 4)
    BY <2>3, <1>3, 3 + 1 = 4, 3 \in 0 .. 3
  <2> QED
    BY <2>1, <2>2, <2>3, <2>4
<1>5. \A n \in 0 .. 4 : n = 0 \/ n = 1 \/ n = 2 \/ n = 3 \/ n = 4
  OBVIOUS
<1>6. \A n \in 0 .. 4 : Grafted(t, u, w, m, e, n)
  BY <1>2, <1>4, <1>5
<1> QED
  BY <1>6 DEF u

\* The only path that such a store changes is the one into the slot.
Changed(t, u, w, e) ==
  \A p \in Paths \cup {<<>>} :
    EntryAt(u, p) = IF p = w THEN e ELSE EntryAt(t, p)

LEMMA GraftedAll ==
  ASSUME NEW t, NEW f, NEW m \in 0 .. 3, NEW q, NEW w, Slot(t, f, q, w, m),
         IsImage(t), NEW e \in Entries, m = 3 \/ Spare(t, e.frame),
         NEW u, u = [t EXCEPT ![f][w[m + 1]] = e]
  PROVE  Changed(t, u, w, e)
<1> SUFFICES ASSUME NEW p \in Paths \cup {<<>>}
             PROVE  EntryAt(u, p) = IF p = w THEN e ELSE EntryAt(t, p)
  BY DEF Changed
<1>1. PICK n \in 0 .. 4 : p \in [1 .. n -> Index] /\ Len(p) = n
  BY PathType
<1>2. Grafted(t, u, w, m, e, n)
  BY Graft
<1>3. p = w => n = m + 1
  <2>1. Len(w) = m + 1
    BY Length, m + 1 \in Nat DEF Slot
  <2> QED
    BY <1>1, <2>1
<1>4. EntryAt(u, p) = IF p = w THEN e ELSE EntryAt(t, p)
  BY <1>1, <1>2, <1>3 DEF Grafted
<1> QED
  BY <1>4

\* A path that ends in a slot is none to a table or a page yet.
LEMMA SlotIs ==
  ASSUME NEW t, NEW f, NEW m \in 0 .. 3, NEW q, NEW w, Slot(t, f, q, w, m)
  PROVE  /\ w \in Paths /\ Len(w) = m + 1 /\ ~EntryAt(t, w).present
         /\ f \in Tables(t) /\ f \in DOMAIN t
<1>1. w \in Paths
  BY PathType, m + 1 \in 1 .. 4 DEF Slot
<1>2. Len(w) = m + 1
  BY Length, m + 1 \in Nat DEF Slot
<1>3. f \in Tables(t)
  <2>1. q \in TablePaths(t, f)
    BY DEF Slot
  <2> QED
    BY <2>1 DEF TablePaths, Tables
<1> QED
  BY <1>1, <1>2, <1>3 DEF Slot

\* A store; the name keeps the provers from taking the function apart.
Stored(t, f, i, e) == [t EXCEPT ![f][i] = e]

Linked(t, u, f, w, g) ==
  /\ Leaves(u) = Leaves(t) /\ Tables(u) = Tables(t) \cup {g}
  /\ TablePaths(u, g) = {w}
  /\ \A p \in Paths : p # w => EntryAt(u, p) = EntryAt(t, p)
  /\ IsImage(u) /\ DOMAIN u = DOMAIN t
  /\ \A h \in DOMAIN t : h # f => u[h] = t[h]

\* To link a spare table maps nothing, and makes it a table with one path to it.
LEMMA LinkSpare ==
  ASSUME NEW t, NEW f, NEW m \in 0 .. 2, NEW q, NEW w, Slot(t, f, q, w, m),
         IsImage(t), NEW g \in Nat, Spare(t, g),
         NEW u, u = Stored(t, f, w[m + 1], ToTable(g))
  PROVE  Linked(t, u, f, w, g)
<1> DEFINE e == ToTable(g)
<1>1. e \in Entries /\ e.present /\ ~e.huge /\ e.frame = g
  BY DEF ToTable, Entry, Entries
<1>2. \A p \in Paths \cup {<<>>} : EntryAt(u, p) = IF p = w THEN e ELSE EntryAt(t, p)
  <2>1. u = [t EXCEPT ![f][w[m + 1]] = e] /\ Spare(t, e.frame)
    BY <1>1 DEF Stored
  <2> HIDE DEF e
  <2>2. Changed(t, u, w, e)
    BY <1>1, <2>1, GraftedAll, m \in 0 .. 3
  <2> QED
    BY <2>2 DEF Changed
<1>3. /\ w \in Paths /\ Len(w) < 4 /\ Len(w) # 4 /\ ~EntryAt(t, w).present
      /\ f \in Tables(t) /\ f \in DOMAIN t
  BY SlotIs, m \in 0 .. 3, m + 1 < 4, m + 1 # 4
<1>4. /\ DOMAIN u = DOMAIN t /\ \A h \in DOMAIN t : h # f => u[h] = t[h]
      /\ IsImage(u)
  BY <1>1, <1>3 DEF IsImage, Stored
<1> HIDE DEF e
<1>5. Leaves(u) = Leaves(t)
  <2>1. \A p \in Paths : /\ EntryAt(u, p).present
                         /\ Len(p) = 4 \/ EntryAt(u, p).huge
                       <=> /\ EntryAt(t, p).present
                           /\ Len(p) = 4 \/ EntryAt(t, p).huge
    <3> SUFFICES ASSUME NEW p \in Paths
                 PROVE  /\ EntryAt(u, p).present
                        /\ Len(p) = 4 \/ EntryAt(u, p).huge
                      <=> /\ EntryAt(t, p).present
                          /\ Len(p) = 4 \/ EntryAt(t, p).huge
      OBVIOUS
    <3>1. CASE p = w
      BY <1>1, <1>2, <1>3, <3>1
    <3>2. CASE p # w
      BY <1>2, <3>2
    <3> QED
      BY <3>1, <3>2
  <2>2. \A p \in Paths : EntryAt(t, p).present => EntryAt(u, p) = EntryAt(t, p)
    BY <1>2, <1>3
  <2> QED
    BY <2>1, <2>2 DEF Leaves
<1>6. Tables(u) = Tables(t) \cup {g}
  <2>1. ASSUME NEW h \in Tables(u) PROVE h \in Tables(t) \cup {g}
    BY <1>1, <1>2 DEF Tables
  <2>2. ASSUME NEW h \in Tables(t) PROVE h \in Tables(u)
    BY <1>2, <1>3 DEF Tables
  <2>3. g \in Tables(u)
    BY <1>1, <1>2, <1>3 DEF Tables
  <2> QED
    BY <2>1, <2>2, <2>3
<1>7. TablePaths(u, g) = {w}
  <2>1. w \in TablePaths(u, g)
    BY <1>1, <1>2, <1>3 DEF TablePaths
  <2>2. ASSUME NEW p \in TablePaths(u, g), p # w PROVE FALSE
    <3>1. p \in TablePaths(t, g)
      BY <1>2, <2>2 DEF TablePaths
    <3>2. g \in Tables(t)
      BY <3>1 DEF TablePaths, Tables
    <3> QED
      BY <3>2 DEF Spare
  <2> QED
    BY <2>1, <2>2
<1> QED
  BY <1>2, <1>4, <1>5, <1>6, <1>7 DEF Linked

\* To store a page into a table of the last level maps that page.
LEMMA StorePage ==
  ASSUME NEW t, NEW f, NEW q, NEW w, Slot(t, f, q, w, 3), IsImage(t),
         NEW e \in Entries, e.present, NEW u, u = Stored(t, f, w[4], e),
         ~e.huge
  PROVE  Leaves(u) = Leaves(t) \cup {<<w, e>>} /\ IsImage(u) /\ EntryAt(u, w) = e
<1>1. \A p \in Paths \cup {<<>>} : EntryAt(u, p) = IF p = w THEN e ELSE EntryAt(t, p)
  <2>1. u = [t EXCEPT ![f][w[3 + 1]] = e]
    BY 3 + 1 = 4 DEF Stored
  <2>2. Changed(t, u, w, e)
    BY <2>1, GraftedAll, 3 \in 0 .. 3
  <2> QED
    BY <2>2 DEF Changed
<1>2. /\ w \in Paths /\ Len(w) = 4 /\ ~EntryAt(t, w).present /\ f \in DOMAIN t
  BY SlotIs, 3 \in 0 .. 3, 3 + 1 = 4
<1>3. IsImage(u)
  BY <1>2 DEF IsImage, Stored
<1>4. ASSUME NEW l \in Leaves(u) PROVE l \in Leaves(t) \cup {<<w, e>>}
  BY <1>1 DEF Leaves
<1>5. ASSUME NEW l \in Leaves(t) PROVE l \in Leaves(u)
  BY <1>1, <1>2 DEF Leaves
<1>6. <<w, e>> \in Leaves(u)
  BY <1>1, <1>2 DEF Leaves
<1> QED
  BY <1>1, <1>2, <1>3, <1>4, <1>5, <1>6

LEMMA Cr3Table == ASSUME NEW t PROVE Cr3 \in Tables(t)
<1>1. <<>> \in [1 .. 0 -> Index] /\ Len(<<>>) = 0
  OBVIOUS
<1>2. EntryAt(t, <<>>) = ToTable(Cr3)
  BY <1>1, Root
<1> QED
  BY <1>1, <1>2 DEF Tables, ToTable, Entry

\* To clear frames that hold no tables changes nothing.
LEMMA ClearSpare ==
  ASSUME NEW t, IsImage(t), NEW G, G \cap Tables(t) = {},
         NEW u, u = Cleared(t, G)
  PROVE  /\ Leaves(u) = Leaves(t) /\ IsImage(u) /\ DOMAIN t \subseteq DOMAIN u
         /\ \A p \in Paths : EntryAt(u, p) = EntryAt(t, p)
         /\ \A f : TablePaths(u, f) = TablePaths(t, f)
         /\ \A g \in G : Spare(u, g)
<1>1. /\ DOMAIN u = G \cup DOMAIN t
      /\ \A f \in DOMAIN u : u[f] = IF f \in G THEN [i \in Index |-> Absent] ELSE t[f]
  BY DEF Cleared
<1>2. \A f \in Tables(t), i \in Index : Read(u, f, i) = Read(t, f, i)
  BY <1>1 DEF Read
<1>3. \A n \in 0 .. 4 : SameAt(t, u, n)
  BY <1>2, Same
<1>4. \A p \in Paths \cup {<<>>} : EntryAt(u, p) = EntryAt(t, p)
  BY <1>3, PathType DEF SameAt
<1>5. Leaves(u) = Leaves(t)
  BY <1>4 DEF Leaves
<1>6. Tables(u) = Tables(t)
  BY <1>4 DEF Tables
<1>7. \A f : TablePaths(u, f) = TablePaths(t, f)
  BY <1>4 DEF TablePaths
<1>8. IsImage(u)
  <2>1. Absent \in Entries /\ ~Absent.huge
    BY DEF Absent, Entry, Entries
  <2>2. Cr3 \in Tables(t)
    BY Cr3Table
  <2>3. u \in [DOMAIN u -> [Index -> Entries]]
    <3>1. u = [f \in DOMAIN u |-> u[f]]
      BY <1>1 DEF Cleared
    <3>2. \A f \in DOMAIN u : u[f] \in [Index -> Entries]
      BY <1>1, <2>1 DEF IsImage
    <3> QED
      BY <3>1, <3>2
  <2> QED
    BY <1>1, <2>2, <2>3 DEF IsImage
<1> QED
  BY <1>1, <1>4, <1>5, <1>6, <1>7, <1>8 DEF Spare

-----------------------------------------------------------------------------
(* The walkers                                                             *)

LEMMA EntryType ==
  ASSUME NEW t, IsImage(t), NEW n \in 1 .. 4, NEW p \in [1 .. n -> Index]
  PROVE  EntryAt(t, p) \in Entries
<1> DEFINE q == [k \in 1 .. n - 1 |-> p[k]]
<1>1. /\ n - 1 \in 0 .. 3 /\ p \in [1 .. (n - 1) + 1 -> Index] /\ p[(n - 1) + 1] \in Index
      /\ q \in [1 .. n - 1 -> Index] /\ Beyond(p, q, n - 1)
  BY DEF Beyond
<1> HIDE DEF q
<1>2. EntryAt(t, p) = Below(t, EntryAt(t, q), p[(n - 1) + 1])
  BY <1>1, Further
<1>3. Absent \in Entries
  BY DEF Absent, Entry, Entries
<1>4. \A f : \A i \in Index : Read(t, f, i) \in Entries
  BY <1>3 DEF Read, IsImage
<1> QED
  BY <1>1, <1>2, <1>3, <1>4 DEF Below

\* The first n indices of an address.
Cut(a, n) == [k \in 1 .. n |-> a[k]]

LEMMA CutType ==
  ASSUME NEW a \in Addresses
  PROVE  /\ \A n \in 0 .. 4 : Cut(a, n) \in [1 .. n -> Index]
         /\ \A n \in 0 .. 3 : Beyond(Cut(a, n + 1), Cut(a, n), n)
         /\ Cut(a, 4) = a /\ a \in [1 .. 4 -> Index]
         /\ \A n \in 1 .. 4 : Cut(a, n)[n] = a[n]
         /\ a[1] \in Index /\ a[2] \in Index /\ a[3] \in Index /\ a[4] \in Index
<1>1. a[1] \in Index /\ a[2] \in Index /\ a[3] \in Index /\ a[4] \in Index
  BY DEF Addresses
<1>2. a = <<a[1], a[2], a[3], a[4]>>
  BY DEF Addresses
<1>3. a \in [1 .. 4 -> Index]
  BY <1>1, <1>2
<1> QED
  BY <1>1, <1>3 DEF Cut, Beyond

LEMMA Walked ==
  ASSUME NEW t, IsImage(t), NEW a \in Addresses
  PROVE  /\ EntryAt(t, Cut(a, 1)) = pml4_entry(t, a)
         /\ ~EntryAt(t, Cut(a, 1)).huge
         /\ EntryAt(t, Cut(a, 2)) = Below(t, EntryAt(t, Cut(a, 1)), a[2])
         /\ EntryAt(t, Cut(a, 3)) = Below(t, EntryAt(t, Cut(a, 2)), a[3])
         /\ EntryAt(t, a) = Below(t, EntryAt(t, Cut(a, 3)), a[4])
<1>1. ASSUME NEW n \in 0 .. 3
      PROVE  EntryAt(t, Cut(a, n + 1)) = Below(t, EntryAt(t, Cut(a, n)), a[n + 1])
  <2>1. /\ Cut(a, n) \in [1 .. n -> Index] /\ Cut(a, n + 1) \in [1 .. n + 1 -> Index]
        /\ Beyond(Cut(a, n + 1), Cut(a, n), n) /\ Cut(a, n + 1)[n + 1] = a[n + 1]
    BY CutType, n \in 0 .. 4, n + 1 \in 1 .. 4, n + 1 \in 0 .. 4
  <2> QED
    BY <2>1, Further
<1>2. EntryAt(t, Cut(a, 0)) = ToTable(Cr3)
  BY Root, CutType, 0 \in 0 .. 4
<1>3. EntryAt(t, Cut(a, 1)) = Below(t, ToTable(Cr3), a[1])
  BY <1>1, <1>2, 0 \in 0 .. 3, 0 + 1 = 1
<1>4. EntryAt(t, Cut(a, 1)) = pml4_entry(t, a) /\ pml4_entry(t, a) = t[Cr3][a[1]]
  BY <1>3 DEF Below, ToTable, Entry, pml4_entry, Read, IsImage
<1>5. ~EntryAt(t, Cut(a, 1)).huge
  BY <1>4, CutType DEF IsImage
<1>6. /\ EntryAt(t, Cut(a, 2)) = Below(t, EntryAt(t, Cut(a, 1)), a[2])
      /\ EntryAt(t, Cut(a, 3)) = Below(t, EntryAt(t, Cut(a, 2)), a[3])
      /\ EntryAt(t, Cut(a, 4)) = Below(t, EntryAt(t, Cut(a, 3)), a[4])
  BY <1>1, 1 \in 0 .. 3, 1 + 1 = 2, 2 \in 0 .. 3, 2 + 1 = 3, 3 \in 0 .. 3, 3 + 1 = 4
<1> QED
  BY <1>4, <1>5, <1>6, CutType

LEMMA NothingAbsent == Absent.present = FALSE
BY DEF Absent, Entry

LEMMA Translated ==
  ASSUME NEW t, IsImage(t), NEW a \in Addresses
  PROVE  paging_translate_4k(t, a)
           = IF EntryAt(t, a).present THEN EntryAt(t, a).frame ELSE NotMapped
BY Walked, NothingAbsent
   DEF paging_translate_4k, pt_entry, pd_entry, pdpt_entry, Below

LEMMA Mapped ==
  ASSUME NEW t, IsImage(t), NEW a \in Addresses
  PROVE  paging_is_mapped(t, a) <=>
           \E n \in 1 .. 4 : /\ EntryAt(t, Cut(a, n)).present
                             /\ n = 4 \/ EntryAt(t, Cut(a, n)).huge
<1>1. (\E n \in 1 .. 4 : /\ EntryAt(t, Cut(a, n)).present
                         /\ n = 4 \/ EntryAt(t, Cut(a, n)).huge)
        <=> \/ EntryAt(t, Cut(a, 1)).present /\ EntryAt(t, Cut(a, 1)).huge
            \/ EntryAt(t, Cut(a, 2)).present /\ EntryAt(t, Cut(a, 2)).huge
            \/ EntryAt(t, Cut(a, 3)).present /\ EntryAt(t, Cut(a, 3)).huge
            \/ EntryAt(t, a).present
  <2>1. \A n \in 1 .. 4 : n = 1 \/ n = 2 \/ n = 3 \/ n = 4
    OBVIOUS
  <2> QED
    BY <2>1, CutType
<1> QED
  BY <1>1, Walked, NothingAbsent
     DEF paging_is_mapped, pt_entry, pd_entry, pdpt_entry, Below

LEMMA PrefixIs ==
  ASSUME NEW a \in Addresses, NEW n \in 1 .. 4, NEW p \in [1 .. n -> Index]
  PROVE  IsPrefix(p, a) <=> p = Cut(a, n)
<1>1. a \in [1 .. 4 -> Index] /\ Cut(a, n) \in [1 .. n -> Index]
  BY CutType, n \in 0 .. 4
<1>2. a \in Seq(Index) /\ p \in Seq(Index) /\ Cut(a, n) \in Seq(Index)
  <2>1. \A k \in Nat : \A s \in [1 .. k -> Index] : s \in Seq(Index)
    BY SeqDef, Zenon
  <2> QED
    BY <1>1, <2>1, n \in Nat, 4 \in Nat
<1>3. Len(p) = n /\ Len(a) = 4 /\ Len(Cut(a, n)) = n
  BY <1>1, Length, n \in Nat, 4 \in Nat
<1>4. SubSeq(p, 1, n) = p
  BY <1>2, <1>3, SubSeqFull
<1>5. SubSeq(a, 1, n) = Cut(a, n)
  <2>1. \A i \in 1 .. n : a[i] \in Index
    BY <1>1
  <2>2. /\ SubSeq(a, 1, n) \in Seq(Index)
        /\ Len(SubSeq(a, 1, n)) = IF 1 <= n THEN n - 1 + 1 ELSE 0
        /\ \A i \in 1 .. n - 1 + 1 : SubSeq(a, 1, n)[i] = a[1 + i - 1]
    BY <2>1, SubSeqProperties
  <2>3. \A i \in 1 .. n : SubSeq(a, 1, n)[i] = Cut(a, n)[i]
    BY <2>2 DEF Cut
  <2> QED
    BY <1>2, <1>3, <2>2, <2>3, SeqEqual
<1> QED
  BY <1>3, <1>4, <1>5 DEF IsPrefix

LEMMA LeafIs ==
  ASSUME NEW t
  PROVE  /\ \A n \in 1 .. 4 : \A p \in [1 .. n -> Index] :
              EntryAt(t, p).present /\ (n = 4 \/ EntryAt(t, p).huge)
                => <<p, EntryAt(t, p)>> \in Leaves(t)
         /\ \A l \in Leaves(t) : \E n \in 1 .. 4 : \E p \in [1 .. n -> Index] :
              /\ l = <<p, EntryAt(t, p)>>
              /\ EntryAt(t, p).present /\ (n = 4 \/ EntryAt(t, p).huge)
<1>1. \A n \in 1 .. 4 : \A p \in [1 .. n -> Index] : p \in Paths /\ Len(p) = n
  BY PathType, Length, \A n \in 1 .. 4 : n \in Nat
<1>2. \A p \in Paths : \E n \in 1 .. 4 : p \in [1 .. n -> Index] /\ Len(p) = n
  BY PathType
<1>3. \A n \in 1 .. 4 : \A p \in [1 .. n -> Index] :
        EntryAt(t, p).present /\ (n = 4 \/ EntryAt(t, p).huge)
          => <<p, EntryAt(t, p)>> \in Leaves(t)
  BY <1>1 DEF Leaves
<1>4. ASSUME NEW l \in Leaves(t)
      PROVE  \E n \in 1 .. 4 : \E p \in [1 .. n -> Index] :
              /\ l = <<p, EntryAt(t, p)>>
              /\ EntryAt(t, p).present /\ (n = 4 \/ EntryAt(t, p).huge)
  <2>1. PICK p \in Paths : /\ l = <<p, EntryAt(t, p)>> /\ EntryAt(t, p).present
                           /\ Len(p) = 4 \/ EntryAt(t, p).huge
    BY DEF Leaves
  <2>2. PICK n \in 1 .. 4 : p \in [1 .. n -> Index] /\ Len(p) = n
    BY <1>2
  <2> QED
    BY <2>1, <2>2
<1> QED
  BY <1>3, <1>4

\* On every image the walkers see what the processor sees.
LEMMA WalkersRight == ASSUME NEW t, IsImage(t) PROVE WalksRight(t)
<1> SUFFICES ASSUME NEW a \in Addresses
             PROVE  /\ paging_translate_4k(t, a)
                         = IF \E l \in Leaves(t) : l[1] = a
                           THEN (CHOOSE l \in Leaves(t) : l[1] = a)[2].frame
                           ELSE NotMapped
                    /\ paging_is_mapped(t, a)
                         <=> \E l \in Leaves(t) : IsPrefix(l[1], a)
  BY DEF WalksRight
<1>1. a \in [1 .. 4 -> Index] /\ \A n \in 1 .. 4 : Cut(a, n) \in [1 .. n -> Index]
  BY CutType, 1 .. 4 \subseteq 0 .. 4
<1>2. \A l \in Leaves(t) : l[1] = a => l = <<a, EntryAt(t, a)>> /\ EntryAt(t, a).present
  BY LeafIs
<1>3. EntryAt(t, a).present => <<a, EntryAt(t, a)>> \in Leaves(t)
  BY <1>1, LeafIs, 4 \in 1 .. 4
<1>4. paging_translate_4k(t, a)
        = IF \E l \in Leaves(t) : l[1] = a
          THEN (CHOOSE l \in Leaves(t) : l[1] = a)[2].frame ELSE NotMapped
  <2>1. CASE EntryAt(t, a).present
    <3> DEFINE l == CHOOSE l \in Leaves(t) : l[1] = a
    <3>1. \E k \in Leaves(t) : k[1] = a
      BY <1>3, <2>1
    <3>2. l \in Leaves(t) /\ l[1] = a
      BY <3>1
    <3>3. l[2] = EntryAt(t, a)
      <4> HIDE DEF l
      <4> QED
        BY <1>2, <3>2
    <3> HIDE DEF l
    <3> QED
      BY <2>1, <3>1, <3>3, Translated DEF l
  <2>2. CASE ~EntryAt(t, a).present
    <3>1. ~\E l \in Leaves(t) : l[1] = a
      BY <1>2, <2>2
    <3> QED
      BY <2>2, <3>1, Translated
  <2> QED
    BY <2>1, <2>2
<1>5. ASSUME NEW l \in Leaves(t), IsPrefix(l[1], a) PROVE paging_is_mapped(t, a)
  <2>0. PICK n \in 1 .. 4 : \E p \in [1 .. n -> Index] :
          /\ l = <<p, EntryAt(t, p)>>
          /\ EntryAt(t, p).present /\ (n = 4 \/ EntryAt(t, p).huge)
    BY LeafIs
  <2>1. PICK p \in [1 .. n -> Index] :
          /\ l = <<p, EntryAt(t, p)>>
          /\ EntryAt(t, p).present /\ (n = 4 \/ EntryAt(t, p).huge)
    BY <2>0
  <2>2. p = Cut(a, n)
    BY <1>5, <2>1, PrefixIs
  <2> QED
    BY <2>1, <2>2, Mapped
<1>6. ASSUME paging_is_mapped(t, a) PROVE \E l \in Leaves(t) : IsPrefix(l[1], a)
  <2>1. PICK n \in 1 .. 4 : /\ EntryAt(t, Cut(a, n)).present
                            /\ n = 4 \/ EntryAt(t, Cut(a, n)).huge
    BY <1>6, Mapped
  <2>2. <<Cut(a, n), EntryAt(t, Cut(a, n))>> \in Leaves(t)
    BY <1>1, <2>1, LeafIs
  <2>3. IsPrefix(Cut(a, n), a)
    BY <1>1, PrefixIs
  <2> QED
    BY <2>2, <2>3
<1> QED
  BY <1>4, <1>5, <1>6

-----------------------------------------------------------------------------
(* The kernel's pages                                                      *)

LEMMA Pages ==
  /\ KernelBase \in Addresses /\ Request = KernelBase /\ DirectoryPage \in Addresses
  /\ TablePage \in Addresses /\ LapicPage \in Addresses
  /\ Cut(LapicPage, 1) = <<511>> /\ Cut(LapicPage, 2) = <<511, 511>>
  /\ Cut(LapicPage, 3) = <<511, 511, 0>> /\ Cut(LapicPage, 4) = LapicPage
  /\ \A n \in 0 .. 4 : Cut(LapicPage, n) \in [1 .. n -> Index]
  /\ \A n \in 0 .. 3 : Beyond(Cut(LapicPage, n + 1), Cut(LapicPage, n), n)
  /\ LapicPage[1] = 511 /\ LapicPage[2] = 511 /\ LapicPage[3] = 0 /\ LapicPage[4] = 0
<1>1. 0 \in Index /\ 510 \in Index /\ 511 \in Index
  BY BootAssumption
<1>2. /\ KernelBase \in Addresses /\ DirectoryPage \in Addresses
      /\ TablePage \in Addresses /\ LapicPage \in Addresses
  BY <1>1 DEF Addresses, KernelBase, DirectoryPage, TablePage, LapicPage
<1>3. /\ Cut(LapicPage, 1) = <<511>> /\ Cut(LapicPage, 2) = <<511, 511>>
      /\ Cut(LapicPage, 3) = <<511, 511, 0>>
  BY DEF Cut, LapicPage
<1> QED
  BY <1>2, <1>3, CutType DEF Request, KernelBase, LapicPage

\* Neither array lies on the way to the page of the LAPIC.
LEMMA OffTheWay ==
  ASSUME NEW n \in 1 .. 4
  PROVE  /\ DirectoryPage \in Paths /\ TablePage \in Paths
         /\ DirectoryPage # Cut(LapicPage, n) /\ TablePage # Cut(LapicPage, n)
<1>1. DirectoryPage \in Paths /\ TablePage \in Paths
  BY Pages, CutType, PathType, 4 \in 1 .. 4
<1>2. /\ DirectoryPage \in [1 .. 4 -> Index] /\ TablePage \in [1 .. 4 -> Index]
      /\ Cut(LapicPage, n) \in [1 .. n -> Index]
  <2>1. DirectoryPage \in [1 .. 4 -> Index] /\ TablePage \in [1 .. 4 -> Index]
    BY Pages, CutType
  <2>2. Cut(LapicPage, n) \in [1 .. n -> Index]
    BY Pages, n \in 0 .. 4
  <2> QED
    BY <2>1, <2>2
<1>3. CASE n = 4
  <2>1. DirectoryPage[2] = 510 /\ TablePage[2] = 510
    BY DEF DirectoryPage, TablePage
  <2>2. Cut(LapicPage, n)[2] = 511
    BY <1>3, Pages
  <2> QED
    BY <1>1, <2>1, <2>2, 510 # 511
<1>4. CASE n # 4
  <2>1. Len(DirectoryPage) = 4 /\ Len(TablePage) = 4
    BY <1>2, Length, 4 \in Nat
  <2>2. Len(Cut(LapicPage, n)) = n
    BY <1>2, Length, n \in Nat
  <2> QED
    BY <1>1, <1>4, <2>1, <2>2
<1> QED
  BY <1>3, <1>4

\* The debug walkers read tables on every path that the translation has taken.
LEMMA WalkInTables ==
  ASSUME NEW t, IsImage(t), NEW a \in Addresses, paging_translate_4k(t, a) # NotMapped
  PROVE  ToSet(Walk(t, a, 4)) \subseteq Tables(t)
<1>1. EntryAt(t, a).present
  BY Translated
<1>2. /\ Leading(t, Cut(a, 1)) /\ Leading(t, Cut(a, 2)) /\ Leading(t, Cut(a, 3))
      /\ EntryAt(t, Cut(a, 1)) = pml4_entry(t, a)
      /\ EntryAt(t, Cut(a, 2)) = pdpt_entry(t, a)
      /\ EntryAt(t, Cut(a, 3)) = pd_entry(t, a)
  BY <1>1, Walked, NothingAbsent DEF Below, Leading, pdpt_entry, pd_entry
<1>3. /\ pml4_entry(t, a).frame \in Tables(t)
      /\ pdpt_entry(t, a).frame \in Tables(t)
      /\ pd_entry(t, a).frame \in Tables(t)
  <2>1. \A n \in 1 .. 3 : Cut(a, n) \in [1 .. n -> Index] /\ n \in 0 .. 3
    BY CutType, \A n \in 1 .. 3 : n \in 0 .. 4 /\ n \in 0 .. 3
  <2>2. \A n \in 1 .. 3 : Leading(t, Cut(a, n)) => EntryAt(t, Cut(a, n)).frame \in Tables(t)
    BY <2>1, Led
  <2> QED
    BY <1>2, <2>2, 1 \in 1 .. 3, 2 \in 1 .. 3, 3 \in 1 .. 3
<1>4. Cr3 \in Tables(t)
  BY Cr3Table
<1> DEFINE s == <<Cr3, pml4_entry(t, a).frame, pdpt_entry(t, a).frame, pd_entry(t, a).frame>>
<1>5. s \in Seq(Tables(t)) /\ Len(s) = 4
  BY <1>3, <1>4
<1> HIDE DEF s
<1>6. SubSeq(s, 1, 4) = s
  BY <1>5, SubSeqFull
<1>7. \A i \in DOMAIN s : s[i] \in Tables(t)
  BY <1>5
<1> QED
  BY <1>6, <1>7 DEF Walk, ToSet, s

-----------------------------------------------------------------------------
(* What holds while lapic.c extends the tables                             *)

\* The slot at level m + 1 on the way to the page of the LAPIC.
OnTheWay(t, f, m) == Slot(t, f, Cut(LapicPage, m), Cut(LapicPage, m + 1), m)

\* Before and after each store: the table that it goes to has one path to it, the
\* slot is free, and the arrays that are not linked yet are cleared and nobody's.
Linking ==
  LET pdpt      == pml4_entry(tables, LapicPage).frame
      directory == page_directory_physical
      table     == page_table_physical
  IN  /\ at = "link_directory" =>
           /\ OnTheWay(tables, pdpt, 1)
           /\ directory \in Nat /\ Spare(tables, directory)
           /\ table \in Nat /\ Spare(tables, table) /\ table # directory
      /\ at = "link_table" =>
           /\ OnTheWay(tables, directory, 2)
           /\ table \in Nat /\ Spare(tables, table)
      /\ at = "link_page" => OnTheWay(tables, table, 3)
      /\ at = "lint0" => EntryAt(tables, LapicPage) = DevicePage(LapicFrame)

\* kmain walks the loader's tables first.
Loaded ==
  /\ machine \in Machines
  /\ at \in {"responses", "translate", "debug_walk", "lapic"} => tables = machine.tables
  /\ at = "debug_walk" => paging_translate_4k(tables, Request) # NotMapped

TablesInv == IsImage(tables) /\ Loaded /\ Linking

LEMMA TablesInit == Init => TablesInv
<1> SUFFICES ASSUME Init PROVE TablesInv
  OBVIOUS
<1>1. machine \in Machines /\ tables = machine.tables /\ at = "responses"
  BY DEF Init
<1>2. IsImage(tables)
  BY <1>1, BootAssumption DEF Loader
<1> QED
  BY <1>1, <1>2 DEF TablesInv, Loaded, Linking

\* The steps that leave the tables alone.
Elsewhere ==
  /\ machine' = machine /\ tables' = tables
  /\ \/ at' = at
     \/ at' \notin {"responses", "translate", "debug_walk", "lapic",
                   "link_directory", "link_table", "link_page", "lint0"}

LEMMA ElsewhereKeeps == TablesInv /\ Elsewhere => TablesInv'
<1> SUFFICES ASSUME TablesInv, Elsewhere PROVE TablesInv'
  OBVIOUS
<1>1. IsImage(tables')
  BY DEF TablesInv, Elsewhere
<1>2. Loaded'
  BY DEF TablesInv, Elsewhere, Loaded
<1>3. Linking'
  BY DEF TablesInv, Elsewhere, Linking, page_directory_physical, page_table_physical
<1> QED
  BY <1>1, <1>2, <1>3 DEF TablesInv

LEMMA OthersElsewhere ==
  ASSUME \/ WaitForTicks
         \/ pmm_init \/ TestAllocate \/ TestFree \/ CheckCounts
         \/ KeepFrames \/ WriteFrame \/ FreeAgain \/ TestReuse \/ CheckReuse
         \/ heap_init \/ HeapStep \/ Numbers \/ WriteNumbers
         \/ SecondFrame \/ WriteByte \/ CheckFrame \/ CheckAlignment \/ CheckFree \/ CheckMerge
         \/ boot_get_framebuffer
  PROVE  Elsewhere
<1>1. ASSUME NEW message, Fail(message) PROVE Elsewhere
  BY <1>1 DEF Fail, Elsewhere, kmain
<1>0. ASSUME NEW bytes, NEW there, NEW locals, Kmalloc(bytes, there, locals),
             there \in {"write_byte", "alignment", "check_merge"}
      PROVE  Elsewhere
  BY <1>0 DEF Kmalloc, Goto, Elsewhere, kmain
<1>2. CASE WaitForTicks
  BY <1>2 DEF WaitForTicks, Goto, Elsewhere
<1>3. CASE pmm_init
  BY <1>3 DEF pmm_init, Goto, Elsewhere, kmain
<1>4. CASE TestAllocate
  BY <1>4 DEF TestAllocate, Allocate, Goto, Elsewhere, kmain
<1>5. CASE TestFree
  BY <1>5 DEF TestFree, Free, Goto, Elsewhere, kmain
<1>6. CASE CheckCounts
  BY <1>6, <1>1 DEF CheckCounts, Checked, Goto, Elsewhere
<1>7. CASE KeepFrames
  BY <1>7 DEF KeepFrames, Allocate, Goto, Elsewhere, kmain
<1>8. CASE WriteFrame
  BY <1>8 DEF WriteFrame, Write, Goto, Elsewhere
<1>9. CASE FreeAgain
  BY <1>9 DEF FreeAgain, Free, Goto, Elsewhere, kmain
<1>10. CASE TestReuse
  BY <1>10 DEF TestReuse, Allocate, Goto, Elsewhere, kmain
<1>11. CASE CheckReuse
  BY <1>11, <1>1 DEF CheckReuse, Checked, Goto, Elsewhere
<1>12. CASE heap_init
  BY <1>12 DEF heap_init, Goto, Elsewhere
<1>13. CASE HeapStep
  BY <1>13 DEF HeapStep, Elsewhere
<1>14. CASE Numbers
  BY <1>14 DEF Numbers, Kmalloc, Goto, Elsewhere, kmain
<1>15. CASE WriteNumbers
  BY <1>15 DEF WriteNumbers, Write, Goto, Elsewhere
<1>16. CASE SecondFrame
  BY <1>0, <1>16 DEF SecondFrame
<1>17. CASE WriteByte
  BY <1>17 DEF WriteByte, Write, Goto, Elsewhere
<1>18. CASE CheckFrame
  <2>1. \/ \E message : Fail(message)
        \/ \E locals : Kmalloc(13, "alignment", locals)
    BY <1>18 DEF CheckFrame, Checked
  <2> QED
    BY <1>0, <1>1, <2>1
<1>19. CASE CheckAlignment
  BY <1>19, <1>1 DEF CheckAlignment, Checked, Goto, Elsewhere
<1>20. CASE CheckFree
  <2> DEFINE fault == CASE heap_used # local.used_before - 2 ->
                             "KBM_HEAP_FREE_ACCOUNTING_TEST_FAILED"
                        [] heap_used = local.used_before - 2
                             /\ heap_frame_count # local.frames_before ->
                             "KBM_HEAP_FREE_FRAME_COUNT_TEST_FAILED"
                        [] OTHER -> ""
             request == 3900
  <2>1. IF fault # "" THEN Fail(fault) ELSE Kmalloc(request, "check_merge", local)
    BY <1>20 DEF CheckFree, Checked
  <2> HIDE DEF fault, request
  <2> QED
    BY <1>0, <1>1, <2>1
<1>21. CASE CheckMerge
  BY <1>21, <1>1 DEF CheckMerge, Checked, Goto, Elsewhere
<1>22. CASE boot_get_framebuffer
  BY <1>22, <1>1 DEF boot_get_framebuffer, Checked, Goto, Elsewhere
<1> QED
  BY <1>2, <1>3, <1>4, <1>5, <1>6, <1>7, <1>8, <1>9, <1>10, <1>11, <1>12, <1>13,
     <1>14, <1>15, <1>16, <1>17, <1>18, <1>19, <1>20, <1>21, <1>22

-----------------------------------------------------------------------------
(* The steps before and in lapic.c                                         *)

LEMMA LoadedKeeps ==
  ASSUME TablesInv, CheckResponses \/ TranslateRequest \/ DebugWalk
  PROVE  TablesInv'
<1>1. ASSUME NEW message, Fail(message) PROVE TablesInv'
  <2>1. Elsewhere
    BY <1>1 DEF Fail, Elsewhere, kmain
  <2> QED
    BY <2>1, ElsewhereKeeps
<1>2. ASSUME machine' = machine, tables' = tables,
             \/ at = "responses" /\ at' = "translate"
             \/ at = "debug_walk" /\ at' = "lapic"
             \/ /\ at = "translate" /\ at' = "debug_walk"
                /\ paging_translate_4k(tables, Request) # NotMapped
      PROVE  TablesInv'
  <2>1. IsImage(tables')
    BY <1>2 DEF TablesInv
  <2>2. Loaded'
    BY <1>2 DEF TablesInv, Loaded
  <2>3. Linking'
    BY <1>2 DEF Linking
  <2> QED
    BY <2>1, <2>2, <2>3 DEF TablesInv
<1>3. CASE CheckResponses
  BY <1>1, <1>2, <1>3 DEF CheckResponses, Checked, At, Goto
<1>4. CASE TranslateRequest
  BY <1>1, <1>2, <1>4 DEF TranslateRequest, Checked, At, Goto
<1>5. CASE DebugWalk
  BY <1>2, <1>5 DEF DebugWalk, At, Goto
<1> QED
  BY <1>3, <1>4, <1>5

\* The frames of the arrays come from the walk, which no store disturbs.
LEMMA ArraysStay ==
  ASSUME NEW t, NEW u, IsImage(t), IsImage(u), NEW n \in 1 .. 4,
         \A p \in Paths : p # Cut(LapicPage, n) => EntryAt(u, p) = EntryAt(t, p)
  PROVE  /\ paging_translate_4k(u, DirectoryPage) = paging_translate_4k(t, DirectoryPage)
         /\ paging_translate_4k(u, TablePage) = paging_translate_4k(t, TablePage)
<1>1. /\ EntryAt(u, DirectoryPage) = EntryAt(t, DirectoryPage)
      /\ EntryAt(u, TablePage) = EntryAt(t, TablePage)
  BY OffTheWay
<1> QED
  BY <1>1, Pages, Translated

\* The slot of a table that has just been linked, and is clear, is free.
LEMMA NextSlot ==
  ASSUME NEW t, NEW g, NEW m \in 2 .. 3, g \in DOMAIN t,
         t[g] = [i \in Index |-> Absent], TablePaths(t, g) = {Cut(LapicPage, m)}
  PROVE  OnTheWay(t, g, m)
<1> DEFINE q == Cut(LapicPage, m)
           w == Cut(LapicPage, m + 1)
<1>1. /\ q \in [1 .. m -> Index] /\ w \in [1 .. m + 1 -> Index] /\ Beyond(w, q, m)
  BY Pages, m \in 0 .. 3, m \in 0 .. 4, m + 1 \in 0 .. 4
<1>2. w[m + 1] \in Index
  BY <1>1
<1>3. EntryAt(t, q).frame = g /\ EntryAt(t, q).present /\ ~EntryAt(t, q).huge
  <2>1. q \in TablePaths(t, g)
    OBVIOUS
  <2> QED
    BY <2>1 DEF TablePaths
<1> HIDE DEF q, w
<1>4. EntryAt(t, w) = Below(t, EntryAt(t, q), w[m + 1])
  BY <1>1, Further, m \in 0 .. 3
<1>5. EntryAt(t, w) = Absent
  BY <1>2, <1>3, <1>4 DEF Below, Read
<1> QED
  BY <1>1, <1>5, NothingAbsent DEF OnTheWay, Slot, q, w

\* What a step may do to the pages that are mapped.
Growing ==
  /\ Leaves(tables) \subseteq Leaves(tables')
  /\ Leaves(tables') \subseteq
       Leaves(tables) \cup {<<LapicPage, DevicePage(LapicFrame)>>}

LEMMA ClearingKeeps ==
  ASSUME TablesInv, lapic_enable_legacy_pic PROVE TablesInv' /\ Growing
<1> DEFINE D == page_directory_physical
           T == page_table_physical
           L == pml4_entry(tables, LapicPage).frame
<1>1. at = "lapic" /\ tables = machine.tables /\ machine \in Machines /\ IsImage(tables)
  BY DEF lapic_enable_legacy_pic, At, TablesInv, Loaded
<1>2. CASE LapicError # ""
  <2>1. Elsewhere
    BY <1>2 DEF lapic_enable_legacy_pic, Checked, Fail, Elsewhere, kmain
  <2> QED
    BY <2>1, ElsewhereKeeps DEF Growing, Elsewhere
<1>3. CASE LapicError = ""
  <2>1. /\ at' = "link_directory" /\ machine' = machine
        /\ tables' = Cleared(tables, {D, T})
    BY <1>3 DEF lapic_enable_legacy_pic, Checked, Goto
  <2>2. /\ D # NotMapped /\ T # NotMapped /\ pml4_entry(tables, LapicPage).present
        /\ ~pdpt_entry(tables, LapicPage).present
    BY <1>3 DEF LapicError, page_directory_physical, page_table_physical
  <2>3. /\ EntryAt(tables, DirectoryPage).present /\ D = EntryAt(tables, DirectoryPage).frame
        /\ EntryAt(tables, TablePage).present /\ T = EntryAt(tables, TablePage).frame
        /\ EntryAt(tables, <<511>>) = pml4_entry(tables, LapicPage)
    BY <1>1, <2>2, Translated, Walked, Pages
       DEF page_directory_physical, page_table_physical
  <2>4. /\ D # T /\ {D, T} \cap Tables(tables) = {} /\ L \in DOMAIN tables
        /\ TablePaths(tables, L) = {Cut(LapicPage, 1)}
    <3>1. Loader(tables)
      BY <1>1, BootAssumption
    <3> HIDE DEF D, T
    <3> QED
      BY <2>2, <2>3, <3>1, Pages DEF Loader
  <2>5. D \in Nat /\ T \in Nat
    <3>1. /\ EntryAt(tables, DirectoryPage) \in Entries
          /\ EntryAt(tables, TablePage) \in Entries
      BY <1>1, EntryType, Pages, CutType, 4 \in 1 .. 4
    <3> QED
      BY <2>3, <3>1 DEF Entries
  <2>6. /\ Leaves(tables') = Leaves(tables) /\ IsImage(tables')
        /\ DOMAIN tables \subseteq DOMAIN tables'
        /\ \A p \in Paths : EntryAt(tables', p) = EntryAt(tables, p)
        /\ TablePaths(tables', L) = {Cut(LapicPage, 1)}
        /\ Spare(tables', D) /\ Spare(tables', T)
    <3> DEFINE G == {D, T}
    <3>1. /\ D \in G /\ T \in G /\ G \cap Tables(tables) = {}
          /\ tables' = Cleared(tables, G)
      BY <2>1, <2>4
    <3> HIDE DEF G, D, T, L
    <3>2. /\ Leaves(tables') = Leaves(tables) /\ IsImage(tables')
          /\ DOMAIN tables \subseteq DOMAIN tables'
          /\ \A p \in Paths : EntryAt(tables', p) = EntryAt(tables, p)
          /\ \A f : TablePaths(tables', f) = TablePaths(tables, f)
          /\ \A g \in G : Spare(tables', g)
      BY <1>1, <3>1, ClearSpare
    <3> QED
      BY <2>4, <3>1, <3>2
  <2>7. page_directory_physical' = D /\ page_table_physical' = T
    <3>1. /\ paging_translate_4k(tables', DirectoryPage) = paging_translate_4k(tables, DirectoryPage)
          /\ paging_translate_4k(tables', TablePage) = paging_translate_4k(tables, TablePage)
      BY <1>1, <2>6, ArraysStay, 4 \in 1 .. 4
    <3> QED
      BY <3>1 DEF page_directory_physical, page_table_physical
  <2>8. /\ Cut(LapicPage, 1) \in Paths /\ Cut(LapicPage, 2) \in Paths
    BY Pages, PathType, 1 \in 0 .. 4, 2 \in 0 .. 4, 1 \in 1 .. 4, 2 \in 1 .. 4
  <2>9. pml4_entry(tables', LapicPage) = pml4_entry(tables, LapicPage)
    BY <1>1, <2>6, <2>8, Walked, Pages
  <2>10. ~EntryAt(tables', Cut(LapicPage, 2)).present
    <3>1. ~EntryAt(tables, Cut(LapicPage, 2)).present
      BY <1>1, <2>2, Walked, Pages, NothingAbsent DEF Below, pdpt_entry
    <3> QED
      BY <2>6, <2>8, <3>1
  <2>11. OnTheWay(tables', L, 1)
    <3>1. /\ Cut(LapicPage, 1) \in [1 .. 1 -> Index]
          /\ Cut(LapicPage, 1 + 1) \in [1 .. 1 + 1 -> Index]
          /\ Beyond(Cut(LapicPage, 1 + 1), Cut(LapicPage, 1), 1)
      BY Pages, 1 \in 0 .. 4, 1 + 1 \in 0 .. 4, 1 \in 0 .. 3
    <3> QED
      BY <2>4, <2>6, <2>10, <3>1, 1 + 1 = 2 DEF OnTheWay, Slot
  <2>12. Linking'
    <3> HIDE DEF D, T, L
    <3>1. pml4_entry(tables', LapicPage).frame = L
      BY <2>9 DEF L
    <3> QED
      BY <2>1, <2>4, <2>5, <2>6, <2>7, <2>11, <3>1 DEF Linking
  <2>13. Loaded'
    BY <1>1, <2>1 DEF Loaded
  <2> QED
    BY <2>6, <2>12, <2>13 DEF TablesInv, Growing
<1> QED
  BY <1>2, <1>3

\* The facts about the slot that a store goes to.
LEMMA StoreFacts ==
  ASSUME NEW t, NEW f, NEW m \in 1 .. 3, OnTheWay(t, f, m)
  PROVE  /\ Slot(t, f, Cut(LapicPage, m), Cut(LapicPage, m + 1), m)
         /\ Cut(LapicPage, m + 1)[m + 1] = LapicPage[m + 1]
         /\ f \in Tables(t) /\ f \in DOMAIN t
<1>1. Cut(LapicPage, m + 1)[m + 1] = LapicPage[m + 1]
  BY m + 1 \in 1 .. m + 1 DEF Cut
<1> QED
  BY <1>1, SlotIs, m \in 0 .. 3 DEF OnTheWay

LEMMA LinkDirectoryKeeps ==
  ASSUME TablesInv, LinkDirectory PROVE TablesInv' /\ Growing
<1> DEFINE D == page_directory_physical
           T == page_table_physical
           L == pml4_entry(tables, LapicPage).frame
<1>1. /\ at = "link_directory" /\ at' = "link_table" /\ machine' = machine
      /\ tables' = [tables EXCEPT ![L][511] = ToTable(D)]
  BY DEF LinkDirectory, Store, At, Goto
<1>2. /\ OnTheWay(tables, L, 1) /\ D \in Nat /\ Spare(tables, D)
      /\ T \in Nat /\ Spare(tables, T) /\ T # D /\ IsImage(tables)
  BY <1>1 DEF TablesInv, Linking
<1> HIDE DEF D, T, L
<1>3. /\ Slot(tables, L, Cut(LapicPage, 1), Cut(LapicPage, 2), 1)
      /\ Cut(LapicPage, 2)[2] = 511 /\ L \in Tables(tables)
  BY <1>2, StoreFacts, Pages, 1 \in 1 .. 3, 1 + 1 = 2
<1>4. /\ Leaves(tables') = Leaves(tables) /\ Tables(tables') = Tables(tables) \cup {D}
      /\ TablePaths(tables', D) = {Cut(LapicPage, 2)}
      /\ \A p \in Paths : p # Cut(LapicPage, 2) => EntryAt(tables', p) = EntryAt(tables, p)
      /\ IsImage(tables') /\ DOMAIN tables' = DOMAIN tables
      /\ \A h \in DOMAIN tables : h # L => tables'[h] = tables[h]
  <2>1. tables' = Stored(tables, L, Cut(LapicPage, 2)[1 + 1], ToTable(D))
    BY <1>1, <1>3, 1 + 1 = 2 DEF Stored
  <2>2. Linked(tables, tables', L, Cut(LapicPage, 2), D)
    BY <1>2, <1>3, <2>1, LinkSpare, 1 \in 0 .. 2
  <2> QED
    BY <2>2 DEF Linked
<1>5. page_directory_physical' = D /\ page_table_physical' = T
  <2>1. /\ paging_translate_4k(tables', DirectoryPage) = paging_translate_4k(tables, DirectoryPage)
        /\ paging_translate_4k(tables', TablePage) = paging_translate_4k(tables, TablePage)
    BY <1>2, <1>4, ArraysStay, 2 \in 1 .. 4
  <2> QED
    BY <2>1 DEF page_directory_physical, page_table_physical, D, T
<1>6. OnTheWay(tables', D, 2)
  BY <1>2, <1>3, <1>4, NextSlot, 2 \in 2 .. 3 DEF Spare
<1>7. Spare(tables', T)
  BY <1>2, <1>3, <1>4 DEF Spare
<1>8. Linking' /\ Loaded'
  BY <1>1, <1>2, <1>5, <1>6, <1>7 DEF TablesInv, Linking, Loaded
<1> QED
  BY <1>4, <1>8 DEF TablesInv, Growing

LEMMA LinkTableKeeps ==
  ASSUME TablesInv, LinkTable PROVE TablesInv' /\ Growing
<1> DEFINE D == page_directory_physical
           T == page_table_physical
<1>1. /\ at = "link_table" /\ at' = "link_page" /\ machine' = machine
      /\ tables' = [tables EXCEPT ![D][0] = ToTable(T)]
  BY DEF LinkTable, Store, At, Goto
<1>2. /\ OnTheWay(tables, D, 2) /\ T \in Nat /\ Spare(tables, T) /\ IsImage(tables)
  BY <1>1 DEF TablesInv, Linking
<1> HIDE DEF D, T
<1>3. /\ Slot(tables, D, Cut(LapicPage, 2), Cut(LapicPage, 3), 2)
      /\ Cut(LapicPage, 3)[3] = 0 /\ D \in Tables(tables)
  BY <1>2, StoreFacts, Pages, 2 \in 1 .. 3, 2 + 1 = 3
<1>4. /\ Leaves(tables') = Leaves(tables)
      /\ TablePaths(tables', T) = {Cut(LapicPage, 3)}
      /\ \A p \in Paths : p # Cut(LapicPage, 3) => EntryAt(tables', p) = EntryAt(tables, p)
      /\ IsImage(tables') /\ DOMAIN tables' = DOMAIN tables
      /\ \A h \in DOMAIN tables : h # D => tables'[h] = tables[h]
  <2>1. tables' = Stored(tables, D, Cut(LapicPage, 3)[2 + 1], ToTable(T))
    BY <1>1, <1>3, 2 + 1 = 3 DEF Stored
  <2>2. Linked(tables, tables', D, Cut(LapicPage, 3), T)
    BY <1>2, <1>3, <2>1, LinkSpare, 2 \in 0 .. 2
  <2> QED
    BY <2>2 DEF Linked
<1>5. page_table_physical' = T
  <2>1. paging_translate_4k(tables', TablePage) = paging_translate_4k(tables, TablePage)
    BY <1>2, <1>4, ArraysStay, 3 \in 1 .. 4
  <2> QED
    BY <2>1 DEF page_table_physical, T
<1>6. OnTheWay(tables', T, 3)
  BY <1>2, <1>3, <1>4, NextSlot, 3 \in 2 .. 3 DEF Spare
<1>7. Linking' /\ Loaded'
  BY <1>1, <1>5, <1>6 DEF TablesInv, Linking, Loaded
<1> QED
  BY <1>4, <1>7 DEF TablesInv, Growing

LEMMA LinkPageKeeps ==
  ASSUME TablesInv, LinkPage PROVE TablesInv' /\ Growing
<1> DEFINE T == page_table_physical
           e == DevicePage(LapicFrame)
<1>1. /\ at = "link_page" /\ at' = "lint0" /\ machine' = machine
      /\ tables' = [tables EXCEPT ![T][0] = e]
  BY DEF LinkPage, Store, At, Goto
<1>2. OnTheWay(tables, T, 3) /\ IsImage(tables)
  BY <1>1 DEF TablesInv, Linking
<1>3. e \in Entries /\ e.present /\ ~e.huge
  BY BootAssumption DEF DevicePage, Entry, Entries
<1> HIDE DEF T, e
<1>4. /\ Slot(tables, T, Cut(LapicPage, 3), LapicPage, 3) /\ LapicPage[4] = 0
  BY <1>2, StoreFacts, Pages, 3 \in 1 .. 3, 3 + 1 = 4
<1>5. /\ Leaves(tables') = Leaves(tables) \cup {<<LapicPage, e>>} /\ IsImage(tables')
      /\ EntryAt(tables', LapicPage) = e
  <2>1. tables' = Stored(tables, T, LapicPage[4], e)
    BY <1>1, <1>4 DEF Stored
  <2> QED
    BY <1>2, <1>3, <1>4, <2>1, StorePage
<1>6. Linking' /\ Loaded'
  BY <1>1, <1>5 DEF TablesInv, Linking, Loaded, e
<1> QED
  BY <1>5, <1>6 DEF TablesInv, Growing, e

LEMMA OpenKeeps ==
  ASSUME TablesInv, OpenLint0 PROVE TablesInv' /\ tables' = tables
<1>1. Elsewhere
  BY DEF OpenLint0, Checked, Fail, Goto, Elsewhere, kmain
<1> QED
  BY <1>1, ElsewhereKeeps DEF Elsewhere

LEMMA TablesNext ==
  ASSUME TablesInv, [Next]_vars PROVE TablesInv' /\ (tables' = tables \/ Growing)
<1>1. CASE UNCHANGED vars \/ Ended
  <2>1. Elsewhere
    BY <1>1 DEF Ended, vars, kmain, Elsewhere
  <2> QED
    BY <2>1, ElsewhereKeeps DEF Elsewhere
<1>2. CASE CheckResponses \/ TranslateRequest \/ DebugWalk
  <2>1. tables' = tables
    BY <1>2 DEF CheckResponses, TranslateRequest, DebugWalk, Checked, Fail, kmain
  <2> QED
    BY <1>2, <2>1, LoadedKeeps
<1>3. CASE lapic_enable_legacy_pic
  BY <1>3, ClearingKeeps
<1>4. CASE LinkDirectory
  BY <1>4, LinkDirectoryKeeps
<1>5. CASE LinkTable
  BY <1>5, LinkTableKeeps
<1>6. CASE LinkPage
  BY <1>6, LinkPageKeeps
<1>7. CASE OpenLint0
  BY <1>7, OpenKeeps
<1>8. CASE \/ WaitForTicks
           \/ pmm_init \/ TestAllocate \/ TestFree \/ CheckCounts
           \/ KeepFrames \/ WriteFrame \/ FreeAgain \/ TestReuse \/ CheckReuse
           \/ heap_init \/ HeapStep \/ Numbers \/ WriteNumbers
           \/ SecondFrame \/ WriteByte \/ CheckFrame \/ CheckAlignment \/ CheckFree \/ CheckMerge
           \/ boot_get_framebuffer
  <2>1. Elsewhere
    BY <1>8, OthersElsewhere
  <2> QED
    BY <2>1, ElsewhereKeeps DEF Elsewhere
<1> QED
  BY <1>1, <1>2, <1>3, <1>4, <1>5, <1>6, <1>7, <1>8 DEF Next, Step

LEMMA TablesAlways == Spec => []TablesInv
<1>1. Init => TablesInv
  BY TablesInit
<1>2. TablesInv /\ [Next]_vars => TablesInv'
  BY TablesNext
<1> QED
  BY <1>1, <1>2, PTL DEF Spec

-----------------------------------------------------------------------------
(* The halts that the boot loader decides on                               *)

LoaderPanics ==
  {"unsupported Limine base revision", "HHDM not found", "memory map not found",
   "paging translation failed", "LAPIC MMIO mapping failed",
   "KBM_EXCEPTION: VECTOR 14", "framebuffer not found"}

\* The allocators halt with messages of their own.
LEMMA PmmPanics ==
  ASSUME \/ P!CallInit \/ P!InitStep
         \/ \E c : P!pmm_allocate_frame(c)
         \/ \E c, f, aligned : P!pmm_free_frame(c, f, aligned)
  PROVE  panic' = panic \/ panic' \notin LoaderPanics
<1>1. CASE P!CallInit
  BY <1>1 DEF P!CallInit
<1>2. CASE P!InitStep
  BY <1>2 DEF P!InitStep, P!ScanEntry, P!SizeBitmaps, P!ReserveBitmapFrame, P!Panic,
              P!ClearBitmaps, P!FreeUsableEntry, P!ProtectBitmaps, LoaderPanics
<1>3. ASSUME NEW c, P!pmm_allocate_frame(c) PROVE panic' = panic \/ panic' \notin LoaderPanics
  BY <1>3 DEF P!pmm_allocate_frame, P!Panic, LoaderPanics
<1>4. ASSUME NEW c, NEW f, NEW aligned, P!pmm_free_frame(c, f, aligned)
      PROVE  panic' = panic \/ panic' \notin LoaderPanics
  <2>1. P!FreeError(f, aligned) \notin LoaderPanics
    BY DEF P!FreeError, LoaderPanics
  <2> QED
    BY <1>4, <2>1 DEF P!pmm_free_frame, P!Panic
<1> QED
  BY <1>1, <1>2, <1>3, <1>4

LEMMA HeapPanics ==
  ASSUME \/ H!heap_init \/ H!CallStep
         \/ \E bytes : H!kmalloc(bytes)
         \/ \E a : H!kfree(a)
  PROVE  panic' = panic \/ panic' \notin LoaderPanics
<1>1. CASE H!heap_init
  BY <1>1 DEF H!heap_init
<1>2. CASE H!CallStep
  BY <1>2 DEF H!CallStep, H!SearchBlock, H!TakeFrame, H!PlaceFrame, H!TakeBlock,
              H!InsertBlock, H!Panic, LoaderPanics
<1>3. ASSUME NEW bytes, H!kmalloc(bytes) PROVE panic' = panic \/ panic' \notin LoaderPanics
  <2>1. H!KmallocError(bytes) \notin LoaderPanics
    BY DEF H!KmallocError, LoaderPanics
  <2> QED
    BY <1>3, <2>1 DEF H!kmalloc, H!Panic
<1>4. ASSUME NEW a, H!kfree(a) PROVE panic' = panic \/ panic' \notin LoaderPanics
  <2>1. H!KfreeError(a) \notin LoaderPanics
    BY DEF H!KfreeError, LoaderPanics
  <2> QED
    BY <1>4, <2>1 DEF H!kfree, H!Panic
<1> QED
  BY <1>1, <1>2, <1>3, <1>4

\* What Required asks for the boot loader's messages, of the machine alone.
LoaderGave(m, message) ==
  /\ message = "unsupported Limine base revision" => m.revision
  /\ message = "HHDM not found" => m.hhdm
  /\ message = "memory map not found" => m.map
  /\ message = "framebuffer not found" => m.framebuffer
  /\ message = "paging translation failed" => EntryAt(m.tables, Request).present
  /\ message = "LAPIC MMIO mapping failed" =>
       /\ EntryAt(m.tables, DirectoryPage).present
       /\ EntryAt(m.tables, TablePage).present
       /\ ~EntryAt(m.tables, Cut(LapicPage, 2)).present

LEMMA SecondSlot == SubSeq(LapicPage, 1, 2) = Cut(LapicPage, 2)
BY PrefixIs, Pages DEF LapicPage, Cut

LEMMA LoaderRequired ==
  panic \in LoaderPanics /\ Required(panic) => LoaderGave(machine, panic)
BY SecondSlot DEF LoaderPanics, Required, LoaderGave, Maps

\* The kernel has halted with one of these messages only for that reason.
Caused == panic \in LoaderPanics => ~LoaderGave(machine, panic)

LEMMA CausedInit == Init => Caused
BY DEF Init, P!Init, Caused, LoaderPanics

\* A step that halts with no such message.
Harmless == machine' = machine /\ (panic' = panic \/ panic' \notin LoaderPanics)

LEMMA HarmlessKeeps == Caused /\ Harmless => Caused'
BY DEF Caused, Harmless

LEMMA OthersHarmless ==
  ASSUME \/ WaitForTicks
         \/ pmm_init \/ TestAllocate \/ TestFree \/ CheckCounts
         \/ KeepFrames \/ WriteFrame \/ FreeAgain \/ TestReuse \/ CheckReuse
         \/ heap_init \/ HeapStep \/ Numbers \/ WriteNumbers
         \/ SecondFrame \/ WriteByte \/ CheckFrame \/ CheckAlignment \/ CheckFree \/ CheckMerge
  PROVE  Harmless
<1>0. machine' = machine
  BY OthersElsewhere DEF Elsewhere
<1>1. SUFFICES panic' = panic \/ panic' \notin LoaderPanics
  BY <1>0 DEF Harmless
<1>2. ASSUME NEW c, P!pmm_allocate_frame(c)
      PROVE  panic' = panic \/ panic' \notin LoaderPanics
  BY <1>2, PmmPanics
<1>3. ASSUME NEW there, NEW locals, Free(there, locals)
      PROVE  panic' = panic \/ panic' \notin LoaderPanics
  BY <1>3, PmmPanics DEF Free
<1>4. ASSUME NEW bytes, NEW there, NEW locals, Kmalloc(bytes, there, locals)
      PROVE  panic' = panic \/ panic' \notin LoaderPanics
  BY <1>4, HeapPanics DEF Kmalloc
<1>5. CASE WaitForTicks \/ WriteFrame \/ WriteNumbers \/ WriteByte
  BY <1>5 DEF WaitForTicks, WriteFrame, WriteNumbers, WriteByte, Write
<1>6. CASE pmm_init
  BY <1>6, PmmPanics DEF pmm_init
<1>7. CASE TestAllocate \/ KeepFrames \/ TestReuse
  BY <1>2, <1>7 DEF TestAllocate, KeepFrames, TestReuse, Allocate
<1>8. CASE TestFree \/ FreeAgain
  BY <1>3, <1>8 DEF TestFree, FreeAgain
<1>9. CASE CheckCounts
  BY <1>9 DEF CheckCounts, Checked, Fail, LoaderPanics
<1>10. CASE CheckReuse
  BY <1>10 DEF CheckReuse, Checked, Fail, LoaderPanics
<1>11. CASE heap_init
  BY <1>11, HeapPanics DEF heap_init
<1>12. CASE HeapStep
  BY <1>12, HeapPanics DEF HeapStep
<1>13. CASE Numbers \/ SecondFrame
  BY <1>4, <1>13 DEF Numbers, SecondFrame
<1>14. CASE CheckFrame
  <2> DEFINE fault == CASE pmm_get_free_frame_count # local.free_before - 1 ->
                             "KBM_HEAP_NEW_FRAME_TEST_FAILED"
                        [] pmm_get_free_frame_count = local.free_before - 1
                             /\ mem[local.result] # 178 ->
                             "KBM_HEAP_SECOND_FRAME_TEST_FAILED"
                        [] OTHER -> ""
             locals == [local EXCEPT !.used_before = heap_used]
  <2>1. IF fault # "" THEN Fail(fault) ELSE Kmalloc(13, "alignment", locals)
    BY <1>14 DEF CheckFrame, Checked
  <2>2. fault \notin LoaderPanics
    BY DEF LoaderPanics
  <2> HIDE DEF fault, locals
  <2> QED
    BY <1>4, <2>1, <2>2 DEF Fail
<1>15. CASE CheckAlignment
  BY <1>15, HeapPanics DEF CheckAlignment, Checked, Fail, LoaderPanics
<1>16. CASE CheckFree
  <2> DEFINE fault == CASE heap_used # local.used_before - 2 ->
                             "KBM_HEAP_FREE_ACCOUNTING_TEST_FAILED"
                        [] heap_used = local.used_before - 2
                             /\ heap_frame_count # local.frames_before ->
                             "KBM_HEAP_FREE_FRAME_COUNT_TEST_FAILED"
                        [] OTHER -> ""
             request == 3900
  <2>1. IF fault # "" THEN Fail(fault) ELSE Kmalloc(request, "check_merge", local)
    BY <1>16 DEF CheckFree, Checked
  <2>2. fault \notin LoaderPanics
    BY DEF LoaderPanics
  <2> HIDE DEF fault, request
  <2> QED
    BY <1>4, <2>1, <2>2 DEF Fail
<1>17. CASE CheckMerge
  BY <1>17 DEF CheckMerge, Checked, Fail, LoaderPanics
<1> QED
  BY <1>5, <1>6, <1>7, <1>8, <1>9, <1>10, <1>11, <1>12, <1>13, <1>14, <1>15, <1>16, <1>17

\* What lapic.c asks for is there if both arrays are mapped and the slot is free.
LEMMA MappingReady ==
  ASSUME NEW t, IsImage(t), EntryAt(t, DirectoryPage).present,
         EntryAt(t, TablePage).present, ~EntryAt(t, Cut(LapicPage, 2)).present
  PROVE  /\ paging_translate_4k(t, DirectoryPage) # NotMapped
         /\ paging_translate_4k(t, TablePage) # NotMapped
         /\ pml4_entry(t, LapicPage).present /\ ~pdpt_entry(t, LapicPage).present
<1>1. EntryAt(t, DirectoryPage) \in Entries /\ EntryAt(t, TablePage) \in Entries
  BY EntryType, Pages, CutType, 4 \in 1 .. 4
<1>2. /\ paging_translate_4k(t, DirectoryPage) # NotMapped
      /\ paging_translate_4k(t, TablePage) # NotMapped
  BY <1>1, Translated, Pages DEF Entries, NotMapped
<1>3. pml4_entry(t, LapicPage).present
  <2>1. pml4_entry(t, LapicPage) = pml4_entry(t, DirectoryPage)
    BY DEF pml4_entry, LapicPage, DirectoryPage
  <2>2. EntryAt(t, Cut(DirectoryPage, 1)).present
    BY Walked, Pages, NothingAbsent DEF Below
  <2> QED
    BY <2>1, <2>2, Walked, Pages
<1>4. ~pdpt_entry(t, LapicPage).present
  BY <1>3, Walked, Pages DEF Below, pdpt_entry
<1> QED
  BY <1>2, <1>3, <1>4

LEMMA MappingCause ==
  ASSUME TablesInv, at = "lapic", LapicError # ""
  PROVE  ~LoaderGave(machine, "LAPIC MMIO mapping failed")
<1>1. IsImage(tables) /\ tables = machine.tables
  BY DEF TablesInv, Loaded
<1>2. \/ ~EntryAt(tables, DirectoryPage).present
      \/ ~EntryAt(tables, TablePage).present
      \/ EntryAt(tables, Cut(LapicPage, 2)).present
  BY <1>1, MappingReady DEF LapicError
<1> QED
  BY <1>1, <1>2 DEF LoaderGave

LEMMA CausedNext ==
  ASSUME TablesInv, Caused, [Next]_vars PROVE Caused'
<1>1. CASE UNCHANGED vars \/ Ended
  BY <1>1 DEF Ended, vars, kmain, Caused
<1>2. CASE CheckResponses
  BY <1>2 DEF CheckResponses, Checked, Fail, kmain, Goto, Caused, LoaderGave, LoaderPanics
<1>3. CASE TranslateRequest
  <2>1. CASE paging_translate_4k(tables, Request) = NotMapped
    <3>1. panic' = "paging translation failed" /\ machine' = machine
      BY <1>3, <2>1 DEF TranslateRequest, Checked, Fail, kmain
    <3>2. tables = machine.tables /\ IsImage(tables)
      BY <1>3 DEF TranslateRequest, At, TablesInv, Loaded
    <3>3. EntryAt(tables, Request) \in Entries
      BY <3>2, EntryType, Pages, CutType, 4 \in 1 .. 4
    <3>4. ~EntryAt(tables, Request).present
      BY <2>1, <3>2, <3>3, Translated, Pages DEF Entries, NotMapped
    <3> QED
      BY <3>1, <3>2, <3>4 DEF Caused, LoaderGave
  <2>2. CASE paging_translate_4k(tables, Request) # NotMapped
    BY <1>3, <2>2, HarmlessKeeps DEF TranslateRequest, Checked, Goto, Harmless
  <2> QED
    BY <2>1, <2>2
<1>4. CASE DebugWalk \/ LinkDirectory \/ LinkTable \/ LinkPage
  BY <1>4, HarmlessKeeps
     DEF DebugWalk, LinkDirectory, LinkTable, LinkPage, Store, Goto, Harmless
<1>5. CASE lapic_enable_legacy_pic
  <2>1. CASE LapicError = ""
    BY <1>5, <2>1, HarmlessKeeps DEF lapic_enable_legacy_pic, Checked, Goto, Harmless
  <2>2. CASE LapicError # ""
    <3>1. panic' = "LAPIC MMIO mapping failed" /\ machine' = machine /\ at = "lapic"
      <4>1. LapicError = "LAPIC MMIO mapping failed"
        BY <2>2 DEF LapicError
      <4> QED
        BY <1>5, <2>2, <4>1 DEF lapic_enable_legacy_pic, Checked, Fail, kmain, At
    <3> QED
      BY <2>2, <3>1, MappingCause DEF Caused
  <2> QED
    BY <2>1, <2>2
<1>6. CASE OpenLint0
  <2>1. EntryAt(tables, LapicPage) = DevicePage(LapicFrame)
    BY <1>6 DEF OpenLint0, At, TablesInv, Linking
  <2> QED
    BY <1>6, <2>1, HarmlessKeeps DEF OpenLint0, Checked, Goto, Harmless
<1>7. CASE \/ WaitForTicks
           \/ pmm_init \/ TestAllocate \/ TestFree \/ CheckCounts
           \/ KeepFrames \/ WriteFrame \/ FreeAgain \/ TestReuse \/ CheckReuse
           \/ heap_init \/ HeapStep \/ Numbers \/ WriteNumbers
           \/ SecondFrame \/ WriteByte \/ CheckFrame \/ CheckAlignment \/ CheckFree \/ CheckMerge
  BY <1>7, OthersHarmless, HarmlessKeeps
<1>8. CASE boot_get_framebuffer
  BY <1>8 DEF boot_get_framebuffer, Checked, Fail, kmain, Goto, Caused, LoaderGave, LoaderPanics
<1> QED
  BY <1>1, <1>2, <1>3, <1>4, <1>5, <1>6, <1>7, <1>8 DEF Next, Step

-----------------------------------------------------------------------------
(* The frame allocator under kmain                                         *)

PP == INSTANCE PmmProofs WITH
  MemoryMaps <- {m.memmap : m \in Machines},
  Callers    <- {"kmain", "heap"}

\* Whatever calls it, pmm.c keeps its own invariants.
PmmInv == PP!IInv /\ PP!BiggestInv /\ PP!RefusalInv

\* kmain before it calls pmm_init, and before it keeps a frame.
Walking == {"responses", "translate", "debug_walk", "lapic", "link_directory",
            "link_table", "link_page", "lint0", "wait"}
Untouched == Walking \cup {"pmm_init", "allocate", "free", "counts"}

Locals == [test_frame : Int, free_before : Int, free_after_allocate : Int,
           frames : Int, result : Int, numbers : Seq(Int), used_before : Int,
           alignment_test : Int, frames_before : Int]

\* How many frames are out, and a frame of kmain's.
Out(n) == IsFiniteSet(ownership) /\ Cardinality(ownership) = n
Kept(f) == f \in holds["kmain"] /\ \A g \in P!FreeFrames : f < g

\* The local variables of the self-test know which frames are out, and that it is
\* the lowest free frame that goes out next.
FramesInv ==
  /\ at \in Walking => phase = "off"
  /\ at \notin Walking \cup {"pmm_init"} => phase = "ready"
  /\ at \in Untouched => local.frames = 0
  /\ at \in Untouched \ {"free"} => ownership = {}
  /\ at = "free" => /\ ownership = {local.test_frame} /\ Kept(local.test_frame)
                    /\ local.free_before = pmm_get_free_frame_count + 1
  /\ at = "counts" => /\ local.free_before = pmm_get_free_frame_count
                      /\ local.free_after_allocate = pmm_get_free_frame_count - 1
  /\ at = "frames" => local.frames \in 0 .. 5 /\ Out(local.frames)
  /\ at \in {"write_frame", "recycle"} => Out(6) /\ Kept(local.test_frame)
  /\ at = "reuse" => /\ Out(5) /\ local.test_frame \in P!FreeFrames
                     /\ \A g \in P!FreeFrames : local.test_frame <= g
  /\ at = "check_reuse" => Out(6) /\ local.result = local.test_frame
  /\ at \in {"heap_init", "first_num"} => Out(6)

-----------------------------------------------------------------------------
(* The heap under kmain, word by word                                      *)

\* A frame of the heap, and the header of a block.
Arena(a) == \E f \in Frames : a = H!FrameStart(f) /\ \A g \in P!FreeFrames : f < g
Block(a, words, next, free) ==
  mem[a] = words /\ mem[a + 1] = next /\ mem[a + 2] = free /\ mem[a + 3] = Magic

\* Block c is the whole free list; or it is, and kmalloc is about to take it.
Idle(c, words) == pc = "idle" /\ heap_free_list = c /\ Block(c, words, 0, 1)
Asking(request, c, words) ==
  /\ pc \in {"search", "take"}
  /\ size = request /\ previous = 0 /\ current = c
  /\ heap_free_list = c /\ Block(c, words, 0, 1)

\* The first call takes a frame.
FirstGrow ==
  \/ /\ Out(6) /\ pc \in {"search", "grow"} /\ size = 2 /\ current = 0
     /\ heap_free_list = 0
  \/ /\ Out(7)
     /\ \E a : /\ Arena(a)
               /\ \/ /\ pc = "place" /\ size = 2 /\ target = a
                     /\ previous = 0 /\ current = 0 /\ heap_free_list = 0
                     /\ mem[a] = 508 /\ mem[a + 2] = 1 /\ mem[a + 3] = Magic
                  \/ Asking(2, a, 508) /\ pc = "take"
                  \/ Idle(a + 6, 502) /\ local.result = a + 4

\* The request that the rest of the first frame cannot serve takes a second one,
\* which is behind it in memory.
SecondGrow(a) ==
  /\ heap_free_list = a + 18
  /\ \/ /\ Out(7) /\ local.free_before = pmm_get_free_frame_count
        /\ size = 506 /\ Block(a + 18, 490, 0, 1)
        /\ \/ pc = "search" /\ current = a + 18
           \/ pc \in {"search", "grow"} /\ current = 0
     \/ /\ local.free_before = pmm_get_free_frame_count + 1
        /\ \E b : /\ Arena(b) /\ a + 512 <= b
                  /\ \/ /\ pc = "place" /\ size = 506 /\ target = b
                        /\ \/ current = a + 18
                           \/ current = 0 /\ previous = a + 18
                        /\ Block(a + 18, 490, 0, 1)
                        /\ mem[b] = 508 /\ mem[b + 2] = 1 /\ mem[b + 3] = Magic
                     \/ /\ pc = "take" /\ size = 506
                        /\ previous = a + 18 /\ current = b
                        /\ Block(a + 18, 490, b, 1) /\ Block(b, 508, 0, 1)
                     \/ pc = "idle" /\ Block(a + 18, 490, 0, 1) /\ local.result = b + 4

\* Where the rest of the first frame is, as the self-test goes on.
Stage(a) ==
  /\ at \in {"third_num", "write_numbers", "second_frame"} => Out(7)
  /\ at = "third_num" =>
       /\ local.numbers = <<a + 4>>
       /\ \/ Asking(2, a + 6, 502)
          \/ Idle(a + 12, 496) /\ local.result = a + 10
  /\ at = "write_numbers" =>
       /\ local.numbers = <<a + 4, a + 10>>
       /\ \/ Asking(2, a + 12, 496)
          \/ Idle(a + 18, 490) /\ local.result = a + 16
  /\ at = "second_frame" => Idle(a + 18, 490)
  /\ at = "write_byte" => SecondGrow(a)
  /\ at = "check_frame" =>
       /\ Idle(a + 18, 490) /\ mem[local.result] = 178
       /\ local.free_before = pmm_get_free_frame_count + 1
  /\ at = "alignment" =>
       \/ Asking(2, a + 18, 490) /\ local.used_before = heap_used
       \/ /\ Idle(a + 24, 484) /\ Block(a + 18, 2, 0, 0)
          /\ local.result = a + 22 /\ heap_used = local.used_before + 2
  /\ at \in {"check_free", "check_merge"} =>
       /\ local.alignment_test = a + 22
       /\ local.frames_before = heap_frame_count
  /\ at = "check_free" =>
       \/ /\ pc = "insert" /\ target = a + 18 /\ previous = 0 /\ current = a + 24
          /\ heap_free_list = a + 24
          /\ Block(a + 18, 2, 0, 1) /\ Block(a + 24, 484, 0, 1)
          /\ local.used_before = heap_used
       \/ Idle(a + 18, 490) /\ heap_used = local.used_before - 2
  /\ at = "check_merge" =>
       \/ Asking(488, a + 18, 490)
       \/ pc = "idle" /\ local.result = a + 22

Heapless == Untouched \cup {"frames", "write_frame", "recycle", "reuse",
                            "check_reuse", "heap_init"}
Stages == {"third_num", "write_numbers", "second_frame", "write_byte",
           "check_frame", "alignment", "check_free", "check_merge"}

HeapInv ==
  /\ DOMAIN mem = H!Words /\ heap_used \in Int
  /\ at \in Heapless => pc = "idle" /\ ~heap_ready
  /\ at \notin Heapless => heap_ready
  /\ at = "first_num" => pc = "idle" /\ heap_free_list = 0
  /\ at = "second_num" => FirstGrow
  /\ at \in Stages => \E a : Arena(a) /\ Stage(a)
  /\ at \in {"framebuffer", "ui"} => pc = "idle"

Places == Heapless \cup {"first_num", "second_num"} \cup Stages \cup {"framebuffer", "ui"}

Good == /\ at \in Places /\ local \in Locals
        /\ PmmInv /\ FramesInv /\ HeapInv

-----------------------------------------------------------------------------
(* The allocator of Boot is the one that PmmProofs is about                *)

\* Each of its sets is that of the instance which is proved about.
LEMMA SameSets ==
  /\ P!FreeFrames = PP!FreeFrames /\ P!UsableEntries = PP!UsableEntries
  /\ P!UsableFrames = PP!UsableFrames /\ P!Metadata = PP!Metadata
  /\ P!bitmap_page_count = PP!bitmap_page_count
  /\ \A e : P!EntryFrames(e) = PP!EntryFrames(e)
<1>1. \A e : P!EntryFrames(e) = PP!EntryFrames(e)
  BY DEF P!EntryFrames, PP!EntryFrames
<1>2. P!bitmap_page_count = PP!bitmap_page_count
  BY DEF P!bitmap_page_count, PP!bitmap_page_count, P!PagesFor, PP!PagesFor
<1>3. P!FreeFrames = PP!FreeFrames
  BY DEF P!FreeFrames, PP!FreeFrames
<1>4. P!UsableEntries = PP!UsableEntries
  BY DEF P!UsableEntries, PP!UsableEntries
<1>5. P!UsableFrames = PP!UsableFrames
  BY <1>1, <1>4 DEF P!UsableFrames, PP!UsableFrames
<1>6. P!Metadata = PP!Metadata
  BY <1>2 DEF P!Metadata, PP!Metadata
<1> QED
  BY <1>1, <1>2, <1>3, <1>4, <1>5, <1>6

\* Each of its steps, too.
LEMMA SameSteps ==
  /\ P!Init => PP!Init
  /\ P!CallInit \/ P!InitStep => PP!Next
  /\ \A c \in {"kmain", "heap"} : P!pmm_allocate_frame(c) => PP!pmm_allocate_frame(c)
  /\ \A c \in {"kmain", "heap"} : \A f, aligned :
       P!pmm_free_frame(c, f, aligned) => PP!pmm_free_frame(c, f, aligned)
<1>1. P!Init => PP!Init
  BY DEF P!Init, PP!Init, P!NoScan, PP!NoScan
<1>2. P!CallInit => PP!CallInit
  BY DEF P!CallInit, PP!CallInit, P!booting, PP!booting
<1>3. P!InitStep => PP!InitStep
  BY DEF P!InitStep, PP!InitStep, P!ScanEntry, PP!ScanEntry, P!SizeBitmaps,
         PP!SizeBitmaps, P!ReserveBitmapFrame, PP!ReserveBitmapFrame,
         P!ClearBitmaps, PP!ClearBitmaps, P!FreeUsableEntry, PP!FreeUsableEntry,
         P!ProtectBitmaps, PP!ProtectBitmaps, P!Panic, PP!Panic, P!booting, PP!booting,
         P!Scanned, PP!Scanned, P!UsableBase, PP!UsableBase, P!UsableEnd, PP!UsableEnd,
         P!WordSub, PP!WordSub, P!PagesFor, PP!PagesFor, P!Metadata, PP!Metadata,
         P!bitmap_page_count, PP!bitmap_page_count
<1>4. ASSUME NEW c, P!pmm_allocate_frame(c) PROVE PP!pmm_allocate_frame(c)
  BY <1>4 DEF P!pmm_allocate_frame, PP!pmm_allocate_frame, P!Panic, PP!Panic,
              P!booting, PP!booting, P!FreeFrames, PP!FreeFrames
<1>5. ASSUME NEW c, NEW f, NEW aligned, P!pmm_free_frame(c, f, aligned)
      PROVE  PP!pmm_free_frame(c, f, aligned)
  BY <1>5 DEF P!pmm_free_frame, PP!pmm_free_frame, P!Panic, PP!Panic,
              P!booting, PP!booting, P!FreeError, PP!FreeError,
              P!bitmap_page_count, PP!bitmap_page_count, P!PagesFor, PP!PagesFor
<1> QED
  BY <1>1, <1>2, <1>3, <1>4, <1>5 DEF PP!Next

\* What PmmProofs assumes of its constants and of the memory maps.
LEMMA PmmGiven == PP!PmmAssumption /\ PP!NoneInsideFrame
<1>1. PP!PmmAssumption
  BY MemoryAssumption DEF P!PmmAssumption, PP!PmmAssumption, P!Entry, PP!Entry
<1>2. \A e : P!UsableBase(e) = PP!UsableBase(e) /\ P!UsableEnd(e) = PP!UsableEnd(e)
  BY DEF P!UsableBase, PP!UsableBase, P!UsableEnd, PP!UsableEnd
<1>3. PP!NoneInsideFrame
  BY MemoryAssumption, <1>2 DEF PP!NoneInsideFrame
<1> QED
  BY <1>1, <1>3

\* What the allocator's invariants say of its sets.
Sets ==
  /\ memmap \in {m.memmap : m \in Machines}
  /\ phase \in P!phases /\ ownership \subseteq Nat
  /\ holds \in [{"kmain", "heap"} -> SUBSET Nat]
  /\ \A f \in holds["kmain"] : f \notin holds["heap"]
  /\ frame_count \in Nat /\ scan.length \in Nat
  /\ P!FreeFrames \subseteq Nat /\ IsFiniteSet(P!FreeFrames)
  /\ pmm_get_free_frame_count \in Nat
  /\ P!bitmap_page_count \in Nat /\ IsFiniteSet(P!Metadata)
  /\ Cardinality(P!Metadata) <= 2 * P!bitmap_page_count
  /\ phase = "ready" =>
       /\ P!FreeFrames \cup ownership \cup P!Metadata = P!UsableFrames
       /\ P!FreeFrames \cap ownership = {}
       /\ P!FreeFrames \cap P!Metadata = {}
       /\ ownership \cap P!Metadata = {}
       /\ P!UsableFrames \subseteq 0 .. frame_count - 1
       /\ P!UsableFrames \subseteq Frames
       /\ ownership = holds["kmain"] \cup holds["heap"]
       /\ bitmap_at .. bitmap_at + P!bitmap_page_count - 1 \subseteq P!Metadata
  /\ phase # "ready" => ownership = {}

\* How many frames a bitmap takes.
LEMMA RunLength ==
  ASSUME NEW a \in Nat, NEW n \in Nat
  PROVE  IsFiniteSet(a .. a + n - 1) /\ Cardinality(a .. a + n - 1) = n
<1> DEFINE b == a + n - 1
<1>1. b \in Int /\ a \in Int /\ (a > b => n = 0) /\ b - a + 1 = n
  OBVIOUS
<1> HIDE DEF b
<1>2. IsFiniteSet(a .. b) /\ Cardinality(a .. b) = IF a > b THEN 0 ELSE b - a + 1
  BY <1>1, FS_Interval
<1>3. IsFiniteSet(a .. b) /\ Cardinality(a .. b) = n
  BY <1>1, <1>2
<1> QED
  BY <1>3 DEF b

\* The frames of the machine are those that PmmProofs accounts for.
LEMMA SetsFollow == PmmInv => Sets
<1> SUFFICES ASSUME PmmInv PROVE Sets
  OBVIOUS
<1>1. PP!TypeOK /\ PP!FrameAccounting /\ PP!NoSharing /\ PP!IInv /\ PP!UnownedInv
  BY DEF PmmInv, PP!IInv
<1>2. /\ memmap \in {m.memmap : m \in Machines}
      /\ phase \in P!phases /\ ownership \subseteq Nat
      /\ holds \in [{"kmain", "heap"} -> SUBSET Nat]
      /\ frame_count \in Nat /\ scan.length \in Nat /\ bitmap_at \in Nat /\ ownership_at \in Nat
  BY <1>1 DEF PP!TypeOK, P!phases, PP!phases
<1>3. P!bitmap_page_count \in Nat
  BY <1>2, PP!PagesForHolds, PmmGiven, SameSets DEF PP!bitmap_page_count
<1>4. P!FreeFrames \subseteq 0 .. frame_count - 1 /\ IsFiniteSet(P!FreeFrames)
  <2>1. P!FreeFrames \in SUBSET (0 .. frame_count - 1)
    BY DEF P!FreeFrames
  <2>2. IsFiniteSet(0 .. frame_count - 1)
    BY <1>2, FS_Interval, 0 \in Int, frame_count - 1 \in Int
  <2> QED
    BY <2>1, <2>2, FS_Subset
<1>5. pmm_get_free_frame_count \in Nat
  BY <1>4, FS_CardinalityType DEF pmm_get_free_frame_count
<1>6. P!FreeFrames \subseteq Nat
  BY <1>2, <1>4
<1>7. /\ IsFiniteSet(P!Metadata) /\ Cardinality(P!Metadata) <= 2 * P!bitmap_page_count
      /\ bitmap_at .. bitmap_at + P!bitmap_page_count - 1 \subseteq P!Metadata
  <2> DEFINE A == bitmap_at .. bitmap_at + P!bitmap_page_count - 1
             B == ownership_at .. ownership_at + P!bitmap_page_count - 1
  <2>1. /\ IsFiniteSet(A) /\ Cardinality(A) \in Nat /\ Cardinality(A) <= P!bitmap_page_count
        /\ IsFiniteSet(B) /\ Cardinality(B) \in Nat /\ Cardinality(B) <= P!bitmap_page_count
    <3> HIDE DEF A, B
    <3>1. /\ IsFiniteSet(A) /\ Cardinality(A) = P!bitmap_page_count
          /\ IsFiniteSet(B) /\ Cardinality(B) = P!bitmap_page_count
      BY <1>2, <1>3, RunLength DEF A, B
    <3> QED
      BY <1>3, <3>1
  <2>2. P!Metadata = A \cup B
    BY DEF P!Metadata
  <2> HIDE DEF A, B
  <2>3. IsFiniteSet(A \cup B) /\ IsFiniteSet(A \cap B)
        /\ Cardinality(A \cup B) = Cardinality(A) + Cardinality(B) - Cardinality(A \cap B)
    <3>1. A \cap B \in SUBSET A
      OBVIOUS
    <3> QED
      BY <2>1, <3>1, FS_Union, FS_Subset
  <2>4. Cardinality(A \cap B) \in Nat
    BY <2>3, FS_CardinalityType
  <2>5. bitmap_at .. bitmap_at + P!bitmap_page_count - 1 \subseteq P!Metadata
    BY <2>2 DEF A
  <2> QED
    BY <1>3, <2>1, <2>2, <2>3, <2>4, <2>5
<1>8. P!UsableFrames \subseteq Frames
  <2>1. \A i \in DOMAIN memmap : memmap[i].usable => P!EntryFrames(memmap[i]) \subseteq Frames
    BY <1>2, MemoryAssumption
  <2> QED
    BY <2>1 DEF P!UsableFrames, P!UsableEntries
<1>9. phase = "ready" => P!UsableFrames \subseteq 0 .. frame_count - 1
  <2>1. PP!TypeOK /\ PP!CountInv /\ PP!RangeInv /\ PP!PlacedInv /\ PP!PmmAssumption
    BY <1>1, PmmGiven DEF PP!IInv
  <2>2. phase = "ready" => PP!UsableFrames \subseteq 0 .. frame_count - 1
    BY <2>1, PP!PlacedFits
  <2> QED
    BY <2>2, SameSets
<1>10. /\ phase = "ready" =>
            /\ P!FreeFrames \cup ownership \cup P!Metadata = P!UsableFrames
            /\ P!FreeFrames \cap ownership = {}
            /\ P!FreeFrames \cap P!Metadata = {}
            /\ ownership \cap P!Metadata = {}
            /\ ownership = holds["kmain"] \cup holds["heap"]
       /\ \A f \in holds["kmain"] : f \notin holds["heap"]
  BY <1>1, SameSets DEF PP!FrameAccounting, PP!NoSharing
<1> QED
  BY <1>1, <1>2, <1>3, <1>4, <1>5, <1>6, <1>7, <1>8, <1>9, <1>10 DEF Sets, PP!UnownedInv

Running == panic = ""

\* Too little memory on this machine: in all, or in one piece.
MemoryScarce == ~(Cardinality(P!UsableFrames) >= 2 * P!bitmap_page_count + 8)
RoomScarce ==
  ~\E e \in P!UsableEntries : Cardinality(P!EntryFrames(e)) >= 2 * P!bitmap_page_count

\* The loader's messages, or one of the allocator's, for which there is a cause.
Cause ==
  /\ panic \in LoaderPanics \cup
               {"KBM_OUT_OF_MEMORY", "PMM bitmap does not fit in usable memory"}
  /\ panic = "KBM_OUT_OF_MEMORY" => MemoryScarce
  /\ panic = "PMM bitmap does not fit in usable memory" => RoomScarce

\* The allocators halt the kernel only for what Required asks.
LEMMA CauseSuffices == Cause => (panic \notin LoaderPanics => ~Required(panic))
<1> SUFFICES ASSUME Cause, panic \notin LoaderPanics PROVE ~Required(panic)
  OBVIOUS
<1>1. CASE panic = "KBM_OUT_OF_MEMORY"
  BY <1>1 DEF Cause, MemoryScarce, Required
<1>2. CASE panic = "PMM bitmap does not fit in usable memory"
  BY <1>2 DEF Cause, RoomScarce, Required
<1> QED
  BY <1>1, <1>2 DEF Cause

\* What no step of the allocator's interface changes.
Settled == UNCHANGED <<memmap, entry, scan, frame_count, next_frame, reserved,
                       bitmap_at, ownership_at, phase>>

\* How much memory a machine has does not change.
LEMMA SettledKeeps ==
  ASSUME Settled
  PROVE  /\ P!UsableFrames' = P!UsableFrames /\ P!Metadata' = P!Metadata
         /\ P!bitmap_page_count' = P!bitmap_page_count
         /\ P!UsableEntries' = P!UsableEntries
         /\ MemoryScarce' = MemoryScarce /\ RoomScarce' = RoomScarce
<1>1. /\ P!UsableFrames' = P!UsableFrames
      /\ P!bitmap_page_count' = P!bitmap_page_count
      /\ P!UsableEntries' = P!UsableEntries
  BY DEF Settled, P!UsableFrames, P!UsableEntries, P!bitmap_page_count
<1>2. P!Metadata' = P!Metadata
  BY <1>1 DEF Settled, P!Metadata
<1> QED
  BY <1>1, <1>2 DEF MemoryScarce, RoomScarce

\* A call of kmain's is a step of PmmProofs.
LEMMA PmmStep == PmmInv /\ PP!Next => PmmInv'
<1> SUFFICES ASSUME PmmInv, PP!Next PROVE PmmInv'
  OBVIOUS
<1>1. PP!IInv /\ PP!BiggestInv /\ PP!RefusalInv /\ PP!PmmAssumption /\ PP!NoneInsideFrame
  BY PmmGiven DEF PmmInv
<1>2. PP!IInv'
  BY <1>1, PP!StepIInv
<1>3. PP!BiggestInv' /\ PP!RefusalInv'
  BY <1>1, PP!RefusalStep
<1> QED
  BY <1>2, <1>3 DEF PmmInv

\* So is what leaves pmm.c alone.
LEMMA PmmQuiet == PmmInv /\ UNCHANGED <<pmm, panic>> => PmmInv'
<1> SUFFICES ASSUME PmmInv, UNCHANGED <<pmm, panic>> PROVE PmmInv'
  OBVIOUS
<1>1. PP!IInv /\ PP!BiggestInv /\ PP!RefusalInv /\ PP!PmmAssumption /\ PP!NoneInsideFrame
  BY PmmGiven DEF PmmInv
<1>2. UNCHANGED PP!vars
  BY DEF pmm, PP!vars, PP!booting
<1>3. PP!IInv'
  BY <1>1, <1>2, PP!StepIInv
<1>4. PP!BiggestInv' /\ PP!RefusalInv'
  BY <1>1, <1>2, PP!RefusalStep
<1> QED
  BY <1>3, <1>4 DEF PmmInv

-----------------------------------------------------------------------------
(* A frame taken, a frame returned                                         *)

Taken(c, f) ==
  /\ f \in P!FreeFrames /\ \A g \in P!FreeFrames : f <= g
  /\ P!FreeFrames' = P!FreeFrames \ {f}
  /\ ownership' = ownership \cup {f} /\ f \notin ownership
  /\ holds' = [holds EXCEPT ![c] = holds[c] \cup {f}] /\ f \notin holds[c]
  /\ pmm_get_free_frame_count' = pmm_get_free_frame_count - 1
  /\ Settled

\* pmm_allocate_frame gives the lowest free frame; if there is none, then the
\* bitmaps and at most seven frames are all the RAM that the machine has.
LEMMA TakesFrame ==
  ASSUME PmmInv, NEW c \in {"kmain", "heap"}, P!pmm_allocate_frame(c), phase = "ready",
         NEW n \in 0 .. 7, Out(n)
  PROVE  \/ /\ PmmInv' /\ Running' /\ \E f \in Nat : Taken(c, f) /\ Out(n + 1)'
         \/ Cause' /\ ~Running' /\ UNCHANGED pmm
<1>0. Sets
  BY SetsFollow
<1>1. PmmInv'
  <2>1. PP!pmm_allocate_frame(c)
    BY SameSteps
  <2> QED
    BY <2>1, PmmStep DEF PP!Next
<1>2. CASE P!FreeFrames = {}
  <2>1. panic' = "KBM_OUT_OF_MEMORY" /\ UNCHANGED pmm
    BY <1>2 DEF P!pmm_allocate_frame, P!Panic, P!booting, pmm
  <2>2. MemoryScarce
    <3>1. P!UsableFrames = ownership \cup P!Metadata /\ ownership \cap P!Metadata = {}
      BY <1>0, <1>2 DEF Sets
    <3>2. /\ IsFiniteSet(ownership) /\ Cardinality(ownership) = n
          /\ IsFiniteSet(P!Metadata) /\ Cardinality(P!Metadata) \in Nat
          /\ Cardinality(P!Metadata) <= 2 * P!bitmap_page_count
          /\ P!bitmap_page_count \in Nat
      BY <1>0, FS_CardinalityType DEF Out, Sets
    <3>3. Cardinality(ownership \cup P!Metadata) =
            Cardinality(ownership) + Cardinality(P!Metadata) - Cardinality(ownership \cap P!Metadata)
      BY <3>2, FS_Union
    <3>4. Cardinality(ownership \cap P!Metadata) = 0
      BY <3>1, FS_EmptySet, Zenon
    <3>5. Cardinality(P!UsableFrames) = n + Cardinality(P!Metadata)
      BY <3>1, <3>2, <3>3, <3>4
    <3> QED
      BY <3>2, <3>5 DEF MemoryScarce
  <2>3. MemoryScarce'
    <3>1. Settled
      BY <2>1 DEF Settled, pmm
    <3> QED
      BY <2>2, <3>1, SettledKeeps
  <2>4. Cause'
    BY <2>1, <2>3 DEF Cause
  <2>5. ~Running'
    BY <2>1 DEF Running
  <2> QED
    BY <2>1, <2>4, <2>5
<1>3. CASE P!FreeFrames # {}
  <2>1. PICK f \in P!FreeFrames :
          /\ \A g \in P!FreeFrames : f <= g
          /\ ownership' = ownership \cup {f}
          /\ bitmap' = bitmap \cup {f}
          /\ holds' = [holds EXCEPT ![c] = @ \cup {f}]
    BY <1>3 DEF P!pmm_allocate_frame
  <2>2. Settled /\ Running'
    BY <1>3 DEF P!pmm_allocate_frame, P!booting, Settled, Running
  <2>3. P!FreeFrames' = P!FreeFrames \ {f}
    BY <2>1, <2>2 DEF P!FreeFrames, Settled
  <2>4. f \notin ownership /\ f \notin holds[c] /\ f \in Nat
    BY <1>0, <2>1 DEF Sets
  <2>5. pmm_get_free_frame_count' = pmm_get_free_frame_count - 1
    BY <1>0, <2>1, <2>3, FS_RemoveElement DEF Sets, pmm_get_free_frame_count
  <2>6. Out(n + 1)'
    BY <2>1, <2>4, FS_AddElement DEF Out
  <2>7. Taken(c, f)
    BY <2>1, <2>2, <2>3, <2>4, <2>5 DEF Taken
  <2> QED
    BY <1>1, <2>2, <2>4, <2>6, <2>7
<1> QED
  BY <1>2, <1>3

Returned(f) ==
  /\ f \in ownership /\ f \in Nat
  /\ P!FreeFrames' = P!FreeFrames \cup {f}
  /\ ownership' = ownership \ {f}
  /\ holds' = [holds EXCEPT !["kmain"] = holds["kmain"] \ {f}]
  /\ pmm_get_free_frame_count' = pmm_get_free_frame_count + 1
  /\ Settled

\* kmain returns a frame that it has: pmm_free_frame finds nothing wrong.
LEMMA ReturnsFrame ==
  ASSUME PmmInv, NEW f \in holds["kmain"], phase = "ready", Running,
         P!pmm_free_frame("kmain", f, TRUE), NEW n \in Nat, Out(n)
  PROVE  PmmInv' /\ Running' /\ Returned(f) /\ n - 1 \in Nat /\ Out(n - 1)'
<1>0. Sets
  BY SetsFollow
<1>1. /\ f \in ownership /\ f \in 0 .. frame_count - 1 /\ f \in Nat
      /\ f \notin bitmap_at .. bitmap_at + P!bitmap_page_count - 1
      /\ f \notin P!FreeFrames
  BY <1>0 DEF Sets
<1>2. f < frame_count /\ ~(f >= frame_count) /\ f \in 0 .. frame_count
  BY <1>0, <1>1 DEF Sets
<1>3. P!FreeError(f, TRUE) = panic
  BY <1>1, <1>2, Zenon DEF P!FreeError, Running
<1>4. /\ ownership' = ownership \ {f} /\ bitmap' = bitmap \ {f}
      /\ holds' = [holds EXCEPT !["kmain"] = @ \ {f}]
      /\ UNCHANGED <<P!booting, phase, panic>>
  BY <1>3, Zenon DEF P!pmm_free_frame, Running
<1>5. PmmInv'
  <2>1. PP!pmm_free_frame("kmain", f, TRUE)
    BY SameSteps
  <2>2. PP!Next
    BY <1>2, <2>1 DEF PP!Next
  <2> QED
    BY <2>2, PmmStep
<1>6. Settled /\ Running'
  BY <1>4 DEF Settled, P!booting, Running
<1>7. P!FreeFrames' = P!FreeFrames \cup {f}
  BY <1>1, <1>4, <1>6 DEF P!FreeFrames, Settled
<1>8. pmm_get_free_frame_count' = pmm_get_free_frame_count + 1
  BY <1>0, <1>1, <1>7, FS_AddElement DEF Sets, pmm_get_free_frame_count
<1>9. n - 1 \in Nat /\ Out(n - 1)'
  <2>1. Cardinality(ownership) = n /\ IsFiniteSet(ownership)
    BY DEF Out
  <2>2. IsFiniteSet(ownership \ {f}) /\ Cardinality(ownership \ {f}) = n - 1
    BY <1>1, <2>1, FS_RemoveElement
  <2>3. n - 1 \in Nat
    BY <2>2, FS_CardinalityType
  <2> QED
    BY <1>4, <2>2, <2>3 DEF Out
<1> QED
  BY <1>1, <1>4, <1>5, <1>6, <1>7, <1>8, <1>9 DEF Returned

-----------------------------------------------------------------------------
(* pmm_init                                                                *)

\* If pmm_init has halted the kernel, it has seen every entry, and the range that
\* it remembers is too short: no other is longer.
LEMMA RefusedForCause ==
  PmmInv /\ ~Running => (phase = "scan" => RoomScarce) /\ (phase = "reserve" => MemoryScarce)
<1> SUFFICES ASSUME PmmInv, ~Running, phase \in {"scan", "reserve"}
             PROVE  (phase = "scan" => RoomScarce) /\ (phase = "reserve" => MemoryScarce)
  OBVIOUS
<1>0. Sets /\ PP!IInv /\ PP!BiggestInv /\ PP!RefusalInv /\ PP!PmmAssumption
  BY SetsFollow, PmmGiven DEF PmmInv
<1>1. PP!Halting
  BY Zenon DEF Running, PP!Halting
<1>2. entry = Len(memmap) + 1
  BY <1>0, <1>1 DEF PP!RefusalInv
<1>3. /\ Len(memmap) \in Nat /\ DOMAIN memmap = 1 .. Len(memmap)
      /\ \A i \in DOMAIN memmap : memmap[i] \in PP!Entry
  BY <1>0, PP!EntryType DEF Sets
<1>4. ASSUME NEW e \in P!UsableEntries
      PROVE  \E b, d \in Nat : /\ P!EntryFrames(e) = b .. d - 1
                               /\ d <= b + scan.length
  <2>1. PICK i \in DOMAIN memmap : e = memmap[i] /\ memmap[i].usable
    BY DEF P!UsableEntries
  <2>2. i \in 1 .. entry - 1 /\ e \in PP!Entry
    BY <1>2, <1>3, <2>1
  <2>3. PP!UsableEnd(e) <= PP!UsableBase(e) + scan.length
    BY <1>0, <2>1, <2>2 DEF PP!BiggestInv
  <2>4. PP!UsableBase(e) \in Nat /\ PP!UsableEnd(e) \in Nat
    BY <1>0, <2>2, PP!RangeType
  <2>5. P!EntryFrames(e) = PP!UsableBase(e) .. PP!UsableEnd(e) - 1
    BY <1>0, <2>2, SameSets, PP!EntryFramesAreRange DEF PP!UsableRange
  <2> QED
    BY <2>3, <2>4, <2>5
<1>5. CASE phase = "scan"
  <2>1. scan.length < 2 * P!bitmap_page_count /\ P!bitmap_page_count \in Nat /\ scan.length \in Nat
    BY <1>0, <1>1, <1>5, SameSets DEF PP!RefusalInv, Sets
  <2>2. ASSUME NEW e \in P!UsableEntries
        PROVE  ~(Cardinality(P!EntryFrames(e)) >= 2 * P!bitmap_page_count)
    <3>1. PICK b, d \in Nat : P!EntryFrames(e) = b .. d - 1 /\ d <= b + scan.length
      BY <1>4
    <3>2. Cardinality(b .. d - 1) = IF b > d - 1 THEN 0 ELSE d - 1 - b + 1
      <4>1. b \in Int /\ d - 1 \in Int
        OBVIOUS
      <4> QED
        BY <4>1, FS_Interval
    <3> QED
      BY <2>1, <3>1, <3>2
  <2> QED
    BY <1>5, <2>2 DEF RoomScarce
<1>6. CASE phase = "reserve"
  <2>1. scan.length = 0
    BY <1>0, <1>1, <1>6 DEF PP!RefusalInv
  <2>2. ASSUME NEW e \in P!UsableEntries PROVE P!EntryFrames(e) = {}
    <3>1. PICK b, d \in Nat : P!EntryFrames(e) = b .. d - 1 /\ d <= b + scan.length
      BY <1>4
    <3> QED
      BY <2>1, <3>1
  <2>3. P!UsableFrames = {}
    BY <2>2 DEF P!UsableFrames
  <2>4. Cardinality(P!UsableFrames) = 0
    BY <2>3, FS_EmptySet, Zenon
  <2>5. P!bitmap_page_count \in Nat
    BY <1>0 DEF Sets
  <2> QED
    BY <1>6, <2>4, <2>5 DEF MemoryScarce
<1> QED
  BY <1>5, <1>6

\* The kernel runs on in good order, or it has halted for a cause.
Sound == IF Running THEN Good ELSE Cause

\* What a step of kmain changes before the heap is in use.
LEMMA HeaplessKeeps ==
  ASSUME HeapInv, at \in Heapless, at' \in Heapless, DOMAIN mem' = DOMAIN mem,
         UNCHANGED <<pc, heap_ready, heap_used>>
  PROVE  HeapInv'
BY DEF HeapInv, Heapless, Untouched, Walking, Stages

\* The steps up to pmm_init, which leave the allocators alone.
LEMMA WalkingKeeps ==
  ASSUME Good, Running, Running', at \in Walking, at' \in Walking \cup {"pmm_init"},
         UNCHANGED <<local, pmm, heap, panic>>
  PROVE  Good'
<1>1. PmmInv'
  BY PmmQuiet DEF Good
<1>2. FramesInv'
  BY DEF Good, FramesInv, Walking, Untouched, pmm
<1>3. HeapInv'
  BY HeaplessKeeps DEF Good, heap, calls, Heapless, Untouched, Walking
<1>4. at' \in Places /\ local' \in Locals
  BY DEF Good, Places, Heapless, Untouched, Walking
<1> QED
  BY <1>1, <1>2, <1>3, <1>4 DEF Good

\* pmm_init, with whatever memory map, has a cause if it halts.
LEMMA InitKeeps ==
  ASSUME Good, Running, pmm_init
  PROVE  Sound'
<1>1. at = "pmm_init" /\ UNCHANGED heap /\ pc = "idle"
  BY Zenon DEF pmm_init, At
<1>2. CASE phase = "ready" /\ Goto("allocate") /\ UNCHANGED <<tables, lint0, local, panic, pmm>>
  <2>1. PmmInv' /\ Running'
    BY <1>2, PmmQuiet DEF Good, Running
  <2>2. at' = "allocate" /\ UNCHANGED <<local, ownership, phase>>
    BY <1>2 DEF Goto, pmm
  <2>3. FramesInv'
    BY <1>1, <1>2, <2>2 DEF Good, FramesInv, Walking, Untouched
  <2>4. HeapInv'
    BY <1>1, <2>2, HeaplessKeeps DEF Good, heap, calls, Heapless, Untouched, Walking
  <2>5. at' \in Places /\ local' \in Locals
    BY <2>2 DEF Good, Places, Heapless, Untouched, Walking
  <2> QED
    BY <2>1, <2>3, <2>4, <2>5 DEF Sound, Good
<1>3. CASE (P!CallInit \/ P!InitStep) /\ UNCHANGED kmain
  <2>1. PmmInv'
    BY <1>3, SameSteps, PmmStep DEF Good
  <2>2. UNCHANGED <<at, local>>
    BY <1>3 DEF kmain
  <2>3. ownership' = ownership \/ ownership' = {}
    BY <1>3 DEF P!CallInit, P!InitStep, P!ScanEntry, P!SizeBitmaps, P!ReserveBitmapFrame,
                P!ClearBitmaps, P!FreeUsableEntry, P!ProtectBitmaps, P!Panic, P!booting
  <2>4. CASE Running'
    <3>1. FramesInv'
      BY <1>1, <2>2, <2>3 DEF Good, FramesInv, Walking, Untouched
    <3>2. HeapInv'
      BY <1>1, <2>2, HeaplessKeeps DEF Good, heap, calls, Heapless, Untouched, Walking
    <3>3. at' \in Places /\ local' \in Locals
      BY <2>2 DEF Good
    <3> QED
      BY <2>1, <2>4, <3>1, <3>2, <3>3 DEF Sound, Good
  <2>5. CASE ~Running'
    <3>1. \/ panic' = "PMM bitmap does not fit in usable memory" /\ phase' = "scan"
          \/ panic' = "KBM_OUT_OF_MEMORY" /\ phase' = "reserve"
      <4>1. panic' # panic
        BY <2>5, Zenon DEF Running
      <4> QED
        BY <1>3, <4>1 DEF P!CallInit, P!InitStep, P!ScanEntry, P!SizeBitmaps,
             P!ReserveBitmapFrame, P!ClearBitmaps, P!FreeUsableEntry, P!ProtectBitmaps,
             P!Panic, P!booting
    <3>2. (PmmInv /\ ~Running => (phase = "scan" => RoomScarce) /\ (phase = "reserve" => MemoryScarce))'
      BY RefusedForCause, PTL
    <3>3. Cause'
      BY <2>1, <2>5, <3>1, <3>2 DEF Cause
    <3> QED
      BY <2>5, <3>3 DEF Sound
  <2> QED
    BY <2>4, <2>5
<1> QED
  BY <1>2, <1>3 DEF pmm_init

-----------------------------------------------------------------------------
(* The self-test of the frame allocator                                    *)

\* An assignment to one of kmain's variables.
LEMMA LocalsType ==
  ASSUME NEW l \in Locals, NEW x \in Int
  PROVE  /\ [l EXCEPT !.test_frame = x] \in Locals
         /\ [l EXCEPT !.free_before = x] \in Locals
         /\ [l EXCEPT !.free_after_allocate = x] \in Locals
         /\ [l EXCEPT !.frames = x] \in Locals
         /\ [l EXCEPT !.result = x] \in Locals
         /\ [l EXCEPT !.used_before = x] \in Locals
         /\ [l EXCEPT !.alignment_test = x] \in Locals
         /\ [l EXCEPT !.frames_before = x] \in Locals
         /\ l.test_frame \in Int /\ l.free_before \in Int
         /\ l.free_after_allocate \in Int /\ l.frames \in Int /\ l.result \in Int
         /\ l.numbers \in Seq(Int) /\ l.used_before \in Int
         /\ l.alignment_test \in Int /\ l.frames_before \in Int
BY DEF Locals

\* A frame goes to kmain.
LEMMA AllocateDoes ==
  ASSUME Good, phase = "ready", NEW n \in 0 .. 7, Out(n),
         NEW there, NEW locals, Allocate(there, locals)
  PROVE  \/ ~Running' /\ Cause'
         \/ /\ Running' /\ PmmInv' /\ at' = there /\ local' = locals
            /\ UNCHANGED heap /\ phase' = "ready" /\ Out(n + 1)'
            /\ \E f \in Nat : Given = f /\ Taken("kmain", f) /\ Kept(f)'
<1>1. P!pmm_allocate_frame("kmain") /\ UNCHANGED heap
  BY DEF Allocate
<1>2. CASE ~Running'
  BY <1>1, <1>2, TakesFrame DEF Good
<1>3. CASE Running'
  <2>1. PmmInv' /\ \E f \in Nat : Taken("kmain", f) /\ Out(n + 1)'
    BY <1>1, <1>3, TakesFrame DEF Good
  <2>2. PICK f \in Nat : Taken("kmain", f) /\ Out(n + 1)'
    BY <2>1
  <2>3. at' = there /\ local' = locals
    BY <1>3, Zenon DEF Allocate, Running, Goto
  <2>4. holds'["kmain"] = holds["kmain"] \cup {f} /\ f \notin holds["kmain"]
    BY <2>2, SetsFollow DEF Taken, Sets, Good
  <2>5. Given = f
    BY <2>4 DEF Given
  <2>6. Kept(f)'
    <3>1. P!FreeFrames \subseteq Nat
      BY SetsFollow DEF Sets, Good
    <3>2. \A g \in P!FreeFrames' : f < g
      BY <2>2, <3>1 DEF Taken
    <3> QED
      BY <2>4, <3>2 DEF Kept
  <2>7. phase' = "ready"
    BY <2>2 DEF Taken, Settled
  <2> QED
    BY <1>1, <1>3, <2>1, <2>2, <2>3, <2>5, <2>6, <2>7
<1> QED
  BY <1>2, <1>3

\* A frame of kmain's comes back.
LEMMA FreeDoes ==
  ASSUME Good, Running, phase = "ready", NEW n \in Nat, Out(n),
         local.test_frame \in holds["kmain"], NEW there, NEW locals, Free(there, locals)
  PROVE  /\ Running' /\ PmmInv' /\ at' = there /\ local' = locals
         /\ UNCHANGED heap /\ phase' = "ready" /\ n - 1 \in Nat /\ Out(n - 1)'
         /\ Returned(local.test_frame)
<1>1. P!pmm_free_frame("kmain", local.test_frame, TRUE) /\ UNCHANGED heap
  BY DEF Free
<1>2. /\ PmmInv' /\ Running' /\ Returned(local.test_frame)
      /\ n - 1 \in Nat /\ Out(n - 1)'
  BY <1>1, ReturnsFrame DEF Good
<1>3. at' = there /\ local' = locals
  BY <1>2, Zenon DEF Free, Running, Goto
<1>4. phase' = "ready"
  BY <1>2 DEF Returned, Settled
<1> QED
  BY <1>1, <1>2, <1>3, <1>4

\* A step of kmain that leaves both allocators alone, or writes a word of memory.
LEMMA TestKeeps ==
  ASSUME Good, Running, at \in Heapless, at' \in Heapless, Running', PmmInv', FramesInv',
         local' \in Locals, DOMAIN mem' = DOMAIN mem, UNCHANGED calls
  PROVE  Sound'
<1>1. HeapInv'
  BY HeaplessKeeps DEF Good, calls
<1> QED
  BY <1>1 DEF Sound, Good, Places

\* The first frame that goes out.
LEMMA TestAllocateKeeps == Good /\ Running /\ TestAllocate => Sound'
<1> SUFFICES ASSUME Good, Running, TestAllocate PROVE Sound'
  OBVIOUS
<1> DEFINE locals == [local EXCEPT !.free_before = pmm_get_free_frame_count,
                                   !.test_frame = Given]
<1>1. at = "allocate" /\ Allocate("free", locals)
  BY Zenon DEF TestAllocate, At
<1>2. phase = "ready" /\ ownership = {} /\ local.frames = 0 /\ local \in Locals
  BY <1>1 DEF Good, FramesInv, Walking, Untouched
<1>3. Out(0)
  BY <1>2, FS_EmptySet DEF Out
<1>4. CASE ~Running' /\ Cause'
  BY <1>4 DEF Sound
<1>5. CASE /\ Running' /\ PmmInv' /\ at' = "free" /\ local' = locals
           /\ UNCHANGED heap /\ phase' = "ready"
           /\ \E f \in Nat : Given = f /\ Taken("kmain", f) /\ Kept(f)'
  <2>1. PICK f \in Nat : Given = f /\ Taken("kmain", f) /\ Kept(f)'
    BY <1>5
  <2>2. ownership' = {f} /\ pmm_get_free_frame_count' = pmm_get_free_frame_count - 1
    BY <1>2, <2>1 DEF Taken
  <2>3. pmm_get_free_frame_count \in Nat
    BY SetsFollow DEF Good, Sets
  <2>4. /\ local'.test_frame = f /\ local'.free_before = pmm_get_free_frame_count
        /\ local'.frames = 0 /\ local' \in Locals
    <3> DEFINE first == [local EXCEPT !.free_before = pmm_get_free_frame_count]
    <3>1. first \in Locals
      <4>1. pmm_get_free_frame_count \in Int
        BY <2>3
      <4> QED
        BY <1>2, <4>1, LocalsType, Zenon
    <3>2. first.free_before = pmm_get_free_frame_count /\ first.frames = 0
      BY <1>2 DEF Locals
    <3>3. local' = [first EXCEPT !.test_frame = f]
      BY <1>5, <2>1
    <3> HIDE DEF first
    <3>4. local' \in Locals
      <4>1. f \in Int
        OBVIOUS
      <4> QED
        BY <3>1, <3>3, <4>1, LocalsType, Zenon
    <3> QED
      BY <3>1, <3>2, <3>3, <3>4 DEF Locals
  <2>5. FramesInv'
    BY <1>5, <2>1, <2>2, <2>3, <2>4 DEF FramesInv, Walking, Untouched
  <2> QED
    BY <1>1, <1>5, <2>4, <2>5, TestKeeps DEF Heapless, Untouched, heap
<1> HIDE DEF locals
<1> QED
  BY <1>1, <1>2, <1>3, <1>4, <1>5, AllocateDoes

\* It comes back, and the count with it.
LEMMA TestFreeKeeps == Good /\ Running /\ TestFree => Sound'
<1> SUFFICES ASSUME Good, Running, TestFree PROVE Sound'
  OBVIOUS
<1> DEFINE locals == [local EXCEPT !.free_after_allocate = pmm_get_free_frame_count]
<1>1. at = "free" /\ Free("counts", locals)
  BY Zenon DEF TestFree, At
<1>2. /\ phase = "ready" /\ ownership = {local.test_frame} /\ local.frames = 0
      /\ local \in Locals /\ local.test_frame \in holds["kmain"]
      /\ local.free_before = pmm_get_free_frame_count + 1
  BY <1>1 DEF Good, FramesInv, Walking, Untouched, Kept
<1>3. Out(1)
  BY <1>2, FS_Singleton DEF Out
<1>4. /\ Running' /\ PmmInv' /\ at' = "counts" /\ local' = locals
      /\ UNCHANGED heap /\ phase' = "ready" /\ Returned(local.test_frame)
  <2> HIDE DEF locals
  <2> QED
    BY <1>1, <1>2, <1>3, FreeDoes
<1>5. ownership' = {} /\ pmm_get_free_frame_count' = pmm_get_free_frame_count + 1
  BY <1>2, <1>4 DEF Returned
<1>6. pmm_get_free_frame_count \in Nat
  BY SetsFollow DEF Good, Sets
<1>7. /\ local'.free_before = local.free_before /\ local'.frames = 0
      /\ local'.free_after_allocate = pmm_get_free_frame_count /\ local' \in Locals
  BY <1>2, <1>4, <1>6 DEF Locals
<1>8. FramesInv'
  BY <1>2, <1>4, <1>5, <1>6, <1>7 DEF FramesInv, Walking, Untouched
<1> QED
  BY <1>1, <1>4, <1>7, <1>8, TestKeeps DEF Heapless, Untouched, heap

\* The counts differ by the one frame.
LEMMA CheckCountsKeeps == Good /\ Running /\ CheckCounts => Sound'
<1> SUFFICES ASSUME Good, Running, CheckCounts PROVE Sound'
  OBVIOUS
<1>1. at = "counts"
  BY Zenon DEF CheckCounts, At
<1>2. /\ phase = "ready" /\ ownership = {} /\ local.frames = 0
      /\ local.free_after_allocate = local.free_before - 1
      /\ local.free_before = pmm_get_free_frame_count
  BY <1>1 DEF Good, FramesInv, Walking, Untouched
<1>3. Goto("frames") /\ UNCHANGED <<tables, lint0, local, panic, pmm, heap>>
  BY <1>2, Zenon DEF CheckCounts, Checked
<1>4. PmmInv' /\ Running' /\ at' = "frames"
  BY <1>3, PmmQuiet DEF Good, Running, Goto
<1>5. Out(0)' /\ local' = local /\ phase' = "ready"
  BY <1>2, <1>3, FS_EmptySet DEF Out, pmm
<1>6. FramesInv'
  BY <1>2, <1>4, <1>5 DEF FramesInv, Walking, Untouched
<1> QED
  BY <1>1, <1>3, <1>4, <1>6, TestKeeps DEF Heapless, Untouched, heap, Good

\* Six frames go out; kmain knows the last.
LEMMA KeepFramesKeeps == Good /\ Running /\ KeepFrames => Sound'
<1> SUFFICES ASSUME Good, Running, KeepFrames PROVE Sound'
  OBVIOUS
<1> DEFINE locals == [local EXCEPT !.frames = @ + 1, !.test_frame = Given]
           there == IF local.frames < 5 THEN "frames" ELSE "write_frame"
<1>1. at = "frames" /\ Allocate(there, locals)
  BY Zenon DEF KeepFrames, At
<1>2. phase = "ready" /\ local.frames \in 0 .. 5 /\ Out(local.frames) /\ local \in Locals
  BY <1>1 DEF Good, FramesInv, Walking, Untouched
<1>3. PICK n \in 0 .. 5 : n = local.frames
  BY <1>2
<1>4. CASE ~Running' /\ Cause'
  BY <1>4 DEF Sound
<1>5. CASE /\ Running' /\ PmmInv' /\ at' = there /\ local' = locals
           /\ UNCHANGED heap /\ phase' = "ready" /\ Out(n + 1)'
           /\ \E f \in Nat : Given = f /\ Taken("kmain", f) /\ Kept(f)'
  <2>1. PICK f \in Nat : Given = f /\ Taken("kmain", f) /\ Kept(f)'
    BY <1>5
  <2>2. local'.test_frame = f /\ local'.frames = n + 1 /\ local' \in Locals
    <3> DEFINE first == [local EXCEPT !.frames = n + 1]
    <3>1. first \in Locals
      <4>1. n + 1 \in Int
        OBVIOUS
      <4> QED
        BY <1>2, <4>1, LocalsType, Zenon
    <3>2. first.frames = n + 1
      BY <1>2 DEF Locals
    <3>3. local' = [first EXCEPT !.test_frame = f]
      BY <1>3, <1>5, <2>1
    <3> HIDE DEF first
    <3>4. local' \in Locals
      <4>1. f \in Int
        OBVIOUS
      <4> QED
        BY <3>1, <3>3, <4>1, LocalsType, Zenon
    <3> QED
      BY <3>1, <3>2, <3>3, <3>4 DEF Locals
  <2>3. \/ at' = "frames" /\ n + 1 \in 0 .. 5
        \/ at' = "write_frame" /\ n + 1 = 6
    BY <1>3, <1>5
  <2>4. FramesInv'
    BY <1>5, <2>1, <2>2, <2>3 DEF FramesInv, Walking, Untouched, Out
  <2> QED
    BY <1>1, <1>5, <2>2, <2>3, <2>4, TestKeeps DEF Heapless, Untouched, heap
<1> HIDE DEF locals, there
<1>6. n \in 0 .. 7 /\ Out(n)
  BY <1>2, <1>3
<1> QED
  BY <1>1, <1>2, <1>4, <1>5, <1>6, AllocateDoes

\* The write leaves the bitmaps alone.
LEMMA WriteFrameKeeps == Good /\ Running /\ WriteFrame => Sound'
<1> SUFFICES ASSUME Good, Running, WriteFrame PROVE Sound'
  OBVIOUS
<1>1. at = "write_frame"
  BY Zenon DEF WriteFrame, Write, At
<1>2. /\ at' = "recycle" /\ DOMAIN mem' = DOMAIN mem
      /\ UNCHANGED <<local, panic, pmm, calls>>
  BY DEF WriteFrame, Write, Goto
<1>3. PmmInv' /\ Running'
  BY <1>2, PmmQuiet DEF Good, Running
<1>4. Out(6)' /\ Kept(local.test_frame)' /\ phase' = "ready"
  BY <1>1, <1>2 DEF Good, FramesInv, Walking, Untouched, Out, Kept, pmm, P!FreeFrames
<1>5. FramesInv'
  BY <1>2, <1>4 DEF FramesInv, Walking, Untouched
<1> QED
  BY <1>1, <1>2, <1>3, <1>5, TestKeeps DEF Heapless, Good

\* The sixth frame comes back: it is the lowest free frame now.
LEMMA FreeAgainKeeps == Good /\ Running /\ FreeAgain => Sound'
<1> SUFFICES ASSUME Good, Running, FreeAgain PROVE Sound'
  OBVIOUS
<1>1. at = "recycle" /\ Free("reuse", local)
  BY Zenon DEF FreeAgain, At
<1>2. phase = "ready" /\ Out(6) /\ Kept(local.test_frame)
  BY <1>1 DEF Good, FramesInv, Walking, Untouched
<1>3. /\ Running' /\ PmmInv' /\ at' = "reuse" /\ local' = local
      /\ UNCHANGED heap /\ phase' = "ready" /\ Out(6 - 1)'
      /\ Returned(local.test_frame)
  BY <1>1, <1>2, FreeDoes, 6 \in Nat DEF Kept
<1>4. P!FreeFrames' = P!FreeFrames \cup {local.test_frame} /\ local.test_frame \in Nat
  BY <1>3 DEF Returned
<1>5. P!FreeFrames \subseteq Nat
  BY SetsFollow DEF Good, Sets
<1>6. \A g \in P!FreeFrames' : local.test_frame <= g
  BY <1>2, <1>4, <1>5 DEF Kept
<1>7. Out(5)'
  BY <1>3, 6 - 1 = 5
<1>8. FramesInv'
  BY <1>3, <1>4, <1>6, <1>7 DEF FramesInv, Walking, Untouched
<1> QED
  BY <1>1, <1>3, <1>8, TestKeeps DEF Heapless, heap, Good

\* So it is the one that goes out next.
LEMMA TestReuseKeeps == Good /\ Running /\ TestReuse => Sound'
<1> SUFFICES ASSUME Good, Running, TestReuse PROVE Sound'
  OBVIOUS
<1> DEFINE locals == [local EXCEPT !.result = Given]
<1>1. at = "reuse" /\ Allocate("check_reuse", locals)
  BY Zenon DEF TestReuse, At
<1>2. /\ phase = "ready" /\ Out(5) /\ local \in Locals
      /\ local.test_frame \in P!FreeFrames
      /\ \A g \in P!FreeFrames : local.test_frame <= g
  BY <1>1 DEF Good, FramesInv, Walking, Untouched
<1>3. CASE ~Running' /\ Cause'
  BY <1>3 DEF Sound
<1>4. CASE /\ Running' /\ PmmInv' /\ at' = "check_reuse" /\ local' = locals
           /\ UNCHANGED heap /\ phase' = "ready" /\ Out(5 + 1)'
           /\ \E f \in Nat : Given = f /\ Taken("kmain", f) /\ Kept(f)'
  <2>1. PICK f \in Nat : Given = f /\ Taken("kmain", f) /\ Kept(f)'
    BY <1>4
  <2>2. f = local.test_frame
    <3>1. P!FreeFrames \subseteq Nat
      BY SetsFollow DEF Good, Sets
    <3>2. f \in P!FreeFrames /\ \A g \in P!FreeFrames : f <= g
      BY <2>1 DEF Taken
    <3>3. f <= local.test_frame /\ local.test_frame <= f
      BY <1>2, <3>2
    <3>4. f \in Nat /\ local.test_frame \in Nat
      BY <1>2, <3>1, <3>2
    <3> QED
      BY <3>3, <3>4
  <2>3. local' \in Locals /\ local'.result = local'.test_frame
    BY <1>2, <1>4, <2>1, <2>2, LocalsType DEF Locals
  <2>4. Out(6)'
    BY <1>4, 5 + 1 = 6
  <2>5. FramesInv'
    BY <1>4, <2>3, <2>4 DEF FramesInv, Walking, Untouched
  <2> QED
    BY <1>1, <1>4, <2>3, <2>5, TestKeeps DEF Heapless, heap
<1> HIDE DEF locals
<1> QED
  BY <1>1, <1>2, <1>3, <1>4, AllocateDoes, 5 \in 0 .. 7

\* Which is what the self-test asks.
LEMMA CheckReuseKeeps == Good /\ Running /\ CheckReuse => Sound'
<1> SUFFICES ASSUME Good, Running, CheckReuse PROVE Sound'
  OBVIOUS
<1>1. at = "check_reuse"
  BY Zenon DEF CheckReuse, At
<1>2. phase = "ready" /\ Out(6) /\ local.result = local.test_frame
  BY <1>1 DEF Good, FramesInv, Walking, Untouched
<1>3. Goto("heap_init") /\ UNCHANGED <<tables, lint0, local, panic, pmm, heap>>
  BY <1>2, Zenon DEF CheckReuse, Checked
<1>4. PmmInv' /\ Running' /\ at' = "heap_init"
  BY <1>3, PmmQuiet DEF Good, Running, Goto
<1>5. Out(6)' /\ local' = local /\ phase' = "ready"
  BY <1>2, <1>3 DEF Out, pmm
<1>6. FramesInv'
  BY <1>4, <1>5 DEF FramesInv, Walking, Untouched
<1> QED
  BY <1>1, <1>3, <1>4, <1>6, TestKeeps DEF Heapless, heap, Good

\* The heap starts without memory.
LEMMA HeapInitKeeps == Good /\ Running /\ heap_init => Sound'
<1> SUFFICES ASSUME Good, Running, heap_init PROVE Sound'
  OBVIOUS
<1>1. at = "heap_init"
  BY Zenon DEF heap_init, At
<1>2. phase = "ready" /\ Out(6) /\ DOMAIN mem = H!Words
  BY <1>1 DEF Good, FramesInv, HeapInv, Walking, Untouched
<1>3. /\ at' = "first_num" /\ UNCHANGED <<local, pmm, panic, mem, pc>>
      /\ heap_ready' = TRUE /\ heap_free_list' = 0 /\ heap_used' = 0
  BY DEF heap_init, Goto, H!heap_init, H!locals, H!NULL
<1>4. PmmInv' /\ Running'
  BY <1>3, PmmQuiet DEF Good, Running
<1>5. Out(6)' /\ phase' = "ready"
  BY <1>2, <1>3 DEF Out, pmm
<1>6. FramesInv'
  BY <1>3, <1>5 DEF FramesInv, Walking, Untouched
<1>7. pc = "idle"
  BY <1>1 DEF Good, HeapInv, Heapless
<1>8. HeapInv'
  BY <1>2, <1>3, <1>7 DEF HeapInv, Heapless, Untouched, Walking, Stages
<1> QED
  BY <1>3, <1>4, <1>6, <1>8 DEF Sound, Good, Places

-----------------------------------------------------------------------------
(* The heap's steps, in words of memory                                    *)

\* The constants of the heap.
LEMMA HeapGiven ==
  /\ H!FrameStart(0) = Hhdm /\ FrameWords = 512 /\ Hhdm \in Nat \ {0} /\ Hhdm % 2 = 0
  /\ Frames \subseteq Nat /\ WordMod \in Nat /\ WordMod > 4048 /\ WordMod % 16 = 0
  /\ Magic \in Nat
<1>1. H!HeapAssumption /\ FrameWords = 512
  BY MemoryAssumption
<1>2. 4048 \in 0 .. WordMod - 1
  BY <1>1 DEF H!HeapAssumption
<1> QED
  BY <1>1, <1>2 DEF H!HeapAssumption, H!FrameStart, H!AlignWords, H!AlignBytes

\* A frame of the heap is 512 words of memory.
LEMMA ArenaIs ==
  ASSUME NEW a, Arena(a)
  PROVE  a \in Nat /\ a > 0 /\ a % 2 = 0 /\ a .. a + 511 \subseteq H!Words
<1>1. PICK f \in Frames : a = H!FrameStart(f)
  BY DEF Arena
<1>2. f \in Nat /\ a = Hhdm + f * 512
  BY <1>1, HeapGiven DEF H!FrameStart
<1>3. H!FrameSpan(f) = a .. a + 511
  BY <1>1, <1>2, HeapGiven DEF H!FrameSpan
<1>4. a .. a + 511 \subseteq H!Words
  BY <1>3 DEF H!Words
<1> QED
  BY <1>2, <1>4, HeapGiven

\* The requests of kmain, in words; none is too big for a frame.
LEMMA Rounding ==
  /\ H!round_up_to_16(8) = 2 /\ H!round_up_to_16(13) = 2
  /\ H!round_up_to_16(3900) = 488 /\ H!round_up_to_16(4048) = 506
BY HeapGiven DEF H!round_up_to_16, H!AlignBytes, H!AlignWords

KmainRequests == {8, 13, 3900, 4048}

\* No request of kmain is turned down.
LEMMA KmallocDoes ==
  ASSUME Running, heap_ready, NEW bytes \in KmainRequests, NEW there, NEW locals,
         Kmalloc(bytes, there, locals)
  PROVE  /\ at' = there /\ local' = locals /\ UNCHANGED <<pmm, panic>> /\ Running'
         /\ pc' = "search" /\ size' = H!round_up_to_16(bytes)
         /\ previous' = 0 /\ current' = heap_free_list
         /\ UNCHANGED <<mem, heap_ready, heap_used, heap_frame_count, heap_free_list>>
<1>1. ~(bytes = 0) /\ ~(H!round_up_to_16(bytes) > FrameWords - H!HeaderWords)
  BY Rounding, HeapGiven DEF KmainRequests, H!HeaderWords
<1>2. H!KmallocError(bytes) = panic
  BY <1>1, Zenon DEF H!KmallocError, Running
<1>3. /\ pc' = "search" /\ size' = H!round_up_to_16(bytes)
      /\ previous' = H!NULL /\ current' = heap_free_list
      /\ UNCHANGED <<H!state, panic>>
  BY <1>2, Zenon DEF Kmalloc, H!kmalloc, Running
<1>4. Running' /\ at' = there /\ local' = locals
  <2>1. Running'
    BY <1>3 DEF Running
  <2> QED
    BY <2>1, Zenon DEF Kmalloc, Running, Goto
<1> QED
  BY <1>3, <1>4 DEF Kmalloc, H!state, H!NULL

\* Where the call is decides what its next step is.
LEMMA CallStepIs ==
  ASSUME HeapStep
  PROVE  /\ \/ pc = "search" /\ H!SearchBlock
            \/ pc = "grow" /\ H!TakeFrame /\ P!pmm_allocate_frame("heap")
            \/ pc = "place" /\ H!PlaceFrame
            \/ pc = "take" /\ H!TakeBlock
            \/ pc = "insert" /\ H!InsertBlock
         /\ pc # "grow" => UNCHANGED pmm
         /\ local' = IF pc = "take" THEN [local EXCEPT !.result = current + 4] ELSE local
         /\ UNCHANGED <<machine, tables, lint0, at>>
<1>1. /\ pc = "search" => ~H!TakeFrame /\ ~H!PlaceFrame /\ ~H!TakeBlock /\ ~H!InsertBlock
      /\ pc = "grow" => ~H!SearchBlock /\ ~H!PlaceFrame /\ ~H!TakeBlock /\ ~H!InsertBlock
      /\ H!SearchBlock => pc = "search"
      /\ H!TakeFrame => pc = "grow"
      /\ H!PlaceFrame => pc = "place"
      /\ H!TakeBlock => pc = "take"
      /\ H!InsertBlock => pc = "insert"
  BY DEF H!SearchBlock, H!TakeFrame, H!PlaceFrame, H!TakeBlock, H!InsertBlock
<1>2. H!CallStep
  BY DEF HeapStep
<1>3. local' = IF pc = "take" THEN [local EXCEPT !.result = current + 4] ELSE local
  BY DEF HeapStep, Set, H!HeaderWords
<1> QED
  BY <1>1, <1>2, <1>3 DEF HeapStep, H!CallStep

\* An iteration of the search.
LEMMA SearchDoes ==
  ASSUME HeapStep, pc = "search", Running
  PROVE  /\ UNCHANGED <<at, local, pmm, panic, mem, heap_ready, heap_used,
                        heap_frame_count, heap_free_list, size, target>>
         /\ Running'
         /\ IF current # 0 /\ ~(mem[current + 2] # 0 /\ mem[current] >= size)
            THEN previous' = current /\ current' = mem[current + 1] /\ pc' = "search"
            ELSE /\ pc' = IF current = 0 THEN "grow" ELSE "take"
                 /\ UNCHANGED <<previous, current>>
<1>1. H!SearchBlock /\ UNCHANGED <<pmm, at, local>>
  BY CallStepIs
<1>2. /\ UNCHANGED <<panic, mem, heap_ready, heap_used,
                     heap_frame_count, heap_free_list, size, target>>
      /\ IF current # 0 /\ ~(mem[current + 2] # 0 /\ mem[current] >= size)
         THEN previous' = current /\ current' = mem[current + 1] /\ pc' = "search"
         ELSE /\ pc' = IF current = 0 THEN "grow" ELSE "take"
              /\ UNCHANGED <<previous, current>>
  BY <1>1 DEF H!SearchBlock, H!Fits, H!IsFree, H!Size, H!NextOf, H!NULL, H!state
<1> QED
  BY <1>1, <1>2 DEF Running

\* A request that fits is served in the next step.
LEMMA Found ==
  ASSUME HeapStep, Running, NEW request \in Nat, NEW c \in Nat, NEW words \in Nat,
         Asking(request, c, words), pc = "search", c > 0, request <= words
  PROVE  Asking(request, c, words)' /\ pc' = "take"
<1>1. current = c /\ mem[c] = words /\ mem[c + 2] = 1 /\ size = request
  BY DEF Asking, Block
<1>2. ~(current # 0 /\ ~(mem[current + 2] # 0 /\ mem[current] >= size))
  BY <1>1
<1>3. pc' = "take" /\ UNCHANGED <<previous, current, mem, heap_free_list, size>>
  BY <1>1, <1>2, SearchDoes
<1> QED
  BY <1>3 DEF Asking, Block

-----------------------------------------------------------------------------
(* A block is split, or not                                                *)

\* Every word from c on that a lemma looks at is memory.
Room(c, words) == c .. c + words + 3 \subseteq H!Words

\* The rest of a block that is split becomes the free list.
LEMMA Splits ==
  ASSUME HeapStep, Running, DOMAIN mem = H!Words, heap_used \in Int,
         NEW request \in Nat, NEW c \in Nat, NEW words \in Nat,
         Asking(request, c, words), pc = "take", c > 0, request + 6 <= words, Room(c, words),
         NEW rest, rest = c + 4 + request, NEW left, left = words - request - 4
  PROVE  /\ Idle(rest, left)' /\ Block(c, request, 0, 0)'
         /\ local' = [local EXCEPT !.result = c + 4]
         /\ heap_used' = heap_used + request
         /\ DOMAIN mem' = H!Words
         /\ UNCHANGED <<at, pmm, panic, heap_ready, heap_frame_count>> /\ Running'
<1>1. /\ H!TakeBlock /\ UNCHANGED <<pmm, at>>
      /\ local' = [local EXCEPT !.result = current + 4]
  BY CallStepIs
<1>2. /\ size = request /\ previous = 0 /\ current = c /\ mem[c] = words
      /\ mem[c + 1] = 0 /\ mem[c + 2] = 1 /\ mem[c + 3] = Magic
  BY DEF Asking, Block
<1> DEFINE m1 == [mem EXCEPT ![rest] = left, ![rest + 1] = 0,
                             ![rest + 2] = 1, ![rest + 3] = Magic, ![c] = request]
           m2 == [m1 EXCEPT ![c + 1] = 0, ![c + 2] = 0]
<1>3. words - request >= H!HeaderWords + H!AlignWords
  BY DEF H!HeaderWords, H!AlignWords
<1>4. /\ mem' = m2 /\ heap_free_list' = rest /\ heap_used' = heap_used + mem'[c]
      /\ pc' = "idle" /\ UNCHANGED <<panic, heap_ready, heap_frame_count>>
  BY <1>1, <1>2, <1>3
     DEF H!TakeBlock, H!Size, H!NextOf, H!Linked, H!HeadAfter, H!NULL, H!Return, H!HeaderWords
<1>5. /\ c \in H!Words /\ c + 1 \in H!Words /\ c + 2 \in H!Words /\ c + 3 \in H!Words
      /\ rest \in H!Words /\ rest + 1 \in H!Words /\ rest + 2 \in H!Words /\ rest + 3 \in H!Words
      /\ rest > c + 3 /\ rest \in Nat
  BY DEF Room
<1>6. DOMAIN mem' = H!Words
  BY <1>4
<1>7. /\ m1[rest] = left /\ m1[rest + 1] = 0 /\ m1[rest + 2] = 1
      /\ m1[rest + 3] = Magic /\ m1[c] = request /\ m1[c + 3] = mem[c + 3]
      /\ DOMAIN m1 = H!Words
  BY <1>5
<1>8. /\ mem'[rest] = left /\ mem'[rest + 1] = 0 /\ mem'[rest + 2] = 1
      /\ mem'[rest + 3] = Magic
      /\ mem'[c] = request /\ mem'[c + 1] = 0 /\ mem'[c + 2] = 0 /\ mem'[c + 3] = Magic
  <2> HIDE DEF m1
  <2> QED
    BY <1>2, <1>4, <1>5, <1>7
<1>9. Running'
  BY <1>4 DEF Running
<1> QED
  BY <1>1, <1>2, <1>4, <1>6, <1>8, <1>9 DEF Idle, Block

-----------------------------------------------------------------------------
(* The first call takes a frame                                            *)

\* What depends on the variables of pmm.c alone.
LEMMA QuietFacts ==
  ASSUME UNCHANGED pmm
  PROVE  /\ P!FreeFrames' = P!FreeFrames /\ phase' = phase /\ ownership' = ownership
         /\ pmm_get_free_frame_count' = pmm_get_free_frame_count
BY DEF pmm, P!FreeFrames, pmm_get_free_frame_count

\* What holds at each stage.
LEMMA StageFacts ==
  ASSUME Good, at \in {"first_num", "second_num"} \cup Stages
  PROVE  /\ phase = "ready" /\ heap_ready /\ PmmInv
         /\ DOMAIN mem = H!Words /\ heap_used \in Int /\ local \in Locals
         /\ pmm_get_free_frame_count \in Nat
BY SetsFollow DEF Good, FramesInv, HeapInv, Sets, Walking, Stages, Heapless, Untouched

\* What is left to prove of a step to a stage.
LEMMA StageKeeps ==
  ASSUME Running', PmmInv', phase' = "ready", local' \in Locals, heap_ready',
         DOMAIN mem' = H!Words, heap_used' \in Int,
         \/ at' = "second_num" /\ FirstGrow'
         \/ at' \in Stages /\ \E a : Arena(a)' /\ Stage(a)'
  PROVE  Sound'
<1>1. FramesInv'
  BY DEF FramesInv, Walking, Untouched, Stages
<1>2. HeapInv'
  BY DEF HeapInv, Heapless, Untouched, Walking, Stages
<1>3. at' \in Places
  BY DEF Places
<1> QED
  BY <1>1, <1>2, <1>3 DEF Sound, Good

\* The same, for a step that takes no frame.
LEMMA QuietStage ==
  ASSUME Good, Running, Running', UNCHANGED <<pmm, panic, heap_ready>>,
         at \in {"first_num", "second_num"} \cup Stages, at' \in Stages, local' \in Locals,
         DOMAIN mem' = H!Words, heap_used' \in Int, NEW a, Arena(a), Stage(a)'
  PROVE  Sound'
<1>1. PmmInv' /\ phase' = "ready" /\ heap_ready'
  BY StageFacts, PmmQuiet, QuietFacts
<1>2. Arena(a)'
  BY QuietFacts DEF Arena
<1> QED
  BY <1>1, <1>2, StageKeeps

\* The list is empty.
LEMMA FirstNumKeeps == Good /\ Running /\ at = "first_num" /\ Numbers => Sound'
<1> SUFFICES ASSUME Good, Running, at = "first_num", Numbers PROVE Sound'
  OBVIOUS
<1>1. Kmalloc(8, "second_num", local)
  BY DEF Numbers, At
<1>3. Out(6) /\ heap_free_list = 0
  BY DEF Good, FramesInv, HeapInv
<1>4. /\ at' = "second_num" /\ local' = local /\ UNCHANGED <<pmm, panic>> /\ Running'
      /\ pc' = "search" /\ size' = 2 /\ current' = 0
      /\ UNCHANGED <<mem, heap_ready, heap_used, heap_free_list>>
  <2>1. heap_ready
    BY StageFacts
  <2>2. 8 \in KmainRequests
    BY DEF KmainRequests
  <2>3. /\ at' = "second_num" /\ local' = local /\ UNCHANGED <<pmm, panic>> /\ Running'
        /\ pc' = "search" /\ size' = H!round_up_to_16(8)
        /\ previous' = 0 /\ current' = heap_free_list
        /\ UNCHANGED <<mem, heap_ready, heap_used, heap_frame_count, heap_free_list>>
    BY <1>1, <2>1, <2>2, KmallocDoes, Zenon
  <2> QED
    BY <1>3, <2>3, Rounding
<1>5. FirstGrow'
  BY <1>3, <1>4, QuietFacts DEF FirstGrow, Out
<1>6. PmmInv'
  BY <1>4, StageFacts, PmmQuiet
<1> QED
  BY <1>4, <1>5, <1>6, StageFacts, QuietFacts, StageKeeps

\* kmalloc starts to search a list of one block.
LEMMA KmallocAsks ==
  ASSUME Running, heap_ready, NEW bytes \in KmainRequests, NEW there, NEW locals,
         Kmalloc(bytes, there, locals), NEW c, NEW words, Idle(c, words),
         NEW request, request = H!round_up_to_16(bytes)
  PROVE  /\ Asking(request, c, words)' /\ pc' = "search"
         /\ at' = there /\ local' = locals /\ UNCHANGED <<pmm, panic>> /\ Running'
         /\ UNCHANGED <<mem, heap_ready, heap_used, heap_frame_count, heap_free_list>>
<1>1. /\ at' = there /\ local' = locals /\ UNCHANGED <<pmm, panic>> /\ Running'
      /\ pc' = "search" /\ size' = H!round_up_to_16(bytes)
      /\ previous' = 0 /\ current' = heap_free_list
      /\ UNCHANGED <<mem, heap_ready, heap_used, heap_frame_count, heap_free_list>>
  BY KmallocDoes, Zenon
<1> QED
  BY <1>1 DEF Asking, Idle, Block

\* A new frame is behind every frame that the heap has.
NewFrame(b) ==
  /\ Arena(b)'
  /\ \A a : Arena(a) => a + 512 <= b /\ Arena(a)'
  /\ target' = b /\ pc' = "place" /\ previous' = 0 /\ current' = heap_free_list
  /\ mem'[b] = 508 /\ mem'[b + 2] = 1 /\ mem'[b + 3] = Magic
  /\ \A w \in H!Words : w < b => mem'[w] = mem[w]

\* The heap takes a frame, or the machine has none.
LEMMA Grows ==
  ASSUME Good, HeapStep, pc = "grow", Running, at \in {"second_num"} \cup Stages,
         NEW n \in 0 .. 7, Out(n)
  PROVE  \/ ~Running' /\ Cause'
         \/ /\ Running' /\ PmmInv' /\ phase' = "ready" /\ Out(n + 1)'
            /\ UNCHANGED <<at, local, heap_ready, heap_used, heap_frame_count,
                           heap_free_list, size>>
            /\ pmm_get_free_frame_count' = pmm_get_free_frame_count - 1
            /\ DOMAIN mem' = H!Words
            /\ \E b : NewFrame(b)
<1>1. H!TakeFrame /\ P!pmm_allocate_frame("heap") /\ UNCHANGED <<at, local>>
  BY CallStepIs
<1>2. phase = "ready" /\ PmmInv /\ DOMAIN mem = H!Words
  BY StageFacts
<1>3. CASE ~Running'
  BY <1>1, <1>2, <1>3, TakesFrame
<1>4. CASE Running'
  <2>1. PmmInv' /\ \E f \in Nat : Taken("heap", f) /\ Out(n + 1)'
    BY <1>1, <1>2, <1>4, TakesFrame
  <2>2. PICK f \in Nat : Taken("heap", f) /\ Out(n + 1)'
    BY <2>1
  <2>3. /\ f \in P!FreeFrames /\ \A g \in P!FreeFrames : f <= g
        /\ P!FreeFrames' = P!FreeFrames \ {f}
        /\ pmm_get_free_frame_count' = pmm_get_free_frame_count - 1
        /\ phase' = "ready"
    BY <1>2, <2>2 DEF Taken, Settled
  <2>4. P!FreeFrames \subseteq Nat /\ P!FreeFrames \subseteq Frames
    BY <1>2, SetsFollow DEF Sets
  <2>5. H!Min(P!FreeFrames) = f
    <3>1. \A x \in P!FreeFrames : (\A y \in P!FreeFrames : x <= y) => x = f
      BY <2>3, <2>4
    <3> QED
      BY <2>3, <3>1 DEF H!Min
  <2> DEFINE b == H!FrameStart(f)
  <2>6. /\ mem' = [mem EXCEPT ![b] = FrameWords - H!HeaderWords, ![b + 2] = 1, ![b + 3] = Magic]
        /\ target' = b /\ pc' = "place" /\ previous' = 0 /\ current' = heap_free_list
        /\ UNCHANGED <<heap_ready, heap_used, heap_frame_count, heap_free_list, size>>
    <3>1. P!FreeFrames # {}
      BY <2>3
    <3> QED
      BY <1>1, <2>5, <3>1 DEF H!TakeFrame, H!NULL
  <2>7. Arena(b)'
    <3>1. f \in Frames /\ \A g \in P!FreeFrames' : f < g
      BY <2>3, <2>4
    <3> QED
      BY <3>1 DEF Arena
  <2>8. b \in Nat /\ b .. b + 511 \subseteq H!Words
    <3>2. f \in Frames /\ f \in Nat /\ b = Hhdm + f * 512
      BY <2>3, <2>4, HeapGiven DEF H!FrameStart
    <3>3. H!FrameSpan(f) = b .. b + 511
      BY <3>2, HeapGiven DEF H!FrameSpan
    <3> HIDE DEF b
    <3>4. b .. b + 511 \subseteq H!Words
      BY <3>2, <3>3 DEF H!Words
    <3> QED
      BY <3>2, <3>4, HeapGiven
  <2>9. ASSUME NEW a, Arena(a) PROVE a + 512 <= b /\ Arena(a)'
    <3>1. PICK e \in Frames : a = H!FrameStart(e) /\ \A g \in P!FreeFrames : e < g
      BY <2>9 DEF Arena
    <3>2. e \in Nat /\ e < f /\ a = Hhdm + e * 512 /\ b = Hhdm + f * 512
      BY <2>3, <3>1, HeapGiven DEF H!FrameStart
    <3>3. a + 512 <= b
      BY <3>2, HeapGiven
    <3>4. \A g \in P!FreeFrames' : e < g
      BY <2>3, <3>1
    <3> QED
      BY <3>1, <3>3, <3>4 DEF Arena
  <2>10. /\ DOMAIN mem' = H!Words
         /\ mem'[b] = 508 /\ mem'[b + 2] = 1 /\ mem'[b + 3] = Magic
         /\ \A w \in H!Words : w < b => mem'[w] = mem[w]
    <3>1. b \in H!Words /\ b + 2 \in H!Words /\ b + 3 \in H!Words
      BY <2>8
    <3>2. FrameWords - H!HeaderWords = 508
      BY HeapGiven DEF H!HeaderWords
    <3>3. \A w \in H!Words : w \in Int
      <4>1. \A e \in Frames : \A w \in H!FrameSpan(e) : w \in Int
        BY DEF H!FrameSpan
      <4> QED
        BY <4>1 DEF H!Words
    <3> HIDE DEF b
    <3> QED
      BY <1>2, <2>6, <2>8, <3>1, <3>2, <3>3
  <2>11. NewFrame(b)
    <3> HIDE DEF b
    <3> QED
      BY <2>6, <2>7, <2>9, <2>10 DEF NewFrame
  <2> QED
    BY <1>1, <1>4, <2>1, <2>2, <2>3, <2>6, <2>10, <2>11
<1> QED
  BY <1>3, <1>4

\* The first frame is the whole list.
LEMMA Places0 ==
  ASSUME HeapStep, pc = "place", Running, current = 0, previous = 0, DOMAIN mem = H!Words,
         NEW a, Arena(a), target = a
  PROVE  /\ UNCHANGED <<at, local, pmm, panic, heap_ready, heap_used, size, previous>>
         /\ Running' /\ pc' = "take" /\ current' = a /\ heap_free_list' = a
         /\ mem'[a + 1] = 0 /\ DOMAIN mem' = H!Words
         /\ \A w \in H!Words : w # a + 1 => mem'[w] = mem[w]
<1>1. H!PlaceFrame /\ UNCHANGED <<pmm, at, local>>
  BY CallStepIs
<1>2. /\ mem' = [mem EXCEPT ![a + 1] = 0]
      /\ heap_free_list' = a /\ current' = a /\ pc' = "take"
      /\ UNCHANGED <<heap_ready, heap_used, previous, size, panic>>
  BY <1>1 DEF H!PlaceFrame, H!NULL, H!Linked, H!HeadAfter
<1>3. a + 1 \in H!Words
  BY ArenaIs
<1> QED
  BY <1>1, <1>2, <1>3 DEF Running

\* The first frame is linked and split.
LEMMA SecondNumKeeps == Good /\ Running /\ at = "second_num" /\ (HeapStep \/ Numbers) => Sound'
<1> SUFFICES ASSUME Good, Running, at = "second_num", HeapStep \/ Numbers PROVE Sound'
  OBVIOUS
<1>0. /\ phase = "ready" /\ heap_ready /\ PmmInv /\ DOMAIN mem = H!Words
      /\ heap_used \in Int /\ local \in Locals /\ FirstGrow
  BY StageFacts DEF Good, HeapInv
<1>1. Numbers => pc = "idle" /\ Kmalloc(8, "third_num", [local EXCEPT !.numbers = <<local.result>>])
  BY Zenon DEF Numbers, At
<1>2. HeapStep => pc # "idle"
  BY CallStepIs
<1>3. CASE /\ Out(6) /\ pc \in {"search", "grow"} /\ size = 2 /\ current = 0
           /\ heap_free_list = 0
  <2>1. HeapStep
    BY <1>1, <1>3
  <2>2. CASE pc = "search"
    <3>1. /\ UNCHANGED <<at, local, pmm, panic, mem, heap_ready, heap_used, heap_free_list,
                         size, current>>
          /\ Running' /\ pc' = "grow"
      BY <1>3, <2>1, <2>2, SearchDoes
    <3>2. FirstGrow'
      BY <1>3, <3>1, QuietFacts DEF FirstGrow, Out
    <3>3. PmmInv' /\ phase' = "ready"
      BY <1>0, <3>1, PmmQuiet, QuietFacts
    <3> QED
      BY <1>0, <3>1, <3>2, <3>3, StageKeeps
  <2>3. CASE pc = "grow"
    <3>1. CASE ~Running' /\ Cause'
      BY <3>1 DEF Sound
    <3>2. CASE /\ Running' /\ PmmInv' /\ phase' = "ready" /\ Out(6 + 1)'
               /\ UNCHANGED <<at, local, heap_ready, heap_used, heap_frame_count,
                              heap_free_list, size>>
               /\ DOMAIN mem' = H!Words
               /\ \E b : NewFrame(b)
      <4>1. PICK b : NewFrame(b)
        BY <3>2
      <4>2. Out(7)'
        BY <3>2, 6 + 1 = 7
      <4>3. FirstGrow'
        BY <1>3, <3>2, <4>1, <4>2 DEF FirstGrow, NewFrame
      <4> QED
        BY <1>0, <3>2, <4>3, StageKeeps
    <3> QED
      BY <1>3, <2>1, <2>3, <3>1, <3>2, Grows, 6 \in 0 .. 7
  <2> QED
    BY <1>3, <2>2, <2>3
<1>4. ASSUME Out(7), NEW a, Arena(a), pc = "place", size = 2, target = a,
             previous = 0, current = 0, heap_free_list = 0,
             mem[a] = 508, mem[a + 2] = 1, mem[a + 3] = Magic
      PROVE  Sound'
  <2>1. HeapStep
    BY <1>1, <1>4
  <2>2. /\ UNCHANGED <<at, local, pmm, panic, heap_ready, heap_used, size, previous>>
        /\ Running' /\ pc' = "take" /\ current' = a /\ heap_free_list' = a
        /\ mem'[a + 1] = 0 /\ DOMAIN mem' = H!Words
        /\ \A w \in H!Words : w # a + 1 => mem'[w] = mem[w]
    <3>1. a \in Nat
      BY <1>4, ArenaIs
    <3> QED
      <4>1. DOMAIN mem = H!Words
        BY <1>0
      <4> QED
        BY <1>4, <2>1, <3>1, <4>1, Places0
  <2>3. Asking(2, a, 508)'
    <3>1. a \in Nat /\ a \in H!Words /\ a + 2 \in H!Words /\ a + 3 \in H!Words
      BY <1>4, ArenaIs
    <3>2. mem'[a] = 508 /\ mem'[a + 2] = 1 /\ mem'[a + 3] = Magic
      BY <1>4, <2>2, <3>1
    <3> QED
      BY <1>4, <2>2, <3>2 DEF Asking, Block
  <2>4. Arena(a)' /\ Out(7)'
    BY <1>4, <2>2, QuietFacts DEF Arena, Out
  <2>5. FirstGrow'
    BY <2>2, <2>3, <2>4 DEF FirstGrow
  <2>6. PmmInv' /\ phase' = "ready"
    BY <1>0, <2>2, PmmQuiet, QuietFacts
  <2> QED
    BY <1>0, <2>2, <2>5, <2>6, StageKeeps
<1>5. ASSUME Out(7), NEW a, Arena(a), Asking(2, a, 508), pc = "take" PROVE Sound'
  <2>1. HeapStep
    BY <1>1, <1>5
  <2>2. a \in Nat /\ a > 0 /\ Room(a, 508)
    BY <1>5, ArenaIs DEF Room
  <2>3. /\ Idle(a + 6, 502)'
        /\ local' = [local EXCEPT !.result = a + 4] /\ heap_used' = heap_used + 2
        /\ DOMAIN mem' = H!Words
        /\ UNCHANGED <<at, pmm, panic, heap_ready, heap_frame_count>> /\ Running'
    <3>1. PICK request, words, rest, left :
            request = 2 /\ words = 508 /\ rest = a + 6 /\ left = 502
      OBVIOUS
    <3>2. /\ request \in Nat /\ words \in Nat /\ request + 6 <= words /\ Room(a, words)
          /\ rest = a + 4 + request /\ left = words - request - 4
          /\ Asking(request, a, words)
      BY <1>5, <2>2, <3>1
    <3>3. /\ Idle(rest, left)'
          /\ local' = [local EXCEPT !.result = a + 4] /\ heap_used' = heap_used + request
          /\ DOMAIN mem' = H!Words
          /\ UNCHANGED <<at, pmm, panic, heap_ready, heap_frame_count>> /\ Running'
      <4>1. DOMAIN mem = H!Words /\ heap_used \in Int
        BY <1>0
      <4> QED
        BY <1>5, <2>1, <2>2, <3>2, <4>1, Splits
    <3> QED
      BY <3>1, <3>3 DEF Idle, Block
  <2>5. local'.result = a + 4 /\ local' \in Locals
    <3>1. a + 4 \in Int
      BY <2>2
    <3>2. local' \in Locals
      BY <1>0, <2>3, <3>1, LocalsType, Zenon
    <3> QED
      BY <1>0, <2>3, <3>2 DEF Locals
  <2>6. Arena(a)' /\ Out(7)'
    BY <1>5, <2>3, QuietFacts DEF Arena, Out
  <2>7. FirstGrow'
    BY <2>3, <2>5, <2>6 DEF FirstGrow
  <2>8. PmmInv' /\ phase' = "ready"
    BY <1>0, <2>3, PmmQuiet, QuietFacts
  <2> QED
    BY <1>0, <2>3, <2>5, <2>7, <2>8, StageKeeps
<1>6. ASSUME Out(7), NEW a, Arena(a), Idle(a + 6, 502), local.result = a + 4
      PROVE  Sound'
  <2> DEFINE locals == [local EXCEPT !.numbers = <<local.result>>]
  <2>1. Kmalloc(8, "third_num", locals)
    BY <1>1, <1>2, <1>6 DEF Idle
  <2>2. 8 \in KmainRequests
    BY DEF KmainRequests
  <2>3. /\ Asking(2, a + 6, 502)' /\ pc' = "search"
        /\ at' = "third_num" /\ local' = locals /\ UNCHANGED <<pmm, panic>> /\ Running'
        /\ UNCHANGED <<mem, heap_ready, heap_used, heap_frame_count, heap_free_list>>
    <3>1. PICK request, c, words : request = 2 /\ c = a + 6 /\ words = 502
      OBVIOUS
    <3>2. Idle(c, words) /\ request = H!round_up_to_16(8) /\ heap_ready
      BY <1>0, <1>6, <3>1, Rounding
    <3> HIDE DEF locals
    <3>3. /\ Asking(request, c, words)' /\ pc' = "search"
          /\ at' = "third_num" /\ local' = locals /\ UNCHANGED <<pmm, panic>> /\ Running'
          /\ UNCHANGED <<mem, heap_ready, heap_used, heap_frame_count, heap_free_list>>
      BY <2>1, <2>2, <3>2, KmallocAsks, Zenon
    <3> QED
      BY <3>1, <3>3 DEF Asking, Block
  <2>4. local'.numbers = <<a + 4>> /\ local' \in Locals
    <3>1. a + 4 \in Int
      BY <1>6, ArenaIs
    <3>2. local' = [local EXCEPT !.numbers = <<a + 4>>]
      BY <1>6, <2>3
    <3>3. <<a + 4>> \in Seq(Int)
      BY <3>1
    <3> QED
      BY <1>0, <3>2, <3>3 DEF Locals
  <2>5. Stage(a)'
    BY <1>6, <2>3, <2>4, QuietFacts, Rounding DEF Stage, Out
  <2> QED
    BY <1>0, <1>6, <2>3, <2>4, <2>5, QuietStage DEF Stages
<1> QED
  BY <1>0, <1>3, <1>4, <1>5, <1>6 DEF FirstGrow

\* kmalloc finds the block that fits, splits it and returns its first part.
LEMMA Served ==
  ASSUME Good, Running, HeapStep, at \in Stages, NEW a, Arena(a),
         NEW c \in Nat, NEW words \in Nat, NEW request \in Nat, Asking(request, c, words),
         a <= c, c + words + 3 <= a + 511, request + 6 <= words,
         NEW rest, rest = c + 4 + request, NEW left, left = words - request - 4
  PROVE  /\ UNCHANGED <<at, pmm, panic, heap_ready, heap_frame_count>> /\ Running'
         /\ DOMAIN mem' = H!Words /\ heap_used' \in Int /\ local' \in Locals
         /\ \/ Asking(request, c, words)' /\ UNCHANGED <<local, heap_used>>
            \/ /\ Idle(rest, left)' /\ Block(c, request, 0, 0)'
               /\ local' = [local EXCEPT !.result = c + 4]
               /\ heap_used' = heap_used + request
<1>1. DOMAIN mem = H!Words /\ heap_used \in Int /\ local \in Locals
  BY StageFacts
<1>2. a \in Nat /\ a > 0 /\ a .. a + 511 \subseteq H!Words
  BY ArenaIs
<1>3. c > 0 /\ Room(c, words)
  BY <1>2 DEF Room
<1>4. CASE pc = "search"
  <2>1. Asking(request, c, words)'
    BY <1>3, <1>4, Found
  <2>2. /\ UNCHANGED <<at, local, pmm, panic, mem, heap_ready, heap_used, heap_frame_count>>
        /\ Running'
    BY <1>4, SearchDoes
  <2> QED
    BY <1>1, <2>1, <2>2
<1>5. CASE pc = "take"
  <2>1. /\ Idle(rest, left)' /\ Block(c, request, 0, 0)'
        /\ local' = [local EXCEPT !.result = c + 4]
        /\ heap_used' = heap_used + request
        /\ DOMAIN mem' = H!Words
        /\ UNCHANGED <<at, pmm, panic, heap_ready, heap_frame_count>> /\ Running'
    BY <1>1, <1>3, <1>5, Splits
  <2>2. local' \in Locals
    <3>1. c + 4 \in Int
      OBVIOUS
    <3> QED
      BY <1>1, <2>1, <3>1, LocalsType, Zenon
  <2> QED
    BY <1>1, <2>1, <2>2
<1> QED
  BY <1>4, <1>5 DEF Asking

\* The list of the addresses that kmain keeps.
LEMMA PairIs ==
  ASSUME NEW x \in Int, NEW y \in Int
  PROVE  <<x>> \o <<y>> = <<x, y>>
<1> DEFINE s == <<x>> \o <<y>>
           t == <<x, y>>
<1>1. s \in Seq(Int) /\ t \in Seq(Int) /\ Len(s) = 2 /\ Len(t) = 2
  OBVIOUS
<1>2. s[1] = x /\ s[2] = y /\ t[1] = x /\ t[2] = y
  OBVIOUS
<1>3. \A i \in 1 .. 2 : s[i] = t[i]
  BY <1>2
<1> HIDE DEF s, t
<1>4. s = t
  BY <1>1, <1>3, SeqEqual
<1> QED
  BY <1>4 DEF s, t

\* kmain goes on between calls only, and a call only within one.
LEMMA NotBusy ==
  /\ Numbers => pc = "idle" /\ at \in {"first_num", "second_num", "third_num"}
  /\ HeapStep => pc # "idle"
<1>1. Numbers => pc = "idle" /\ at \in {"first_num", "second_num", "third_num"}
  BY Zenon DEF Numbers, At
<1> QED
  BY <1>1, CallStepIs

\* The second number takes the next block of the frame.
LEMMA ThirdNumKeeps == Good /\ Running /\ at = "third_num" /\ (HeapStep \/ Numbers) => Sound'
<1> SUFFICES ASSUME Good, Running, at = "third_num", HeapStep \/ Numbers PROVE Sound'
  OBVIOUS
<1>1. PICK a : Arena(a) /\ Stage(a)
  BY DEF Good, HeapInv, Stages
<1>2. /\ Out(7) /\ local.numbers = <<a + 4>>
      /\ \/ Asking(2, a + 6, 502)
         \/ Idle(a + 12, 496) /\ local.result = a + 10
  BY <1>1 DEF Stage
<1>3. a \in Nat /\ local \in Locals
  BY <1>1, ArenaIs, StageFacts DEF Stages
<1>4. CASE Asking(2, a + 6, 502)
  <2>1. PICK request, c, words, rest, left :
          request = 2 /\ c = a + 6 /\ words = 502 /\ rest = a + 12 /\ left = 496
    OBVIOUS
  <2>2. HeapStep
    BY <1>4, NotBusy DEF Asking
  <2>3. /\ c \in Nat /\ words \in Nat /\ request \in Nat /\ Asking(request, c, words)
        /\ a <= c /\ c + words + 3 <= a + 511 /\ request + 6 <= words
        /\ rest = c + 4 + request /\ left = words - request - 4
    BY <1>3, <1>4, <2>1
  <2>4. /\ UNCHANGED <<at, pmm, panic, heap_ready, heap_frame_count>> /\ Running'
        /\ DOMAIN mem' = H!Words /\ heap_used' \in Int /\ local' \in Locals
        /\ \/ Asking(request, c, words)' /\ UNCHANGED <<local, heap_used>>
           \/ /\ Idle(rest, left)' /\ Block(c, request, 0, 0)'
              /\ local' = [local EXCEPT !.result = c + 4]
              /\ heap_used' = heap_used + request
    BY <1>1, <2>2, <2>3, Served DEF Stages
  <2>5. Stage(a)'
    <3>1. CASE Asking(request, c, words)' /\ UNCHANGED <<local, heap_used>>
      BY <1>2, <2>1, <2>4, <3>1, QuietFacts DEF Stage, Out, Asking, Block
    <3>2. CASE Idle(rest, left)' /\ local' = [local EXCEPT !.result = c + 4]
      <4>1. local'.result = a + 10 /\ local'.numbers = local.numbers
        BY <1>3, <2>1, <3>2 DEF Locals
      <4> QED
        BY <1>2, <2>1, <2>4, <3>2, <4>1, QuietFacts DEF Stage, Out, Idle, Block
    <3> QED
      BY <2>4, <3>1, <3>2
  <2> QED
    BY <1>1, <2>4, <2>5, QuietStage DEF Stages
<1>5. CASE Idle(a + 12, 496) /\ local.result = a + 10
  <2> DEFINE locals == [local EXCEPT !.numbers = @ \o <<local.result>>]
  <2>1. Numbers
    BY <1>5, NotBusy DEF Idle
  <2>2. Kmalloc(8, "write_numbers", locals)
    BY <2>1 DEF Numbers, At
  <2>3. PICK request, c, words : request = 2 /\ c = a + 12 /\ words = 496
    OBVIOUS
  <2>4. Idle(c, words) /\ request = H!round_up_to_16(8)
    BY <1>5, <2>3, Rounding
  <2>5. heap_ready /\ 8 \in KmainRequests
    BY StageFacts DEF KmainRequests, Stages
  <2>6. /\ Asking(request, c, words)' /\ pc' = "search"
        /\ at' = "write_numbers" /\ local' = locals /\ UNCHANGED <<pmm, panic>> /\ Running'
        /\ UNCHANGED <<mem, heap_ready, heap_used, heap_frame_count, heap_free_list>>
    <3> HIDE DEF locals
    <3> QED
      BY <2>2, <2>4, <2>5, KmallocAsks, Zenon
  <2>7. local'.numbers = <<a + 4, a + 10>> /\ local' \in Locals
    <3>1. local' = [local EXCEPT !.numbers = <<a + 4>> \o <<a + 10>>]
      BY <1>2, <1>3, <1>5, <2>6 DEF Locals
    <3>2. <<a + 4>> \o <<a + 10>> = <<a + 4, a + 10>>
      BY <1>3, PairIs
    <3>3. <<a + 4, a + 10>> \in Seq(Int)
      BY <1>3
    <3> QED
      BY <1>3, <3>1, <3>2, <3>3 DEF Locals
  <2>8. Stage(a)'
    BY <1>2, <2>3, <2>6, <2>7, QuietFacts DEF Stage, Out, Asking, Block
  <2>9. DOMAIN mem' = H!Words /\ heap_used' \in Int
    BY <2>6, StageFacts DEF Stages
  <2> QED
    BY <1>1, <2>6, <2>7, <2>8, <2>9, QuietStage DEF Stages
<1> QED
  BY <1>2, <1>4, <1>5

\* So does the third; the writes spare the headers.
LEMMA WriteNumbersKeeps ==
  Good /\ Running /\ at = "write_numbers" /\ (HeapStep \/ WriteNumbers) => Sound'
<1> SUFFICES ASSUME Good, Running, at = "write_numbers", HeapStep \/ WriteNumbers PROVE Sound'
  OBVIOUS
<1>1. PICK a : Arena(a) /\ Stage(a)
  BY DEF Good, HeapInv, Stages
<1>2. /\ Out(7) /\ local.numbers = <<a + 4, a + 10>>
      /\ \/ Asking(2, a + 12, 496)
         \/ Idle(a + 18, 490) /\ local.result = a + 16
  BY <1>1 DEF Stage
<1>3. /\ a \in Nat /\ local \in Locals /\ DOMAIN mem = H!Words /\ heap_used \in Int
      /\ a .. a + 511 \subseteq H!Words
  BY <1>1, ArenaIs, StageFacts DEF Stages
<1>4. WriteNumbers => pc = "idle"
  BY Zenon DEF WriteNumbers, Write, At
<1>5. CASE Asking(2, a + 12, 496)
  <2>1. PICK request, c, words, rest, left :
          request = 2 /\ c = a + 12 /\ words = 496 /\ rest = a + 18 /\ left = 490
    OBVIOUS
  <2>2. HeapStep
    BY <1>4, <1>5 DEF Asking
  <2>3. /\ c \in Nat /\ words \in Nat /\ request \in Nat /\ Asking(request, c, words)
        /\ a <= c /\ c + words + 3 <= a + 511 /\ request + 6 <= words
        /\ rest = c + 4 + request /\ left = words - request - 4
    BY <1>3, <1>5, <2>1
  <2>4. /\ UNCHANGED <<at, pmm, panic, heap_ready, heap_frame_count>> /\ Running'
        /\ DOMAIN mem' = H!Words /\ heap_used' \in Int /\ local' \in Locals
        /\ \/ Asking(request, c, words)' /\ UNCHANGED <<local, heap_used>>
           \/ /\ Idle(rest, left)' /\ Block(c, request, 0, 0)'
              /\ local' = [local EXCEPT !.result = c + 4]
              /\ heap_used' = heap_used + request
    BY <1>1, <2>2, <2>3, Served DEF Stages
  <2>5. Stage(a)'
    <3>1. CASE Asking(request, c, words)' /\ UNCHANGED <<local, heap_used>>
      BY <1>2, <2>1, <2>4, <3>1, QuietFacts DEF Stage, Out, Asking, Block
    <3>2. CASE Idle(rest, left)' /\ local' = [local EXCEPT !.result = c + 4]
      <4>1. local'.result = a + 16 /\ local'.numbers = local.numbers
        BY <1>3, <2>1, <3>2 DEF Locals
      <4> QED
        BY <1>2, <2>1, <2>4, <3>2, <4>1, QuietFacts DEF Stage, Out, Idle, Block
    <3> QED
      BY <2>4, <3>1, <3>2
  <2> QED
    BY <1>1, <2>4, <2>5, QuietStage DEF Stages
<1>6. CASE Idle(a + 18, 490) /\ local.result = a + 16
  <2>1. WriteNumbers
    BY <1>6, NotBusy DEF Idle
  <2> DEFINE contents == [w \in {local.numbers[1], local.numbers[2], local.result} |->
                            IF w = local.numbers[1] THEN 31
                            ELSE IF w = local.numbers[2] THEN 52 ELSE 69]
  <2>2. /\ at' = "second_frame" /\ UNCHANGED <<local, panic, pmm, calls>>
        /\ mem' = [w \in DOMAIN mem |->
                     IF w \in DOMAIN contents THEN contents[w] ELSE mem[w]]
    BY <2>1 DEF WriteNumbers, Write, Goto
  <2>3. DOMAIN contents = {a + 4, a + 10, a + 16}
    BY <1>2, <1>6
  <2> HIDE DEF contents
  <2>4. \A w \in a + 18 .. a + 21 : mem'[w] = mem[w]
    BY <1>3, <2>2, <2>3
  <2>5. Idle(a + 18, 490)'
    BY <1>3, <1>6, <2>2, <2>4 DEF Idle, Block, calls
  <2>6. Stage(a)' /\ Running'
    BY <1>2, <2>2, <2>5, QuietFacts DEF Stage, Out, Running
  <2>7. DOMAIN mem' = H!Words /\ heap_used' \in Int /\ heap_ready' = heap_ready
    BY <1>3, <2>2 DEF calls
  <2> QED
    BY <1>1, <1>3, <2>2, <2>6, <2>7, QuietStage DEF Stages
<1> QED
  BY <1>2, <1>5, <1>6

\* 4,048 bytes are asked for.
LEMMA SecondFrameKeeps ==
  Good /\ Running /\ at = "second_frame" /\ (HeapStep \/ SecondFrame) => Sound'
<1> SUFFICES ASSUME Good, Running, at = "second_frame", HeapStep \/ SecondFrame PROVE Sound'
  OBVIOUS
<1> DEFINE locals == [local EXCEPT !.free_before = pmm_get_free_frame_count]
<1>1. PICK a : Arena(a) /\ Stage(a)
  BY DEF Good, HeapInv, Stages
<1>2. Out(7) /\ Idle(a + 18, 490)
  BY <1>1 DEF Stage
<1>3. /\ a \in Nat /\ local \in Locals /\ DOMAIN mem = H!Words /\ heap_used \in Int
      /\ pmm_get_free_frame_count \in Nat
  BY <1>1, ArenaIs, StageFacts DEF Stages
<1>4. Kmalloc(4048, "write_byte", locals)
  BY <1>2, NotBusy DEF Idle, SecondFrame
<1>5. PICK bytes, request, c, words :
        bytes = 4048 /\ request = 506 /\ c = a + 18 /\ words = 490
  OBVIOUS
<1>6. Idle(c, words) /\ request = H!round_up_to_16(bytes)
  BY <1>2, <1>5, Rounding
<1>7. heap_ready /\ bytes \in KmainRequests /\ Kmalloc(bytes, "write_byte", locals)
  BY <1>4, <1>5, StageFacts DEF KmainRequests, Stages
<1>8. /\ Asking(request, c, words)' /\ pc' = "search"
      /\ at' = "write_byte" /\ local' = locals /\ UNCHANGED <<pmm, panic>> /\ Running'
      /\ UNCHANGED <<mem, heap_ready, heap_used, heap_frame_count, heap_free_list>>
  <2> HIDE DEF locals
  <2> QED
    BY <1>6, <1>7, KmallocAsks, Zenon
<1>9. local' \in Locals /\ local'.free_before = pmm_get_free_frame_count
  <2>1. pmm_get_free_frame_count \in Int
    BY <1>3
  <2>2. local' \in Locals
    BY <1>3, <1>8, <2>1, LocalsType, Zenon
  <2> QED
    BY <1>3, <1>8, <2>2 DEF Locals
<1>10. SecondGrow(a)'
  BY <1>2, <1>5, <1>8, <1>9, QuietFacts DEF SecondGrow, Asking, Out, Block
<1>11. Stage(a)'
  BY <1>8, <1>10 DEF Stage
<1>12. DOMAIN mem' = H!Words /\ heap_used' \in Int
  BY <1>3, <1>8
<1> QED
  BY <1>1, <1>8, <1>9, <1>11, <1>12, QuietStage DEF Stages

\* The search for 4,048 bytes ends without a block; so the heap takes a frame.
LEMMA NoneFits ==
  ASSUME Good, Running, HeapStep, at = "write_byte", NEW a, Arena(a), heap_free_list = a + 18,
         Out(7), local.free_before = pmm_get_free_frame_count,
         size = 506, Block(a + 18, 490, 0, 1),
         \/ pc = "search" /\ current = a + 18
         \/ pc \in {"search", "grow"} /\ current = 0
  PROVE  Sound'
<1>3. /\ a \in Nat /\ local \in Locals /\ DOMAIN mem = H!Words /\ heap_used \in Int
      /\ a .. a + 511 \subseteq H!Words
  BY ArenaIs, StageFacts DEF Stages
<1>4. CASE pc = "search"
  <2>1. /\ UNCHANGED <<at, local, pmm, panic, mem, heap_ready, heap_used, heap_frame_count,
                       heap_free_list, size>>
        /\ Running' /\ pc' \in {"search", "grow"} /\ current' = 0
    BY <1>3, <1>4, SearchDoes DEF Block
  <2>2. SecondGrow(a)'
    BY <2>1, QuietFacts DEF SecondGrow, Out, Block
  <2>3. Stage(a)'
    BY <2>1, <2>2 DEF Stage
  <2> QED
    BY <1>3, <2>1, <2>3, QuietStage DEF Stages
<1>5. CASE pc = "grow"
  <2>1. CASE ~Running' /\ Cause'
    BY <2>1 DEF Sound
  <2>2. CASE /\ Running' /\ PmmInv' /\ phase' = "ready"
             /\ UNCHANGED <<at, local, heap_ready, heap_used, heap_frame_count,
                            heap_free_list, size>>
             /\ pmm_get_free_frame_count' = pmm_get_free_frame_count - 1
             /\ DOMAIN mem' = H!Words
             /\ \E b : NewFrame(b)
    <3>1. PICK b : NewFrame(b)
      BY <2>2
    <3>2. /\ Arena(b)' /\ a + 512 <= b /\ Arena(a)' /\ target' = b /\ pc' = "place"
          /\ current' = heap_free_list /\ mem'[b] = 508 /\ mem'[b + 2] = 1 /\ mem'[b + 3] = Magic
          /\ \A w \in H!Words : w < b => mem'[w] = mem[w]
      BY <3>1 DEF NewFrame
    <3>3. b \in Nat
      <4>1. PICK f \in Frames : b = H!FrameStart(f)
        BY <3>2 DEF Arena
      <4> QED
        BY <4>1, HeapGiven DEF H!FrameStart
    <3>4. Block(a + 18, 490, 0, 1)'
      BY <1>3, <3>2, <3>3 DEF Block
    <3>5. local'.free_before = pmm_get_free_frame_count' + 1
      <4>1. pmm_get_free_frame_count \in Nat
        BY StageFacts DEF Stages
      <4> QED
        BY <2>2, <4>1
    <3>6. SecondGrow(a)'
      BY <2>2, <3>2, <3>4, <3>5 DEF SecondGrow
    <3>7. Stage(a)'
      BY <2>2, <3>6 DEF Stage
    <3>8. heap_ready' /\ heap_used' \in Int /\ local' \in Locals /\ at' \in Stages
      BY <1>3, <2>2, StageFacts DEF Stages
    <3> QED
      BY <2>2, <3>2, <3>7, <3>8, StageKeeps
  <2> QED
    BY <1>5, <2>1, <2>2, Grows, 7 \in 0 .. 7 DEF Stages
<1> QED
  BY <1>4, <1>5

\* It is linked behind the rest of the first frame, and taken whole.
LEMMA WriteByteKeeps ==
  Good /\ Running /\ at = "write_byte" /\ (HeapStep \/ WriteByte) => Sound'
<1> SUFFICES ASSUME Good, Running, at = "write_byte", HeapStep \/ WriteByte PROVE Sound'
  OBVIOUS
<1>1. PICK a : Arena(a) /\ Stage(a)
  BY DEF Good, HeapInv, Stages
<1>2. SecondGrow(a)
  BY <1>1 DEF Stage
<1>3. /\ a \in Nat /\ local \in Locals /\ DOMAIN mem = H!Words /\ heap_used \in Int
      /\ a .. a + 511 \subseteq H!Words /\ phase = "ready" /\ PmmInv
  BY <1>1, ArenaIs, StageFacts DEF Stages
<1>4. WriteByte => pc = "idle"
  BY Zenon DEF WriteByte, Write, At
<1>5. CASE /\ Out(7) /\ local.free_before = pmm_get_free_frame_count
           /\ size = 506 /\ Block(a + 18, 490, 0, 1)
           /\ \/ pc = "search" /\ current = a + 18
              \/ pc \in {"search", "grow"} /\ current = 0
  <2>1. HeapStep
    BY <1>4, <1>5
  <2>2. heap_free_list = a + 18
    BY <1>2 DEF SecondGrow
  <2> QED
    BY <1>1, <1>5, <2>1, <2>2, NoneFits
<1>6. ASSUME local.free_before = pmm_get_free_frame_count + 1,
             NEW b, Arena(b), a + 512 <= b, pc = "place", size = 506, target = b,
             \/ current = a + 18
             \/ current = 0 /\ previous = a + 18,
             Block(a + 18, 490, 0, 1),
             mem[b] = 508, mem[b + 2] = 1, mem[b + 3] = Magic
      PROVE  Sound'
  <2>1. H!PlaceFrame /\ UNCHANGED <<pmm, at, local>>
    BY <1>4, <1>6, CallStepIs
  <2>2. b \in Nat /\ b .. b + 511 \subseteq H!Words
    BY <1>6, ArenaIs
  <2>3. /\ UNCHANGED <<panic, heap_ready, heap_used, size, target>> /\ Running'
    BY <2>1 DEF H!PlaceFrame, H!state, Running
  <2>4. Arena(b)' /\ local'.free_before = pmm_get_free_frame_count' + 1
    BY <1>6, <2>1, QuietFacts DEF Arena
  <2>5. heap_free_list = a + 18
    BY <1>2 DEF SecondGrow
  <2>6. CASE current = a + 18
    <3>1. /\ UNCHANGED <<mem, pc, heap_free_list>>
          /\ previous' = a + 18 /\ current' = 0
      <4>1. current # 0 /\ current < target /\ mem[current + 1] = 0
        BY <1>3, <1>6, <2>2, <2>6 DEF Block
      <4> QED
        BY <2>1, <2>6, <4>1 DEF H!PlaceFrame, H!state, H!NULL, H!NextOf
    <3>2. SecondGrow(a)'
      BY <1>6, <2>3, <2>4, <2>5, <3>1 DEF SecondGrow, Block
    <3>3. Stage(a)'
      BY <2>1, <3>2 DEF Stage
    <3> QED
      BY <1>1, <1>3, <2>1, <2>3, <3>1, <3>3, QuietStage DEF Stages
  <2>7. CASE current = 0 /\ previous = a + 18
    <3>1. /\ mem' = [[mem EXCEPT ![b + 1] = 0] EXCEPT ![a + 18 + 1] = b]
          /\ UNCHANGED <<previous, heap_free_list>> /\ current' = b /\ pc' = "take"
      <4>1. previous # 0 /\ current = 0 /\ target = b
        BY <1>3, <1>6, <2>7
      <4>2. /\ mem' = [[mem EXCEPT ![target + 1] = current] EXCEPT ![previous + 1] = target]
            /\ UNCHANGED <<previous, heap_free_list>> /\ current' = target /\ pc' = "take"
        BY <2>1, <4>1 DEF H!PlaceFrame, H!NULL, H!Linked, H!HeadAfter
      <4> QED
        BY <2>7, <4>1, <4>2
    <3>2. /\ DOMAIN mem' = H!Words /\ mem'[b + 1] = 0 /\ mem'[a + 18 + 1] = b
          /\ mem'[a + 18] = mem[a + 18] /\ mem'[a + 18 + 2] = mem[a + 18 + 2]
          /\ mem'[a + 18 + 3] = mem[a + 18 + 3]
          /\ mem'[b] = 508 /\ mem'[b + 2] = 1 /\ mem'[b + 3] = Magic
      <4>1. /\ b \in H!Words /\ b + 1 \in H!Words /\ b + 2 \in H!Words /\ b + 3 \in H!Words
            /\ a + 18 \in H!Words /\ a + 18 + 1 \in H!Words /\ a + 18 + 2 \in H!Words
            /\ a + 18 + 3 \in H!Words
        BY <1>3, <2>2
      <4> QED
        BY <1>3, <1>6, <2>2, <3>1, <4>1
    <3>3. Block(a + 18, 490, b, 1)' /\ Block(b, 508, 0, 1)'
      BY <1>6, <3>2 DEF Block
    <3>4. SecondGrow(a)'
      BY <1>6, <2>3, <2>4, <2>5, <2>7, <3>1, <3>3 DEF SecondGrow
    <3>5. Stage(a)'
      BY <2>1, <3>4 DEF Stage
    <3> QED
      BY <1>1, <1>3, <2>1, <2>3, <3>2, <3>5, QuietStage DEF Stages
  <2> QED
    BY <1>6, <2>6, <2>7
<1>7. ASSUME local.free_before = pmm_get_free_frame_count + 1,
             NEW b, Arena(b), a + 512 <= b, pc = "take", size = 506,
             previous = a + 18, current = b,
             Block(a + 18, 490, b, 1), Block(b, 508, 0, 1)
      PROVE  Sound'
  <2>1. /\ H!TakeBlock /\ UNCHANGED <<pmm, at>>
        /\ local' = [local EXCEPT !.result = b + 4]
    BY <1>4, <1>7, CallStepIs
  <2>2. b \in Nat /\ b .. b + 511 \subseteq H!Words
    BY <1>7, ArenaIs
  <2>3. heap_free_list = a + 18
    BY <1>2 DEF SecondGrow
  <2>4. mem[b] = 508 /\ mem[b + 1] = 0 /\ ~(508 - 506 >= 4 + 2)
    BY <1>7 DEF Block
  <2>5. /\ mem' = [[mem EXCEPT ![a + 18 + 1] = 0] EXCEPT ![b + 1] = 0, ![b + 2] = 0]
        /\ UNCHANGED <<heap_ready, panic, heap_free_list>> /\ Running'
        /\ pc' = "idle" /\ heap_used' = heap_used + mem'[b]
    <3>1. /\ previous # 0 /\ previous = a + 18 /\ current = b /\ mem[current + 1] = 0
          /\ ~(mem[current] - size >= 4 + 2)
      BY <1>3, <1>7, <2>4
    <3>2. /\ mem' = [[mem EXCEPT ![previous + 1] = mem[current + 1]]
                       EXCEPT ![current + 1] = 0, ![current + 2] = 0]
          /\ UNCHANGED <<heap_ready, panic, heap_free_list>> /\ Running'
          /\ pc' = "idle" /\ heap_used' = heap_used + mem'[current]
      BY <2>1, <3>1 DEF H!TakeBlock, H!Size, H!NextOf, H!Linked, H!HeadAfter, H!NULL,
           H!HeaderWords, H!AlignWords, H!Return, Running
    <3> QED
      BY <3>1, <3>2
  <2>6. /\ DOMAIN mem' = H!Words /\ mem'[b] = 508 /\ mem'[a + 18 + 1] = 0
        /\ mem'[a + 18] = mem[a + 18] /\ mem'[a + 18 + 2] = mem[a + 18 + 2]
        /\ mem'[a + 18 + 3] = mem[a + 18 + 3]
    <3>1. /\ b \in H!Words /\ b + 1 \in H!Words /\ b + 2 \in H!Words
          /\ a + 18 \in H!Words /\ a + 18 + 1 \in H!Words /\ a + 18 + 2 \in H!Words
          /\ a + 18 + 3 \in H!Words
      BY <1>3, <2>2
    <3> QED
      BY <1>3, <1>7, <2>2, <2>4, <2>5, <3>1
  <2>7. heap_used' \in Int /\ Block(a + 18, 490, 0, 1)'
    BY <1>3, <1>7, <2>5, <2>6 DEF Block
  <2>8. local' \in Locals
    <3>1. b + 4 \in Int
      BY <2>2
    <3> QED
      BY <1>3, <2>1, <3>1, LocalsType, Zenon
  <2>9. local'.result = b + 4 /\ local'.free_before = local.free_before
    BY <1>3, <2>1 DEF Locals
  <2>10. Arena(b)' /\ local'.free_before = pmm_get_free_frame_count' + 1
    BY <1>7, <2>1, <2>9, QuietFacts DEF Arena
  <2>11. SecondGrow(a)'
    BY <1>7, <2>3, <2>5, <2>7, <2>9, <2>10 DEF SecondGrow
  <2>12. Stage(a)'
    BY <2>1, <2>11 DEF Stage
  <2> QED
    BY <1>1, <2>1, <2>5, <2>6, <2>7, <2>8, <2>12, QuietStage DEF Stages
<1>8. ASSUME local.free_before = pmm_get_free_frame_count + 1,
             NEW b, Arena(b), a + 512 <= b, pc = "idle", Block(a + 18, 490, 0, 1),
             local.result = b + 4
      PROVE  Sound'
  <2>1. WriteByte
    BY <1>8, NotBusy
  <2> DEFINE contents == [w \in {local.result} |-> 178]
  <2>2. /\ at' = "check_frame" /\ UNCHANGED <<local, panic, pmm, calls>>
        /\ mem' = [w \in DOMAIN mem |->
                     IF w \in DOMAIN contents THEN contents[w] ELSE mem[w]]
    BY <2>1 DEF WriteByte, Write, Goto
  <2>3. b \in Nat /\ b + 4 \in H!Words
    BY <1>8, ArenaIs
  <2>4. DOMAIN contents = {b + 4} /\ contents[b + 4] = 178
    BY <1>8
  <2> HIDE DEF contents
  <2>5. mem'[b + 4] = 178 /\ \A w \in a + 18 .. a + 21 : mem'[w] = mem[w]
    BY <1>3, <1>8, <2>2, <2>3, <2>4
  <2>6. heap_free_list = a + 18
    BY <1>2 DEF SecondGrow
  <2>7. Idle(a + 18, 490)'
    BY <1>3, <1>8, <2>2, <2>5, <2>6 DEF Idle, Block, calls
  <2>8. Stage(a)' /\ Running'
    BY <1>8, <2>2, <2>5, <2>7, QuietFacts DEF Stage, Running
  <2>9. DOMAIN mem' = H!Words /\ heap_used' \in Int /\ heap_ready' = heap_ready
    BY <1>3, <2>2 DEF calls
  <2> QED
    BY <1>1, <1>3, <2>2, <2>8, <2>9, QuietStage DEF Stages
<1> QED
  BY <1>2, <1>5, <1>6, <1>7, <1>8 DEF SecondGrow

\* How many frames the heap has is a number.
Counted == heap_frame_count \in Int

\* One frame is out for it, and the byte is there; 13 bytes are asked for.
LEMMA CheckFrameKeeps ==
  Good /\ Running /\ at = "check_frame" /\ (HeapStep \/ CheckFrame) => Sound'
<1> SUFFICES ASSUME Good, Running, at = "check_frame", HeapStep \/ CheckFrame PROVE Sound'
  OBVIOUS
<1> DEFINE locals == [local EXCEPT !.used_before = heap_used]
<1>1. PICK a : Arena(a) /\ Stage(a)
  BY DEF Good, HeapInv, Stages
<1>2. /\ Idle(a + 18, 490) /\ mem[local.result] = 178
      /\ local.free_before = pmm_get_free_frame_count + 1
  BY <1>1 DEF Stage
<1>3. /\ a \in Nat /\ local \in Locals /\ DOMAIN mem = H!Words /\ heap_used \in Int
      /\ pmm_get_free_frame_count \in Nat
  BY <1>1, ArenaIs, StageFacts DEF Stages
<1>4. Kmalloc(13, "alignment", locals)
  <2>1. CheckFrame
    BY <1>2, NotBusy DEF Idle
  <2>2. pmm_get_free_frame_count = local.free_before - 1
    BY <1>2, <1>3
  <2>3. mem[local.result] = 178
    BY <1>2
  <2> QED
    BY <2>1, <2>2, <2>3, Zenon DEF CheckFrame, Checked
<1>5. PICK bytes, request, c, words :
        bytes = 13 /\ request = 2 /\ c = a + 18 /\ words = 490
  OBVIOUS
<1>6. Idle(c, words) /\ request = H!round_up_to_16(bytes)
  BY <1>2, <1>5, Rounding
<1>7. heap_ready /\ bytes \in KmainRequests /\ Kmalloc(bytes, "alignment", locals)
  BY <1>4, <1>5, StageFacts DEF KmainRequests, Stages
<1>8. /\ Asking(request, c, words)' /\ pc' = "search"
      /\ at' = "alignment" /\ local' = locals /\ UNCHANGED <<pmm, panic>> /\ Running'
      /\ UNCHANGED <<mem, heap_ready, heap_used, heap_frame_count, heap_free_list>>
  <2> HIDE DEF locals
  <2> QED
    BY <1>6, <1>7, KmallocAsks, Zenon
<1>9. local' \in Locals
  BY <1>3, <1>8, LocalsType, Zenon
<1>10. local'.used_before = heap_used'
  BY <1>3, <1>8 DEF Locals
<1>11. Stage(a)'
  BY <1>5, <1>8, <1>10 DEF Stage, Asking, Block
<1>12. DOMAIN mem' = H!Words /\ heap_used' \in Int
  BY <1>3, <1>8
<1> QED
  BY <1>1, <1>8, <1>9, <1>11, <1>12, QuietStage DEF Stages

\* The block is freed: kfree finds nothing wrong with it.
LEMMA AlignmentKeeps ==
  Good /\ Counted /\ Running /\ at = "alignment" /\ (HeapStep \/ CheckAlignment) => Sound'
<1> SUFFICES ASSUME Good, Counted, Running, at = "alignment", HeapStep \/ CheckAlignment PROVE Sound'
  OBVIOUS
<1>1. PICK a : Arena(a) /\ Stage(a)
  BY DEF Good, HeapInv, Stages
<1>2. \/ Asking(2, a + 18, 490) /\ local.used_before = heap_used
      \/ /\ Idle(a + 24, 484) /\ Block(a + 18, 2, 0, 0)
         /\ local.result = a + 22 /\ heap_used = local.used_before + 2
  BY <1>1 DEF Stage
<1>3. /\ a \in Nat /\ a % 2 = 0 /\ local \in Locals /\ DOMAIN mem = H!Words /\ heap_used \in Int
      /\ a .. a + 511 \subseteq H!Words
  BY <1>1, ArenaIs, StageFacts DEF Stages
<1>4. CheckAlignment => pc = "idle"
  BY Zenon DEF CheckAlignment, At
<1>5. CASE Asking(2, a + 18, 490) /\ local.used_before = heap_used
  <2>1. PICK request, c, words, rest, left :
          request = 2 /\ c = a + 18 /\ words = 490 /\ rest = a + 24 /\ left = 484
    OBVIOUS
  <2>2. HeapStep
    BY <1>4, <1>5 DEF Asking
  <2>3. /\ c \in Nat /\ words \in Nat /\ request \in Nat /\ Asking(request, c, words)
        /\ a <= c /\ c + words + 3 <= a + 511 /\ request + 6 <= words
        /\ rest = c + 4 + request /\ left = words - request - 4
    BY <1>3, <1>5, <2>1
  <2>4. /\ UNCHANGED <<at, pmm, panic, heap_ready, heap_frame_count>> /\ Running'
        /\ DOMAIN mem' = H!Words /\ heap_used' \in Int /\ local' \in Locals
        /\ \/ Asking(request, c, words)' /\ UNCHANGED <<local, heap_used>>
           \/ /\ Idle(rest, left)' /\ Block(c, request, 0, 0)'
              /\ local' = [local EXCEPT !.result = c + 4]
              /\ heap_used' = heap_used + request
    BY <1>1, <2>2, <2>3, Served DEF Stages
  <2>5. Stage(a)'
    <3>1. CASE Asking(request, c, words)' /\ UNCHANGED <<local, heap_used>>
      BY <1>5, <2>1, <2>4, <3>1 DEF Stage, Asking, Block
    <3>2. CASE /\ Idle(rest, left)' /\ Block(c, request, 0, 0)'
               /\ local' = [local EXCEPT !.result = c + 4]
               /\ heap_used' = heap_used + request
      <4>1. local'.result = a + 22 /\ local'.used_before = local.used_before
        BY <1>3, <2>1, <3>2 DEF Locals
      <4> QED
        BY <1>5, <2>1, <2>4, <3>2, <4>1 DEF Stage, Idle, Block
    <3> QED
      BY <2>4, <3>1, <3>2
  <2> QED
    BY <1>1, <2>4, <2>5, QuietStage DEF Stages
<1>6. CASE /\ Idle(a + 24, 484) /\ Block(a + 18, 2, 0, 0)
           /\ local.result = a + 22 /\ heap_used = local.used_before + 2
  <2> DEFINE locals == [local EXCEPT !.alignment_test = local.result,
                                     !.used_before = heap_used,
                                     !.frames_before = heap_frame_count]
  <2>1. /\ UNCHANGED <<tables, lint0, pmm>> /\ H!kfree(local.result - H!HeaderWords)
        /\ Goto("check_free") /\ local' = locals
    <3>1. CheckAlignment
      BY <1>6, NotBusy DEF Idle
    <3>2. local.result % 2 = 0
      BY <1>3, <1>6
    <3>3. heap_used = local.used_before + 2
      BY <1>6
    <3> QED
      BY <3>1, <3>2, <3>3, Zenon DEF CheckAlignment, Checked
  <2>2. PICK block \in Nat : block = a + 18 /\ block = local.result - H!HeaderWords
    BY <1>3, <1>6 DEF H!HeaderWords
  <2>3. H!kfree(block)
    BY <2>1, <2>2
  <2>4. H!KfreeError(block) = panic
    <3>1. heap_ready /\ H!MagicOf(block) = Magic /\ ~H!IsFree(block)
      BY <1>6, <2>2, StageFacts DEF Block, H!MagicOf, H!IsFree, Stages
    <3> QED
      BY <3>1, Zenon DEF H!KfreeError, Running
  <2>5. /\ mem' = [mem EXCEPT ![block + 2] = 1] /\ target' = block /\ previous' = 0
        /\ current' = heap_free_list /\ pc' = "insert"
        /\ UNCHANGED <<heap_ready, heap_used, heap_frame_count, heap_free_list, panic>>
    BY <2>3, <2>4, Zenon DEF H!kfree, H!NULL, Running
  <2>6. /\ DOMAIN mem' = H!Words /\ heap_used' \in Int /\ Running' /\ at' = "check_free"
        /\ UNCHANGED <<pmm, panic, heap_ready>>
    BY <1>3, <2>1, <2>5 DEF Running, Goto
  <2>7. Block(a + 18, 2, 0, 1)' /\ Block(a + 24, 484, 0, 1)'
    <3>1. /\ a + 18 \in H!Words /\ a + 19 \in H!Words /\ a + 20 \in H!Words /\ a + 21 \in H!Words
          /\ a + 24 \in H!Words /\ a + 25 \in H!Words /\ a + 26 \in H!Words /\ a + 27 \in H!Words
      BY <1>3
    <3> QED
      BY <1>3, <1>6, <2>2, <2>5, <3>1 DEF Block, Idle
  <2>8. local' \in Locals
    <3>1. a + 22 \in Int /\ heap_frame_count \in Int
      BY <1>3 DEF Counted
    <3> QED
      BY <1>3, <1>6, <2>1, <3>1 DEF Locals
  <2>9. /\ local'.alignment_test = a + 22 /\ local'.used_before = heap_used'
        /\ local'.frames_before = heap_frame_count'
    BY <1>3, <1>6, <2>1, <2>5 DEF Locals
  <2>10. Stage(a)'
    BY <1>6, <2>2, <2>5, <2>6, <2>7, <2>9 DEF Stage, Idle
  <2> QED
    BY <1>1, <2>6, <2>8, <2>10, QuietStage DEF Stages
<1> QED
  BY <1>2, <1>5, <1>6

\* The freed block is joined with the rest behind it, which is as it was before.
LEMMA CheckFreeKeeps ==
  Good /\ Running /\ at = "check_free" /\ (HeapStep \/ CheckFree) => Sound'
<1> SUFFICES ASSUME Good, Running, at = "check_free", HeapStep \/ CheckFree PROVE Sound'
  OBVIOUS
<1>1. PICK a : Arena(a) /\ Stage(a)
  BY DEF Good, HeapInv, Stages
<1>2. /\ local.alignment_test = a + 22 /\ local.frames_before = heap_frame_count
      /\ \/ /\ pc = "insert" /\ target = a + 18 /\ previous = 0 /\ current = a + 24
            /\ heap_free_list = a + 24
            /\ Block(a + 18, 2, 0, 1) /\ Block(a + 24, 484, 0, 1)
            /\ local.used_before = heap_used
         \/ Idle(a + 18, 490) /\ heap_used = local.used_before - 2
  BY <1>1 DEF Stage
<1>3. /\ a \in Nat /\ local \in Locals /\ DOMAIN mem = H!Words /\ heap_used \in Int
      /\ a .. a + 511 \subseteq H!Words
  BY <1>1, ArenaIs, StageFacts DEF Stages
<1>4. CheckFree => pc = "idle"
  BY Zenon DEF CheckFree, At
<1>5. CASE /\ pc = "insert" /\ target = a + 18 /\ previous = 0 /\ current = a + 24
           /\ heap_free_list = a + 24
           /\ Block(a + 18, 2, 0, 1) /\ Block(a + 24, 484, 0, 1)
           /\ local.used_before = heap_used
  <2>1. H!InsertBlock /\ UNCHANGED <<pmm, at, local>>
    BY <1>4, <1>5, CallStepIs
  <2> DEFINE linked == [mem EXCEPT ![a + 18 + 1] = a + 24]
             joined == [linked EXCEPT ![a + 18] = @ + 4 + linked[a + 24],
                                      ![a + 18 + 1] = linked[a + 24 + 1]]
  <2>2. /\ a + 18 \in H!Words /\ a + 18 + 1 \in H!Words /\ a + 18 + 2 \in H!Words
        /\ a + 18 + 3 \in H!Words /\ a + 24 \in H!Words /\ a + 24 + 1 \in H!Words
    BY <1>3
  <2>3. /\ DOMAIN linked = H!Words /\ linked[a + 18] = 2 /\ linked[a + 24] = 484
        /\ linked[a + 24 + 1] = 0 /\ linked[a + 18 + 2] = 1 /\ linked[a + 18 + 3] = Magic
    BY <1>3, <1>5, <2>2 DEF Block
  <2>4. ~(current < target) /\ a + 18 # 0 /\ a + 24 # 0
    BY <1>3, <1>5
  <2>5. H!Linked([mem EXCEPT ![target + 1] = current], previous, target) = linked
    BY <1>5 DEF H!Linked, H!NULL
  <2>6. H!Merged(linked, target, current) = joined
    <3> HIDE DEF linked
    <3> QED
      BY <1>3, <1>5, <2>3, <2>4 DEF H!Merged, H!NULL, H!HeaderWords
  <2>7. H!Merged(joined, previous, target) = joined
    BY <1>5 DEF H!Merged, H!NULL
  <2>8. /\ mem' = joined /\ heap_free_list' = a + 18 /\ heap_used' = heap_used - mem[target]
        /\ pc' = "idle" /\ UNCHANGED <<panic, heap_ready, heap_frame_count>>
    <3> HIDE DEF linked, joined
    <3>1. H!HeadAfter(previous, target) = a + 18
      BY <1>5 DEF H!HeadAfter, H!NULL
    <3> QED
      BY <2>1, <2>4, <2>5, <2>6, <2>7, <3>1 DEF H!InsertBlock, H!Size, H!Return
  <2>9. /\ DOMAIN mem' = H!Words /\ mem'[a + 18] = 490 /\ mem'[a + 18 + 1] = 0
        /\ mem'[a + 18 + 2] = 1 /\ mem'[a + 18 + 3] = Magic
    <3> HIDE DEF linked
    <3> QED
      BY <1>3, <2>2, <2>3, <2>8
  <2>10. Idle(a + 18, 490)' /\ heap_used' = heap_used - 2 /\ heap_used' \in Int /\ Running'
    <3>1. mem[target] = 2
      BY <1>5 DEF Block
    <3>2. heap_used' = heap_used - 2 /\ heap_used' \in Int
      BY <1>3, <2>8, <3>1
    <3> HIDE DEF joined
    <3> QED
      BY <2>8, <2>9, <3>2 DEF Idle, Block, Running
  <2>11. Stage(a)'
    BY <1>2, <1>5, <2>1, <2>8, <2>10 DEF Stage
  <2> QED
    BY <1>1, <1>3, <2>1, <2>8, <2>9, <2>10, <2>11, QuietStage DEF Stages
<1>6. CASE Idle(a + 18, 490) /\ heap_used = local.used_before - 2
  <2>1. PICK bytes, request, c, words :
          bytes = 3900 /\ request = 488 /\ c = a + 18 /\ words = 490
    OBVIOUS
  <2>2. Kmalloc(bytes, "check_merge", local)
    <3> DEFINE fault == CASE heap_used # local.used_before - 2 ->
                               "KBM_HEAP_FREE_ACCOUNTING_TEST_FAILED"
                          [] heap_used = local.used_before - 2
                               /\ heap_frame_count # local.frames_before ->
                               "KBM_HEAP_FREE_FRAME_COUNT_TEST_FAILED"
                          [] OTHER -> ""
               number == 3900
    <3>1. CheckFree
      BY <1>6, NotBusy DEF Idle
    <3>2. IF fault # "" THEN Fail(fault) ELSE Kmalloc(number, "check_merge", local)
      BY <3>1 DEF CheckFree, Checked
    <3>3. fault = panic
      BY <1>2, <1>6, Zenon DEF Running
    <3>4. bytes = number
      BY <2>1
    <3> HIDE DEF fault, number
    <3> QED
      BY <3>2, <3>3, <3>4, Zenon DEF Running
  <2>3. Idle(c, words) /\ request = H!round_up_to_16(bytes)
    BY <1>6, <2>1, Rounding
  <2>4. heap_ready /\ bytes \in KmainRequests
    BY <2>1, StageFacts DEF KmainRequests, Stages
  <2>5. /\ Asking(request, c, words)' /\ pc' = "search"
        /\ at' = "check_merge" /\ local' = local /\ UNCHANGED <<pmm, panic>> /\ Running'
        /\ UNCHANGED <<mem, heap_ready, heap_used, heap_frame_count, heap_free_list>>
    BY <2>2, <2>3, <2>4, KmallocAsks, Zenon
  <2>6. Stage(a)'
    BY <1>2, <2>1, <2>5 DEF Stage, Asking, Block
  <2>7. DOMAIN mem' = H!Words /\ heap_used' \in Int
    BY <1>3, <2>5
  <2> QED
    BY <1>1, <1>3, <2>5, <2>6, <2>7, QuietStage DEF Stages
<1> QED
  BY <1>2, <1>5, <1>6

\* The end of the self-tests.
LEMMA TestedKeeps ==
  ASSUME Good, Running, at \in Stages \cup {"framebuffer"}, at' \in {"framebuffer", "ui"},
         pc = "idle", UNCHANGED <<local, panic, pmm, heap>>
  PROVE  Sound'
<1>1. /\ phase = "ready" /\ heap_ready /\ DOMAIN mem = H!Words /\ heap_used \in Int
      /\ local \in Locals
  BY DEF Good, FramesInv, HeapInv, Walking, Stages, Heapless, Untouched
<1>2. PmmInv'
  BY PmmQuiet DEF Good
<1>3. /\ phase' = "ready" /\ heap_ready' /\ DOMAIN mem' = H!Words /\ heap_used' \in Int
      /\ local' \in Locals /\ pc' = "idle"
  BY <1>1 DEF pmm, heap, calls
<1>4. Running'
  BY DEF Running
<1>5. FramesInv'
  BY <1>3 DEF FramesInv, Walking, Untouched
<1>6. HeapInv'
  BY <1>3 DEF HeapInv, Walking, Untouched, Heapless, Stages
<1> QED
  BY <1>2, <1>3, <1>4, <1>5, <1>6 DEF Sound, Good, Places

\* The joined block is served at the same address, from the same frame.
LEMMA CheckMergeKeeps ==
  Good /\ Running /\ at = "check_merge" /\ (HeapStep \/ CheckMerge) => Sound'
<1> SUFFICES ASSUME Good, Running, at = "check_merge", HeapStep \/ CheckMerge PROVE Sound'
  OBVIOUS
<1>1. PICK a : Arena(a) /\ Stage(a)
  BY DEF Good, HeapInv, Stages
<1>2. /\ local.alignment_test = a + 22 /\ local.frames_before = heap_frame_count
      /\ \/ Asking(488, a + 18, 490)
         \/ pc = "idle" /\ local.result = a + 22
  BY <1>1 DEF Stage
<1>3. /\ a \in Nat /\ local \in Locals /\ DOMAIN mem = H!Words /\ heap_used \in Int
      /\ a .. a + 511 \subseteq H!Words
  BY <1>1, ArenaIs, StageFacts DEF Stages
<1>4. CheckMerge => pc = "idle"
  BY Zenon DEF CheckMerge, At
<1>5. CASE Asking(488, a + 18, 490)
  <2>1. PICK request \in Nat, c \in Nat, words \in Nat : request = 488 /\ c = a + 18 /\ words = 490
    BY <1>3
  <2>2. HeapStep /\ Asking(request, c, words) /\ c > 0 /\ request <= words
    BY <1>3, <1>4, <1>5, <2>1 DEF Asking
  <2>3. CASE pc = "search"
    <3>1. /\ UNCHANGED <<at, local, pmm, panic, mem, heap_ready, heap_used, heap_frame_count>>
          /\ Running'
      BY <2>2, <2>3, SearchDoes
    <3>2. Asking(request, c, words)'
      BY <2>2, <2>3, Found
    <3>3. Stage(a)'
      BY <1>2, <2>1, <3>1, <3>2 DEF Stage, Asking, Block
    <3> QED
      BY <1>1, <1>3, <3>1, <3>3, QuietStage DEF Stages
  <2>4. CASE pc = "take"
    <3>1. /\ H!TakeBlock /\ UNCHANGED <<pmm, at>>
          /\ local' = [local EXCEPT !.result = current + 4]
      BY <2>2, <2>4, CallStepIs
    <3>2. /\ current = c /\ previous = 0 /\ mem[current] = 490
          /\ ~(mem[current] - size >= 4 + 2)
      BY <2>1, <2>2 DEF Asking, Block
    <3>3. /\ mem' = [mem EXCEPT ![current + 1] = 0, ![current + 2] = 0]
          /\ heap_used' = heap_used + mem'[current]
          /\ pc' = "idle" /\ UNCHANGED <<panic, heap_ready, heap_frame_count>> /\ Running'
      BY <3>1, <3>2 DEF H!TakeBlock, H!Size, H!NextOf, H!Linked, H!HeadAfter, H!NULL,
           H!HeaderWords, H!AlignWords, H!Return, Running
    <3>4. DOMAIN mem' = H!Words /\ heap_used' \in Int
      <4>1. c \in H!Words
        BY <1>3, <2>1
      <4>2. mem'[c] = 490
        BY <1>3, <3>2, <3>3, <4>1
      <4> QED
        BY <1>3, <3>2, <3>3, <4>2
    <3>5. local' \in Locals
      <4>1. c + 4 \in Int /\ local' = [local EXCEPT !.result = c + 4]
        BY <3>1, <3>2
      <4> QED
        BY <1>3, <4>1, LocalsType, Zenon
    <3>6. /\ local'.result = a + 22 /\ local'.alignment_test = local.alignment_test
          /\ local'.frames_before = local.frames_before
      BY <1>3, <2>1, <3>1, <3>2 DEF Locals
    <3>7. Stage(a)'
      BY <1>2, <3>1, <3>3, <3>6 DEF Stage
    <3> QED
      BY <1>1, <3>1, <3>3, <3>4, <3>5, <3>7, QuietStage DEF Stages
  <2> QED
    BY <2>2, <2>3, <2>4 DEF Asking
<1>6. CASE pc = "idle" /\ local.result = a + 22
  <2>1. CheckMerge
    BY <1>6, NotBusy
  <2>2. local.result = local.alignment_test /\ heap_frame_count = local.frames_before
    BY <1>2, <1>6
  <2>3. Goto("framebuffer") /\ UNCHANGED <<tables, lint0, local, panic, pmm, heap>>
    BY <2>1, <2>2, Zenon DEF CheckMerge, Checked
  <2> QED
    BY <1>6, <2>3, TestedKeeps DEF Stages, Goto
<1> QED
  BY <1>2, <1>5, <1>6

-----------------------------------------------------------------------------
(* The boot loader's answers, and the other steps                          *)

\* LoaderHalts has the causes of these messages.
LEMMA LoadersCause == panic \in LoaderPanics => Sound
BY DEF Sound, Running, Cause, LoaderPanics

\* The last check that can halt the kernel.
LEMMA FramebufferKeeps == Good /\ Running /\ boot_get_framebuffer => Sound'
<1> SUFFICES ASSUME Good, Running, boot_get_framebuffer PROVE Sound'
  OBVIOUS
<1>1. at = "framebuffer" /\ pc = "idle"
  BY Zenon DEF boot_get_framebuffer, At
<1>2. \/ panic' \in LoaderPanics
      \/ at' = "ui" /\ UNCHANGED <<local, panic, pmm, heap>>
  BY DEF boot_get_framebuffer, Checked, Fail, Goto, LoaderPanics
<1>3. (panic \in LoaderPanics => Sound)'
  BY LoadersCause, PTL
<1> QED
  BY <1>1, <1>2, <1>3, TestedKeeps

WalkingSteps ==
  \/ CheckResponses \/ TranslateRequest \/ DebugWalk
  \/ lapic_enable_legacy_pic \/ LinkDirectory \/ LinkTable \/ LinkPage
  \/ OpenLint0 \/ WaitForTicks

\* Before pmm_init, only a message of the loader can halt it.
LEMMA WalkingStepsKeep == Good /\ Running /\ WalkingSteps => Sound'
<1> SUFFICES ASSUME Good, Running, WalkingSteps PROVE Sound'
  OBVIOUS
<1>1. at \in Walking
  <2>1. at \in {"responses", "translate", "debug_walk", "lapic", "link_directory",
                "link_table", "link_page", "lint0", "wait"}
    BY Zenon DEF WalkingSteps, CheckResponses, TranslateRequest, DebugWalk,
      lapic_enable_legacy_pic, LinkDirectory, LinkTable, LinkPage, OpenLint0,
      WaitForTicks, Store, At
  <2> QED
    BY <2>1 DEF Walking
<1> DEFINE Onward == at' \in Walking \cup {"pmm_init"} /\ UNCHANGED <<local, pmm, heap, panic>>
<1>2. panic' \in LoaderPanics \/ Onward
  <2>1. CASE CheckResponses
    BY <2>1 DEF CheckResponses, Checked, Fail, Goto, Walking, LoaderPanics
  <2>2. CASE TranslateRequest
    BY <2>2 DEF TranslateRequest, Checked, Fail, Goto, Walking, LoaderPanics
  <2>3. CASE DebugWalk \/ LinkDirectory \/ LinkTable \/ LinkPage \/ WaitForTicks
    BY <2>3 DEF DebugWalk, LinkDirectory, LinkTable, LinkPage, WaitForTicks, Store, Goto, Walking
  <2>4. CASE lapic_enable_legacy_pic
    <3>1. LapicError = "" \/ LapicError \in LoaderPanics
      BY DEF LapicError, LoaderPanics
    <3> QED
      BY <2>4, <3>1 DEF lapic_enable_legacy_pic, Checked, Fail, Goto, Walking
  <2>5. CASE OpenLint0
    BY <2>5 DEF OpenLint0, Checked, Fail, Goto, Walking, LoaderPanics
  <2> QED
    BY <2>1, <2>2, <2>3, <2>4, <2>5 DEF WalkingSteps
<1>3. (panic \in LoaderPanics => Sound)'
  BY LoadersCause, PTL
<1>4. CASE Onward
  <2>1. Running'
    BY <1>4 DEF Running
  <2> QED
    BY <1>1, <1>4, <2>1, WalkingKeeps DEF Sound
<1> QED
  BY <1>2, <1>3, <1>4

\* Only heap_init and a new frame set it.
LEMMA CountedKeeps == Counted /\ [Next]_vars => Counted'
<1> SUFFICES ASSUME Counted, [Next]_vars PROVE Counted'
  OBVIOUS
<1>1. CASE UNCHANGED vars \/ Ended
  BY <1>1 DEF Ended, vars, heap, calls, Counted
<1>2. CASE WalkingSteps \/ boot_get_framebuffer \/ CheckCounts \/ CheckReuse \/ CheckMerge
  BY <1>2 DEF WalkingSteps, CheckResponses, TranslateRequest, DebugWalk,
      lapic_enable_legacy_pic, LinkDirectory, LinkTable, LinkPage, OpenLint0,
      WaitForTicks, Store, boot_get_framebuffer, CheckCounts, CheckReuse, CheckMerge,
      Checked, Fail, heap, calls, Counted
<1>3. CASE pmm_init \/ TestAllocate \/ TestFree \/ KeepFrames \/ FreeAgain \/ TestReuse
  BY <1>3 DEF pmm_init, TestAllocate, TestFree, KeepFrames, FreeAgain, TestReuse,
      Allocate, Free, heap, calls, Counted
<1>4. CASE WriteFrame \/ WriteNumbers \/ WriteByte
  BY <1>4 DEF WriteFrame, WriteNumbers, WriteByte, Write, calls, Counted
<1>5. CASE heap_init
  <2>1. heap_frame_count' = 0
    BY <1>5 DEF heap_init, H!heap_init
  <2> QED
    BY <2>1 DEF Counted
<1>6. CASE HeapStep
  <2>1. heap_frame_count' \in {heap_frame_count, heap_frame_count + 1}
    <3>1. H!PlaceFrame => heap_frame_count' \in {heap_frame_count, heap_frame_count + 1}
      BY DEF H!PlaceFrame, H!state
    <3>2. H!SearchBlock \/ H!TakeBlock \/ H!InsertBlock => heap_frame_count' = heap_frame_count
      BY DEF H!SearchBlock, H!TakeBlock, H!InsertBlock, H!state
    <3>3. H!TakeFrame => heap_frame_count' = heap_frame_count
      BY DEF H!TakeFrame, H!Panic, H!state
    <3> QED
      BY <1>6, <3>1, <3>2, <3>3, CallStepIs
  <2> QED
    BY <2>1 DEF Counted
<1>7. ASSUME NEW bytes, NEW there, NEW locals, Kmalloc(bytes, there, locals) PROVE Counted'
  BY <1>7 DEF Kmalloc, H!kmalloc, H!Panic, H!state, Counted
<1>8. CASE Numbers \/ SecondFrame
  BY <1>7, <1>8 DEF Numbers, SecondFrame
<1>9. ASSUME NEW error, Fail(error) PROVE Counted'
  BY <1>9 DEF Fail, heap, calls, Counted
<1>10. CASE CheckFrame
  <2> DEFINE fault == CASE pmm_get_free_frame_count # local.free_before - 1 ->
                             "KBM_HEAP_NEW_FRAME_TEST_FAILED"
                        [] pmm_get_free_frame_count = local.free_before - 1
                             /\ mem[local.result] # 178 ->
                             "KBM_HEAP_SECOND_FRAME_TEST_FAILED"
                        [] OTHER -> ""
             locals == [local EXCEPT !.used_before = heap_used]
  <2>1. IF fault # "" THEN Fail(fault) ELSE Kmalloc(13, "alignment", locals)
    BY <1>10 DEF CheckFrame, Checked
  <2> HIDE DEF fault, locals
  <2> QED
    BY <1>7, <1>9, <2>1
<1>11. CASE CheckFree
  <2> DEFINE fault == CASE heap_used # local.used_before - 2 ->
                             "KBM_HEAP_FREE_ACCOUNTING_TEST_FAILED"
                        [] heap_used = local.used_before - 2
                             /\ heap_frame_count # local.frames_before ->
                             "KBM_HEAP_FREE_FRAME_COUNT_TEST_FAILED"
                        [] OTHER -> ""
             request == 3900
  <2>1. IF fault # "" THEN Fail(fault) ELSE Kmalloc(request, "check_merge", local)
    BY <1>11 DEF CheckFree, Checked
  <2> HIDE DEF fault, request
  <2> QED
    BY <1>7, <1>9, <2>1
<1>12. CASE CheckAlignment
  <2>1. H!kfree(local.result - H!HeaderWords) => Counted'
    BY DEF H!kfree, H!Panic, H!state, Counted
  <2> QED
    BY <1>9, <1>12, <2>1 DEF CheckAlignment, Checked
<1> QED
  BY <1>1, <1>2, <1>3, <1>4, <1>5, <1>6, <1>8, <1>10, <1>11, <1>12
     DEF Next, Step, WalkingSteps

-----------------------------------------------------------------------------
(* All of kmain                                                            *)

\* At boot.
LEMMA SoundInit == Init => Sound /\ Counted
<1> SUFFICES ASSUME Init PROVE Sound /\ Counted
  OBVIOUS
<1>1. at = "responses" /\ pc = "idle" /\ heap_ready = FALSE /\ heap_used = 0 /\ heap_frame_count = 0
      /\ phase = "off" /\ ownership = {} /\ local.frames = 0
  BY DEF Init, P!Init, H!Init
<1>2. Running
  BY Zenon DEF Init, P!Init, Running
<1>3. PmmInv
  <2>1. PP!Init
    BY SameSteps DEF Init
  <2>2. PP!IInv
    BY <2>1, PmmGiven, PP!InitIInv
  <2>3. entry = 1 /\ phase = "off" /\ scan = PP!NoScan
    BY <2>1 DEF PP!Init
  <2>4. PP!BiggestInv /\ PP!RefusalInv
    BY <2>3 DEF PP!NoScan, PP!BiggestInv, PP!RefusalInv
  <2> QED
    BY <2>2, <2>4 DEF PmmInv
<1>4. local \in Locals
  <2>1. <<>> \in Seq(Int)
    OBVIOUS
  <2> QED
    BY <2>1 DEF Init, Locals
<1>5. FramesInv
  BY <1>1 DEF FramesInv, Walking, Untouched
<1>6. HeapInv
  <2>1. DOMAIN mem = H!Words
    BY DEF Init, H!Init
  <2> QED
    BY <1>1, <2>1 DEF HeapInv, Heapless, Untouched, Walking, Stages
<1>7. at \in Places
  BY <1>1 DEF Places, Heapless, Untouched, Walking
<1> QED
  BY <1>1, <1>2, <1>3, <1>4, <1>5, <1>6, <1>7 DEF Sound, Good, Counted

\* A kernel that has halted, or is done.
LEMMA StutterKeeps == Sound /\ UNCHANGED vars => Sound'
<1> SUFFICES ASSUME Sound, UNCHANGED vars PROVE Sound'
  OBVIOUS
<1>1. UNCHANGED <<at, local, pmm, heap, panic>> /\ (Running' <=> Running)
  BY DEF vars, kmain, Running
<1>2. CASE ~Running
  <2>1. Settled
    BY <1>1 DEF pmm, Settled
  <2>2. Cause'
    <3>1. Cause
      BY <1>2 DEF Sound
    <3>2. MemoryScarce' = MemoryScarce /\ RoomScarce' = RoomScarce
      BY <2>1, SettledKeeps
    <3>3. panic' = panic
      BY <1>1
    <3> QED
      BY <3>1, <3>2, <3>3, Zenon DEF Cause
  <2> QED
    BY <1>1, <1>2, <2>2 DEF Sound
<1>3. CASE Running
  <2>1. PmmInv'
    BY <1>1, <1>3, PmmQuiet DEF Sound, Good
  <2>2. FramesInv'
    BY <1>1, <1>3, QuietFacts DEF Sound, Good, FramesInv, Out, Kept, pmm
  <2>3. ASSUME NEW a PROVE (Arena(a) => Arena(a)') /\ (Stage(a) => Stage(a)')
    BY <1>1, QuietFacts DEF Arena, Stage, SecondGrow, Asking, Idle, Block, Out, heap, calls
  <2>4. FirstGrow => FirstGrow'
    BY <1>1, <2>3, QuietFacts DEF FirstGrow, Asking, Idle, Block, Out, heap, calls
  <2>5. HeapInv'
    BY <1>1, <1>3, <2>3, <2>4 DEF Sound, Good, HeapInv, heap, calls
  <2> QED
    BY <1>1, <1>3, <2>1, <2>2, <2>5 DEF Sound, Good
<1> QED
  BY <1>2, <1>3

\* Where kmain is, after the heap has been asked for the first time.
LEMMA HeapTestIsAt ==
  /\ WriteNumbers => Running /\ at = "write_numbers"
  /\ SecondFrame => Running /\ at = "second_frame"
  /\ WriteByte => Running /\ at = "write_byte"
  /\ CheckFrame => Running /\ at = "check_frame"
  /\ CheckAlignment => Running /\ at = "alignment"
  /\ CheckFree => Running /\ at = "check_free"
  /\ CheckMerge => Running /\ at = "check_merge"
<1>1. WriteNumbers => Running /\ at = "write_numbers"
  BY Zenon DEF WriteNumbers, Write, At, Running
<1>2. SecondFrame => Running /\ at = "second_frame"
  <2>1. SecondFrame => At("second_frame")
    BY DEF SecondFrame
  <2> QED
    BY <2>1, Zenon DEF At, Running
<1>3. WriteByte => Running /\ at = "write_byte"
  BY Zenon DEF WriteByte, Write, At, Running
<1>4. CheckFrame => Running /\ at = "check_frame"
  BY Zenon DEF CheckFrame, At, Running
<1>5. CheckAlignment => Running /\ at = "alignment"
  BY Zenon DEF CheckAlignment, At, Running
<1>6. CheckFree => Running /\ at = "check_free"
  <2>1. CheckFree => At("check_free")
    BY DEF CheckFree
  <2> QED
    BY <2>1, Zenon DEF At, Running
<1>7. CheckMerge => Running /\ at = "check_merge"
  BY Zenon DEF CheckMerge, At, Running
<1> QED
  BY <1>1, <1>2, <1>3, <1>4, <1>5, <1>6, <1>7

\* Nothing runs in a kernel that has halted.
LEMMA StepRuns == Step => Running
<1>1. HeapStep => Running
  BY Zenon DEF HeapStep, H!CallStep, H!SearchBlock, H!TakeFrame, H!PlaceFrame, H!TakeBlock,
               H!InsertBlock, Running
<1>2. WalkingSteps => Running
  BY Zenon DEF WalkingSteps, CheckResponses, TranslateRequest, DebugWalk,
      lapic_enable_legacy_pic, LinkDirectory, LinkTable, LinkPage, OpenLint0,
      WaitForTicks, Store, At, Running
<1>3. pmm_init \/ TestAllocate \/ TestFree \/ CheckCounts \/ KeepFrames \/ WriteFrame
        \/ FreeAgain \/ TestReuse \/ CheckReuse => Running
  BY Zenon DEF pmm_init, TestAllocate, TestFree, CheckCounts, KeepFrames, WriteFrame,
      FreeAgain, TestReuse, CheckReuse, Write, At, Running
<1>4. heap_init \/ Numbers \/ boot_get_framebuffer => Running
  BY Zenon DEF heap_init, Numbers, boot_get_framebuffer, At, Running
<1>5. WriteNumbers \/ SecondFrame \/ WriteByte \/ CheckFrame \/ CheckAlignment
        \/ CheckFree \/ CheckMerge => Running
  BY HeapTestIsAt
<1> QED
  BY <1>1, <1>2, <1>3, <1>4, <1>5 DEF Step, WalkingSteps

\* A step within kmalloc or kfree belongs to one of the stages.
LEMMA HeapStepKeeps == Good /\ Counted /\ Running /\ HeapStep => Sound'
<1> SUFFICES ASSUME Good, Counted, Running, HeapStep PROVE Sound'
  OBVIOUS
<1>1. at \in {"second_num"} \cup Stages
  <2>1. pc # "idle"
    BY NotBusy
  <2> QED
    BY <2>1 DEF Good, HeapInv, Places
<1> QED
  BY <1>1, SecondNumKeeps, ThirdNumKeeps, WriteNumbersKeeps, SecondFrameKeeps, WriteByteKeeps,
     CheckFrameKeeps, AlignmentKeeps, CheckFreeKeeps, CheckMergeKeeps DEF Stages

\* Every step of kmain.
LEMMA SoundNext == Sound /\ Counted /\ [Next]_vars => Sound'
<1> SUFFICES ASSUME Sound, Counted, [Next]_vars PROVE Sound'
  OBVIOUS
<1>1. CASE UNCHANGED vars \/ Ended
  BY <1>1, StutterKeeps DEF Ended
<1>2. CASE Step
  <2>1. Good /\ Running
    BY <1>2, StepRuns DEF Sound
  <2>2. CASE WalkingSteps \/ pmm_init \/ boot_get_framebuffer
    BY <2>1, <2>2, WalkingStepsKeep, InitKeeps, FramebufferKeeps
  <2>3. CASE \/ TestAllocate \/ TestFree \/ CheckCounts \/ KeepFrames \/ WriteFrame
             \/ FreeAgain \/ TestReuse \/ CheckReuse \/ heap_init
    BY <2>1, <2>3, TestAllocateKeeps, TestFreeKeeps, CheckCountsKeeps, KeepFramesKeeps,
       WriteFrameKeeps, FreeAgainKeeps, TestReuseKeeps, CheckReuseKeeps, HeapInitKeeps
  <2>4. CASE HeapStep
    BY <2>1, <2>4, HeapStepKeeps
  <2>5. CASE Numbers
    BY <2>1, <2>5, NotBusy, FirstNumKeeps, SecondNumKeeps, ThirdNumKeeps
  <2>6. CASE \/ WriteNumbers \/ SecondFrame \/ WriteByte \/ CheckFrame
             \/ CheckAlignment \/ CheckFree \/ CheckMerge
    BY <2>1, <2>6, HeapTestIsAt, WriteNumbersKeeps, SecondFrameKeeps, WriteByteKeeps,
       CheckFrameKeeps, AlignmentKeeps, CheckFreeKeeps, CheckMergeKeeps
  <2> QED
    BY <1>2, <2>2, <2>3, <2>4, <2>5, <2>6 DEF Step, WalkingSteps
<1> QED
  BY <1>1, <1>2 DEF Next

\* The invariant of the boot.
LEMMA SoundAlways == Spec => [](Sound /\ Counted)
<1>1. Sound /\ Counted /\ [Next]_vars => (Sound /\ Counted)'
  BY SoundNext, CountedKeeps
<1> QED
  BY <1>1, SoundInit, PTL DEF Spec

-----------------------------------------------------------------------------
(* The theorems                                                            *)

\* On every image of the tables, between any two stores of lapic.c too, the
\* walkers of paging.c see what the processor sees.
THEOREM Agreement == Spec => []WalkersAgree
<1>1. TablesInv => WalkersAgree
  BY WalkersRight DEF TablesInv, WalkersAgree
<1> QED
  BY <1>1, TablesAlways, PTL

\* The debug walkers of lapic.c, which look at no bit of an entry, follow only
\* entries that lead to tables: kmain has translated the same address before.
THEOREM DebugWalks == Spec => []WalksStayInTables
<1>1. TablesInv => WalksStayInTables
  <2> SUFFICES ASSUME TablesInv, at = "debug_walk" PROVE DebugFrames \subseteq Tables(tables)
    BY DEF WalksStayInTables
  <2>1. IsImage(tables) /\ paging_translate_4k(tables, KernelBase) # NotMapped
    BY Pages DEF TablesInv, Loaded
  <2> QED
    BY <2>1, WalkInTables, Pages DEF DebugFrames
<1> QED
  BY <1>1, TablesAlways, PTL

\* No store of lapic.c unmaps or changes a page, and the only one that it adds is
\* the page of the local APIC.
THEOREM Mapping == Spec => MappingOnlyGrows
<1>1. TablesInv /\ [Next]_vars => [Growing]_tables
  BY TablesNext
<1> QED
  BY <1>1, TablesAlways, PTL DEF Spec, MappingOnlyGrows, Growing

\* When lapic.c comes to write LINT0, the page of the local APIC is mapped, as
\* device memory: that access cannot fault.
THEOREM ApicReached ==
  Spec => [](at = "lint0" => EntryAt(tables, LapicPage) = DevicePage(LapicFrame))
<1>1. TablesInv => (at = "lint0" => EntryAt(tables, LapicPage) = DevicePage(LapicFrame))
  BY DEF TablesInv, Linking
<1> QED
  BY <1>1, TablesAlways, PTL

\* On whatever machine, the kernel halts over its boot loader's answers and page
\* tables only if what the message names is missing: neither the walkers nor the
\* checks of lapic.c turn down tables that would do.
THEOREM LoaderHalts == Spec => [](panic \in LoaderPanics => ~Required(panic))
<1>1. Init => Caused
  BY CausedInit
<1>2. TablesInv /\ Caused /\ [Next]_vars => Caused'
  BY CausedNext
<1>3. Caused => (panic \in LoaderPanics => ~Required(panic))
  BY LoaderRequired DEF Caused
<1> QED
  BY <1>1, <1>2, <1>3, TablesAlways, PTL DEF Spec

\* In a kernel that runs, pmm.c accounts for every frame and shares none, with
\* kmain and the heap as its callers, in the order in which they call it.
THEOREM FramesUnderBoot == Spec => [](panic = "" => P!FrameAccounting /\ P!NoSharing)
<1>1. Sound => (panic = "" => P!FrameAccounting /\ P!NoSharing)
  <2> SUFFICES ASSUME Sound, Running PROVE P!FrameAccounting /\ P!NoSharing
    BY Zenon DEF Running
  <2>1. PP!FrameAccounting /\ PP!NoSharing
    BY DEF Sound, Good, PmmInv, PP!IInv
  <2> QED
    BY <2>1, SameSets DEF P!FrameAccounting, PP!FrameAccounting, P!NoSharing, PP!NoSharing
<1> QED
  BY <1>1, SoundAlways, PTL

\* On every machine, the kernel halts before the user interface only if the
\* machine lacks what the message names.  No self-test of main.c ever fails, no
\* call to kmalloc, kfree or pmm_free_frame panics, and a machine with enough
\* usable RAM, some of it in one piece, is never found to have too little.
THEOREM Halts == Spec => []HaltsForCause
<1>1. /\ Sound
      /\ panic \in LoaderPanics => ~Required(panic)
      => HaltsForCause
  BY CauseSuffices, Zenon DEF Sound, Running, HaltsForCause
<1> QED
  BY <1>1, SoundAlways, LoaderHalts, PTL
=============================================================================
