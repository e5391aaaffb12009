------------------------------ MODULE BoxesProofs -------------------------------
(***************************************************************************)
(* Values in boxes (Boxes), for any finite numbers of variables and cells: *)
(* memory safety, assignment and swap, the comparison of values of type    *)
(* any, and that a value boxed as any never changes, in every program that *)
(* does not swap two equal pointers.                                       *)
(*                                                                         *)
(* Release and AnyEq are recursive functions.  What they do is proved by   *)
(* induction on the number of their steps (UpTo); the termination of       *)
(* Release rests on the number of live cells, and that of AnyEq on the     *)
(* order in which cells are made, which no cast lets a value break.        *)
(***************************************************************************)
EXTENDS Boxes, FiniteSetTheorems, WellFoundedInduction, TLAPS

-----------------------------------------------------------------------------
(* Induction up to a number, and the functions defined by recursion.       *)

\* A set of numbers has a least one.
LEMMA LeastNat ==
  ASSUME NEW S \in SUBSET Nat, S # {}
  PROVE  \E m \in S : \A k \in S : m <= k
  <1> DEFINE T == {0 .. k : k \in S}
             R == StrictSubsetOrdering(Nat)
  <1>1. IsWellFoundedOn(R, FiniteSubsetsOf(Nat))
    BY FS_StrictSubsetOrderingWellFounded
  <1>2. T \subseteq FiniteSubsetsOf(Nat) /\ T # {}
    <2>1. \A k \in S : 0 .. k \subseteq Nat /\ IsFiniteSet(0 .. k)
      BY FS_Interval
    <2>2. QED  BY <2>1 DEF FiniteSubsetsOf
  <1>3. PICK x \in T : \A y \in T : <<y, x>> \notin R
    <2> HIDE DEF T, R
    <2>1. QED  BY <1>1, <1>2, WFMin
  <1>4. PICK m \in S : x = 0 .. m
    BY <1>3
  <1>5. ASSUME NEW k \in S, k < m PROVE FALSE
    <2>1. 0 .. k \subseteq 0 .. m /\ m \in 0 .. m /\ m \notin 0 .. k /\ 0 .. m \subseteq Nat
      BY <1>5
    <2>2. <<0 .. k, 0 .. m>> \in R
      BY <2>1 DEF StrictSubsetOrdering
    <2>3. QED  BY <1>3, <1>4, <2>2
  <1>6. QED  BY <1>5

\* A set that holds 0 and the successor of each of its numbers below M.
LEMMA UpTo ==
  ASSUME NEW M \in Nat, NEW S, 0 \in S, \A m \in 0 .. M - 1 : m \in S => m + 1 \in S
  PROVE  0 .. M \subseteq S
  <1> DEFINE T == {m \in 0 .. M : m \notin S}
  <1>1. SUFFICES ASSUME T # {} PROVE FALSE
    OBVIOUS
  <1>2. T \in SUBSET Nat
    OBVIOUS
  <1>3. PICK m \in T : \A k \in T : m <= k
    <2> HIDE DEF T
    <2>1. QED  BY <1>1, <1>2, LeastNat
  <1>4. m # 0 /\ m \in 0 .. M
    BY <1>3
  <1>5. m - 1 \in 0 .. M - 1 /\ m - 1 \in S
    BY <1>3, <1>4
  <1>6. QED  BY <1>3, <1>5

N == Cardinality(Cells)

\* There are finitely many cells, so that N is a number.
LEMMA CellsFinite == IsFiniteSet(Cells) /\ IsFiniteSet(Slots) /\ N \in Nat
  <1>1. Cells \subseteq Slots
    BY DEF Slots
  <1>2. QED  BY <1>1, ConstantAssumption, FS_Subset, FS_CardinalityType DEF N

\* The steps of Release.
Due(before) == IF before[2] = Nil THEN before ELSE Drop(before[1], before[2])
Releasing(f, h, s, m) ==
  f = [n \in 0 .. m |-> IF n = 0 THEN <<h, s>> ELSE Due(f[n - 1])]

\* The recursive function in Release exists.
LEMMA ReleasingExists ==
  ASSUME NEW h, NEW s, NEW M \in Nat
  PROVE  \E f : Releasing(f, h, s, M)
  <1> DEFINE S == {m \in 0 .. M : \E f : Releasing(f, h, s, m)}
  <1>1. 0 \in S
    <2> DEFINE f == [n \in 0 .. 0 |-> <<h, s>>]
    <2>1. f = [n \in 0 .. 0 |-> IF n = 0 THEN <<h, s>> ELSE Due(f[n - 1])]
      <3>1. \A n \in 0 .. 0 : n = 0
        OBVIOUS
      <3>2. QED  BY <3>1, Zenon
    <2>2. Releasing(f, h, s, 0)
      BY <2>1 DEF Releasing
    <2>3. QED  BY <2>2
  <1>2. ASSUME NEW m \in 0 .. M - 1, m \in S PROVE m + 1 \in S
    <2>1. PICK f : Releasing(f, h, s, m)
      BY <1>2
    <2> DEFINE g == [n \in 0 .. m + 1 |-> IF n = m + 1 THEN Due(f[m]) ELSE f[n]]
    <2>2. \A n \in 0 .. m : f[n] = IF n = 0 THEN <<h, s>> ELSE Due(f[n - 1])
      BY <2>1 DEF Releasing
    <2>3. \A n \in 0 .. m + 1 : g[n] = IF n = 0 THEN <<h, s>> ELSE Due(g[n - 1])
      <3>1. TAKE n \in 0 .. m + 1
      <3>2. CASE n = m + 1
        <4>1. n - 1 = m /\ n # 0 /\ m \in 0 .. m + 1 /\ m # m + 1
          BY <3>2
        <4>2. QED  BY <3>2, <4>1
      <3>3. CASE n = 0
        BY <2>2, <3>3
      <3>4. CASE n # 0 /\ n # m + 1
        <4>1. n \in 0 .. m /\ n - 1 \in 0 .. m + 1 /\ n - 1 # m + 1
          BY <3>4
        <4>2. QED  BY <2>2, <3>4, <4>1
      <3>5. QED  BY <3>2, <3>3, <3>4
    <2>4. g = [n \in 0 .. m + 1 |-> IF n = 0 THEN <<h, s>> ELSE Due(g[n - 1])]
      <3>1. DOMAIN g = 0 .. m + 1 /\ g = [n \in 0 .. m + 1 |-> g[n]]
        BY Zenon
      <3> HIDE DEF g
      <3>2. QED  BY <2>3, <3>1, Zenon
    <2>5. Releasing(g, h, s, m + 1)
      <3> HIDE DEF g
      <3>1. QED  BY <2>4 DEF Releasing
    <2>6. QED  BY <2>5
  <1>3. 0 .. M \subseteq S
    <2> HIDE DEF S
    <2>1. QED  BY <1>1, <1>2, UpTo
  <1>4. QED  BY <1>3

\* Release is N + 1 steps of Drop, as far as anything is due.
LEMMA ReleaseSteps ==
  ASSUME NEW h, NEW s
  PROVE  \E f : /\ f[0] = <<h, s>> /\ Release(h, s) = f[N + 1][1]
                /\ \A n \in 1 .. N + 1 : f[n] = Due(f[n - 1])
  <1> DEFINE f == CHOOSE step : Releasing(step, h, s, N + 1)
  <1>1. N + 1 \in Nat
    BY CellsFinite
  <1>2. Releasing(f, h, s, N + 1)
    BY <1>1, ReleasingExists
  <1>3. Release(h, s) = f[N + 1][1]
    BY DEF Release, Releasing, Due, N
  <1>4. QED
    <2> HIDE DEF f
    <2>1. \A n \in 0 .. N + 1 : f[n] = IF n = 0 THEN <<h, s>> ELSE Due(f[n - 1])
      BY <1>2 DEF Releasing
    <2>2. f[0] = <<h, s>>
      BY <1>1, <2>1
    <2>3. \A n \in 1 .. N + 1 : f[n] = Due(f[n - 1])
      BY <1>1, <2>1
    <2>4. QED  BY <1>3, <2>2, <2>3

-----------------------------------------------------------------------------
(* The heap between the steps of an operation.                             *)

Box == [alloc : Cells \union {Nil}, counted : BOOLEAN, type : Types \union {Nil}]
Heaps == [slot : [Slots -> Box], count : [Cells -> Nat],
          kind : [Cells -> {Node, List, Nil}], live : SUBSET Cells]

Hold(m, c) == {s \in Slots : m[s].alloc = c}

\* Every share is counted and the cells that have one live; a deleted cell
\* holds nothing, but for the cell e whose field is about to be released.
Sound(h, e) ==
    /\ h \in Heaps
    /\ \A s \in Slots : h.slot[s].counted <=> h.slot[s].alloc # Nil
    /\ \A c \in Cells : /\ h.count[c] = Cardinality(Hold(h.slot, c))
                        /\ c \in h.live <=> h.count[c] > 0
                        /\ c \in h.live => h.kind[c] # Nil
                        /\ c \notin h.live /\ c # e => h.slot[c] = Empty

Elsewhere(m, w, d) == \A x \in Slots : x # d => w[x] = m[x]
One(P) == IF P THEN 1 ELSE 0

\* What the number of holders of c becomes when slot d changes.
LEMMA HoldChange ==
  ASSUME NEW m, NEW w, NEW d \in Slots, NEW c, Elsewhere(m, w, d)
  PROVE  /\ Cardinality(Hold(w, c)) \in Nat /\ Cardinality(Hold(m, c)) \in Nat
         /\ Cardinality(Hold(w, c)) =
               (Cardinality(Hold(m, c)) - One(m[d].alloc = c)) + One(w[d].alloc = c)
         /\ m[d].alloc = c => Cardinality(Hold(m, c)) >= 1
         /\ m[d].alloc = c /\ Cardinality(Hold(m, c)) = 1 => \A x \in Slots : m[x].alloc = c => x = d
  <1> DEFINE H == Hold(m, c)
             W == Hold(w, c)
  <1>1. H \ {d} = W \ {d}
    BY DEF Elsewhere, Hold
  <1>2. IsFiniteSet(H) /\ IsFiniteSet(W)
    <2>1. H \in SUBSET Slots /\ W \in SUBSET Slots
      BY DEF Hold
    <2> HIDE DEF H, W
    <2>2. QED  BY <2>1, CellsFinite, FS_Subset
  <1>3. (d \in H <=> m[d].alloc = c) /\ (d \in W <=> w[d].alloc = c)
    BY DEF Hold
  <1>4. \A x \in Slots : m[x].alloc = c => x \in H
    BY DEF Hold
  <1> HIDE DEF H, W
  <1>5. /\ Cardinality(H) \in Nat /\ Cardinality(W) \in Nat
        /\ Cardinality(H \ {d}) = IF d \in H THEN Cardinality(H) - 1 ELSE Cardinality(H)
        /\ Cardinality(W \ {d}) = IF d \in W THEN Cardinality(W) - 1 ELSE Cardinality(W)
        /\ Cardinality(H \ {d}) \in Nat /\ IsFiniteSet(H \ {d})
    BY <1>2, FS_RemoveElement, FS_CardinalityType
  <1>6. Cardinality(W) = (Cardinality(H) - One(d \in H)) + One(d \in W)
    <2>1. Cardinality(H \ {d}) = Cardinality(H) - One(d \in H)
      BY <1>5 DEF One
    <2>2. Cardinality(W \ {d}) = Cardinality(W) - One(d \in W)
      BY <1>5 DEF One
    <2>3. One(d \in W) \in {0, 1} /\ One(d \in H) \in {0, 1}
      BY DEF One
    <2>4. Cardinality(H \ {d}) = Cardinality(W \ {d})
      BY <1>1
    <2>5. QED  BY <1>5, <2>1, <2>2, <2>3, <2>4
  <1>7. d \in H => Cardinality(H) >= 1
    BY <1>5
  <1>8. ASSUME d \in H, Cardinality(H) = 1, NEW x \in Slots, x \in H PROVE x = d
    <2>1. H \ {d} = {}
      BY <1>5, <1>8, FS_EmptySet
    <2>2. QED  BY <1>8, <2>1
  <1>9. QED  BY <1>3, <1>4, <1>5, <1>6, <1>7, <1>8 DEF H, W, One

\* What a sound heap says of a slot.
LEMMA SoundFacts ==
  ASSUME NEW h, NEW e, Sound(h, e)
  PROVE  /\ \A s \in Slots : /\ h.slot[s] \in Box /\ h.slot[s].alloc \in Cells \union {Nil}
                             /\ h.slot[s].counted <=> h.slot[s].alloc # Nil
                             /\ h.slot[s].alloc # Nil =>
                                   /\ h.slot[s].alloc \in h.live /\ h.slot[s].alloc \in Cells
                                   /\ h.count[h.slot[s].alloc] > 0
                                   /\ h.slot[s].alloc \in Slots
         /\ \A c \in Cells : h.count[c] \in Nat
         /\ h.live \subseteq Cells
         /\ Cells \subseteq Slots /\ Nil \notin Slots /\ Nil \notin Cells /\ Tmp \in Slots
  <1>1. Cells \subseteq Slots /\ Nil \notin Slots /\ Nil \notin Cells /\ Tmp \in Slots
    BY ConstantAssumption DEF Slots
  <1>2. \A s \in Slots : h.slot[s] \in Box /\ h.slot[s].alloc \in Cells \union {Nil}
    BY DEF Sound, Heaps, Box
  <1>3. (\A c \in Cells : h.count[c] \in Nat) /\ h.live \subseteq Cells
    BY DEF Sound, Heaps
  <1>4. \A s \in Slots : h.slot[s].counted <=> h.slot[s].alloc # Nil
    BY DEF Sound
  <1>5. ASSUME NEW s \in Slots, h.slot[s].alloc # Nil
        PROVE  h.slot[s].alloc \in h.live /\ h.count[h.slot[s].alloc] > 0
    <2> DEFINE c == h.slot[s].alloc
               m == h.slot
    <2>1. c \in Cells
      BY <1>2, <1>5
    <2>2. Elsewhere(m, m, s) /\ m[s].alloc = c
      BY DEF Elsewhere
    <2> HIDE DEF m, c
    <2>3. Cardinality(Hold(m, c)) >= 1 /\ Cardinality(Hold(m, c)) \in Nat
      BY <2>2, HoldChange
    <2>4. h.count[c] >= 1
      BY <2>1, <2>3 DEF Sound, m
    <2>5. c \in h.live /\ h.count[c] > 0
      BY <2>1, <2>4 DEF Sound, Heaps
    <2>6. QED  BY <2>5 DEF c
  <1>6. QED  BY <1>1, <1>2, <1>3, <1>4, <1>5

\* One step of a release.
Dropped(h, s, g, due) ==
    /\ due \in Cells \union {Nil} /\ Sound(g, due)
    /\ g.slot[s] = Empty /\ Elsewhere(h.slot, g.slot, s)
    /\ g.kind = h.kind
    /\ IF due = Nil THEN g.live = h.live ELSE due \in h.live /\ g.live = h.live \ {due}
    /\ \A c \in Cells : g.count[c] = h.count[c] - One(h.slot[s].alloc = c)
    /\ h.slot[s].alloc = Nil => due = Nil
    /\ \A x \in Slots : x # s /\ h.slot[x].alloc = h.slot[s].alloc => due = Nil

\* Drop gives up one share, and leaves the field of a cell due that it deletes.
LEMMA DropIs ==
  ASSUME NEW h, NEW s \in Slots, Sound(h, s)
  PROVE  \E g, due : Drop(h, s) = <<g, due>> /\ Dropped(h, s, g, due)
  <1> DEFINE c == h.slot[s].alloc
             m == [h.slot EXCEPT ![s] = Empty]
             g == [h EXCEPT !.slot[s] = Empty]
  <1>1. /\ h \in Heaps /\ h.slot \in [Slots -> Box] /\ h.count \in [Cells -> Nat]
        /\ h.live \in SUBSET Cells /\ h.kind \in [Cells -> {Node, List, Nil}]
    BY DEF Sound, Heaps
  <1>2. /\ g.slot = m /\ g.count = h.count /\ g.kind = h.kind /\ g.live = h.live /\ g \in Heaps
        /\ m \in [Slots -> Box]
    <2>1. Empty \in Box
      BY DEF Empty, Box
    <2>2. m \in [Slots -> Box]
      BY <1>1, <2>1
    <2>3. QED  BY <1>1, <2>2 DEF Heaps
  <1>3. Elsewhere(h.slot, m, s) /\ m[s] = Empty /\ Empty.alloc = Nil /\ Empty.counted = FALSE
    BY <1>1 DEF Elsewhere, Empty
  <1>4. /\ c \in Cells \union {Nil} /\ Nil \notin Cells /\ Cells \subseteq Slots
        /\ h.slot[s].counted <=> c # Nil
        /\ c # Nil => c \in h.live /\ h.count[c] > 0
    BY SoundFacts
  <1> HIDE DEF c, m, g
  <1>5. ASSUME NEW x \in Cells
        PROVE  Cardinality(Hold(m, x)) = h.count[x] - One(c = x)
    <2>1. Cardinality(Hold(m, x)) = (h.count[x] - One(c = x)) + One(Nil = x)
      BY <1>3, HoldChange DEF Sound, c
    <2>2. One(Nil = x) = 0 /\ h.count[x] \in Nat /\ One(c = x) \in {0, 1}
      BY <1>1, <1>4 DEF One
    <2>3. QED  BY <2>1, <2>2
  <1>6. \A x \in Slots : m[x].counted <=> m[x].alloc # Nil
    BY <1>3 DEF Sound, Elsewhere
  <1>7. \A x \in Cells : x \notin h.live => m[x] = Empty
    BY <1>3, <1>4 DEF Sound, Elsewhere
  <1>8. CASE ~h.slot[s].counted
    <2>1. c = Nil /\ Drop(h, s) = <<g, Nil>>
      BY <1>4, <1>8 DEF Drop, g
    <2>2. \A x \in Cells : One(c = x) = 0
      BY <1>4, <2>1 DEF One
    <2>3. \A x \in Cells : h.count[x] - 0 = h.count[x]
      BY <1>1
    <2>4. Sound(g, Nil)
      BY <1>2, <1>5, <1>6, <1>7, <2>2, <2>3 DEF Sound
    <2>5. Dropped(h, s, g, Nil)
      BY <1>2, <1>3, <2>2, <2>3, <2>4 DEF Dropped, c
    <2>6. QED  BY <2>1, <2>5
  <1>9. CASE h.slot[s].counted /\ h.count[c] > 1
    <2> DEFINE k == [h.count EXCEPT ![c] = @ - 1]
               w == [g EXCEPT !.count[c] = @ - 1]
    <2>1. c # Nil /\ c \in Cells /\ Drop(h, s) = <<w, Nil>>
      BY <1>4, <1>9 DEF Drop, g, c
    <2>2. k \in [Cells -> Nat] /\ \A x \in Cells : k[x] = h.count[x] - One(c = x)
      BY <1>1, <1>9, <2>1 DEF One
    <2>3. w.slot = m /\ w.count = k /\ w.kind = h.kind /\ w.live = h.live /\ w \in Heaps
      BY <1>2, <2>2 DEF Heaps
    <2> HIDE DEF w, k
    <2>4. \A x \in Cells : x \in h.live <=> k[x] > 0
      BY <1>1, <1>9, <2>2 DEF Sound, One
    <2>5. Sound(w, Nil)
      BY <1>5, <1>6, <1>7, <2>2, <2>3, <2>4 DEF Sound
    <2>6. Dropped(h, s, w, Nil)
      BY <1>3, <2>2, <2>3, <2>5 DEF Dropped, c
    <2>7. QED  BY <2>1, <2>6
  <1>10. CASE h.slot[s].counted /\ ~(h.count[c] > 1)
    <2> DEFINE k == [h.count EXCEPT ![c] = @ - 1]
               w == [g EXCEPT !.count[c] = @ - 1, !.live = @ \ {c}]
    <2>1. c # Nil /\ c \in Cells /\ c \in h.live /\ Drop(h, s) = <<w, c>>
      BY <1>4, <1>10 DEF Drop, g, c
    <2>2. h.count[c] = 1
      BY <1>1, <1>4, <1>10, <2>1
    <2>3. k \in [Cells -> Nat] /\ \A x \in Cells : k[x] = h.count[x] - One(c = x)
      BY <1>1, <2>1, <2>2 DEF One
    <2>4. w.slot = m /\ w.count = k /\ w.kind = h.kind /\ w.live = h.live \ {c} /\ w \in Heaps
      BY <1>1, <1>2, <2>3 DEF Heaps
    <2> HIDE DEF w, k
    <2>5. \A x \in Cells : x \in h.live \ {c} <=> k[x] > 0
      BY <1>1, <2>2, <2>3 DEF Sound, One
    <2>6. Sound(w, c)
      BY <1>5, <1>6, <1>7, <2>3, <2>4, <2>5 DEF Sound
    <2>7. \A x \in Slots : x # s => h.slot[x].alloc # c
      <3>1. Elsewhere(h.slot, h.slot, s)
        BY DEF Elsewhere
      <3>2. Cardinality(Hold(h.slot, c)) = 1
        BY <2>1, <2>2 DEF Sound
      <3>3. QED  BY <3>1, <3>2, HoldChange DEF c
    <2>8. Dropped(h, s, w, c)
      BY <1>3, <2>1, <2>3, <2>4, <2>6, <2>7 DEF Dropped, c
    <2>9. QED  BY <2>1, <2>8
  <1>11. QED  BY <1>8, <1>9, <1>10

\* Slot d now holds r.  Other slots are as they were, but for the fields of
\* the cells that were deleted on the way.
Settles(h, g, d) ==
    \A x \in Slots : x # d => \/ g.slot[x] = h.slot[x]
                              \/ x \in Cells /\ x \notin g.live /\ g.slot[x] = Empty
Writes(h, g, d, r) ==
    /\ Sound(g, Nil) /\ g.slot[d] = r /\ Settles(h, g, d)
    /\ g.kind = h.kind /\ g.live \subseteq h.live

\* The same where nothing is deleted.
Counts(h, g, d, r) ==
    \A c \in Cells : g.count[c] = (h.count[c] - One(h.slot[d].alloc = c)) + One(r.alloc = c)
Exact(h, g, d, r) == g.live = h.live /\ Elsewhere(h.slot, g.slot, d) /\ Counts(h, g, d, r)

Shared(h, s) ==
    h.slot[s].alloc = Nil \/ \E x \in Slots : x # s /\ h.slot[x].alloc = h.slot[s].alloc

\* After n steps of a release, with the slot that is due next.
Part(h, s, n, g, due) ==
    /\ due \in Slots \union {Nil} /\ Sound(g, due)
    /\ g.kind = h.kind /\ g.live \subseteq h.live
    /\ IF n = 0 THEN g = h /\ due = s
       ELSE /\ g.slot[s] = Empty /\ Settles(h, g, s)
            /\ due # Nil => due \in Cells /\ due \notin g.live
            /\ Shared(h, s) => due = Nil /\ Exact(h, g, s, Empty)
    /\ due # Nil => Cardinality(g.live) + n <= N

\* The fields of an empty box.
LEMMA EmptyFacts == Empty \in Box /\ Empty.alloc = Nil /\ ~Empty.counted /\ Empty.type = Nil
  BY DEF Empty, Box

\* There are never more live cells than cells.
LEMMA LiveFinite ==
  ASSUME NEW h, NEW e, Sound(h, e)
  PROVE  IsFiniteSet(h.live) /\ Cardinality(h.live) \in Nat /\ Cardinality(h.live) <= N
  <1>1. h.live \in SUBSET Cells
    BY DEF Sound, Heaps
  <1>2. QED  BY <1>1, CellsFinite, FS_Subset, FS_CardinalityType DEF N

\* One more step of Release.
LEMMA PartStep ==
  ASSUME NEW h, NEW s \in Slots, Sound(h, Nil), NEW n \in Nat, NEW g, NEW due, Part(h, s, n, g, due)
  PROVE  \E g2, due2 : Due(<<g, due>>) = <<g2, due2>> /\ Part(h, s, n + 1, g2, due2)
  <1>1. CASE due = Nil
    <2>1. n # 0 /\ n + 1 # 0
      BY <1>1, SoundFacts DEF Part
    <2>2. Due(<<g, due>>) = <<g, due>>
      BY <1>1 DEF Due
    <2>3. Part(h, s, n + 1, g, due)
      BY <1>1, <2>1 DEF Part
    <2>4. QED  BY <2>2, <2>3
  <1>2. CASE due # Nil
    <2>1. due \in Slots /\ Sound(g, due)
      BY <1>2 DEF Part
    <2>2. PICK g2, due2 : Drop(g, due) = <<g2, due2>> /\ Dropped(g, due, g2, due2)
      BY <2>1, DropIs
    <2>3. Due(<<g, due>>) = <<g2, due2>>
      BY <1>2, <2>2 DEF Due
    <2>4. /\ due2 \in Slots \union {Nil} /\ Sound(g2, due2) /\ g2.kind = h.kind
          /\ g2.live \subseteq g.live /\ g2.live \subseteq h.live
      BY <2>1, <2>2, SoundFacts DEF Dropped, Part
    <2>5. g2.slot[s] = Empty /\ Settles(h, g2, s)
      <3>1. CASE n = 0
        <4>1. g2.slot[s] = Empty /\ Elsewhere(h.slot, g2.slot, s)
          BY <2>2, <3>1 DEF Dropped, Part
        <4>2. QED  BY <4>1 DEF Elsewhere, Settles
      <3>2. CASE n # 0
        <4>1. /\ g.slot[s] = Empty /\ Settles(h, g, s) /\ due \in Cells /\ due \notin g2.live
          BY <1>2, <2>4, <3>2 DEF Part
        <4>2. g2.slot[due] = Empty /\ \A x \in Slots : x # due => g2.slot[x] = g.slot[x]
          BY <2>2 DEF Dropped, Elsewhere
        <4>3. g2.slot[s] = Empty
          BY <4>1, <4>2
        <4>4. ASSUME NEW x \in Slots, x # s
              PROVE  \/ g2.slot[x] = h.slot[x]
                     \/ x \in Cells /\ x \notin g2.live /\ g2.slot[x] = Empty
          BY <2>4, <4>1, <4>2, <4>4 DEF Settles
        <4>5. QED  BY <4>3, <4>4 DEF Settles
      <3>3. QED  BY <3>1, <3>2
    <2>6. due2 # Nil => due2 \in Cells /\ due2 \notin g2.live
      BY <2>2 DEF Dropped
    <2>7. ASSUME Shared(h, s) PROVE due2 = Nil /\ Exact(h, g2, s, Empty)
      <3>1. n = 0 /\ g = h /\ due = s
        BY <1>2, <2>7 DEF Part
      <3>2. due2 = Nil
        BY <2>2, <2>7, <3>1 DEF Dropped, Shared
      <3>3. ASSUME NEW c \in Cells
            PROVE  g2.count[c] = (h.count[c] - One(h.slot[s].alloc = c)) + One(Empty.alloc = c)
        <4>1. One(Empty.alloc = c) = 0 /\ One(h.slot[s].alloc = c) \in {0, 1} /\ h.count[c] \in Nat
          BY EmptyFacts, SoundFacts DEF One
        <4>2. g2.count[c] = h.count[c] - One(h.slot[s].alloc = c)
          BY <2>2, <3>1 DEF Dropped
        <4>3. QED  BY <4>1, <4>2
      <3>4. QED  BY <2>2, <3>1, <3>2, <3>3 DEF Dropped, Exact, Counts
    <2>8. ASSUME due2 # Nil PROVE Cardinality(g2.live) + (n + 1) <= N
      <3>1. g2.live = g.live \ {due2} /\ due2 \in g.live
        BY <2>2, <2>8 DEF Dropped
      <3>2. /\ IsFiniteSet(g.live) /\ Cardinality(g.live) \in Nat
            /\ Cardinality(g2.live) = Cardinality(g.live) - 1
        BY <2>1, <3>1, LiveFinite, FS_RemoveElement
      <3>3. Cardinality(g.live) + n <= N
        BY <1>2 DEF Part
      <3>4. QED  BY <3>2, <3>3, CellsFinite
    <2>9. Part(h, s, n + 1, g2, due2)
      <3>1. n + 1 # 0
        OBVIOUS
      <3>2. QED  BY <2>4, <2>5, <2>6, <2>7, <2>8, <3>1 DEF Part
    <2>10. QED  BY <2>3, <2>9
  <1>3. QED  BY <1>1, <1>2

\* A release empties its slot and whatever it deletes, in at most one step for
\* each live cell and one more.
LEMMA ReleaseIs ==
  ASSUME NEW h, NEW s \in Slots, Sound(h, Nil)
  PROVE  /\ Writes(h, Release(h, s), s, Empty)
         /\ Shared(h, s) => Exact(h, Release(h, s), s, Empty)
  <1>1. PICK f : /\ f[0] = <<h, s>> /\ Release(h, s) = f[N + 1][1]
                 /\ \A n \in 1 .. N + 1 : f[n] = Due(f[n - 1])
    BY ReleaseSteps
  <1> DEFINE S == {n \in 0 .. N + 1 : \E g, due : f[n] = <<g, due>> /\ Part(h, s, n, g, due)}
  <1>2. N + 1 \in Nat /\ N \in Nat
    BY CellsFinite
  <1>3. 0 \in S
    <2>1. Sound(h, s)
      BY SoundFacts DEF Sound
    <2>2. Cardinality(h.live) + 0 <= N
      BY <1>2, LiveFinite
    <2>3. Part(h, s, 0, h, s)
      BY <2>1, <2>2 DEF Part
    <2>4. QED  BY <1>1, <1>2, <2>3
  <1>4. ASSUME NEW n \in 0 .. (N + 1) - 1, n \in S PROVE n + 1 \in S
    <2>1. PICK g, due : f[n] = <<g, due>> /\ Part(h, s, n, g, due)
      BY <1>4
    <2>2. PICK g2, due2 : Due(<<g, due>>) = <<g2, due2>> /\ Part(h, s, n + 1, g2, due2)
      BY <2>1, PartStep
    <2>3. n + 1 \in 1 .. N + 1 /\ (n + 1) - 1 = n /\ n + 1 \in 0 .. N + 1
      BY <1>2
    <2>4. f[n + 1] = <<g2, due2>>
      BY <1>1, <2>1, <2>2, <2>3
    <2>5. QED  BY <2>2, <2>3, <2>4
  <1>5. N + 1 \in S
    <2> HIDE DEF S
    <2>1. 0 .. N + 1 \subseteq S
      BY <1>2, <1>3, <1>4, UpTo
    <2>2. QED  BY <1>2, <2>1
  <1>6. PICK g, due : f[N + 1] = <<g, due>> /\ Part(h, s, N + 1, g, due)
    BY <1>5
  <1>7. Release(h, s) = g
    BY <1>1, <1>6
  <1>8. due = Nil
    <2>1. Sound(g, due) /\ (due # Nil => Cardinality(g.live) + (N + 1) <= N)
      BY <1>6 DEF Part
    <2>2. Cardinality(g.live) \in Nat
      BY <2>1, LiveFinite
    <2>3. QED  BY <1>2, <2>1, <2>2
  <1>9. Writes(h, g, s, Empty) /\ (Shared(h, s) => Exact(h, g, s, Empty))
    <2>1. N + 1 # 0
      BY <1>2
    <2>2. QED  BY <1>6, <1>8, <2>1 DEF Part, Writes
  <1>10. QED  BY <1>7, <1>9

-----------------------------------------------------------------------------
(* Stores and assignments.                                                 *)

Fits(h, r) ==
    /\ r \in Box /\ (r.counted <=> r.alloc # Nil)
    /\ r.alloc # Nil => r.alloc \in h.live

\* A field that a variable other than d leads to.
Held(h, x, d) ==
    x \in Cells => \E p \in Slots \ Cells : p # d /\ h.slot[p].alloc = x

\* What an assignment stores.
Stored(h, d, s) == IF d = s /\ d \notin Ptrs THEN Empty ELSE h.slot[s]

\* Store writes one slot and counts the share.
LEMMA StoreIs ==
  ASSUME NEW h, NEW d \in Slots, NEW r, Sound(h, Nil), Fits(h, r),
         h.slot[d].alloc = Nil, d \in Cells => d \in h.live
  PROVE  Writes(h, Store(h, d, r), d, r) /\ Exact(h, Store(h, d, r), d, r)
  <1> DEFINE m == [h.slot EXCEPT ![d] = r]
             k == IF r.counted THEN [h.count EXCEPT ![r.alloc] = @ + 1] ELSE h.count
             g == Store(h, d, r)
  <1>1. /\ h \in Heaps /\ h.slot \in [Slots -> Box] /\ h.count \in [Cells -> Nat]
        /\ h.live \in SUBSET Cells /\ h.kind \in [Cells -> {Node, List, Nil}]
        /\ Nil \notin Cells /\ Cells \subseteq Slots
    BY SoundFacts DEF Sound, Heaps
  <1>2. /\ r \in Box /\ (r.counted <=> r.alloc # Nil)
        /\ r.alloc # Nil => r.alloc \in h.live /\ r.alloc \in Cells
    BY <1>1 DEF Fits
  <1>3. k \in [Cells -> Nat] /\ \A c \in Cells : k[c] = h.count[c] + One(r.alloc = c)
    BY <1>1, <1>2 DEF One
  <1>4. m \in [Slots -> Box] /\ m[d] = r /\ Elsewhere(h.slot, m, d)
    BY <1>1, <1>2 DEF Elsewhere
  <1>5. g.slot = m /\ g.count = k /\ g.kind = h.kind /\ g.live = h.live /\ g \in Heaps
    <2> DEFINE w == [h EXCEPT !.slot[d] = r]
    <2>1. w.slot = m /\ w.count = h.count /\ w.kind = h.kind /\ w.live = h.live /\ w \in Heaps
      BY <1>1, <1>4 DEF Heaps
    <2>2. CASE r.counted
      <3> DEFINE v == [w EXCEPT !.count[r.alloc] = @ + 1]
      <3>1. g = v
        BY <2>2 DEF Store
      <3>2. r.alloc \in Cells /\ k = [h.count EXCEPT ![r.alloc] = @ + 1]
        BY <1>2, <2>2
      <3> HIDE DEF g, w, m, k
      <3>3. v.slot = m /\ v.count = k /\ v.kind = h.kind /\ v.live = h.live /\ v \in Heaps
        BY <1>1, <1>3, <2>1, <3>2 DEF Heaps
      <3>4. QED  BY <3>1, <3>3
    <2>3. CASE ~r.counted
      <3>1. g = w /\ k = h.count
        BY <2>3 DEF Store
      <3>2. QED  BY <2>1, <3>1
    <2>4. QED  BY <2>2, <2>3
  <1> HIDE DEF g, m, k
  <1>6. ASSUME NEW c \in Cells
        PROVE  /\ h.count[c] \in Nat
               /\ k[c] = (h.count[c] - One(h.slot[d].alloc = c)) + One(r.alloc = c)
    <2>1. One(h.slot[d].alloc = c) = 0 /\ One(r.alloc = c) \in {0, 1} /\ h.count[c] \in Nat
      BY <1>1 DEF One
    <2>2. QED  BY <1>3, <2>1
  <1>7. ASSUME NEW c \in Cells PROVE k[c] = Cardinality(Hold(m, c))
    <2>1. Cardinality(Hold(m, c)) = (h.count[c] - One(h.slot[d].alloc = c)) + One(r.alloc = c)
      BY <1>4, HoldChange DEF Sound
    <2>2. QED  BY <1>6, <2>1
  <1>8. \A c \in Cells : c \in h.live <=> k[c] > 0
    <2>1. ASSUME NEW c \in Cells PROVE c \in h.live <=> k[c] > 0
      <3>1. c \in h.live <=> h.count[c] > 0
        BY DEF Sound
      <3>2. h.count[c] \in Nat /\ k[c] = h.count[c] + One(r.alloc = c)
        BY <1>3, <1>6
      <3>3. CASE r.alloc = c
        BY <1>1, <1>2, <3>1, <3>2, <3>3 DEF One
      <3>4. CASE r.alloc # c
        BY <3>1, <3>2, <3>4 DEF One
      <3>5. QED  BY <3>3, <3>4
    <2>2. QED  BY <2>1
  <1>9. \A x \in Slots : m[x].counted <=> m[x].alloc # Nil
    BY <1>2, <1>4 DEF Sound, Elsewhere
  <1>10. \A c \in Cells : c \notin h.live => m[c] = Empty
    BY <1>1, <1>4, SoundFacts DEF Sound, Elsewhere
  <1>11. Sound(g, Nil)
    BY <1>5, <1>7, <1>8, <1>9, <1>10 DEF Sound
  <1>12. Exact(h, g, d, r)
    BY <1>4, <1>5, <1>6 DEF Exact, Counts
  <1>13. Writes(h, g, d, r)
    BY <1>4, <1>5, <1>11 DEF Writes, Settles, Elsewhere
  <1>14. QED  BY <1>12, <1>13 DEF g

\* A variable keeps the cell it leads to through a write to another slot.
LEMMA HeldLives ==
  ASSUME NEW h, NEW g, NEW d, NEW r, NEW x, Writes(h, g, d, r), Held(h, x, d), x \in Cells
  PROVE  x \in g.live
  <1>1. PICK p \in Slots \ Cells : p # d /\ h.slot[p].alloc = x
    BY DEF Held
  <1>2. g.slot[p] = h.slot[p] /\ Sound(g, Nil)
    BY <1>1 DEF Writes, Settles
  <1>3. QED  BY <1>1, <1>2, SoundFacts

\* A write to an emptied slot, after the release that emptied it.
LEMMA WriteTwice ==
  ASSUME NEW h, NEW g, NEW k, NEW d \in Slots, NEW r,
         Writes(h, g, d, Empty), Writes(g, k, d, r), Exact(g, k, d, r)
  PROVE  /\ Writes(h, k, d, r)
         /\ Exact(h, g, d, Empty) /\ Sound(h, Nil) => Exact(h, k, d, r)
  <1>1. ASSUME NEW x \in Slots, x # d
        PROVE  k.slot[x] = h.slot[x] \/ (x \in Cells /\ x \notin k.live /\ k.slot[x] = Empty)
    BY <1>1 DEF Writes, Settles, Exact, Elsewhere
  <1>2. Writes(h, k, d, r)
    BY <1>1 DEF Writes, Settles, Exact
  <1>3. ASSUME Exact(h, g, d, Empty), Sound(h, Nil) PROVE Exact(h, k, d, r)
    <2>1. k.live = h.live
      BY <1>3 DEF Exact
    <2>2. Elsewhere(h.slot, k.slot, d)
      BY <1>3 DEF Exact, Elsewhere
    <2>3. ASSUME NEW c \in Cells
          PROVE  k.count[c] = (h.count[c] - One(h.slot[d].alloc = c)) + One(r.alloc = c)
      <3>1. /\ k.count[c] = (g.count[c] - One(g.slot[d].alloc = c)) + One(r.alloc = c)
            /\ g.count[c] = (h.count[c] - One(h.slot[d].alloc = c)) + One(Empty.alloc = c)
            /\ g.slot[d] = Empty
        BY <1>3 DEF Exact, Counts, Writes
      <3>2. /\ One(Empty.alloc = c) = 0 /\ One(g.slot[d].alloc = c) = 0 /\ h.count[c] \in Nat
            /\ One(h.slot[d].alloc = c) \in {0, 1} /\ One(r.alloc = c) \in {0, 1}
        BY <1>3, <3>1, EmptyFacts, SoundFacts DEF One
      <3> DEFINE a == k.count[c]
                 b == g.count[c]
                 i == h.count[c]
                 o == One(h.slot[d].alloc = c)
                 w == One(r.alloc = c)
      <3>3. a = (b - 0) + w /\ b = (i - o) + 0 /\ i \in Nat /\ o \in {0, 1} /\ w \in {0, 1}
        BY <3>1, <3>2
      <3> HIDE DEF a, b, i, o, w
      <3>4. a = (i - o) + w
        BY <3>3
      <3>5. QED  BY <3>4 DEF a, b, i, o, w
    <2>4. QED  BY <2>1, <2>2, <2>3 DEF Exact, Counts
  <1>4. QED  BY <1>2, <1>3

\* operator= of Any and of Trait.
LEMMA BoxAssignIs ==
  ASSUME NEW h, NEW d \in Slots, NEW s \in Slots, Sound(h, Nil), d \notin Ptrs,
         Held(h, d, d), s # d => Held(h, s, d)
  PROVE  /\ Writes(h, BoxAssign(h, d, s), d, Stored(h, d, s))
         /\ Shared(h, d) => Exact(h, BoxAssign(h, d, s), d, Stored(h, d, s))
  <1> DEFINE g == Release(h, d)
             r == Stored(h, d, s)
  <1>1. Writes(h, g, d, Empty) /\ (Shared(h, d) => Exact(h, g, d, Empty))
    BY ReleaseIs
  <1> HIDE DEF g
  <1>2. Sound(g, Nil) /\ g.slot[d] = Empty
    BY <1>1 DEF Writes
  <1>3. d \in Cells => d \in g.live
    BY <1>1, HeldLives
  <1>4. g.slot[s] = r
    <2>1. CASE s = d
      BY <1>2, <2>1 DEF Stored
    <2>2. CASE s # d
      <3>1. s \in Cells => s \in g.live
        BY <1>1, <2>2, HeldLives
      <3>2. g.slot[s] = h.slot[s]
        BY <1>1, <2>2, <3>1 DEF Writes, Settles
      <3>3. QED  BY <2>2, <3>2 DEF Stored
    <2>3. QED  BY <2>1, <2>2
  <1>5. BoxAssign(h, d, s) = Store(g, d, r)
    BY <1>4 DEF BoxAssign, g
  <1>6. Fits(g, r)
    BY <1>2, <1>4, SoundFacts DEF Fits
  <1>7. g.slot[d].alloc = Nil
    BY <1>2, EmptyFacts
  <1> HIDE DEF r
  <1>8. Writes(g, Store(g, d, r), d, r) /\ Exact(g, Store(g, d, r), d, r)
    BY <1>2, <1>3, <1>6, <1>7, StoreIs
  <1>9. /\ Writes(h, Store(g, d, r), d, r)
        /\ Shared(h, d) => Exact(h, Store(g, d, r), d, r)
    BY <1>1, <1>8, WriteTwice
  <1>10. QED  BY <1>5, <1>9 DEF r

\* Ptr::operator=, between two pointers of one static type.
LEMMA PtrAssignIs ==
  ASSUME NEW h, NEW d \in Slots \ Cells, NEW s \in Slots \ Cells, Sound(h, Nil), d \in Ptrs,
         h.slot[d].type = Nil, h.slot[s].type = Nil
  PROVE  Writes(h, PtrAssign(h, d, s), d, Stored(h, d, s))
  <1> DEFINE r == h.slot[s]
  <1>1. Stored(h, d, s) = r
    BY DEF Stored
  <1>2. CASE h.slot[d].alloc # Nil /\ h.slot[d].alloc = h.slot[s].alloc
    <2>1. PtrAssign(h, d, s) = h
      BY <1>2 DEF PtrAssign
    <2>2. /\ h.slot[d] \in Box /\ h.slot[s] \in Box
          /\ h.slot[d].counted <=> h.slot[d].alloc # Nil
          /\ h.slot[s].counted <=> h.slot[s].alloc # Nil
      BY SoundFacts
    <2>3. h.slot[d] = r
      BY <1>2, <2>2 DEF Box
    <2>4. Writes(h, h, d, r)
      BY <2>3 DEF Writes, Settles
    <2>5. QED  BY <1>1, <2>1, <2>4
  <1>3. CASE ~(h.slot[d].alloc # Nil /\ h.slot[d].alloc = h.slot[s].alloc)
    <2> DEFINE g == Release(h, d)
    <2>1. Writes(h, g, d, Empty)
      BY ReleaseIs
    <2> HIDE DEF g
    <2>2. Sound(g, Nil) /\ g.slot[d] = Empty /\ g.slot[d].alloc = Nil
      BY <2>1, EmptyFacts DEF Writes
    <2>3. g.slot[s] = r
      <3>1. CASE s = d
        <4>1. h.slot[d].alloc = Nil
          BY <1>3, <3>1
        <4>2. h.slot[d] = Empty
          BY <4>1, SoundFacts DEF Empty, Box
        <4>3. QED  BY <2>2, <3>1, <4>2
      <3>2. CASE s # d
        BY <2>1, <3>2 DEF Writes, Settles
      <3>3. QED  BY <3>1, <3>2
    <2>4. PtrAssign(h, d, s) = Store(g, d, r)
      BY <1>3, <2>3 DEF PtrAssign, g
    <2>5. Fits(g, r)
      BY <2>2, <2>3, SoundFacts DEF Fits
    <2> HIDE DEF r
    <2>6. Writes(g, Store(g, d, r), d, r) /\ Exact(g, Store(g, d, r), d, r)
      BY <2>2, <2>5, StoreIs
    <2>7. Writes(h, Store(g, d, r), d, r)
      BY <2>1, <2>6, WriteTwice
    <2>8. QED  BY <1>1, <2>4, <2>7
  <1>4. QED  BY <1>2, <1>3

-----------------------------------------------------------------------------
(* What the types say: val[c] when cell c was made for a box of type any    *)
(* that holds its value, and rank[c] the number of cells made before c.     *)
(* What was boxed in a trait is no such value: its methods may write it.    *)

Used(kind) == {c \in Cells : kind[c] # Nil}

Typed(kind, val, rank, s, r) ==
    /\ s \in Ptrs => r.type = Nil
    /\ r.alloc # Nil =>
          /\ IF s \in Ptrs THEN kind[r.alloc] = Node ELSE r.type.kind = kind[r.alloc]
          /\ IF s \in Ptrs \union Traits THEN ~val[r.alloc]
             ELSE r.type = [kind |-> kind[r.alloc], ptr |-> ~val[r.alloc]]
          /\ s \in Cells /\ val[s] /\ val[r.alloc] => rank[r.alloc] < rank[s]

Shape(h, val, rank) ==
    /\ val \in [Cells -> BOOLEAN] /\ rank \in [Cells -> Nat]
    /\ \A s \in Slots : s # Tmp => Typed(h.kind, val, rank, s, h.slot[s])
    /\ \A c \in Used(h.kind) : rank[c] < Cardinality(Used(h.kind))

Good(h, val, rank) == Sound(h, Nil) /\ h.slot[Tmp] = Empty /\ Shape(h, val, rank)

\* The values in boxes that live on are as they were.
Frozen(h, g, val) == \A c \in h.live \intersect g.live : val[c] => g.slot[c] = h.slot[c]

Keeps(h, g, val, rank) == Good(g, val, rank) /\ Frozen(h, g, val)

\* The kinds of slots are apart.
LEMMA Names ==
  /\ Cells \subseteq Slots /\ Ptrs \subseteq Slots /\ Anys \subseteq Slots /\ Traits \subseteq Slots
  /\ Tmp \in Slots /\ Nil \notin Slots
  /\ \A x \in Ptrs : x \notin Anys /\ x \notin Traits /\ x \notin Cells
  /\ \A x \in Anys : x \notin Traits /\ x \notin Cells
  /\ \A x \in Traits : x \notin Cells
  /\ Tmp \notin Ptrs /\ Tmp \notin Anys /\ Tmp \notin Traits /\ Tmp \notin Cells
  /\ Node # List /\ Nil # Node /\ Nil # List
  BY ConstantAssumption DEF Slots

\* An empty slot is of every type.
LEMMA TypedEmpty ==
  ASSUME NEW kind, NEW val, NEW rank, NEW s
  PROVE  Typed(kind, val, rank, s, Empty)
  BY EmptyFacts DEF Typed

\* A write of a well-typed box keeps everything, unless it is into a boxed value.
LEMMA WriteKeeps ==
  ASSUME NEW h, NEW g, NEW val, NEW rank, NEW d \in Slots \ {Tmp}, NEW r,
         Good(h, val, rank), Writes(h, g, d, r), Typed(h.kind, val, rank, d, r),
         d \in Cells => ~val[d]
  PROVE  Keeps(h, g, val, rank)
  <1>1. \A s \in Slots : s # Tmp => Typed(h.kind, val, rank, s, g.slot[s])
    BY TypedEmpty DEF Good, Shape, Writes, Settles
  <1>2. Shape(g, val, rank)
    BY <1>1 DEF Good, Shape, Writes
  <1>3. g.slot[Tmp] = Empty
    BY Names DEF Good, Writes, Settles
  <1>4. Frozen(h, g, val)
    BY Names DEF Frozen, Good, Sound, Heaps, Writes, Settles
  <1>5. QED  BY <1>2, <1>3, <1>4 DEF Keeps, Good, Writes

\* An assignment writes what its source held, or nil where it is the same box.
LEMMA AssignIs ==
  ASSUME NEW h, NEW d \in Slots, NEW s \in Slots, Sound(h, Nil),
         Held(h, d, d), s # d => Held(h, s, d),
         d \in Ptrs => s \notin Cells /\ h.slot[d].type = Nil /\ h.slot[s].type = Nil
  PROVE  Writes(h, Assign(h, d, s), d, Stored(h, d, s))
  <1>1. CASE d \in Ptrs
    <2>1. d \in Slots \ Cells /\ s \in Slots \ Cells
      BY <1>1, Names
    <2>2. Writes(h, PtrAssign(h, d, s), d, Stored(h, d, s))
      BY <1>1, <2>1, PtrAssignIs
    <2>3. QED  BY <1>1, <2>2 DEF Assign
  <1>2. CASE d \notin Ptrs
    <2>1. Writes(h, BoxAssign(h, d, s), d, Stored(h, d, s))
      BY <1>2, BoxAssignIs
    <2>2. QED  BY <1>2, <2>1 DEF Assign
  <1>3. QED  BY <1>1, <1>2

\* What the temporary holds moves into d.
Moves(h, g, d) ==
    /\ Sound(g, Nil) /\ g.slot[d] = h.slot[Tmp] /\ g.slot[Tmp] = Empty
    /\ \A x \in Slots : x # d /\ x # Tmp =>
          \/ g.slot[x] = h.slot[x]
          \/ x \in Cells /\ x \notin g.live /\ g.slot[x] = Empty
    /\ g.kind = h.kind /\ g.live \subseteq h.live

\* An assignment from the temporary, and the end of the temporary.
LEMMA MovesIs ==
  ASSUME NEW h, NEW d \in Slots, d \notin Cells, d # Tmp, Sound(h, Nil),
         d \in Ptrs => h.slot[d].type = Nil /\ h.slot[Tmp].type = Nil
  PROVE  Moves(h, Release(Assign(h, d, Tmp), Tmp), d)
  <1> DEFINE g == Assign(h, d, Tmp)
             k == Release(g, Tmp)
  <1>1. Tmp \in Slots /\ Tmp \notin Cells
    BY Names
  <1>2. Held(h, d, d) /\ Held(h, Tmp, d)
    BY <1>1 DEF Held
  <1>3. Writes(h, g, d, h.slot[Tmp])
    <2>1. Writes(h, g, d, Stored(h, d, Tmp))
      BY <1>1, <1>2, AssignIs
    <2>2. Stored(h, d, Tmp) = h.slot[Tmp]
      BY DEF Stored
    <2>3. QED  BY <2>1, <2>2
  <1> HIDE DEF g
  <1>4. Sound(g, Nil)
    BY <1>3 DEF Writes
  <1>5. Writes(g, k, Tmp, Empty)
    BY <1>1, <1>4, ReleaseIs
  <1> HIDE DEF k
  <1>6. k.slot[d] = h.slot[Tmp]
    BY <1>3, <1>5 DEF Writes, Settles
  <1>7. ASSUME NEW x \in Slots, x # d, x # Tmp
        PROVE  k.slot[x] = h.slot[x] \/ (x \in Cells /\ x \notin k.live /\ k.slot[x] = Empty)
    BY <1>3, <1>5, <1>7 DEF Writes, Settles
  <1>8. Moves(h, k, d)
    BY <1>3, <1>5, <1>6, <1>7 DEF Writes, Moves
  <1>9. QED  BY <1>8 DEF k, g

\* A move keeps everything, if the type of what moves fits.
LEMMA MovesKeep ==
  ASSUME NEW h, NEW g, NEW val, NEW rank, NEW d \in Slots, d \notin Cells, d # Tmp,
         Shape(h, val, rank), Moves(h, g, d), Typed(h.kind, val, rank, d, h.slot[Tmp])
  PROVE  Good(g, val, rank) /\ \A c \in g.live : g.slot[c] = h.slot[c]
  <1>1. \A s \in Slots : s # Tmp => Typed(h.kind, val, rank, s, g.slot[s])
    BY TypedEmpty DEF Shape, Moves
  <1>2. Shape(g, val, rank)
    BY <1>1 DEF Shape, Moves
  <1>3. ASSUME NEW c \in g.live PROVE g.slot[c] = h.slot[c]
    <2>1. c \in Cells /\ c \in Slots /\ c # d /\ c # Tmp
      BY Names DEF Moves, Sound, Heaps
    <2>2. QED  BY <2>1 DEF Moves
  <1>4. QED  BY <1>2, <1>3 DEF Good, Moves

\* d = r for a temporary r.
LEMMA AssignTempKeeps ==
  ASSUME NEW h, NEW val, NEW rank, NEW d \in Slots, d \notin Cells, d # Tmp, NEW r,
         Good(h, val, rank), Fits(h, r), Typed(h.kind, val, rank, d, r)
  PROVE  Keeps(h, AssignTemp(h, d, r), val, rank)
  <1> DEFINE g == Store(h, Tmp, r)
             k == Release(Assign(g, d, Tmp), Tmp)
  <1>1. Tmp \in Slots /\ Tmp \notin Cells /\ h.slot[Tmp].alloc = Nil /\ Sound(h, Nil)
    BY Names, EmptyFacts DEF Good
  <1>2. Writes(h, g, Tmp, r) /\ Exact(h, g, Tmp, r)
    BY <1>1, StoreIs
  <1> HIDE DEF g
  <1>3. /\ Sound(g, Nil) /\ g.slot[Tmp] = r /\ g.kind = h.kind
        /\ \A x \in Slots : x # Tmp => g.slot[x] = h.slot[x]
    BY <1>2 DEF Writes, Exact, Elsewhere
  <1>4. Shape(g, val, rank) /\ Typed(g.kind, val, rank, d, g.slot[Tmp])
    BY <1>3 DEF Good, Shape
  <1>5. d \in Ptrs => g.slot[d].type = Nil /\ g.slot[Tmp].type = Nil
    BY <1>4 DEF Shape, Typed
  <1>6. Moves(g, k, d)
    BY <1>3, <1>5, MovesIs
  <1> HIDE DEF k
  <1>7. Good(k, val, rank) /\ \A c \in k.live : k.slot[c] = g.slot[c]
    BY <1>4, <1>6, MovesKeep
  <1>8. Frozen(h, k, val)
    <2>1. \A c \in h.live : c \in Slots /\ c # Tmp
      BY <1>1, Names DEF Sound, Heaps
    <2>2. QED  BY <1>3, <1>7, <2>1 DEF Frozen
  <1>9. AssignTemp(h, d, r) = k
    BY DEF AssignTemp, k, g
  <1>10. QED  BY <1>7, <1>8, <1>9 DEF Keeps

-----------------------------------------------------------------------------
(* A new cell.                                                             *)

\* Releasing what has no share changes one slot.
LEMMA ReleaseIdle ==
  ASSUME NEW h, NEW s \in Slots, ~h.slot[s].counted
  PROVE  Release(h, s) = [h EXCEPT !.slot[s] = Empty]
  <1> DEFINE g == [h EXCEPT !.slot[s] = Empty]
  <1>1. PICK f : /\ f[0] = <<h, s>> /\ Release(h, s) = f[N + 1][1]
                 /\ \A n \in 1 .. N + 1 : f[n] = Due(f[n - 1])
    BY ReleaseSteps
  <1>2. N \in Nat /\ s # Nil
    BY CellsFinite, Names
  <1>3. Due(<<h, s>>) = <<g, Nil>>
    BY <1>2 DEF Due, Drop
  <1> HIDE DEF g
  <1>4. Due(<<g, Nil>>) = <<g, Nil>>
    BY DEF Due
  <1> DEFINE S == {n \in 0 .. N : f[n + 1] = <<g, Nil>>}
  <1>5. 0 \in S
    <2>1. 1 \in 1 .. N + 1 /\ 1 - 1 = 0 /\ 0 + 1 = 1 /\ 0 \in 0 .. N
      BY <1>2
    <2>2. f[1] = <<g, Nil>>
      BY <1>1, <1>3, <2>1
    <2>3. QED  BY <2>1, <2>2
  <1>6. ASSUME NEW n \in 0 .. N - 1, n \in S PROVE n + 1 \in S
    <2>1. (n + 1) + 1 \in 1 .. N + 1 /\ ((n + 1) + 1) - 1 = n + 1 /\ n + 1 \in 0 .. N
      BY <1>2
    <2>2. f[n + 1] = <<g, Nil>>
      BY <1>6
    <2>3. f[(n + 1) + 1] = <<g, Nil>>
      BY <1>1, <1>4, <2>1, <2>2
    <2>4. QED  BY <2>1, <2>3
  <1>7. N \in S
    <2> HIDE DEF S
    <2>1. 0 .. N \subseteq S
      BY <1>2, <1>5, <1>6, UpTo
    <2>2. QED  BY <1>2, <2>1
  <1>8. Release(h, s) = g
    BY <1>1, <1>7
  <1>9. QED  BY <1>8 DEF g

\* Cell c is made, with a copy of r0 in its field and r as its first reference.
Made(h, g, c, k, r0, r) ==
    /\ Sound(g, Nil) /\ g.slot[c] = r0 /\ g.slot[Tmp] = r
    /\ \A x \in Slots : x # c /\ x # Tmp => g.slot[x] = h.slot[x]
    /\ g.kind[c] = k /\ \A x \in Cells : x # c => g.kind[x] = h.kind[x]
    /\ g.live = h.live \union {c}

Referred(h, r) == [h EXCEPT !.slot[Tmp] = r, !.count[r.alloc] = 1]

\* What New and its first reference make of the heap.
LEMMA MadeIs ==
  ASSUME NEW val, NEW rank, Good(heap, val, rank),
         NEW c \in Cells, Unused(c), NEW k \in {Node, List}, NEW s \in Slots, s # c,
         NEW type \in Types \union {Nil}
  PROVE  Made(heap, Referred(New(c, k, s), First(c, type)), c, k, heap.slot[s], First(c, type))
  <1> DEFINE h1 == [heap EXCEPT !.kind[c] = k]
             g == [heap EXCEPT !.kind[c] = k, !.live = @ \union {c}]
             m1 == [heap.slot EXCEPT ![c] = Empty]
             h2 == [g EXCEPT !.slot[c] = Empty]
             r0 == heap.slot[s]
             h3 == Store(h2, c, r0)
             r == First(c, type)
             h4 == Referred(h3, r)
  <1>1. /\ Sound(heap, Nil) /\ heap.slot[Tmp] = Empty /\ heap.kind[c] = Nil
        /\ heap \in Heaps /\ heap.slot \in [Slots -> Box] /\ heap.count \in [Cells -> Nat]
        /\ heap.live \in SUBSET Cells /\ heap.kind \in [Cells -> {Node, List, Nil}]
    BY DEF Good, Sound, Heaps, Unused
  <1>2. c \notin heap.live /\ heap.slot[c] = Empty /\ heap.count[c] = 0
    <2>1. c \notin heap.live /\ heap.slot[c] = Empty
      BY <1>1, Names DEF Sound
    <2>2. heap.count[c] \in Nat /\ ~(heap.count[c] > 0)
      BY <1>1, <2>1 DEF Sound
    <2>3. QED  BY <2>1, <2>2
  <1>3. /\ g.slot = heap.slot /\ g.count = heap.count /\ g.live = heap.live \union {c}
        /\ g.kind = [heap.kind EXCEPT ![c] = k] /\ g \in Heaps
    <2>1. k \in {Node, List, Nil}
      OBVIOUS
    <2>2. QED  BY <1>1, <2>1 DEF Heaps
  <1> HIDE DEF g
  <1>4. /\ h2.slot = m1 /\ h2.count = heap.count /\ h2.live = heap.live \union {c}
        /\ h2.kind = [heap.kind EXCEPT ![c] = k] /\ h2 \in Heaps
    BY <1>1, <1>3, EmptyFacts DEF Heaps
  <1>5. Release(g, c) = h2
    <2>1. ~g.slot[c].counted /\ c \in Slots
      BY <1>2, <1>3, EmptyFacts, Names
    <2>2. QED  BY <2>1, ReleaseIdle
  <1> HIDE DEF h2
  <1>6. m1 = heap.slot
    BY <1>1, <1>2
  <1>7. New(c, k, s) = h3
    <2>1. h2.slot[s] = r0
      BY <1>4, <1>6
    <2>2. New(c, k, s) = BoxAssign(g, c, s)
      BY DEF New, g
    <2>3. QED  BY <1>5, <2>1, <2>2 DEF BoxAssign
  <1>8. /\ r0 \in Box /\ (r0.counted <=> r0.alloc # Nil)
        /\ r0.alloc # Nil => r0.alloc \in heap.live /\ r0.alloc \in Cells
    BY <1>1, SoundFacts
  <1>9. r0.alloc # c
    BY <1>2, <1>8, Names
  <1> HIDE DEF r0
  <1> DEFINE m3 == [heap.slot EXCEPT ![c] = r0]
             n3 == IF r0.counted THEN [heap.count EXCEPT ![r0.alloc] = @ + 1] ELSE heap.count
  <1>10. /\ n3 \in [Cells -> Nat] /\ m3 \in [Slots -> Box]
         /\ \A x \in Cells : n3[x] = heap.count[x] + One(r0.alloc = x)
    <2>1. m3 \in [Slots -> Box]
      BY <1>1, <1>8
    <2> DEFINE n == heap.count
    <2>2. n \in [Cells -> Nat]
      BY <1>1
    <2> HIDE DEF m3, n
    <2>3. CASE r0.counted
      <3>1. n3 = [n EXCEPT ![r0.alloc] = @ + 1] /\ r0.alloc \in Cells
        BY <1>8, <2>3 DEF n
      <3> HIDE DEF n3
      <3>2. n3 \in [Cells -> Nat] /\ \A x \in Cells : n3[x] = n[x] + One(r0.alloc = x)
        BY <2>2, <3>1 DEF One
      <3>3. QED  BY <2>1, <3>2 DEF n
    <2>4. CASE ~r0.counted
      <3>1. n3 = n
        BY <2>4 DEF n
      <3>2. \A x \in Cells : One(r0.alloc = x) = 0 /\ n[x] \in Nat
        BY <1>8, <2>2, <2>4, Names DEF One
      <3> HIDE DEF n3
      <3>3. n3 \in [Cells -> Nat] /\ \A x \in Cells : n3[x] = n[x] + One(r0.alloc = x)
        BY <2>2, <3>1, <3>2
      <3>4. QED  BY <2>1, <3>3 DEF n
    <2>5. QED  BY <2>3, <2>4
  <1>11. h3.slot = m3 /\ h3.count = n3 /\ h3.kind = h2.kind /\ h3.live = h2.live /\ h3 \in Heaps
    <2> DEFINE w == [h2 EXCEPT !.slot[c] = r0]
    <2>1. w.slot = m3 /\ w.count = heap.count /\ w.kind = h2.kind /\ w.live = h2.live /\ w \in Heaps
      BY <1>4, <1>6, <1>10 DEF Heaps
    <2>2. CASE r0.counted
      <3> DEFINE v == [w EXCEPT !.count[r0.alloc] = @ + 1]
      <3>1. h3 = v
        BY <2>2 DEF Store
      <3>2. r0.alloc \in Cells /\ n3 = [heap.count EXCEPT ![r0.alloc] = @ + 1]
        BY <1>8, <2>2
      <3> HIDE DEF h3, w, m3, n3
      <3>3. v.slot = m3 /\ v.count = n3 /\ v.kind = h2.kind /\ v.live = h2.live /\ v \in Heaps
        BY <1>10, <2>1, <3>2 DEF Heaps
      <3>4. QED  BY <3>1, <3>3
    <2>3. CASE ~r0.counted
      <3>1. h3 = w /\ n3 = heap.count
        BY <2>3 DEF Store
      <3>2. QED  BY <2>1, <3>1
    <2>4. QED  BY <2>2, <2>3
  <1> HIDE DEF h3
  <1>12. r \in Box /\ r.alloc = c /\ r.counted
    BY DEF First, Box
  <1> HIDE DEF r
  <1> DEFINE m4 == [m3 EXCEPT ![Tmp] = r]
             n4 == [n3 EXCEPT ![c] = 1]
  <1>13. /\ m4 \in [Slots -> Box] /\ n4 \in [Cells -> Nat]
         /\ m4[c] = r0 /\ m4[Tmp] = r /\ \A x \in Slots : x # c /\ x # Tmp => m4[x] = heap.slot[x]
    BY <1>1, <1>8, <1>10, <1>12, Names
  <1>14. h4.slot = m4 /\ h4.count = n4 /\ h4.kind = h2.kind /\ h4.live = h2.live /\ h4 \in Heaps
    <2> DEFINE u == [h3 EXCEPT !.slot[Tmp] = r]
               v == [u EXCEPT !.count[c] = 1]
    <2>1. h4 = v
      BY <1>12 DEF Referred
    <2> HIDE DEF h4, m3, n3
    <2>2. u.slot = m4 /\ u.count = n3 /\ u.kind = h2.kind /\ u.live = h2.live /\ u \in Heaps
      BY <1>11, <1>13 DEF Heaps
    <2> HIDE DEF u, m4
    <2>3. v.slot = m4 /\ v.count = n4 /\ v.kind = h2.kind /\ v.live = h2.live /\ v \in Heaps
      BY <1>13, <2>2 DEF Heaps
    <2>4. QED  BY <2>1, <2>3
  <1>15. ASSUME NEW x \in Cells PROVE n4[x] = Cardinality(Hold(m4, x))
    <2>1. Elsewhere(heap.slot, m3, c) /\ Elsewhere(m3, m4, Tmp) /\ c \in Slots /\ Tmp \in Slots
      BY <1>1, Names DEF Elsewhere
    <2>2. m3[c] = r0 /\ m3[Tmp] = Empty /\ m4[Tmp] = r
      BY <1>1, <1>10, <1>13, Names
    <2>3. heap.count[x] = Cardinality(Hold(heap.slot, x)) /\ heap.count[x] \in Nat
      BY <1>1 DEF Sound
    <2>4. n4[x] = IF x = c THEN 1 ELSE heap.count[x] + One(r0.alloc = x)
      <3> HIDE DEF n3
      <3>1. QED  BY <1>10
    <2> HIDE DEF m3, m4, n3, n4
    <2>5. Cardinality(Hold(m3, x)) =
            (heap.count[x] - One(heap.slot[c].alloc = x)) + One(r0.alloc = x)
      BY <2>1, <2>2, <2>3, HoldChange
    <2>6. Cardinality(Hold(m4, x)) =
            (Cardinality(Hold(m3, x)) - One(m3[Tmp].alloc = x)) + One(r.alloc = x)
      BY <2>1, <2>2, HoldChange
    <2>7. One(heap.slot[c].alloc = x) = 0 /\ One(m3[Tmp].alloc = x) = 0
      BY <1>2, <2>2, EmptyFacts, Names DEF One
    <2>8. One(r0.alloc = x) \in {0, 1} /\ One(r.alloc = x) = (IF x = c THEN 1 ELSE 0)
      BY <1>12 DEF One
    <2>9. Cardinality(Hold(m4, x)) = (heap.count[x] + One(r0.alloc = x)) + One(r.alloc = x)
      BY <2>3, <2>5, <2>6, <2>7, <2>8
    <2>10. CASE x = c
      <3>1. heap.count[x] = 0 /\ One(r0.alloc = x) = 0
        BY <1>2, <1>9, <2>10 DEF One
      <3>2. QED  BY <2>4, <2>8, <2>9, <2>10, <3>1
    <2>11. CASE x # c
      BY <2>3, <2>4, <2>8, <2>9, <2>11
    <2>12. QED  BY <2>10, <2>11
  <1>16. ASSUME NEW x \in Cells
         PROVE  /\ x \in h2.live <=> n4[x] > 0
                /\ x \in h2.live => h2.kind[x] # Nil
                /\ x \notin h2.live => m4[x] = Empty
    <2>1. CASE x = c
      BY <1>1, <1>4, <1>10, <2>1, Names
    <2>2. CASE x # c
      <3>1. n4[x] = heap.count[x] + One(r0.alloc = x)
        <4> HIDE DEF n3
        <4>1. QED  BY <1>10, <2>2
      <3>2. x \in h2.live <=> x \in heap.live
        BY <1>4, <2>2
      <3>3. x \in heap.live <=> heap.count[x] > 0
        BY <1>1 DEF Sound
      <3>4. r0.alloc = x => x \in heap.live
        BY <1>8, Names
      <3>5. heap.count[x] \in Nat /\ One(r0.alloc = x) \in {0, 1}
        BY <1>1 DEF One
      <3>6. r0.alloc # x => One(r0.alloc = x) = 0
        BY DEF One
      <3> HIDE DEF m4, n4, m3, n3
      <3>7. x \in h2.live <=> n4[x] > 0
        <4>1. CASE r0.alloc = x
          BY <3>1, <3>2, <3>3, <3>4, <3>5, <4>1
        <4>2. CASE r0.alloc # x
          BY <3>1, <3>2, <3>3, <3>5, <3>6, <4>2
        <4>3. QED  BY <4>1, <4>2
      <3>8. x \in h2.live => h2.kind[x] # Nil
        BY <1>1, <1>4, <2>2 DEF Sound
      <3>9. x \notin h2.live => m4[x] = Empty
        BY <1>1, <1>4, <1>13, <2>2, Names DEF Sound
      <3>10. QED  BY <3>7, <3>8, <3>9
    <2>3. QED  BY <2>1, <2>2
  <1>17. \A x \in Slots : m4[x].counted <=> m4[x].alloc # Nil
    <2>1. \A x \in Slots : heap.slot[x].counted <=> heap.slot[x].alloc # Nil
      BY <1>1 DEF Sound
    <2>2. r.counted /\ r.alloc # Nil
      BY <1>12, Names
    <2> HIDE DEF m4
    <2>3. QED  BY <1>8, <1>13, <2>1, <2>2
  <1> HIDE DEF m4, n4, m3, n3, m1
  <1>18. Sound(h4, Nil)
    BY <1>14, <1>15, <1>16, <1>17 DEF Sound
  <1>19. Made(heap, h4, c, k, r0, r)
    BY <1>1, <1>4, <1>13, <1>14, <1>18 DEF Made
  <1>20. QED  BY <1>7, <1>19 DEF h4, r, r0

\* There are never more cells used than cells.
LEMMA UsedFinite ==
  ASSUME NEW kind
  PROVE  IsFiniteSet(Used(kind)) /\ Cardinality(Used(kind)) \in Nat /\ Cardinality(Used(kind)) <= N
  <1>1. Used(kind) \in SUBSET Cells
    BY DEF Used
  <1> DEFINE U == Used(kind)
  <1> HIDE DEF U
  <1>2. U \in SUBSET Cells
    BY <1>1 DEF U
  <1>3. IsFiniteSet(U) /\ Cardinality(U) \in Nat /\ Cardinality(U) <= N
    BY <1>2, CellsFinite, FS_Subset, FS_CardinalityType DEF N
  <1>4. QED  BY <1>3 DEF U

\* A new cell ranks above all the cells made before it, so what its field
\* holds by value ranks below it.
LEMMA MadeShape ==
  ASSUME NEW h, NEW g, NEW val, NEW rank, Good(h, val, rank), NEW c \in Cells, h.kind[c] = Nil,
         NEW k \in {Node, List}, NEW s \in Slots \ (Ptrs \union Traits), NEW r,
         Made(h, g, c, k, h.slot[s], r), NEW byValue \in BOOLEAN
  PROVE  Shape(g, [val EXCEPT ![c] = byValue], [rank EXCEPT ![c] = Cardinality(Used(h.kind))])
  <1> DEFINE v == [val EXCEPT ![c] = byValue]
             K == Cardinality(Used(h.kind))
             w == [rank EXCEPT ![c] = K]
             r0 == h.slot[s]
  <1>1. K \in Nat /\ IsFiniteSet(Used(h.kind))
    BY UsedFinite
  <1> HIDE DEF K
  <1>2. /\ v \in [Cells -> BOOLEAN] /\ v[c] = byValue /\ \A x \in Cells : x # c => v[x] = val[x]
        /\ w \in [Cells -> Nat] /\ w[c] = K /\ \A x \in Cells : x # c => w[x] = rank[x]
    BY <1>1 DEF Good, Shape
  <1> HIDE DEF v, w
  <1>3. /\ g.slot[c] = r0 /\ \A x \in Slots : x # c /\ x # Tmp => g.slot[x] = h.slot[x]
        /\ g.kind[c] = k /\ \A x \in Cells : x # c => g.kind[x] = h.kind[x]
        /\ c \in Slots /\ c # Tmp /\ c \notin Ptrs /\ c \notin Traits
    BY Names DEF Made
  <1>4. ASSUME NEW x \in Slots, h.slot[x].alloc # Nil
        PROVE  /\ h.slot[x].alloc \in Cells /\ h.slot[x].alloc # c
               /\ h.kind[h.slot[x].alloc] # Nil /\ rank[h.slot[x].alloc] < K
    <2>1. Sound(h, Nil)
      BY DEF Good
    <2>2. h.slot[x].alloc \in Cells /\ h.slot[x].alloc \in h.live
      BY <1>4, <2>1, SoundFacts
    <2>3. h.kind[h.slot[x].alloc] # Nil
      BY <2>1, <2>2 DEF Sound
    <2>4. rank[h.slot[x].alloc] < K
      BY <2>2, <2>3 DEF Good, Shape, Used, K
    <2>5. QED  BY <2>2, <2>3, <2>4
  <1>5. ASSUME NEW x \in Slots, x # Tmp PROVE Typed(g.kind, v, w, x, g.slot[x])
    <2>1. CASE x = c
      <3>1. CASE s = Tmp
        BY <1>3, <2>1, <3>1, TypedEmpty DEF Good
      <3>2. CASE s # Tmp
        <4>1. Typed(h.kind, val, rank, s, r0)
          BY <3>2 DEF Good, Shape
        <4>2. r0.alloc # Nil =>
                 /\ r0.alloc \in Cells /\ r0.alloc # c /\ rank[r0.alloc] < K
                 /\ v[r0.alloc] = val[r0.alloc] /\ w[r0.alloc] = rank[r0.alloc]
                 /\ g.kind[r0.alloc] = h.kind[r0.alloc]
          BY <1>2, <1>3, <1>4
        <4>3. Typed(g.kind, v, w, c, r0)
          <5> HIDE DEF r0
          <5>1. QED  BY <1>2, <1>3, <4>1, <4>2 DEF Typed
        <4>4. QED  BY <1>3, <2>1, <4>3
      <3>3. QED  BY <3>1, <3>2
    <2>2. CASE x # c
      <3> DEFINE t == h.slot[x]
      <3>1. Typed(h.kind, val, rank, x, t) /\ g.slot[x] = t
        BY <1>3, <1>5, <2>2 DEF Good, Shape
      <3>2. t.alloc # Nil =>
               /\ t.alloc \in Cells /\ v[t.alloc] = val[t.alloc] /\ w[t.alloc] = rank[t.alloc]
               /\ g.kind[t.alloc] = h.kind[t.alloc]
        BY <1>2, <1>3, <1>4
      <3>3. x \in Cells => v[x] = val[x] /\ w[x] = rank[x]
        BY <1>2, <2>2
      <3> HIDE DEF t
      <3>4. Typed(g.kind, v, w, x, t)
        BY <3>1, <3>2, <3>3 DEF Typed
      <3>5. QED  BY <3>1, <3>4
    <2>3. QED  BY <2>1, <2>2
  <1>6. Used(g.kind) = Used(h.kind) \union {c} /\ c \notin Used(h.kind)
    BY <1>3, Names DEF Used
  <1>7. Cardinality(Used(g.kind)) = K + 1
    BY <1>1, <1>6, FS_AddElement DEF K
  <1>8. \A x \in Used(g.kind) : w[x] < Cardinality(Used(g.kind))
    <2>1. ASSUME NEW x \in Used(g.kind) PROVE w[x] < K + 1
      <3>1. CASE x = c
        BY <1>1, <1>2, <3>1
      <3>2. CASE x # c
        <4>1. x \in Used(h.kind) /\ x \in Cells
          BY <1>6, <3>2 DEF Used
        <4>2. rank[x] < K /\ rank[x] \in Nat /\ w[x] = rank[x]
          BY <1>2, <3>2, <4>1 DEF Good, Shape, K
        <4>3. QED  BY <1>1, <4>2
      <3>3. QED  BY <3>1, <3>2
    <2>2. QED  BY <1>7, <2>1
  <1>9. Shape(g, v, w)
    BY <1>2, <1>5, <1>8 DEF Shape
  <1>10. QED  BY <1>9 DEF v, w, K

\* A new cell and its move into a variable keep everything; its rank is the
\* number of cells used before.
LEMMA NewKeeps ==
  ASSUME NEW val, NEW rank, Good(heap, val, rank),
         NEW c \in Cells, Unused(c), NEW k \in {Node, List}, NEW s \in Slots \ (Ptrs \union Traits), s # c,
         NEW d \in Slots, d \notin Cells, d # Tmp, NEW type \in Types \union {Nil},
         IF d \in Ptrs THEN type = Nil /\ k = Node ELSE type \in Types /\ type.kind = k
  PROVE  \E v, w : /\ Good(MoveInto(New(c, k, s), d, First(c, type)), v, w)
                   /\ Frozen(heap, MoveInto(New(c, k, s), d, First(c, type)), val)
  <1> DEFINE r == First(c, type)
             h == Referred(New(c, k, s), r)
             g == Release(Assign(h, d, Tmp), Tmp)
             byValue == d \notin Ptrs \union Traits /\ type.ptr = FALSE
             v == [val EXCEPT ![c] = byValue]
             w == [rank EXCEPT ![c] = Cardinality(Used(heap.kind))]
  <1>1. Made(heap, h, c, k, heap.slot[s], r)
    BY MadeIs
  <1>2. MoveInto(New(c, k, s), d, r) = g
    BY DEF MoveInto, Referred
  <1>3. r.alloc = c /\ r.type = type
    BY DEF First
  <1>4. byValue \in BOOLEAN /\ heap.kind[c] = Nil
    BY DEF Unused
  <1> HIDE DEF h, g, r
  <1>5. Shape(h, v, w)
    <2> HIDE DEF byValue
    <2>1. QED  BY <1>1, <1>4, MadeShape
  <1>6. v[c] = byValue
    BY DEF Good, Shape
  <1> HIDE DEF v, w
  <1>7. Sound(h, Nil) /\ h.slot[Tmp] = r /\ h.kind[c] = k
    BY <1>1 DEF Made
  <1>8. Typed(h.kind, v, w, d, h.slot[Tmp])
    <2>1. CASE d \in Ptrs
      BY <1>3, <1>6, <1>7, <2>1 DEF Typed
    <2>2. CASE d \notin Ptrs
      <3>1. type = [kind |-> k, ptr |-> type.ptr] /\ type.ptr \in BOOLEAN /\ type.kind = k
        BY <2>2 DEF Types
      <3>2. CASE d \in Traits
        <4>1. v[c] = FALSE
          BY <1>6, <3>2
        <4>2. QED  BY <1>3, <1>7, <2>2, <3>1, <3>2, <4>1, Names DEF Typed
      <3>3. CASE d \notin Traits /\ type.ptr = TRUE
        <4>1. v[c] = FALSE /\ type = [kind |-> k, ptr |-> TRUE]
          BY <1>6, <3>1, <3>3
        <4>2. QED  BY <1>3, <1>7, <2>2, <3>1, <3>3, <4>1, Names DEF Typed
      <3>4. CASE d \notin Traits /\ type.ptr = FALSE
        <4>1. v[c] = TRUE /\ type = [kind |-> k, ptr |-> FALSE]
          BY <1>6, <2>2, <3>1, <3>4
        <4>2. QED  BY <1>3, <1>7, <2>2, <3>1, <3>4, <4>1, Names DEF Typed
      <3>5. QED  BY <3>1, <3>2, <3>3, <3>4
    <2>3. QED  BY <2>1, <2>2
  <1>9. d \in Ptrs => h.slot[d].type = Nil /\ h.slot[Tmp].type = Nil
    BY <1>5, <1>8 DEF Shape, Typed
  <1>10. Moves(h, g, d)
    <2>1. Moves(h, Release(Assign(h, d, Tmp), Tmp), d)
      BY <1>7, <1>9, MovesIs
    <2>2. QED  BY <2>1 DEF g
  <1>11. Good(g, v, w) /\ \A x \in g.live : g.slot[x] = h.slot[x]
    BY <1>5, <1>8, <1>10, MovesKeep
  <1>12. Frozen(heap, g, val)
    <2>1. c \notin heap.live
      BY <1>4 DEF Good, Sound
    <2>2. \A x \in heap.live : x \in Slots /\ x # c /\ x # Tmp
      BY <2>1, Names DEF Good, Sound, Heaps
    <2>3. QED  BY <1>1, <1>11, <2>2 DEF Frozen, Made
  <1>13. QED  BY <1>2, <1>11, <1>12 DEF r

-----------------------------------------------------------------------------
(* Swaps.                                                                  *)

\* std::swap of two boxes: every step of it replaces a share by a share of
\* another holder, so nothing is deleted.
LEMMA SwapBoxIs ==
  ASSUME NEW h, NEW x \in Slots, NEW y \in Slots, Sound(h, Nil), h.slot[Tmp] = Empty,
         x \notin Cells, y \notin Cells, x \notin Ptrs, y \notin Ptrs, x # Tmp, y # Tmp
  PROVE  /\ Sound(SwapBox(h, x, y), Nil)
         /\ SwapBox(h, x, y) = [h EXCEPT !.slot[x] = h.slot[y], !.slot[y] = h.slot[x]]
  <1> DEFINE b == h.slot[x]
             r2 == IF x = y THEN Empty ELSE h.slot[y]
             h1 == Store(h, Tmp, b)
             h2 == BoxAssign(h1, x, y)
             h3 == BoxAssign(h2, y, Tmp)
             h4 == Release(h3, Tmp)
  <1>1. Tmp \in Slots /\ Tmp \notin Cells /\ Tmp \notin Ptrs
    BY Names
  <1>2. Fits(h, b)
    BY SoundFacts DEF Fits
  <1> HIDE DEF b
  <1>3. Writes(h, h1, Tmp, b) /\ Exact(h, h1, Tmp, b)
    BY <1>1, <1>2, EmptyFacts, StoreIs
  <1> HIDE DEF h1
  <1>4. /\ Sound(h1, Nil) /\ h1.slot[Tmp] = b
        /\ \A s \in Slots : s # Tmp => h1.slot[s] = h.slot[s]
    BY <1>3 DEF Writes, Exact, Elsewhere
  <1>5. Writes(h1, h2, x, r2) /\ Exact(h1, h2, x, r2)
    <2>1. Shared(h1, x)
      BY <1>1, <1>4 DEF Shared, b
    <2>2. Stored(h1, x, y) = r2
      BY <1>4 DEF Stored
    <2>3. Held(h1, x, x) /\ Held(h1, y, x)
      BY DEF Held
    <2>4. /\ Writes(h1, h2, x, Stored(h1, x, y))
          /\ Shared(h1, x) => Exact(h1, h2, x, Stored(h1, x, y))
      BY <1>4, <2>3, BoxAssignIs
    <2>5. QED  BY <2>1, <2>2, <2>4
  <1> HIDE DEF h2
  <1>6. /\ Sound(h2, Nil) /\ h2.slot[x] = r2 /\ h2.slot[y] = r2 /\ h2.slot[Tmp] = b
        /\ \A s \in Slots : s # Tmp /\ s # x => h2.slot[s] = h.slot[s]
    BY <1>1, <1>4, <1>5 DEF Writes, Exact, Elsewhere
  <1>7. Writes(h2, h3, y, b) /\ Exact(h2, h3, y, b)
    <2>1. Shared(h2, y)
      BY <1>6, EmptyFacts DEF Shared
    <2>2. Stored(h2, y, Tmp) = b
      BY <1>6 DEF Stored
    <2>3. Held(h2, y, y) /\ Held(h2, Tmp, y)
      BY <1>1 DEF Held
    <2>4. /\ Writes(h2, h3, y, Stored(h2, y, Tmp))
          /\ Shared(h2, y) => Exact(h2, h3, y, Stored(h2, y, Tmp))
      BY <1>1, <1>6, <2>3, BoxAssignIs
    <2>5. QED  BY <2>1, <2>2, <2>4
  <1> HIDE DEF h3
  <1>8. /\ Sound(h3, Nil) /\ h3.slot[y] = b /\ h3.slot[Tmp] = b
        /\ \A s \in Slots : s # y => h3.slot[s] = h2.slot[s]
    BY <1>1, <1>6, <1>7 DEF Writes, Exact, Elsewhere
  <1>9. Writes(h3, h4, Tmp, Empty) /\ Exact(h3, h4, Tmp, Empty)
    <2>1. Shared(h3, Tmp)
      BY <1>8 DEF Shared
    <2>2. QED  BY <1>1, <1>8, <2>1, ReleaseIs
  <1>10. h4 = SwapBox(h, x, y)
    BY DEF SwapBox, h4, h3, h2, h1, b
  <1> HIDE DEF h4
  <1>11. \A s \in Slots : h4.slot[s] = IF s = y THEN h.slot[x] ELSE IF s = x THEN h.slot[y] ELSE h.slot[s]
    <2>1. ASSUME NEW s \in Slots, s # Tmp PROVE h4.slot[s] = h3.slot[s]
      BY <1>9, <2>1 DEF Exact, Elsewhere
    <2>2. h4.slot[Tmp] = Empty
      BY <1>9 DEF Writes
    <2>3. ASSUME NEW s \in Slots
          PROVE  h4.slot[s] = IF s = y THEN b ELSE IF s = x THEN h.slot[y] ELSE h.slot[s]
      <3>1. CASE s = Tmp
        BY <2>2, <3>1
      <3>2. CASE s # Tmp /\ s = y
        BY <1>8, <2>1, <3>2
      <3>3. CASE s # Tmp /\ s # y /\ s = x
        BY <1>6, <1>8, <2>1, <3>3
      <3>4. CASE s # Tmp /\ s # y /\ s # x
        BY <1>6, <1>8, <2>1, <3>4
      <3>5. QED  BY <3>1, <3>2, <3>3, <3>4
    <2>4. QED  BY <2>3 DEF b
  <1>12. ASSUME NEW c \in Cells PROVE h4.count[c] = h.count[c]
    <2> DEFINE o == One(b.alloc = c)
               w == One(r2.alloc = c)
    <2>1. /\ h1.count[c] = (h.count[c] - One(h.slot[Tmp].alloc = c)) + o
          /\ h2.count[c] = (h1.count[c] - One(h1.slot[x].alloc = c)) + w
          /\ h3.count[c] = (h2.count[c] - One(h2.slot[y].alloc = c)) + o
          /\ h4.count[c] = (h3.count[c] - One(h3.slot[Tmp].alloc = c)) + One(Empty.alloc = c)
      BY <1>3, <1>5, <1>7, <1>9 DEF Exact, Counts
    <2>2. One(h.slot[Tmp].alloc = c) = 0 /\ One(Empty.alloc = c) = 0
      BY EmptyFacts, Names DEF One
    <2>3. h1.slot[x] = b
      BY <1>4 DEF b
    <2>4. o \in {0, 1} /\ w \in {0, 1} /\ h.count[c] \in Nat
      BY SoundFacts DEF One
    <2> DEFINE i == h.count[c]
               i1 == h1.count[c]
               i2 == h2.count[c]
               i3 == h3.count[c]
               i4 == h4.count[c]
    <2>5. i1 = (i - 0) + o /\ i2 = (i1 - o) + w /\ i3 = (i2 - w) + o /\ i4 = (i3 - o) + 0
      BY <1>6, <1>8, <2>1, <2>2, <2>3
    <2>6. o \in {0, 1} /\ w \in {0, 1} /\ i \in Nat
      BY <2>4
    <2> HIDE DEF i, i1, i2, i3, i4, o, w
    <2>7. i4 = i
      BY <2>5, <2>6
    <2>8. QED  BY <2>7 DEF i, i4
  <1>13. Sound(h4, Nil) /\ h4.live = h.live /\ h4.kind = h.kind
    BY <1>3, <1>5, <1>7, <1>9 DEF Writes, Exact
  <1>14. h4 = [h EXCEPT !.slot[x] = h.slot[y], !.slot[y] = h.slot[x]]
    <2> DEFINE g == [h EXCEPT !.slot[x] = h.slot[y]]
               k == [g EXCEPT !.slot[y] = h.slot[x]]
    <2>1. /\ h \in Heaps /\ h.slot \in [Slots -> Box] /\ h.count \in [Cells -> Nat]
          /\ h4 \in Heaps /\ h4.slot \in [Slots -> Box] /\ h4.count \in [Cells -> Nat]
      BY <1>13 DEF Sound, Heaps
    <2>2. /\ g \in Heaps /\ g.slot = [h.slot EXCEPT ![x] = h.slot[y]]
          /\ g.count = h.count /\ g.live = h.live /\ g.kind = h.kind
      BY <2>1 DEF Heaps
    <2>3. k = [h EXCEPT !.slot[x] = h.slot[y], !.slot[y] = h.slot[x]]
      OBVIOUS
    <2> HIDE DEF g
    <2>4. /\ k \in Heaps /\ k.slot = [g.slot EXCEPT ![y] = h.slot[x]]
          /\ k.count = h.count /\ k.live = h.live /\ k.kind = h.kind
      BY <2>1, <2>2 DEF Heaps
    <2> HIDE DEF k
    <2>5. k.slot \in [Slots -> Box] /\ k.count \in [Cells -> Nat]
      BY <2>4 DEF Heaps
    <2>6. \A s \in Slots : h4.slot[s] = k.slot[s]
      BY <1>11, <2>1, <2>2, <2>4
    <2>7. h4.slot = k.slot
      BY <2>1, <2>5, <2>6
    <2>8. \A c \in Cells : h4.count[c] = k.count[c]
      BY <1>12, <2>4
    <2>9. h4.count = k.count
      BY <2>1, <2>5, <2>8
    <2>10. h4 = k
      BY <1>13, <2>1, <2>4, <2>7, <2>9 DEF Heaps
    <2>11. QED  BY <2>3, <2>10
  <1>15. QED  BY <1>10, <1>13, <1>14

\* A swap of two boxes keeps everything.
LEMMA SwapBoxKeeps ==
  ASSUME NEW h, NEW x \in Slots, NEW y \in Slots, NEW val, NEW rank, Good(h, val, rank),
         x \notin Cells, y \notin Cells, x \notin Ptrs, y \notin Ptrs, x # Tmp, y # Tmp,
         x \in Traits <=> y \in Traits
  PROVE  Keeps(h, SwapBox(h, x, y), val, rank)
  <1> DEFINE g == SwapBox(h, x, y)
  <1>1. Sound(g, Nil) /\ g = [h EXCEPT !.slot[x] = h.slot[y], !.slot[y] = h.slot[x]]
    BY SwapBoxIs DEF Good
  <1>2. h \in Heaps /\ h.slot \in [Slots -> Box]
    BY DEF Good, Sound, Heaps
  <1>3. /\ g.kind = h.kind /\ g.live = h.live
        /\ \A s \in Slots : g.slot[s] = IF s = y THEN h.slot[x] ELSE IF s = x THEN h.slot[y] ELSE h.slot[s]
    BY <1>1, <1>2 DEF Heaps
  <1> HIDE DEF g
  <1>4. ASSUME NEW s \in Slots, s # Tmp PROVE Typed(h.kind, val, rank, s, g.slot[s])
    <2>1. /\ Typed(h.kind, val, rank, s, h.slot[s]) /\ Typed(h.kind, val, rank, x, h.slot[x])
          /\ Typed(h.kind, val, rank, y, h.slot[y])
      BY <1>4 DEF Good, Shape
    <2>2. CASE s \in {x, y}
      BY <1>3, <2>1, <2>2 DEF Typed
    <2>3. CASE s \notin {x, y}
      BY <1>3, <2>1, <2>3
    <2>4. QED  BY <2>2, <2>3
  <1>5. Shape(g, val, rank)
    BY <1>3, <1>4 DEF Good, Shape
  <1>6. g.slot[Tmp] = Empty
    BY <1>3, Names DEF Good
  <1>7. Frozen(h, g, val)
    <2>1. \A c \in h.live : c \in Slots /\ c # x /\ c # y
      BY <1>2, Names DEF Heaps
    <2>2. QED  BY <1>3, <2>1 DEF Frozen
  <1>8. QED  BY <1>1, <1>5, <1>6, <1>7 DEF Keeps, Good, g

\* std::swap of two pointers that are not equal: the share of x moves to the
\* temporary before x is overwritten, and from there to y.
LEMMA SwapPtrKeeps ==
  ASSUME NEW h, NEW x \in Ptrs, NEW y \in Ptrs, NEW val, NEW rank, Good(h, val, rank),
         h.slot[x].alloc = Nil \/ h.slot[x].alloc # h.slot[y].alloc
  PROVE  Keeps(h, SwapPtr(h, x, y), val, rank)
  <1> DEFINE b == h.slot[x]
             g0 == [h EXCEPT !.slot[Tmp] = b]
             g == [g0 EXCEPT !.slot[x].counted = FALSE]
             e == [g EXCEPT !.slot[x] = Empty]
             r == e.slot[y]
             f == Store(e, x, r)
             k == Release(Assign(f, y, Tmp), Tmp)
  <1>1. /\ x \in Slots /\ y \in Slots /\ Tmp \in Slots /\ x # Tmp /\ y # Tmp
        /\ x \notin Cells /\ y \notin Cells /\ Cells \subseteq Slots /\ Tmp \notin Cells
    BY Names
  <1>2. /\ Sound(h, Nil) /\ h.slot[Tmp] = Empty /\ h \in Heaps /\ h.slot \in [Slots -> Box]
        /\ h.count \in [Cells -> Nat] /\ h.live \subseteq Cells
    BY DEF Good, Sound, Heaps
  <1>3. b \in Box /\ b = h.slot[x]
    BY <1>1, <1>2
  <1> HIDE DEF b
  <1>4. /\ g0 \in Heaps /\ g0.slot = [h.slot EXCEPT ![Tmp] = b]
        /\ g0.count = h.count /\ g0.live = h.live /\ g0.kind = h.kind
    BY <1>1, <1>2, <1>3 DEF Heaps
  <1>5. g = [h EXCEPT !.slot[Tmp] = h.slot[x], !.slot[x].counted = FALSE]
    BY DEF b
  <1> HIDE DEF g0
  <1>6. /\ g \in Heaps /\ g.slot = [g0.slot EXCEPT ![x].counted = FALSE]
        /\ g.count = h.count /\ g.live = h.live /\ g.kind = h.kind
    <2> DEFINE q == [g0.slot EXCEPT ![x].counted = FALSE]
    <2>1. g0.slot \in [Slots -> Box]
      BY <1>4 DEF Heaps
    <2>2. q \in [Slots -> Box]
      BY <1>1, <2>1 DEF Box
    <2>3. QED  BY <1>4, <2>1, <2>2 DEF Heaps
  <1>7. /\ g.slot \in [Slots -> Box] /\ g.slot[Tmp] = b /\ ~g.slot[x].counted
        /\ g.slot[x].alloc = b.alloc /\ \A s \in Slots : s # x /\ s # Tmp => g.slot[s] = h.slot[s]
    <2>1. g0.slot \in [Slots -> Box]
      BY <1>4 DEF Heaps
    <2>2. g.slot \in [Slots -> Box]
      BY <1>6 DEF Heaps
    <2>3. g.slot[Tmp] = b
      BY <1>1, <1>2, <1>3, <1>4, <1>6
    <2>4. g0.slot[x] = b /\ g.slot[x] = [g0.slot[x] EXCEPT !.counted = FALSE]
      BY <1>1, <1>2, <1>3, <1>4, <1>6, <2>1
    <2>5. ~g.slot[x].counted /\ g.slot[x].alloc = b.alloc
      BY <1>3, <2>4 DEF Box
    <2>6. \A s \in Slots : s # x /\ s # Tmp => g.slot[s] = h.slot[s]
      BY <1>1, <1>2, <1>4, <1>6, <2>1
    <2>7. QED  BY <2>2, <2>3, <2>5, <2>6
  <1> HIDE DEF g
  <1>8. /\ e \in Heaps /\ e.slot = [g.slot EXCEPT ![x] = Empty]
        /\ e.count = h.count /\ e.live = h.live /\ e.kind = h.kind
    BY <1>6, <1>7, EmptyFacts DEF Heaps
  <1>9. /\ e.slot \in [Slots -> Box] /\ e.slot[Tmp] = b /\ e.slot[x] = Empty
        /\ \A s \in Slots : s # x /\ s # Tmp => e.slot[s] = h.slot[s]
    BY <1>1, <1>7, <1>8, EmptyFacts
  <1>10. Release(g, x) = e
    BY <1>1, <1>7, ReleaseIdle
  <1>11. Assign(g, x, y) = f
    <2>1. g.slot[y].alloc = h.slot[y].alloc
      BY <1>1, <1>3, <1>7
    <2>2. ~(g.slot[x].alloc # Nil /\ g.slot[x].alloc = g.slot[y].alloc)
      BY <1>3, <1>7, <2>1
    <2>3. QED  BY <1>10, <2>2 DEF Assign, PtrAssign
  <1> HIDE DEF e
  <1>12. Sound(e, Nil)
    <2> DEFINE m == [h.slot EXCEPT ![Tmp] = b]
    <2>1. Elsewhere(h.slot, m, Tmp) /\ Elsewhere(m, e.slot, x) /\ m[Tmp] = b /\ m[x] = b
      BY <1>1, <1>2, <1>3, <1>9 DEF Elsewhere
    <2> HIDE DEF m
    <2>2. ASSUME NEW c \in Cells PROVE e.count[c] = Cardinality(Hold(e.slot, c))
      <3>1. /\ Cardinality(Hold(m, c)) = (h.count[c] - One(h.slot[Tmp].alloc = c)) + One(b.alloc = c)
            /\ Cardinality(Hold(e.slot, c)) =
                  (Cardinality(Hold(m, c)) - One(b.alloc = c)) + One(Empty.alloc = c)
        BY <1>1, <1>2, <1>9, <2>1, HoldChange DEF Sound
      <3>2. One(h.slot[Tmp].alloc = c) = 0 /\ One(Empty.alloc = c) = 0
        BY <1>2, EmptyFacts, Names DEF One
      <3>3. One(b.alloc = c) \in {0, 1} /\ h.count[c] \in Nat
        BY <1>2 DEF One
      <3>4. QED  BY <1>8, <3>1, <3>2, <3>3
    <2>3. \A s \in Slots : e.slot[s].counted <=> e.slot[s].alloc # Nil
      <3>1. \A s \in Slots : h.slot[s].counted <=> h.slot[s].alloc # Nil
        BY <1>2 DEF Sound
      <3>2. b.counted <=> b.alloc # Nil
        BY <1>1, <1>3, <3>1
      <3>3. QED  BY <1>9, <3>1, <3>2, EmptyFacts
    <2>4. \A c \in Cells : /\ c \in e.live <=> e.count[c] > 0
                           /\ c \in e.live => e.kind[c] # Nil
                           /\ c \notin e.live => e.slot[c] = Empty
      BY <1>1, <1>2, <1>8, <1>9, Names DEF Sound
    <2>5. QED  BY <1>8, <2>2, <2>3, <2>4 DEF Sound
  <1>13. Fits(e, r)
    BY <1>1, <1>12, SoundFacts DEF Fits
  <1>14. r = IF x = y THEN Empty ELSE h.slot[y]
    BY <1>1, <1>9
  <1> HIDE DEF r
  <1>15. Writes(e, f, x, r) /\ Exact(e, f, x, r)
    BY <1>1, <1>9, <1>12, <1>13, EmptyFacts, StoreIs
  <1> HIDE DEF f
  <1>16. /\ Sound(f, Nil) /\ f.kind = h.kind /\ f.live = h.live
         /\ f.slot[x] = r /\ f.slot[Tmp] = b
         /\ \A s \in Slots : s # x /\ s # Tmp => f.slot[s] = h.slot[s]
    BY <1>1, <1>8, <1>9, <1>15 DEF Writes, Exact, Elsewhere
  <1>17. Typed(h.kind, val, rank, x, r) /\ Typed(h.kind, val, rank, y, b)
    <2>1. Typed(h.kind, val, rank, x, h.slot[x]) /\ Typed(h.kind, val, rank, y, h.slot[y])
      BY <1>1 DEF Good, Shape
    <2>2. Typed(h.kind, val, rank, y, b)
      BY <1>1, <1>3, <2>1 DEF Typed
    <2>3. Typed(h.kind, val, rank, x, r)
      BY <1>1, <1>14, <2>1, TypedEmpty DEF Typed
    <2>4. QED  BY <2>2, <2>3
  <1>18. Shape(f, val, rank)
    BY <1>16, <1>17 DEF Good, Shape
  <1>19. f.slot[y].type = Nil /\ f.slot[Tmp].type = Nil
    BY <1>1, <1>16, <1>17, <1>18 DEF Shape, Typed
  <1>20. Moves(f, k, y)
    BY <1>1, <1>16, <1>19, MovesIs
  <1>21. Typed(f.kind, val, rank, y, f.slot[Tmp])
    BY <1>16, <1>17
  <1>22. SwapPtr(h, x, y) = k
    BY <1>5, <1>11 DEF SwapPtr, k
  <1> HIDE DEF k
  <1>23. Good(k, val, rank) /\ \A c \in k.live : k.slot[c] = f.slot[c]
    BY <1>1, <1>18, <1>20, <1>21, MovesKeep
  <1>24. Frozen(h, k, val)
    <2>1. \A c \in h.live : c \in Slots /\ c # x /\ c # Tmp
      BY <1>1, <1>2
    <2>2. QED  BY <1>16, <1>23, <2>1 DEF Frozen
  <1>25. QED  BY <1>22, <1>23, <1>24 DEF Keeps

-----------------------------------------------------------------------------
(* Statements.                                                             *)

IInv == \E val, rank : Good(heap, val, rank)

\* What a statement does, for any ghosts of the heap before it.
Step(val) == \E v, w : Good(heap', v, w) /\ Frozen(heap, heap', val)

Fresh == [slot |-> [s \in Slots |-> Empty], count |-> [c \in Cells |-> 0],
          kind |-> [c \in Cells |-> Nil], live |-> {}]

\* A heap without a cell has its ghosts.
LEMMA FreshGood == \E v, w : Good(Fresh, v, w)
  <1> DEFINE v == [c \in Cells |-> FALSE]
             w == [c \in Cells |-> 0]
             m == [s \in Slots |-> Empty]
  <1>1. Fresh \in Heaps
    BY EmptyFacts DEF Fresh, Heaps
  <1>2. /\ Fresh.slot = m /\ Fresh.live = {}
        /\ \A c \in Cells : Fresh.count[c] = 0 /\ Fresh.kind[c] = Nil
    BY DEF Fresh
  <1>3. \A s \in Slots : m[s] = Empty
    OBVIOUS
  <1> HIDE DEF m
  <1>4. ASSUME NEW c \in Cells PROVE Cardinality(Hold(m, c)) = 0
    <2>1. Hold(m, c) = {}
      BY <1>3, EmptyFacts, Names DEF Hold
    <2>2. QED  BY <2>1, FS_EmptySet
  <1>5. Sound(Fresh, Nil)
    BY <1>1, <1>2, <1>3, <1>4, EmptyFacts, Names DEF Sound
  <1>6. Used(Fresh.kind) = {}
    BY <1>2 DEF Used
  <1>7. \A s \in Slots : Typed(Fresh.kind, v, w, s, Fresh.slot[s])
    BY <1>2, <1>3, TypedEmpty
  <1>8. Shape(Fresh, v, w)
    BY <1>6, <1>7 DEF Shape
  <1>9. Fresh.slot[Tmp] = Empty
    BY <1>2, <1>3, Names
  <1>10. QED  BY <1>5, <1>8, <1>9 DEF Good

\* A panic ends the program.
LEMMA PanicStep ==
  ASSUME NEW val, NEW message, Panic(message)
  PROVE  Step(val)
  <1>1. heap' = Fresh
    BY DEF Panic, Fresh
  <1>2. Frozen(heap, heap', val)
    BY <1>1 DEF Frozen, Fresh
  <1>3. QED  BY <1>1, <1>2, FreshGood DEF Step

\* A heap that keeps everything is one that a statement may leave.
LEMMA BecomesStep ==
  ASSUME NEW val, NEW rank, NEW h, Keeps(heap, h, val, rank), Becomes(h)
  PROVE  Step(val)
  BY DEF Becomes, Keeps, Step

\* What the invariant says of a slot.
LEMMA GoodFacts ==
  ASSUME NEW val, NEW rank, Good(heap, val, rank)
  PROVE  /\ Sound(heap, Nil) /\ heap.slot[Tmp] = Empty
         /\ val \in [Cells -> BOOLEAN] /\ rank \in [Cells -> Nat]
         /\ \A s \in Slots : s # Tmp => Typed(heap.kind, val, rank, s, heap.slot[s])
         /\ \A s \in Slots : ~IsNil(s) =>
               /\ Alloc(s) \in Cells /\ Alloc(s) \in Slots /\ Alloc(s) \in heap.live
               /\ Alloc(s) # Tmp /\ Alloc(s) \notin Ptrs /\ heap.kind[Alloc(s)] # Nil
         /\ \A p \in Ptrs : heap.slot[p].type = Nil
         /\ \A p \in Ptrs : ~IsNil(p) => ~val[Alloc(p)] /\ heap.kind[Alloc(p)] = Node
         /\ \A s \in Slots \ Ptrs : s # Tmp /\ ~IsNil(s) => heap.slot[s].type.kind = heap.kind[Alloc(s)]
         /\ \A t \in Traits : ~IsNil(t) => ~val[Alloc(t)]
         /\ \A s \in Slots \ (Ptrs \union Traits) : s # Tmp /\ ~IsNil(s) =>
               heap.slot[s].type = [kind |-> heap.kind[Alloc(s)], ptr |-> ~val[Alloc(s)]]
  <1>1. /\ Sound(heap, Nil) /\ heap.slot[Tmp] = Empty
        /\ val \in [Cells -> BOOLEAN] /\ rank \in [Cells -> Nat]
        /\ \A s \in Slots : s # Tmp => Typed(heap.kind, val, rank, s, heap.slot[s])
    BY DEF Good, Shape
  <1>2. \A s \in Slots : ~IsNil(s) =>
               /\ Alloc(s) \in Cells /\ Alloc(s) \in Slots /\ Alloc(s) \in heap.live
               /\ Alloc(s) # Tmp /\ Alloc(s) \notin Ptrs /\ heap.kind[Alloc(s)] # Nil
    <2>1. \A s \in Slots : ~IsNil(s) => Alloc(s) \in Cells /\ Alloc(s) \in Slots /\ Alloc(s) \in heap.live
      BY <1>1, SoundFacts DEF IsNil, Alloc
    <2>2. \A c \in Cells : c # Tmp /\ c \notin Ptrs /\ (c \in heap.live => heap.kind[c] # Nil)
      BY <1>1, Names DEF Sound
    <2>3. QED  BY <2>1, <2>2
  <1>3. \A p \in Ptrs \union Traits : p \in Slots /\ p # Tmp
    BY Names
  <1>4. QED  BY <1>1, <1>2, <1>3 DEF Typed, IsNil, Alloc

\* x = y, p.next = a, a = p.next and the like: an assignment between two slots
\* of one sort, where a field is led to by a variable other than d.
LEMMA AssignKeeps ==
  ASSUME NEW val, NEW rank, Good(heap, val, rank),
         NEW d \in Slots \ {Tmp}, NEW s \in Slots \ {Tmp}, d \in Ptrs <=> s \in Ptrs,
         d \in Traits <=> s \in Traits,
         Held(heap, d, d), s # d => Held(heap, s, d), d \in Cells => ~val[d]
  PROVE  Keeps(heap, Assign(heap, d, s), val, rank)
  <1>1. d \in Ptrs => s \notin Cells /\ heap.slot[d].type = Nil /\ heap.slot[s].type = Nil
    BY GoodFacts, Names
  <1>2. Writes(heap, Assign(heap, d, s), d, Stored(heap, d, s))
    BY <1>1, AssignIs DEF Good
  <1>3. Typed(heap.kind, val, rank, d, Stored(heap, d, s))
    <2>1. Typed(heap.kind, val, rank, s, heap.slot[s])
      BY GoodFacts
    <2>2. Typed(heap.kind, val, rank, d, heap.slot[s])
      BY <2>1 DEF Typed
    <2>3. QED  BY <2>2, TypedEmpty DEF Stored
  <1>4. QED  BY <1>2, <1>3, WriteKeeps

\* An assignment of boxes keeps everything, unless it is into a boxed value.
LEMMA BoxKeeps ==
  ASSUME NEW val, NEW rank, Good(heap, val, rank),
         NEW d \in Slots \ {Tmp}, NEW s \in Slots \ {Tmp}, d \notin Ptrs \union Traits,
         s \notin Ptrs \union Traits,
         Held(heap, d, d), s # d => Held(heap, s, d), d \in Cells => ~val[d]
  PROVE  Keeps(heap, BoxAssign(heap, d, s), val, rank)
  <1>1. Keeps(heap, Assign(heap, d, s), val, rank)
    BY AssignKeeps
  <1>2. QED  BY <1>1 DEF Assign

\* An operation that checks for nil.
LEMMA ThroughStep ==
  ASSUME NEW val, NEW rank, NEW s, NEW h, ~IsNil(s) => Keeps(heap, h, val, rank), Through(s, h)
  PROVE  Step(val)
  BY PanicStep, BecomesStep DEF Through

\* An operation that checks for nil and for the type.
LEMMA CastStep ==
  ASSUME NEW val, NEW rank, NEW s, NEW type, NEW h,
         ~IsNil(s) /\ heap.slot[s].type = type => Keeps(heap, h, val, rank), Cast(s, type, h)
  PROVE  Step(val)
  <1>1. CASE IsNil(s) \/ TypeIs(s, type)
    <2>1. Through(s, h)
      BY <1>1 DEF Cast
    <2>2. ~IsNil(s) => Keeps(heap, h, val, rank)
      BY <1>1 DEF TypeIs
    <2>3. QED  BY <2>1, <2>2, ThroughStep
  <1>2. CASE ~(IsNil(s) \/ TypeIs(s, type))
    BY <1>2, PanicStep DEF Cast
  <1>3. QED  BY <1>1, <1>2

\* Assignment of variables.
LEMMA LetStep ==
  ASSUME NEW val, NEW rank, Good(heap, val, rank),
         NEW x \in Slots \ (Cells \union {Tmp}), NEW y \in Slots \ (Cells \union {Tmp}), Let(x, y)
  PROVE  Step(val)
  <1>1. (x \in Ptrs <=> y \in Ptrs) /\ (x \in Traits <=> y \in Traits)
    BY Names DEF Let, Sort
  <1>2. Held(heap, x, x) /\ Held(heap, y, x)
    BY DEF Held
  <1>3. Keeps(heap, Assign(heap, x, y), val, rank)
    BY <1>1, <1>2, AssignKeeps
  <1>4. QED  BY <1>3, BecomesStep DEF Let

\* Assignment to a field: what a pointer leads to, and what a method called
\* on a trait gets, is no value boxed as any.
LEMMA SetFieldStep ==
  ASSUME NEW val, NEW rank, Good(heap, val, rank), NEW p \in Ptrs \union Traits,
         NEW a \in Anys, SetField(p, a)
  PROVE  Step(val)
  <1>1. ASSUME ~IsNil(p) PROVE Keeps(heap, BoxAssign(heap, Alloc(p), a), val, rank)
    <2>1. /\ Alloc(p) \in Cells /\ Alloc(p) \in Slots \ {Tmp} /\ Alloc(p) \notin Ptrs /\ ~val[Alloc(p)]
          /\ p \in Slots \ Cells /\ a \in Slots \ {Tmp} /\ a \notin Cells /\ a \notin Ptrs
          /\ Alloc(p) \notin Traits /\ a \notin Traits
      BY <1>1, GoodFacts, Names
    <2>2. Held(heap, Alloc(p), Alloc(p)) /\ Held(heap, a, Alloc(p))
      BY <2>1 DEF Held, Alloc
    <2>3. QED  BY <2>1, <2>2, BoxKeeps
  <1>2. QED  BY <1>1, ThroughStep DEF SetField

\* Assignment from a field.
LEMMA GetFieldStep ==
  ASSUME NEW val, NEW rank, Good(heap, val, rank), NEW a \in Anys, NEW p \in Ptrs \union Traits,
         GetField(a, p)
  PROVE  Step(val)
  <1>1. ASSUME ~IsNil(p) PROVE Keeps(heap, BoxAssign(heap, a, Alloc(p)), val, rank)
    <2>1. /\ Alloc(p) \in Cells /\ Alloc(p) \in Slots \ {Tmp} /\ Alloc(p) \notin Ptrs /\ p # a
          /\ p \in Slots \ Cells /\ a \in Slots \ {Tmp} /\ a \notin Cells /\ a \notin Ptrs
          /\ Alloc(p) \notin Traits /\ a \notin Traits
      BY <1>1, GoodFacts, Names
    <2>2. Held(heap, Alloc(p), a) /\ Held(heap, a, a)
      BY <2>1 DEF Held, Alloc
    <2>3. QED  BY <2>1, <2>2, BoxKeeps
  <1>2. QED  BY <1>1, ThroughStep DEF GetField

\* Assignment from field to field.
LEMMA CopyFieldStep ==
  ASSUME NEW val, NEW rank, Good(heap, val, rank), NEW p \in Ptrs \union Traits,
         NEW q \in Ptrs, CopyField(p, q)
  PROVE  Step(val)
  <1>1. CASE IsNil(p)
    <2>1. Through(p, heap)
      BY <1>1 DEF CopyField
    <2>2. QED  BY <1>1, <2>1, ThroughStep
  <1>2. CASE ~IsNil(p)
    <2>1. ASSUME ~IsNil(q) PROVE Keeps(heap, BoxAssign(heap, Alloc(p), Alloc(q)), val, rank)
      <3>1. /\ Alloc(p) \in Cells /\ Alloc(p) \in Slots \ {Tmp} /\ Alloc(p) \notin Ptrs /\ ~val[Alloc(p)]
            /\ Alloc(q) \in Cells /\ Alloc(q) \in Slots \ {Tmp} /\ Alloc(q) \notin Ptrs
            /\ Alloc(p) \notin Traits /\ Alloc(q) \notin Traits /\ p \in Slots \ Cells /\ q \in Slots \ Cells
        BY <1>2, <2>1, GoodFacts, Names
      <3>2. Held(heap, Alloc(p), Alloc(p)) /\ Held(heap, Alloc(q), Alloc(p))
        BY <3>1 DEF Held, Alloc
      <3>3. QED  BY <3>1, <3>2, BoxKeeps
    <2>2. Through(q, BoxAssign(heap, Alloc(p), Alloc(q)))
      BY <1>2 DEF CopyField
    <2>3. QED  BY <2>1, <2>2, ThroughStep
  <1>3. QED  BY <1>1, <1>2

\* Clearing a variable.
LEMMA ClearStep ==
  ASSUME NEW val, NEW rank, Good(heap, val, rank), NEW x \in Slots \ Cells, Clear(x)
  PROVE  Step(val)
  <1> DEFINE g == Release(heap, x)
  <1>1. Writes(heap, g, x, Empty)
    BY ReleaseIs DEF Good
  <1> HIDE DEF g
  <1>2. Keeps(heap, g, val, rank)
    <2>1. CASE x = Tmp
      <3>1. \A s \in Slots : s # Tmp => Typed(heap.kind, val, rank, s, g.slot[s])
        BY <1>1, <2>1, TypedEmpty DEF Good, Shape, Writes, Settles
      <3>2. Shape(g, val, rank)
        BY <1>1, <3>1 DEF Good, Shape, Writes
      <3>3. Frozen(heap, g, val)
        BY <1>1, <2>1, Names DEF Frozen, Good, Sound, Heaps, Writes, Settles
      <3>4. QED  BY <1>1, <2>1, <3>2, <3>3 DEF Keeps, Good, Writes
    <2>2. CASE x # Tmp
      BY <1>1, <2>2, TypedEmpty, WriteKeeps
    <2>3. QED  BY <2>1, <2>2
  <1>3. Becomes(g)
    BY DEF Clear, g
  <1>4. QED  BY <1>2, <1>3, BecomesStep

\* Boxing a pointer.
LEMMA BoxPtrStep ==
  ASSUME NEW val, NEW rank, Good(heap, val, rank), NEW b \in Anys \union Traits, NEW p \in Ptrs,
         BoxPtr(b, p)
  PROVE  Step(val)
  <1> DEFINE q == heap.slot[p]
             r == [q EXCEPT !.type = NodePtr]
  <1>1. b \in Slots /\ b \notin Cells /\ b # Tmp /\ b \notin Ptrs /\ p \in Slots
    BY Names
  <1>2. /\ q \in Box /\ (q.counted <=> q.alloc # Nil) /\ (q.alloc # Nil => q.alloc \in heap.live)
    BY <1>1, SoundFacts DEF Good
  <1>3. q.alloc # Nil => ~val[q.alloc] /\ heap.kind[q.alloc] = Node /\ q.alloc \in Cells
    BY <1>1, GoodFacts DEF IsNil, Alloc
  <1> HIDE DEF q
  <1>4. /\ r \in Box /\ r.alloc = q.alloc /\ r.counted = q.counted
        /\ r.type = [kind |-> Node, ptr |-> TRUE]
    BY <1>2 DEF Box, NodePtr, Types
  <1> HIDE DEF r
  <1>5. Fits(heap, r)
    BY <1>2, <1>4 DEF Fits
  <1>6. Typed(heap.kind, val, rank, b, r)
    <2>1. ASSUME r.alloc # Nil PROVE r.type = [kind |-> heap.kind[r.alloc], ptr |-> ~val[r.alloc]]
      <3>1. val[r.alloc] = FALSE /\ heap.kind[r.alloc] = Node
        BY <1>3, <1>4, <2>1 DEF Good, Shape
      <3>2. QED  BY <1>4, <3>1
    <2>2. r.alloc # Nil => ~val[r.alloc] /\ r.type.kind = heap.kind[r.alloc]
      BY <1>3, <1>4
    <2>3. QED  BY <1>1, <2>1, <2>2 DEF Typed
  <1>7. Keeps(heap, AssignTemp(heap, b, r), val, rank)
    BY <1>1, <1>5, <1>6, AssignTempKeeps
  <1>8. Becomes(AssignTemp(heap, b, r))
    BY DEF BoxPtr, r, q
  <1>9. QED  BY <1>7, <1>8, BecomesStep

\* Casting a box to a pointer: its type says that it holds no value.
LEMMA CastPtrStep ==
  ASSUME NEW val, NEW rank, Good(heap, val, rank), NEW b \in Anys \union Traits, NEW p \in Ptrs,
         CastPtr(p, b)
  PROVE  Step(val)
  <1> DEFINE q == heap.slot[b]
             r == [q EXCEPT !.type = Nil]
  <1>1. b \in Slots /\ b \notin Ptrs /\ b # Tmp /\ p \in Slots /\ p \notin Cells /\ p # Tmp
    BY Names
  <1>2. /\ q \in Box /\ (q.counted <=> q.alloc # Nil) /\ (q.alloc # Nil => q.alloc \in heap.live)
    BY <1>1, SoundFacts DEF Good
  <1>3. q.alloc # Nil => /\ q.type.kind = heap.kind[q.alloc] /\ q.alloc \in Cells
                         /\ IF b \in Traits THEN ~val[q.alloc]
                            ELSE q.type = [kind |-> heap.kind[q.alloc], ptr |-> ~val[q.alloc]]
    BY <1>1, GoodFacts DEF IsNil, Alloc
  <1>4. val \in [Cells -> BOOLEAN]
    BY GoodFacts
  <1> HIDE DEF q
  <1>5. r \in Box /\ r.alloc = q.alloc /\ r.counted = q.counted /\ r.type = Nil
    BY <1>2 DEF Box
  <1> HIDE DEF r
  <1>6. Fits(heap, r)
    BY <1>2, <1>5 DEF Fits
  <1>7. ASSUME ~IsNil(b) /\ heap.slot[b].type = NodePtr
        PROVE  Keeps(heap, AssignTemp(heap, p, r), val, rank)
    <2>1. q.alloc # Nil /\ q.type = NodePtr
      BY <1>7 DEF IsNil, Alloc, q
    <2>2. heap.kind[q.alloc] = Node
      BY <1>3, <2>1 DEF NodePtr
    <2>3. ~val[q.alloc]
      <3>1. val[q.alloc] \in BOOLEAN
        BY <1>3, <1>4, <2>1
      <3>2. CASE b \notin Traits /\ val[q.alloc] = TRUE
        <4>1. q.type = [kind |-> heap.kind[q.alloc], ptr |-> FALSE]
          BY <1>3, <2>1, <3>1, <3>2
        <4>2. QED  BY <2>1, <4>1 DEF NodePtr
      <3>3. QED  BY <1>3, <2>1, <3>1, <3>2
    <2>4. Typed(heap.kind, val, rank, p, r)
      BY <1>1, <1>5, <2>2, <2>3 DEF Typed
    <2>5. QED  BY <1>1, <1>6, <2>4, AssignTempKeeps
  <1>8. Cast(b, NodePtr, AssignTemp(heap, p, r))
    BY DEF CastPtr, r, q
  <1>9. QED  BY <1>7, <1>8, CastStep

\* Casting a box to a value.
LEMMA CastValueStep ==
  ASSUME NEW val, NEW rank, Good(heap, val, rank), NEW b \in Anys \union Traits, NEW a \in Anys,
         CastValue(a, b)
  PROVE  Step(val)
  <1>1. b \in Slots /\ a \in Slots /\ a \notin Cells /\ a # Tmp /\ a \notin Ptrs
    BY Names
  <1>2. ASSUME ~IsNil(b) PROVE Keeps(heap, AssignTemp(heap, a, heap.slot[Alloc(b)]), val, rank)
    <2> DEFINE c == Alloc(b)
    <2>1. c \in Slots /\ c # Tmp /\ c \notin Ptrs /\ c \in Cells /\ c \notin Traits /\ a \notin Traits
      BY <1>1, <1>2, GoodFacts, Names
    <2> HIDE DEF c
    <2>2. Fits(heap, heap.slot[c])
      BY <2>1, SoundFacts DEF Good, Fits
    <2>3. Typed(heap.kind, val, rank, c, heap.slot[c])
      BY <2>1, GoodFacts
    <2>4. Typed(heap.kind, val, rank, a, heap.slot[c])
      BY <1>1, <2>1, <2>3 DEF Typed
    <2>5. Keeps(heap, AssignTemp(heap, a, heap.slot[c]), val, rank)
      BY <1>1, <2>2, <2>4, AssignTempKeeps
    <2>6. QED  BY <2>5 DEF c
  <1>3. QED  BY <1>2, CastStep DEF CastValue

\* Making an object to be pointed to.
LEMMA NewPtrStep ==
  ASSUME NEW val, NEW rank, Good(heap, val, rank), NEW p \in Ptrs, NEW a \in Anys, NEW c \in Cells,
         NewPtr(p, a, c)
  PROVE  Step(val)
  <1>1. /\ p \in Slots /\ p \notin Cells /\ p # Tmp
        /\ a \in Slots \ (Ptrs \union Traits) /\ a # c /\ Unused(c)
    BY Names DEF NewPtr
  <1>2. \E v, w : /\ Good(MoveInto(New(c, Node, a), p, First(c, Nil)), v, w)
                  /\ Frozen(heap, MoveInto(New(c, Node, a), p, First(c, Nil)), val)
    BY <1>1, NewKeeps
  <1>3. QED  BY <1>2 DEF NewPtr, Becomes, Step

\* Boxing a value.
LEMMA BoxValueStep ==
  ASSUME NEW val, NEW rank, Good(heap, val, rank), NEW b \in Anys \union Traits, NEW p \in Ptrs,
         NEW c \in Cells, BoxValue(b, p, c)
  PROVE  Step(val)
  <1> DEFINE s == Alloc(p)
             type == Value(Node)
  <1>1. /\ b \in Slots /\ b \notin Cells /\ b # Tmp /\ b \notin Ptrs /\ Unused(c)
        /\ type \in Types /\ type.kind = Node
    BY Names DEF BoxValue, Value, Types
  <1>2. CASE IsNil(p)
    BY <1>2, PanicStep DEF BoxValue, Through
  <1>3. CASE ~IsNil(p)
    <2>1. s \in Slots \ (Ptrs \union Traits) /\ s # c
      <3>1. p \in Slots
        BY Names
      <3>2. s \in Slots /\ s \notin Ptrs /\ s \notin Traits /\ heap.kind[s] # Nil
        BY <1>3, <3>1, GoodFacts, Names
      <3>3. QED  BY <1>1, <3>2 DEF Unused
    <2>2. Becomes(MoveInto(New(c, Node, s), b, First(c, type)))
      BY <1>3 DEF BoxValue, Through
    <2> HIDE DEF s, type
    <2>3. \E v, w : /\ Good(MoveInto(New(c, Node, s), b, First(c, type)), v, w)
                    /\ Frozen(heap, MoveInto(New(c, Node, s), b, First(c, type)), val)
      BY <1>1, <2>1, NewKeeps
    <2>4. QED  BY <2>2, <2>3 DEF Becomes, Step
  <1>4. QED  BY <1>2, <1>3

\* Boxing a List.
LEMMA BoxListStep ==
  ASSUME NEW val, NEW rank, Good(heap, val, rank), NEW b \in Anys \union Traits, NEW c \in Cells,
         NEW ptr \in BOOLEAN, BoxList(b, c, ptr)
  PROVE  Step(val)
  <1> DEFINE type == [kind |-> List, ptr |-> ptr]
  <1>1. /\ b \in Slots /\ b \notin Cells /\ b # Tmp /\ b \notin Ptrs /\ Unused(c)
        /\ type \in Types /\ type.kind = List /\ Tmp \in Slots \ (Ptrs \union Traits) /\ Tmp # c
    BY Names DEF BoxList, Types
  <1>2. Becomes(MoveInto(New(c, List, Tmp), b, First(c, type)))
    BY DEF BoxList
  <1> HIDE DEF type
  <1>3. \E v, w : /\ Good(MoveInto(New(c, List, Tmp), b, First(c, type)), v, w)
                  /\ Frozen(heap, MoveInto(New(c, List, Tmp), b, First(c, type)), val)
    BY <1>1, NewKeeps
  <1>4. QED  BY <1>2, <1>3 DEF Becomes, Step

\* Swapping two variables.
LEMMA SwapStep ==
  ASSUME SwapSame = FALSE, NEW val, NEW rank, Good(heap, val, rank),
         NEW x \in Slots \ (Cells \union {Tmp}), NEW y \in Slots \ (Cells \union {Tmp}), Swap(x, y)
  PROVE  Step(val)
  <1>1. (x \in Ptrs <=> y \in Ptrs) /\ (x \in Traits <=> y \in Traits)
    BY Names DEF Swap, Sort
  <1>2. CASE x \in Ptrs
    <2>1. heap.slot[x].alloc = Nil \/ heap.slot[x].alloc # heap.slot[y].alloc
      BY <1>2 DEF Swap, IsNil, Same, Alloc
    <2>2. Keeps(heap, SwapPtr(heap, x, y), val, rank)
      BY <1>1, <1>2, <2>1, SwapPtrKeeps
    <2>3. Becomes(SwapPtr(heap, x, y))
      BY <1>2 DEF Swap
    <2>4. QED  BY <2>2, <2>3, BecomesStep
  <1>3. CASE x \notin Ptrs
    <2>1. Keeps(heap, SwapBox(heap, x, y), val, rank)
      BY <1>1, <1>3, SwapBoxKeeps
    <2>2. Becomes(SwapBox(heap, x, y))
      BY <1>3 DEF Swap
    <2>3. QED  BY <2>1, <2>2, BecomesStep
  <1>4. QED  BY <1>2, <1>3

\* Every statement.
LEMMA NextStep ==
  ASSUME SwapSame = FALSE, NEW val, NEW rank, Good(heap, val, rank), Next
  PROVE  Step(val)
  <1>1. Statement
    BY DEF Next
  <1>2. CASE \E p \in Ptrs, a \in Anys, c \in Cells : NewPtr(p, a, c)
    BY <1>2, NewPtrStep
  <1>3. CASE \E b \in Anys \union Traits, p \in Ptrs :
                BoxPtr(b, p) \/ CastPtr(p, b) \/ \E c \in Cells : BoxValue(b, p, c)
    BY <1>3, BoxPtrStep, CastPtrStep, BoxValueStep
  <1>4. CASE \E b \in Anys \union Traits, c \in Cells, ptr \in BOOLEAN : BoxList(b, c, ptr)
    BY <1>4, BoxListStep
  <1>5. CASE \E a \in Anys : \/ \E b \in Anys \union Traits : CastValue(a, b)
                             \/ \E p \in Ptrs \union Traits : SetField(p, a) \/ GetField(a, p)
    BY <1>5, CastValueStep, SetFieldStep, GetFieldStep
  <1>6. CASE \E p \in Ptrs \union Traits, q \in Ptrs : CopyField(p, q)
    BY <1>6, CopyFieldStep
  <1>7. CASE \E x, y \in Slots \ (Cells \union {Tmp}) : Let(x, y) \/ Swap(x, y)
    BY <1>7, LetStep, SwapStep
  <1>8. CASE \E x \in Slots \ Cells : Clear(x)
    BY <1>8, ClearStep
  <1>9. QED  BY <1>1, <1>2, <1>3, <1>4, <1>5, <1>6, <1>7, <1>8 DEF Statement

\* The ghosts exist in every state of a program that does not swap two equal
\* pointers.
THEOREM Invariance == ASSUME SwapSame = FALSE PROVE Spec => []IInv
  <1>1. Init => IInv
    BY FreshGood DEF Init, Fresh, IInv
  <1>2. ASSUME IInv, [Next]_vars PROVE IInv'
    <2>1. PICK val, rank : Good(heap, val, rank)
      BY <1>2 DEF IInv
    <2>2. CASE Next
      BY <2>1, <2>2, NextStep DEF Step, IInv
    <2>3. CASE UNCHANGED vars
      BY <2>1, <2>3 DEF vars, IInv
    <2>4. QED  BY <1>2, <2>2, <2>3
  <1>3. QED  BY <1>1, <1>2, PTL DEF Spec

\* A value put in a box of type any never changes while the box lives, for any
\* finite numbers of variables and objects: no cast lets a pointer into it
\* out, and a field is written only in an object made to be pointed to or
\* boxed in a trait, which no box of type any shares by value.  For a program
\* that swaps no two equal pointers.
THEOREM ValuesFrozenHolds == ASSUME SwapSame = FALSE PROVE Spec => ValuesFrozen
  <1>1. ASSUME IInv, [Next]_vars
        PROVE  [\A c \in heap.live \intersect heap'.live :
                  ByValue(c) => heap'.slot[c] = heap.slot[c]]_vars
    <2>1. PICK val, rank : Good(heap, val, rank)
      BY <1>1 DEF IInv
    <2>2. CASE UNCHANGED vars
      BY <2>2
    <2>3. CASE Next
      <3>1. Frozen(heap, heap', val)
        BY <2>1, <2>3, NextStep DEF Step
      <3>2. ASSUME NEW c \in heap.live \intersect heap'.live, ByValue(c)
            PROVE  heap'.slot[c] = heap.slot[c]
        <4>1. c \in Cells
          BY <2>1, <3>2 DEF Good, Sound, Heaps
        <4>2. PICK s \in Anys \union Cells : Alloc(s) = c /\ ~heap.slot[s].type.ptr
          BY <3>2 DEF ByValue
        <4>3. s \in Slots \ (Ptrs \union Traits) /\ s # Tmp /\ ~IsNil(s)
          BY <2>1, <4>1, <4>2, GoodFacts, EmptyFacts, Names DEF IsNil, Alloc
        <4>4. val[c] \in BOOLEAN /\ heap.slot[s].type = [kind |-> heap.kind[c], ptr |-> ~val[c]]
          BY <2>1, <4>1, <4>2, <4>3, GoodFacts
        <4>5. val[c]
          <5>1. CASE val[c] = FALSE
            <6>1. heap.slot[s].type = [kind |-> heap.kind[c], ptr |-> TRUE]
              BY <4>4, <5>1
            <6>2. QED  BY <4>2, <6>1
          <5>2. QED  BY <4>4, <5>1
        <4>6. QED  BY <3>1, <3>2, <4>5 DEF Frozen
      <3>3. QED  BY <3>2
    <2>4. QED  BY <1>1, <2>2, <2>3
  <1>2. QED  BY <1>1, Invariance, PTL DEF Spec, ValuesFrozen

-----------------------------------------------------------------------------
(* Memory.                                                                 *)

\* The live objects that nothing leads to, without those in a closed set C:
\* each is held by a field of another of them, so following the holders
\* permutes them, and what one of them holds is one of them.
LEMMA LostIsCyclic ==
  ASSUME NEW val, NEW rank, Good(heap, val, rank), NEW c \in heap.live, c \notin Reached
  PROVE  OnCycle(c)
  <1>1. SUFFICES ASSUME ~OnCycle(c) PROVE FALSE
    OBVIOUS
  <1>2. PICK C \in SUBSET Cells : Closed(C) /\ c \notin C /\ (~IsNil(c) => Alloc(c) \in C)
    <2>1. CASE IsNil(c)
      <3>1. Closed({})
        BY DEF Closed
      <3>2. QED  BY <2>1, <3>1
    <2>2. CASE ~IsNil(c)
      BY <1>1, <2>2 DEF OnCycle
    <2>3. QED  BY <2>1, <2>2
  <1> DEFINE W == {x \in heap.live : x \notin Reached /\ x \notin C}
             f == [x \in W |-> CHOOSE s \in W : Alloc(s) = x]
  <1>3. /\ Sound(heap, Nil) /\ heap.live \subseteq Cells /\ Nil \notin Cells
        /\ \A x \in Cells : x \notin heap.live => heap.slot[x] = Empty
    BY Names DEF Good, Sound, Heaps
  <1>4. ASSUME NEW x \in W PROVE \E s \in W : Alloc(s) = x
    <2>1. x \in Cells /\ x # Nil /\ x \in heap.live
      BY <1>3
    <2>2. PICK s \in Slots : Alloc(s) = x
      <3> DEFINE H == Hold(heap.slot, x)
      <3>1. Cardinality(H) > 0
        BY <1>3, <2>1 DEF Sound
      <3>2. ASSUME H = {} PROVE FALSE
        <4>1. Cardinality(H) = 0
          BY <3>2, FS_EmptySet
        <4> HIDE DEF H
        <4>2. QED  BY <3>1, <4>1
      <3>3. QED  BY <3>2 DEF Hold, Alloc
    <2>3. ~IsNil(s)
      BY <2>1, <2>2 DEF IsNil
    <2>4. s \in Cells
      <3>1. ASSUME s \notin Cells PROVE x \in Reached
        BY <2>1, <2>2, <2>3, <3>1 DEF Reached
      <3>2. QED  BY <3>1
    <2>5. s \notin Reached
      <3>1. ASSUME s \in Reached PROVE x \in Reached
        BY <2>1, <2>2, <2>3, <2>4, <3>1 DEF Reached, Closed
      <3>2. QED  BY <3>1
    <2>6. s \notin C
      BY <2>2, <2>3, <1>2 DEF Closed
    <2>7. s \in heap.live
      BY <1>3, <2>3, <2>4, EmptyFacts DEF IsNil, Alloc
    <2>8. QED  BY <2>2, <2>5, <2>6, <2>7
  <1>5. c \in W /\ W \in SUBSET Cells
    BY <1>2, <1>3
  <1>6. \A x \in W : x \notin C /\ x # Nil
    BY <1>3
  <1> HIDE DEF W
  <1>7. f \in [W -> W] /\ \A x \in W : Alloc(f[x]) = x
    BY <1>4
  <1> HIDE DEF f
  <1>8. f \in Surjection(W, W)
    <2>1. IsFiniteSet(W)
      BY <1>5, CellsFinite, FS_Subset
    <2>2. \A a \in W, b \in W : f[a] = f[b] => a = b
      BY <1>7
    <2>3. f \in Injection(W, W)
      BY <1>7, <2>2 DEF Injection, IsInjective
    <2>4. QED  BY <2>1, <2>3, FS_Injection
  <1>9. PICK x \in W : f[x] = c
    BY <1>5, <1>8 DEF Surjection
  <1>10. Alloc(c) = x
    BY <1>7, <1>9
  <1>11. QED  BY <1>2, <1>6, <1>10 DEF IsNil

\* Every pointer and every box leads to a live object of the type it says,
\* every share is counted, and what nothing leads to is gone, for any finite
\* numbers of variables and objects and any shape of the heap, cycles
\* included.  For a program that swaps no two equal pointers.
THEOREM MemorySafeHolds == ASSUME SwapSame = FALSE PROVE Spec => []MemorySafe
  <1>1. ASSUME IInv PROVE MemorySafe
    <2>1. PICK val, rank : Good(heap, val, rank)
      BY <1>1 DEF IInv
    <2>2. Sound(heap, Nil)
      BY <2>1 DEF Good
    <2>3. TypeOK
      BY <2>1 DEF Good, Sound, Heaps, Box, TypeOK
    <2>4. CountExact
      <3>1. \A c \in Cells : Holders(c) = Hold(heap.slot, c)
        BY DEF Holders, Hold, Alloc
      <3>2. QED  BY <2>2, <3>1 DEF Sound, CountExact
    <2>5. NoDangling
      BY <2>1, GoodFacts DEF NoDangling
    <2>6. TypeSafe
      <3>1. \A p \in Ptrs : ~IsNil(p) => heap.kind[Alloc(p)] = Node
        BY <2>1, GoodFacts
      <3>2. ASSUME NEW s \in Slots \ Ptrs, ~IsNil(s)
            PROVE  heap.slot[s].type.kind = heap.kind[Alloc(s)]
        <4>1. s # Tmp
          BY <2>1, <3>2, GoodFacts, EmptyFacts DEF IsNil, Alloc
        <4>2. QED  BY <2>1, <3>2, <4>1, GoodFacts
      <3>3. QED  BY <3>1, <3>2 DEF TypeSafe
    <2>7. Reclaimed
      <3>1. heap.live \subseteq Cells
        BY <2>2 DEF Sound, Heaps
      <3>2. QED  BY <2>1, <3>1, LostIsCyclic DEF Reclaimed
    <2>8. QED  BY <2>3, <2>4, <2>5, <2>6, <2>7 DEF MemorySafe
  <1>2. QED  BY <1>1, Invariance, PTL

\* An assignment stores what its source held before the statement, whatever
\* its release deletes, and a swap of two boxes exchanges them and leaves every
\* counter as it was, in every heap that a program can reach which swaps no
\* two equal pointers.
THEOREM AssignsAndSwapsHolds == ASSUME SwapSame = FALSE PROVE Spec => []AssignsAndSwaps
  <1>1. ASSUME IInv PROVE AssignsAndSwaps
    <2>1. PICK val, rank : Good(heap, val, rank)
      BY <1>1 DEF IInv
    <2>2. AssignStoresSource
      <3> DEFINE Vars == Slots \ (Cells \union {Tmp})
                 Fields == {Alloc(p) : p \in Ptrs \union Traits} \ {Nil}
      <3>1. SUFFICES ASSUME NEW d \in Vars \union Fields, NEW s \in Vars \union Fields, Sort(d) = Sort(s)
                     PROVE  Assign(heap, d, s).slot[d] =
                              IF d = s /\ d \notin Ptrs THEN Empty ELSE heap.slot[s]
        BY DEF AssignStoresSource
      <3>2. ASSUME NEW x \in Fields
            PROVE  /\ x \in Cells /\ x \in Slots /\ x # Tmp /\ x \notin Ptrs
                   /\ \E p \in Ptrs \union Traits : p \in Slots \ Cells /\ heap.slot[p].alloc = x
        <4>1. PICK p \in Ptrs \union Traits : x = Alloc(p) /\ ~IsNil(p)
          BY DEF IsNil
        <4>2. p \in Slots \ Cells
          BY Names
        <4>3. QED  BY <2>1, <4>1, <4>2, GoodFacts DEF Alloc
      <3>3. d \in Slots /\ s \in Slots /\ d # Tmp /\ s # Tmp
        BY <3>2
      <3>4. d \in Ptrs <=> s \in Ptrs
        BY <3>1, <3>3, Names DEF Sort
      <3>5. d \in Ptrs => s \notin Cells /\ heap.slot[d].type = Nil /\ heap.slot[s].type = Nil
        BY <2>1, <3>4, GoodFacts, Names
      <3>6. Held(heap, d, d)
        BY <3>2 DEF Held
      <3>7. s # d => Held(heap, s, d)
        <4>1. SUFFICES ASSUME s # d, s \in Cells
                       PROVE  \E p \in Slots \ Cells : p # d /\ heap.slot[p].alloc = s
          BY DEF Held
        <4>2. s \in Fields /\ d \notin Ptrs
          BY <3>5, <4>1
        <4>3. PICK p \in Ptrs \union Traits : p \in Slots \ Cells /\ heap.slot[p].alloc = s
          BY <3>2, <4>2
        <4>4. p # d
          <5>1. CASE d \in Traits
            BY <3>1, <4>1, <5>1, Names DEF Sort
          <5>2. CASE d \notin Traits
            BY <4>2, <4>3, <5>2
          <5>3. QED  BY <5>1, <5>2
        <4>5. QED  BY <4>3, <4>4
      <3>8. Writes(heap, Assign(heap, d, s), d, Stored(heap, d, s))
        <4>1. Sound(heap, Nil)
          BY <2>1 DEF Good
        <4> HIDE DEF Vars, Fields
        <4>2. QED  BY <3>3, <3>5, <3>6, <3>7, <4>1, AssignIs
      <3>9. QED  BY <3>8 DEF Writes, Stored
    <2>3. SwapExchanges
      <3>1. SUFFICES ASSUME NEW T \in {Anys, Traits}, NEW x \in T, NEW y \in T
                     PROVE  SwapBox(heap, x, y) =
                              [heap EXCEPT !.slot[x] = heap.slot[y], !.slot[y] = heap.slot[x]]
        BY DEF SwapExchanges
      <3>2. /\ x \in Slots /\ x \notin Cells /\ x \notin Ptrs /\ x # Tmp
            /\ y \in Slots /\ y \notin Cells /\ y \notin Ptrs /\ y # Tmp
        BY Names
      <3>3. QED  BY <2>1, <3>2, SwapBoxIs DEF Good
    <2>4. QED  BY <2>2, <2>3 DEF AssignsAndSwaps
  <1>2. QED  BY <1>1, Invariance, PTL

-----------------------------------------------------------------------------
(* Comparison.                                                             *)

\* One level of operator==, from the answers e of the level below.
Level(e, n) ==
    [v \in Slots |-> [w \in Slots |->
        IF ~IsNil(v) /\ Same(v, w) THEN "equal"
        ELSE IF IsNil(v) \/ IsNil(w) \/ ~TypeIs(v, heap.slot[w].type)
             THEN IF IsNil(v) /\ IsNil(w) THEN "equal" ELSE "different"
        ELSE IF heap.slot[v].type.ptr THEN "different"
        ELSE IF TypeIs(v, Value(List)) THEN "crash"
        ELSE IF n = 0 THEN "endless" ELSE e[Alloc(v)][Alloc(w)]]]
Comparing(eq, m) == eq = [n \in 0 .. m |-> Level(eq[n - 1], n)]

\* The recursive function in AnyEq exists.
LEMMA ComparingExists ==
  ASSUME NEW M \in Nat
  PROVE  \E eq : Comparing(eq, M)
  <1> DEFINE S == {m \in 0 .. M : \E eq : Comparing(eq, m)}
  <1>1. \A e1, e2 : Level(e1, 0) = Level(e2, 0)
    BY DEF Level
  <1>2. 0 \in S
    <2> DEFINE g == [n \in 0 .. 0 |-> Level({}, 0)]
    <2>1. \A n \in 0 .. 0 : n = 0
      OBVIOUS
    <2>2. \A n \in 0 .. 0 : Level({}, 0) = Level(g[n - 1], n)
      BY <1>1, <2>1
    <2>3. g = [n \in 0 .. 0 |-> Level(g[n - 1], n)]
      <3>1. DOMAIN g = 0 .. 0 /\ g = [n \in 0 .. 0 |-> g[n]] /\ \A n \in 0 .. 0 : g[n] = Level({}, 0)
        BY Zenon
      <3> HIDE DEF g
      <3>2. \A n \in 0 .. 0 : g[n] = Level(g[n - 1], n)
        BY <1>1, <2>1, <3>1
      <3>3. QED  BY <3>1, <3>2, Zenon
    <2>4. Comparing(g, 0)
      <3> HIDE DEF g
      <3>1. QED  BY <2>3 DEF Comparing
    <2>5. QED  BY <2>4
  <1>3. ASSUME NEW m \in 0 .. M - 1, m \in S PROVE m + 1 \in S
    <2>1. PICK f : Comparing(f, m)
      BY <1>3
    <2> DEFINE g == [n \in 0 .. m + 1 |-> IF n = m + 1 THEN Level(f[m], n) ELSE f[n]]
    <2>2. \A n \in 0 .. m : f[n] = Level(f[n - 1], n)
      BY <2>1 DEF Comparing
    <2>3. \A n \in 0 .. m + 1 : g[n] = Level(g[n - 1], n)
      <3>1. TAKE n \in 0 .. m + 1
      <3>2. CASE n = m + 1
        <4>1. n - 1 = m /\ m \in 0 .. m + 1 /\ m # m + 1
          BY <3>2
        <4>2. QED  BY <3>2, <4>1
      <3>3. CASE n = 0
        <4>1. 0 \in 0 .. m /\ 0 # m + 1 /\ 0 \in 0 .. m + 1
          OBVIOUS
        <4>2. g[0] = f[0] /\ f[0] = Level(f[0 - 1], 0)
          BY <2>2, <4>1
        <4> HIDE DEF g
        <4>3. Level(f[0 - 1], 0) = Level(g[0 - 1], 0)
          BY <1>1
        <4>4. QED  BY <3>3, <4>2, <4>3
      <3>4. CASE n # 0 /\ n # m + 1
        <4>1. n \in 0 .. m /\ n - 1 \in 0 .. m + 1 /\ n - 1 # m + 1
          BY <3>4
        <4>2. QED  BY <2>2, <3>4, <4>1
      <3>5. QED  BY <3>2, <3>3, <3>4
    <2>4. g = [n \in 0 .. m + 1 |-> Level(g[n - 1], n)]
      <3>1. DOMAIN g = 0 .. m + 1 /\ g = [n \in 0 .. m + 1 |-> g[n]]
        BY Zenon
      <3> HIDE DEF g
      <3>2. QED  BY <2>3, <3>1, Zenon
    <2>5. Comparing(g, m + 1)
      <3> HIDE DEF g
      <3>1. QED  BY <2>4 DEF Comparing
    <2>6. QED  BY <2>5
  <1>4. 0 .. M \subseteq S
    <2> HIDE DEF S
    <2>1. QED  BY <1>2, <1>3, UpTo
  <1>5. QED  BY <1>4

\* AnyEq is the last of N + 1 levels of comparison.
LEMMA Levels ==
  \E eq : /\ \A x, y \in Slots : AnyEq(x, y) = eq[N][x][y]
          /\ \A n \in 0 .. N : eq[n] = Level(eq[n - 1], n)
  <1> DEFINE eq == CHOOSE e : Comparing(e, N)
  <1>1. Comparing(eq, N)
    BY CellsFinite, ComparingExists
  <1>2. \A x, y \in Slots : AnyEq(x, y) = eq[N][x][y]
    BY DEF AnyEq, Comparing, Level, N
  <1> HIDE DEF eq
  <1>3. \A n \in 0 .. N : eq[n] = Level(eq[n - 1], n)
    BY <1>1 DEF Comparing
  <1>4. QED  BY <1>2, <1>3

\* The variables and the fields whose values are compared.
Compared == Anys \union heap.live

\* What EqAgrees says of n levels; an answer that takes more of them has a
\* value of at least that rank under it.
Agrees(e, n, rank) ==
    \A v, w \in Compared :
        /\ e[v][v] = "equal" /\ e[v][w] = e[w][v]
        /\ e[v][w] = "crash" => \E s \in Compared : TypeIs(s, Value(List))
        /\ e[v][w] = "endless" => ~IsNil(v) /\ ~heap.slot[v].type.ptr /\ rank[Alloc(v)] >= n
        /\ e[v][w] = "equal" => \A z \in Compared : e[w][z] = e[v][z]

\* What is compared: a value leads to values of smaller rank only.
LEMMA ComparedFacts ==
  ASSUME NEW val, NEW rank, Good(heap, val, rank)
  PROVE  /\ Compared \subseteq Slots
         /\ \A v \in Compared : ~IsNil(v) =>
               /\ Alloc(v) \in Compared /\ Alloc(v) \in Cells
               /\ heap.slot[v].type = [kind |-> heap.kind[Alloc(v)], ptr |-> ~val[Alloc(v)]]
               /\ ~heap.slot[v].type.ptr <=> val[Alloc(v)]
               /\ v \in Cells /\ val[v] /\ val[Alloc(v)] => rank[Alloc(v)] < rank[v]
         /\ rank \in [Cells -> Nat] /\ \A v \in Compared : ~IsNil(v) => rank[Alloc(v)] < N
         /\ \A v, w \in Compared : ~IsNil(v) /\ Same(v, w) => heap.slot[v] = heap.slot[w]
  <1>1. \A v \in Compared : v \in Slots \ (Ptrs \union Traits) /\ v # Tmp
    BY Names DEF Compared, Good, Sound, Heaps
  <1>2. rank \in [Cells -> Nat] /\ val \in [Cells -> BOOLEAN]
    BY GoodFacts
  <1>3. ASSUME NEW v \in Compared, ~IsNil(v)
        PROVE  /\ Alloc(v) \in Compared /\ Alloc(v) \in Cells
               /\ heap.slot[v].type = [kind |-> heap.kind[Alloc(v)], ptr |-> ~val[Alloc(v)]]
               /\ ~heap.slot[v].type.ptr <=> val[Alloc(v)]
               /\ v \in Cells /\ val[v] /\ val[Alloc(v)] => rank[Alloc(v)] < rank[v]
               /\ rank[Alloc(v)] < N
    <2> DEFINE c == Alloc(v)
    <2>1. c \in Compared /\ c \in Cells /\ heap.kind[c] # Nil
      BY <1>1, <1>3, GoodFacts DEF Compared
    <2>2. heap.slot[v].type = [kind |-> heap.kind[c], ptr |-> ~val[c]]
      BY <1>1, <1>3, GoodFacts
    <2>3. v \in Cells /\ val[v] /\ val[c] => rank[c] < rank[v]
      BY <1>1, <1>3, GoodFacts DEF Typed, IsNil, Alloc
    <2>4. rank[c] < N
      <3>1. c \in Used(heap.kind)
        BY <2>1 DEF Used
      <3>2. rank[c] < Cardinality(Used(heap.kind))
        BY <3>1 DEF Good, Shape
      <3>3. Cardinality(Used(heap.kind)) \in Nat /\ Cardinality(Used(heap.kind)) <= N
        BY UsedFinite
      <3>4. rank[c] \in Nat
        BY <1>2, <2>1
      <3> HIDE DEF c
      <3>5. QED  BY <3>2, <3>3, <3>4, CellsFinite
    <2> HIDE DEF c
    <2>5. ~heap.slot[v].type.ptr <=> val[c]
      <3>1. val[c] \in BOOLEAN
        BY <1>2, <2>1
      <3>2. CASE val[c] = TRUE
        <4>1. heap.slot[v].type = [kind |-> heap.kind[c], ptr |-> FALSE]
          BY <2>2, <3>2
        <4>2. QED  BY <3>2, <4>1
      <3>3. CASE val[c] = FALSE
        <4>1. heap.slot[v].type = [kind |-> heap.kind[c], ptr |-> TRUE]
          BY <2>2, <3>3
        <4>2. QED  BY <3>3, <4>1
      <3>4. QED  BY <3>1, <3>2, <3>3
    <2>6. QED  BY <2>1, <2>2, <2>3, <2>4, <2>5 DEF c
  <1>4. ASSUME NEW v \in Compared, NEW w \in Compared, ~IsNil(v), Same(v, w)
        PROVE  heap.slot[v] = heap.slot[w]
    <2>1. /\ heap.slot[v] \in Box /\ heap.slot[w] \in Box
          /\ heap.slot[v].counted <=> heap.slot[v].alloc # Nil
          /\ heap.slot[w].counted <=> heap.slot[w].alloc # Nil
      BY <1>1, SoundFacts DEF Good
    <2>2. heap.slot[v].alloc = heap.slot[w].alloc /\ heap.slot[v].type = heap.slot[w].type
      BY <1>3, <1>4 DEF Same, IsNil, Alloc
    <2>3. QED  BY <2>1, <2>2 DEF Box
  <1>5. QED  BY <1>1, <1>2, <1>3, <1>4

\* A level agrees if the one below it does.
LEMMA LevelAgrees ==
  ASSUME NEW val, NEW rank, Good(heap, val, rank), NEW n \in Nat, NEW e,
         n # 0 => Agrees(e, n - 1, rank)
  PROVE  Agrees(Level(e, n), n, rank)
  <1> DEFINE g == Level(e, n)
             V == Compared
             box(v) == heap.slot[v]
             Alike(v, w) == ~IsNil(v) /\ Same(v, w)
             Apart(v, w) == IsNil(v) \/ IsNil(w) \/ box(v).type # box(w).type
             Deep(v, w) == /\ ~Alike(v, w) /\ ~Apart(v, w) /\ ~box(v).type.ptr
                           /\ box(v).type # Value(List)
  <1>1. \A v, w \in V : g[v][w] =
          IF Alike(v, w) THEN "equal"
          ELSE IF Apart(v, w) THEN IF IsNil(v) /\ IsNil(w) THEN "equal" ELSE "different"
          ELSE IF box(v).type.ptr THEN "different"
          ELSE IF box(v).type = Value(List) THEN "crash"
          ELSE IF n = 0 THEN "endless" ELSE e[Alloc(v)][Alloc(w)]
    BY ComparedFacts DEF Level, TypeIs
  <1>2. \A v, w \in V : /\ Alike(v, w) <=> Alike(w, v)
                        /\ Apart(v, w) <=> Apart(w, v)
                        /\ Deep(v, w) <=> Deep(w, v)
                        /\ Alike(v, w) => box(v) = box(w)
                        /\ Deep(v, w) => ~IsNil(v) /\ ~IsNil(w)
    BY ComparedFacts DEF Same, IsNil
  <1>3. \A v \in V : ~IsNil(v) => Alloc(v) \in V
    BY ComparedFacts
  <1> HIDE DEF g, V
  <1>4. ASSUME NEW v \in V PROVE g[v][v] = "equal"
    <2>1. Same(v, v)
      BY DEF Same
    <2>2. QED  BY <1>1, <2>1
  <1>5. ASSUME n # 0, NEW v \in V, NEW w \in V
        PROVE  /\ e[v][w] = e[w][v]
               /\ e[v][w] = "crash" => \E s \in V : TypeIs(s, Value(List))
               /\ e[v][w] = "endless" => ~IsNil(v) /\ ~box(v).type.ptr /\ rank[Alloc(v)] >= n - 1
               /\ e[v][w] = "equal" => \A z \in V : e[w][z] = e[v][z]
    BY <1>5 DEF Agrees, V
  <1>6. ASSUME NEW v \in V, NEW w \in V PROVE g[v][w] = g[w][v]
    <2>1. CASE Deep(v, w)
      <3>1. g[v][w] = IF n = 0 THEN "endless" ELSE e[Alloc(v)][Alloc(w)]
        BY <1>1, <2>1
      <3>2. Deep(w, v) /\ Alloc(v) \in V /\ Alloc(w) \in V
        BY <1>2, <1>3, <2>1
      <3>3. g[w][v] = IF n = 0 THEN "endless" ELSE e[Alloc(w)][Alloc(v)]
        BY <1>1, <3>2
      <3>4. n # 0 => e[Alloc(v)][Alloc(w)] = e[Alloc(w)][Alloc(v)]
        BY <1>5, <3>2
      <3>5. QED  BY <3>1, <3>3, <3>4
    <2>2. CASE Alike(v, w) \/ Apart(v, w)
      BY <1>1, <1>2, <2>2
    <2>3. CASE ~Alike(v, w) /\ ~Apart(v, w) /\ ~Deep(v, w)
      BY <1>1, <1>2, <2>3
    <2>4. QED  BY <2>1, <2>2, <2>3
  <1>7. ASSUME NEW v \in V, NEW w \in V, g[v][w] = "crash"
        PROVE  \E s \in V : TypeIs(s, Value(List))
    <2>1. CASE Deep(v, w)
      <3>1. n # 0 /\ e[Alloc(v)][Alloc(w)] = "crash" /\ Alloc(v) \in V /\ Alloc(w) \in V
        BY <1>1, <1>2, <1>3, <1>7, <2>1
      <3>2. QED  BY <1>5, <3>1
    <2>2. CASE ~Deep(v, w)
      <3>1. box(v).type = Value(List)
        BY <1>1, <1>7, <2>2
      <3>2. QED  BY <3>1 DEF TypeIs
    <2>3. QED  BY <2>1, <2>2
  <1>8. ASSUME NEW v \in V, NEW w \in V, g[v][w] = "endless"
        PROVE  ~IsNil(v) /\ ~box(v).type.ptr /\ rank[Alloc(v)] >= n
    <2>1. Deep(v, w)
      BY <1>1, <1>8
    <2>2. ~IsNil(v) /\ ~box(v).type.ptr /\ Alloc(v) \in V /\ Alloc(w) \in V
      BY <1>2, <1>3, <2>1
    <2>3. Alloc(v) \in Cells /\ val[Alloc(v)] /\ rank[Alloc(v)] \in Nat
      <3>1. v \in Compared
        BY DEF V
      <3>2. /\ Alloc(v) \in Cells /\ rank \in [Cells -> Nat]
            /\ ~heap.slot[v].type.ptr <=> val[Alloc(v)]
        BY <2>2, <3>1, ComparedFacts
      <3>3. val[Alloc(v)]
        BY <2>2, <3>2
      <3>4. rank[Alloc(v)] \in Nat
        BY <3>2
      <3>5. QED  BY <3>2, <3>3, <3>4
    <2>4. CASE n = 0
      BY <2>2, <2>3, <2>4
    <2>5. CASE n # 0
      <3> DEFINE c == Alloc(v)
      <3>1. e[c][Alloc(w)] = "endless"
        BY <1>1, <1>8, <2>1, <2>5
      <3>2. ~IsNil(c) /\ ~box(c).type.ptr /\ rank[Alloc(c)] >= n - 1
        BY <1>5, <2>2, <2>5, <3>1
      <3>3. rank[Alloc(c)] < rank[c] /\ rank[Alloc(c)] \in Nat
        BY <2>2, <2>3, <3>2, ComparedFacts DEF V
      <3> DEFINE i == rank[Alloc(c)]
                 j == rank[c]
      <3>4. i \in Nat /\ j \in Nat /\ i < j /\ i >= n - 1
        BY <2>3, <3>2, <3>3
      <3> HIDE DEF i, j
      <3>5. j >= n
        BY <3>4
      <3>6. QED  BY <2>2, <3>5 DEF j
    <2>6. QED  BY <2>4, <2>5
  <1>9. ASSUME NEW v \in V, NEW w \in V, g[v][w] = "equal", NEW z \in V
        PROVE  g[w][z] = g[v][z]
    <2>1. CASE Alike(v, w)
      <3>1. box(v) = box(w)
        BY <1>2, <2>1
      <3>2. Alloc(v) = Alloc(w)
        BY <3>1 DEF Alloc
      <3>3. (IsNil(v) <=> IsNil(w)) /\ (Same(v, z) <=> Same(w, z))
        BY <3>2 DEF IsNil, Same
      <3>4. QED  BY <1>1, <3>1, <3>2, <3>3
    <2>2. CASE IsNil(v) /\ IsNil(w)
      BY <1>1, <2>2
    <2>3. CASE ~Alike(v, w) /\ ~(IsNil(v) /\ IsNil(w))
      <3>1. Deep(v, w) /\ n # 0 /\ e[Alloc(v)][Alloc(w)] = "equal"
        BY <1>1, <1>9, <2>3
      <3>2. Alloc(v) \in V /\ Alloc(w) \in V /\ box(v).type = box(w).type /\ ~IsNil(v) /\ ~IsNil(w)
        BY <1>2, <1>3, <3>1
      <3>3. CASE Alike(w, z)
        <4>1. box(w) = box(z)
          BY <1>2, <3>3
        <4>2. Alloc(w) = Alloc(z) /\ ~IsNil(z)
          BY <3>2, <4>1 DEF Alloc, IsNil
        <4>3. (Same(v, w) <=> Same(v, z))
          BY <4>2 DEF Same
        <4>4. g[v][z] = g[v][w]
          BY <1>1, <3>2, <4>1, <4>2, <4>3
        <4>5. QED  BY <1>1, <1>9, <3>3, <4>4
      <3>4. CASE Alike(v, z)
        <4>1. box(v) = box(z)
          BY <1>2, <3>4
        <4>2. Alloc(v) = Alloc(z) /\ ~IsNil(z)
          BY <3>2, <4>1 DEF Alloc, IsNil
        <4>3. (Same(w, v) <=> Same(w, z))
          BY <4>2 DEF Same
        <4>4. g[w][z] = g[w][v]
          BY <1>1, <3>2, <4>1, <4>2, <4>3
        <4>5. QED  BY <1>1, <1>6, <1>9, <3>4, <4>4
      <3>5. CASE ~Alike(w, z) /\ ~Alike(v, z)
        <4>1. CASE IsNil(z)
          BY <1>1, <3>2, <3>5, <4>1
        <4>2. CASE ~IsNil(z) /\ box(z).type # box(v).type
          BY <1>1, <3>2, <3>5, <4>2
        <4>3. CASE ~IsNil(z) /\ box(z).type = box(v).type
          <5>1. Deep(v, z) /\ Deep(w, z) /\ Alloc(z) \in V
            BY <1>3, <3>1, <3>2, <3>5, <4>3
          <5>2. g[v][z] = e[Alloc(v)][Alloc(z)] /\ g[w][z] = e[Alloc(w)][Alloc(z)]
            BY <1>1, <3>1, <5>1
          <5>3. e[Alloc(w)][Alloc(z)] = e[Alloc(v)][Alloc(z)]
            BY <1>5, <3>1, <3>2, <5>1
          <5>4. QED  BY <5>2, <5>3
        <4>4. QED  BY <4>1, <4>2, <4>3
      <3>6. QED  BY <3>3, <3>4, <3>5
    <2>4. QED  BY <2>1, <2>2, <2>3
  <1>10. Agrees(g, n, rank)
    <2>1. V = Compared
      BY DEF V
    <2>2. QED  BY <1>4, <1>6, <1>7, <1>8, <1>9, <2>1 DEF Agrees
  <1>11. QED  BY <1>10 DEF g

\* Comparing values of type any is an equivalence wherever it answers, always
\* ends, on data with cycles too, and crashes only where a List by value is
\* compared, in both orders: for any finite numbers of variables and objects,
\* in every heap that a program can reach which swaps no two equal pointers.
THEOREM EqAgreesHolds == ASSUME SwapSame = FALSE PROVE Spec => []EqAgrees
  <1>1. ASSUME IInv PROVE EqAgrees
    <2>1. PICK val, rank : Good(heap, val, rank)
      BY <1>1 DEF IInv
    <2>2. PICK eq : /\ \A x, y \in Slots : AnyEq(x, y) = eq[N][x][y]
                    /\ \A n \in 0 .. N : eq[n] = Level(eq[n - 1], n)
      BY Levels
    <2>3. N \in Nat
      BY CellsFinite
    <2> DEFINE S == {n \in 0 .. N : Agrees(eq[n], n, rank)}
    <2>4. 0 \in S
      <3>1. Agrees(Level(eq[0 - 1], 0), 0, rank)
        BY <2>1, LevelAgrees
      <3>2. eq[0] = Level(eq[0 - 1], 0) /\ 0 \in 0 .. N
        BY <2>2, <2>3
      <3>3. QED  BY <3>1, <3>2
    <2>5. ASSUME NEW n \in 0 .. N - 1, n \in S PROVE n + 1 \in S
      <3>1. n + 1 \in 0 .. N /\ n + 1 \in Nat /\ (n + 1) - 1 = n
        BY <2>3
      <3>2. Agrees(eq[n], (n + 1) - 1, rank)
        BY <2>5, <3>1
      <3>3. Agrees(Level(eq[n], n + 1), n + 1, rank)
        BY <2>1, <3>1, <3>2, LevelAgrees
      <3>4. eq[n + 1] = Level(eq[n], n + 1)
        BY <2>2, <3>1
      <3>5. QED  BY <3>1, <3>3, <3>4
    <2>6. N \in S
      <3> HIDE DEF S
      <3>1. 0 .. N \subseteq S
        BY <2>3, <2>4, <2>5, UpTo
      <3>2. QED  BY <2>3, <3>1
    <2>7. Agrees(eq[N], N, rank)
      BY <2>6
    <2>8. ASSUME NEW x \in Compared, NEW y \in Compared PROVE eq[N][x][y] # "endless"
      <3>1. SUFFICES ASSUME eq[N][x][y] = "endless" PROVE FALSE
        OBVIOUS
      <3>2. ~IsNil(x) /\ rank[Alloc(x)] >= N
        BY <2>7, <3>1 DEF Agrees
      <3>3. rank[Alloc(x)] < N /\ rank[Alloc(x)] \in Nat
        BY <2>1, <3>2, ComparedFacts
      <3>4. QED  BY <2>3, <3>2, <3>3
    <2>9. Compared \subseteq Slots
      BY <2>1, ComparedFacts
    <2>10. \A x, y \in Compared : AnyEq(x, y) = eq[N][x][y]
      BY <2>2, <2>9
    <2>11. ASSUME NEW x \in Compared, NEW y \in Compared
           PROVE  /\ AnyEq(x, x) = "equal"
                  /\ AnyEq(x, y) = AnyEq(y, x) /\ AnyEq(x, y) # "endless"
                  /\ AnyEq(x, y) = "crash" => \E s \in Compared : TypeIs(s, Value(List))
                  /\ AnyEq(x, y) = "equal" => \A z \in Compared : AnyEq(y, z) = AnyEq(x, z)
      BY <2>7, <2>8, <2>10 DEF Agrees
    <2>12. QED  BY <2>11 DEF EqAgrees, Compared
  <1>2. QED  BY <1>1, Invariance, PTL
=============================================================================
