-------------------------- MODULE ContainerProofs ---------------------------
(***************************************************************************)
(* Slices and their items (Items), for any numbers of slices, values,      *)
(* items and buffers: every slice stays a window of initialised items in   *)
(* its buffer; append is concatenation and copy stores what the source     *)
(* held, with the exceptions that Items states; and the optimiser's push   *)
(* is the append it replaces if it is stored where it came from and none   *)
(* of its expressions comes late.                                          *)
(*                                                                         *)
(* Maps (Maps), for any keys, values and sizes: every operation does to    *)
(* the function that a map stands for what it says, in whatever order the  *)
(* entries are; lookups and comparisons are true of these functions; and   *)
(* loops visit what they should.                                           *)
(***************************************************************************)
EXTENDS Items, Maps, SequenceTheorems, FiniteSetTheorems, TLAPS

AnyItem == Values \union {Junk, Emptied}
Window == [buf : {0} \union Buffers, start : Nat, len : Nat, cap : Nat]
Memory == [kind : Kinds, buf : [Buffers -> Seq(AnyItem)], h : [Slices -> Window],
           arr : [1 .. N -> Values]]

\* Only maps are emptied by a move, and boxes by a copy to where they are.
MayEmpty(kind) == kind \in {"map", "box"}
Clean(m) ==
    ~MayEmpty(m.kind) => \A b \in Buffers : \A i \in 1 .. Len(m.buf[b]) : m.buf[b][i] # Emptied

\* s is a window of initialised items.
Fits(m, s) ==
    IF IsNil(s) THEN s = NilSlice
    ELSE /\ s.start + s.cap = Len(m.buf[s.buf]) /\ s.len <= s.cap
         /\ \A i \in 1 .. s.len : m.buf[s.buf][s.start + i] # Junk

Good(m) ==
    /\ m \in Memory
    /\ Clean(m)
    /\ \A x \in Slices : Fits(m, m.h[x])

\* The inductive invariant.
Sane(m) == Good(m) /\ m.h[Tmp] = NilSlice
IInv == Sane(mem)

-----------------------------------------------------------------------------
(* Memories and windows.                                                   *)

LEMMA MemoryIs ==
  ASSUME NEW m \in Memory
  PROVE  /\ m.kind \in Kinds /\ m.buf \in [Buffers -> Seq(AnyItem)]
         /\ m.h \in [Slices -> Window] /\ m.arr \in [1 .. N -> Values]
         /\ \A b \in Buffers : m.buf[b] \in Seq(AnyItem)
         /\ \A x \in Slices : m.h[x] \in Window
  BY DEF Memory

\* What writing a buffer, and assigning a slice, changes.
Written(m, n, b, c) ==
    /\ n \in Memory /\ n.kind = m.kind /\ n.h = m.h /\ n.arr = m.arr
    /\ n.buf[b] = c /\ \A a \in Buffers \ {b} : n.buf[a] = m.buf[a]
Assigned(m, n, x, s) ==
    /\ n \in Memory /\ n.kind = m.kind /\ n.buf = m.buf /\ n.arr = m.arr
    /\ n.h[x] = s /\ \A y \in Slices \ {x} : n.h[y] = m.h[y]

LEMMA WriteIs ==
  ASSUME NEW m \in Memory, NEW b \in Buffers, NEW c \in Seq(AnyItem)
  PROVE  Written(m, Write(m, b, c), b, c)
  BY DEF Memory, Write, Written

LEMMA HoldIs ==
  ASSUME NEW m \in Memory, NEW x \in Slices, NEW s \in Window
  PROVE  Assigned(m, Hold(m, x, s), x, s)
  BY DEF Memory, Hold, Assigned

Rebuffed(m, n, f) == n \in Memory /\ n.kind = m.kind /\ n.h = m.h /\ n.arr = m.arr /\ n.buf = f
Rearrayed(m, n, f) == n \in Memory /\ n.kind = m.kind /\ n.h = m.h /\ n.buf = m.buf /\ n.arr = f

LEMMA BufIs ==
  ASSUME NEW m \in Memory, NEW f \in [Buffers -> Seq(AnyItem)]
  PROVE  Rebuffed(m, [m EXCEPT !.buf = f], f)
  BY DEF Memory, Rebuffed

LEMMA ArrayIs ==
  ASSUME NEW m \in Memory, NEW f \in [1 .. N -> Values]
  PROVE  Rearrayed(m, [m EXCEPT !.arr = f], f)
  BY DEF Memory, Rearrayed

\* A function on 1 .. n is a sequence.
LEMMA Sequence ==
  ASSUME NEW n \in Nat, NEW S, NEW f \in [1 .. n -> S]
  PROVE  f \in Seq(S) /\ Len(f) = n /\ DOMAIN f = 1 .. n
  BY IsASeq, LenProperties

LEMMA ItemOf ==
  ASSUME NEW c \in Seq(AnyItem)
  PROVE  /\ Len(c) \in Nat /\ DOMAIN c = 1 .. Len(c)
         /\ \A i \in 1 .. Len(c) : c[i] \in AnyItem
  BY LenProperties, ElementOfSeq

LEMMA NilIs == NilSlice \in Window /\ IsNil(NilSlice) /\ NilSlice.len = 0 /\ NilSlice.buf = 0
  BY DEF NilSlice, Window, IsNil

LEMMA WindowIs ==
  ASSUME NEW s \in Window
  PROVE  /\ s.buf \in {0} \union Buffers
         /\ s.start \in Nat /\ s.len \in Nat /\ s.cap \in Nat
         /\ s = [buf |-> s.buf, start |-> s.start, len |-> s.len, cap |-> s.cap]
         /\ ~IsNil(s) => s.buf \in Buffers
         /\ IsNil(s) <=> s.buf = 0
  BY DEF Window, IsNil

LEMMA MakeWindow ==
  ASSUME NEW b \in {0} \union Buffers, NEW start \in Nat, NEW len \in Nat, NEW cap \in Nat
  PROVE  [buf |-> b, start |-> start, len |-> len, cap |-> cap] \in Window
  BY DEF Window

LEMMA BuffersAre == Buffers \subseteq Nat \ {0} /\ 0 \notin Buffers
  BY DEF Buffers

\* Where the items of a window are.
LEMMA Places ==
  ASSUME NEW m \in Memory, NEW s \in Window, Fits(m, s), NEW i \in 1 .. s.len
  PROVE  /\ s.buf \in Buffers /\ s.start + i \in 1 .. Len(m.buf[s.buf])
         /\ m.buf[s.buf][s.start + i] \in AnyItem \ {Junk}
  <1>1. ~IsNil(s)
    BY NilIs, WindowIs DEF Fits
  <1>2. s.buf \in Buffers
    BY <1>1, WindowIs
  <1>3. m.buf[s.buf] \in Seq(AnyItem)
    BY <1>2, MemoryIs
  <1>4. Len(m.buf[s.buf]) \in Nat /\ s.start + s.cap = Len(m.buf[s.buf]) /\ s.len <= s.cap
    BY <1>1, <1>3, LenProperties DEF Fits
  <1>5. s.start + i \in 1 .. Len(m.buf[s.buf])
    BY <1>4, WindowIs
  <1>6. QED  BY <1>1, <1>2, <1>3, <1>5, ItemOf DEF Fits

\* The items of a slice are those of its window.
LEMMA ItemsAre ==
  ASSUME NEW m \in Memory, NEW s \in Window, Fits(m, s)
  PROVE  /\ Items(m, s) \in Seq(AnyItem \ {Junk}) /\ Len(Items(m, s)) = s.len
         /\ Items(m, s) \in [1 .. s.len -> AnyItem \ {Junk}]
         /\ \A i \in 1 .. s.len : Items(m, s)[i] = m.buf[s.buf][s.start + i]
  <1>1. s.len \in Nat  BY WindowIs
  <1>2. CASE IsNil(s)
    <2>1. Items(m, s) = <<>> /\ s.len = 0
      BY <1>2, NilIs DEF Items, Fits
    <2>2. <<>> \in [1 .. 0 -> AnyItem \ {Junk}]  OBVIOUS
    <2>3. QED  BY <2>1, <2>2, EmptySeq
  <1>3. CASE ~IsNil(s)
    <2>1. Items(m, s) = SubSeq(m.buf[s.buf], s.start + 1, s.start + s.len)
      BY <1>3 DEF Items
    <2>2. Items(m, s) \in [1 .. s.len -> AnyItem \ {Junk}] /\ Len(Items(m, s)) = s.len
          /\ \A i \in 1 .. s.len : Items(m, s)[i] = m.buf[s.buf][s.start + i]
      <3> DEFINE a == s.start + 1  b == s.start + s.len  q == SubSeq(m.buf[s.buf], a, b)
      <3>1. a \in Int /\ b \in Int /\ b - a + 1 = s.len /\ (a <= b <=> s.len # 0)
        BY WindowIs
      <3>2. \A k \in a .. b : k - s.start \in 1 .. s.len /\ s.start + (k - s.start) = k
        BY WindowIs
      <3>3. \A k \in a .. b : m.buf[s.buf][k] \in AnyItem \ {Junk}
        BY <3>2, Places
      <3> HIDE DEF a, b
      <3>4. /\ q \in Seq(AnyItem \ {Junk})
            /\ Len(q) = IF a <= b THEN b - a + 1 ELSE 0
            /\ \A i \in 1 .. b - a + 1 : q[i] = m.buf[s.buf][a + i - 1]
        BY <3>1, <3>3, SubSeqProperties
      <3>5. Len(q) = s.len
        BY <3>1, <3>4, <1>1
      <3>6. \A i \in 1 .. s.len : a + i - 1 = s.start + i
        BY WindowIs DEF a
      <3>7. Items(m, s) = q
        BY <2>1 DEF a, b
      <3> HIDE DEF q
      <3>8. q \in [1 .. s.len -> AnyItem \ {Junk}]
        BY <3>4, <3>5, LenProperties, ElementOfSeq
      <3>9. QED  BY <3>1, <3>4, <3>5, <3>6, <3>7, <3>8
    <2>3. QED  BY <1>1, <2>2, Sequence
  <1>4. QED  BY <1>2, <1>3

\* Equal items make equal sequences.
LEMMA SameItems ==
  ASSUME NEW n \in Nat, NEW S, NEW T, NEW f \in [1 .. n -> S], NEW g \in [1 .. n -> T],
         \A i \in 1 .. n : f[i] = g[i]
  PROVE  f = g
  OBVIOUS

\* A window whose items are where they were fits as before, and shows them.
LEMMA Unmoved ==
  ASSUME NEW m \in Memory, NEW n \in Memory, NEW s \in Window, Fits(m, s),
         ~IsNil(s) => /\ Len(n.buf[s.buf]) = Len(m.buf[s.buf])
                      /\ \A i \in 1 .. s.len :
                            n.buf[s.buf][s.start + i] = m.buf[s.buf][s.start + i]
  PROVE  Fits(n, s) /\ Items(n, s) = Items(m, s)
  <1>1. Fits(n, s)  BY DEF Fits
  <1>2. \A i \in 1 .. s.len : n.buf[s.buf][s.start + i] = m.buf[s.buf][s.start + i]
    <2>1. IsNil(s) => s.len = 0  BY NilIs DEF Fits
    <2>2. QED  BY <2>1
  <1>3. /\ s.len \in Nat
        /\ Items(m, s) \in [1 .. s.len -> AnyItem \ {Junk}]
        /\ Items(n, s) \in [1 .. s.len -> AnyItem \ {Junk}]
        /\ \A i \in 1 .. s.len : Items(n, s)[i] = Items(m, s)[i]
    BY <1>1, <1>2, ItemsAre, WindowIs
  <1>4. QED  BY <1>1, <1>3, SameItems

\* There are more buffers than slices: the allocator finds one.
LEMMA FreshIs ==
  ASSUME NEW m \in Memory
  PROVE  Fresh(m) \in Buffers /\ \A x \in Slices : m.h[x].buf # Fresh(m)
  <1>1. IsFiniteSet(Slices) /\ Cardinality(Slices) \in Nat
    BY ConstantAssumption, FS_AddElement, FS_CardinalityType DEF Slices
  <1>2. IsFiniteSet(Buffers) /\ Cardinality(Slices) < Cardinality(Buffers)
    BY <1>1, FS_Interval DEF Buffers
  <1>3. SUFFICES ASSUME \A b \in Buffers : \E x \in Slices : m.h[x].buf = b PROVE FALSE
    BY DEF Fresh
  <1> DEFINE g == [b \in Buffers |-> CHOOSE x \in Slices : m.h[x].buf = b]
  <1>4. g \in [Buffers -> Slices] /\ \A b \in Buffers : m.h[g[b]].buf = b
    BY <1>3
  <1>5. \E b, c \in Buffers : b # c /\ g[b] = g[c]
    <2> HIDE DEF g
    <2>1. QED  BY <1>1, <1>2, <1>4, FS_PigeonHole
  <1>6. QED  BY <1>4, <1>5

-----------------------------------------------------------------------------
(* The operations.                                                         *)

\* What all of them leave alone.
Frame(m, n) == n.kind = m.kind /\ n.h = m.h /\ n.arr = m.arr

\* A memory with the same slices in which every window that fitted fits is good.
LEMMA StaysGood ==
  ASSUME NEW m, Good(m), NEW n \in Memory, Frame(m, n), Clean(n),
         \A s \in Window : Fits(m, s) => Fits(n, s)
  PROVE  Good(n)
  BY MemoryIs DEF Good, Frame

\* alloc_new: a buffer of its own with the items given.
Allocated(m, r, items, len, cap) ==
    /\ Good(r.m) /\ Frame(m, r.m)
    /\ r.s \in Window /\ Fits(r.m, r.s)
    /\ r.s.buf \in Buffers /\ r.s.start = 0 /\ r.s.len = len /\ r.s.cap = cap
    /\ Items(r.m, r.s) = items
    /\ \A x \in Slices : m.h[x].buf # r.s.buf
    /\ \A a \in Buffers \ {r.s.buf} : r.m.buf[a] = m.buf[a]

LEMMA AllocIs ==
  ASSUME NEW m, Good(m), NEW len \in Nat, NEW cap \in Nat, len <= cap,
         NEW items \in [1 .. len -> AnyItem \ {Junk}],
         ~MayEmpty(m.kind) => \A i \in 1 .. len : items[i] # Emptied
  PROVE  Allocated(m, AllocNew(m, items, len, cap), items, len, cap)
  <1> DEFINE b == Fresh(m)
             c == [i \in 1 .. cap |-> IF i <= len THEN items[i] ELSE Junk]
             n == Write(m, b, c)
             s == [buf |-> b, start |-> 0, len |-> len, cap |-> cap]
  <1>1. m \in Memory /\ b \in Buffers /\ \A x \in Slices : m.h[x].buf # b
    BY FreshIs DEF Good
  <1>2. Len(items) = len
    BY Sequence
  <1>3. AllocNew(m, items, len, cap).m = n /\ AllocNew(m, items, len, cap).s = s
    BY <1>2 DEF AllocNew, Result
  <1>4. c \in Seq(AnyItem) /\ Len(c) = cap
    <2>1. c \in [1 .. cap -> AnyItem]  BY DEF AnyItem
    <2>2. QED  BY <2>1, Sequence
  <1>5. /\ n \in Memory /\ Frame(m, n) /\ n.buf[b] = c
        /\ \A a \in Buffers \ {b} : n.buf[a] = m.buf[a]
    <2>1. Written(m, n, b, c)
      <3> HIDE DEF c, b
      <3>1. QED  BY <1>1, <1>4, WriteIs
    <2> HIDE DEF c, b, n
    <2>2. QED  BY <2>1 DEF Frame, Written
  <1>6. s \in Window /\ s.buf = b /\ s.start = 0 /\ s.len = len /\ s.cap = cap /\ ~IsNil(s)
    BY <1>1, MakeWindow, BuffersAre DEF IsNil
  <1> HIDE DEF n, s, b
  <1>7. \A i \in 1 .. len : c[i] = items[i] /\ c[i] # Junk
    OBVIOUS
  <1>8. Clean(n)
    <2>1. SUFFICES ASSUME ~MayEmpty(n.kind), NEW a \in Buffers, NEW i \in 1 .. Len(n.buf[a])
                   PROVE  n.buf[a][i] # Emptied
      BY DEF Clean
    <2>2. CASE a = b
      BY <1>4, <1>5, <2>1, <2>2, ConstantAssumption DEF Frame
    <2>3. CASE a # b
      BY <1>5, <2>1, <2>3 DEF Good, Clean, Frame
    <2>4. QED  BY <2>2, <2>3
  <1>9. Fits(n, s)
    <2>1. 0 + cap = Len(c) /\ \A i \in 1 .. len : 0 + i = i
      BY <1>4
    <2>2. QED  BY <1>5, <1>6, <1>7, <2>1 DEF Fits
  <1> HIDE DEF c
  <1>10. Items(n, s) = items
    <2>1. \A i \in 1 .. len : Items(n, s)[i] = items[i]
      <3>1. \A i \in 1 .. len : 0 + i = i  OBVIOUS
      <3>2. QED  BY <1>5, <1>6, <1>7, <1>9, <3>1, ItemsAre
    <2>2. Items(n, s) \in [1 .. len -> AnyItem \ {Junk}]
      BY <1>5, <1>6, <1>9, ItemsAre
    <2>3. QED  BY <2>1, <2>2, SameItems
  <1>11. Good(n)
    <2>1. \A w : Fits(m, w) /\ w.buf # b /\ (~IsNil(w) => w.buf \in Buffers) => Fits(n, w)
      BY <1>5 DEF Fits
    <2>2. \A x \in Slices : m.h[x].buf # b /\ (~IsNil(m.h[x]) => m.h[x].buf \in Buffers)
      BY <1>1, MemoryIs, WindowIs
    <2>3. n.h = m.h /\ \A x \in Slices : Fits(m, m.h[x])
      BY <1>5 DEF Frame, Good
    <2>4. \A x \in Slices : Fits(n, n.h[x])
      BY <2>1, <2>2, <2>3
    <2>5. QED  BY <1>5, <1>8, <2>4 DEF Good
  <1>12. QED  BY <1>1, <1>3, <1>5, <1>6, <1>9, <1>10, <1>11 DEF Allocated

\* n initialised items are written behind the index `at` of buffer b.
Filled(m, c, b, at, n) ==
    /\ Good(c) /\ Frame(m, c)
    /\ \A s \in Window : Fits(m, s) => Fits(c, s)
    /\ \A a \in Buffers \ {b} : c.buf[a] = m.buf[a]
    /\ Len(c.buf[b]) = Len(m.buf[b])
    /\ \A k \in 1 .. Len(m.buf[b]) : IF k <= at \/ k > at + n THEN c.buf[b][k] = m.buf[b][k]
                                     ELSE c.buf[b][k] # Junk

Holds(c, b, new) == c.buf[b] = new

LEMMA FilledIs ==
  ASSUME NEW m, Good(m), NEW b \in Buffers, NEW at \in Nat, NEW n \in Nat,
         NEW new \in [1 .. Len(m.buf[b]) -> AnyItem],
         \A k \in 1 .. Len(m.buf[b]) : k <= at \/ k > at + n => new[k] = m.buf[b][k],
         \A k \in 1 .. Len(m.buf[b]) : k > at /\ k <= at + n =>
            new[k] # Junk /\ (~MayEmpty(m.kind) => new[k] # Emptied)
  PROVE  /\ Filled(m, Write(m, b, new), b, at, n)
         /\ Holds(Write(m, b, new), b, new)
  <1> DEFINE old == m.buf[b]
             c == Write(m, b, new)
  <1>1. /\ m \in Memory /\ old \in Seq(AnyItem) /\ Len(old) \in Nat
    BY MemoryIs, ItemOf DEF Good
  <1>2. new \in Seq(AnyItem) /\ Len(new) = Len(old)
    BY <1>1, Sequence
  <1>3. Written(m, c, b, new)
    BY <1>1, <1>2, WriteIs
  <1> HIDE DEF c
  <1>4. /\ c \in Memory /\ Frame(m, c) /\ c.buf[b] = new
        /\ \A a \in Buffers \ {b} : c.buf[a] = m.buf[a]
    BY <1>3 DEF Written, Frame
  <1>5. \A k \in 1 .. Len(old) : k <= at \/ k > at + n \/ (k > at /\ k <= at + n)
    BY <1>1
  <1>6. Clean(c)
    <2>1. SUFFICES ASSUME ~MayEmpty(c.kind), NEW a \in Buffers, NEW k \in 1 .. Len(c.buf[a])
                   PROVE  c.buf[a][k] # Emptied
      BY DEF Clean
    <2>2. ~MayEmpty(m.kind) /\ \A d \in Buffers : \A i \in 1 .. Len(m.buf[d]) : m.buf[d][i] # Emptied
      BY <1>4, <2>1 DEF Good, Clean, Frame
    <2>3. CASE a = b
      BY <1>2, <1>4, <1>5, <2>2, <2>3
    <2>4. CASE a # b
      BY <1>4, <2>2, <2>4
    <2>5. QED  BY <2>3, <2>4
  <1>7. \A s \in Window : Fits(m, s) => Fits(c, s)
    <2>1. SUFFICES ASSUME NEW s \in Window, Fits(m, s) PROVE Fits(c, s)
      OBVIOUS
    <2>2. CASE IsNil(s)
      BY <2>1, <2>2 DEF Fits
    <2>3. CASE ~IsNil(s)
      <3>1. Len(c.buf[s.buf]) = Len(m.buf[s.buf])
        BY <1>2, <1>4, <2>3, WindowIs
      <3>2. \A i \in 1 .. s.len : c.buf[s.buf][s.start + i] # Junk
        <4>1. TAKE i \in 1 .. s.len
        <4>2. s.start + i \in 1 .. Len(m.buf[s.buf]) /\ m.buf[s.buf][s.start + i] # Junk
          BY <1>1, <2>1, Places
        <4>3. CASE s.buf = b
          BY <1>4, <1>5, <4>2, <4>3
        <4>4. CASE s.buf # b
          BY <1>4, <2>3, <4>2, <4>4, WindowIs
        <4>5. QED  BY <4>3, <4>4
      <3>3. QED  BY <2>1, <2>3, <3>1, <3>2 DEF Fits
    <2>4. QED  BY <2>2, <2>3
  <1>8. Good(c)
    BY <1>4, <1>6, <1>7, StaysGood
  <1>9. Filled(m, c, b, at, n) /\ Holds(c, b, new)
    BY <1>2, <1>4, <1>5, <1>7, <1>8 DEF Filled, Holds
  <1>10. QED  BY <1>9 DEF c

\* Whether n items of src, stored at index `at` of dst, run over themselves.
Tangled(m, src, n, dst, at) == m.kind # "trivial" /\ Overlap(dst, at, src, n)

\* std::copy: initialised items, those of the source unless it is tangled, or
\* boxes that are copied to where they are.
Arrives(m, src, dst, at, i) ==
    IF EachToItself(m, src, dst, at) THEN Emptied ELSE Items(m, src)[i]
CopiedTo(m, c, src, n, dst, at) ==
    /\ Filled(m, c, dst.buf, at, n)
    /\ ~Tangled(m, src, n, dst, at) =>
          \A i \in 1 .. n : c.buf[dst.buf][at + i] = Arrives(m, src, dst, at, i)

LEMMA StdCopyIs ==
  ASSUME NEW m, Good(m), NEW src \in Window, Fits(m, src), NEW dst \in Window,
         dst.buf \in Buffers, NEW n \in Nat, n # 0, n <= src.len,
         NEW at \in Nat, at + n <= Len(m.buf[dst.buf])
  PROVE  CopiedTo(m, StdCopy(m, src, n, dst, at), src, n, dst, at)
  <1> DEFINE b == dst.buf
             old == m.buf[b]
             from == src.start
             gap == at - from
             straight == m.kind = "trivial" \/ src.buf # b \/ gap <= 0 \/ gap >= n
             itself == EachToItself(m, src, dst, at)
             new == [k \in DOMAIN old |->
                        IF k <= at \/ k > at + n THEN old[k]
                        ELSE IF itself THEN Emptied
                        ELSE IF straight THEN m.buf[src.buf][from + k - at]
                        ELSE m.buf[src.buf][from + ((k - at - 1) % gap) + 1]]
             c == Write(m, b, new)
  <1>1. StdCopy(m, src, n, dst, at) = c
    BY DEF StdCopy
  <1>2. /\ m \in Memory /\ old \in Seq(AnyItem) /\ Len(old) \in Nat /\ DOMAIN old = 1 .. Len(old)
        /\ \A k \in 1 .. Len(old) : old[k] \in AnyItem
    BY MemoryIs, ItemOf DEF Good
  <1>3. from \in Nat /\ src.len \in Nat /\ gap \in Int
    BY WindowIs
  <1>4. \A k \in 1 .. Len(old) : k <= at \/ k > at + n => new[k] = old[k]
    BY <1>2
  <1>5. ASSUME ~itself, NEW i \in 1 .. n
        PROVE  \E j \in 1 .. src.len : /\ new[at + i] = m.buf[src.buf][from + j]
                                       /\ straight => j = i
    <2> HIDE DEF itself
    <2>1. ~itself
      BY <1>5
    <2>2. at + i \in 1 .. Len(old) /\ ~(at + i <= at) /\ ~(at + i > at + n) /\ at + i - at = i
          /\ from + (at + i) - at = from + i /\ i \in 1 .. src.len
      BY <1>2, <1>3
    <2>3. CASE straight
      BY <1>2, <2>1, <2>2, <2>3
    <2>4. CASE ~straight
      <3>1. new[at + i] = m.buf[src.buf][from + ((i - 1) % gap) + 1]
        <4>1. new[at + i] = m.buf[src.buf][from + ((at + i - at - 1) % gap) + 1]
          BY <1>2, <2>1, <2>2, <2>4
        <4>2. at + i - at - 1 = i - 1  OBVIOUS
        <4>3. QED  BY <4>1, <4>2
      <3> HIDE DEF new
      <3>2. gap \in Nat /\ 0 < gap /\ gap < n
        BY <1>3, <2>4
      <3>3. (i - 1) % gap \in 0 .. gap - 1
        <4> HIDE DEF gap
        <4>1. i - 1 \in Int  OBVIOUS
        <4>2. QED  BY <3>2, <4>1
      <3>4. PICK e \in 0 .. gap - 1 : e = (i - 1) % gap
        BY <3>3
      <3> HIDE DEF gap
      <3>5. e + 1 \in 1 .. src.len /\ from + e + 1 = from + (e + 1)
        BY <1>3, <3>2
      <3>6. new[at + i] = m.buf[src.buf][from + (e + 1)]
        BY <3>1, <3>4, <3>5
      <3>7. QED  BY <2>4, <3>5, <3>6
    <2>5. QED  BY <2>3, <2>4
  <1>6. \A j \in 1 .. src.len :
           /\ src.buf \in Buffers
           /\ from + j \in 1 .. Len(m.buf[src.buf])
           /\ m.buf[src.buf][from + j] \in AnyItem \ {Junk}
    BY <1>2, Places
  <1>7. ASSUME itself, NEW i \in 1 .. n
         PROVE  new[at + i] = Emptied
    <2> HIDE DEF itself
    <2>1. at + i \in 1 .. Len(old) /\ ~(at + i <= at) /\ ~(at + i > at + n)
      BY <1>2, <1>3
    <2>2. QED  BY <1>2, <1>7, <2>1
  <1> HIDE DEF itself
  <1>8. \A i \in 1 .. n : new[at + i] \in AnyItem \ {Junk}
    <2> HIDE DEF new, straight
    <2>1. Emptied \in AnyItem \ {Junk}
      BY ConstantAssumption DEF AnyItem
    <2>2. TAKE i \in 1 .. n
    <2>3. CASE itself
      BY <1>7, <2>1, <2>3
    <2>4. CASE ~itself
      BY <1>5, <1>6, <2>4
    <2>5. QED  BY <2>3, <2>4
  <1>9. \A k \in 1 .. Len(old) : k <= at \/ k > at + n \/ \E i \in 1 .. n : k = at + i
    <2>1. TAKE k \in 1 .. Len(old)
    <2>2. ~(k <= at) /\ ~(k > at + n) => k - at \in 1 .. n /\ k = at + (k - at)
      BY <1>2
    <2>3. QED  BY <2>2
  <1>10. new \in [1 .. Len(old) -> AnyItem]
    <2>1. \A k \in 1 .. Len(old) : new[k] \in AnyItem
      BY <1>2, <1>4, <1>8, <1>9
    <2>2. new = [k \in 1 .. Len(old) |-> new[k]]
      BY <1>2
    <2> HIDE DEF new
    <2>3. QED  BY <2>1, <2>2
  <1>11. \A k \in 1 .. Len(old) : k > at /\ k <= at + n =>
            new[k] # Junk /\ (~MayEmpty(m.kind) => new[k] # Emptied)
    <2>1. ~MayEmpty(m.kind) => \A d \in Buffers : \A i \in 1 .. Len(m.buf[d]) : m.buf[d][i] # Emptied
      BY DEF Good, Clean
    <2>2. \A i \in 1 .. n : ~MayEmpty(m.kind) => new[at + i] # Emptied
      <3> HIDE DEF new, straight
      <3>1. itself => MayEmpty(m.kind)
        BY DEF itself, EachToItself, MayEmpty
      <3>2. QED  BY <1>5, <1>6, <2>1, <3>1
    <2>3. \A k \in 1 .. Len(old) : k > at /\ k <= at + n => \E i \in 1 .. n : k = at + i
      BY <1>2, <1>9
    <2> HIDE DEF new
    <2>4. QED  BY <1>8, <2>2, <2>3
  <1>12. Filled(m, c, b, at, n) /\ c.buf[b] = new
    <2>1. b \in Buffers  OBVIOUS
    <2> HIDE DEF new, b
    <2>2. Filled(m, c, b, at, n) /\ Holds(c, b, new)
      BY <1>2, <1>4, <1>10, <1>11, <2>1, FilledIs
    <2> HIDE DEF c
    <2>3. QED  BY <2>2 DEF Holds
  <1> HIDE DEF new, c, straight
  <1>13. ~Tangled(m, src, n, dst, at) => straight
    BY <1>3 DEF Tangled, Overlap, straight
  <1>14. straight => \A i \in 1 .. n : new[at + i] = Arrives(m, src, dst, at, i)
    <2>1. SUFFICES ASSUME straight, NEW i \in 1 .. n
                   PROVE  new[at + i] = Arrives(m, src, dst, at, i)
      OBVIOUS
    <2>2. i \in 1 .. src.len
      BY <1>3
    <2>3. CASE itself
      BY <1>7, <2>3 DEF Arrives, itself
    <2>4. CASE ~itself
      <3>1. new[at + i] = Items(m, src)[i]
        BY <1>2, <1>5, <2>1, <2>2, <2>4, ItemsAre
      <3>2. QED  BY <2>4, <3>1 DEF Arrives, itself
    <2>5. QED  BY <2>3, <2>4
  <1>15. QED  BY <1>1, <1>12, <1>13, <1>14 DEF CopiedTo

\* What a move takes out of the buffers.
Lost(m, s, b, i) == m.kind = "map" /\ b = s.buf /\ s.start < i /\ i <= s.start + s.len
Moved(m, n, s) ==
    /\ Good(n) /\ Frame(m, n)
    /\ \A b \in Buffers :
          /\ Len(n.buf[b]) = Len(m.buf[b])
          /\ \A i \in 1 .. Len(m.buf[b]) :
                n.buf[b][i] = IF Lost(m, s, b, i) THEN Emptied ELSE m.buf[b][i]

LEMMA MovedIs ==
  ASSUME NEW m, Good(m), NEW s \in Window, Fits(m, s)
  PROVE  Moved(m, MovedOut(m, s), s)
  <1>1. m \in Memory /\ Clean(m) /\ \A b \in Buffers : m.buf[b] \in Seq(AnyItem)
    BY MemoryIs DEF Good
  <1>2. CASE m.kind # "map" \/ IsNil(s)
    <2>1. MovedOut(m, s) = m
      BY <1>2 DEF MovedOut
    <2>2. \A b \in Buffers : \A i : ~Lost(m, s, b, i)
      BY <1>2, BuffersAre, WindowIs DEF Lost
    <2>3. QED  BY <2>1, <2>2 DEF Moved, Frame
  <1>3. CASE m.kind = "map" /\ ~IsNil(s)
    <2> DEFINE b == s.buf
               old == m.buf[b]
               new == [i \in DOMAIN old |->
                          IF s.start < i /\ i <= s.start + s.len THEN Emptied ELSE old[i]]
               n == Write(m, b, new)
    <2>1. MovedOut(m, s) = n
      BY <1>3 DEF MovedOut
    <2>2. b \in Buffers /\ old \in Seq(AnyItem) /\ Len(old) \in Nat /\ DOMAIN old = 1 .. Len(old)
          /\ \A i \in 1 .. Len(old) : old[i] \in AnyItem
      BY <1>1, <1>3, WindowIs, ItemOf
    <2>3. new \in Seq(AnyItem) /\ Len(new) = Len(old)
      <3>1. new \in [1 .. Len(old) -> AnyItem]
        BY <2>2 DEF AnyItem
      <3> HIDE DEF new
      <3>2. QED  BY <2>2, <3>1, Sequence
    <2>4. \A i \in 1 .. Len(old) : new[i] = IF Lost(m, s, b, i) THEN Emptied ELSE old[i]
      BY <1>3, <2>2 DEF Lost
    <2>5. Written(m, n, b, new)
      <3> HIDE DEF new, b
      <3>1. QED  BY <1>1, <2>2, <2>3, WriteIs
    <2> HIDE DEF n, new
    <2>6. n \in Memory /\ Frame(m, n) /\ n.buf[b] = new
          /\ \A a \in Buffers \ {b} : n.buf[a] = m.buf[a]
      BY <2>5 DEF Written, Frame
    <2>7. \A a \in Buffers :
            /\ Len(n.buf[a]) = Len(m.buf[a])
            /\ \A i \in 1 .. Len(m.buf[a]) :
                  n.buf[a][i] = IF Lost(m, s, a, i) THEN Emptied ELSE m.buf[a][i]
      <3>1. TAKE a \in Buffers
      <3>2. CASE a = b
        BY <2>3, <2>4, <2>6, <3>2
      <3>3. CASE a # b
        BY <2>6, <3>3 DEF Lost
      <3>4. QED  BY <3>2, <3>3
    <2>8. \A w \in Window : Fits(m, w) => Fits(n, w)
      <3>1. SUFFICES ASSUME NEW w \in Window, Fits(m, w) PROVE Fits(n, w)
        OBVIOUS
      <3>2. CASE IsNil(w)
        BY <3>1, <3>2 DEF Fits
      <3>3. CASE ~IsNil(w)
        <4>1. w.buf \in Buffers
          BY <3>3, WindowIs
        <4>2. \A i \in 1 .. w.len : n.buf[w.buf][w.start + i] # Junk
          BY <1>1, <2>7, <3>1, Places, ConstantAssumption
        <4>3. QED  BY <2>7, <3>1, <3>3, <4>1, <4>2 DEF Fits
      <3>4. QED  BY <3>2, <3>3
    <2>9. Good(n)
      BY <1>3, <2>6, <2>8, StaysGood DEF Clean, Frame, MayEmpty
    <2>10. QED  BY <2>1, <2>6, <2>7, <2>9 DEF Moved
  <1>4. QED  BY <1>2, <1>3

\* What the items of a window become when those of s have moved.
ShownIs(m, s, w, i) == IF Lost(m, s, w.buf, w.start + i) THEN Emptied ELSE Items(m, w)[i]

\* A larger buffer for s: the items given are in it, and those of s have moved.
Grown(m, r, s, items, len, cap) ==
    /\ Good(r.m) /\ Frame(m, r.m)
    /\ r.s \in Window /\ Fits(r.m, r.s)
    /\ r.s.buf \in Buffers /\ r.s.start = 0 /\ r.s.len = len /\ r.s.cap = cap
    /\ Items(r.m, r.s) = items
    /\ \A x \in Slices : m.h[x].buf # r.s.buf
    /\ \A x \in Slices : \A i \in 1 .. m.h[x].len :
          Items(r.m, m.h[x])[i] = ShownIs(m, s, m.h[x], i)

LEMMA GrownIs ==
  ASSUME NEW m, Good(m), NEW s \in Window, Fits(m, s), NEW len \in Nat, NEW cap \in Nat,
         len <= cap, NEW items \in [1 .. len -> AnyItem \ {Junk}],
         ~MayEmpty(m.kind) => \A i \in 1 .. len : items[i] # Emptied
  PROVE  Grown(m, AllocNew(MovedOut(m, s), items, len, cap), s, items, len, cap)
  <1> DEFINE n == MovedOut(m, s)
             r == AllocNew(n, items, len, cap)
  <1>1. Moved(m, n, s)
    BY MovedIs
  <1> HIDE DEF n
  <1>2. Good(n) /\ n.kind = m.kind /\ n.h = m.h /\ n.arr = m.arr
    BY <1>1 DEF Moved, Frame
  <1>3. Allocated(n, r, items, len, cap)
    BY <1>2, AllocIs
  <1> HIDE DEF r
  <1>4. \A x \in Slices : \A i \in 1 .. m.h[x].len :
           Items(r.m, m.h[x])[i] = ShownIs(m, s, m.h[x], i)
    <2>1. TAKE x \in Slices
    <2> DEFINE w == m.h[x]
    <2>2. /\ m \in Memory /\ r.m \in Memory /\ w \in Window /\ Fits(m, w) /\ Fits(r.m, w)
          /\ w.buf # r.s.buf
      BY <1>2, <1>3, MemoryIs DEF Good, Allocated, Frame
    <2>3. TAKE i \in 1 .. w.len
    <2> HIDE DEF w
    <2>4. w.buf \in Buffers /\ w.start + i \in 1 .. Len(m.buf[w.buf])
      BY <2>2, Places
    <2>5. /\ Items(r.m, w)[i] = r.m.buf[w.buf][w.start + i]
          /\ Items(m, w)[i] = m.buf[w.buf][w.start + i]
      BY <2>2, ItemsAre
    <2>6. r.m.buf[w.buf] = n.buf[w.buf]
      BY <1>3, <2>2, <2>4 DEF Allocated
    <2>7. n.buf[w.buf][w.start + i]
            = IF Lost(m, s, w.buf, w.start + i) THEN Emptied ELSE m.buf[w.buf][w.start + i]
      BY <1>1, <2>4 DEF Moved
    <2>8. Items(r.m, w)[i] = ShownIs(m, s, w, i)
      BY <2>5, <2>6, <2>7 DEF ShownIs
    <2>9. QED  BY <2>8 DEF w
  <1>5. Grown(m, r, s, items, len, cap)
    BY <1>2, <1>3, <1>4 DEF Grown, Allocated, Frame
  <1>6. QED  BY <1>5 DEF r, n

-----------------------------------------------------------------------------
(* append and push.                                                        *)

\* t is s with n items more.
Longer(s, t, n) ==
    t \in Window /\ t.buf = s.buf /\ t.start = s.start /\ t.len = s.len + n /\ t.cap = s.cap

LEMMA LongerIs ==
  ASSUME NEW s \in Window, NEW n \in Nat
  PROVE  Longer(s, [s EXCEPT !.len = @ + n], n)
  <1>1. s.len + n \in Nat
    BY WindowIs
  <1>2. [s EXCEPT !.len = s.len + n] \in Window
    BY <1>1 DEF Window
  <1>3. QED  BY <1>2 DEF Longer, Window

\* In place, t shows the items of s and those that were written behind them, and
\* so does every window that reaches there.
Behind(s, t, w, i) ==
    w.buf = s.buf /\ w.start + i > s.start + s.len /\ w.start + i <= s.start + t.len
Extended(m, c, s, t, n) ==
    /\ Longer(s, t, n) /\ Good(c) /\ Frame(m, c) /\ Fits(c, t)
    /\ \A i \in 1 .. s.len : Items(c, t)[i] = Items(m, s)[i]
    /\ \A w \in Window : Fits(m, w) => Fits(c, w)
    /\ \A w \in Window : Fits(m, w) => \A i \in 1 .. w.len :
          Items(c, w)[i] = IF Behind(s, t, w, i) THEN Items(c, t)[w.start + i - s.start]
                           ELSE Items(m, w)[i]

LEMMA ExtendedIs ==
  ASSUME NEW m, Good(m), NEW s \in Window, Fits(m, s), s.buf \in Buffers,
         NEW n \in Nat, s.len + n <= s.cap, NEW t, Longer(s, t, n),
         NEW c, Filled(m, c, s.buf, s.start + s.len, n),
         \A i \in 1 .. n : c.buf[s.buf][s.start + s.len + i] # Junk
  PROVE  /\ Extended(m, c, s, t, n)
         /\ \A i \in 1 .. n : Items(c, t)[s.len + i] = c.buf[s.buf][s.start + s.len + i]
  <1> DEFINE b == s.buf
  <1>1. /\ m \in Memory /\ c \in Memory /\ t \in Window /\ t.buf = b /\ t.start = s.start
        /\ t.len = s.len + n /\ t.cap = s.cap
        /\ ~IsNil(s) /\ ~IsNil(t)
    BY BuffersAre DEF Good, Filled, Longer, IsNil
  <1>2. s.start \in Nat /\ s.len \in Nat /\ s.cap \in Nat
    BY WindowIs
  <1>3. Len(m.buf[b]) = s.start + s.cap /\ Len(c.buf[b]) = Len(m.buf[b])
    BY <1>1 DEF Fits, Filled
  <1>4. \A i \in 1 .. s.len :
           c.buf[b][s.start + i] = m.buf[b][s.start + i] /\ c.buf[b][s.start + i] # Junk
    <2>1. TAKE i \in 1 .. s.len
    <2>2. s.start + i \in 1 .. Len(m.buf[b]) /\ s.start + i <= s.start + s.len
      BY <1>2, <1>3
    <2>3. c.buf[b][s.start + i] = m.buf[b][s.start + i]
      BY <2>2 DEF Filled
    <2>4. QED  BY <1>1, <2>3, Places
  <1>5. Fits(c, t)
    <2>1. \A i \in 1 .. t.len :
             i \in 1 .. s.len \/ (i - s.len \in 1 .. n /\ s.start + i = s.start + s.len + (i - s.len))
      BY <1>1, <1>2
    <2>2. \A i \in 1 .. t.len : c.buf[b][s.start + i] # Junk
      BY <1>4, <2>1
    <2>3. QED  BY <1>1, <1>2, <1>3, <2>2 DEF Fits
  <1>6. \A i \in 1 .. t.len : Items(c, t)[i] = c.buf[b][s.start + i]
    BY <1>1, <1>5, ItemsAre
  <1>7. \A i \in 1 .. s.len : Items(c, t)[i] = Items(m, s)[i]
    <2>1. \A i \in 1 .. s.len : i \in 1 .. t.len
      BY <1>1, <1>2
    <2>2. QED  BY <1>1, <1>4, <1>6, <2>1, ItemsAre
  <1>8. \A i \in 1 .. n : Items(c, t)[s.len + i] = c.buf[b][s.start + s.len + i]
    <2>1. \A i \in 1 .. n : s.len + i \in 1 .. t.len /\ s.start + (s.len + i) = s.start + s.len + i
      BY <1>1, <1>2
    <2>2. QED  BY <1>6, <2>1
  <1>9. ASSUME NEW w \in Window, Fits(m, w), NEW i \in 1 .. w.len
        PROVE  Items(c, w)[i] = IF Behind(s, t, w, i) THEN Items(c, t)[w.start + i - s.start]
                                ELSE Items(m, w)[i]
    <2>1. Fits(c, w) /\ w.buf \in Buffers /\ w.start + i \in 1 .. Len(m.buf[w.buf])
      BY <1>1, <1>9, Places DEF Filled
    <2>2. Items(c, w)[i] = c.buf[w.buf][w.start + i] /\ Items(m, w)[i] = m.buf[w.buf][w.start + i]
      BY <1>1, <1>9, <2>1, ItemsAre
    <2>3. w.start \in Nat /\ i \in Nat
      BY WindowIs
    <2>4. CASE Behind(s, t, w, i)
      <3>1. w.start + i - s.start \in 1 .. t.len /\ s.start + (w.start + i - s.start) = w.start + i
        BY <1>1, <1>2, <2>3, <2>4 DEF Behind
      <3>2. Items(c, t)[w.start + i - s.start] = c.buf[b][w.start + i]
        BY <1>6, <3>1
      <3>3. QED  BY <2>2, <2>4, <3>2 DEF Behind
    <2>5. CASE ~Behind(s, t, w, i) /\ w.buf = b
      <3>1. w.start + i <= s.start + s.len \/ w.start + i > s.start + s.len + n
        BY <1>1, <1>2, <2>3, <2>5 DEF Behind
      <3>2. c.buf[b][w.start + i] = m.buf[b][w.start + i]
        BY <2>1, <2>5, <3>1 DEF Filled
      <3>3. QED  BY <2>2, <2>5, <3>2
    <2>6. CASE w.buf # b
      <3>1. c.buf[w.buf] = m.buf[w.buf] /\ ~Behind(s, t, w, i)
        BY <2>1, <2>6 DEF Filled, Behind
      <3>2. QED  BY <2>2, <3>1
    <2>7. QED  BY <2>4, <2>5, <2>6
  <1>10. QED  BY <1>5, <1>7, <1>8, <1>9 DEF Extended, Filled

\* r is s with n items more, in place or in a buffer of its own.
Lengthened(m, r, s, n) ==
    /\ Good(r.m) /\ Frame(m, r.m)
    /\ r.s \in Window /\ Fits(r.m, r.s) /\ r.s.len = s.len + n
    /\ \A i \in 1 .. s.len : Items(r.m, r.s)[i] = Items(m, s)[i]
    /\ s.len + n <= s.cap =>
          /\ r.s.buf = s.buf /\ r.s.start = s.start /\ r.s.cap = s.cap
          /\ \A x \in Slices : \A i \in 1 .. m.h[x].len :
                Items(r.m, m.h[x])[i] =
                    IF Behind(s, r.s, m.h[x], i) THEN Items(r.m, r.s)[m.h[x].start + i - s.start]
                    ELSE Items(m, m.h[x])[i]
    /\ s.len + n > s.cap =>
          /\ r.s.cap = 2 * (s.len + n)
          /\ \A x \in Slices : m.h[x].buf # r.s.buf
          /\ \A x \in Slices : \A i \in 1 .. m.h[x].len :
                Items(r.m, m.h[x])[i] = ShownIs(m, s, m.h[x], i)

LEMMA SlicesFit ==
  ASSUME NEW m, Good(m), NEW x \in Slices
  PROVE  m \in Memory /\ m.h[x] \in Window /\ Fits(m, m.h[x])
  BY MemoryIs DEF Good

LEMMA InPlace ==
  ASSUME NEW m, Good(m), NEW s \in Window, NEW n \in Nat, s.len + n <= s.cap,
         NEW r, Extended(m, r.m, s, r.s, n)
  PROVE  Lengthened(m, r, s, n)
  <1>1. ~(s.len + n > s.cap)
    BY WindowIs
  <1>2. QED  BY <1>1, SlicesFit DEF Lengthened, Extended, Longer

\* alloc_new, and then the items behind.
LEMMA InLarger ==
  ASSUME NEW m, Good(m), NEW s \in Window, NEW n \in Nat, s.len + n > s.cap,
         NEW g, Grown(m, g, s, Items(m, s), s.len, 2 * (s.len + n)),
         NEW r, Extended(g.m, r.m, g.s, r.s, n)
  PROVE  Lengthened(m, r, s, n)
  <1>1. /\ Good(g.m) /\ Frame(m, g.m) /\ g.s \in Window /\ g.s.len = s.len
        /\ g.s.cap = 2 * (s.len + n) /\ Items(g.m, g.s) = Items(m, s)
    BY DEF Grown
  <1>2. /\ Good(r.m) /\ Frame(m, r.m) /\ r.s \in Window /\ Fits(r.m, r.s)
        /\ r.s.len = s.len + n /\ r.s.cap = 2 * (s.len + n) /\ r.s.buf = g.s.buf
    BY <1>1 DEF Extended, Longer, Frame
  <1>3. \A i \in 1 .. s.len : Items(r.m, r.s)[i] = Items(m, s)[i]
    BY <1>1 DEF Extended
  <1>4. \A x \in Slices : m.h[x].buf # r.s.buf
    BY <1>2 DEF Grown
  <1>5. ASSUME NEW x \in Slices, NEW i \in 1 .. m.h[x].len
        PROVE  Items(r.m, m.h[x])[i] = ShownIs(m, s, m.h[x], i)
    <2>1. m.h[x] \in Window /\ Fits(g.m, m.h[x])
      BY <1>1, SlicesFit DEF Frame
    <2>2. ~Behind(g.s, r.s, m.h[x], i)
      BY <1>2, <1>4 DEF Behind
    <2>3. Items(r.m, m.h[x])[i] = Items(g.m, m.h[x])[i]
      BY <2>1, <2>2 DEF Extended
    <2>4. QED  BY <2>3 DEF Grown
  <1>6. ~(s.len + n <= s.cap)
    BY WindowIs
  <1>7. QED  BY <1>2, <1>3, <1>4, <1>5, <1>6 DEF Lengthened

\* Items of another type are never empty.
LEMMA ItemsClean ==
  ASSUME NEW m, Good(m), NEW s \in Window, Fits(m, s), ~MayEmpty(m.kind), NEW i \in 1 .. s.len
  PROVE  Items(m, s)[i] # Emptied
  <1>1. m \in Memory  BY DEF Good
  <1>2. QED  BY <1>1, Places, ItemsAre DEF Good, Clean

LEMMA ForAppendIs ==
  ASSUME NEW m, Good(m), NEW s \in Window, Fits(m, s), NEW n \in Nat
  PROVE  /\ s.len + n > s.cap =>
              Grown(m, AllocForAppend(m, s, n), s, Items(m, s), s.len, 2 * (s.len + n))
         /\ s.len + n <= s.cap => AllocForAppend(m, s, n) = Result(m, s)
  <1>1. m \in Memory /\ s.len \in Nat /\ s.cap \in Nat
    BY WindowIs DEF Good
  <1>2. Items(m, s) \in [1 .. s.len -> AnyItem \ {Junk}]
    BY <1>1, ItemsAre
  <1>3. CASE s.len + n > s.cap
    <2>1. 2 * (s.len + n) \in Nat /\ s.len <= 2 * (s.len + n)
      BY <1>1
    <2>2. Grown(m, AllocNew(MovedOut(m, s), Items(m, s), s.len, 2 * (s.len + n)), s,
                Items(m, s), s.len, 2 * (s.len + n))
      BY <1>1, <1>2, <2>1, ItemsClean, GrownIs
    <2>3. ~(s.len + n <= s.cap)
      BY <1>1, <1>3
    <2>4. QED  BY <1>3, <2>2, <2>3 DEF AllocForAppend
  <1>4. CASE s.len + n <= s.cap
    <2>1. ~(s.len + n > s.cap)
      BY <1>1, <1>4
    <2>2. QED  BY <1>4, <2>1 DEF AllocForAppend
  <1>5. QED  BY <1>1, <1>3, <1>4

\* append(s, more...)
Appended(m, r, s, more) ==
    /\ Lengthened(m, r, s, more.len)
    /\ s.len + more.len > s.cap =>
          \A i \in 1 .. more.len : Items(r.m, r.s)[s.len + i] = ShownIs(m, s, more, i)
    /\ s.len + more.len <= s.cap /\ ~Tangled(m, more, more.len, s, s.start + s.len) =>
          \A i \in 1 .. more.len :
             Items(r.m, r.s)[s.len + i] = Arrives(m, more, s, s.start + s.len, i)

\* The items of more, stored behind those of s.
LaidBehind(m, c, s, t, more) ==
    /\ Extended(m, c, s, t, more.len)
    /\ ~Tangled(m, more, more.len, s, s.start + s.len) =>
          \A i \in 1 .. more.len : Items(c, t)[s.len + i] = Arrives(m, more, s, s.start + s.len, i)

LEMMA LaidBehindIs ==
  ASSUME NEW m, Good(m), NEW s \in Window, Fits(m, s), NEW more \in Window, Fits(m, more),
         more.len # 0, s.len + more.len <= s.cap,
         NEW t, Longer(s, t, more.len)
  PROVE  LaidBehind(m, StdCopy(m, more, more.len, s, s.start + s.len), s, t, more)
  <1> DEFINE c == StdCopy(m, more, more.len, s, s.start + s.len)
  <1>1. /\ s.start \in Nat /\ s.len \in Nat /\ s.cap \in Nat /\ more.len \in Nat
        /\ m \in Memory
    BY WindowIs DEF Good
  <1>2. ~IsNil(s)
    BY <1>1 DEF Fits, NilSlice
  <1>3. s.buf \in Buffers /\ s.start + s.cap = Len(m.buf[s.buf])
    BY <1>2, WindowIs DEF Fits
  <1>4. s.start + s.len \in Nat /\ s.start + s.len + more.len <= Len(m.buf[s.buf])
    BY <1>1, <1>3
  <1>5. CopiedTo(m, c, more, more.len, s, s.start + s.len)
    BY <1>1, <1>3, <1>4, StdCopyIs
  <1> HIDE DEF c
  <1>6. \A i \in 1 .. more.len : c.buf[s.buf][s.start + s.len + i] # Junk
    <2>1. \A i \in 1 .. more.len :
             /\ s.start + s.len + i \in 1 .. Len(m.buf[s.buf])
             /\ ~(s.start + s.len + i <= s.start + s.len)
             /\ ~(s.start + s.len + i > s.start + s.len + more.len)
      <3> DEFINE at == s.start + s.len
                 n == more.len
                 total == Len(m.buf[s.buf])
      <3>1. at \in Nat /\ n \in Nat /\ at + n <= total /\ total \in Nat
        BY <1>1, <1>3, <1>4
      <3> HIDE DEF at, n, total
      <3>2. \A i \in 1 .. n : at + i \in 1 .. total /\ ~(at + i <= at) /\ ~(at + i > at + n)
        BY <3>1
      <3>3. QED  BY <3>2 DEF at, n, total
    <2>2. QED  BY <1>5, <2>1 DEF CopiedTo, Filled
  <1>7. Filled(m, c, s.buf, s.start + s.len, more.len)
    BY <1>5 DEF CopiedTo
  <1>8. /\ Extended(m, c, s, t, more.len)
        /\ \A i \in 1 .. more.len : Items(c, t)[s.len + i] = c.buf[s.buf][s.start + s.len + i]
    BY <1>1, <1>3, <1>6, <1>7, ExtendedIs, SMTT(20)
  <1>9. ~Tangled(m, more, more.len, s, s.start + s.len) =>
           \A i \in 1 .. more.len :
              Items(c, t)[s.len + i] = Arrives(m, more, s, s.start + s.len, i)
    BY <1>5, <1>8 DEF CopiedTo
  <1>10. QED  BY <1>8, <1>9 DEF c, LaidBehind

LEMMA AppendSliceIs ==
  ASSUME NEW m, Good(m), NEW x \in Slices, NEW z \in Slices
  PROVE  Appended(m, AppendSlice(m, m.h[x], m.h[z]), m.h[x], m.h[z])
  <1> DEFINE s == m.h[x]
             more == m.h[z]
             g == AllocForAppend(m, s, more.len)
             c == StdCopy(g.m, more, more.len, g.s, g.s.start + g.s.len)
             t == [g.s EXCEPT !.len = @ + more.len]
             r == [m |-> c, s |-> t]
  <1>1. /\ m \in Memory /\ s \in Window /\ Fits(m, s) /\ more \in Window /\ Fits(m, more)
        /\ s.len \in Nat /\ s.cap \in Nat /\ more.len \in Nat
    BY SlicesFit, WindowIs
  <1>2. CASE more.len = 0
    <2>1. AppendSlice(m, s, more) = [m |-> m, s |-> s]
      BY <1>2 DEF AppendSlice, Result
    <2>2. s.len <= s.cap
      BY <1>1, NilIs DEF Fits, NilSlice
    <2> DEFINE q == [m |-> m, s |-> s]
    <2>3. q.m = m /\ q.s = s
      OBVIOUS
    <2> HIDE DEF q, s, more
    <2>4. s.len + more.len = s.len /\ s.len + more.len <= s.cap /\ ~(s.len + more.len > s.cap)
          /\ \A i \in 1 .. more.len : FALSE
      BY <1>1, <1>2, <2>2
    <2>5. \A w \in Window : \A i \in 1 .. w.len : ~Behind(s, s, w, i)
      BY <1>1, WindowIs DEF Behind
    <2>6. Lengthened(m, q, s, more.len)
      BY <1>1, <2>3, <2>4, <2>5, SlicesFit DEF Lengthened, Frame
    <2>7. Appended(m, q, s, more)
      BY <2>4, <2>6 DEF Appended
    <2>8. QED  BY <2>1, <2>7 DEF q, s, more
  <1>3. CASE more.len # 0
    <2>1. AppendSlice(m, s, more) = r
      BY <1>3 DEF AppendSlice, Result
    <2>2. r.m = c /\ r.s = t
      OBVIOUS
    <2> HIDE DEF r, s, more
    <2>3. CASE s.len + more.len <= s.cap
      <3>1. g = [m |-> m, s |-> s]
        BY <1>1, <2>3, ForAppendIs DEF Result
      <3>2. g.m = m /\ g.s = s
        BY <3>1
      <3> HIDE DEF g
      <3>3. Longer(s, t, more.len)
        BY <1>1, <3>2, LongerIs
      <3>4. LaidBehind(m, c, s, t, more)
        <4> HIDE DEF t
        <4>1. LaidBehind(m, StdCopy(m, more, more.len, s, s.start + s.len), s, t, more)
          BY <1>1, <1>3, <2>3, <3>3, LaidBehindIs
        <4>2. c = StdCopy(m, more, more.len, s, s.start + s.len)
          BY <3>2
        <4> HIDE DEF c
        <4>3. QED  BY <4>1, <4>2
      <3> HIDE DEF c, t
      <3>5. Lengthened(m, r, s, more.len)
        BY <1>1, <2>2, <2>3, <3>4, InPlace DEF LaidBehind
      <3>6. ~(s.len + more.len > s.cap)
        BY <1>1, <2>3
      <3>7. Appended(m, r, s, more)
        BY <2>2, <3>4, <3>5, <3>6 DEF Appended, LaidBehind
      <3>8. QED  BY <2>1, <3>7 DEF s, more
    <2>4. CASE s.len + more.len > s.cap
      <3>1. Grown(m, g, s, Items(m, s), s.len, 2 * (s.len + more.len))
        BY <1>1, <2>4, ForAppendIs
      <3> HIDE DEF g
      <3>2. /\ Good(g.m) /\ g.m.h = m.h /\ g.m.kind = m.kind /\ g.s \in Window /\ Fits(g.m, g.s)
            /\ g.s.len = s.len /\ g.s.cap = 2 * (s.len + more.len)
            /\ \A y \in Slices : m.h[y].buf # g.s.buf
        BY <3>1 DEF Grown, Frame
      <3>3. Fits(g.m, more)
        BY <3>2, SlicesFit DEF more
      <3>4. g.s.len + more.len <= g.s.cap
        BY <1>1, <3>2
      <3>5. Longer(g.s, t, more.len)
        BY <1>1, <3>2, LongerIs
      <3>6. LaidBehind(g.m, c, g.s, t, more)
        <4> HIDE DEF t
        <4>1. QED  BY <1>1, <1>3, <3>2, <3>3, <3>4, <3>5, LaidBehindIs
      <3> HIDE DEF c, t
      <3>7. Lengthened(m, r, s, more.len)
        BY <1>1, <2>2, <2>4, <3>1, <3>6, InLarger DEF LaidBehind
      <3>8. /\ ~Tangled(g.m, more, more.len, g.s, g.s.start + g.s.len)
            /\ ~EachToItself(g.m, more, g.s, g.s.start + g.s.len)
        BY <3>2 DEF Tangled, Overlap, EachToItself, more
      <3>9. \A i \in 1 .. more.len : Items(g.m, more)[i] = ShownIs(m, s, more, i)
        BY <3>1 DEF Grown, more
      <3>10. \A i \in 1 .. more.len : Items(r.m, r.s)[s.len + i] = ShownIs(m, s, more, i)
        BY <2>2, <3>2, <3>6, <3>8, <3>9 DEF LaidBehind, Arrives
      <3>11. ~(s.len + more.len <= s.cap)
        BY <1>1, <2>4
      <3>12. Appended(m, r, s, more)
        BY <3>7, <3>10, <3>11 DEF Appended
      <3>13. QED  BY <2>1, <3>12 DEF s, more
    <2>5. QED  BY <1>1, <2>3, <2>4
  <1>4. QED  BY <1>2, <1>3

IsConcat(f, g, q) == f = g \o q

LEMMA Concatenated ==
  ASSUME NEW S, NEW a \in Nat, NEW b \in Nat, NEW f \in [1 .. a + b -> S],
         NEW g \in [1 .. a -> S], NEW q \in [1 .. b -> S],
         \A i \in 1 .. a : f[i] = g[i], \A i \in 1 .. b : f[a + i] = q[i]
  PROVE  IsConcat(f, g, q)
  <1>1. f \in Seq(S) /\ Len(f) = a + b /\ g \in Seq(S) /\ Len(g) = a /\ q \in Seq(S) /\ Len(q) = b
    BY Sequence
  <1>2. g \o q \in Seq(S) /\ Len(g \o q) = a + b
    BY <1>1, ConcatProperties
  <1>3. \A i \in 1 .. a + b : (g \o q)[i] = f[i]
    <2>1. TAKE i \in 1 .. a + b
    <2>2. (g \o q)[i] = IF i <= a THEN g[i] ELSE q[i - a]
      BY <1>1, ConcatProperties
    <2>3. i <= a \/ (i - a \in 1 .. b /\ a + (i - a) = i /\ ~(i <= a))
      OBVIOUS
    <2>4. QED  BY <2>2, <2>3
  <1>4. g \o q \in [1 .. a + b -> S]
    BY <1>2, LenProperties, ElementOfSeq
  <1>5. QED  BY <1>3, <1>4 DEF IsConcat

ShownRight(q, s, w, lost) ==
    /\ q \in [1 .. s.len -> AnyItem \ {Junk}]
    /\ ~lost => \A i \in 1 .. s.len : q[i] = Items(mem, s)[i]
    /\ (lost <=> mem.kind = "map") => \A i \in 1 .. s.len : q[i] = ShownIs(mem, w, s, i)

LEMMA ShownAre ==
  ASSUME Good(mem), NEW x \in Slices, NEW y \in Slices, NEW lost
  PROVE  ShownRight(Shown(mem.h[y], mem.h[x], lost), mem.h[y], mem.h[x], lost)
  <1> DEFINE s == mem.h[y]
             w == mem.h[x]
             q == Shown(s, w, lost)
  <1>1. /\ s \in Window /\ w \in Window
        /\ s.start \in Nat /\ s.len \in Nat /\ w.start \in Nat /\ w.len \in Nat
    BY SlicesFit, WindowIs
  <1>2. /\ Items(mem, s) \in [1 .. s.len -> AnyItem \ {Junk}]
        /\ DOMAIN Items(mem, s) = 1 .. s.len
    BY SlicesFit, ItemsAre
  <1> HIDE DEF s, w
  <1>3. q = [i \in 1 .. s.len |->
               IF lost /\ s.buf = w.buf /\ s.start + i \in w.start + 1 .. w.start + w.len
               THEN Emptied ELSE Items(mem, s)[i]]
    BY <1>2 DEF Shown
  <1>4. Emptied \in AnyItem \ {Junk}
    BY ConstantAssumption DEF AnyItem
  <1>5. q \in [1 .. s.len -> AnyItem \ {Junk}]
    BY <1>2, <1>3, <1>4
  <1>6. ASSUME NEW i \in 1 .. s.len
        PROVE  /\ ~lost => q[i] = Items(mem, s)[i]
               /\ (lost <=> mem.kind = "map") => q[i] = ShownIs(mem, w, s, i)
    <2>1. s.start + i \in w.start + 1 .. w.start + w.len
             <=> w.start < s.start + i /\ s.start + i <= w.start + w.len
      BY <1>1
    <2>2. q[i] = IF lost /\ s.buf = w.buf /\ s.start + i \in w.start + 1 .. w.start + w.len
                 THEN Emptied ELSE Items(mem, s)[i]
      BY <1>3
    <2> HIDE DEF q
    <2>3. QED  BY <2>1, <2>2 DEF ShownIs, Lost
  <1>7. ShownRight(q, s, w, lost)
    BY <1>5, <1>6 DEF ShownRight
  <1>8. QED  BY <1>7 DEF s, w

CopiedRight(q, s, to, at) ==
    /\ q \in [1 .. s.len -> AnyItem \ {Junk}]
    /\ \A i \in 1 .. s.len : q[i] = Arrives(mem, s, to, at, i)

LEMMA CopiedAre ==
  ASSUME Good(mem), NEW y \in Slices, NEW to, NEW at
  PROVE  CopiedRight(Copied(Items(mem, mem.h[y]), mem.h[y], to, at), mem.h[y], to, at)
  <1> DEFINE s == mem.h[y]
             f == Items(mem, s)
             q == Copied(f, s, to, at)
  <1>1. f \in [1 .. s.len -> AnyItem \ {Junk}] /\ DOMAIN f = 1 .. s.len
    BY SlicesFit, ItemsAre
  <1>2. Emptied \in AnyItem \ {Junk}
    BY ConstantAssumption DEF AnyItem
  <1>3. q = [i \in 1 .. s.len |-> IF EachToItself(mem, s, to, at) THEN Emptied ELSE f[i]]
    BY <1>1 DEF Copied
  <1>4. q \in [1 .. s.len -> AnyItem \ {Junk}]
    BY <1>1, <1>2, <1>3
  <1>5. \A i \in 1 .. s.len : q[i] = Arrives(mem, s, to, at, i)
    BY <1>3 DEF Arrives
  <1>6. QED  BY <1>4, <1>5 DEF CopiedRight

\* append is concatenation.
LEMMA ConcatenatesIs == Good(mem) => AppendConcatenates
  <1>1. SUFFICES ASSUME Good(mem), NEW x \in Vars, NEW y \in Vars
                 PROVE  LET r == AppendSlice(mem, H(x), H(y))
                            lost == mem.kind = "map" /\ Grows(H(x), H(y))
                            end == H(x).start + H(x).len
                            more == IF Grows(H(x), H(y)) THEN Shown(H(y), H(x), lost)
                                    ELSE Copied(Items(mem, H(y)), H(y), H(x), end)
                        IN  \/ Items(r.m, r.s) = Items(mem, H(x)) \o more
                            \/ /\ mem.kind # "trivial" /\ ~Grows(H(x), H(y))
                               /\ Overlap(H(x), end, H(y), H(y).len)
    BY DEF AppendConcatenates
  <1> DEFINE s == mem.h[x]
             more == mem.h[y]
             r == AppendSlice(mem, s, more)
             lost == mem.kind = "map" /\ Grows(s, more)
             q == IF Grows(s, more) THEN Shown(more, s, lost)
                  ELSE Copied(Items(mem, more), more, s, s.start + s.len)
  <1>2. x \in Slices /\ y \in Slices
    BY DEF Slices
  <1>3. /\ mem \in Memory /\ s \in Window /\ Fits(mem, s) /\ more \in Window /\ Fits(mem, more)
        /\ s.len \in Nat /\ s.cap \in Nat /\ more.len \in Nat
    BY <1>1, <1>2, SlicesFit, WindowIs
  <1>4. Appended(mem, r, s, more)
    BY <1>1, <1>2, AppendSliceIs
  <1>5. /\ Grows(s, more) => ShownRight(q, more, s, lost)
        /\ ~Grows(s, more) => CopiedRight(q, more, s, s.start + s.len)
    BY <1>1, <1>2, ShownAre, CopiedAre
  <1> DEFINE f == Items(r.m, r.s)
             g == Items(mem, s)
  <1> HIDE DEF r, q, s, more
  <1>6. /\ f \in [1 .. s.len + more.len -> AnyItem \ {Junk}]
        /\ \A i \in 1 .. s.len : f[i] = g[i]
    BY <1>4, ItemsAre DEF Appended, Lengthened, Good
  <1>7. g \in [1 .. s.len -> AnyItem \ {Junk}]
    BY <1>3, ItemsAre
  <1>8. CASE Grows(s, more)
    <2>1. \A i \in 1 .. more.len : f[s.len + i] = q[i]
      BY <1>4, <1>5, <1>8 DEF Appended, Grows, ShownRight
    <2>2. f = g \o q
      <3> DEFINE S == AnyItem \ {Junk}
                 a == s.len
                 b == more.len
      <3>1. a \in Nat /\ b \in Nat /\ f \in [1 .. a + b -> S] /\ g \in [1 .. a -> S]
            /\ (\A i \in 1 .. a : f[i] = g[i]) /\ \A i \in 1 .. b : f[a + i] = q[i]
        BY <1>3, <1>6, <1>7, <2>1
      <3>2. q \in [1 .. b -> S]
        BY <1>5, <1>8 DEF ShownRight
      <3> HIDE DEF f, g, a, b, S
      <3>3. IsConcat(f, g, q)
        BY <3>1, <3>2, Concatenated
      <3>4. QED  BY <3>3 DEF IsConcat
    <2>3. QED  BY <2>2 DEF r, q, s, more, H
  <1>9. CASE ~Grows(s, more) /\ ~Tangled(mem, more, more.len, s, s.start + s.len)
    <2>1. s.len + more.len <= s.cap
      BY <1>3, <1>9 DEF Grows
    <2>2. \A i \in 1 .. more.len : f[s.len + i] = q[i]
      BY <1>4, <1>5, <1>9, <2>1 DEF Appended, CopiedRight
    <2>3. f = g \o q
      <3> DEFINE S == AnyItem \ {Junk}
                 a == s.len
                 b == more.len
      <3>1. a \in Nat /\ b \in Nat /\ f \in [1 .. a + b -> S] /\ g \in [1 .. a -> S]
            /\ (\A i \in 1 .. a : f[i] = g[i]) /\ \A i \in 1 .. b : f[a + i] = q[i]
        BY <1>3, <1>6, <1>7, <2>2
      <3>2. q \in [1 .. b -> S]
        BY <1>5, <1>9 DEF CopiedRight
      <3> HIDE DEF f, g, a, b, S
      <3>3. IsConcat(f, g, q)
        BY <3>1, <3>2, Concatenated
      <3>4. QED  BY <3>3 DEF IsConcat
    <2>4. QED  BY <2>3 DEF r, q, s, more, H
  <1>10. CASE ~Grows(s, more) /\ Tangled(mem, more, more.len, s, s.start + s.len)
    BY <1>10 DEF Tangled, s, more, H
  <1>11. QED  BY <1>8, <1>9, <1>10

\* append spares what others see.
LEMMA SparesIs == Good(mem) => AppendSpares
  <1>1. SUFFICES ASSUME Good(mem), NEW x \in Vars, NEW y \in Vars, NEW w \in Vars
                 PROVE  LET r == AppendSlice(mem, H(x), H(y))
                            end == H(x).start + H(x).len
                            seen == Items(r.m, H(w))
                        IN  /\ Len(seen) = H(w).len
                            /\ \A i \in 1 .. Len(seen) : ~Grows(H(x), H(y)) =>
                                  (seen[i] # Items(mem, H(w))[i] =>
                                      H(w).buf = H(x).buf /\ H(w).start + i > end)
                            /\ Grows(H(x), H(y)) =>
                                  /\ seen = Shown(H(w), H(x), mem.kind = "map")
                                  /\ r.s.buf # H(w).buf
    BY DEF AppendSpares
  <1> DEFINE s == mem.h[x]
             more == mem.h[y]
             other == mem.h[w]
             r == AppendSlice(mem, s, more)
             q == Shown(other, s, mem.kind = "map")
  <1>2. x \in Slices /\ y \in Slices /\ w \in Slices
    BY DEF Slices
  <1>3. /\ s \in Window /\ more \in Window
        /\ s.len \in Nat /\ s.cap \in Nat /\ more.len \in Nat
    BY <1>1, <1>2, SlicesFit, WindowIs
  <1>4. Appended(mem, r, s, more)
    BY <1>1, <1>2, AppendSliceIs
  <1> HIDE DEF r
  <1>5. /\ q \in [1 .. other.len -> AnyItem \ {Junk}]
        /\ \A i \in 1 .. other.len : q[i] = ShownIs(mem, s, other, i)
    <2>1. ShownRight(q, other, s, mem.kind = "map")
      BY <1>1, <1>2, ShownAre
    <2> HIDE DEF q
    <2>2. QED  BY <2>1 DEF ShownRight
  <1>6. /\ r.m \in Memory /\ other \in Window /\ Fits(r.m, other)
    <2>1. Good(r.m) /\ r.m.h = mem.h
      BY <1>4 DEF Appended, Lengthened, Frame
    <2>2. QED  BY <1>2, <2>1, SlicesFit
  <1>7. /\ Len(Items(r.m, other)) = other.len
        /\ Items(r.m, other) \in [1 .. other.len -> AnyItem \ {Junk}] /\ other.len \in Nat
    BY <1>6, ItemsAre, WindowIs
  <1> HIDE DEF q
  <1>8. ASSUME NEW i \in 1 .. other.len, ~Grows(s, more),
               Items(r.m, other)[i] # Items(mem, other)[i]
        PROVE  other.buf = s.buf /\ other.start + i > s.start + s.len
    <2>1. s.len + more.len <= s.cap
      BY <1>3, <1>8 DEF Grows
    <2>2. Behind(s, r.s, other, i)
      BY <1>2, <1>4, <1>8, <2>1 DEF Appended, Lengthened
    <2>3. QED  BY <2>2 DEF Behind
  <1>9. CASE Grows(s, more)
    <2>1. s.len + more.len > s.cap
      BY <1>9 DEF Grows
    <2>2. r.s.buf # other.buf
      BY <1>2, <1>4, <2>1 DEF Appended, Lengthened
    <2>3. \A i \in 1 .. other.len : Items(r.m, other)[i] = q[i]
      BY <1>2, <1>4, <1>5, <2>1 DEF Appended, Lengthened
    <2>4. Items(r.m, other) = q
      BY <1>5, <1>7, <2>3, SameItems
    <2>5. QED  BY <1>7, <1>9, <2>2, <2>4 DEF r, q, s, other, more, H
  <1>10. CASE ~Grows(s, more)
    BY <1>7, <1>8, <1>10 DEF r, s, other, more, H
  <1>11. QED  BY <1>9, <1>10

-----------------------------------------------------------------------------
(* copy and clone.                                                         *)

SameCut(f, g, a, b) == SubSeq(f, a, b) = SubSeq(g, a, b)

LEMMA CutsAgree ==
  ASSUME NEW S, NEW n \in Nat, NEW k \in Nat, NEW f \in [1 .. n -> S], NEW g \in [1 .. k -> S],
         NEW a \in Nat \ {0}, NEW b \in Nat, b <= n, b <= k,
         \A i \in a .. b : f[i] = g[i]
  PROVE  SameCut(f, g, a, b)
  <1> DEFINE p == SubSeq(f, a, b)
             q == SubSeq(g, a, b)
             len == IF a <= b THEN b - a + 1 ELSE 0
  <1>1. \A i \in a .. b : f[i] \in S /\ g[i] \in S
    OBVIOUS
  <1>2. /\ p \in Seq(S) /\ Len(p) = len /\ \A i \in 1 .. b - a + 1 : p[i] = f[a + i - 1]
    BY <1>1, SubSeqProperties
  <1>3. /\ q \in Seq(S) /\ Len(q) = len /\ \A i \in 1 .. b - a + 1 : q[i] = g[a + i - 1]
    BY <1>1, SubSeqProperties
  <1>4. len \in Nat /\ \A i \in 1 .. len : i \in 1 .. b - a + 1 /\ a + i - 1 \in a .. b
    OBVIOUS
  <1> HIDE DEF p, q, len
  <1>5. \A i \in 1 .. len : p[i] = q[i]
    BY <1>2, <1>3, <1>4
  <1>6. p \in [1 .. len -> S] /\ q \in [1 .. len -> S]
    BY <1>2, <1>3, LenProperties, ElementOfSeq
  <1>7. p = q
    BY <1>4, <1>5, <1>6, SameItems
  <1>8. QED  BY <1>7 DEF SameCut, p, q

LEMMA MinIs ==
  ASSUME NEW a \in Nat, NEW b \in Nat
  PROVE  LET n == Min({a, b}) IN n \in {a, b} /\ n <= a /\ n <= b
  <1>1. \E n \in {a, b} : \A k \in {a, b} : n <= k
    <2>1. CASE a <= b  BY <2>1
    <2>2. CASE b <= a  BY <2>2
    <2>3. QED  BY <2>1, <2>2
  <1>2. QED  BY <1>1 DEF Min

\* copy, when there is something to copy.
LEMMA CopyIs ==
  ASSUME NEW m, Good(m), NEW x \in Slices, NEW y \in Slices,
         NEW n, n = Min({m.h[x].len, m.h[y].len}), n # 0
  PROVE  /\ CopiedTo(m, Copy(m, m.h[x], m.h[y]), m.h[y], n, m.h[x], m.h[x].start)
         /\ m.h[x].buf \in Buffers /\ n \in Nat /\ n <= m.h[x].len /\ n <= m.h[y].len
  <1> DEFINE s == m.h[x]
             w == m.h[y]
  <1>1. /\ m \in Memory /\ s \in Window /\ w \in Window /\ Fits(m, s) /\ Fits(m, w)
        /\ s.len \in Nat /\ w.len \in Nat /\ s.start \in Nat /\ s.cap \in Nat
    BY SlicesFit, WindowIs
  <1>2. n \in Nat /\ n <= s.len /\ n <= w.len /\ s.len # 0 /\ w.len # 0
    BY <1>1, MinIs
  <1>3. ~IsNil(s)
    BY <1>1, <1>2 DEF Fits, NilSlice
  <1>4. s.buf \in Buffers /\ s.start + s.cap = Len(m.buf[s.buf]) /\ s.len <= s.cap
    BY <1>1, <1>3, WindowIs DEF Fits
  <1>5. s.start + n <= Len(m.buf[s.buf])
    BY <1>1, <1>2, <1>4
  <1>6. Copy(m, s, w) = StdCopy(m, w, n, s, s.start)
    BY <1>2 DEF Copy
  <1> HIDE DEF s, w
  <1>7. CopiedTo(m, StdCopy(m, w, n, s, s.start), w, n, s, s.start)
    BY <1>1, <1>2, <1>4, <1>5, StdCopyIs
  <1>8. QED  BY <1>2, <1>4, <1>6, <1>7 DEF s, w

LEMMA CopiedCut ==
  ASSUME NEW n \in Nat, NEW k \in Nat, n <= k, NEW f \in [1 .. k -> AnyItem \ {Junk}],
         NEW s, NEW to, NEW at
  PROVE  SubSeq(Copied(f, s, to, at), 1, n) = Copied(SubSeq(f, 1, n), s, to, at)
  <1> DEFINE S == AnyItem \ {Junk}
             R == S \union {Emptied}
             g == Copied(f, s, to, at)
             p == SubSeq(f, 1, n)
             q == SubSeq(g, 1, n)
             o == Copied(p, s, to, at)
             is == EachToItself(mem, s, to, at)
  <1> HIDE DEF S
  <1>1. g = [i \in 1 .. k |-> IF is THEN Emptied ELSE f[i]]
    BY DEF Copied
  <1> HIDE DEF is
  <1>2. g \in [1 .. k -> R] /\ f \in [1 .. k -> S] /\ \A i \in 1 .. k : g[i] = IF is THEN Emptied ELSE f[i]
    BY <1>1 DEF S
  <1> HIDE DEF g
  <1>3. 1 \in Int /\ n - 1 + 1 = n /\ (IF 1 <= n THEN n ELSE 0) = n /\ n \in Int
        /\ \A i \in 1 .. n : 1 + i - 1 = i /\ i \in 1 .. k
    OBVIOUS
  <1>4. (\A i \in 1 .. n : f[i] \in S) /\ \A i \in 1 .. n : g[i] \in R
    BY <1>2, <1>3
  <1>5. p \in Seq(S) /\ Len(p) = n /\ \A i \in 1 .. n : p[i] = f[i]
    BY <1>3, <1>4, SubSeqProperties
  <1>6. q \in Seq(R) /\ Len(q) = n /\ \A i \in 1 .. n : q[i] = g[i]
    <2> HIDE DEF R
    <2>1. QED  BY <1>3, <1>4, SubSeqProperties
  <1> HIDE DEF p, q
  <1>7. p \in [1 .. n -> S] /\ q \in [1 .. n -> R]
    BY <1>5, <1>6, LenProperties, ElementOfSeq
  <1>8. o = [i \in 1 .. n |-> IF is THEN Emptied ELSE p[i]]
    BY <1>7 DEF Copied, is
  <1>9. o \in [1 .. n -> R] /\ \A i \in 1 .. n : q[i] = o[i]
    BY <1>2, <1>3, <1>5, <1>6, <1>7, <1>8
  <1> HIDE DEF o
  <1>10. q = o
    BY <1>7, <1>9, SameItems
  <1>11. QED  BY <1>10 DEF q, g, o, p

\* copy stores what the source held.
LEMMA CopyTakesSourceIs == Good(mem) => CopyTakesSource
  <1>1. SUFFICES ASSUME Good(mem), NEW x \in Vars, NEW y \in Vars
                 PROVE  LET n == Min({H(x).len, H(y).len})
                            m == Copy(mem, H(x), H(y))
                        IN  n > 0 =>
                               \/ /\ SubSeq(Items(m, H(x)), 1, n)
                                       = Copied(SubSeq(Items(mem, H(y)), 1, n), H(y), H(x), H(x).start)
                                  /\ SubSeq(Items(m, H(x)), n + 1, H(x).len)
                                       = SubSeq(Items(mem, H(x)), n + 1, H(x).len)
                               \/ mem.kind # "trivial" /\ Overlap(H(x), H(x).start, H(y), n)
    BY DEF CopyTakesSource
  <1> DEFINE s == mem.h[x]
             w == mem.h[y]
             n == Min({s.len, w.len})
             m == Copy(mem, s, w)
             f == Items(m, s)
             g == Items(mem, s)
             o == Items(mem, w)
             q == Copied(o, w, s, s.start)
  <1>2. x \in Slices /\ y \in Slices
    BY DEF Slices
  <1>3. /\ mem \in Memory /\ s \in Window /\ w \in Window /\ Fits(mem, s) /\ Fits(mem, w)
        /\ s.len \in Nat /\ w.len \in Nat /\ s.start \in Nat
    BY <1>1, <1>2, SlicesFit, WindowIs
  <1>4. n \in Nat
    BY <1>3, MinIs
  <1>5. ASSUME n > 0, ~Tangled(mem, w, n, s, s.start)
        PROVE  /\ SubSeq(f, 1, n) = Copied(SubSeq(o, 1, n), w, s, s.start)
               /\ SameCut(f, g, n + 1, s.len)
    <2>1. CopiedTo(mem, m, w, n, s, s.start) /\ s.buf \in Buffers /\ n <= s.len /\ n <= w.len
      BY <1>1, <1>2, <1>4, <1>5, CopyIs
    <2>11. CopiedRight(q, w, s, s.start)
      BY <1>1, <1>2, CopiedAre
    <2> HIDE DEF m, n, s, w
    <2>2. m \in Memory /\ Fits(m, s)
      BY <1>3, <2>1 DEF CopiedTo, Filled, Good
    <2>3. /\ f \in [1 .. s.len -> AnyItem \ {Junk}] /\ g \in [1 .. s.len -> AnyItem \ {Junk}]
          /\ o \in [1 .. w.len -> AnyItem \ {Junk}] /\ q \in [1 .. w.len -> AnyItem \ {Junk}]
          /\ \A i \in 1 .. s.len : /\ f[i] = m.buf[s.buf][s.start + i]
                                    /\ g[i] = mem.buf[s.buf][s.start + i]
      <3> HIDE DEF q
      <3>1. QED  BY <1>3, <2>2, <2>11, ItemsAre DEF CopiedRight
    <2>4. \A i \in 1 .. n : f[i] = q[i]
      <3>1. \A i \in 1 .. n : i \in 1 .. s.len
        BY <1>3, <1>4, <2>1
      <3>4. \A i \in 1 .. n : i \in 1 .. w.len
        BY <1>3, <1>4, <2>1
      <3> HIDE DEF q
      <3>2. \A i \in 1 .. n : m.buf[s.buf][s.start + i] = q[i]
        BY <1>5, <2>1, <2>11, <3>4 DEF CopiedTo, CopiedRight
      <3> HIDE DEF f
      <3>3. QED  BY <2>3, <3>1, <3>2
    <2>5. \A i \in n + 1 .. s.len : f[i] = g[i]
      <3>1. TAKE i \in n + 1 .. s.len
      <3>2. i \in 1 .. s.len /\ s.start + i > s.start + n
        BY <1>3, <1>4
      <3>3. s.start + i \in 1 .. Len(mem.buf[s.buf])
        BY <1>3, <3>2, Places
      <3>4. m.buf[s.buf][s.start + i] = mem.buf[s.buf][s.start + i]
        BY <2>1, <3>2, <3>3 DEF CopiedTo, Filled
      <3> HIDE DEF f, g
      <3>5. QED  BY <2>3, <3>2, <3>4
    <2>12. SubSeq(q, 1, n) = Copied(SubSeq(o, 1, n), w, s, s.start)
      <3>1. n \in Nat /\ w.len \in Nat /\ n <= w.len /\ o \in [1 .. w.len -> AnyItem \ {Junk}]
        BY <1>3, <1>4, <2>1, <2>3
      <3> HIDE DEF o
      <3>2. QED  BY <3>1, CopiedCut DEF q
    <2> DEFINE S == AnyItem \ {Junk}
               len == s.len
               wlen == w.len
    <2>6. /\ len \in Nat /\ wlen \in Nat /\ n <= len /\ n <= wlen
          /\ f \in [1 .. len -> S] /\ g \in [1 .. len -> S] /\ q \in [1 .. wlen -> S]
          /\ \A i \in n + 1 .. len : f[i] = g[i]
      BY <1>3, <2>1, <2>3, <2>5
    <2>7. len = s.len  OBVIOUS
    <2> HIDE DEF f, g, q, S, len, wlen
    <2>8. SameCut(f, q, 1, n)
      <3>1. 1 \in Nat \ {0}
        OBVIOUS
      <3>2. QED  BY <1>4, <2>4, <2>6, <3>1, CutsAgree
    <2>9. SameCut(f, g, n + 1, len)
      <3>1. n + 1 \in Nat \ {0} /\ len <= len
        BY <1>4, <2>6
      <3>2. QED  BY <2>6, <3>1, CutsAgree
    <2>10. QED  BY <2>7, <2>8, <2>9, <2>12 DEF SameCut
  <1>6. QED  BY <1>5 DEF Tangled, SameCut, H

\* A clone has the items of its source, and no buffer that a slice has.
LEMMA CloneIs ==
  ASSUME NEW m, Good(m), NEW x \in Slices
  PROVE  Allocated(m, Clone(m, m.h[x]), Items(m, m.h[x]), m.h[x].len, m.h[x].len)
  <1> DEFINE s == m.h[x]
  <1>1. m \in Memory /\ s \in Window /\ Fits(m, s) /\ s.len \in Nat /\ s.len <= s.len
    BY SlicesFit, WindowIs
  <1>2. Items(m, s) \in [1 .. s.len -> AnyItem \ {Junk}]
        /\ (~MayEmpty(m.kind) => \A i \in 1 .. s.len : Items(m, s)[i] # Emptied)
    BY <1>1, ItemsAre, ItemsClean
  <1> HIDE DEF s
  <1>3. Allocated(m, Clone(m, s), Items(m, s), s.len, s.len)
    BY <1>1, <1>2, AllocIs DEF Clone
  <1>4. QED  BY <1>3 DEF s

LEMMA AllocSpares ==
  ASSUME NEW m, Good(m), NEW r, NEW items, NEW len, NEW cap, Allocated(m, r, items, len, cap),
         NEW w \in Slices
  PROVE  Items(r.m, m.h[w]) = Items(m, m.h[w])
  <1> DEFINE s == m.h[w]
  <1>1. m \in Memory /\ r.m \in Memory /\ s \in Window /\ Fits(m, s) /\ s.buf # r.s.buf
    BY SlicesFit DEF Allocated, Good
  <1>2. ~IsNil(s) => r.m.buf[s.buf] = m.buf[s.buf]
    BY <1>1, WindowIs DEF Allocated
  <1> HIDE DEF s
  <1>3. Items(r.m, s) = Items(m, s)
    BY <1>1, <1>2, Unmoved
  <1>4. QED  BY <1>3 DEF s

LEMMA CloneApartIs == Good(mem) => CloneApart
  <1>1. SUFFICES ASSUME Good(mem), NEW x \in Vars, NEW w \in Vars
                 PROVE  LET r == Clone(mem, H(x))
                        IN  /\ Items(r.m, r.s) = Items(mem, H(x)) /\ r.s.buf # H(w).buf
                            /\ Items(r.m, H(w)) = Items(mem, H(w))
    BY DEF CloneApart
  <1> DEFINE r == Clone(mem, mem.h[x])
  <1>2. x \in Slices /\ w \in Slices
    BY DEF Slices
  <1>3. Allocated(mem, r, Items(mem, mem.h[x]), mem.h[x].len, mem.h[x].len)
    BY <1>1, <1>2, CloneIs
  <1> HIDE DEF r
  <1>4. Items(r.m, mem.h[w]) = Items(mem, mem.h[w])
    BY <1>1, <1>2, <1>3, AllocSpares
  <1>5. Items(r.m, r.s) = Items(mem, mem.h[x]) /\ r.s.buf # mem.h[w].buf
    BY <1>2, <1>3 DEF Allocated
  <1>6. QED  BY <1>4, <1>5 DEF r, H

-----------------------------------------------------------------------------
(* Storing a result.                                                       *)

\* What no slice reaches goes; the items of the slices stay.
Swept(m, q) ==
    /\ Good(q) /\ Frame(m, q)
    /\ \A x \in Slices : Items(q, m.h[x]) = Items(m, m.h[x])

LEMMA SweptIs ==
  ASSUME NEW m, Good(m)
  PROVE  Swept(m, Sweep(m))
  <1> DEFINE Used(b) == \E x \in Slices : m.h[x].buf = b
             Seen(b, i) == \E x \in Slices :
                m.h[x].buf = b /\ m.h[x].start < i /\ i <= m.h[x].start + m.h[x].len
             Kept(b) == [i \in DOMAIN m.buf[b] |-> IF Seen(b, i) THEN m.buf[b][i] ELSE Junk]
             f == [b \in Buffers |-> IF Used(b) THEN Kept(b) ELSE <<>>]
             q == [m EXCEPT !.buf = f]
  <1>1. Sweep(m) = q
    BY DEF Sweep
  <1>2. /\ m \in Memory
        /\ \A b \in Buffers : /\ Len(m.buf[b]) \in Nat /\ DOMAIN m.buf[b] = 1 .. Len(m.buf[b])
                              /\ \A i \in 1 .. Len(m.buf[b]) : m.buf[b][i] \in AnyItem
    BY MemoryIs, ItemOf DEF Good
  <1>3. ASSUME NEW b \in Buffers
        PROVE  /\ Kept(b) \in Seq(AnyItem) /\ Len(Kept(b)) = Len(m.buf[b])
               /\ \A i \in 1 .. Len(m.buf[b]) :
                     Kept(b)[i] = IF Seen(b, i) THEN m.buf[b][i] ELSE Junk
    <2> DEFINE k == Kept(b)
               n == Len(m.buf[b])
    <2> HIDE DEF Seen
    <2>1. k \in [1 .. n -> AnyItem]
      BY <1>2 DEF AnyItem
    <2>2. n \in Nat
      BY <1>2
    <2>3. \A i \in 1 .. n : k[i] = IF Seen(b, i) THEN m.buf[b][i] ELSE Junk
      BY <1>2
    <2> HIDE DEF k, n
    <2>4. k \in Seq(AnyItem) /\ Len(k) = n
      BY <2>1, <2>2, Sequence
    <2>5. QED  BY <2>3, <2>4 DEF k, n
  <1> HIDE DEF Kept
  <1>4. <<>> \in Seq(AnyItem) /\ Len(<<>>) = 0
    BY EmptySeq
  <1>5. f \in [Buffers -> Seq(AnyItem)]
    <2> HIDE DEF Used
    <2>1. QED  BY <1>3, <1>4
  <1>6. \A b \in Buffers : f[b] = IF Used(b) THEN Kept(b) ELSE <<>>
    <2> HIDE DEF Used
    <2>1. QED  OBVIOUS
  <1>7. Rebuffed(m, q, f)
    <2> HIDE DEF f
    <2>1. QED  BY <1>2, <1>5, BufIs
  <1> HIDE DEF q, f
  <1>8. q \in Memory /\ Frame(m, q) /\ q.buf = f
    BY <1>7 DEF Rebuffed, Frame
  <1>9. Clean(q)
    <2>1. SUFFICES ASSUME ~MayEmpty(q.kind), NEW b \in Buffers, NEW i \in 1 .. Len(q.buf[b])
                   PROVE  q.buf[b][i] # Emptied
      BY DEF Clean
    <2>2. \A d \in Buffers : \A j \in 1 .. Len(m.buf[d]) : m.buf[d][j] # Emptied
      BY <1>8, <2>1 DEF Good, Clean, Frame
    <2> HIDE DEF Used, Seen
    <2>3. Used(b) /\ i \in 1 .. Len(m.buf[b])
      BY <1>3, <1>4, <1>6, <1>8, <2>1
    <2>4. q.buf[b][i] \in {Junk, m.buf[b][i]}
      BY <1>3, <1>6, <1>8, <2>3
    <2>5. QED  BY <2>2, <2>3, <2>4, ConstantAssumption
  <1>10. ASSUME NEW x \in Slices
         PROVE  Fits(q, m.h[x]) /\ Items(q, m.h[x]) = Items(m, m.h[x])
    <2> DEFINE s == m.h[x]
    <2>1. s \in Window /\ Fits(m, s)
      BY SlicesFit
    <2>2. ASSUME ~IsNil(s)
          PROVE  /\ Len(q.buf[s.buf]) = Len(m.buf[s.buf])
                 /\ \A i \in 1 .. s.len :
                       q.buf[s.buf][s.start + i] = m.buf[s.buf][s.start + i]
      <3>1. s.buf \in Buffers /\ Used(s.buf)
        BY <2>1, <2>2, WindowIs
      <3>2. q.buf[s.buf] = Kept(s.buf)
        <4> HIDE DEF Used
        <4>1. QED  BY <1>6, <1>8, <3>1
      <3>3. ASSUME NEW i \in 1 .. s.len
            PROVE  q.buf[s.buf][s.start + i] = m.buf[s.buf][s.start + i]
        <4>1. s.start + i \in 1 .. Len(m.buf[s.buf])
          <5> HIDE DEF s
          <5>1. QED  BY <1>2, <2>1, Places
        <4>2. Seen(s.buf, s.start + i)
          <5>1. s.start < s.start + i /\ s.start + i <= s.start + s.len
            BY <2>1, WindowIs
          <5>2. QED  BY <5>1
        <4> HIDE DEF Seen, s
        <4>3. QED  BY <1>3, <3>1, <3>2, <4>1, <4>2
      <3>4. QED  BY <1>3, <3>1, <3>2, <3>3
    <2> HIDE DEF s
    <2>3. Fits(q, s) /\ Items(q, s) = Items(m, s)
      BY <1>2, <1>8, <2>1, <2>2, Unmoved
    <2>4. QED  BY <2>3 DEF s
  <1>11. Good(q)
    BY <1>8, <1>9, <1>10 DEF Good, Frame
  <1>12. Swept(m, q)
    BY <1>8, <1>10, <1>11 DEF Swept
  <1>13. QED  BY <1>1, <1>12

\* A slice that fits can be assigned.
LEMMA HeldGood ==
  ASSUME NEW m, Good(m), NEW x \in Slices, NEW s \in Window, Fits(m, s),
         NEW n, n = Hold(m, x, s)
  PROVE  /\ Good(n) /\ n.kind = m.kind /\ n.arr = m.arr /\ n.buf = m.buf /\ n.h[x] = s
         /\ \A y \in Slices \ {x} : n.h[y] = m.h[y]
         /\ \A w : Items(n, w) = Items(m, w)
  <1>1. m \in Memory
    BY DEF Good
  <1>2. Assigned(m, n, x, s)
    BY <1>1, HoldIs
  <1>3. n \in Memory /\ n.kind = m.kind /\ n.arr = m.arr /\ n.buf = m.buf /\ n.h[x] = s
        /\ \A y \in Slices \ {x} : n.h[y] = m.h[y]
    BY <1>2 DEF Assigned
  <1>4. \A y \in Slices : Fits(n, n.h[y])
    <2>1. \A w : Fits(m, w) => Fits(n, w)
      BY <1>3 DEF Fits
    <2>2. QED  BY <1>3, <2>1, SlicesFit
  <1>5. Clean(n)
    BY <1>3 DEF Good, Clean
  <1>6. \A w : Items(n, w) = Items(m, w)
    BY <1>3 DEF Items
  <1>7. QED  BY <1>3, <1>4, <1>5, <1>6 DEF Good

\* x = r.
Landed(m, q, x, s) ==
    /\ Sane(q) /\ q.kind = m.kind /\ q.arr = m.arr
    /\ q.h[x] = s /\ \A w \in Vars \ {x} : q.h[w] = m.h[w]
    /\ Items(q, s) = Items(m, s) /\ \A w \in Vars \ {x} : Items(q, m.h[w]) = Items(m, m.h[w])

LEMMA LandedIs ==
  ASSUME NEW r, Good(r.m), NEW x \in Vars, r.s \in Window, Fits(r.m, r.s)
  PROVE  Landed(r.m, Store(x, r), x, r.s)
  <1> DEFINE a == Hold(r.m, x, r.s)
             b == Hold(a, Tmp, NilSlice)
             q == Sweep(b)
  <1>1. x \in Slices /\ Tmp \in Slices /\ x # Tmp /\ Vars \subseteq Slices \ {Tmp}
    BY ConstantAssumption DEF Slices
  <1>2. Store(x, r) = q
    BY DEF Store
  <1>3. /\ Good(a) /\ a.kind = r.m.kind /\ a.arr = r.m.arr /\ a.h[x] = r.s
        /\ \A y \in Slices \ {x} : a.h[y] = r.m.h[y]
        /\ \A w : Items(a, w) = Items(r.m, w)
    <2>1. a = Hold(r.m, x, r.s)  OBVIOUS
    <2> HIDE DEF a
    <2>2. QED  BY <1>1, <2>1, HeldGood
  <1> HIDE DEF a
  <1>4. /\ Good(b) /\ b.kind = a.kind /\ b.arr = a.arr /\ b.h[Tmp] = NilSlice
        /\ \A y \in Slices \ {Tmp} : b.h[y] = a.h[y]
        /\ \A w : Items(b, w) = Items(a, w)
    <2>1. b = Hold(a, Tmp, NilSlice) /\ Fits(a, NilSlice)
      BY NilIs DEF Fits
    <2> HIDE DEF b
    <2>2. QED  BY <1>1, <1>3, <2>1, HeldGood, NilIs
  <1> HIDE DEF b
  <1>5. Swept(b, q)
    BY <1>4, SweptIs
  <1> HIDE DEF q
  <1>6. Good(q) /\ q.kind = b.kind /\ q.h = b.h /\ q.arr = b.arr
        /\ \A y \in Slices : Items(q, b.h[y]) = Items(b, b.h[y])
    BY <1>5 DEF Swept, Frame
  <1>7. Sane(q)
    BY <1>4, <1>6 DEF Sane
  <1>8. q.h[x] = r.s /\ Items(q, r.s) = Items(r.m, r.s)
    BY <1>1, <1>3, <1>4, <1>6
  <1>9. \A w \in Vars \ {x} : q.h[w] = r.m.h[w] /\ Items(q, r.m.h[w]) = Items(r.m, r.m.h[w])
    BY <1>1, <1>3, <1>4, <1>6
  <1>10. Landed(r.m, q, x, r.s)
    BY <1>3, <1>4, <1>6, <1>7, <1>8, <1>9 DEF Landed
  <1>11. QED  BY <1>2, <1>10

-----------------------------------------------------------------------------
(* The push that stands for an append.                                     *)

\* What can be an item of a slice.
Storable(m, v) == v \in AnyItem \ {Junk} /\ (~MayEmpty(m.kind) => v # Emptied)

LEMMA ValueIsStorable ==
  ASSUME NEW m, NEW v \in Values
  PROVE  Storable(m, v)
  BY ConstantAssumption DEF Storable, AnyItem

\* In the memory c, t is the slice of y with k of the items vs behind its own
\* and room for n of them; and the slices of the other variables show what they
\* showed, but for what has moved, or was written behind the end.
Pushed(m, c, t, y, n, vs, k) ==
    /\ Good(c) /\ c.kind = m.kind /\ c.arr = m.arr
    /\ \A w \in Vars : Fits(c, m.h[w])
    /\ t \in Window /\ Fits(c, t) /\ t.len = m.h[y].len + k
    /\ \A i \in 1 .. m.h[y].len : Items(c, t)[i] = Items(m, m.h[y])[i]
    /\ \A i \in 1 .. k : Items(c, t)[m.h[y].len + i] = vs[i]
    /\ m.h[y].len + n <= m.h[y].cap =>
          /\ t.buf = m.h[y].buf /\ t.start = m.h[y].start /\ t.cap = m.h[y].cap
          /\ \A w \in Vars : \A i \in 1 .. m.h[w].len :
                Items(c, m.h[w])[i] =
                    IF Behind(m.h[y], t, m.h[w], i)
                    THEN vs[m.h[w].start + i - (m.h[y].start + m.h[y].len)]
                    ELSE Items(m, m.h[w])[i]
    /\ m.h[y].len + n > m.h[y].cap =>
          /\ t.cap = 2 * (m.h[y].len + n)
          /\ \A w \in Vars : m.h[w].buf # t.buf
          /\ \A w \in Vars : \A i \in 1 .. m.h[w].len :
                Items(c, m.h[w])[i] = ShownIs(m, m.h[y], m.h[w], i)

LEMMA PushedIs ==
  ASSUME NEW m, Good(m), NEW y \in Vars, NEW n \in Nat, NEW r, Lengthened(m, r, m.h[y], n),
         NEW vs, \A i \in 1 .. n : Items(r.m, r.s)[m.h[y].len + i] = vs[i]
  PROVE  Pushed(m, r.m, r.s, y, n, vs, n) /\ r.m.h = m.h
  <1> DEFINE s == m.h[y]
  <1>1. Vars \subseteq Slices /\ s.len \in Nat /\ s.start \in Nat /\ s.cap \in Nat
    BY SlicesFit, WindowIs DEF Slices
  <1>2. /\ Good(r.m) /\ r.m.kind = m.kind /\ r.m.h = m.h /\ r.m.arr = m.arr
        /\ r.s.len = s.len + n
    BY DEF Lengthened, Frame
  <1>3. \A w \in Vars : Fits(r.m, m.h[w])
    BY <1>1, <1>2, SlicesFit
  <1>4. ASSUME s.len + n <= s.cap, NEW w \in Vars, NEW i \in 1 .. m.h[w].len
        PROVE  Items(r.m, m.h[w])[i] =
                  IF Behind(s, r.s, m.h[w], i) THEN vs[m.h[w].start + i - (s.start + s.len)]
                  ELSE Items(m, m.h[w])[i]
    <2> DEFINE k == m.h[w]
    <2>1. k.start \in Nat /\ i \in Nat
      BY <1>1, SlicesFit, WindowIs
    <2>2. Items(r.m, k)[i] = IF Behind(s, r.s, k, i) THEN Items(r.m, r.s)[k.start + i - s.start]
                             ELSE Items(m, k)[i]
      BY <1>1, <1>4 DEF Lengthened
    <2> HIDE DEF k, s
    <2>3. ASSUME Behind(s, r.s, k, i)
          PROVE  Items(r.m, r.s)[k.start + i - s.start] = vs[k.start + i - (s.start + s.len)]
      <3>1. k.start + i > s.start + s.len /\ k.start + i <= s.start + (s.len + n)
        BY <1>2, <2>3 DEF Behind
      <3>2. PICK j \in 1 .. n : j = k.start + i - (s.start + s.len)
        BY <1>1, <2>1, <3>1
      <3>3. k.start + i - s.start = s.len + j
        BY <1>1, <2>1, <3>2
      <3>4. QED  BY <3>2, <3>3 DEF s
    <2>4. Items(r.m, k)[i] = IF Behind(s, r.s, k, i) THEN vs[k.start + i - (s.start + s.len)]
                             ELSE Items(m, k)[i]
      BY <2>2, <2>3
    <2>5. QED  BY <2>4 DEF k, s
  <1>5. QED  BY <1>1, <1>2, <1>3, <1>4 DEF Pushed, Lengthened

\* __push, where there is room.
PushedInPlace(m, r, s, v) ==
    Extended(m, r.m, s, r.s, 1) /\ Items(r.m, r.s)[s.len + 1] = v

LEMMA PushUnsafeIs ==
  ASSUME NEW m, Good(m), NEW s \in Window, Fits(m, s), s.len + 1 <= s.cap, NEW v, Storable(m, v)
  PROVE  PushedInPlace(m, PushUnsafe(m, s, v), s, v)
  <1> DEFINE at == s.start + s.len
             old == m.buf[s.buf]
             new == [old EXCEPT ![s.start + s.len + 1] = v]
             c == Write(m, s.buf, new)
             t == [s EXCEPT !.len = @ + 1]
             r == [m |-> c, s |-> t]
  <1>1. PushUnsafe(m, s, v) = r
    BY DEF PushUnsafe, Result
  <1>2. m \in Memory /\ s.start \in Nat /\ s.len \in Nat /\ s.cap \in Nat
    BY WindowIs DEF Good
  <1>3. ~IsNil(s)
    BY <1>2 DEF Fits, NilSlice
  <1>4. s.buf \in Buffers /\ s.start + s.cap = Len(old) /\ Len(old) \in Nat
        /\ DOMAIN old = 1 .. Len(old) /\ old \in [1 .. Len(old) -> AnyItem]
    <2>1. s.buf \in Buffers /\ s.start + s.cap = Len(old)
      BY <1>3, WindowIs DEF Fits
    <2>2. old \in Seq(AnyItem)
      BY <1>2, <2>1, MemoryIs
    <2>3. Len(old) \in Nat /\ DOMAIN old = 1 .. Len(old) /\ old \in [1 .. Len(old) -> AnyItem]
      BY <2>2, LenProperties, ElementOfSeq
    <2>4. QED  BY <2>1, <2>3
  <1>5. at \in Nat /\ at + 1 \in 1 .. Len(old) /\ at + 1 = s.start + s.len + 1
    BY <1>2, <1>4
  <1>6. v \in AnyItem /\ v # Junk /\ (~MayEmpty(m.kind) => v # Emptied)
    BY DEF Storable
  <1>7. new \in [1 .. Len(old) -> AnyItem] /\ new[at + 1] = v
        /\ \A k \in 1 .. Len(old) : k # at + 1 => new[k] = old[k]
    <2> HIDE DEF old
    <2>1. QED  BY <1>4, <1>5, <1>6
  <1>8. Filled(m, c, s.buf, at, 1) /\ Holds(c, s.buf, new)
    <2>1. \A k \in 1 .. Len(old) : /\ k <= at \/ k > at + 1 => k # at + 1
                                   /\ k > at /\ k <= at + 1 => k = at + 1
      BY <1>4, <1>5
    <2>2. /\ \A k \in 1 .. Len(old) : k <= at \/ k > at + 1 => new[k] = old[k]
          /\ \A k \in 1 .. Len(old) : k > at /\ k <= at + 1 =>
                 new[k] # Junk /\ (~MayEmpty(m.kind) => new[k] # Emptied)
      <3> HIDE DEF new, at, old
      <3>1. QED  BY <1>6, <1>7, <2>1
    <2> HIDE DEF new, at
    <2>3. QED  BY <1>4, <1>5, <1>7, <2>2, FilledIs
  <1> HIDE DEF c
  <1>9. c.buf[s.buf][s.start + s.len + 1] = v
    BY <1>5, <1>7, <1>8 DEF Holds
  <1>10. Longer(s, t, 1)
    BY LongerIs
  <1> HIDE DEF t
  <1>11. /\ Extended(m, c, s, t, 1)
         /\ \A i \in 1 .. 1 : Items(c, t)[s.len + i] = c.buf[s.buf][s.start + s.len + i]
    <2>1. \A i \in 1 .. 1 : i = 1
      OBVIOUS
    <2>2. \A i \in 1 .. 1 : c.buf[s.buf][s.start + s.len + i] # Junk
      BY <1>6, <1>9, <2>1
    <2>3. 1 \in Nat /\ s.len + 1 <= s.cap
      OBVIOUS
    <2>4. Filled(m, c, s.buf, s.start + s.len, 1)
      BY <1>8
    <2>5. QED  BY <1>4, <1>10, <2>2, <2>3, <2>4, ExtendedIs
  <1>12. r.m = c /\ r.s = t
    OBVIOUS
  <1> HIDE DEF r
  <1>13. PushedInPlace(m, r, s, v)
    <2>1. 1 \in 1 .. 1
      OBVIOUS
    <2>2. QED  BY <1>9, <1>11, <1>12, <2>1 DEF PushedInPlace
  <1>14. QED  BY <1>1, <1>13

\* Slice::push.
LEMMA PushIs ==
  ASSUME NEW m, Good(m), NEW y \in Vars, NEW v, Storable(m, v)
  PROVE  LET r == Push(m, m.h[y], v)
         IN  Pushed(m, r.m, r.s, y, 1, <<v>>, 1) /\ r.m.h = m.h
  <1> DEFINE s == m.h[y]
             r == Push(m, s, v)
             items == Append(Items(m, s), v)
  <1>1. m \in Memory /\ s \in Window /\ Fits(m, s) /\ s.len \in Nat /\ s.cap \in Nat /\ 1 \in Nat
    BY SlicesFit, WindowIs DEF Slices
  <1>2. s.len <= s.cap
    BY <1>1 DEF Fits, NilSlice
  <1>3. Lengthened(m, r, s, 1) /\ Items(r.m, r.s)[s.len + 1] = v
    <2> HIDE DEF s
    <2>1. CASE s.len # s.cap
      <3>1. r = PushUnsafe(m, s, v) /\ s.len + 1 <= s.cap
        BY <1>1, <1>2, <2>1 DEF Push
      <3>2. PushedInPlace(m, r, s, v)
        BY <1>1, <3>1, PushUnsafeIs
      <3> HIDE DEF r
      <3>3. QED  BY <1>1, <3>1, <3>2, InPlace DEF PushedInPlace
    <2>2. CASE s.len = s.cap
      <3>1. r = AllocNew(MovedOut(m, s), items, s.len + 1, 2 * (s.len + 1))
        BY <2>2 DEF Push
      <3>2. /\ items \in [1 .. s.len + 1 -> AnyItem \ {Junk}] /\ items[s.len + 1] = v
            /\ \A i \in 1 .. s.len : items[i] = Items(m, s)[i]
        <4> DEFINE f == Items(m, s)
                   S == AnyItem \ {Junk}
        <4>1. f \in Seq(S) /\ Len(f) = s.len
          BY <1>1, ItemsAre
        <4>2. v \in S
          BY DEF Storable
        <4> HIDE DEF f, S
        <4>3. /\ items \in Seq(S) /\ Len(items) = s.len + 1 /\ items[s.len + 1] = v
              /\ \A i \in 1 .. s.len : items[i] = f[i]
          <5>1. Append(f, v) \in Seq(S) /\ Len(Append(f, v)) = Len(f) + 1
                /\ Append(f, v)[Len(f) + 1] = v /\ \A i \in 1 .. Len(f) : Append(f, v)[i] = f[i]
            BY <4>1, <4>2, AppendProperties
          <5>2. QED  BY <4>1, <5>1 DEF f
        <4> HIDE DEF items
        <4>4. items \in [1 .. s.len + 1 -> S]
          BY <4>3, LenProperties, ElementOfSeq
        <4>5. QED  BY <4>3, <4>4 DEF f, S
      <3>3. ~MayEmpty(m.kind) => \A i \in 1 .. s.len + 1 : items[i] # Emptied
        <4>1. SUFFICES ASSUME ~MayEmpty(m.kind), NEW i \in 1 .. s.len + 1
                       PROVE  items[i] # Emptied
          OBVIOUS
        <4> HIDE DEF items
        <4>2. CASE i = s.len + 1
          BY <3>2, <4>1, <4>2 DEF Storable
        <4>3. CASE i # s.len + 1
          <5>1. i \in 1 .. s.len
            BY <1>1, <4>3
          <5>2. Items(m, s)[i] # Emptied
            BY <1>1, <4>1, <5>1, ItemsClean
          <5>3. QED  BY <3>2, <5>1, <5>2
        <4>4. QED  BY <4>2, <4>3
      <3>4. s.len + 1 \in Nat /\ 2 * (s.len + 1) \in Nat /\ s.len + 1 <= 2 * (s.len + 1)
        BY <1>1
      <3> HIDE DEF items
      <3>5. Grown(m, r, s, items, s.len + 1, 2 * (s.len + 1))
        BY <1>1, <3>1, <3>2, <3>3, <3>4, GrownIs
      <3> HIDE DEF r
      <3>6. Items(r.m, r.s) = items /\ s.len + 1 > s.cap /\ ~(s.len + 1 <= s.cap)
        BY <1>1, <2>2, <3>5 DEF Grown
      <3>7. QED  BY <3>2, <3>5, <3>6 DEF Lengthened, Grown
    <2>3. QED  BY <2>1, <2>2
  <1> HIDE DEF r
  <1>4. \A i \in 1 .. 1 : Items(r.m, r.s)[s.len + i] = <<v>>[i]
    <2>1. \A i \in 1 .. 1 : i = 1 /\ <<v>>[1] = v
      OBVIOUS
    <2>2. QED  BY <1>3, <2>1
  <1>5. Pushed(m, r.m, r.s, y, 1, <<v>>, 1) /\ r.m.h = m.h
    <2> DEFINE vs == <<v>>
    <2> HIDE DEF vs
    <2>1. \A i \in 1 .. 1 : Items(r.m, r.s)[m.h[y].len + i] = vs[i]
      BY <1>4 DEF vs
    <2>2. Pushed(m, r.m, r.s, y, 1, vs, 1) /\ r.m.h = m.h
      BY <1>1, <1>3, <2>1, PushedIs
    <2>3. QED  BY <2>2 DEF vs
  <1>6. QED  BY <1>5 DEF r

\* Only what the variables see counts.
LEMMA PushedAcross ==
  ASSUME NEW m, NEW c, NEW d, NEW t, NEW y \in Vars, NEW n, NEW vs, NEW k,
         Pushed(c, d, t, y, n, vs, k), c.kind = m.kind, c.arr = m.arr,
         \A w \in Vars : c.h[w] = m.h[w],
         \A w \in Vars : Items(c, m.h[w]) = Items(m, m.h[w])
  PROVE  Pushed(m, d, t, y, n, vs, k)
  <1>1. c.h[y] = m.h[y]
    OBVIOUS
  <1>2. ASSUME NEW w \in Vars, NEW i
        PROVE  ShownIs(c, c.h[y], c.h[w], i) = ShownIs(m, m.h[y], m.h[w], i)
    <2>1. c.h[w] = m.h[w] /\ Items(c, c.h[w]) = Items(m, m.h[w])
      OBVIOUS
    <2>2. QED  BY <1>1, <2>1 DEF ShownIs, Lost
  <1>3. ASSUME m.h[y].len + n <= m.h[y].cap
        PROVE  /\ t.buf = m.h[y].buf /\ t.start = m.h[y].start /\ t.cap = m.h[y].cap
               /\ \A w \in Vars : \A i \in 1 .. m.h[w].len :
                     Items(d, m.h[w])[i] =
                         IF Behind(m.h[y], t, m.h[w], i)
                         THEN vs[m.h[w].start + i - (m.h[y].start + m.h[y].len)]
                         ELSE Items(m, m.h[w])[i]
    BY <1>1, <1>3 DEF Pushed
  <1>4. ASSUME m.h[y].len + n > m.h[y].cap
        PROVE  /\ t.cap = 2 * (m.h[y].len + n)
               /\ \A w \in Vars : m.h[w].buf # t.buf
               /\ \A w \in Vars : \A i \in 1 .. m.h[w].len :
                     Items(d, m.h[w])[i] = ShownIs(m, m.h[y], m.h[w], i)
    <2>1. /\ t.cap = 2 * (c.h[y].len + n)
          /\ \A w \in Vars : c.h[w].buf # t.buf
          /\ \A w \in Vars : \A i \in 1 .. c.h[w].len :
                Items(d, c.h[w])[i] = ShownIs(c, c.h[y], c.h[w], i)
      BY <1>1, <1>4 DEF Pushed
    <2>2. ASSUME NEW w \in Vars, NEW i \in 1 .. m.h[w].len
          PROVE  Items(d, m.h[w])[i] = ShownIs(m, m.h[y], m.h[w], i)
      <3>1. c.h[w] = m.h[w]
        OBVIOUS
      <3>2. Items(d, c.h[w])[i] = ShownIs(c, c.h[y], c.h[w], i)
        BY <2>1, <3>1
      <3>3. QED  BY <1>2, <3>1, <3>2
    <2>3. QED  BY <1>1, <2>1, <2>2
  <1>5. /\ Good(d) /\ d.kind = m.kind /\ d.arr = m.arr
        /\ \A w \in Vars : Fits(d, m.h[w])
        /\ t \in Window /\ Fits(d, t) /\ t.len = m.h[y].len + k
        /\ \A i \in 1 .. m.h[y].len : Items(d, t)[i] = Items(m, m.h[y])[i]
        /\ \A i \in 1 .. k : Items(d, t)[m.h[y].len + i] = vs[i]
    BY <1>1 DEF Pushed
  <1>6. QED  BY <1>3, <1>4, <1>5 DEF Pushed

\* append(y, items...), by way of the temporary.
AppendedTo(m, y, items) ==
    LET t == Make(m, items) IN AppendSlice(Hold(t.m, Tmp, t.s), m.h[y], t.s)

LEMMA AppendedToIs ==
  ASSUME NEW m, Good(m), NEW y \in Vars, NEW n \in Nat \ {0},
         NEW items \in [1 .. n -> AnyItem], \A i \in 1 .. n : Storable(m, items[i])
  PROVE  LET r == AppendedTo(m, y, items)
         IN  Pushed(m, r.m, r.s, y, n, items, n) /\ \A w \in Vars : r.m.h[w] = m.h[w]
  <1> DEFINE s == m.h[y]
             t == Make(m, items)
             c == Hold(t.m, Tmp, t.s)
             r == AppendSlice(c, s, t.s)
  <1>1. y \in Slices /\ Tmp \in Slices /\ Vars \subseteq Slices \ {Tmp}
    BY ConstantAssumption DEF Slices
  <1>2. m \in Memory /\ s \in Window /\ Fits(m, s) /\ s.len \in Nat /\ s.cap \in Nat
    BY <1>1, SlicesFit, WindowIs
  <1>3. AppendedTo(m, y, items) = r
    BY DEF AppendedTo
  <1>4. /\ items \in [1 .. n -> AnyItem \ {Junk}] /\ Len(items) = n /\ items # <<>>
        /\ ~MayEmpty(m.kind) => \A i \in 1 .. n : items[i] # Emptied
    <2>1. \A i \in 1 .. n : items[i] \in AnyItem \ {Junk}
      BY DEF Storable
    <2>2. items \in Seq(AnyItem) /\ Len(items) = n
      BY Sequence
    <2>3. Len(<<>>) = 0
      BY EmptySeq
    <2>4. QED  BY <2>1, <2>2, <2>3 DEF Storable
  <1>5. Allocated(m, t, items, n, n)
    <2>1. Allocated(m, AllocNew(m, items, n, n), items, n, n)
      BY <1>4, AllocIs
    <2>2. Make(m, items) = AllocNew(m, items, n, n)
      BY <1>4 DEF Make
    <2>3. QED  BY <2>1, <2>2
  <1> HIDE DEF t
  <1>6. /\ Good(t.m) /\ t.m.kind = m.kind /\ t.m.h = m.h /\ t.m.arr = m.arr
        /\ t.s \in Window /\ Fits(t.m, t.s) /\ t.s.len = n
        /\ Items(t.m, t.s) = items /\ \A x \in Slices : m.h[x].buf # t.s.buf
    BY <1>5 DEF Allocated, Frame
  <1>7. /\ Good(c) /\ c.kind = t.m.kind /\ c.arr = t.m.arr /\ c.h[Tmp] = t.s
        /\ \A x \in Slices \ {Tmp} : c.h[x] = t.m.h[x]
        /\ \A w : Items(c, w) = Items(t.m, w)
    <2>1. c = Hold(t.m, Tmp, t.s)  OBVIOUS
    <2> HIDE DEF c
    <2>2. QED  BY <1>1, <1>6, <2>1, HeldGood
  <1> HIDE DEF c
  <1>8. \A w \in Vars : c.h[w] = m.h[w] /\ Items(c, m.h[w]) = Items(m, m.h[w])
    BY <1>1, <1>5, <1>6, <1>7, AllocSpares
  <1>9. Appended(c, r, s, t.s)
    <2>1. Appended(c, AppendSlice(c, c.h[y], c.h[Tmp]), c.h[y], c.h[Tmp])
      BY <1>1, <1>7, AppendSliceIs
    <2>2. c.h[y] = s /\ c.h[Tmp] = t.s
      BY <1>7, <1>8
    <2>3. QED  BY <2>1, <2>2
  <1> HIDE DEF r, s
  <1>10. Lengthened(c, r, s, n)
    BY <1>6, <1>9 DEF Appended
  <1>11. t.s.buf # s.buf
    BY <1>1, <1>6 DEF s
  <1>12. \A i \in 1 .. n : Items(r.m, r.s)[s.len + i] = items[i]
    <2>1. TAKE i \in 1 .. n
    <2>2. i \in 1 .. t.s.len /\ Items(c, t.s)[i] = items[i]
      BY <1>6, <1>7
    <2>3. CASE s.len + n > s.cap
      <3>1. Items(r.m, r.s)[s.len + i] = ShownIs(c, s, t.s, i)
        BY <1>6, <1>9, <2>2, <2>3 DEF Appended
      <3>2. QED  BY <1>11, <2>2, <3>1 DEF ShownIs, Lost
    <2>4. CASE s.len + n <= s.cap
      <3>1. /\ ~Tangled(c, t.s, t.s.len, s, s.start + s.len)
            /\ ~EachToItself(c, t.s, s, s.start + s.len)
        BY <1>11 DEF Tangled, Overlap, EachToItself
      <3>2. Items(r.m, r.s)[s.len + i] = Arrives(c, t.s, s, s.start + s.len, i)
        BY <1>6, <1>9, <2>2, <2>4, <3>1 DEF Appended
      <3>3. QED  BY <2>2, <3>1, <3>2 DEF Arrives
    <2>5. QED  BY <1>2, <2>3, <2>4
  <1>13. Pushed(c, r.m, r.s, y, n, items, n) /\ r.m.h = c.h
    <2>1. s = c.h[y]
      BY <1>8 DEF s
    <2>2. QED  BY <1>7, <1>10, <1>12, <2>1, PushedIs
  <1>14. c.kind = m.kind /\ c.arr = m.arr
         /\ \A w \in Vars : c.h[w] = m.h[w] /\ Items(c, m.h[w]) = Items(m, m.h[w])
    BY <1>6, <1>7, <1>8
  <1>15. Pushed(m, r.m, r.s, y, n, items, n)
    BY <1>13, <1>14, PushedAcross
  <1>16. QED  BY <1>3, <1>13, <1>14, <1>15

-----------------------------------------------------------------------------
(* The statement that the optimiser puts in the place of an append.        *)

LEMMA ExprIs ==
  ASSUME NEW e \in Exprs
  PROVE  \/ e.get = "value" /\ e.value \in Values
         \/ e.get = "item" /\ e.of \in Vars /\ e.at \in Nat
         \/ e.get = "len" /\ e.of \in Vars /\ e.none \in Values /\ e.some \in Values
  <1>1. CASE e \in Literals
    BY <1>1 DEF Literals
  <1>2. CASE e \in [get : {"item"}, of : Vars, at : 0 .. MaxLen - 1]
    BY <1>2
  <1>3. CASE e \in [get : {"len"}, of : Vars, none : Values, some : Values]
    BY <1>3
  <1>4. QED  BY <1>1, <1>2, <1>3 DEF Exprs

LEMMA NamedIs ==
  ASSUME NEW es \in Named
  PROVE  /\ Len(es) \in {1, 2} /\ es[1] \in Exprs
         /\ Len(es) = 2 => es[1] \in Literals /\ es[2] \in Exprs
  <1>1. CASE es \in {<<e>> : e \in Exprs}
    <2>1. PICK e \in Exprs : es = <<e>>
      BY <1>1
    <2> HIDE DEF Exprs
    <2>2. QED  BY <2>1
  <1>2. CASE es \in Literals \X Exprs
    <2>1. PICK l \in Literals, e \in Exprs : es = <<l, e>>
      BY <1>2
    <2>2. l \in Exprs
      BY DEF Exprs
    <2>3. Len(es) = 2 /\ es[1] = l /\ es[2] = e
      BY <2>1
    <2>4. QED  BY <2>2, <2>3
  <1>3. QED  BY <1>1, <1>2 DEF Named

\* An item of a slice.
LEMMA ReachedIs ==
  ASSUME NEW m, Good(m), NEW s \in Window, Fits(m, s), NEW i \in Int, ~AtFails(s, i)
  PROVE  /\ s.buf \in Buffers /\ i \in Nat /\ i < s.len /\ Index(s, i) = s.start + i + 1
         /\ Index(s, i) \in 1 .. Len(m.buf[s.buf]) /\ Len(m.buf[s.buf]) \in Nat
         /\ m.buf[s.buf] \in [1 .. Len(m.buf[s.buf]) -> AnyItem]
         /\ m.buf[s.buf][Index(s, i)] # Junk
         /\ s.start + s.len <= Len(m.buf[s.buf])
  <1>1. /\ s.start \in Nat /\ s.len \in Nat /\ s.cap \in Nat /\ i \in Nat /\ i < s.len /\ ~IsNil(s)
        /\ m \in Memory
    BY WindowIs DEF AtFails, Good
  <1>2. i + 1 \in 1 .. s.len /\ s.start + (i + 1) = s.start + i + 1
    BY <1>1
  <1>3. s.buf \in Buffers /\ s.start + (i + 1) \in 1 .. Len(m.buf[s.buf])
        /\ m.buf[s.buf][s.start + (i + 1)] # Junk
    BY <1>1, <1>2, Places
  <1>4. Index(s, i) = s.start + i + 1
    BY DEF Index
  <1>5. m.buf[s.buf] \in Seq(AnyItem)
    BY <1>1, <1>3, MemoryIs
  <1>6. Len(m.buf[s.buf]) \in Nat /\ m.buf[s.buf] \in [1 .. Len(m.buf[s.buf]) -> AnyItem]
    BY <1>5, LenProperties, ElementOfSeq
  <1>7. s.start + s.len <= Len(m.buf[s.buf])
    BY <1>1, <1>6 DEF Fits
  <1>8. QED  BY <1>1, <1>2, <1>3, <1>4, <1>6, <1>7

\* What an expression gives can be stored.
LEMMA EvalIs ==
  ASSUME NEW m, Good(m), NEW e \in Exprs, ~ExprFails(m, e)
  PROVE  Storable(m, Eval(m, e))
  <1>1. CASE e.get = "value" /\ e.value \in Values
    BY <1>1, ValueIsStorable DEF Eval
  <1>2. CASE e.get = "item" /\ e.of \in Vars /\ e.at \in Nat
    <2> DEFINE s == m.h[e.of]
               i == Index(s, e.at)
    <2>1. s \in Window /\ Fits(m, s) /\ ~AtFails(s, e.at) /\ e.at \in Int
      BY <1>2, SlicesFit DEF ExprFails, Slices
    <2> HIDE DEF s
    <2>2. /\ s.buf \in Buffers /\ i \in 1 .. Len(m.buf[s.buf])
          /\ m.buf[s.buf] \in [1 .. Len(m.buf[s.buf]) -> AnyItem] /\ m.buf[s.buf][i] # Junk
      BY <2>1, ReachedIs
    <2> HIDE DEF i
    <2>3. Storable(m, m.buf[s.buf][i])
      BY <2>2 DEF Storable, Good, Clean
    <2>4. QED  BY <1>2, <2>3 DEF Eval, s, i
  <1>3. CASE e.get = "len" /\ e.none \in Values /\ e.some \in Values
    <2>1. Eval(m, e) \in Values
      BY <1>3 DEF Eval
    <2>2. QED  BY <2>1, ValueIsStorable
  <1>4. QED  BY <1>1, <1>2, <1>3, ExprIs

\* y has been assigned what Pushed says of t.
Pushing(m, a, y, n, vs, k) ==
    Pushed(m, a, a.h[y], y, n, vs, k) /\ \A w \in Slices \ {y} : a.h[w] = m.h[w]

LEMMA PushingIs ==
  ASSUME NEW m, NEW y \in Vars, NEW c, NEW t, NEW n, NEW vs, NEW k,
         Pushed(m, c, t, y, n, vs, k), \A w \in Slices \ {y} : c.h[w] = m.h[w]
  PROVE  Pushing(m, Hold(c, y, t), y, n, vs, k)
  <1> DEFINE a == Hold(c, y, t)
  <1>1. Good(c) /\ t \in Window /\ Fits(c, t) /\ y \in Slices /\ a = Hold(c, y, t)
    BY DEF Pushed, Slices
  <1> HIDE DEF a
  <1>2. /\ Good(a) /\ a.kind = c.kind /\ a.arr = c.arr /\ a.buf = c.buf /\ a.h[y] = t
        /\ \A w \in Slices \ {y} : a.h[w] = c.h[w]
        /\ \A w : Items(a, w) = Items(c, w)
    BY <1>1, HeldGood
  <1>3. \A w : Fits(c, w) => Fits(a, w)
    BY <1>2 DEF Fits
  <1>4. Pushed(m, a, t, y, n, vs, k)
    BY <1>2, <1>3 DEF Pushed
  <1>5. QED  BY <1>2, <1>4 DEF Pushing, a

LEMMA StartIs ==
  ASSUME NEW m, Good(m), NEW y \in Vars, NEW es, Len(es) \in Nat, NEW vs
  PROVE  Pushing(m, PushStart(m, y, es), y, Len(es), vs, 0)
  <1> DEFINE s == m.h[y]
             n == Len(es)
             r == AllocForAppend(m, s, n)
  <1>1. /\ y \in Slices /\ Vars \subseteq Slices /\ s \in Window /\ Fits(m, s) /\ n \in Nat
        /\ s.len \in Nat /\ s.cap \in Nat /\ s.start \in Nat
        /\ \A w \in Slices : Fits(m, m.h[w])
    BY SlicesFit, WindowIs DEF Slices
  <1>2. PushStart(m, y, es) = Hold(r.m, y, r.s)
    BY DEF PushStart
  <1>3. Pushed(m, r.m, r.s, y, n, vs, 0) /\ r.m.h = m.h
    <2> HIDE DEF n
    <2>1. CASE s.len + n <= s.cap
      <3>1. r = [m |-> m, s |-> s]
        BY <1>1, <2>1, ForAppendIs DEF Result
      <3>2. r.m = m /\ r.s = s
        BY <3>1
      <3> HIDE DEF r
      <3>3. \A w \in Vars : \A i \in 1 .. m.h[w].len : ~Behind(s, s, m.h[w], i)
        <4>1. TAKE w \in Vars
        <4>2. TAKE i \in 1 .. m.h[w].len
        <4>3. m.h[w].start + i \in Nat /\ s.start + s.len \in Nat
          BY <1>1, SlicesFit, WindowIs
        <4>4. QED  BY <4>3 DEF Behind
      <3>4. ~(s.len + n > s.cap)
        BY <1>1, <2>1
      <3>5. QED  BY <1>1, <2>1, <3>2, <3>3, <3>4 DEF Pushed
    <2>2. CASE s.len + n > s.cap
      <3>1. Grown(m, r, s, Items(m, s), s.len, 2 * (s.len + n))
        BY <1>1, <2>2, ForAppendIs
      <3> HIDE DEF r
      <3>2. ~(s.len + n <= s.cap) /\ s.len + 0 = s.len /\ \A i \in 1 .. 0 : FALSE
        BY <1>1, <2>2
      <3>3. \A w \in Slices : Fits(r.m, m.h[w])
        BY <3>1, SlicesFit DEF Grown, Frame
      <3>4. QED  BY <1>1, <3>1, <3>2, <3>3 DEF Pushed, Grown, Frame
    <2>3. QED  BY <1>1, <2>1, <2>2
  <1> HIDE DEF r, n
  <1>4. Pushing(m, Hold(r.m, y, r.s), y, n, vs, 0)
    BY <1>3, PushingIs
  <1>5. QED  BY <1>2, <1>4 DEF n

LEMMA PushedStep ==
  ASSUME NEW m, Good(m), NEW y \in Vars, NEW n \in Nat, NEW vs, NEW k \in Nat, k < n,
         NEW a, NEW t, Pushed(m, a, t, y, n, vs, k), Storable(m, vs[k + 1]),
         NEW r, r = PushUnsafe(a, t, vs[k + 1])
  PROVE  Pushed(m, r.m, r.s, y, n, vs, k + 1) /\ r.m.h = a.h
  <1> DEFINE s == m.h[y]
             v == vs[k + 1]
  <1>1. /\ s.len \in Nat /\ s.cap \in Nat /\ s.start \in Nat
        /\ \A w \in Vars : m.h[w] \in Window
    BY SlicesFit, WindowIs DEF Slices
  <1>2. /\ Good(a) /\ a.kind = m.kind /\ a.arr = m.arr /\ t \in Window /\ Fits(a, t)
        /\ t.len = s.len + k /\ \A w \in Vars : Fits(a, m.h[w])
    BY DEF Pushed
  <1>3. t.len + 1 <= t.cap
    <2>1. CASE s.len + n <= s.cap
      <3>1. t.cap = s.cap
        BY <2>1 DEF Pushed
      <3>2. QED  BY <1>1, <1>2, <2>1, <3>1
    <2>2. CASE s.len + n > s.cap
      <3>1. t.cap = 2 * (s.len + n)
        BY <2>2 DEF Pushed
      <3> HIDE DEF s
      <3>2. QED  BY <1>1, <1>2, <3>1
    <2>3. QED  BY <1>1, <2>1, <2>2
  <1>4. Storable(a, v)
    BY <1>2 DEF Storable
  <1>5. PushedInPlace(a, r, t, v)
    <2> HIDE DEF v
    <2>1. r = PushUnsafe(a, t, v)
      BY DEF v
    <2>2. QED  BY <1>2, <1>3, <1>4, <2>1, PushUnsafeIs
  <1> HIDE DEF s, v
  <1>6. /\ Good(r.m) /\ r.m.kind = m.kind /\ r.m.arr = m.arr /\ r.m.h = a.h
        /\ r.s \in Window /\ Fits(r.m, r.s) /\ r.s.len = s.len + (k + 1)
        /\ r.s.buf = t.buf /\ r.s.start = t.start /\ r.s.cap = t.cap
    BY <1>1, <1>2, <1>5 DEF PushedInPlace, Extended, Longer, Frame
  <1>7. \A w \in Vars : Fits(r.m, m.h[w])
    BY <1>1, <1>2, <1>5 DEF PushedInPlace, Extended
  <1>8. \A i \in 1 .. s.len : Items(r.m, r.s)[i] = Items(m, s)[i]
    <2>1. \A i \in 1 .. s.len : i \in 1 .. t.len
      BY <1>1, <1>2
    <2>2. \A i \in 1 .. s.len : Items(a, t)[i] = Items(m, s)[i]
      BY DEF Pushed, s
    <2>3. QED  BY <1>5, <2>1, <2>2 DEF PushedInPlace, Extended
  <1>9. \A i \in 1 .. k + 1 : Items(r.m, r.s)[s.len + i] = vs[i]
    <2>1. TAKE i \in 1 .. k + 1
    <2>2. CASE i = k + 1
      <3>1. s.len + i = t.len + 1
        BY <1>1, <1>2, <2>2
      <3>2. QED  BY <1>5, <2>2, <3>1 DEF PushedInPlace, v
    <2>3. CASE i # k + 1
      <3>1. i \in 1 .. k /\ s.len + i \in 1 .. t.len
        BY <1>1, <1>2, <2>3
      <3>2. Items(a, t)[s.len + i] = vs[i]
        BY <3>1 DEF Pushed, s
      <3>3. QED  BY <1>5, <3>1, <3>2 DEF PushedInPlace, Extended
    <2>4. QED  BY <2>2, <2>3
  <1>10. ASSUME NEW w \in Vars, NEW i \in 1 .. m.h[w].len
         PROVE  Items(r.m, m.h[w])[i] = IF Behind(t, r.s, m.h[w], i) THEN v ELSE Items(a, m.h[w])[i]
    <2> DEFINE o == m.h[w]
    <2>1. o.start \in Nat /\ t.start \in Nat /\ t.len \in Nat /\ i \in Nat
      BY <1>1, <1>2, WindowIs
    <2>2. Items(r.m, o)[i] = IF Behind(t, r.s, o, i) THEN Items(r.m, r.s)[o.start + i - t.start]
                             ELSE Items(a, o)[i]
      BY <1>1, <1>2, <1>5 DEF PushedInPlace, Extended
    <2> HIDE DEF o
    <2>3. Behind(t, r.s, o, i) => o.start + i - t.start = t.len + 1
      <3>1. r.s.len = t.len + 1
        BY <1>1, <1>2, <1>6
      <3>2. \A p, b, l \in Nat : p > b + l /\ p <= b + (l + 1) => p - b = l + 1
        OBVIOUS
      <3>3. o.start + i \in Nat
        BY <2>1
      <3>4. Behind(t, r.s, o, i) => o.start + i > t.start + t.len /\ o.start + i <= t.start + (t.len + 1)
        BY <3>1 DEF Behind
      <3>5. QED  BY ONLY <2>1, <3>2, <3>3, <3>4
    <2>4. Items(r.m, r.s)[t.len + 1] = v
      BY <1>5 DEF PushedInPlace
    <2>5. Items(r.m, o)[i] = IF Behind(t, r.s, o, i) THEN v ELSE Items(a, o)[i]
      BY <2>2, <2>3, <2>4
    <2>6. QED  BY <2>5 DEF o
  <1>11. ASSUME s.len + n <= s.cap, NEW w \in Vars, NEW i \in 1 .. m.h[w].len
         PROVE  Items(r.m, m.h[w])[i] =
                    IF Behind(s, r.s, m.h[w], i) THEN vs[m.h[w].start + i - (s.start + s.len)]
                    ELSE Items(m, m.h[w])[i]
    <2> DEFINE o == m.h[w]
    <2>1. o.start \in Nat /\ i \in Nat
      BY <1>1, WindowIs
    <2>2. t.buf = s.buf /\ t.start = s.start
      BY <1>11 DEF Pushed, s
    <2>3. Items(a, o)[i] = IF Behind(s, t, o, i) THEN vs[o.start + i - (s.start + s.len)]
                           ELSE Items(m, o)[i]
      BY <1>11 DEF Pushed, s
    <2>4. Items(r.m, o)[i] = IF Behind(t, r.s, o, i) THEN v ELSE Items(a, o)[i]
      BY <1>10
    <2> HIDE DEF o
    <2>5. Behind(t, r.s, o, i) => /\ o.start + i - (s.start + s.len) = k + 1
                                  /\ Behind(s, r.s, o, i)
      BY <1>1, <1>2, <1>6, <2>1, <2>2 DEF Behind
    <2>6. ~Behind(t, r.s, o, i) => (Behind(s, t, o, i) <=> Behind(s, r.s, o, i))
      BY <1>1, <1>2, <1>6, <2>1, <2>2 DEF Behind
    <2>7. Items(r.m, o)[i] = IF Behind(s, r.s, o, i) THEN vs[o.start + i - (s.start + s.len)]
                             ELSE Items(m, o)[i]
      BY <2>3, <2>4, <2>5, <2>6 DEF v
    <2>8. QED  BY <2>7 DEF o
  <1>12. ASSUME s.len + n > s.cap, NEW w \in Vars
         PROVE  /\ m.h[w].buf # r.s.buf
                /\ \A i \in 1 .. m.h[w].len : Items(r.m, m.h[w])[i] = ShownIs(m, s, m.h[w], i)
    <2>1. m.h[w].buf # t.buf
      BY <1>12 DEF Pushed, s
    <2>2. \A i \in 1 .. m.h[w].len : Items(a, m.h[w])[i] = ShownIs(m, s, m.h[w], i)
      BY <1>12 DEF Pushed, s
    <2>3. \A i : ~Behind(t, r.s, m.h[w], i)
      BY <2>1 DEF Behind
    <2>4. QED  BY <1>6, <1>10, <2>1, <2>2, <2>3
  <1>13. /\ s.len + n <= s.cap => r.s.buf = s.buf /\ r.s.start = s.start /\ r.s.cap = s.cap
         /\ s.len + n > s.cap => r.s.cap = 2 * (s.len + n)
    BY <1>6 DEF Pushed, s
  <1>14. QED  BY <1>6, <1>7, <1>8, <1>9, <1>11, <1>12, <1>13 DEF Pushed, s

LEMMA PushedOn ==
  ASSUME NEW m, Good(m), NEW y \in Vars, NEW n \in Nat, NEW vs, NEW k \in Nat, k < n,
         NEW a, Pushing(m, a, y, n, vs, k),
         NEW e \in Exprs, ~ExprFails(a, e), vs[k + 1] = Eval(a, e)
  PROVE  Pushing(m, PushExpr(a, y, e), y, n, vs, k + 1)
  <1> DEFINE r == PushUnsafe(a, a.h[y], vs[k + 1])
  <1>1. Good(a) /\ a.kind = m.kind /\ Pushed(m, a, a.h[y], y, n, vs, k)
    BY DEF Pushing, Pushed
  <1>2. Storable(m, vs[k + 1])
    <2>1. Storable(a, Eval(a, e))
      BY <1>1, EvalIs
    <2>2. QED  BY <1>1, <2>1 DEF Storable
  <1>3. PushExpr(a, y, e) = Hold(r.m, y, r.s)
    BY DEF PushExpr
  <1>4. r = PushUnsafe(a, a.h[y], vs[k + 1])
    OBVIOUS
  <1> HIDE DEF r
  <1>5. Pushed(m, r.m, r.s, y, n, vs, k + 1) /\ r.m.h = a.h
    BY <1>1, <1>2, <1>4, PushedStep
  <1>6. \A w \in Slices \ {y} : r.m.h[w] = m.h[w]
    BY <1>5 DEF Pushing
  <1>7. QED  BY <1>3, <1>5, <1>6, PushingIs

LEMMA PushedToIs ==
  ASSUME NEW m, Good(m), NEW y \in Vars, NEW es \in Named, ~PushFails(m, y, es),
         NEW vs, vs[1] = Eval(PushStart(m, y, es), es[1]),
         Len(es) = 2 => vs[2] = Eval(PushExpr(PushStart(m, y, es), y, es[1]), es[2])
  PROVE  Pushing(m, PushedTo(m, y, es), y, Len(es), vs, Len(es))
  <1> DEFINE n == Len(es)
             a == PushStart(m, y, es)
             b == PushExpr(a, y, es[1])
             c == PushExpr(b, y, es[2])
  <1>1. n \in {1, 2} /\ n \in Nat /\ es[1] \in Exprs /\ (n = 2 => es[2] \in Exprs)
    BY NamedIs
  <1>2. ~ExprFails(a, es[1]) /\ (n = 2 => ~ExprFails(b, es[2]))
    BY DEF PushFails
  <1>3. PushedTo(m, y, es) = IF n = 1 THEN b ELSE c
    BY DEF PushedTo
  <1>4. Pushing(m, a, y, n, vs, 0)
    BY <1>1, StartIs
  <1> HIDE DEF a, n
  <1>5. vs[0 + 1] = Eval(a, es[1])
    BY DEF a
  <1>6. n = 2 => vs[1 + 1] = Eval(b, es[2])
    BY DEF a, n
  <1>7. Pushing(m, b, y, n, vs, 0 + 1)
    <2>1. 0 \in Nat /\ 0 < n
      BY <1>1
    <2>2. QED  BY <1>1, <1>2, <1>4, <1>5, <2>1, PushedOn
  <1> HIDE DEF b
  <1>8. ASSUME n = 2 PROVE Pushing(m, c, y, n, vs, 1 + 1)
    <2>1. 1 \in Nat /\ 1 < n /\ 0 + 1 = 1
      BY <1>8
    <2>2. QED  BY <1>1, <1>2, <1>6, <1>7, <1>8, <2>1, PushedOn
  <1> HIDE DEF c
  <1>9. Pushing(m, PushedTo(m, y, es), y, n, vs, n)
    <2>1. CASE n = 1
      BY <1>3, <1>7, <2>1
    <2>2. CASE n = 2
      BY <1>3, <1>8, <2>2
    <2>3. QED  BY <1>1, <2>1, <2>2
  <1>10. QED  BY <1>9 DEF n

\* append(y, es...).
LEMMA AppendNamedIs ==
  ASSUME NEW m, Good(m), NEW y \in Vars, NEW es \in Named, ~AppendFails(m, es)
  PROVE  LET r == AppendNamed(m, y, es)
             vs == [k \in 1 .. Len(es) |-> Eval(m, es[k])]
         IN  Pushed(m, r.m, r.s, y, Len(es), vs, Len(es)) /\ \A w \in Vars : r.m.h[w] = m.h[w]
  <1> DEFINE n == Len(es)
             vs == [k \in 1 .. n |-> Eval(m, es[k])]
  <1>1. n \in Nat \ {0} /\ \A k \in 1 .. n : es[k] \in Exprs /\ ~ExprFails(m, es[k])
    <2>1. n \in {1, 2} /\ es[1] \in Exprs /\ (n = 2 => es[2] \in Exprs)
      BY NamedIs
    <2>2. \A k \in 1 .. n : ~ExprFails(m, es[k])
      BY DEF AppendFails
    <2> HIDE DEF n
    <2>3. \A k \in 1 .. n : k = 1 \/ (n = 2 /\ k = 2)
      BY <2>1
    <2>4. QED  BY <2>1, <2>2, <2>3
  <1>2. AppendNamed(m, y, es) = AppendedTo(m, y, vs)
    BY DEF AppendNamed, AppendedTo
  <1> HIDE DEF n
  <1>3. \A k \in 1 .. n : Storable(m, Eval(m, es[k]))
    BY <1>1, EvalIs
  <1>4. vs \in [1 .. n -> AnyItem] /\ \A k \in 1 .. n : Storable(m, vs[k])
    BY <1>3 DEF Storable
  <1> HIDE DEF vs
  <1>5. LET r == AppendedTo(m, y, vs)
        IN  Pushed(m, r.m, r.s, y, n, vs, n) /\ \A w \in Vars : r.m.h[w] = m.h[w]
    BY <1>1, <1>4, AppendedToIs
  <1>6. QED  BY <1>2, <1>5 DEF vs, n

\* In q, x has been assigned what Pushed says of t.
Placed(m, q, c, t, x) ==
    /\ q.h[x] = t /\ Items(q, t) = Items(c, t)
    /\ \A w \in Vars \ {x} : /\ q.h[w] = m.h[w] /\ c.h[w] = m.h[w]
                             /\ Items(q, m.h[w]) = Items(c, m.h[w])

LEMMA PushPlaced ==
  ASSUME NEW m, NEW y \in Vars, NEW a, NEW n, NEW vs, Pushing(m, a, y, n, vs, n),
         NEW q, q = Sweep(a)
  PROVE  Placed(m, q, a, a.h[y], y) /\ Good(q) /\ q.h[Tmp] = m.h[Tmp]
  <1>1. Swept(a, q)
    BY SweptIs DEF Pushing, Pushed
  <1>2. Vars \subseteq Slices /\ Tmp \in Slices \ {y}
    BY ConstantAssumption DEF Slices
  <1>3. q.h = a.h /\ Good(q) /\ \A w \in Slices : Items(q, a.h[w]) = Items(a, a.h[w])
    BY <1>1 DEF Swept, Frame
  <1>4. \A w \in Slices \ {y} : a.h[w] = m.h[w]
    BY DEF Pushing
  <1>5. QED  BY <1>2, <1>3, <1>4 DEF Placed

LEMMA StorePlaced ==
  ASSUME NEW m, NEW x \in Vars, NEW y \in Vars, NEW r, NEW n, NEW vs,
         Pushed(m, r.m, r.s, y, n, vs, n), \A w \in Vars : r.m.h[w] = m.h[w],
         NEW q, q = Store(x, r)
  PROVE  Placed(m, q, r.m, r.s, x)
  <1>1. Landed(r.m, q, x, r.s)
    BY LandedIs DEF Pushed
  <1>2. QED  BY <1>1 DEF Landed, Placed

\* What is pushed is seen to have been pushed, and not where.
SameLooks(p, q) == Looks(p) = Looks(q)

LEMMA LooksAgree ==
  ASSUME NEW p, NEW q,
         \A w \in Vars : /\ Items(p, p.h[w]) = Items(q, q.h[w]) /\ p.h[w].cap = q.h[w].cap
                         /\ {u \in Vars : p.h[u].buf = p.h[w].buf}
                              = {u \in Vars : q.h[u].buf = q.h[w].buf}
  PROVE  SameLooks(p, q)
  BY DEF SameLooks, Looks

LEMMA LooksDiffer ==
  ASSUME NEW p, NEW q, NEW w \in Vars, Items(p, p.h[w]) # Items(q, q.h[w])
  PROVE  ~SameLooks(p, q)
  <1> DEFINE a == Looks(p)
             b == Looks(q)
  <1>1. a[w].items = Items(p, p.h[w]) /\ b[w].items = Items(q, q.h[w])
    BY DEF Looks
  <1> HIDE DEF a, b
  <1>2. a # b
    BY <1>1
  <1>3. QED  BY <1>2 DEF SameLooks, a, b

LEMMA PushedAlike ==
  ASSUME NEW m, Good(m), NEW x \in Vars, NEW y \in Vars, NEW n \in Nat, NEW vs,
         NEW c, NEW t, Pushed(m, c, t, y, n, vs, n), NEW p, Placed(m, p, c, t, x),
         NEW d, NEW u, Pushed(m, d, u, y, n, vs, n), NEW q, Placed(m, q, d, u, x)
  PROVE  SameLooks(p, q)
  <1> DEFINE s == m.h[y]
  <1>1. /\ s.len \in Nat /\ s.cap \in Nat /\ s.start \in Nat
        /\ \A w \in Vars : m.h[w] \in Window /\ m.h[w].len \in Nat
    BY SlicesFit, WindowIs DEF Slices
  <1> HIDE DEF s
  <1>2. /\ Good(c) /\ t \in Window /\ Fits(c, t) /\ t.len = s.len + n
        /\ Good(d) /\ u \in Window /\ Fits(d, u) /\ u.len = s.len + n
    BY DEF Pushed, s
  <1>3. Items(c, t) = Items(d, u)
    <2> DEFINE f == Items(c, t)
               g == Items(d, u)
               len == s.len + n
    <2>1. f \in [1 .. len -> AnyItem \ {Junk}] /\ g \in [1 .. len -> AnyItem \ {Junk}]
      BY <1>2, ItemsAre DEF Good
    <2>2. \A i \in 1 .. len : f[i] = g[i]
      <3>1. TAKE i \in 1 .. len
      <3>2. CASE i \in 1 .. s.len
        BY <3>2 DEF Pushed, s
      <3>3. CASE ~(i \in 1 .. s.len)
        <4>1. PICK j \in 1 .. n : i = s.len + j
          <5>1. i - s.len \in 1 .. n /\ i = s.len + (i - s.len)
            BY <1>1, <3>3
          <5>2. QED  BY <5>1
        <4>2. f[i] = vs[j] /\ g[i] = vs[j]
          BY <4>1 DEF Pushed, s
        <4>3. QED  BY <4>2
      <3>4. QED  BY <3>2, <3>3
    <2>3. len \in Nat
      BY <1>1
    <2> HIDE DEF f, g, len
    <2>4. f = g
      BY <2>1, <2>2, <2>3, SameItems
    <2>5. QED  BY <2>4 DEF f, g
  <1>4. s.len + n <= s.cap \/ s.len + n > s.cap
    BY <1>1
  <1>5. /\ t.cap = u.cap
        /\ \A w \in Vars : t.buf = m.h[w].buf <=> u.buf = m.h[w].buf
    <2>1. CASE s.len + n <= s.cap
      BY <2>1 DEF Pushed, s
    <2>2. CASE s.len + n > s.cap
      BY <2>2 DEF Pushed, s
    <2>3. QED  BY <1>4, <2>1, <2>2
  <1>6. ASSUME NEW w \in Vars
        PROVE  Items(c, m.h[w]) = Items(d, m.h[w])
    <2> DEFINE o == m.h[w]
               f == Items(c, o)
               g == Items(d, o)
               len == o.len
    <2>1. o \in Window /\ len \in Nat /\ Fits(c, o) /\ Fits(d, o) /\ c \in Memory /\ d \in Memory
      BY <1>1, <1>2 DEF Pushed, Good
    <2>2. f \in [1 .. len -> AnyItem \ {Junk}] /\ g \in [1 .. len -> AnyItem \ {Junk}]
      BY <2>1, ItemsAre
    <2>3. \A i \in 1 .. len : f[i] = g[i]
      <3>1. TAKE i \in 1 .. len
      <3>2. CASE s.len + n <= s.cap
        <4>1. Behind(s, t, o, i) <=> Behind(s, u, o, i)
          BY <1>2 DEF Behind
        <4>2. /\ f[i] = IF Behind(s, t, o, i) THEN vs[o.start + i - (s.start + s.len)]
                        ELSE Items(m, o)[i]
              /\ g[i] = IF Behind(s, u, o, i) THEN vs[o.start + i - (s.start + s.len)]
                        ELSE Items(m, o)[i]
          BY <3>2 DEF Pushed, s
        <4>3. QED  BY <4>1, <4>2
      <3>3. CASE s.len + n > s.cap
        BY <3>3 DEF Pushed, s
      <3>4. QED  BY <1>4, <3>2, <3>3
    <2> HIDE DEF f, g, len, o
    <2>4. f = g
      BY <2>1, <2>2, <2>3, SameItems
    <2>5. QED  BY <2>4 DEF f, g, o
  <1>7. /\ p.h[x] = t /\ q.h[x] = u /\ Items(p, t) = Items(c, t) /\ Items(q, u) = Items(d, u)
        /\ \A w \in Vars \ {x} : /\ p.h[w] = m.h[w] /\ q.h[w] = m.h[w]
                                 /\ Items(p, m.h[w]) = Items(c, m.h[w])
                                 /\ Items(q, m.h[w]) = Items(d, m.h[w])
    BY DEF Placed
  <1>8. ASSUME NEW w \in Vars
        PROVE  Items(p, p.h[w]) = Items(q, q.h[w]) /\ p.h[w].cap = q.h[w].cap
    <2>1. CASE w = x
      BY <1>3, <1>5, <1>7, <2>1
    <2>2. CASE w # x
      BY <1>6, <1>7, <2>2
    <2>3. QED  BY <2>1, <2>2
  <1>9. ASSUME NEW w \in Vars
        PROVE  {v \in Vars : p.h[v].buf = p.h[w].buf} = {v \in Vars : q.h[v].buf = q.h[w].buf}
    <2>1. \A v \in Vars : p.h[v].buf = p.h[w].buf <=> q.h[v].buf = q.h[w].buf
      <3>1. TAKE v \in Vars
      <3>2. CASE w = x /\ v = x
        BY <3>2
      <3>3. CASE w = x /\ v # x
        BY <1>5, <1>7, <3>3
      <3>4. CASE w # x /\ v = x
        BY <1>5, <1>7, <3>4
      <3>5. CASE w # x /\ v # x
        BY <1>7, <3>5
      <3>6. QED  BY <3>2, <3>3, <3>4, <3>5
    <2>2. QED  BY <2>1
  <1>10. QED  BY <1>8, <1>9, LooksAgree

\* A push to y changes what y shows; an append stored elsewhere does not.
LEMMA PushedElsewhere ==
  ASSUME NEW m, Good(m), NEW x \in Vars, NEW y \in Vars, x # y, NEW n \in Nat \ {0},
         NEW vs, NEW c, NEW t, Pushed(m, c, t, y, n, vs, n), NEW p, Placed(m, p, c, t, y),
         NEW ws, NEW d, NEW u, Pushed(m, d, u, y, n, ws, n), NEW q, Placed(m, q, d, u, x)
  PROVE  ~SameLooks(p, q)
  <1> DEFINE s == m.h[y]
  <1>1. s \in Window /\ s.len \in Nat
    BY SlicesFit, WindowIs DEF Slices
  <1>2. /\ c \in Memory /\ t \in Window /\ Fits(c, t) /\ t.len = s.len + n
        /\ d \in Memory /\ Fits(d, s)
    BY DEF Pushed, Good
  <1>3. p.h[y] = t /\ Items(p, t) = Items(c, t) /\ q.h[y] = s /\ Items(q, s) = Items(d, s)
    BY DEF Placed
  <1> HIDE DEF s
  <1>4. Len(Items(c, t)) = s.len + n /\ Len(Items(d, s)) = s.len
    BY <1>1, <1>2, ItemsAre
  <1>5. s.len + n # s.len
    BY <1>1
  <1>6. Items(p, p.h[y]) # Items(q, q.h[y])
    BY <1>3, <1>4, <1>5
  <1>7. QED  BY <1>6, LooksDiffer

\* An expression that does not come late reads, when all before it are pushed,
\* what it read before.
SameRead(m, a, e) ==
    /\ ExprFails(a, e) <=> ExprFails(m, e)
    /\ ~ExprFails(m, e) => Eval(a, e) = Eval(m, e)

LEMMA SameReadIs ==
  ASSUME Good(mem), NEW y \in Vars, NEW es \in Named, NEW k \in {0, 1}, k < Len(es),
         NEW a, NEW vs, Pushing(mem, a, y, Len(es), vs, k),
         NEW e \in Exprs, e = es[k + 1], ~Late(y, es, k + 1)
  PROVE  SameRead(mem, a, e)
  <1> DEFINE s == mem.h[y]
             t == a.h[y]
             n == Len(es)
             i == e.at + 1
  <1>1. /\ s \in Window /\ Fits(mem, s) /\ s.len \in Nat /\ s.start \in Nat /\ s.cap \in Nat
        /\ n \in {1, 2} /\ mem \in Memory
        /\ \A w \in Vars : mem.h[w] \in Window /\ Fits(mem, mem.h[w])
    BY SlicesFit, WindowIs, NamedIs DEF Slices
  <1>2. /\ Good(a) /\ a \in Memory /\ t \in Window /\ Fits(a, t) /\ t.len = s.len + k
        /\ Pushed(mem, a, t, y, n, vs, k)
        /\ \A w \in Vars : Fits(a, mem.h[w])
        /\ \A w \in Vars \ {y} : a.h[w] = mem.h[w]
    BY DEF Pushing, Pushed, Good, Slices
  <1>3. CASE e.get = "value"
    BY <1>3 DEF SameRead, ExprFails, Eval
  <1>4. CASE e.get = "len" /\ e.of \in Vars
    <2>1. CASE e.of # y
      BY <1>2, <1>4, <2>1 DEF SameRead, ExprFails, Eval
    <2>2. CASE e.of = y
      <3>1. k = 0
        BY <1>4, <2>2 DEF Late
      <3>2. t.len = s.len
        BY <1>1, <1>2, <3>1
      <3>3. QED  BY <1>4, <2>2, <3>2 DEF SameRead, ExprFails, Eval
    <2>3. QED  BY <2>1, <2>2
  <1>5. CASE e.get = "item" /\ e.of \in Vars /\ e.at \in Nat /\ e.of # y
    <2> DEFINE w == mem.h[e.of]
    <2>1. a.h[e.of] = w /\ w \in Window /\ Fits(mem, w) /\ Fits(a, w)
      BY <1>1, <1>2, <1>5
    <2>2. ExprFails(a, e) <=> ExprFails(mem, e)
      BY <2>1 DEF ExprFails
    <2>3. ASSUME ~ExprFails(mem, e) PROVE Eval(a, e) = Eval(mem, e)
      <3>1. ~AtFails(w, e.at)
        BY <1>5, <2>3 DEF ExprFails
      <3>2. w.len \in Nat /\ w.start \in Nat /\ i \in 1 .. w.len /\ Index(w, e.at) = w.start + i
        BY <1>5, <2>1, <3>1, WindowIs DEF AtFails, Index
      <3>3. /\ Eval(mem, e) = mem.buf[w.buf][w.start + i]
            /\ Eval(a, e) = a.buf[w.buf][w.start + i]
        BY <1>5, <2>1, <3>2 DEF Eval
      <3>4. /\ Items(mem, w)[i] = mem.buf[w.buf][w.start + i]
            /\ Items(a, w)[i] = a.buf[w.buf][w.start + i]
        BY <1>1, <1>2, <2>1, <3>2, ItemsAre
      <3>5. w.buf = s.buf => /\ ~(k = 1 /\ w.start + i = s.start + s.len + 1 /\ s.len + n <= s.cap)
                             /\ ~(mem.kind = "map" /\ s.len + n > s.cap
                                  /\ w.start + i \in s.start + 1 .. s.start + s.len)
        <4>1. ~(s.len + n <= s.cap /\ s.len + n > s.cap)
          BY <1>1
        <4>2. Index(w, e.at) = w.start + i
          BY <3>2
        <4> HIDE DEF i, n
        <4>3. QED  BY <1>1, <1>5, <4>1, <4>2 DEF Late, H, n
      <3>6. Items(a, w)[i] = Items(mem, w)[i]
        <4>1. CASE s.len + n <= s.cap
          <5>1. ~Behind(s, t, w, i)
            <6>1. Behind(s, t, w, i) => w.start + i = s.start + s.len + 1 /\ k = 1
              <7>1. \A p, b, l \in Nat : \A d \in {0, 1} :
                       p > b + l /\ p <= b + (l + d) => p = b + l + 1 /\ d = 1
                OBVIOUS
              <7>2. w.start + i \in Nat /\ s.start \in Nat /\ s.len \in Nat /\ k \in {0, 1}
                BY <1>1, <3>2
              <7>3. Behind(s, t, w, i) =>
                       w.start + i > s.start + s.len /\ w.start + i <= s.start + (s.len + k)
                BY <1>2 DEF Behind
              <7>4. QED  BY ONLY <7>1, <7>2, <7>3
            <6>2. QED  BY <3>5, <4>1, <6>1 DEF Behind
          <5>2. QED  BY <1>2, <1>5, <3>2, <4>1, <5>1 DEF Pushed
        <4>2. CASE s.len + n > s.cap
          <5>1. ~Lost(mem, s, w.buf, w.start + i)
            <6>1. s.start < w.start + i /\ w.start + i <= s.start + s.len
                    => w.start + i \in s.start + 1 .. s.start + s.len
              BY <1>1, <3>2
            <6>2. QED  BY <3>5, <4>2, <6>1 DEF Lost
          <5>2. Items(a, w)[i] = ShownIs(mem, s, w, i)
            BY <1>2, <1>5, <3>2, <4>2 DEF Pushed
          <5>3. QED  BY <5>1, <5>2 DEF ShownIs
        <4>3. QED  BY <1>1, <4>1, <4>2
      <3>7. QED  BY <3>3, <3>4, <3>6
    <2>4. QED  BY <2>2, <2>3 DEF SameRead
  <1>6. CASE e.get = "item" /\ e.at \in Nat /\ e.of = y
    <2>1. ASSUME e.at = s.len, k = 1 PROVE FALSE
      <3>1. Index(s, e.at) = s.start + s.len + 1
        BY <2>1 DEF Index
      <3>2. QED  BY <1>6, <2>1, <3>1 DEF Late, H
    <2>2. IsNil(t) => t.len = 0
      BY <1>2, NilIs DEF Fits
    <2>3. IsNil(s) => s.len = 0
      BY <1>1, NilIs DEF Fits
    <2>4. AtFails(t, e.at) <=> ~(e.at < t.len)
      BY <1>1, <1>2, <1>6, <2>2 DEF AtFails
    <2>5. AtFails(s, e.at) <=> ~(e.at < s.len)
      BY <1>1, <1>6, <2>3 DEF AtFails
    <2>6. e.at < t.len <=> e.at < s.len
      BY <1>1, <1>2, <1>6, <2>1
    <2>7. ExprFails(a, e) <=> ExprFails(mem, e)
      BY <1>6, <2>4, <2>5, <2>6 DEF ExprFails
    <2>8. ASSUME ~ExprFails(mem, e) PROVE Eval(a, e) = Eval(mem, e)
      <3>1. i \in 1 .. s.len /\ i \in 1 .. t.len
        BY <1>1, <1>2, <1>6, <2>5, <2>6, <2>8 DEF ExprFails
      <3>2. Index(s, e.at) = s.start + i /\ Index(t, e.at) = t.start + i
        <4>1. \A b, j \in Nat : b + j + 1 = b + (j + 1)
          OBVIOUS
        <4>2. s.start \in Nat /\ t.start \in Nat /\ e.at \in Nat
          BY <1>1, <1>2, <1>6, WindowIs
        <4>3. QED  BY ONLY <4>1, <4>2 DEF Index, i
      <3>3. Eval(mem, e) = mem.buf[s.buf][s.start + i] /\ Eval(a, e) = a.buf[t.buf][t.start + i]
        BY <1>6, <3>2 DEF Eval
      <3>4. /\ Items(mem, s)[i] = mem.buf[s.buf][s.start + i]
            /\ Items(a, t)[i] = a.buf[t.buf][t.start + i]
        BY <1>1, <1>2, <3>1, ItemsAre
      <3>5. Items(a, t)[i] = Items(mem, s)[i]
        BY <1>2, <3>1 DEF Pushed
      <3>6. QED  BY <3>3, <3>4, <3>5
    <2>9. QED  BY <2>7, <2>8 DEF SameRead
  <1>7. QED  BY <1>3, <1>4, <1>5, <1>6, ExprIs

\* The optimiser's push is the append if no expression comes late, and never if
\* the target is another; Slice::push is the append of a value.
LEMMA PushAgrees ==
  ASSUME Good(mem), NEW y \in Vars, NEW es \in Named,
         \A k \in 1 .. Len(es) : ~Late(y, es, k)
  PROVE  /\ PushFails(mem, y, es) <=> AppendFails(mem, es)
         /\ ~AppendFails(mem, es) =>
               SameLooks(Sweep(PushedTo(mem, y, es)), Store(y, AppendNamed(mem, y, es)))
  <1> DEFINE n == Len(es)
             a == PushStart(mem, y, es)
             b == PushExpr(a, y, es[1])
             vs == [k \in 1 .. n |-> Eval(mem, es[k])]
  <1>1. /\ n \in {1, 2} /\ n \in Nat /\ es[1] \in Exprs
        /\ n = 2 => es[1] \in Literals /\ es[2] \in Exprs
        /\ 1 \in 1 .. n /\ (n = 2 => 2 \in 1 .. n)
        /\ \A k \in 1 .. n : k = 1 \/ (n = 2 /\ k = 2)
    <2>1. n \in {1, 2} /\ es[1] \in Exprs /\ (n = 2 => es[1] \in Literals /\ es[2] \in Exprs)
      BY NamedIs
    <2> HIDE DEF n
    <2>2. QED  BY <2>1
  <1>2. vs[1] = Eval(mem, es[1]) /\ (n = 2 => vs[2] = Eval(mem, es[2]))
    <2> HIDE DEF n
    <2>1. QED  BY <1>1
  <1> HIDE DEF vs
  <1>3. Pushing(mem, a, y, n, vs, 0)
    BY <1>1, StartIs
  <1> HIDE DEF a
  <1>4. SameRead(mem, a, es[1])
    <2> DEFINE e == es[0 + 1]
    <2>1. e = es[1] /\ e \in Exprs /\ 0 \in {0, 1} /\ 0 < Len(es) /\ ~Late(y, es, 0 + 1)
      BY <1>1
    <2>2. e = es[0 + 1]
      OBVIOUS
    <2> HIDE DEF e
    <2>3. SameRead(mem, a, e)
      BY <1>3, <2>1, <2>2, SameReadIs
    <2>4. QED  BY <2>1, <2>3
  <1>5. ASSUME n = 2
        PROVE  SameRead(mem, b, es[2]) /\ ~ExprFails(mem, es[1])
    <2>1. ~ExprFails(mem, es[1]) /\ ~ExprFails(a, es[1])
      BY <1>1, <1>5 DEF ExprFails, Literals
    <2>2. vs[0 + 1] = Eval(a, es[1])
      BY <1>2, <1>4, <2>1 DEF SameRead
    <2>3. Pushing(mem, b, y, n, vs, 0 + 1)
      <3>1. 0 \in Nat /\ 0 < n
        BY <1>5
      <3> HIDE DEF n
      <3>2. QED  BY <1>1, <1>3, <2>1, <2>2, <3>1, PushedOn
    <2> HIDE DEF b
    <2> DEFINE e == es[1 + 1]
    <2>4. /\ e = es[2] /\ e \in Exprs /\ 1 \in {0, 1} /\ 1 < Len(es) /\ ~Late(y, es, 1 + 1)
          /\ Pushing(mem, b, y, Len(es), vs, 1)
      BY <1>1, <1>5, <2>3
    <2>5. e = es[1 + 1]
      OBVIOUS
    <2> HIDE DEF e
    <2>6. SameRead(mem, b, e)
      BY <2>4, <2>5, SameReadIs
    <2>7. QED  BY <2>1, <2>4, <2>6
  <1>6. PushFails(mem, y, es) <=> ExprFails(a, es[1]) \/ (n = 2 /\ ExprFails(b, es[2]))
    BY DEF PushFails, a
  <1>7. AppendFails(mem, es) <=> ExprFails(mem, es[1]) \/ (n = 2 /\ ExprFails(mem, es[2]))
    BY <1>1 DEF AppendFails
  <1> HIDE DEF n, b
  <1>8. PushFails(mem, y, es) <=> AppendFails(mem, es)
    BY <1>4, <1>5, <1>6, <1>7 DEF SameRead
  <1>9. ASSUME ~AppendFails(mem, es)
        PROVE  SameLooks(Sweep(PushedTo(mem, y, es)), Store(y, AppendNamed(mem, y, es)))
    <2> DEFINE c == PushedTo(mem, y, es)
               r == AppendNamed(mem, y, es)
               p == Sweep(c)
               q == Store(y, r)
    <2>1. vs[1] = Eval(a, es[1]) /\ (n = 2 => vs[2] = Eval(b, es[2]))
      BY <1>2, <1>4, <1>5, <1>7, <1>9 DEF SameRead
    <2>2. Pushing(mem, c, y, n, vs, n)
      <3>1. /\ vs[1] = Eval(PushStart(mem, y, es), es[1])
            /\ Len(es) = 2 => vs[2] = Eval(PushExpr(PushStart(mem, y, es), y, es[1]), es[2])
        BY <2>1 DEF a, b, n
      <3> HIDE DEF c
      <3>2. QED  BY <1>8, <1>9, <3>1, PushedToIs DEF c, n
    <2>3. Pushed(mem, r.m, r.s, y, n, vs, n) /\ \A w \in Vars : r.m.h[w] = mem.h[w]
      BY <1>9, AppendNamedIs DEF vs, n
    <2>4. p = Sweep(c) /\ q = Store(y, r)
      OBVIOUS
    <2> HIDE DEF c, r, p, q
    <2>5. Placed(mem, p, c, c.h[y], y) /\ Placed(mem, q, r.m, r.s, y)
      BY <2>2, <2>3, <2>4, PushPlaced, StorePlaced
    <2>6. Pushed(mem, c, c.h[y], y, n, vs, n)
      BY <2>2 DEF Pushing
    <2>7. SameLooks(p, q)
      BY <1>1, <2>3, <2>5, <2>6, PushedAlike
    <2>8. QED  BY <2>4, <2>7 DEF c, r
  <1>10. QED  BY <1>8, <1>9

LEMMA PushDiffers ==
  ASSUME Good(mem), NEW y \in Vars, NEW es \in Named, NEW x \in Vars \ {y},
         ~PushFails(mem, y, es), ~AppendFails(mem, es)
  PROVE  ~SameLooks(Sweep(PushedTo(mem, y, es)), Store(x, AppendNamed(mem, y, es)))
  <1> DEFINE n == Len(es)
             v == Eval(PushStart(mem, y, es), es[1])
             w == Eval(PushExpr(PushStart(mem, y, es), y, es[1]), es[2])
             vs == <<v, w>>
             ws == [k \in 1 .. n |-> Eval(mem, es[k])]
             c == PushedTo(mem, y, es)
             r == AppendNamed(mem, y, es)
             p == Sweep(c)
             q == Store(x, r)
  <1>1. n \in Nat \ {0}
    BY NamedIs
  <1>2. Pushing(mem, c, y, n, vs, n)
    <2>1. vs[1] = v /\ vs[2] = w
      OBVIOUS
    <2> HIDE DEF vs
    <2>2. QED  BY <2>1, PushedToIs
  <1>3. Pushed(mem, r.m, r.s, y, n, ws, n) /\ \A u \in Vars : r.m.h[u] = mem.h[u]
    BY AppendNamedIs
  <1>4. p = Sweep(c) /\ q = Store(x, r)
    OBVIOUS
  <1> HIDE DEF n, vs, ws, c, r, p, q
  <1>5. Placed(mem, p, c, c.h[y], y) /\ Placed(mem, q, r.m, r.s, x)
    BY <1>2, <1>3, <1>4, PushPlaced, StorePlaced
  <1>6. Pushed(mem, c, c.h[y], y, n, vs, n)
    BY <1>2 DEF Pushing
  <1>7. ~SameLooks(p, q)
    BY <1>1, <1>3, <1>5, <1>6, PushedElsewhere
  <1>8. QED  BY <1>4, <1>7 DEF c, r

LEMMA GrowAgrees ==
  ASSUME Good(mem), NEW x \in Vars, NEW y \in Vars, NEW v \in Values,
         NEW es, es = <<[get |-> "value", value |-> v]>>
  PROVE  SameLooks(Store(x, Push(mem, mem.h[y], v)), Store(x, AppendNamed(mem, y, es)))
  <1> DEFINE o == Push(mem, mem.h[y], v)
             r == AppendNamed(mem, y, es)
             vs == [k \in 1 .. Len(es) |-> Eval(mem, es[k])]
             p == Store(x, o)
             q == Store(x, r)
  <1>1. Len(es) = 1 /\ es[1].get = "value" /\ es[1].value = v
    OBVIOUS
  <1>2. es \in Named
    <2> DEFINE e == [get |-> "value", value |-> v]
    <2>1. e \in Exprs
      BY DEF Exprs, Literals
    <2> HIDE DEF e
    <2>2. <<e>> \in Named
      BY <2>1 DEF Named
    <2>3. QED  BY <2>2 DEF e
  <1>3. ~AppendFails(mem, es)
    BY <1>1 DEF AppendFails, ExprFails
  <1>4. vs = <<v>>
    <2>1. Eval(mem, es[1]) = v
      BY <1>1 DEF Eval
    <2>2. vs = [k \in 1 .. 1 |-> v]
      BY <1>1, <2>1
    <2>3. QED  BY <2>2
  <1>5. Pushed(mem, o.m, o.s, y, 1, <<v>>, 1) /\ o.m.h = mem.h
    BY PushIs, ValueIsStorable
  <1>6. Pushed(mem, r.m, r.s, y, 1, vs, 1) /\ \A w \in Vars : r.m.h[w] = mem.h[w]
    <2>1. Pushed(mem, r.m, r.s, y, Len(es), vs, Len(es)) /\ \A w \in Vars : r.m.h[w] = mem.h[w]
      BY <1>2, <1>3, AppendNamedIs
    <2> HIDE DEF r, vs
    <2>2. QED  BY <1>1, <2>1
  <1>7. p = Store(x, o) /\ q = Store(x, r)
    OBVIOUS
  <1> HIDE DEF o, r, vs, p, q
  <1>8. Pushed(mem, o.m, o.s, y, 1, vs, 1)
    BY <1>4, <1>5
  <1>9. Placed(mem, p, o.m, o.s, x) /\ Placed(mem, q, r.m, r.s, x)
    BY <1>5, <1>6, <1>7, <1>8, StorePlaced
  <1>10. 1 \in Nat
    OBVIOUS
  <1>11. SameLooks(p, q)
    BY <1>6, <1>8, <1>9, <1>10, PushedAlike
  <1>12. QED  BY <1>7, <1>11 DEF o, r

LEMMA PushIsAppendIs == Good(mem) => PushIsAppend
  <1>1. SUFFICES ASSUME Good(mem), NEW y \in Vars PROVE
           /\ \A es \in Named : H(y).len + Len(es) <= MaxLen =>
                 LET push == Looks(Sweep(PushedTo(mem, y, es)))
                     plain(x) == Looks(Store(x, AppendNamed(mem, y, es)))
                 IN  /\ (\A k \in 1 .. Len(es) : ~Late(y, es, k)) =>
                           /\ PushFails(mem, y, es) <=> AppendFails(mem, es)
                           /\ ~AppendFails(mem, es) => push = plain(y)
                     /\ ~PushFails(mem, y, es) /\ ~AppendFails(mem, es) =>
                           \A x \in Vars \ {y} : push # plain(x)
           /\ \A x \in Vars, v \in Values :
                 Looks(Store(x, Push(mem, H(y), v))) =
                 Looks(Store(x, AppendNamed(mem, y, <<[get |-> "value", value |-> v]>>)))
    BY DEF PushIsAppend
  <1>2. ASSUME NEW es \in Named
        PROVE  /\ (\A k \in 1 .. Len(es) : ~Late(y, es, k)) =>
                     /\ PushFails(mem, y, es) <=> AppendFails(mem, es)
                     /\ ~AppendFails(mem, es) =>
                           SameLooks(Sweep(PushedTo(mem, y, es)), Store(y, AppendNamed(mem, y, es)))
               /\ ~PushFails(mem, y, es) /\ ~AppendFails(mem, es) =>
                     \A x \in Vars \ {y} :
                        ~SameLooks(Sweep(PushedTo(mem, y, es)), Store(x, AppendNamed(mem, y, es)))
    BY <1>1, PushAgrees, PushDiffers
  <1>3. ASSUME NEW x \in Vars, NEW v \in Values, NEW es, es = <<[get |-> "value", value |-> v]>>
        PROVE  SameLooks(Store(x, Push(mem, mem.h[y], v)), Store(x, AppendNamed(mem, y, es)))
    BY <1>1, <1>3, GrowAgrees
  <1>4. QED  BY <1>2, <1>3 DEF SameLooks, H

-----------------------------------------------------------------------------
(* Statements.                                                             *)

\* x = r for a result r.
LEMMA SaneStored ==
  ASSUME NEW r, Good(r.m), r.s \in Window, Fits(r.m, r.s), NEW x \in Vars,
         mem' = Store(x, r)
  PROVE  IInv'
  BY LandedIs DEF Landed, IInv

\* What is written to a buffer, and nowhere else.
LEMMA SaneWritten ==
  ASSUME IInv, Good(mem'), Frame(mem, mem')
  PROVE  IInv'
  BY DEF IInv, Sane, Frame

\* A new array.
LEMMA SaneArray ==
  ASSUME IInv, NEW f \in [1 .. N -> Values], mem' = [mem EXCEPT !.arr = f]
  PROVE  IInv'
  <1>1. mem \in Memory
    BY DEF IInv, Sane, Good
  <1>2. Rearrayed(mem, mem', f)
    BY <1>1, ArrayIs
  <1>3. mem' \in Memory /\ mem'.kind = mem.kind /\ mem'.h = mem.h /\ mem'.buf = mem.buf
    BY <1>2 DEF Rearrayed
  <1>4. Clean(mem')
    BY <1>3 DEF Clean, IInv, Sane, Good
  <1>5. \A x \in Slices : Fits(mem', mem'.h[x])
    BY <1>3 DEF Fits, IInv, Sane, Good
  <1>6. Good(mem')
    BY <1>3, <1>4, <1>5 DEF Good
  <1>7. QED  BY <1>3, <1>6 DEF IInv, Sane

\* The end of the program.
Emptier(m, n, f, g) == n \in Memory /\ n.kind = m.kind /\ n.buf = f /\ n.h = g

LEMMA EmptierIs ==
  ASSUME NEW m \in Memory, NEW f \in [Buffers -> Seq(AnyItem)], NEW g \in [Slices -> Window]
  PROVE  Emptier(m, [m EXCEPT !.buf = f, !.h = g], f, g)
  BY DEF Memory, Emptier

LEMMA SanePanic ==
  ASSUME IInv, NEW statement, Panic(statement)
  PROVE  IInv'
  <1> DEFINE f == [b \in Buffers |-> <<>>]
             g == [x \in Slices |-> NilSlice]
  <1>1. mem \in Memory
    BY DEF IInv, Sane, Good
  <1>2. <<>> \in Seq(AnyItem) /\ Len(<<>>) = 0
    BY EmptySeq
  <1>3. f \in [Buffers -> Seq(AnyItem)] /\ g \in [Slices -> Window]
        /\ (\A b \in Buffers : f[b] = <<>>) /\ \A x \in Slices : g[x] = NilSlice
    BY <1>2, NilIs
  <1>4. mem' = [mem EXCEPT !.buf = f, !.h = g]
    BY DEF Panic
  <1> HIDE DEF f, g
  <1>5. Emptier(mem, mem', f, g)
    BY <1>1, <1>3, <1>4, EmptierIs
  <1>6. mem' \in Memory /\ mem'.buf = f /\ mem'.h = g
    BY <1>5 DEF Emptier
  <1>7. Clean(mem')
    BY <1>2, <1>3, <1>6 DEF Clean
  <1>8. \A x \in Slices : Fits(mem', mem'.h[x])
    BY <1>3, <1>6, NilIs DEF Fits
  <1>9. Tmp \in Slices
    BY DEF Slices
  <1>10. Good(mem')
    BY <1>6, <1>7, <1>8 DEF Good
  <1>11. QED  BY <1>3, <1>6, <1>9, <1>10 DEF IInv, Sane

\* make, and the literals.
LEMMA SaneMakeSlice ==
  ASSUME IInv, NEW x \in Vars, NEW v \in Values, NEW len \in Int, NEW cap \in Int,
         MakeSlice(x, len, cap, v)
  PROVE  IInv'
  <1>1. Good(mem)
    BY DEF IInv, Sane
  <1>2. CASE AllocFails(len, cap)
    BY <1>2, SanePanic DEF MakeSlice
  <1>3. CASE ~AllocFails(len, cap)
    <2> DEFINE items == [i \in 1 .. len |-> v]
               r == AllocNew(mem, items, len, cap)
    <2>1. len \in Nat /\ cap \in Nat /\ len <= cap
      BY <1>3 DEF AllocFails
    <2>2. v \in AnyItem /\ v # Junk /\ v # Emptied
      BY ConstantAssumption DEF AnyItem
    <2>3. items \in [1 .. len -> AnyItem \ {Junk}] /\ \A i \in 1 .. len : items[i] # Emptied
      BY <2>2
    <2>4. mem' = Store(x, r)
      BY <1>3 DEF MakeSlice, Alloc, Becomes
    <2> HIDE DEF items
    <2>5. Allocated(mem, r, items, len, cap)
      BY <1>1, <2>1, <2>3, AllocIs
    <2> HIDE DEF r
    <2>6. QED  BY <2>4, <2>5, SaneStored DEF Allocated
  <1>4. QED  BY <1>2, <1>3

LEMMA SaneNil ==
  ASSUME IInv, NEW x \in Vars, mem' = Store(x, Result(mem, NilSlice))
  PROVE  IInv'
  <1> DEFINE r == Result(mem, NilSlice)
  <1>1. r.m = mem /\ r.s = NilSlice
    BY DEF Result
  <1>2. mem' = Store(x, r)
    OBVIOUS
  <1> HIDE DEF r
  <1>3. Good(r.m) /\ r.s \in Window /\ Fits(r.m, r.s)
    BY <1>1, NilIs DEF IInv, Sane, Fits
  <1>4. QED  BY <1>2, <1>3, SaneStored

LEMMA SaneLiteral ==
  ASSUME IInv, NEW x \in Vars, NEW v \in Values, Literal(x, <<v>>)
  PROVE  IInv'
  <1> DEFINE items == <<v>>
             r == AllocNew(mem, items, 1, 1)
  <1>1. v \in AnyItem /\ v # Junk /\ v # Emptied
    BY ConstantAssumption DEF AnyItem
  <1>2. items \in [1 .. 1 -> AnyItem \ {Junk}] /\ Len(items) = 1 /\ items # <<>>
        /\ \A i \in 1 .. 1 : items[i] # Emptied
    BY <1>1
  <1>3. mem' = Store(x, Make(mem, items))
    BY DEF Literal, Becomes
  <1> HIDE DEF items
  <1>4. Make(mem, items) = r
    BY <1>2 DEF Make
  <1>5. 1 \in Nat /\ 1 <= 1
    OBVIOUS
  <1>6. Allocated(mem, r, items, 1, 1)
    BY <1>2, <1>5, AllocIs DEF IInv, Sane
  <1> HIDE DEF r
  <1>7. QED  BY <1>3, <1>4, <1>6, SaneStored DEF Allocated

\* A part of a slice.
IsPart(s, t, start, end) ==
    t.buf = s.buf /\ t.start = s.start + start /\ t.len = end - start /\ t.cap = s.cap - start

LEMMA PartIs ==
  ASSUME NEW s \in Window, NEW start \in Nat, NEW end \in Nat, start <= end, end <= s.cap
  PROVE  Cut(s, start, end) \in Window /\ IsPart(s, Cut(s, start, end), start, end)
  <1> DEFINE a == s.start + start
             b == end - start
             c == s.cap - start
             t == [s EXCEPT !.start = a, !.len = b, !.cap = c]
  <1>1. a \in Nat /\ b \in Nat /\ c \in Nat
    BY WindowIs
  <1>2. Cut(s, start, end) = t
    BY DEF Cut
  <1>3. t \in Window /\ t.buf = s.buf /\ t.start = a /\ t.len = b /\ t.cap = c
    <2> HIDE DEF a, b, c
    <2>1. QED  BY <1>1 DEF Window
  <1> HIDE DEF t
  <1>4. IsPart(s, t, start, end)
    BY <1>3 DEF IsPart
  <1>5. QED  BY <1>2, <1>3, <1>4

LEMMA PartFits ==
  ASSUME NEW m, Good(m), NEW s \in Window, Fits(m, s), NEW start \in Int, NEW end \in Int,
         ~SliceFails(start, end, s)
  PROVE  Cut(s, start, end) \in Window /\ Fits(m, Cut(s, start, end))
  <1> DEFINE t == Cut(s, start, end)
  <1>1. /\ m \in Memory /\ s.len \in Nat /\ s.cap \in Nat /\ s.start \in Nat
        /\ start \in Nat /\ end \in Nat /\ start <= end /\ end <= s.len
    BY WindowIs DEF SliceFails, OutOfRange, Good
  <1>2. s.len <= s.cap
    BY <1>1 DEF Fits, NilSlice
  <1>3. end <= s.cap
    BY <1>1, <1>2
  <1>4. t \in Window /\ IsPart(s, t, start, end)
    BY <1>1, <1>3, PartIs
  <1> HIDE DEF t
  <1>5. CASE IsNil(s)
    <2>1. s = NilSlice /\ s.buf = 0 /\ s.start = 0 /\ s.len = 0 /\ s.cap = 0
      BY <1>5 DEF Fits, NilSlice
    <2>2. start = 0 /\ end = 0
      BY <1>1, <2>1
    <2>3. t.buf = 0 /\ t.start = 0 /\ t.len = 0 /\ t.cap = 0
      BY <1>4, <2>1, <2>2 DEF IsPart
    <2>4. t = NilSlice
      BY <1>4, <2>3, WindowIs DEF NilSlice
    <2>5. QED  BY <1>4, <2>4, NilIs DEF Fits, t
  <1>6. CASE ~IsNil(s)
    <2>1. ~IsNil(t) /\ t.buf = s.buf
      BY <1>4, <1>6 DEF IsPart, IsNil
    <2>2. t.start + t.cap = Len(m.buf[t.buf])
      <3>1. s.start + start + (s.cap - start) = s.start + s.cap
        BY <1>1
      <3>2. s.start + s.cap = Len(m.buf[s.buf])
        BY <1>6 DEF Fits
      <3>3. QED  BY <1>4, <3>1, <3>2 DEF IsPart
    <2>3. t.len <= t.cap
      BY <1>1, <1>2, <1>4 DEF IsPart
    <2>4. \A i \in 1 .. t.len : m.buf[t.buf][t.start + i] # Junk
      <3>1. TAKE i \in 1 .. t.len
      <3>2. start + i \in 1 .. s.len /\ s.start + (start + i) = t.start + i
        BY <1>1, <1>4 DEF IsPart
      <3>3. QED  BY <1>1, <2>1, <3>2, Places
    <2>5. Fits(m, t)
      BY <2>1, <2>2, <2>3, <2>4 DEF Fits
    <2>6. QED  BY <1>4, <2>5 DEF t
  <1>7. QED  BY <1>5, <1>6

LEMMA SaneWindow ==
  ASSUME IInv, NEW x \in Vars, NEW s \in Window, Fits(mem, s), mem' = Store(x, Result(mem, s))
  PROVE  IInv'
  <1> DEFINE r == Result(mem, s)
  <1>1. r.m = mem /\ r.s = s
    BY DEF Result
  <1>2. mem' = Store(x, r)
    OBVIOUS
  <1> HIDE DEF r
  <1>3. QED  BY <1>1, <1>2, SaneStored DEF IInv, Sane

LEMMA SaneSlicing ==
  ASSUME IInv, NEW x \in Vars, NEW y \in Vars, NEW start \in Int, NEW end \in Int,
         Slicing(x, y, start, end)
  PROVE  IInv'
  <1>1. Good(mem) /\ y \in Slices
    BY DEF IInv, Sane, Slices
  <1>2. CASE SliceFails(start, end, H(y))
    BY <1>2, SanePanic DEF Slicing
  <1>3. CASE ~SliceFails(start, end, H(y))
    <2>1. mem' = Store(x, Result(mem, Cut(mem.h[y], start, end)))
      BY <1>3 DEF Slicing, Becomes, H
    <2>2. Cut(mem.h[y], start, end) \in Window /\ Fits(mem, Cut(mem.h[y], start, end))
      BY <1>1, <1>3, SlicesFit, PartFits DEF H
    <2>3. QED  BY <2>1, <2>2, SaneWindow
  <1>4. QED  BY <1>2, <1>3

LEMMA SaneLet ==
  ASSUME IInv, NEW x \in Vars, NEW y \in Vars, Let(x, y)
  PROVE  IInv'
  <1>1. mem.h[y] \in Window /\ Fits(mem, mem.h[y])
    BY SlicesFit DEF IInv, Sane, Slices
  <1>2. mem' = Store(x, Result(mem, mem.h[y]))
    BY DEF Let, Becomes, H
  <1>3. QED  BY <1>1, <1>2, SaneWindow

\* A part of the array, copied.
LEMMA SaneArraySlicing ==
  ASSUME IInv, NEW x \in Vars, NEW start \in Int, NEW end \in Int, ArraySlicing(x, start, end)
  PROVE  IInv'
  <1>1. CASE ArrayFails(start, end)
    BY <1>1, SanePanic DEF ArraySlicing
  <1>2. CASE ~ArrayFails(start, end) /\ start = end
    BY <1>2, SaneNil DEF ArraySlicing, ArraySlice, Becomes
  <1>3. CASE ~ArrayFails(start, end) /\ start # end
    <2> DEFINE items == SubSeq(mem.arr, start + 1, end)
               len == end - start
               r == AllocNew(mem, items, len, len)
    <2>1. start \in Nat /\ end \in Nat /\ end <= N /\ start + 1 <= end /\ len \in Nat /\ len <= len
          /\ N \in Nat /\ end - (start + 1) + 1 = len
      BY <1>3, ConstantAssumption DEF ArrayFails
    <2>2. mem.arr \in [1 .. N -> Values]
      BY MemoryIs DEF IInv, Sane, Good
    <2>3. \A v \in Values : v \in AnyItem /\ v # Junk /\ v # Emptied
      BY ConstantAssumption DEF AnyItem
    <2>4. items \in [1 .. len -> AnyItem \ {Junk}] /\ \A i \in 1 .. len : items[i] # Emptied
      <3> DEFINE f == mem.arr
                 a == start + 1
                 q == SubSeq(f, a, end)
      <3>1. a \in Int /\ \A i \in a .. end : f[i] \in Values
        BY <2>1, <2>2
      <3>2. a <= end /\ end - a + 1 = len
        BY <2>1
      <3> HIDE DEF f, a
      <3>3. q \in Seq(Values) /\ Len(q) = IF a <= end THEN end - a + 1 ELSE 0
        BY <3>1, SubSeqProperties
      <3>4. Len(q) = len
        BY <3>2, <3>3
      <3>5. items = q
        BY DEF f, a
      <3> HIDE DEF q, items, len
      <3>6. q \in [1 .. len -> Values]
        BY <3>3, <3>4, LenProperties, ElementOfSeq
      <3>7. QED  BY <2>3, <3>5, <3>6
    <2>5. mem' = Store(x, r)
      BY <1>3 DEF ArraySlicing, ArraySlice, Becomes
    <2> HIDE DEF items, len
    <2>6. Allocated(mem, r, items, len, len)
      BY <2>1, <2>4, AllocIs DEF IInv, Sane
    <2> HIDE DEF r
    <2>7. QED  BY <2>5, <2>6, SaneStored DEF Allocated
  <1>4. QED  BY <1>1, <1>2, <1>3

\* append and push.
LEMMA SaneAppendTo ==
  ASSUME IInv, NEW x \in Vars, NEW y \in Vars, NEW z \in Vars, AppendTo(x, y, z)
  PROVE  IInv'
  <1> DEFINE r == AppendSlice(mem, mem.h[y], mem.h[z])
  <1>1. Appended(mem, r, mem.h[y], mem.h[z])
    BY AppendSliceIs DEF IInv, Sane, Slices
  <1>2. mem' = Store(x, r)
    BY DEF AppendTo, Becomes, H
  <1> HIDE DEF r
  <1>3. QED  BY <1>1, <1>2, SaneStored DEF Appended, Lengthened

LEMMA SanePushed ==
  ASSUME IInv, NEW x \in Vars, NEW y \in Vars, NEW r, NEW n, NEW vs,
         Pushed(mem, r.m, r.s, y, n, vs, n), mem' = Store(x, r)
  PROVE  IInv'
  BY SaneStored DEF Pushed

LEMMA SaneAppendItems ==
  ASSUME IInv, NEW x \in Vars, NEW y \in Vars, NEW es \in Named, AppendItems(x, y, es)
  PROVE  IInv'
  <1>1. CASE AppendFails(mem, es)
    BY <1>1, SanePanic DEF AppendItems
  <1>2. CASE ~AppendFails(mem, es)
    <2> DEFINE r == AppendNamed(mem, y, es)
               vs == [k \in 1 .. Len(es) |-> Eval(mem, es[k])]
    <2>1. Pushed(mem, r.m, r.s, y, Len(es), vs, Len(es))
      BY <1>2, AppendNamedIs DEF IInv, Sane
    <2>2. mem' = Store(x, r)
      BY <1>2 DEF AppendItems, Becomes
    <2> HIDE DEF r, vs
    <2>3. QED  BY <2>1, <2>2, SanePushed
  <1>3. QED  BY <1>1, <1>2

LEMMA SanePushItems ==
  ASSUME IInv, NEW y \in Vars, NEW es \in Named, PushItems(y, es)
  PROVE  IInv'
  <1>1. CASE PushFails(mem, y, es)
    BY <1>1, SanePanic DEF PushItems
  <1>2. CASE ~PushFails(mem, y, es)
    <2> DEFINE c == PushedTo(mem, y, es)
               v == Eval(PushStart(mem, y, es), es[1])
               w == Eval(PushExpr(PushStart(mem, y, es), y, es[1]), es[2])
               vs == <<v, w>>
    <2>1. Pushing(mem, c, y, Len(es), vs, Len(es))
      <3>1. vs[1] = v /\ vs[2] = w
        OBVIOUS
      <3> HIDE DEF vs
      <3>2. QED  BY <1>2, <3>1, PushedToIs DEF IInv, Sane
    <2>2. mem' = Sweep(c)
      BY <1>2 DEF PushItems, Becomes
    <2> HIDE DEF c, vs
    <2>3. Good(mem') /\ mem'.h[Tmp] = mem.h[Tmp]
      BY <2>1, <2>2, PushPlaced
    <2>4. QED  BY <2>3 DEF IInv, Sane
  <1>3. QED  BY <1>1, <1>2

LEMMA SanePushGrow ==
  ASSUME IInv, NEW x \in Vars, NEW v \in Values, PushGrow(x, v)
  PROVE  IInv'
  <1> DEFINE r == Push(mem, mem.h[x], v)
             vs == <<v>>
  <1>1. Pushed(mem, r.m, r.s, x, 1, vs, 1)
    BY PushIs, ValueIsStorable DEF IInv, Sane
  <1>2. mem' = Store(x, r)
    BY DEF PushGrow, Becomes, H
  <1> HIDE DEF r, vs
  <1>3. QED  BY <1>1, <1>2, SanePushed

\* copy and clone.
LEMMA SaneCopyTo ==
  ASSUME IInv, NEW x \in Vars, NEW y \in Vars, CopyTo(x, y)
  PROVE  IInv'
  <1> DEFINE s == mem.h[x]
             w == mem.h[y]
             n == Min({s.len, w.len})
             m == Copy(mem, s, w)
  <1>1. Good(mem) /\ x \in Slices /\ y \in Slices /\ s.len \in Nat /\ w.len \in Nat
    BY SlicesFit, WindowIs DEF IInv, Sane, Slices
  <1>2. mem' = m
    BY DEF CopyTo, Becomes, H
  <1>3. CASE s.len = 0 \/ w.len = 0
    <2>1. m = mem
      BY <1>3 DEF Copy
    <2>2. QED  BY <1>1, <1>2, <2>1, SaneWritten DEF Frame
  <1>4. CASE s.len # 0 /\ w.len # 0
    <2>1. n # 0
      BY <1>1, <1>4, MinIs
    <2>2. n = Min({s.len, w.len})
      OBVIOUS
    <2> HIDE DEF n
    <2>3. CopiedTo(mem, m, w, n, s, s.start)
      BY <1>1, <2>1, <2>2, CopyIs
    <2> HIDE DEF m
    <2>4. Good(m) /\ Frame(mem, m)
      BY <2>3 DEF CopiedTo, Filled
    <2>5. QED  BY <1>2, <2>4, SaneWritten
  <1>5. QED  BY <1>3, <1>4

LEMMA SaneCloneTo ==
  ASSUME IInv, NEW x \in Vars, NEW y \in Vars, CloneTo(x, y)
  PROVE  IInv'
  <1> DEFINE r == Clone(mem, mem.h[y])
  <1>1. Allocated(mem, r, Items(mem, mem.h[y]), mem.h[y].len, mem.h[y].len)
    BY CloneIs DEF IInv, Sane, Slices
  <1>2. mem' = Store(x, r)
    BY DEF CloneTo, Becomes, H
  <1> HIDE DEF r
  <1>3. QED  BY <1>1, <1>2, SaneStored DEF Allocated

LEMMA SaneSetItem ==
  ASSUME IInv, NEW x \in Vars, NEW i \in Int, NEW v \in Values, SetItem(x, i, v)
  PROVE  IInv'
  <1> DEFINE s == mem.h[x]
             old == mem.buf[s.buf]
             k == Index(s, i)
             new == [old EXCEPT ![k] = v]
             m == Write(mem, s.buf, new)
  <1>1. Good(mem) /\ s \in Window /\ Fits(mem, s) /\ s.start \in Nat
    BY SlicesFit, WindowIs DEF IInv, Sane, Slices
  <1>2. CASE AtFails(H(x), i)
    BY <1>2, SanePanic DEF SetItem
  <1>3. CASE ~AtFails(H(x), i)
    <2>1. mem' = m
      BY <1>3 DEF SetItem, Becomes, H
    <2>2. /\ s.buf \in Buffers /\ i \in Nat /\ k = s.start + i + 1 /\ k \in 1 .. Len(old)
          /\ Len(old) \in Nat /\ old \in [1 .. Len(old) -> AnyItem]
      BY <1>1, <1>3, ReachedIs DEF H
    <2>3. v \in AnyItem /\ v # Junk /\ v # Emptied
      BY ConstantAssumption DEF AnyItem
    <2> HIDE DEF k, s
    <2>4. new \in [1 .. Len(old) -> AnyItem] /\ new[k] = v
          /\ \A j \in 1 .. Len(old) : j # k => new[j] = old[j]
      <3> HIDE DEF old
      <3>1. QED  BY <2>2, <2>3
    <2>5. k - 1 \in Nat /\ 1 \in Nat
          /\ \A j \in 1 .. Len(old) : /\ j <= k - 1 \/ j > k - 1 + 1 => j # k
                                      /\ j > k - 1 /\ j <= k - 1 + 1 => j = k
      BY <2>2
    <2> HIDE DEF new
    <2>6. /\ \A j \in 1 .. Len(old) : j <= k - 1 \/ j > k - 1 + 1 => new[j] = old[j]
          /\ \A j \in 1 .. Len(old) : j > k - 1 /\ j <= k - 1 + 1 =>
                 new[j] # Junk /\ (~MayEmpty(mem.kind) => new[j] # Emptied)
      BY <2>3, <2>4, <2>5
    <2>7. Filled(mem, m, s.buf, k - 1, 1)
      BY <1>1, <2>2, <2>4, <2>5, <2>6, FilledIs
    <2> HIDE DEF m
    <2>8. QED  BY <2>1, <2>7, SaneWritten DEF Filled
  <1>4. QED  BY <1>2, <1>3

LEMMA SaneSwapItems ==
  ASSUME IInv, NEW x \in Vars, NEW i \in Int, NEW j \in Int, SwapItems(x, i, j)
  PROVE  IInv'
  <1> DEFINE s == mem.h[x]
             old == mem.buf[s.buf]
             a == Index(s, i)
             b == Index(s, j)
             new == [old EXCEPT ![a] = old[b], ![b] = old[a]]
             m == Write(mem, s.buf, new)
             len == Len(old)
  <1>1. Good(mem) /\ s \in Window /\ Fits(mem, s) /\ s.start \in Nat /\ s.len \in Nat
    BY SlicesFit, WindowIs DEF IInv, Sane, Slices
  <1>2. CASE AtFails(H(x), i) \/ AtFails(H(x), j)
    BY <1>2, SanePanic DEF SwapItems
  <1>3. CASE ~AtFails(H(x), i) /\ ~AtFails(H(x), j)
    <2>1. mem' = m
      BY <1>3 DEF SwapItems, Becomes, H
    <2>2. /\ s.buf \in Buffers /\ i \in Nat /\ j \in Nat /\ i < s.len /\ j < s.len
          /\ a = s.start + i + 1 /\ b = s.start + j + 1 /\ a \in 1 .. len /\ b \in 1 .. len
          /\ len \in Nat /\ old \in [1 .. len -> AnyItem] /\ old[a] # Junk /\ old[b] # Junk
      BY <1>1, <1>3, ReachedIs DEF H
    <2>3. ~MayEmpty(mem.kind) => old[a] # Emptied /\ old[b] # Emptied
      BY <1>1, <2>2 DEF Good, Clean
    <2> HIDE DEF a, b, s
    <2>4. a > s.start /\ a <= s.start + s.len /\ b > s.start /\ b <= s.start + s.len
      <3>1. \A p, q, r \in Nat : r < q => p + r + 1 > p /\ p + r + 1 <= p + q
        OBVIOUS
      <3> HIDE DEF len, old
      <3>2. QED  BY <1>1, <2>2, <3>1
    <2>5. \A k \in 1 .. len : k > s.start /\ k <= s.start + s.len =>
             old[k] # Junk /\ (~MayEmpty(mem.kind) => old[k] # Emptied)
      <3>1. SUFFICES ASSUME NEW k \in 1 .. len, k > s.start, k <= s.start + s.len
                     PROVE  old[k] # Junk /\ (~MayEmpty(mem.kind) => old[k] # Emptied)
        OBVIOUS
      <3>2. k - s.start \in 1 .. s.len /\ s.start + (k - s.start) = k
        <4> HIDE DEF len
        <4>1. k \in Int
          BY <2>2, <3>1
        <4>2. QED  BY <1>1, <3>1, <4>1
      <3>3. old[k] # Junk
        BY <1>1, <3>2, Places DEF Good
      <3>4. QED  BY <1>1, <2>2, <3>3 DEF Good, Clean
    <2>6. new \in [1 .. len -> AnyItem]
          /\ \A k \in 1 .. len : new[k] = IF k = b THEN old[a] ELSE IF k = a THEN old[b] ELSE old[k]
      <3> HIDE DEF old, len
      <3>1. QED  BY <2>2
    <2> HIDE DEF new
    <2>7. \A k \in 1 .. len : k <= s.start \/ k > s.start + s.len => new[k] = old[k]
      <3>1. SUFFICES ASSUME NEW k \in 1 .. len, k <= s.start \/ k > s.start + s.len
                     PROVE  new[k] = old[k]
        OBVIOUS
      <3>2. k # a /\ k # b
        <4> HIDE DEF len, old
        <4>1. k \in Int /\ a \in Int /\ b \in Int /\ s.start \in Nat /\ s.len \in Nat
          BY <1>1, <2>2
        <4>2. QED  BY <2>4, <3>1, <4>1
      <3>3. \A q \in 1 .. len : new[q] = IF q = b THEN old[a] ELSE IF q = a THEN old[b] ELSE old[q]
        BY <2>6
      <3> HIDE DEF len, old
      <3>4. QED  BY <3>2, <3>3
    <2>8. \A k \in 1 .. len : k > s.start /\ k <= s.start + s.len =>
             new[k] # Junk /\ (~MayEmpty(mem.kind) => new[k] # Emptied)
      BY <2>2, <2>3, <2>5, <2>6
    <2>9. Filled(mem, m, s.buf, s.start, s.len)
      BY <1>1, <2>2, <2>6, <2>7, <2>8, FilledIs
    <2> HIDE DEF m
    <2>10. QED  BY <2>1, <2>9, SaneWritten DEF Filled
  <1>4. QED  BY <1>2, <1>3

\* The array.
LEMMA ArrayNow == IInv => mem.arr \in [1 .. N -> Values]
  BY MemoryIs DEF IInv, Sane, Good

LEMMA SaneSetArray ==
  ASSUME IInv, NEW i \in Int, NEW v \in Values, SetArray(i, v)
  PROVE  IInv'
  <1>1. CASE i < 0 \/ N <= i
    BY <1>1, SanePanic DEF SetArray
  <1>2. CASE ~(i < 0 \/ N <= i)
    <2> DEFINE old == mem.arr
               f == [old EXCEPT ![i + 1] = v]
    <2>1. mem' = [mem EXCEPT !.arr = f]
      BY <1>2 DEF SetArray, Becomes
    <2>2. f \in [1 .. N -> Values]
      BY ArrayNow
    <2> HIDE DEF f
    <2>3. QED  BY <2>1, <2>2, SaneArray
  <1>3. QED  BY <1>1, <1>2

LEMMA SaneSwapArray ==
  ASSUME IInv, NEW i \in Int, NEW j \in Int, SwapArray(i, j)
  PROVE  IInv'
  <1>1. CASE ~({i, j} \subseteq 0 .. N - 1)
    BY <1>1, SanePanic DEF SwapArray
  <1>2. CASE {i, j} \subseteq 0 .. N - 1
    <2> DEFINE old == mem.arr
               f == [old EXCEPT ![i + 1] = old[j + 1], ![j + 1] = old[i + 1]]
    <2>1. mem' = [mem EXCEPT !.arr = f]
      BY <1>2 DEF SwapArray, Becomes
    <2>2. i + 1 \in 1 .. N /\ j + 1 \in 1 .. N
      BY <1>2, ConstantAssumption
    <2>3. f \in [1 .. N -> Values]
      BY <2>2, ArrayNow
    <2> HIDE DEF f
    <2>4. QED  BY <2>1, <2>3, SaneArray
  <1>3. QED  BY <1>1, <1>2

LEMMA SaneFillArray ==
  ASSUME IInv, NEW v \in Values, FillArray(v)
  PROVE  IInv'
  <1> DEFINE f == [i \in 1 .. N |-> v]
  <1>1. mem' = [mem EXCEPT !.arr = f] /\ f \in [1 .. N -> Values]
    BY DEF FillArray, Becomes
  <1> HIDE DEF f
  <1>2. QED  BY <1>1, SaneArray

LEMMA SaneFromLiteral ==
  ASSUME IInv, NEW items \in [1 .. N -> Values], FromLiteral(items)
  PROVE  IInv'
  BY SaneArray DEF FromLiteral, Becomes

-----------------------------------------------------------------------------
(* The theorems.                                                           *)

LEMMA InitIInv == Init => IInv
  <1>1. SUFFICES ASSUME Init PROVE IInv
    OBVIOUS
  <1>2. PICK v \in Values, kind \in Kinds :
           mem = [kind |-> kind, buf |-> [b \in Buffers |-> <<>>],
                  h |-> [x \in Slices |-> NilSlice], arr |-> [i \in 1 .. N |-> v]]
    BY <1>1 DEF Init
  <1>3. <<>> \in Seq(AnyItem) /\ Len(<<>>) = 0
    BY EmptySeq
  <1>4. mem \in Memory
    <2> DEFINE f == [b \in Buffers |-> <<>>]
               g == [x \in Slices |-> NilSlice]
               a == [i \in 1 .. N |-> v]
    <2>1. f \in [Buffers -> Seq(AnyItem)] /\ g \in [Slices -> Window] /\ a \in [1 .. N -> Values]
      BY <1>3, NilIs
    <2>2. mem = [kind |-> kind, buf |-> f, h |-> g, arr |-> a]
      BY <1>2
    <2> HIDE DEF f, g, a
    <2>3. QED  BY <2>1, <2>2 DEF Memory
  <1>5. (\A b \in Buffers : mem.buf[b] = <<>>) /\ \A x \in Slices : mem.h[x] = NilSlice
    BY <1>2
  <1>6. Clean(mem)
    BY <1>3, <1>5 DEF Clean
  <1>7. \A x \in Slices : Fits(mem, mem.h[x])
    BY <1>5, NilIs DEF Fits
  <1>8. QED  BY <1>4, <1>5, <1>6, <1>7 DEF IInv, Sane, Good, Slices

LEMMA NextIInv == IInv /\ [Next]_vars => IInv'
  <1>1. SUFFICES ASSUME IInv, [Next]_vars PROVE IInv'
    OBVIOUS
  <1>2. Bounds \subseteq Int /\ -1 .. N \subseteq Int
    BY ConstantAssumption DEF Bounds
  <1>3. CASE UNCHANGED vars
    BY <1>1, <1>3 DEF vars, IInv
  <1>4. ASSUME NEW x \in Vars, NEW v \in Values,
               \/ \E len, cap \in Bounds : MakeSlice(x, len, cap, v)
               \/ Literal(x, <<v>>) \/ PushGrow(x, v)
               \/ \E i \in Bounds : SetItem(x, i, v)
        PROVE  IInv'
    BY <1>1, <1>2, <1>4, SaneMakeSlice, SaneLiteral, SanePushGrow, SaneSetItem
  <1>12. ASSUME NEW y \in Vars, NEW es \in Named,
                PushItems(y, es) \/ \E x \in Vars : AppendItems(x, y, es)
         PROVE  IInv'
    BY <1>1, <1>12, SanePushItems, SaneAppendItems
  <1>5. ASSUME NEW x \in Vars, NEW y \in Vars,
               \/ Let(x, y) \/ CloneTo(x, y) \/ CopyTo(x, y)
               \/ \E i, j \in Bounds : Slicing(x, y, i, j)
               \/ \E z \in Vars : AppendTo(x, y, z)
        PROVE  IInv'
    BY <1>1, <1>2, <1>5, SaneLet, SaneCloneTo, SaneCopyTo, SaneSlicing, SaneAppendTo
  <1>6. ASSUME NEW x \in Vars, NEW i \in Bounds, NEW j \in Bounds,
               ArraySlicing(x, i, j) \/ SwapItems(x, i, j)
        PROVE  IInv'
    BY <1>1, <1>2, <1>6, SaneArraySlicing, SaneSwapItems
  <1>7. ASSUME NEW x \in Vars, Literal(x, <<>>) \/ Leave(x)
        PROVE  IInv'
    <2>1. mem' = Store(x, Result(mem, NilSlice))
      BY <1>7 DEF Literal, Leave, Make, Becomes
    <2>2. QED  BY <1>1, <2>1, SaneNil
  <1>8. ASSUME NEW i \in -1 .. N, NEW j \in -1 .. N,
               SwapArray(i, j) \/ \E v \in Values : SetArray(i, v) \/ FillArray(v)
        PROVE  IInv'
    BY <1>1, <1>2, <1>8, SaneSwapArray, SaneSetArray, SaneFillArray
  <1>9. ASSUME NEW items \in [1 .. N -> Values], FromLiteral(items)
        PROVE  IInv'
    BY <1>1, <1>9, SaneFromLiteral
  <1>10. CASE Statement
    BY <1>4, <1>5, <1>6, <1>7, <1>8, <1>9, <1>10, <1>12 DEF Statement
  <1>11. QED  BY <1>1, <1>3, <1>10 DEF Next

\* Every memory that a program reaches has the slices within their buffers, in
\* initialised items, and only maps and boxes are ever empty.
THEOREM ItemsInvariance == Spec => []IInv
  BY InitIInv, NextIInv, PTL DEF Spec

LEMMA IInvSound == IInv => WindowsSound
  <1>1. SUFFICES ASSUME IInv PROVE WindowsSound
    OBVIOUS
  <1>2. /\ Good(mem) /\ mem.h[Tmp] = NilSlice /\ mem \in Memory
        /\ \A b \in Buffers : /\ DOMAIN mem.buf[b] = 1 .. Len(mem.buf[b])
                              /\ \A i \in 1 .. Len(mem.buf[b]) : mem.buf[b][i] \in AnyItem
    BY <1>1, MemoryIs, ItemOf DEF IInv, Sane, Good
  <1>3. \A b \in Buffers : \A i \in 1 .. Len(mem.buf[b]) : mem.buf[b][i] \in Stored \union {Junk}
    <2>1. CASE MayEmpty(mem.kind)
      BY <1>2, <2>1 DEF Stored, AnyItem, MayEmpty
    <2>2. CASE ~MayEmpty(mem.kind)
      BY <1>2, <2>2 DEF Stored, AnyItem, Good, Clean, MayEmpty
    <2>3. QED  BY <2>1, <2>2
  <1>4. mem.kind \in Kinds /\ mem.arr \in [1 .. N -> Values]
    BY <1>2, MemoryIs
  <1>5. \A x \in Slices : mem.h[x].buf \in {0} \union Buffers
    BY <1>2, SlicesFit, WindowIs
  <1>6. TypeOK
    BY <1>2, <1>3, <1>4, <1>5 DEF TypeOK
  <1>7. WindowsInBuffer
    <2>1. SUFFICES ASSUME NEW x \in Vars
                   PROVE  IF IsNil(mem.h[x]) THEN mem.h[x] = NilSlice
                          ELSE /\ mem.h[x].start + mem.h[x].cap = Len(mem.buf[mem.h[x].buf])
                               /\ mem.h[x].start >= 0 /\ 0 <= mem.h[x].len
                               /\ mem.h[x].len <= mem.h[x].cap
      BY DEF WindowsInBuffer, H
    <2>2. mem.h[x] \in Window /\ Fits(mem, mem.h[x])
      BY <1>2, SlicesFit DEF Slices
    <2>3. mem.h[x].start >= 0 /\ 0 <= mem.h[x].len
      BY <2>2, WindowIs
    <2>4. QED  BY <2>2, <2>3 DEF Fits
  <1>8. NoJunk
    <2>1. SUFFICES ASSUME NEW x \in Vars, NEW i \in 1 .. mem.h[x].len
                   PROVE  Items(mem, mem.h[x])[i] \in Stored
      BY DEF NoJunk, H
    <2> DEFINE s == mem.h[x]
    <2>2. s \in Window /\ Fits(mem, s) /\ i \in 1 .. s.len
      BY <1>2, SlicesFit DEF Slices
    <2> HIDE DEF s
    <2>3. /\ Items(mem, s)[i] = mem.buf[s.buf][s.start + i] /\ s.buf \in Buffers
          /\ s.start + i \in 1 .. Len(mem.buf[s.buf]) /\ mem.buf[s.buf][s.start + i] # Junk
      BY <1>2, <2>2, Places, ItemsAre
    <2>4. Items(mem, s)[i] \in Stored
      BY <1>3, <2>3
    <2>5. QED  BY <2>4 DEF s
  <1>9. QED  BY <1>6, <1>7, <1>8 DEF WindowsSound

\* In every program: a slice is a window of initialised items in its buffer,
\* after any cuts, appends, pushes, copies and clones.
THEOREM WindowsSoundHolds == Spec => []WindowsSound
  BY ItemsInvariance, IInvSound, PTL

\* append is concatenation, and other slices keep what lies before the end of
\* the slice appended to: in every memory a program reaches.
THEOREM AppendsHolds == Spec => []Appends
  <1>1. IInv => Appends
    BY ConcatenatesIs, SparesIs DEF IInv, Sane, Appends
  <1>2. QED  BY <1>1, ItemsInvariance, PTL

\* copy and clone store what their source held, and leave the rest alone.
THEOREM CopiesHolds == Spec => []Copies
  <1>1. IInv => Copies
    BY CopyTakesSourceIs, CloneApartIs DEF IInv, Sane, Copies
  <1>2. QED  BY <1>1, ItemsInvariance, PTL

\* The push of the optimiser is the append it replaces where the target is the
\* slice appended to and no expression comes late, and never where the target
\* is another one; and Slice::push is the append of one value.
THEOREM PushIsAppendHolds == Spec => []PushIsAppend
  <1>1. IInv => PushIsAppend
    BY PushIsAppendIs DEF IInv, Sane
  <1>2. QED  BY <1>1, ItemsInvariance, PTL

-----------------------------------------------------------------------------
(* Maps: the inductive invariant.                                          *)

Tables == Seq([key : Keys, val : Vals])

\* A key that is equal to itself is in a table once.
Unique(t) == \A i, j \in DOMAIN t : t[i].key = t[j].key /\ t[i].key # NaN => i = j

TablesOK ==
    /\ map \in [MapVars -> Tables]
    /\ \A v \in MapVars : Len(map[v]) <= MaxSize[v] /\ Unique(map[v])

\* The places up to i, and behind it, at which keys w have k.
Passed(w, i, k) == {j \in DOMAIN w : j <= i /\ w[j] = k}
Ahead(w, i, k)  == {j \in DOMAIN w : j > i /\ w[j] = k}

Loops ==
    [over : MapVars, live : BOOLEAN, walk : Seq(Keys), at : Int,
     seen : [Keys -> Nat] \union {<< >>}, start : [Keys -> Nat] \union {<< >>}, added : BOOLEAN]

\* In a loop that nothing was added to: what the iterator has passed was
\* visited, and what is ahead of it has not used up what there was.
Tallied(l, w) ==
    /\ l.seen \in [Keys -> Nat] /\ l.start \in [Keys -> Nat]
    /\ \A k \in Keys :
          /\ l.seen[k] <= l.start[k]
          /\ l.at > 0 => /\ Cardinality(Passed(w, l.at, k)) <= l.seen[k]
                         /\ l.seen[k] + Cardinality(Ahead(w, l.at, k)) <= l.start[k]
          /\ l.at = 0 => Count(w, k) <= l.seen[k]

LoopIs(l, w) ==
    /\ l \in Loops /\ l.at \in -1 .. Len(w)
    /\ ~l.added => Tallied(l, w)
    /\ ~l.live => l.at # -1 /\ ~l.added /\ l.start = Counts(w)

LoopOK == loop = NoLoop \/ LoopIs(loop, Walked)

MapsInv == TablesOK /\ LoopOK

-----------------------------------------------------------------------------
(* Tables.                                                                 *)

LEMMA TableIs ==
  ASSUME NEW t \in Tables
  PROVE  /\ Len(t) \in Nat /\ DOMAIN t = 1 .. Len(t)
         /\ \A i \in 1 .. Len(t) : /\ t[i] \in [key : Keys, val : Vals]
                                   /\ t[i].key \in Keys /\ t[i].val \in Vals
  <1>1. Len(t) \in Nat /\ DOMAIN t = 1 .. Len(t)
    BY LenProperties DEF Tables
  <1>2. \A i \in 1 .. Len(t) : t[i] \in [key : Keys, val : Vals]
    BY ElementOfSeq DEF Tables
  <1>3. QED  BY <1>1, <1>2

LEMMA KeysAre ==
  ASSUME NEW t \in Tables
  PROVE  /\ KeysOf(t) \in Seq(Keys) /\ Len(KeysOf(t)) = Len(t) /\ DOMAIN KeysOf(t) = 1 .. Len(t)
         /\ \A i \in 1 .. Len(t) : KeysOf(t)[i] = t[i].key
  <1>1. KeysOf(t) = [i \in 1 .. Len(t) |-> t[i].key]
    BY TableIs DEF KeysOf
  <1> HIDE DEF KeysOf
  <1>2. KeysOf(t) \in [1 .. Len(t) -> Keys]
    BY <1>1, TableIs
  <1>3. KeysOf(t) \in Seq(Keys) /\ Len(KeysOf(t)) = Len(t)
    BY <1>2, TableIs, Sequence
  <1>4. QED  BY <1>1, <1>3

LEMMA EntryIs ==
  ASSUME NEW k \in Keys, NEW x \in Vals
  PROVE  Entry(k, x) \in [key : Keys, val : Vals]
  BY DEF Entry

\* Tables with the same entries at other places.
Rearranged(t, u, p) ==
    /\ u \in Tables /\ Len(u) = Len(t)
    /\ p \in [1 .. Len(t) -> 1 .. Len(t)] /\ IsInjective(p)
    /\ \A i \in 1 .. Len(t) : u[i] = t[p[i]]

\* An order of n entries leaves none out.
LEMMA OrderIsOnto ==
  ASSUME NEW n \in Nat, NEW p \in [1 .. n -> 1 .. n], IsInjective(p), NEW j \in 1 .. n
  PROVE  \E i \in 1 .. n : p[i] = j
  <1>1. p \in Injection(1 .. n, 1 .. n)
    BY DEF Injection, IsInjective
  <1>2. IsFiniteSet(1 .. n)
    BY FS_Interval
  <1>3. p \in Surjection(1 .. n, 1 .. n)
    BY <1>1, <1>2, FS_Injection
  <1>4. QED  BY <1>3 DEF Surjection

\* A table in which entry i is gone.
Shift(i, j) == IF j < i THEN j ELSE j + 1
Removed(t, u, i) ==
    /\ u \in Tables /\ Len(u) = Len(t) - 1
    /\ \A j \in 1 .. Len(t) - 1 : Shift(i, j) \in 1 .. Len(t) /\ Shift(i, j) # i /\ u[j] = t[Shift(i, j)]

LEMMA RemovedIs ==
  ASSUME NEW t \in Tables, NEW i \in 1 .. Len(t)
  PROVE  Removed(t, RemoveAt(t, i), i)
  <1> DEFINE a == SubSeq(t, 1, i - 1)
             b == SubSeq(t, i + 1, Len(t))
             n == Len(t)
  <1>1. n \in Nat /\ i \in Int /\ 1 <= i /\ i <= n
    BY TableIs
  <1>2. \A j \in 1 .. i - 1 : t[j] \in [key : Keys, val : Vals]
    BY <1>1, TableIs
  <1>3. \A j \in i + 1 .. n : t[j] \in [key : Keys, val : Vals]
    BY <1>1, TableIs
  <1>4. /\ a \in Tables /\ Len(a) = i - 1 /\ \A j \in 1 .. i - 1 : a[j] = t[j]
    <2>1. /\ a \in Seq([key : Keys, val : Vals])
          /\ Len(a) = IF 1 <= i - 1 THEN (i - 1) - 1 + 1 ELSE 0
          /\ \A j \in 1 .. (i - 1) - 1 + 1 : a[j] = t[1 + j - 1]
      <3>1. 1 \in Int /\ i - 1 \in Int
        BY <1>1
      <3>2. QED  BY <1>2, <3>1, SubSeqProperties
    <2> HIDE DEF a, n
    <2>2. \A j \in 1 .. i - 1 : 1 + j - 1 = j /\ j \in 1 .. (i - 1) - 1 + 1
      BY <1>1
    <2>3. Len(a) = i - 1
      BY <1>1, <2>1
    <2>4. \A j \in 1 .. i - 1 : a[j] = t[j]
      BY <2>1, <2>2
    <2>5. QED  BY <2>1, <2>3, <2>4 DEF Tables
  <1>5. /\ b \in Tables /\ Len(b) = n - i /\ \A j \in 1 .. n - i : b[j] = t[i + j]
    <2>1. /\ b \in Seq([key : Keys, val : Vals])
          /\ Len(b) = IF i + 1 <= n THEN n - (i + 1) + 1 ELSE 0
          /\ \A j \in 1 .. n - (i + 1) + 1 : b[j] = t[(i + 1) + j - 1]
      <3>1. i + 1 \in Int /\ n \in Int
        BY <1>1
      <3>2. QED  BY <1>3, <3>1, SubSeqProperties
    <2> HIDE DEF b, n
    <2>2. \A j \in 1 .. n - i : (i + 1) + j - 1 = i + j /\ j \in 1 .. n - (i + 1) + 1
      BY <1>1
    <2>3. Len(b) = n - i
      BY <1>1, <2>1
    <2>4. \A j \in 1 .. n - i : b[j] = t[i + j]
      BY <2>1, <2>2
    <2>5. QED  BY <2>1, <2>3, <2>4 DEF Tables
  <1>6. RemoveAt(t, i) = a \o b
    BY DEF RemoveAt
  <1> HIDE DEF a, b
  <1>7. /\ a \o b \in Tables /\ Len(a \o b) = Len(a) + Len(b)
        /\ \A j \in 1 .. Len(a) + Len(b) :
              (a \o b)[j] = IF j <= Len(a) THEN a[j] ELSE b[j - Len(a)]
    BY <1>4, <1>5, ConcatProperties DEF Tables
  <1>8. Len(a) + Len(b) = n - 1
    BY <1>1, <1>4, <1>5
  <1> HIDE DEF n
  <1>9. ASSUME NEW j \in 1 .. n - 1
        PROVE  Shift(i, j) \in 1 .. n /\ Shift(i, j) # i /\ (a \o b)[j] = t[Shift(i, j)]
    <2>1. CASE j < i
      <3>1. j \in 1 .. i - 1 /\ j <= i - 1
        BY <1>1, <2>1
      <3>2. (a \o b)[j] = t[j]
        BY <1>4, <1>7, <1>8, <3>1
      <3>3. QED  BY <1>1, <2>1, <3>2 DEF Shift
    <2>2. CASE ~(j < i)
      <3>1. j - (i - 1) \in 1 .. n - i /\ ~(j <= i - 1) /\ i + (j - (i - 1)) = j + 1
        BY <1>1, <2>2
      <3>2. (a \o b)[j] = t[j + 1]
        BY <1>4, <1>5, <1>7, <1>8, <3>1
      <3>3. QED  BY <1>1, <2>2, <3>2 DEF Shift
    <2>3. QED  BY <2>1, <2>2
  <1>10. QED  BY <1>6, <1>7, <1>8, <1>9 DEF Removed, n

-----------------------------------------------------------------------------
(* The function that a table stands for.                                   *)

Stands(t, f) ==
    /\ f = [k \in DOMAIN f |-> f[k]]
    /\ \A k : k \in DOMAIN f <=> k # NaN /\ \E i \in DOMAIN t : t[i].key = k
    /\ \A i \in DOMAIN t : t[i].key # NaN => f[t[i].key] = t[i].val

\* A table that determines its function stands for that alone.
LEMMA ContentStands ==
  ASSUME NEW t \in Tables, Unique(t) PROVE Stands(t, Content(t))
  <1> DEFINE D == {t[i].key : i \in DOMAIN t} \ {NaN}
             at(k) == CHOOSE i \in DOMAIN t : t[i].key = k
             f == [k \in D |-> t[at(k)].val]
  <1>1. Content(t) = f
    BY DEF Content
  <1>2. ASSUME NEW i \in DOMAIN t, t[i].key # NaN PROVE f[t[i].key] = t[i].val
    <2>1. at(t[i].key) \in DOMAIN t /\ t[at(t[i].key)].key = t[i].key
      OBVIOUS
    <2> HIDE DEF at
    <2>2. at(t[i].key) = i
      BY <1>2, <2>1 DEF Unique
    <2>3. t[i].key \in D
      BY <1>2
    <2>4. QED  BY <2>2, <2>3
  <1>3. DOMAIN f = D /\ f = [k \in DOMAIN f |-> f[k]]
    OBVIOUS
  <1> HIDE DEF f
  <1>4. QED  BY <1>1, <1>2, <1>3 DEF Stands

LEMMA StandsOnce ==
  ASSUME NEW t, NEW f, NEW g, Stands(t, f), Stands(t, g)
  PROVE  f = g
  <1>1. f = [k \in DOMAIN f |-> f[k]] /\ g = [k \in DOMAIN g |-> g[k]]
    BY DEF Stands
  <1>2. DOMAIN f = DOMAIN g
    BY DEF Stands
  <1>3. \A k \in DOMAIN f : f[k] = g[k]
    BY DEF Stands
  <1>4. QED  BY <1>1, <1>2, <1>3

\* The same entries at other places.
LEMMA RearrangedStands ==
  ASSUME NEW t \in Tables, NEW u, NEW p, Rearranged(t, u, p)
  PROVE  /\ \A f : Stands(t, f) => Stands(u, f)
         /\ Unique(t) => Unique(u)
  <1>1. /\ Len(t) \in Nat /\ DOMAIN t = 1 .. Len(t) /\ DOMAIN u = 1 .. Len(t)
        /\ \A i \in 1 .. Len(t) : p[i] \in 1 .. Len(t) /\ u[i] = t[p[i]]
    BY TableIs DEF Rearranged
  <1>2. \A j \in 1 .. Len(t) : \E i \in 1 .. Len(t) : p[i] = j
    BY <1>1, OrderIsOnto DEF Rearranged
  <1>3. Unique(t) => Unique(u)
    <2>1. \A i, j \in 1 .. Len(t) : p[i] = p[j] => i = j
      BY <1>1 DEF Rearranged, IsInjective
    <2>2. QED  BY <1>1, <2>1 DEF Unique
  <1>4. ASSUME NEW f, Stands(t, f) PROVE Stands(u, f)
    <2>1. ASSUME NEW k PROVE (\E i \in DOMAIN t : t[i].key = k) <=> \E i \in DOMAIN u : u[i].key = k
      <3>1. ASSUME NEW j \in DOMAIN t, t[j].key = k PROVE \E i \in DOMAIN u : u[i].key = k
        <4>1. PICK i \in 1 .. Len(t) : p[i] = j
          BY <1>1, <1>2, <3>1
        <4>2. i \in DOMAIN u /\ u[i] = t[j]
          BY <1>1, <4>1
        <4>3. QED  BY <3>1, <4>2
      <3>2. ASSUME NEW i \in DOMAIN u, u[i].key = k PROVE \E j \in DOMAIN t : t[j].key = k
        BY <1>1, <3>2
      <3>3. QED  BY <3>1, <3>2
    <2>2. \A i \in DOMAIN u : u[i].key # NaN => f[u[i].key] = u[i].val
      BY <1>1, <1>4 DEF Stands
    <2>3. QED  BY <1>4, <2>1, <2>2 DEF Stands
  <1>5. QED  BY <1>3, <1>4

IsWith(f, g, k, x) ==
    /\ g = [j \in DOMAIN g |-> g[j]]
    /\ k = NaN => g = f
    /\ k # NaN => /\ DOMAIN g = DOMAIN f \union {k} /\ g[k] = x
                  /\ \A j \in DOMAIN f \ {k} : g[j] = f[j]

LEMMA WithIs ==
  ASSUME NEW t, NEW f, Stands(t, f), NEW k, NEW x
  PROVE  IsWith(f, With(f, k, x), k, x)
  BY DEF With, IsWith, Stands

\* A new entry at the end.
LEMMA AppendedStands ==
  ASSUME NEW t \in Tables, NEW k \in Keys, NEW x \in Vals, Find(t, k) = {}
  PROVE  LET u == Append(t, Entry(k, x))
         IN  /\ u \in Tables /\ Len(u) = Len(t) + 1
             /\ Unique(t) => Unique(u)
             /\ \A f : Stands(t, f) => Stands(u, With(f, k, x))
  <1> DEFINE u == Append(t, Entry(k, x))
             e == Entry(k, x)
  <1>1. /\ u \in Tables /\ Len(u) = Len(t) + 1 /\ u[Len(t) + 1] = e
        /\ \A i \in 1 .. Len(t) : u[i] = t[i]
    BY EntryIs, AppendProperties DEF Tables
  <1>2. /\ Len(t) \in Nat /\ DOMAIN t = 1 .. Len(t) /\ DOMAIN u = 1 .. Len(t) + 1
        /\ e.key = k /\ e.val = x
    BY <1>1, TableIs DEF Entry
  <1> HIDE DEF u, e
  <1>3. \A i \in 1 .. Len(t) : t[i].key = k => k = NaN
    BY <1>2 DEF Find
  <1>4. \A i \in 1 .. Len(t) + 1 : i \in 1 .. Len(t) \/ i = Len(t) + 1
    BY <1>2
  <1>5. Unique(t) => Unique(u)
    BY <1>1, <1>2, <1>3, <1>4 DEF Unique
  <1>6. ASSUME NEW f, Stands(t, f) PROVE Stands(u, With(f, k, x))
    <2> DEFINE g == With(f, k, x)
    <2>1. IsWith(f, g, k, x)
      BY <1>6, WithIs
    <2> HIDE DEF g
    <2>2. /\ g = [j \in DOMAIN g |-> g[j]]
          /\ k = NaN => g = f
          /\ k # NaN => /\ DOMAIN g = DOMAIN f \union {k} /\ g[k] = x
                        /\ \A j \in DOMAIN f \ {k} : g[j] = f[j]
      BY <2>1 DEF IsWith
    <2>3. \A j : (\E i \in DOMAIN u : u[i].key = j) <=> j = k \/ \E i \in DOMAIN t : t[i].key = j
      BY <1>1, <1>2, <1>4
    <2>4. \A j : j \in DOMAIN g <=> j # NaN /\ \E i \in DOMAIN u : u[i].key = j
      BY <1>6, <2>2, <2>3 DEF Stands
    <2>5. ASSUME NEW i \in DOMAIN u, u[i].key # NaN PROVE g[u[i].key] = u[i].val
      <3>1. CASE i = Len(t) + 1
        BY <1>1, <1>2, <2>2, <2>5, <3>1
      <3>2. CASE i \in 1 .. Len(t)
        <4>1. u[i] = t[i] /\ t[i].key # NaN /\ t[i].key # k
          BY <1>1, <1>3, <2>5, <3>2
        <4>2. t[i].key \in DOMAIN f /\ f[t[i].key] = t[i].val
          BY <1>2, <1>6, <3>2, <4>1 DEF Stands
        <4>3. QED  BY <2>2, <4>1, <4>2
      <3>3. QED  BY <1>2, <1>4, <3>1, <3>2
    <2>6. QED  BY <2>2, <2>4, <2>5 DEF Stands, g
  <1>7. QED  BY <1>1, <1>5, <1>6 DEF u

\* Another value for a key.
Revalued(t, u, i, x) == u = [t EXCEPT ![i].val = x]

LEMMA ValueStands ==
  ASSUME NEW t \in Tables, Unique(t), NEW k \in Keys, NEW x \in Vals, NEW i \in Find(t, k),
         NEW u, Revalued(t, u, i, x)
  PROVE  /\ u \in Tables /\ Len(u) = Len(t)
         /\ Unique(u) /\ KeysOf(u) = KeysOf(t)
         /\ \A f : Stands(t, f) => Stands(u, With(f, k, x))
  <1> DEFINE e == [t[i] EXCEPT !.val = x]
  <1>1. /\ Len(t) \in Nat /\ DOMAIN t = 1 .. Len(t) /\ i \in 1 .. Len(t) /\ t[i].key = k /\ k # NaN
        /\ t[i] \in [key : Keys, val : Vals]
    BY TableIs DEF Find
  <1>2. e \in [key : Keys, val : Vals] /\ e.key = k /\ e.val = x
    BY <1>1
  <1>0. u = [t EXCEPT ![i] = e]
    BY DEF Revalued
  <1> HIDE DEF e
  <1>3. /\ u \in Tables /\ Len(u) = Len(t)
        /\ \A j \in 1 .. Len(t) : u[j] = IF j = i THEN e ELSE t[j]
    BY <1>0, <1>1, <1>2, ExceptSeq DEF Tables
  <1>4. DOMAIN u = 1 .. Len(t) /\ \A j \in 1 .. Len(t) : u[j].key = t[j].key
    BY <1>1, <1>2, <1>3, TableIs
  <1>5. Unique(u)
    BY <1>1, <1>4 DEF Unique
  <1>6. KeysOf(u) = KeysOf(t)
    BY <1>1, <1>4 DEF KeysOf
  <1>7. ASSUME NEW f, Stands(t, f) PROVE Stands(u, With(f, k, x))
    <2> DEFINE g == With(f, k, x)
    <2>1. IsWith(f, g, k, x)
      BY <1>7, WithIs
    <2> HIDE DEF g
    <2>2. /\ g = [j \in DOMAIN g |-> g[j]]
          /\ DOMAIN g = DOMAIN f \union {k} /\ g[k] = x
          /\ \A j \in DOMAIN f \ {k} : g[j] = f[j]
      BY <1>1, <2>1 DEF IsWith
    <2>3. \A j : j \in DOMAIN g <=> j # NaN /\ \E l \in DOMAIN u : u[l].key = j
      <3>1. k \in DOMAIN f
        BY <1>1, <1>7 DEF Stands
      <3>2. DOMAIN g = DOMAIN f
        BY <2>2, <3>1
      <3>3. QED  BY <1>1, <1>4, <1>7, <3>2 DEF Stands
    <2>4. ASSUME NEW j \in DOMAIN u, u[j].key # NaN PROVE g[u[j].key] = u[j].val
      <3>1. CASE j = i
        BY <1>1, <1>2, <1>3, <2>2, <3>1
      <3>2. CASE j # i
        <4>1. u[j] = t[j] /\ t[j].key # NaN /\ t[j].key # k
          BY <1>1, <1>3, <1>4, <2>4, <3>2 DEF Unique
        <4>2. t[j].key \in DOMAIN f /\ f[t[j].key] = t[j].val
          BY <1>1, <1>4, <1>7, <2>4, <4>1 DEF Stands
        <4>3. QED  BY <2>2, <4>1, <4>2
      <3>3. QED  BY <3>1, <3>2
    <2>5. QED  BY <2>2, <2>3, <2>4 DEF Stands, g
  <1>8. QED  BY <1>3, <1>5, <1>6, <1>7

\* What an entry that is removed leaves.
Remains(t, u, i) ==
    /\ Unique(t) => Unique(u)
    /\ \A j \in DOMAIN u : \E l \in DOMAIN t \ {i} : u[j] = t[l]
    /\ \A l \in DOMAIN t \ {i} : \E j \in DOMAIN u : u[j] = t[l]

LEMMA RemovedKeeps ==
  ASSUME NEW t \in Tables, NEW i \in 1 .. Len(t), NEW u, Removed(t, u, i)
  PROVE  Remains(t, u, i)
  <1>1. /\ Len(t) \in Nat /\ DOMAIN t = 1 .. Len(t) /\ DOMAIN u = 1 .. Len(t) - 1
        /\ \A j \in 1 .. Len(t) - 1 : Shift(i, j) \in 1 .. Len(t) /\ Shift(i, j) # i /\ u[j] = t[Shift(i, j)]
    BY TableIs DEF Removed
  <1>2. \A j, l \in 1 .. Len(t) - 1 : Shift(i, j) = Shift(i, l) => j = l
    BY <1>1 DEF Shift
  <1>3. ASSUME NEW j \in 1 .. Len(t), j # i PROVE \E l \in 1 .. Len(t) - 1 : Shift(i, l) = j
    <2>1. CASE j < i
      BY <1>1, <2>1 DEF Shift
    <2>2. CASE j > i
      <3>1. j - 1 \in 1 .. Len(t) - 1 /\ Shift(i, j - 1) = j
        BY <1>1, <2>2 DEF Shift
      <3>2. QED  BY <3>1
    <2>3. QED  BY <1>1, <1>3, <2>1, <2>2
  <1>4. Unique(t) => Unique(u)
    BY <1>1, <1>2 DEF Unique
  <1>5. ASSUME NEW l \in DOMAIN t \ {i} PROVE \E j \in DOMAIN u : u[j] = t[l]
    <2>1. PICK j \in 1 .. Len(t) - 1 : Shift(i, j) = l
      BY <1>1, <1>3, <1>5
    <2>2. QED  BY <1>1, <2>1
  <1>6. ASSUME NEW j \in DOMAIN u PROVE \E l \in DOMAIN t \ {i} : u[j] = t[l]
    BY <1>1, <1>6
  <1>7. QED  BY <1>4, <1>5, <1>6 DEF Remains

LEMMA RemovedStands ==
  ASSUME NEW t \in Tables, Unique(t), NEW k \in Keys, NEW i \in Find(t, k),
         NEW u, Removed(t, u, i), NEW f, Stands(t, f)
  PROVE  Stands(u, Restrict(f, DOMAIN f \ {k}))
  <1> DEFINE g == Restrict(f, DOMAIN f \ {k})
  <1>1. i \in 1 .. Len(t) /\ DOMAIN t = 1 .. Len(t) /\ t[i].key = k /\ k # NaN
    BY TableIs DEF Find
  <1>2. /\ \A j \in DOMAIN u : \E l \in DOMAIN t \ {i} : u[j] = t[l]
        /\ \A l \in DOMAIN t \ {i} : \E j \in DOMAIN u : u[j] = t[l]
    <2> HIDE DEF g
    <2>1. Remains(t, u, i)
      BY <1>1, RemovedKeeps
    <2>2. QED  BY <2>1 DEF Remains
  <1>3. \A l \in DOMAIN t \ {i} : t[l].key # k
    BY <1>1 DEF Unique
  <1>4. /\ g = [j \in DOMAIN g |-> g[j]] /\ DOMAIN g = DOMAIN f \ {k}
        /\ \A j \in DOMAIN f \ {k} : g[j] = f[j]
    BY DEF Restrict
  <1> HIDE DEF g
  <1>5. \A j : j \in DOMAIN g <=> j # NaN /\ \E l \in DOMAIN u : u[l].key = j
    <2>1. \A j : j \in DOMAIN f <=> j # NaN /\ \E l \in DOMAIN t : t[l].key = j
      BY DEF Stands
    <2>2. \A j : j # k => ((\E l \in DOMAIN t : t[l].key = j) <=> \E l \in DOMAIN t \ {i} : t[l].key = j)
      BY <1>1
    <2>3. \A j : (\E l \in DOMAIN u : u[l].key = j) <=> \E l \in DOMAIN t \ {i} : t[l].key = j
      BY <1>2
    <2>4. QED  BY <1>3, <1>4, <2>1, <2>2, <2>3
  <1>6. ASSUME NEW j \in DOMAIN u, u[j].key # NaN PROVE g[u[j].key] = u[j].val
    <2>1. PICK l \in DOMAIN t \ {i} : u[j] = t[l]
      BY <1>2
    <2>2. t[l].key \in DOMAIN f /\ f[t[l].key] = t[l].val
      BY <1>6, <2>1 DEF Stands
    <2>3. QED  BY <1>3, <1>4, <2>1, <2>2
  <1>7. QED  BY <1>4, <1>5, <1>6 DEF Stands, g

\* The empty table, and the empty function.
LEMMA EmptyStands ==
  /\ << >> \in Tables /\ Len(<< >>) = 0 /\ DOMAIN << >> = {} /\ Unique(<< >>)
  /\ Stands(<< >>, << >>)
  <1>1. << >> \in Tables /\ Len(<< >>) = 0
    BY EmptySeq DEF Tables
  <1>2. DOMAIN << >> = {}
    BY <1>1, TableIs
  <1>3. << >> = [k \in DOMAIN << >> |-> << >>[k]]
    <2>1. << >> \in [1 .. 0 -> {}]
      BY LenProperties, EmptySeq
    <2>2. QED  BY <2>1
  <1>4. QED  BY <1>1, <1>2, <1>3 DEF Unique, Stands

\* The literals {k: x, k: y}.
LEMMA LiteralStands ==
  ASSUME NEW k \in Keys, NEW x \in Vals, NEW y \in Vals
  PROVE  LET u == IF k = NaN THEN <<Entry(k, x), Entry(k, y)>> ELSE <<Entry(k, x)>>
         IN  /\ u \in Tables /\ Unique(u)
             /\ Stands(u, With(<< >>, k, x))
  <1> DEFINE one == Append(<< >>, Entry(k, x))
             two == Append(one, Entry(k, y))
             u == IF k = NaN THEN <<Entry(k, x), Entry(k, y)>> ELSE <<Entry(k, x)>>
  <1>1. u = IF k = NaN THEN two ELSE one
    <2> DEFINE a == Entry(k, x)
               b == Entry(k, y)
    <2>1. <<a>> = Append(<< >>, a)
      OBVIOUS
    <2>2. <<a, b>> = Append(<<a>>, b)
      OBVIOUS
    <2>3. <<a, b>> = two
      BY <2>1, <2>2
    <2>4. QED  BY <2>1, <2>3
  <1>2. Find(<< >>, k) = {}
    BY EmptyStands DEF Find
  <1>3. one \in Tables /\ Unique(one) /\ Stands(one, With(<< >>, k, x))
    BY <1>2, EmptyStands, AppendedStands
  <1> HIDE DEF one
  <1>4. ASSUME k = NaN PROVE two \in Tables /\ Unique(two) /\ Stands(two, With(<< >>, k, x))
    <2>1. Find(one, k) = {} /\ \A f : With(f, k, y) = f
      BY <1>4 DEF Find, With
    <2>2. two \in Tables /\ Unique(two) /\ \A f : Stands(one, f) => Stands(two, With(f, k, y))
      BY <1>3, <2>1, AppendedStands
    <2> HIDE DEF two
    <2>3. QED  BY <1>3, <2>1, <2>2
  <1> HIDE DEF two
  <1>5. QED  BY <1>1, <1>3, <1>4

-----------------------------------------------------------------------------
(* What each operation makes of a map.                                     *)

Changed(v, u) ==
    /\ map' = [map EXCEPT ![v] = u]
    /\ u \in Tables /\ Len(u) <= MaxSize[v] /\ Unique(u)

MapIs(v, h) == Changed(v, map'[v]) /\ Stands(map'[v], h)

LEMMA TablesAre ==
  ASSUME TablesOK, NEW v \in MapVars
  PROVE  map[v] \in Tables /\ Unique(map[v]) /\ Len(map[v]) <= MaxSize[v] /\ MaxSize[v] \in Nat
  BY MapsAssumption DEF TablesOK

LEMMA ChangedKeeps ==
  ASSUME TablesOK, NEW v \in MapVars, NEW u, Changed(v, u)
  PROVE  TablesOK' /\ map'[v] = u /\ \A w \in MapVars \ {v} : map'[w] = map[w]
  <1>1. map \in [MapVars -> Tables] /\ map' = [map EXCEPT ![v] = u] /\ u \in Tables
    BY DEF TablesOK, Changed
  <1>2. map' \in [MapVars -> Tables] /\ map'[v] = u /\ \A w \in MapVars \ {v} : map'[w] = map[w]
    BY <1>1
  <1>3. \A w \in MapVars : Len(map'[w]) <= MaxSize[w] /\ Unique(map'[w])
    BY <1>2 DEF TablesOK, Changed
  <1>4. QED  BY <1>2, <1>3 DEF TablesOK

LEMMA ToMapIs ==
  ASSUME TablesOK, NEW v \in MapVars, NEW u, Changed(v, u), NEW h, Stands(u, h)
  PROVE  MapIs(v, h)
  BY ChangedKeeps DEF MapIs

\* An entry with a new key.
LEMMA InsertIs ==
  ASSUME TablesOK, NEW v \in MapVars, NEW k \in Keys, NEW x \in Vals,
         Find(map[v], k) = {}, Insert(v, k, x)
  PROVE  MapIs(v, With(Content(map[v]), k, x))
  <1> DEFINE t == map[v]
             a == Append(t, Entry(k, x))
             g == With(Content(t), k, x)
  <1>1. t \in Tables /\ Unique(t) /\ MaxSize[v] \in Nat /\ Len(t) \in Nat
    BY TablesAre, TableIs
  <1>2. a \in Tables /\ Len(a) = Len(t) + 1 /\ Unique(a) /\ Stands(a, g)
    BY <1>1, AppendedStands, ContentStands
  <1> HIDE DEF g
  <1>3. PICK p \in Orders(Len(a)) : map' = [map EXCEPT ![v] = [i \in DOMAIN a |-> a[p[i]]]]
    BY DEF Insert
  <1>4. Len(t) + 1 <= MaxSize[v]
    BY <1>1 DEF Insert
  <1> HIDE DEF a, t
  <1> DEFINE u == [i \in DOMAIN a |-> a[p[i]]]
  <1>5. p \in [1 .. Len(a) -> 1 .. Len(a)] /\ IsInjective(p)
    BY DEF Orders
  <1>6. u \in [1 .. Len(a) -> [key : Keys, val : Vals]]
    BY <1>2, <1>5, TableIs
  <1>7. u \in Tables /\ Len(u) = Len(a)
    BY <1>2, <1>6, TableIs, Sequence DEF Tables
  <1>8. Rearranged(a, u, p)
    BY <1>2, <1>5, <1>7, TableIs DEF Rearranged
  <1>9. Unique(u) /\ Stands(u, g)
    BY <1>2, <1>8, RearrangedStands
  <1>10. Changed(v, u)
    BY <1>1, <1>2, <1>3, <1>4, <1>7, <1>9 DEF Changed
  <1> HIDE DEF u
  <1>11. QED  BY <1>9, <1>10, ToMapIs DEF g, t

LEMMA SetIs ==
  ASSUME TablesOK, NEW v \in MapVars, NEW k \in Keys, NEW x \in Vals, Set(v, k, x)
  PROVE  MapIs(v, With(Content(map[v]), k, x))
  <1>1. CASE Find(map[v], k) = {} /\ Insert(v, k, x)
    BY <1>1, InsertIs
  <1>2. CASE \E i \in Find(map[v], k) : map' = [map EXCEPT ![v][i].val = x]
    <2> DEFINE t == map[v]
               g == With(Content(t), k, x)
    <2>1. PICK i \in Find(t, k) : map' = [map EXCEPT ![v] = [t EXCEPT ![i].val = x]]
      BY <1>2
    <2>2. t \in Tables /\ Unique(t) /\ Len(t) <= MaxSize[v]
      BY TablesAre
    <2> HIDE DEF t
    <2>7. PICK u : u = [t EXCEPT ![i].val = x]
      OBVIOUS
    <2>3. /\ u \in Tables /\ Len(u) = Len(t) /\ Unique(u)
          /\ \A f : Stands(t, f) => Stands(u, With(f, k, x))
      <3>1. Revalued(t, u, i, x)
        BY <2>7 DEF Revalued
      <3>2. QED  BY <2>2, <3>1, ValueStands
    <2>4. Stands(u, g)
      BY <2>2, <2>3, ContentStands
    <2>5. Changed(v, u)
      BY <2>1, <2>2, <2>3, <2>7 DEF Changed
    <2> HIDE DEF g
    <2>6. QED  BY <2>4, <2>5, ToMapIs DEF g, t
  <1>3. QED  BY <1>1, <1>2 DEF Set

LEMMA ReadIs ==
  ASSUME TablesOK, NEW v \in MapVars, NEW k \in Keys, Read(v, k)
  PROVE  MapIs(v, With(Content(map[v]), k, Zero))
  BY InsertIs, MapsAssumption DEF Read

LEMMA UnchangedIs ==
  ASSUME TablesOK, NEW v \in MapVars, UNCHANGED map
  PROVE  Changed(v, map[v]) /\ MapIs(v, Content(map[v]))
  <1>1. map' = [map EXCEPT ![v] = map[v]]
    BY DEF TablesOK
  <1>2. Changed(v, map[v])
    BY <1>1, TablesAre DEF Changed
  <1>3. QED  BY <1>2, TablesAre, ContentStands, ToMapIs

LEMMA EraseIs ==
  ASSUME TablesOK, NEW v \in MapVars, NEW k \in Keys, NEW i \in Find(map[v], k), Erase(v, i)
  PROVE  /\ Changed(v, RemoveAt(map[v], i)) /\ Removed(map[v], RemoveAt(map[v], i), i)
         /\ MapIs(v, Restrict(Content(map[v]), DOMAIN Content(map[v]) \ {k}))
  <1> DEFINE t == map[v]
             u == RemoveAt(t, i)
             f == Content(t)
             g == Restrict(f, DOMAIN f \ {k})
  <1>1. t \in Tables /\ Unique(t) /\ Len(t) <= MaxSize[v] /\ MaxSize[v] \in Nat /\ i \in 1 .. Len(t)
        /\ Len(t) \in Nat
    BY TablesAre, TableIs DEF Find
  <1>2. map' = [map EXCEPT ![v] = u]
    BY DEF Erase
  <1>3. Removed(t, u, i)
    BY <1>1, RemovedIs
  <1>4. Stands(t, f)
    BY <1>1, ContentStands
  <1> HIDE DEF t, u, f
  <1>5. u \in Tables /\ Len(u) <= MaxSize[v]
    BY <1>1, <1>3 DEF Removed
  <1>6. Unique(u)
    BY <1>1, <1>3, RemovedKeeps DEF Remains
  <1>7. Stands(u, g)
    BY <1>1, <1>3, <1>4, RemovedStands DEF t
  <1>8. Changed(v, u)
    BY <1>2, <1>5, <1>6 DEF Changed
  <1> HIDE DEF g
  <1>9. MapIs(v, g)
    BY <1>7, <1>8, ToMapIs
  <1>10. QED  BY <1>3, <1>8, <1>9 DEF t, u, f, g

LEMMA DeleteIs ==
  ASSUME TablesOK, NEW v \in MapVars, NEW k \in Keys, Delete(v, k)
  PROVE  MapIs(v, Restrict(Content(map[v]), DOMAIN Content(map[v]) \ {k}))
  <1>1. CASE \E i \in Find(map[v], k) : Erase(v, i)
    BY <1>1, EraseIs
  <1>2. CASE Find(map[v], k) = {} /\ UNCHANGED map
    <2> DEFINE f == Content(map[v])
    <2>1. Stands(map[v], f)
      BY TablesAre, ContentStands
    <2>2. MapIs(v, f)
      BY <1>2, UnchangedIs
    <2> HIDE DEF f
    <2>3. k \notin DOMAIN f
      BY <1>2, <2>1 DEF Find, Stands
    <2>4. Restrict(f, DOMAIN f \ {k}) = f
      <3>1. f = [j \in DOMAIN f |-> f[j]]
        BY <2>1 DEF Stands
      <3>2. DOMAIN f \ {k} = DOMAIN f
        BY <2>3
      <3>3. Restrict(f, DOMAIN f) = f
        BY <3>1 DEF Restrict
      <3>4. QED  BY <3>2, <3>3
    <2>5. QED  BY <2>2, <2>4 DEF f
  <1>3. QED  BY <1>1, <1>2 DEF Delete

LEMMA ClearIs ==
  ASSUME TablesOK, NEW v \in MapVars, Clear(v)
  PROVE  Changed(v, << >>) /\ MapIs(v, << >>)
  <1>1. Changed(v, << >>)
    BY EmptyStands, TablesAre DEF Clear, Changed
  <1>2. QED  BY <1>1, EmptyStands, ToMapIs

LEMMA AssignMapIs ==
  ASSUME TablesOK, NEW v \in MapVars, NEW w \in MapVars, Assign(v, w)
  PROVE  MapIs(v, Content(map[w]))
  <1>1. Changed(v, map[w])
    BY TablesAre DEF Assign, Replace, Changed
  <1>2. QED  BY <1>1, TablesAre, ContentStands, ToMapIs

LEMMA MapLiteralIs ==
  ASSUME TablesOK, NEW v \in MapVars, NEW k \in Keys, NEW x \in Vals, NEW y \in Vals,
         MapLiteral(v, k, x, y)
  PROVE  MapIs(v, With(<< >>, k, x))
  <1> DEFINE u == IF k = NaN THEN <<Entry(k, x), Entry(k, y)>> ELSE <<Entry(k, x)>>
  <1>1. u \in Tables /\ Unique(u) /\ Stands(u, With(<< >>, k, x))
    BY LiteralStands
  <1>2. Replace(v, u)
    BY DEF MapLiteral
  <1> HIDE DEF u
  <1>3. Changed(v, u)
    BY <1>1, <1>2 DEF Replace, Changed
  <1>4. QED  BY <1>1, <1>3, ToMapIs

\* That is what AsFunctions says of it.
LEMMA MakesWhatItSays ==
  ASSUME TablesOK, NEW v \in MapVars
  PROVE  MakesOf(v)
  <1> DEFINE f == Content(map[v])
             Is(h) == Content(map'[v]) = h /\ \A w \in MapVars \ {v} : map'[w] = map[w]
  <1>1. ASSUME NEW h, MapIs(v, h) PROVE Is(h)
    <2>1. \A w \in MapVars \ {v} : map'[w] = map[w]
      BY <1>1, ChangedKeeps DEF MapIs
    <2>2. Stands(map'[v], h) /\ map'[v] \in Tables /\ Unique(map'[v])
      BY <1>1 DEF MapIs, Changed
    <2>3. Stands(map'[v], Content(map'[v]))
      BY <2>2, ContentStands
    <2>4. Content(map'[v]) = h
      BY <2>2, <2>3, StandsOnce
    <2>5. QED  BY <2>1, <2>4
  <1>2. ASSUME NEW k \in Keys, NEW x \in Vals, Set(v, k, x) PROVE MapIs(v, With(f, k, x))
    BY <1>2, SetIs
  <1>3. ASSUME NEW k \in Keys, Read(v, k) PROVE MapIs(v, With(f, k, Zero))
    BY <1>3, ReadIs
  <1>4. ASSUME NEW k \in Keys, Delete(v, k) PROVE MapIs(v, Restrict(f, DOMAIN f \ {k}))
    BY <1>4, DeleteIs
  <1>5. Clear(v) => MapIs(v, << >>)
    BY ClearIs
  <1>6. ASSUME NEW w \in MapVars, Assign(v, w) PROVE MapIs(v, Content(map[w]))
    BY <1>6, AssignMapIs
  <1>7. ASSUME NEW k \in Keys, NEW x \in Vals, NEW y \in Vals, MapLiteral(v, k, x, y)
        PROVE  MapIs(v, With(<< >>, k, x))
    BY <1>7, MapLiteralIs
  <1> HIDE DEF Is, f
  <1>8. /\ \A k \in Keys, x \in Vals : Set(v, k, x) => Is(With(f, k, x))
        /\ \A k \in Keys : /\ Read(v, k) => Is(With(f, k, Zero))
                           /\ Delete(v, k) => Is(Restrict(f, DOMAIN f \ {k}))
        /\ Clear(v) => Is(<< >>)
        /\ \A w \in MapVars : Assign(v, w) => Is(Content(map[w]))
        /\ \A k \in Keys, x, y \in Vals : MapLiteral(v, k, x, y) => Is(With(<< >>, k, x))
    BY <1>1, <1>2, <1>3, <1>4, <1>5, <1>6, <1>7
  <1>9. QED  BY <1>8 DEF MakesOf, Is, f

-----------------------------------------------------------------------------
(* Reads.                                                                  *)

LEMMA AtMostOne ==
  ASSUME NEW S, \A x, y \in S : x = y
  PROVE  IsFiniteSet(S) /\ Cardinality(S) <= 1
  <1>1. CASE S = {}
    BY <1>1, FS_EmptySet
  <1>2. CASE S # {}
    <2>1. PICK x \in S : S = {x}
      BY <1>2
    <2>2. IsFiniteSet({x}) /\ Cardinality({x}) = 1
      BY FS_Singleton
    <2>3. Cardinality(S) = 1 /\ IsFiniteSet(S)
      BY <2>1, <2>2
    <2>4. QED  BY <2>3
  <1>3. QED  BY <1>1, <1>2

LEMMA CountedOnce ==
  ASSUME NEW t \in Tables, Unique(t), NEW k \in Keys \ {NaN}
  PROVE  Count(KeysOf(t), k) <= 1
  <1> DEFINE S == {i \in DOMAIN KeysOf(t) : KeysOf(t)[i] = k}
  <1>1. \A i, j \in S : i = j
    BY KeysAre, TableIs DEF Unique
  <1>2. QED  BY <1>1, AtMostOne DEF Count

LEMMA LookUpIs ==
  ASSUME NEW t \in Tables, NEW f, Stands(t, f), NEW k \in Keys, NEW old
  PROVE  LookUp(t, k, old) = [ok |-> k \in DOMAIN f, val |-> IF k \in DOMAIN f THEN f[k] ELSE old]
  <1> DEFINE i == CHOOSE i \in Find(t, k) : TRUE
  <1>1. Find(t, k) # {} <=> k \in DOMAIN f
    BY DEF Find, Stands
  <1>2. Find(t, k) # {} => i \in Find(t, k)
    OBVIOUS
  <1>3. LookUp(t, k, old) = [ok |-> Find(t, k) # {}, val |-> IF Find(t, k) = {} THEN old ELSE t[i].val]
    BY DEF LookUp
  <1> HIDE DEF i
  <1>4. Find(t, k) # {} => t[i].val = f[k]
    BY <1>2 DEF Find, Stands
  <1>5. QED  BY <1>1, <1>3, <1>4

LEMMA UpToIs ==
  ASSUME NEW n \in Nat PROVE IsFiniteSet(1 .. n) /\ Cardinality(1 .. n) = n
  <1>1. /\ IsFiniteSet(1 .. n)
        /\ Cardinality(1 .. n) = IF 1 > n THEN 0 ELSE n - 1 + 1
    BY FS_Interval
  <1>2. QED  BY <1>1

\* Keys of s without NaN, all of them in t: there are no more than in t, and
\* if there are as many, they are all of those in t.
Covers(t, s) == \A i \in DOMAIN s : s[i].key # NaN /\ \E j \in DOMAIN t : t[j].key = s[i].key

LEMMA NoMoreKeys ==
  ASSUME NEW s \in Tables, NEW t \in Tables, Unique(s), Covers(t, s)
  PROVE  /\ Len(s) <= Len(t)
         /\ Len(s) = Len(t) => \A j \in DOMAIN t : \E i \in DOMAIN s : s[i].key = t[j].key
  <1> DEFINE at == [i \in 1 .. Len(s) |-> CHOOSE j \in 1 .. Len(t) : t[j].key = s[i].key]
  <1>1. /\ Len(s) \in Nat /\ Len(t) \in Nat /\ DOMAIN s = 1 .. Len(s) /\ DOMAIN t = 1 .. Len(t)
    BY TableIs
  <1>2. ASSUME NEW i \in 1 .. Len(s) PROVE at[i] \in 1 .. Len(t) /\ t[at[i]].key = s[i].key
    BY <1>1 DEF Covers
  <1>3. DOMAIN at = 1 .. Len(s) /\ at = [i \in 1 .. Len(s) |-> at[i]]
    OBVIOUS
  <1> HIDE DEF at
  <1>4. at \in [1 .. Len(s) -> 1 .. Len(t)]
    BY <1>2, <1>3
  <1>5. at \in Injection(1 .. Len(s), 1 .. Len(t))
    <2>1. \A i \in 1 .. Len(s) : s[i].key # NaN /\ t[at[i]].key = s[i].key
      BY <1>1, <1>2 DEF Covers
    <2>2. \A i, j \in 1 .. Len(s) : at[i] = at[j] => i = j
      BY <1>1, <2>1 DEF Unique
    <2>3. QED  BY <1>4, <2>2 DEF Injection, IsInjective
  <1>6. /\ IsFiniteSet(1 .. Len(s)) /\ Cardinality(1 .. Len(s)) = Len(s)
        /\ IsFiniteSet(1 .. Len(t)) /\ Cardinality(1 .. Len(t)) = Len(t)
    BY <1>1, UpToIs
  <1>7. Len(s) <= Len(t) /\ (Len(s) = Len(t) => at \in Surjection(1 .. Len(s), 1 .. Len(t)))
    BY <1>5, <1>6, FS_Injection
  <1>8. ASSUME Len(s) = Len(t), NEW j \in DOMAIN t PROVE \E i \in DOMAIN s : s[i].key = t[j].key
    <2>1. PICK i \in 1 .. Len(s) : at[i] = j
      BY <1>1, <1>7, <1>8 DEF Surjection
    <2>2. QED  BY <1>1, <1>2, <2>1
  <1>9. QED  BY <1>7, <1>8

NoNaN(t) == \A i \in DOMAIN t : t[i].key # NaN

LEMMA NoNaNIs ==
  ASSUME NEW s \in Tables, NEW t \in Tables
  PROVE  NaN \notin Range(KeysOf(s) \o KeysOf(t)) <=> NoNaN(s) /\ NoNaN(t)
  <1> DEFINE a == KeysOf(s)
             b == KeysOf(t)
             c == a \o b
  <1>1. /\ Len(s) \in Nat /\ Len(t) \in Nat /\ DOMAIN s = 1 .. Len(s) /\ DOMAIN t = 1 .. Len(t)
    BY TableIs
  <1>2. /\ a \in Seq(Keys) /\ Len(a) = Len(s) /\ \A i \in 1 .. Len(s) : a[i] = s[i].key
        /\ b \in Seq(Keys) /\ Len(b) = Len(t) /\ \A i \in 1 .. Len(t) : b[i] = t[i].key
    BY KeysAre
  <1> HIDE DEF a, b
  <1>3. /\ DOMAIN c = 1 .. Len(s) + Len(t)
        /\ \A i \in 1 .. Len(s) + Len(t) : c[i] = IF i <= Len(s) THEN a[i] ELSE b[i - Len(s)]
    BY <1>2, ConcatProperties, LenProperties
  <1> HIDE DEF c
  <1>4. ASSUME NEW i \in DOMAIN s PROVE s[i].key \in Range(c)
    <2>1. i \in 1 .. Len(s) + Len(t) /\ i <= Len(s)
      BY <1>1
    <2>2. c[i] = s[i].key
      BY <1>1, <1>2, <1>3, <2>1
    <2>3. QED  BY <1>3, <2>1, <2>2 DEF Range
  <1>5. ASSUME NEW i \in DOMAIN t PROVE t[i].key \in Range(c)
    <2>1. Len(s) + i \in 1 .. Len(s) + Len(t) /\ ~(Len(s) + i <= Len(s)) /\ Len(s) + i - Len(s) = i
      BY <1>1
    <2>2. c[Len(s) + i] = t[i].key
      BY <1>1, <1>2, <1>3, <2>1
    <2>3. QED  BY <1>3, <2>1, <2>2 DEF Range
  <1>6. ASSUME NEW i \in DOMAIN c
        PROVE  \/ \E j \in DOMAIN s : c[i] = s[j].key
               \/ \E j \in DOMAIN t : c[i] = t[j].key
    <2>1. CASE i <= Len(s)
      BY <1>1, <1>2, <1>3, <1>6, <2>1
    <2>2. CASE ~(i <= Len(s))
      <3>1. i - Len(s) \in 1 .. Len(t) /\ i \in 1 .. Len(s) + Len(t)
        BY <1>1, <1>3, <1>6, <2>2
      <3>2. c[i] = t[i - Len(s)].key
        BY <1>2, <1>3, <2>2, <3>1
      <3>3. QED  BY <1>1, <3>1, <3>2
    <2>3. QED  BY <2>1, <2>2
  <1>7. NaN \notin Range(c) => NoNaN(s) /\ NoNaN(t)
    BY <1>4, <1>5 DEF NoNaN
  <1>8. NoNaN(s) /\ NoNaN(t) => NaN \notin Range(c)
    BY <1>6 DEF NoNaN, Range
  <1>9. QED  BY <1>7, <1>8 DEF a, b, c

\* maps::Equal compares the functions.
LEMMA EqualIs ==
  ASSUME NEW s \in Tables, NEW t \in Tables, Unique(s), Unique(t)
  PROVE  Equal(s, t) <=> Content(s) = Content(t) /\ NaN \notin Range(KeysOf(s) \o KeysOf(t))
  <1>1. Stands(s, Content(s)) /\ Stands(t, Content(t))
    BY ContentStands
  <1>2. ASSUME Equal(s, t) PROVE Content(s) = Content(t) /\ NoNaN(s) /\ NoNaN(t)
    <2> DEFINE f == Content(s)
    <2>1. /\ Len(s) = Len(t)
          /\ \A i \in DOMAIN s : \E j \in DOMAIN t :
                t[j].key = s[i].key /\ s[i].key # NaN /\ t[j].val = s[i].val
      BY <1>2 DEF Equal, Find
    <2>2. Covers(t, s)
      BY <2>1 DEF Covers
    <2>3. \A j \in DOMAIN t : \E i \in DOMAIN s : s[i].key = t[j].key
      BY <2>1, <2>2, NoMoreKeys
    <2>4. NoNaN(s) /\ NoNaN(t)
      BY <2>2, <2>3 DEF Covers, NoNaN
    <2>5. Stands(s, f)
      BY <1>1
    <2> HIDE DEF f
    <2>6. \A k : k \in DOMAIN f <=> k # NaN /\ \E j \in DOMAIN t : t[j].key = k
      <3>1. \A k : (\E i \in DOMAIN s : s[i].key = k) <=> \E j \in DOMAIN t : t[j].key = k
        BY <2>1, <2>3
      <3>2. QED  BY <2>5, <3>1 DEF Stands
    <2>7. ASSUME NEW j \in DOMAIN t PROVE f[t[j].key] = t[j].val
      <3>1. PICK i \in DOMAIN s : s[i].key = t[j].key
        BY <2>3
      <3>2. PICK l \in DOMAIN t : t[l].key = s[i].key /\ s[i].key # NaN /\ t[l].val = s[i].val
        BY <2>1
      <3>3. l = j
        BY <3>1, <3>2 DEF Unique
      <3>4. QED  BY <2>5, <3>1, <3>2, <3>3 DEF Stands
    <2>8. Stands(t, f)
      BY <2>5, <2>6, <2>7 DEF Stands
    <2>9. f = Content(t)
      BY <1>1, <2>8, StandsOnce
    <2>10. QED  BY <2>4, <2>9 DEF f
  <1>3. ASSUME Content(s) = Content(t), NoNaN(s), NoNaN(t) PROVE Equal(s, t)
    <2> DEFINE f == Content(s)
    <2>1. Stands(s, f) /\ Stands(t, f)
      BY <1>1, <1>3
    <2> HIDE DEF f
    <2>2. Covers(t, s) /\ Covers(s, t)
      BY <1>3, <2>1 DEF Covers, Stands, NoNaN
    <2>3. Len(s) = Len(t)
      <3>1. Len(s) <= Len(t) /\ Len(t) <= Len(s) /\ Len(s) \in Nat /\ Len(t) \in Nat
        BY <2>2, NoMoreKeys, TableIs
      <3>2. QED  BY <3>1
    <2>4. ASSUME NEW i \in DOMAIN s PROVE \E j \in Find(t, s[i].key) : t[j].val = s[i].val
      <3>1. PICK j \in DOMAIN t : t[j].key = s[i].key
        BY <2>2 DEF Covers
      <3>2. t[j].val = s[i].val /\ s[i].key # NaN
        BY <1>3, <2>1, <3>1 DEF Stands, NoNaN
      <3>3. QED  BY <3>1, <3>2 DEF Find
    <2>5. QED  BY <2>3, <2>4 DEF Equal
  <1>4. QED  BY <1>2, <1>3, NoNaNIs


-----------------------------------------------------------------------------
(* Loops.                                                                  *)

\* The loop before its iterator goes on from place a.
Ready(l, w, a) ==
    /\ l.seen \in [Keys -> Nat] /\ l.start \in [Keys -> Nat]
    /\ \A k \in Keys : /\ l.seen[k] <= l.start[k]
                       /\ Cardinality(Passed(w, a, k)) <= l.seen[k]
                       /\ l.seen[k] + Cardinality(Ahead(w, a, k)) <= l.start[k]

LEMMA KeysFinite ==
  ASSUME NEW w \in Seq(Keys), NEW i, NEW k
  PROVE  /\ IsFiniteSet(Passed(w, i, k)) /\ Cardinality(Passed(w, i, k)) \in Nat
         /\ IsFiniteSet(Ahead(w, i, k)) /\ Cardinality(Ahead(w, i, k)) \in Nat
  <1>1. Len(w) \in Nat /\ DOMAIN w = 1 .. Len(w)
    BY LenProperties
  <1>2. IsFiniteSet(1 .. Len(w))
    BY <1>1, UpToIs
  <1>3. Passed(w, i, k) \subseteq 1 .. Len(w) /\ Ahead(w, i, k) \subseteq 1 .. Len(w)
    BY <1>1 DEF Passed, Ahead
  <1>4. IsFiniteSet(Passed(w, i, k)) /\ IsFiniteSet(Ahead(w, i, k))
    BY <1>2, <1>3, FS_Subset
  <1>5. QED  BY <1>4, FS_CardinalityType

\* One more place passed, one less ahead.
LEMMA PassedOne ==
  ASSUME NEW w \in Seq(Keys), NEW i \in 1 .. Len(w), NEW k \in Keys
  PROVE  /\ Cardinality(Passed(w, i, k)) = Cardinality(Passed(w, i - 1, k)) + (IF w[i] = k THEN 1 ELSE 0)
         /\ Cardinality(Ahead(w, i - 1, k)) = Cardinality(Ahead(w, i, k)) + (IF w[i] = k THEN 1 ELSE 0)
  <1> DEFINE p == Passed(w, i - 1, k)
             a == Ahead(w, i, k)
  <1>1. Len(w) \in Nat /\ DOMAIN w = 1 .. Len(w) /\ i \in Int
    BY LenProperties
  <1>2. IsFiniteSet(p) /\ Cardinality(p) \in Nat /\ IsFiniteSet(a) /\ Cardinality(a) \in Nat
    BY KeysFinite
  <1>3. i \notin p /\ i \notin a
    BY <1>1 DEF Passed, Ahead
  <1>4. \A j \in 1 .. Len(w) : /\ j <= i <=> j <= i - 1 \/ j = i
                               /\ j > i - 1 <=> j > i \/ j = i
    BY <1>1
  <1>5. CASE w[i] = k
    <2>1. Passed(w, i, k) = p \union {i} /\ Ahead(w, i - 1, k) = a \union {i}
      BY <1>1, <1>4, <1>5 DEF Passed, Ahead
    <2> HIDE DEF p, a
    <2>2. Cardinality(p \union {i}) = Cardinality(p) + 1 /\ Cardinality(a \union {i}) = Cardinality(a) + 1
      BY <1>2, <1>3, FS_AddElement
    <2>3. QED  BY <1>5, <2>1, <2>2 DEF p, a
  <1>6. CASE w[i] # k
    <2>1. Passed(w, i, k) = p /\ Ahead(w, i - 1, k) = a
      BY <1>1, <1>4, <1>6 DEF Passed, Ahead
    <2> HIDE DEF p, a
    <2>2. QED  BY <1>2, <1>6, <2>1 DEF p, a
  <1>7. QED  BY <1>5, <1>6

\* Visiting the entry at place i.
Visited(l, w, i, m) == m.seen = [l.seen EXCEPT ![w[i]] = @ + 1] /\ m.start = l.start

LEMMA VisitsOne ==
  ASSUME NEW w \in Seq(Keys), NEW i \in 1 .. Len(w), NEW l, Ready(l, w, i - 1),
         NEW m, Visited(l, w, i, m)
  PROVE  Ready(m, w, i)
  <1>1. w[i] \in Keys
    BY ElementOfSeq
  <1>2. m.seen \in [Keys -> Nat] /\ m.start \in [Keys -> Nat] /\ l.seen \in [Keys -> Nat]
    BY <1>1 DEF Ready, Visited
  <1>3. ASSUME NEW k \in Keys
        PROVE  /\ m.seen[k] <= m.start[k]
               /\ Cardinality(Passed(w, i, k)) <= m.seen[k]
               /\ m.seen[k] + Cardinality(Ahead(w, i, k)) <= m.start[k]
    <2> DEFINE d == IF w[i] = k THEN 1 ELSE 0
    <2>1. /\ Cardinality(Passed(w, i, k)) = Cardinality(Passed(w, i - 1, k)) + d
          /\ Cardinality(Ahead(w, i - 1, k)) = Cardinality(Ahead(w, i, k)) + d
      BY PassedOne
    <2>2. m.seen[k] = l.seen[k] + d /\ m.start[k] = l.start[k]
      <3>1. m.seen = [l.seen EXCEPT ![w[i]] = @ + 1] /\ m.start = l.start
        BY DEF Visited
      <3>2. l.seen[k] \in Nat
        BY <1>2
      <3>3. QED  BY <1>1, <1>2, <3>1, <3>2
    <2>3. d \in Nat
      OBVIOUS
    <2> HIDE DEF d
    <2>4. /\ Cardinality(Passed(w, i - 1, k)) \in Nat /\ Cardinality(Ahead(w, i, k)) \in Nat
          /\ l.seen[k] \in Nat /\ l.start[k] \in Nat
      BY KeysFinite DEF Ready
    <2>5. /\ l.seen[k] <= l.start[k]
          /\ Cardinality(Passed(w, i - 1, k)) <= l.seen[k]
          /\ l.seen[k] + Cardinality(Ahead(w, i - 1, k)) <= l.start[k]
      BY DEF Ready
    <2> DEFINE p == Cardinality(Passed(w, i - 1, k))
               a == Cardinality(Ahead(w, i, k))
               old == l.seen[k]
               new == m.seen[k]
               all == l.start[k]
    <2>6. /\ p \in Nat /\ a \in Nat /\ old \in Nat /\ all \in Nat /\ new = old + d /\ m.start[k] = all
          /\ p <= old /\ old + (a + d) <= all
      BY <2>1, <2>2, <2>4, <2>5
    <2> HIDE DEF p, a, old, new, all
    <2>7. new <= all /\ p + d <= new /\ new + a <= all
      BY <2>3, <2>6
    <2>8. QED  BY <2>1, <2>6, <2>7 DEF p, a, new
  <1>4. QED  BY <1>2, <1>3 DEF Ready

\* A loop from place a that visits the next entry or ends.
LEMMA VisitIs ==
  ASSUME NEW w \in Seq(Keys), NEW a \in 0 .. Len(w), NEW l \in Loops,
         ~l.added => Ready(l, w, a), ~l.live => ~l.added /\ l.start = Counts(w)
  PROVE  LoopIs(Visit(l, w, a + 1), w)
  <1> DEFINE m == Visit(l, w, a + 1)
  <1>1. Len(w) \in Nat /\ DOMAIN w = 1 .. Len(w) /\ a \in Int /\ a + 1 \in Int
    BY LenProperties
  <1>2. CASE a + 1 \notin 1 .. Len(w)
    <2>1. m = [l EXCEPT !.at = 0] /\ a = Len(w)
      BY <1>1, <1>2 DEF Visit
    <2>2. /\ m \in Loops /\ m.at = 0 /\ m.added = l.added /\ m.live = l.live
          /\ m.seen = l.seen /\ m.start = l.start
      BY <2>1 DEF Loops
    <2> HIDE DEF m
    <2>3. \A k \in Keys : Passed(w, Len(w), k) = {j \in DOMAIN w : w[j] = k}
      BY <1>1 DEF Passed
    <2>4. ASSUME ~m.added PROVE Tallied(m, w)
      <3>1. Ready(l, w, Len(w))
        BY <2>1, <2>2, <2>4
      <3>2. \A k \in Keys : l.seen[k] <= l.start[k] /\ Cardinality(Passed(w, Len(w), k)) <= l.seen[k]
        BY <3>1 DEF Ready
      <3>3. \A k \in Keys : Count(w, k) <= l.seen[k]
        BY <2>3, <3>2 DEF Count
      <3>4. QED  BY <2>2, <3>1, <3>2, <3>3 DEF Tallied, Ready
    <2>5. QED  BY <1>1, <2>2, <2>4 DEF LoopIs, m
  <1>3. CASE a + 1 \in 1 .. Len(w) /\ l.added
    <2>1. m = [l EXCEPT !.at = a + 1]
      BY <1>1, <1>3 DEF Visit
    <2>2. m \in Loops /\ m.at = a + 1 /\ m.added /\ m.live
      BY <1>1, <1>3, <2>1 DEF Loops
    <2> HIDE DEF m
    <2>3. QED  BY <1>1, <1>3, <2>2 DEF LoopIs, m
  <1>4. CASE a + 1 \in 1 .. Len(w) /\ ~l.added
    <2> DEFINE i == a + 1
               f == [l.seen EXCEPT ![w[i]] = @ + 1]
    <2>1. m = [l EXCEPT !.at = i, !.seen = f]
      BY <1>1, <1>4 DEF Visit
    <2>2. w[i] \in Keys /\ l.seen \in [Keys -> Nat]
      BY <1>4, ElementOfSeq DEF Ready
    <2>3. f \in [Keys -> Nat]
      BY <2>2
    <2>4. i \in 1 .. Len(w) /\ i - 1 = a
      BY <1>1, <1>4
    <2> HIDE DEF m, i
    <2>5. Visited(l, w, i, m)
      BY <2>1 DEF Loops, Visited
    <2> HIDE DEF f
    <2>6. m \in Loops /\ m.at = i /\ m.added = l.added /\ m.live = l.live /\ m.start = l.start
      <3>1. i \in Int
        BY <1>1, <2>4
      <3>2. f \in [Keys -> Nat] \union {<< >>}
        BY <2>3
      <3>3. m = [[l EXCEPT !.at = i] EXCEPT !.seen = f]
        BY <2>1
      <3>4. [l EXCEPT !.at = i] \in Loops
        BY <3>1 DEF Loops
      <3>5. m \in Loops
        BY <3>2, <3>3, <3>4 DEF Loops
      <3>6. m.at = i /\ m.added = l.added /\ m.live = l.live /\ m.start = l.start
        BY <2>1 DEF Loops
      <3>7. QED  BY <3>5, <3>6
    <2>7. Ready(l, w, i - 1)
      BY <1>4, <2>4
    <2>8. Ready(m, w, i)
      BY <2>4, <2>5, <2>7, VisitsOne
    <2>9. Tallied(m, w)
      BY <1>1, <2>4, <2>6, <2>8 DEF Tallied, Ready
    <2>10. QED  BY <1>1, <1>4, <2>4, <2>6, <2>9 DEF LoopIs, m
  <1>5. QED  BY <1>2, <1>3, <1>4

\* Keys of which the one at place i is gone.
Shifted(w, u, i) ==
    /\ w \in Seq(Keys) /\ u \in Seq(Keys) /\ i \in 1 .. Len(w) /\ Len(u) = Len(w) - 1
    /\ \A j \in 1 .. Len(w) - 1 : Shift(i, j) \in 1 .. Len(w) /\ u[j] = w[Shift(i, j)]

LEMMA ShiftsInto ==
  ASSUME NEW A, NEW B, IsFiniteSet(A), IsFiniteSet(B), NEW i \in Int, A \subseteq Int,
         \A j \in A : Shift(i, j) \in B
  PROVE  Cardinality(A) <= Cardinality(B)
  <1> DEFINE f == [j \in A |-> Shift(i, j)]
  <1>1. f \in [A -> B]
    OBVIOUS
  <1>2. \A x, y \in A : f[x] = f[y] => x = y
    BY DEF Shift
  <1> HIDE DEF f
  <1>3. f \in Injection(A, B)
    BY <1>1, <1>2 DEF Injection, IsInjective
  <1>4. QED  BY <1>3, FS_Injection

\* The iterator is at another entry than i: what it has passed, and what is
\* ahead of it, has not grown.
LEMMA ShiftedCounts ==
  ASSUME NEW w, NEW u, NEW i, Shifted(w, u, i), NEW k,
         NEW a \in Int, NEW b \in Int, (a < i /\ b = a) \/ (a > i /\ b = a - 1)
  PROVE  /\ Cardinality(Passed(u, b, k)) <= Cardinality(Passed(w, a, k))
         /\ Cardinality(Ahead(u, b, k)) <= Cardinality(Ahead(w, a, k))
  <1>1. /\ w \in Seq(Keys) /\ u \in Seq(Keys) /\ i \in 1 .. Len(w) /\ i \in Int
        /\ Len(w) \in Nat /\ DOMAIN w = 1 .. Len(w) /\ DOMAIN u = 1 .. Len(w) - 1
        /\ \A j \in 1 .. Len(w) - 1 : Shift(i, j) \in 1 .. Len(w) /\ u[j] = w[Shift(i, j)]
    BY LenProperties DEF Shifted
  <1>2. /\ IsFiniteSet(Passed(u, b, k)) /\ IsFiniteSet(Passed(w, a, k))
        /\ IsFiniteSet(Ahead(u, b, k)) /\ IsFiniteSet(Ahead(w, a, k))
    BY <1>1, KeysFinite
  <1>3. ASSUME NEW j \in 1 .. Len(w) - 1
        PROVE  (j <= b => Shift(i, j) <= a) /\ (j > b => Shift(i, j) > a)
    BY <1>1 DEF Shift
  <1>4. \A j \in Passed(u, b, k) : Shift(i, j) \in Passed(w, a, k)
    BY <1>1, <1>3 DEF Passed
  <1>5. \A j \in Ahead(u, b, k) : Shift(i, j) \in Ahead(w, a, k)
    BY <1>1, <1>3 DEF Ahead
  <1>6. Passed(u, b, k) \subseteq Int /\ Ahead(u, b, k) \subseteq Int
    BY <1>1 DEF Passed, Ahead
  <1>7. QED  BY <1>1, <1>2, <1>4, <1>5, <1>6, ShiftsInto

LEMMA AheadIsAll ==
  ASSUME NEW w \in Seq(Keys), NEW k
  PROVE  Count(w, k) = Cardinality(Ahead(w, 0, k)) /\ Passed(w, 0, k) = {}
  <1>1. Len(w) \in Nat /\ DOMAIN w = 1 .. Len(w)
    BY LenProperties
  <1>2. Ahead(w, 0, k) = {i \in DOMAIN w : w[i] = k} /\ Passed(w, 0, k) = {}
    BY <1>1 DEF Ahead, Passed
  <1>3. QED  BY <1>2 DEF Count

\* A loop over the map itself, of which entry i is freed.
LEMMA LoopErased ==
  ASSUME NEW w, NEW u, NEW i, Shifted(w, u, i), NEW l, LoopIs(l, w), l.live
  PROVE  LoopIs(IF l.at < i THEN l ELSE [l EXCEPT !.at = IF @ = i THEN -1 ELSE @ - 1], u)
  <1> DEFINE b == IF l.at < i THEN l.at ELSE IF l.at = i THEN -1 ELSE l.at - 1
             m == [l EXCEPT !.at = b]
  <1>1. /\ l \in Loops /\ l.at \in Int /\ l.at \in -1 .. Len(w) /\ i \in 1 .. Len(w) /\ i \in Int
        /\ Len(w) \in Nat /\ Len(u) = Len(w) - 1 /\ w \in Seq(Keys) /\ u \in Seq(Keys)
    BY LenProperties DEF LoopIs, Shifted, Loops
  <1>2. (IF l.at < i THEN l ELSE [l EXCEPT !.at = IF @ = i THEN -1 ELSE @ - 1]) = m
    BY <1>1 DEF Loops
  <1>3. b \in -1 .. Len(u) /\ b \in Int
    BY <1>1
  <1>4. m \in Loops
    <2> HIDE DEF b
    <2>1. QED  BY <1>1, <1>3 DEF Loops
  <1>5. m.at = b /\ m.added = l.added /\ m.live = l.live /\ m.seen = l.seen /\ m.start = l.start
    BY <1>1 DEF Loops
  <1>6. ASSUME ~l.added PROVE Tallied(m, u)
    <2>1. Tallied(l, w)
      BY <1>6 DEF LoopIs
    <2>2. l.seen \in [Keys -> Nat] /\ l.start \in [Keys -> Nat]
      BY <2>1 DEF Tallied
    <2>3. b >= 0 => l.at # i /\ l.at >= 0 /\ (b > 0 => l.at > 0)
                    /\ ((l.at < i /\ b = l.at) \/ (l.at > i /\ b = l.at - 1))
      BY <1>1
    <2>4. b = 0 => l.at = 0
      BY <1>1
    <2> HIDE DEF b, m
    <2>5. ASSUME NEW k \in Keys, b > 0
          PROVE  /\ Cardinality(Passed(u, b, k)) <= l.seen[k]
                 /\ l.seen[k] + Cardinality(Ahead(u, b, k)) <= l.start[k]
      <3>1. /\ Cardinality(Passed(w, l.at, k)) <= l.seen[k]
            /\ l.seen[k] + Cardinality(Ahead(w, l.at, k)) <= l.start[k]
        BY <1>3, <2>1, <2>3, <2>5 DEF Tallied
      <3>2. /\ Cardinality(Passed(u, b, k)) <= Cardinality(Passed(w, l.at, k))
            /\ Cardinality(Ahead(u, b, k)) <= Cardinality(Ahead(w, l.at, k))
        BY <1>1, <1>3, <2>3, <2>5, ShiftedCounts
      <3>3. /\ Cardinality(Passed(u, b, k)) \in Nat /\ Cardinality(Passed(w, l.at, k)) \in Nat
            /\ Cardinality(Ahead(u, b, k)) \in Nat /\ Cardinality(Ahead(w, l.at, k)) \in Nat
        BY <1>1, KeysFinite
      <3>4. l.seen[k] \in Nat /\ l.start[k] \in Nat
        BY <2>2
      <3>5. QED  BY <3>1, <3>2, <3>3, <3>4
    <2>6. ASSUME NEW k \in Keys, b = 0 PROVE Count(u, k) <= l.seen[k]
      <3>1. l.at = 0 /\ Count(w, k) <= l.seen[k]
        BY <2>1, <2>4, <2>6 DEF Tallied
      <3>2. Cardinality(Ahead(u, 0, k)) <= Cardinality(Ahead(w, 0, k))
        BY <1>1, ShiftedCounts
      <3>3. /\ Count(u, k) = Cardinality(Ahead(u, 0, k)) /\ Count(w, k) = Cardinality(Ahead(w, 0, k))
            /\ Cardinality(Ahead(u, 0, k)) \in Nat /\ Cardinality(Ahead(w, 0, k)) \in Nat
        BY <1>1, AheadIsAll, KeysFinite
      <3>4. l.seen[k] \in Nat
        BY <2>2
      <3>5. QED  BY <3>1, <3>2, <3>3, <3>4
    <2>7. \A k \in Keys : l.seen[k] <= l.start[k]
      BY <2>1 DEF Tallied
    <2>8. QED  BY <1>5, <2>2, <2>5, <2>6, <2>7 DEF Tallied
  <1> HIDE DEF b, m
  <1>7. LoopIs(m, u)
    BY <1>3, <1>4, <1>5, <1>6 DEF LoopIs
  <1>8. QED  BY <1>2, <1>7

-----------------------------------------------------------------------------
(* What each operation does to the loop.                                   *)

WalkedBy(l, m) == IF l.live THEN KeysOf(m[l.over]) ELSE l.walk

LEMMA WalkedIs ==
  /\ Walked = WalkedBy(loop, map)
  /\ TablesOK => \A l \in Loops : WalkedBy(l, map) \in Seq(Keys)
  <1>1. Walked = WalkedBy(loop, map)
    BY DEF Walked, WalkedBy
  <1>2. ASSUME TablesOK, NEW l \in Loops PROVE WalkedBy(l, map) \in Seq(Keys)
    <2>1. l.over \in MapVars /\ l.walk \in Seq(Keys)
      BY DEF Loops
    <2>2. KeysOf(map[l.over]) \in Seq(Keys)
      BY <1>2, <2>1, TablesAre, KeysAre
    <2>3. QED  BY <2>1, <2>2 DEF WalkedBy
  <1>3. QED  BY <1>1, <1>2

\* The iterator is moved.
PutAt(l, m, b) == m = [l EXCEPT !.at = b]

LEMMA PutAtIs ==
  ASSUME NEW l \in Loops, NEW b \in Int, NEW m, PutAt(l, m, b)
  PROVE  /\ m \in Loops /\ m.at = b /\ m.added = l.added /\ m.live = l.live /\ m.over = l.over
         /\ m.seen = l.seen /\ m.start = l.start
  BY DEF PutAt, Loops

\* Nothing is counted of a loop from now on.
NotCounted(l, m, b) == m = [l EXCEPT !.added = TRUE, !.seen = <<>>, !.start = <<>>, !.at = b]

LEMMA NotCountedIs ==
  ASSUME NEW l \in Loops, NEW b \in Int, NEW m, NotCounted(l, m, b)
  PROVE  m \in Loops /\ m.at = b /\ m.added /\ m.live = l.live /\ m.over = l.over
  <1> DEFINE m1 == [l EXCEPT !.added = TRUE]
             m2 == [m1 EXCEPT !.seen = <<>>]
             m3 == [m2 EXCEPT !.start = <<>>]
  <1>1. m = [m3 EXCEPT !.at = b]
    BY DEF NotCounted
  <1>2. m.at = b /\ m.added /\ m.live = l.live /\ m.over = l.over
    BY <1>1 DEF Loops
  <1>3. m1 \in Loops
    BY DEF Loops
  <1> HIDE DEF m1
  <1>4. m2 \in Loops
    BY <1>3 DEF Loops
  <1> HIDE DEF m2
  <1>5. m3 \in Loops
    BY <1>4 DEF Loops
  <1> HIDE DEF m3
  <1>6. m \in Loops
    BY <1>1, <1>5 DEF Loops
  <1>7. QED  BY <1>2, <1>6

\* The map that is walked has the same keys, if it is one.
LEMMA NotWalked ==
  ASSUME MapsInv, NEW v \in MapVars, NEW u, Changed(v, u), UNCHANGED loop,
         ~Walks(v) \/ KeysOf(u) = KeysOf(map[v])
  PROVE  LoopOK'
  <1>1. CASE loop = NoLoop
    BY <1>1 DEF LoopOK
  <1>2. CASE LoopIs(loop, Walked)
    <2>1. loop \in Loops
      BY <1>2 DEF LoopIs
    <2>2. map'[v] = u /\ \A w \in MapVars \ {v} : map'[w] = map[w]
      BY ChangedKeeps DEF MapsInv
    <2>3. loop.live => KeysOf(map'[loop.over]) = KeysOf(map[loop.over])
      BY <2>1, <2>2 DEF Walks, Loops
    <2>4. Walked' = Walked
      BY <2>3 DEF Walked
    <2>5. LoopIs(loop', Walked')
      BY <1>2, <2>4
    <2>6. QED  BY <2>5 DEF LoopOK
  <1>3. QED  BY <1>1, <1>2 DEF MapsInv, LoopOK

\* What the loop walks, if that is v.
LEMMA WalksIs ==
  ASSUME MapsInv, NEW v \in MapVars, Walks(v)
  PROVE  /\ LoopIs(loop, KeysOf(map[v])) /\ loop \in Loops /\ loop.live /\ loop.over = v
         /\ KeysOf(map[v]) \in Seq(Keys) /\ Len(KeysOf(map[v])) = Len(map[v])
  <1>1. loop.live /\ loop.over = v
    BY DEF Walks
  <1>2. loop # NoLoop
    BY <1>1 DEF NoLoop
  <1>3. LoopIs(loop, Walked)
    BY <1>2 DEF MapsInv, LoopOK
  <1>4. Walked = KeysOf(map[v])
    BY <1>1 DEF Walked
  <1>5. QED  BY <1>1, <1>3, <1>4, TablesAre, KeysAre DEF MapsInv, LoopIs

LEMMA WalkedAfter ==
  ASSUME MapsInv, NEW v \in MapVars, Walks(v), NEW u, Changed(v, u),
         loop'.live = loop.live, loop'.over = loop.over, LoopIs(loop', KeysOf(u))
  PROVE  LoopOK'
  <1>1. map'[v] = u
    BY ChangedKeeps DEF MapsInv
  <1>2. Walked' = KeysOf(u)
    BY <1>1, WalksIs DEF Walked
  <1>3. LoopIs(loop', Walked')
    BY <1>2
  <1>4. QED  BY <1>3 DEF LoopOK

\* A table that is replaced, or cleared.
LEMMA ReplaceLoop ==
  ASSUME MapsInv, NEW v \in MapVars, NEW u, Changed(v, u), Replace(v, u)
  PROVE  LoopOK'
  <1>1. CASE ~Walks(v)
    BY <1>1, NotWalked DEF Replace
  <1>2. CASE Walks(v)
    <2>1. loop' = [loop EXCEPT !.at = -1, !.added = TRUE, !.seen = <<>>, !.start = <<>>]
      BY <1>2 DEF Replace
    <2>2. loop \in Loops /\ loop.live
      BY <1>2, WalksIs
    <2>3. /\ loop' \in Loops /\ loop'.at = -1 /\ loop'.added
          /\ loop'.live = loop.live /\ loop'.over = loop.over
      <3>1. NotCounted(loop, loop', -1)
        BY <2>1, <2>2 DEF Loops, NotCounted
      <3>2. -1 \in Int
        OBVIOUS
      <3>3. QED  BY <2>2, <3>1, <3>2, NotCountedIs
    <2>4. Len(KeysOf(u)) \in Nat
      BY KeysAre, TableIs DEF Changed
    <2>5. LoopIs(loop', KeysOf(u))
      BY <2>2, <2>3, <2>4 DEF LoopIs
    <2>6. QED  BY <1>2, <2>3, <2>5, WalkedAfter
  <1>3. QED  BY <1>1, <1>2

LEMMA ClearLoop ==
  ASSUME MapsInv, NEW v \in MapVars, Clear(v)
  PROVE  LoopOK'
  <1>0. Changed(v, << >>)
    BY ClearIs DEF MapsInv
  <1>1. CASE ~Walks(v)
    BY <1>0, <1>1, NotWalked DEF Clear
  <1>2. CASE Walks(v)
    <2>1. loop' = [loop EXCEPT !.at = -1]
      BY <1>2 DEF Clear
    <2>2. loop \in Loops /\ loop.live /\ LoopIs(loop, KeysOf(map[v]))
      BY <1>2, WalksIs
    <2>3. /\ loop' \in Loops /\ loop'.at = -1 /\ loop'.added = loop.added
          /\ loop'.seen = loop.seen /\ loop'.start = loop.start
          /\ loop'.live = loop.live /\ loop'.over = loop.over
      <3>1. PutAt(loop, loop', -1)
        BY <2>1 DEF PutAt
      <3>2. -1 \in Int /\ loop \in Loops
        BY <2>2
      <3>3. QED  BY <3>1, <3>2, PutAtIs
    <2>4. Len(KeysOf(<< >>)) \in Nat
      BY EmptyStands, KeysAre, TableIs
    <2>5. ~loop.added => Tallied(loop', KeysOf(<< >>))
      BY <2>2, <2>3 DEF LoopIs, Tallied
    <2>6. LoopIs(loop', KeysOf(<< >>))
      BY <2>2, <2>3, <2>4, <2>5 DEF LoopIs
    <2>7. QED  BY <1>0, <1>2, <2>3, <2>6, WalkedAfter
  <1>3. QED  BY <1>1, <1>2

LEMMA InsertLoop ==
  ASSUME MapsInv, NEW v \in MapVars, NEW k \in Keys, NEW x \in Vals,
         Find(map[v], k) = {}, Insert(v, k, x)
  PROVE  LoopOK'
  <1> DEFINE a == Append(map[v], Entry(k, x))
             n == Len(a)
             u == map'[v]
  <1>1. Changed(v, u)
    BY InsertIs DEF MapIs, MapsInv
  <1>2. PICK p \in Orders(n) :
          /\ map' = [map EXCEPT ![v] = [i \in DOMAIN a |-> a[p[i]]]]
          /\ loop' = IF ~Walks(v) THEN loop
                     ELSE [loop EXCEPT !.added = TRUE, !.seen = <<>>, !.start = <<>>,
                             !.at = IF @ \in DOMAIN p THEN CHOOSE i \in DOMAIN p : p[i] = @ ELSE @]
    BY DEF Insert
  <1>3. CASE ~Walks(v)
    <2>1. UNCHANGED loop
      BY <1>2, <1>3
    <2> HIDE DEF u
    <2>2. QED  BY <1>1, <1>3, <2>1, NotWalked
  <1>4. CASE Walks(v)
    <2> DEFINE b == IF loop.at \in DOMAIN p THEN CHOOSE i \in DOMAIN p : p[i] = loop.at ELSE loop.at
    <2>1. loop' = [loop EXCEPT !.added = TRUE, !.seen = <<>>, !.start = <<>>, !.at = b]
      BY <1>2, <1>4
    <2>2. /\ loop \in Loops /\ loop.live /\ loop.at \in -1 .. Len(map[v])
      BY <1>4, WalksIs DEF LoopIs
    <2>3. map[v] \in Tables /\ a \in Tables /\ n = Len(map[v]) + 1 /\ Len(map[v]) \in Nat /\ n \in Nat
      BY TablesAre, TableIs, AppendedStands DEF MapsInv
    <2>4. p \in [1 .. n -> 1 .. n] /\ IsInjective(p) /\ DOMAIN p = 1 .. n
      BY DEF Orders
    <2>5. Len(KeysOf(u)) = n
      <3> DEFINE s == [i \in DOMAIN a |-> a[p[i]]]
      <3>1. s \in [1 .. n -> [key : Keys, val : Vals]]
        BY <2>3, <2>4, TableIs
      <3>2. Len(s) = n
        BY <2>3, <3>1, Sequence
      <3>3. u = s
        BY <1>2 DEF MapsInv, TablesOK
      <3> HIDE DEF s
      <3>4. Len(u) = n /\ u \in Tables
        BY <1>1, <3>2, <3>3 DEF Changed
      <3> HIDE DEF u, a, n
      <3>5. QED  BY <3>4, KeysAre
    <2> HIDE DEF a, n, u
    <2>6. b \in -1 .. n
      <3>1. CASE loop.at \in DOMAIN p
        <4>1. \E i \in DOMAIN p : p[i] = loop.at
          <5>1. loop.at \in 1 .. n
            BY <2>4, <3>1
          <5>2. \E i \in 1 .. n : p[i] = loop.at
            BY <2>3, <2>4, <5>1, OrderIsOnto
          <5>3. QED  BY <2>4, <5>2
        <4>2. b \in 1 .. n
          BY <2>4, <3>1, <4>1
        <4> HIDE DEF b
        <4>3. QED  BY <2>3, <4>2
      <3>2. CASE loop.at \notin DOMAIN p
        BY <2>2, <2>3, <3>2
      <3>3. QED  BY <3>1, <3>2
    <2> HIDE DEF b
    <2>7. /\ loop' \in Loops /\ loop'.at = b /\ loop'.added
          /\ loop'.live = loop.live /\ loop'.over = loop.over
      <3>1. b \in Int
        BY <2>3, <2>6
      <3>2. NotCounted(loop, loop', b)
        BY <2>1 DEF NotCounted
      <3>3. QED  BY <2>2, <3>1, <3>2, NotCountedIs
    <2>8. LoopIs(loop', KeysOf(u))
      BY <2>2, <2>5, <2>6, <2>7 DEF LoopIs
    <2>9. QED  BY <1>1, <1>4, <2>7, <2>8, WalkedAfter
  <1>5. QED  BY <1>3, <1>4

LEMMA EraseLoop ==
  ASSUME MapsInv, NEW v \in MapVars, NEW k \in Keys, NEW i \in Find(map[v], k), Erase(v, i)
  PROVE  LoopOK'
  <1> DEFINE t == map[v]
             u == RemoveAt(t, i)
  <1>1. Changed(v, u) /\ Removed(t, u, i)
    BY EraseIs DEF MapsInv
  <1>2. t \in Tables /\ i \in 1 .. Len(t)
    BY TablesAre, TableIs DEF Find, MapsInv
  <1>3. loop' = IF ~Walks(v) \/ loop.at < i THEN loop
                ELSE [loop EXCEPT !.at = IF @ = i THEN -1 ELSE @ - 1]
    BY DEF Erase
  <1> HIDE DEF u
  <1>4. CASE ~Walks(v)
    BY <1>1, <1>3, <1>4, NotWalked
  <1>5. CASE Walks(v)
    <2>1. /\ LoopIs(loop, KeysOf(t)) /\ loop \in Loops /\ loop.live /\ loop.over = v
      BY <1>5, WalksIs
    <2>2. loop' = IF loop.at < i THEN loop ELSE [loop EXCEPT !.at = IF @ = i THEN -1 ELSE @ - 1]
      BY <1>3, <1>5
    <2> HIDE DEF t
    <2>3. Shifted(KeysOf(t), KeysOf(u), i)
      <3>1. /\ u \in Tables /\ Len(u) = Len(t) - 1 /\ Len(t) \in Nat
            /\ \A j \in 1 .. Len(t) - 1 : Shift(i, j) \in 1 .. Len(t) /\ u[j] = t[Shift(i, j)]
        BY <1>1, <1>2, TableIs DEF Removed
      <3>2. /\ KeysOf(t) \in Seq(Keys) /\ Len(KeysOf(t)) = Len(t)
            /\ \A j \in 1 .. Len(t) : KeysOf(t)[j] = t[j].key
        BY <1>2, KeysAre
      <3>3. /\ KeysOf(u) \in Seq(Keys) /\ Len(KeysOf(u)) = Len(t) - 1
            /\ \A j \in 1 .. Len(t) - 1 : KeysOf(u)[j] = u[j].key
        BY <3>1, KeysAre
      <3>4. QED  BY <1>2, <3>1, <3>2, <3>3 DEF Shifted
    <2>4. LoopIs(loop', KeysOf(u))
      BY <2>1, <2>2, <2>3, LoopErased
    <2>5. loop'.live = loop.live /\ loop'.over = loop.over
      BY <2>1, <2>2 DEF Loops
    <2>6. QED  BY <1>1, <1>5, <2>4, <2>5, WalkedAfter
  <1>6. QED  BY <1>4, <1>5

LEMMA SetLoop ==
  ASSUME MapsInv, NEW v \in MapVars, NEW k \in Keys, NEW x \in Vals, Set(v, k, x)
  PROVE  LoopOK'
  <1>1. CASE Find(map[v], k) = {} /\ Insert(v, k, x)
    BY <1>1, InsertLoop
  <1>2. CASE \E i \in Find(map[v], k) : map' = [map EXCEPT ![v][i].val = x] /\ UNCHANGED loop
    <2> DEFINE t == map[v]
    <2>1. PICK i \in Find(t, k) : map' = [map EXCEPT ![v] = [t EXCEPT ![i].val = x]] /\ UNCHANGED loop
      BY <1>2
    <2>2. t \in Tables /\ Unique(t) /\ Len(t) <= MaxSize[v]
      BY TablesAre DEF MapsInv
    <2>3. PICK u : u = [t EXCEPT ![i].val = x]
      OBVIOUS
    <2> HIDE DEF t
    <2>4. u \in Tables /\ Len(u) = Len(t) /\ Unique(u) /\ KeysOf(u) = KeysOf(t)
      <3>1. Revalued(t, u, i, x)
        BY <2>3 DEF Revalued
      <3>2. QED  BY <2>2, <3>1, ValueStands
    <2>5. Changed(v, u)
      BY <2>1, <2>2, <2>3, <2>4 DEF Changed
    <2>6. KeysOf(u) = KeysOf(map[v])
      BY <2>4 DEF t
    <2>7. QED  BY <2>1, <2>5, <2>6, NotWalked
  <1>3. QED  BY <1>1, <1>2 DEF Set

\* Visiting an entry leaves alone what is walked.
SameWalk(l, m) == m.over = l.over /\ m.live = l.live /\ m.walk = l.walk

LEMMA VisitKeeps ==
  ASSUME NEW l \in Loops, NEW w, NEW i
  PROVE  SameWalk(l, Visit(l, w, i))
  BY DEF SameWalk, Visit, Loops

LEMMA BeginLoop ==
  ASSUME MapsInv, NEW v \in MapVars, NEW live \in BOOLEAN, Begin(v, live)
  PROVE  LoopOK'
  <1> DEFINE w == KeysOf(map[v])
             l == Loop(v, live)
  <1>1. w \in Seq(Keys) /\ Len(w) \in Nat
    BY TablesAre, KeysAre, LenProperties DEF MapsInv
  <1>2. loop' = Visit(l, w, 1) /\ UNCHANGED map
    BY DEF Begin
  <1>3. l = [over |-> v, live |-> live, walk |-> IF live THEN <<>> ELSE w, at |-> 0,
             seen |-> [k \in Keys |-> 0], start |-> Counts(w), added |-> FALSE]
    BY DEF Loop
  <1>4. \A k \in Keys : Count(w, k) \in Nat /\ Counts(w)[k] = Count(w, k)
    BY <1>1, AheadIsAll, KeysFinite DEF Counts
  <1>5. Counts(w) \in [Keys -> Nat]
    BY <1>4 DEF Counts
  <1>6. \A k \in Keys : /\ Cardinality(Passed(w, 0, k)) = 0
                        /\ Cardinality(Ahead(w, 0, k)) = Count(w, k)
    BY <1>1, AheadIsAll, FS_EmptySet
  <1> HIDE DEF w, l
  <1>7. l \in Loops
    <2>1. (IF live THEN <<>> ELSE w) \in Seq(Keys)
      BY <1>1, EmptySeq
    <2>2. QED  BY <1>3, <1>5, <2>1 DEF Loops
  <1>8. ~l.added /\ l.start = Counts(w) /\ l.over = v /\ l.live = live /\ l.walk = IF live THEN <<>> ELSE w
    BY <1>3
  <1>9. Ready(l, w, 0)
    <2>1. l.seen = [k \in Keys |-> 0]
      BY <1>3
    <2>2. QED  BY <1>4, <1>5, <1>6, <1>8, <2>1 DEF Ready
  <1>10. LoopIs(Visit(l, w, 0 + 1), w)
    <2>1. 0 \in 0 .. Len(w)
      BY <1>1
    <2>2. QED  BY <1>1, <1>7, <1>8, <1>9, <2>1, VisitIs
  <1>11. LoopIs(loop', w)
    BY <1>2, <1>10
  <1>12. Walked' = w
    <2>1. SameWalk(l, loop')
      BY <1>2, <1>7, VisitKeeps
    <2>2. loop'.over = v /\ loop'.live = live /\ loop'.walk = IF live THEN <<>> ELSE w
      BY <1>8, <2>1 DEF SameWalk
    <2>3. Walked' = IF loop'.live THEN KeysOf(map'[loop'.over]) ELSE loop'.walk
      BY DEF Walked
    <2>4. QED  BY <1>2, <2>2, <2>3 DEF w
  <1>13. LoopIs(loop', Walked')
    BY <1>11, <1>12
  <1>14. QED  BY <1>13 DEF LoopOK

LEMMA AdvanceLoop ==
  ASSUME MapsInv, Advance
  PROVE  LoopOK'
  <1>1. loop.at > 0 /\ loop' = Visit(loop, Walked, loop.at + 1) /\ UNCHANGED map
    BY DEF Advance
  <1>2. LoopIs(loop, Walked)
    BY <1>1 DEF MapsInv, LoopOK, NoLoop
  <1>3. loop \in Loops /\ loop.at \in -1 .. Len(Walked)
    BY <1>2 DEF LoopIs
  <1>4. Walked \in Seq(Keys) /\ Len(Walked) \in Nat
    BY <1>3, WalkedIs, LenProperties DEF MapsInv
  <1>5. loop.at \in 0 .. Len(Walked)
    BY <1>1, <1>3, <1>4
  <1>6. ~loop.added => Ready(loop, Walked, loop.at)
    BY <1>1, <1>2 DEF LoopIs, Tallied, Ready
  <1>7. ~loop.live => ~loop.added /\ loop.start = Counts(Walked)
    BY <1>2 DEF LoopIs
  <1>8. Walked' = Walked
    <2>1. SameWalk(loop, loop')
      BY <1>1, <1>3, VisitKeeps
    <2>2. QED  BY <1>1, <2>1 DEF SameWalk, Walked
  <1> DEFINE w == Walked
  <1>9. LoopIs(Visit(loop, w, loop.at + 1), w)
    <2> HIDE DEF w
    <2>1. QED  BY <1>3, <1>4, <1>5, <1>6, <1>7, VisitIs DEF w
  <1>10. LoopIs(loop', Walked')
    BY <1>1, <1>8, <1>9
  <1>11. QED  BY <1>10 DEF LoopOK

-----------------------------------------------------------------------------
(* Maps: the invariant and the properties.                                 *)

LEMMA MapsInitial ==
  MapsInit => MapsInv
  <1> SUFFICES ASSUME MapsInit PROVE MapsInv
    OBVIOUS
  <1>1. map \in [MapVars -> Tables] /\ \A v \in MapVars : map[v] = << >>
    BY EmptyStands DEF MapsInit
  <1>2. TablesOK
    BY <1>1, EmptyStands, MapsAssumption DEF TablesOK
  <1>3. LoopOK
    BY DEF MapsInit, LoopOK
  <1>4. QED  BY <1>2, <1>3 DEF MapsInv

\* One step per operation: what it makes of the tables, and of the loop.
LEMMA MapsStep ==
  MapsInv /\ [MapsNext]_mapsVars => MapsInv'
  <1> SUFFICES ASSUME MapsInv, [MapsNext]_mapsVars PROVE MapsInv'
    OBVIOUS
  <1>0. TablesOK /\ LoopOK
    BY DEF MapsInv
  <1>1. ASSUME NEW v \in MapVars, NEW u, Changed(v, u), LoopOK' PROVE MapsInv'
    BY <1>0, <1>1, ChangedKeeps DEF MapsInv
  <1>2. ASSUME NEW v \in MapVars, NEW k \in Keys, NEW x \in Vals, NEW y \in Vals, MapLiteral(v, k, x, y)
        PROVE  MapsInv'
    <2>1. Changed(v, map'[v])
      BY <1>0, <1>2, MapLiteralIs DEF MapIs
    <2>2. LoopOK'
      <3> DEFINE u == IF k = NaN THEN <<Entry(k, x), Entry(k, y)>> ELSE <<Entry(k, x)>>
      <3>1. Replace(v, u)
        BY <1>2 DEF MapLiteral
      <3> HIDE DEF u
      <3>2. map'[v] = u
        BY <1>0, <3>1 DEF Replace, TablesOK
      <3>3. QED  BY <2>1, <3>1, <3>2, ReplaceLoop
    <2>3. QED  BY <1>1, <2>1, <2>2
  <1>3. ASSUME NEW v \in MapVars, NEW w \in MapVars, Assign(v, w) PROVE MapsInv'
    <2>1. Changed(v, map[w])
      BY <1>0, <1>3, TablesAre DEF Assign, Replace, Changed
    <2>2. LoopOK'
      BY <1>3, <2>1, ReplaceLoop DEF Assign
    <2>3. QED  BY <1>1, <2>1, <2>2
  <1>4. ASSUME NEW v \in MapVars, NEW k \in Keys, Read(v, k) PROVE MapsInv'
    <2>1. Changed(v, map'[v])
      BY <1>0, <1>4, ReadIs DEF MapIs
    <2>2. LoopOK'
      BY <1>4, InsertLoop, MapsAssumption DEF Read
    <2>3. QED  BY <1>1, <2>1, <2>2
  <1>5. ASSUME NEW v \in MapVars, NEW k \in Keys, Delete(v, k) PROVE MapsInv'
    <2>1. Changed(v, map'[v])
      BY <1>0, <1>5, DeleteIs DEF MapIs
    <2>2. LoopOK'
      <3>1. CASE \E i \in Find(map[v], k) : Erase(v, i)
        BY <3>1, EraseLoop
      <3>2. CASE UNCHANGED <<map, loop>>
        BY <1>0, <3>2 DEF LoopOK, Walked
      <3>3. QED  BY <1>5, <3>1, <3>2 DEF Delete
    <2>3. QED  BY <1>1, <2>1, <2>2
  <1>6. ASSUME NEW v \in MapVars, NEW k \in Keys, NEW x \in Vals, Set(v, k, x) PROVE MapsInv'
    <2>1. Changed(v, map'[v])
      BY <1>0, <1>6, SetIs DEF MapIs
    <2>2. QED  BY <1>1, <1>6, <2>1, SetLoop
  <1>7. ASSUME NEW v \in MapVars, Clear(v) PROVE MapsInv'
    BY <1>0, <1>1, <1>7, ClearIs, ClearLoop
  <1>8. ASSUME UNCHANGED map, LoopOK' PROVE MapsInv'
    BY <1>0, <1>8 DEF MapsInv, TablesOK
  <1>9. ASSUME NEW v \in MapVars, NEW live \in BOOLEAN, Begin(v, live) PROVE MapsInv'
    BY <1>8, <1>9, BeginLoop DEF Begin
  <1>10. CASE Advance
    BY <1>8, <1>10, AdvanceLoop DEF Advance
  <1>11. CASE Finish
    BY <1>8, <1>11 DEF Finish, LoopOK
  <1>12. CASE UNCHANGED mapsVars
    BY <1>0, <1>8, <1>12 DEF mapsVars, LoopOK, Walked
  <1>13. QED
    BY <1>2, <1>3, <1>4, <1>5, <1>6, <1>7, <1>9, <1>10, <1>11, <1>12 DEF MapsNext, Operation

\* Every table has at most one entry for a key that is equal to itself, and
\* every loop has counted what it has passed (src/api/map.hpp, and iterHead
\* and the loops of src/julec/obj/cxx/scope.jule).
THEOREM MapsInvariance == MapsSpec => []MapsInv
  <1>1. QED  BY MapsInitial, MapsStep, PTL DEF MapsSpec

\* ReadsAgree, whatever the keys and the sizes: no map has two entries for one
\* key, and lookups and maps::Equal say of the tables what is true of the
\* functions they stand for.
THEOREM ReadsAgreeHolds == MapsSpec => []ReadsAgree
  <1>1. ASSUME MapsInv PROVE ReadsAgree
    <2>1. TablesOK /\ LoopOK
      BY <1>1 DEF MapsInv
    <2>2. TableOK
      <3>1. \A v \in MapVars : /\ Len(map[v]) <= MaxSize[v]
                               /\ \A k \in Keys \ {NaN} : Count(KeysOf(map[v]), k) <= 1
        BY <2>1, TablesAre, CountedOnce
      <3>2. loop.at \in -1 .. Len(IF loop.over = None THEN <<>> ELSE Walked)
        <4>1. CASE loop = NoLoop
          BY <4>1, EmptyStands DEF NoLoop
        <4>2. CASE LoopIs(loop, Walked)
          <5>1. loop.over # None
            BY <4>2, MapsAssumption DEF LoopIs, Loops
          <5>2. QED  BY <4>2, <5>1 DEF LoopIs
        <4>3. QED  BY <2>1, <4>1, <4>2 DEF LoopOK
      <3>3. QED  BY <3>1, <3>2 DEF TableOK
    <2>3. LookUpAgrees
      <3>1. \A v \in MapVars : map[v] \in Tables /\ Stands(map[v], Content(map[v]))
        BY <2>1, TablesAre, ContentStands
      <3>2. QED  BY <3>1, LookUpIs DEF LookUpAgrees
    <2>4. EqualMeansSame
      BY <2>1, TablesAre, EqualIs DEF EqualMeansSame
    <2>5. QED  BY <2>2, <2>3, <2>4 DEF ReadsAgree
  <1>2. QED  BY <1>1, MapsInvariance, PTL

\* LoopsVisit, whatever is done in the bodies: a loop over a copy visits exactly
\* the keys of the map as it was, one over the map itself those that its body
\* leaves, unless it adds one.
THEOREM LoopsVisitHolds == MapsSpec => []LoopsVisit
  <1>1. ASSUME MapsInv PROVE LoopsVisit
    <2>1. ASSUME loop.over # None PROVE LoopIs(loop, Walked)
      BY <1>1, <2>1 DEF MapsInv, LoopOK, NoLoop
    <2>2. LoopVisits
      BY <2>1 DEF LoopVisits, LoopIs, Tallied
    <2>3. ASSUME loop.over # None, ~loop.live
          PROVE  loop.at # -1 /\ ~loop.added /\ (loop.at = 0 => loop.seen = loop.start)
      <3>1. /\ loop \in Loops /\ loop.at # -1 /\ ~loop.added /\ loop.start = Counts(Walked)
            /\ Tallied(loop, Walked)
        BY <2>1, <2>3 DEF LoopIs
      <3>2. ASSUME loop.at = 0 PROVE loop.seen = loop.start
        <4> DEFINE w == Walked
        <4>1. w \in Seq(Keys)
          BY <1>1, <3>1, WalkedIs DEF MapsInv
        <4>2. /\ loop.seen \in [Keys -> Nat] /\ loop.start \in [Keys -> Nat]
              /\ \A k \in Keys : loop.seen[k] <= loop.start[k] /\ Count(w, k) <= loop.seen[k]
          BY <3>1, <3>2 DEF Tallied
        <4>3. \A k \in Keys : loop.start[k] = Count(w, k)
          BY <3>1 DEF Counts
        <4> HIDE DEF w
        <4>4. ASSUME NEW k \in Keys PROVE loop.seen[k] = loop.start[k]
          <5>1. loop.seen[k] \in Nat /\ loop.start[k] \in Nat
            BY <4>2
          <5>2. loop.seen[k] <= loop.start[k] /\ loop.start[k] <= loop.seen[k]
            BY <4>2, <4>3
          <5>3. QED  BY <5>1, <5>2
        <4>5. QED  BY <4>2, <4>4
      <3>3. QED  BY <3>1, <3>2
    <2>4. CopyUntouched
      BY <2>3 DEF CopyUntouched
    <2>5. QED  BY <2>2, <2>4 DEF LoopsVisit
  <1>2. QED  BY <1>1, MapsInvariance, PTL

\* AsFunctions: in whatever order the entries are, every operation does to the
\* function of its map what it says, and nothing to another map.
THEOREM AsFunctionsHolds == MapsSpec => AsFunctions
  <1>1. MapsInv => \A v \in MapVars : map'[v] # map[v] => MakesOf(v)
    BY MakesWhatItSays DEF MapsInv
  <1>2. QED  BY <1>1, MapsInvariance, PTL DEF AsFunctions
=============================================================================
