----------------------------- MODULE SliceProofs -----------------------------
(***************************************************************************)
(* For any finite numbers of threads, slices and buffers, and any lengths: *)
(* the counter of a buffer is the number of slices that hold a reference   *)
(* to it, no slice points to a freed buffer or past the end of its buffer, *)
(* and the last reference frees the buffer unless its slice has given it   *)
(* up before.                                                              *)
(***************************************************************************)
EXTENDS Slice, FiniteSetTheorems, TLAPS

SliceRec == [ref : Buffers \union {Nil}, alloc : Buffers \union {Nil},
             start : Nat \union {Nil}, len : Nat, cap : Nat]

\* A slice that may be stored in a variable.
Sound(s) ==
    /\ s.ref # Nil => buf[s.ref].state = "live"
    /\ s.alloc # Nil => s.ref = s.alloc /\ s.start \in Nat
    /\ s.len <= s.cap
    /\ s.cap > 0 => s.alloc # Nil /\ s.start + s.cap <= buf[s.alloc].cap

AllSound == \A x \in Handles : Sound(h[x])

\* A buffer that is not there has no counter.
GoneOK == \A b \in Buffers : buf[b].state # "live" => count[b] = 0

\* The release a thread is in has given up the buffer of its own slice.
PendOK ==
    \A t \in Threads :
        /\ pend[t].dst # Nil => pend[t].dst \in HandlesOf(t) /\ h[pend[t].dst].alloc = Nil
        /\ pend[t].src # Nil => pend[t].dst # Nil /\ pend[t].src \in HandlesOf(t)

SInv == TypeOK /\ CountExact /\ AllSound /\ GoneOK
IInv == SInv /\ PendOK

-----------------------------------------------------------------------------
(* Counting the slices that hold a reference to a buffer.                  *)

LEMMA NilApart == Nil \notin Buffers /\ Nil \notin Handles /\ Nil \notin Nat
  BY ConstantAssumption

LEMMA OwnHandles ==
  /\ \A t \in Threads : HandlesOf(t) \subseteq Handles
  /\ \A t, u \in Threads : t # u => HandlesOf(t) \intersect HandlesOf(u) = {}
  BY DEF HandlesOf, Handles

LEMMA FiniteCounted ==
  ASSUME NEW b PROVE IsFiniteSet(Counted(b)) /\ Cardinality(Counted(b)) \in Nat
  <1>1. IsFiniteSet(Handles)
    BY ConstantAssumption, FS_Product DEF Handles
  <1>2. Counted(b) \subseteq Handles  BY DEF Counted
  <1>3. QED  BY <1>1, <1>2, FS_Subset, FS_CardinalityType

LEMMA HandleType == ASSUME TypeOK, NEW x \in Handles PROVE h[x] \in SliceRec
  BY DEF TypeOK, SliceRec

\* The counters when slice x gets the reference r in place of the one it had.
Recounted(x, r) ==
    [b \in Buffers |-> count[b] - (IF h[x].ref = b THEN 1 ELSE 0) + (IF r = b THEN 1 ELSE 0)]

LEMMA Recount ==
  ASSUME TypeOK, CountExact, NEW x \in Handles, NEW r \in Buffers \union {Nil},
         \A y \in Handles : h'[y].ref = IF y = x THEN r ELSE h[y].ref,
         count' = Recounted(x, r)
  PROVE  CountExact' /\ count' \in [Buffers -> Nat]
  <1>1. ASSUME NEW b \in Buffers
        PROVE  count'[b] = Cardinality(Counted(b)') /\ count'[b] \in Nat
    <2>1. count[b] = Cardinality(Counted(b)) /\ IsFiniteSet(Counted(b)) /\ count[b] \in Nat
      BY FiniteCounted DEF CountExact
    <2>2. count'[b] = count[b] - (IF h[x].ref = b THEN 1 ELSE 0) + (IF r = b THEN 1 ELSE 0)
      BY DEF Recounted
    <2>3. CASE h[x].ref = b /\ r # b
      <3>1. Counted(b)' = Counted(b) \ {x} /\ x \in Counted(b)
        BY <2>3 DEF Counted
      <3>2. /\ Cardinality(Counted(b)') = count[b] - 1
            /\ IsFiniteSet(Counted(b)')
        BY <2>1, <3>1, FS_RemoveElement
      <3>3. Cardinality(Counted(b)') \in Nat
        BY <3>2, FS_CardinalityType
      <3>4. QED  BY <2>1, <2>2, <2>3, <3>2, <3>3
    <2>4. CASE h[x].ref # b /\ r = b
      <3>1. Counted(b)' = Counted(b) \union {x} /\ x \notin Counted(b)
        BY <2>4 DEF Counted
      <3>2. Cardinality(Counted(b)') = count[b] + 1
        BY <2>1, <3>1, FS_AddElement
      <3>3. QED  BY <2>1, <2>2, <2>4, <3>2
    <2>5. CASE (h[x].ref = b) <=> (r = b)
      <3>1. Counted(b)' = Counted(b)
        BY <2>5 DEF Counted
      <3>2. QED  BY <2>1, <2>2, <2>5, <3>1
    <2>6. QED  BY <2>3, <2>4, <2>5
  <1>2. count' \in [Buffers -> Nat]
    <2>1. count' = [b \in Buffers |-> count'[b]]
      BY DEF Recounted
    <2>2. QED  BY <1>1, <2>1
  <1>3. QED  BY <1>1, <1>2 DEF CountExact

\* A slice that holds a reference is counted, and alone if the counter is one.
LEMMA CountedOnce ==
  ASSUME TypeOK, CountExact, NEW x \in Handles, h[x].ref # Nil
  PROVE  /\ h[x].ref \in Buffers /\ count[h[x].ref] \in Nat /\ count[h[x].ref] > 0
         /\ count[h[x].ref] = 1 => \A y \in Handles : h[y].ref = h[x].ref => y = x
  <1> DEFINE b == h[x].ref
  <1>1. b \in Buffers /\ x \in Counted(b)
    BY HandleType DEF SliceRec, Counted
  <1>2. /\ count[b] = Cardinality(Counted(b)) /\ IsFiniteSet(Counted(b))
        /\ count[b] \in Nat
    BY <1>1, FiniteCounted DEF CountExact
  <1>3. count[b] # 0
    BY <1>1, <1>2, FS_EmptySet
  <1>4. ASSUME count[b] = 1 PROVE \A y \in Handles : h[y].ref = b => y = x
    <2>1. PICK z : Counted(b) = {z}
      BY <1>2, <1>4, FS_Singleton
    <2>2. QED  BY <1>1, <2>1 DEF Counted
  <1>5. QED  BY <1>1, <1>2, <1>3, <1>4

\* A counter of zero is that of no slice.
LEMMA NotCounted ==
  ASSUME CountExact, NEW b \in Buffers, count[b] = 0
  PROVE  \A y \in Handles : h[y].ref # b
  <1>1. Counted(b) = {}
    BY FiniteCounted, FS_EmptySet DEF CountExact
  <1>2. QED  BY <1>1 DEF Counted

-----------------------------------------------------------------------------
(* The three ways in which a step changes the slices.                      *)

\* Slice x takes the value s, and the counters follow.
LEMMA SetHandle ==
  ASSUME SInv, NEW x \in Handles, NEW s \in SliceRec, Sound(s),
         h' = [h EXCEPT ![x] = s], count' = Recounted(x, s.ref), buf' = buf,
         pend' \in [Threads -> [dst : Handles \union {Nil}, src : Handles \union {Nil}]]
  PROVE  SInv'
  <1>1. h' \in [Handles -> SliceRec] /\ s.ref \in Buffers \union {Nil}
        /\ \A y \in Handles : h'[y] = IF y = x THEN s ELSE h[y]
    BY DEF SInv, TypeOK, SliceRec
  <1>2. CountExact' /\ count' \in [Buffers -> Nat]
    BY <1>1, Recount DEF SInv
  <1>3. TypeOK'
    BY <1>1, <1>2 DEF SInv, TypeOK, SliceRec
  <1>4. AllSound'
    <2>1. SUFFICES ASSUME NEW y \in Handles PROVE Sound(h[y])'
      BY DEF AllSound
    <2>2. Sound(h'[y])  BY <1>1 DEF SInv, AllSound
    <2>3. QED  BY <2>2 DEF Sound
  <1>5. GoneOK'
    <2>1. SUFFICES ASSUME NEW b \in Buffers, buf[b].state # "live" PROVE count'[b] = 0
      BY DEF GoneOK
    <2>2. count[b] = 0  BY <2>1 DEF SInv, GoneOK
    <2>3. h[x].ref # b /\ s.ref # b
      BY <2>1, NilApart DEF SInv, AllSound, Sound
    <2>4. QED  BY <2>2, <2>3 DEF Recounted
  <1>6. QED  BY <1>2, <1>3, <1>4, <1>5 DEF SInv

\* A slice takes the value of a new buffer.
LEMMA AllocHandle ==
  ASSUME SInv, NEW x \in Handles, NEW b \in Buffers, NEW len \in Nat, NEW cap \in Nat,
         h[x] = NilSlice, len <= cap, AllocNew(x, b, len, cap), UNCHANGED pend
  PROVE  SInv'
  <1> DEFINE s == [ref |-> b, alloc |-> b, start |-> 0, len |-> len, cap |-> cap]
  <1>1. count[b] = 0 /\ \A y \in Handles : h[y].ref # b
    BY NotCounted DEF AllocNew, SInv, GoneOK
  <1>2. count' = Recounted(x, b)
    <2>1. h[x].ref = Nil /\ count' = [count EXCEPT ![b] = 1] /\ count \in [Buffers -> Nat]
      BY DEF AllocNew, NilSlice, SInv, TypeOK
    <2>2. \A c \in Buffers :
             count'[c] = count[c] - (IF h[x].ref = c THEN 1 ELSE 0) + (IF b = c THEN 1 ELSE 0)
      BY <1>1, <2>1, NilApart
    <2>3. count' = [c \in Buffers |-> count'[c]]
      BY <2>1
    <2>4. QED  BY <2>2, <2>3 DEF Recounted
  <1>3. s \in SliceRec /\ s.ref = b  BY DEF SliceRec
  <1>4. h' \in [Handles -> SliceRec] /\ \A y \in Handles : h'[y] = IF y = x THEN s ELSE h[y]
    BY <1>3 DEF AllocNew, SInv, TypeOK, SliceRec
  <1>5. CountExact' /\ count' \in [Buffers -> Nat]
    <2>1. \A y \in Handles : h'[y].ref = IF y = x THEN b ELSE h[y].ref
      BY <1>4
    <2>2. QED  BY <1>2, <2>1, Recount DEF SInv
  <1>6. buf' \in [Buffers -> [state : {"unused", "live", "freed"}, cap : Nat]]
        /\ buf'[b] = [state |-> "live", cap |-> cap]
        /\ \A c \in Buffers : c # b => buf'[c] = buf[c]
    BY DEF AllocNew, SInv, TypeOK
  <1>7. TypeOK'
    BY <1>4, <1>5, <1>6 DEF SInv, TypeOK, SliceRec
  <1>8. AllSound'
    <2>1. SUFFICES ASSUME NEW y \in Handles PROVE Sound(h[y])'
      BY DEF AllSound
    <2>2. CASE y = x
      BY <1>4, <1>6, <2>2, NilApart DEF Sound
    <2>3. CASE y # x
      <3>1. h'[y] = h[y] /\ h[y] \in SliceRec /\ Sound(h[y]) /\ h[y].ref # b
        BY <1>1, <1>4, <2>3, HandleType DEF SInv, AllSound
      <3>2. h[y].ref # Nil => buf'[h[y].ref] = buf[h[y].ref]
        BY <3>1, <1>6 DEF SliceRec
      <3>3. h[y].alloc # Nil => buf'[h[y].alloc] = buf[h[y].alloc]
        BY <3>1, <1>6 DEF SliceRec, Sound
      <3>4. QED  BY <3>1, <3>2, <3>3 DEF Sound
    <2>4. QED  BY <2>2, <2>3
  <1>9. GoneOK'
    <2>1. SUFFICES ASSUME NEW c \in Buffers, buf'[c].state # "live" PROVE count'[c] = 0
      BY DEF GoneOK
    <2>2. c # b /\ count[c] = 0
      BY <1>6, <2>1 DEF SInv, GoneOK
    <2>3. QED  BY <2>2 DEF AllocNew, SInv, TypeOK
  <1>9a. QED  BY <1>5, <1>7, <1>8, <1>9 DEF SInv

\* A slice gives up its buffer.
LEMMA DeallocHandle ==
  ASSUME SInv, NEW x \in Handles, Dealloc(x),
         pend' \in [Threads -> [dst : Handles \union {Nil}, src : Handles \union {Nil}]]
  PROVE  /\ SInv'
         /\ h'[x].alloc = Nil
         /\ \A y \in Handles : y # x => h'[y] = h[y]
  <1> DEFINE s == h[x]
  <1>1. s \in SliceRec /\ Sound(s)
    BY HandleType DEF SInv, AllSound
  <1>2. CASE /\ s.ref # Nil /\ count[s.ref] = 1
             /\ h' = [h EXCEPT ![x] = NilSlice]
             /\ count' = [count EXCEPT ![s.ref] = 0]
             /\ buf' = IF s.alloc = Nil THEN buf ELSE [buf EXCEPT ![s.alloc].state = "freed"]
    <2> DEFINE b == s.ref
    <2>1. b \in Buffers /\ \A y \in Handles : h[y].ref = b => y = x
      BY <1>2, CountedOnce DEF SInv
    <2>2. count' = Recounted(x, Nil)
      <3>1. count' = [count EXCEPT ![b] = 0] /\ count[b] = 1 /\ count \in [Buffers -> Nat]
        BY <1>2 DEF SInv, TypeOK
      <3>2. \A c \in Buffers :
               count'[c] = count[c] - (IF h[x].ref = c THEN 1 ELSE 0) + (IF Nil = c THEN 1 ELSE 0)
        BY <2>1, <3>1, NilApart
      <3>3. count' = [c \in Buffers |-> count'[c]]
        BY <3>1
      <3>4. QED  BY <3>2, <3>3 DEF Recounted
    <2>3. NilSlice \in SliceRec /\ NilSlice.ref = Nil /\ NilSlice.alloc = Nil
      BY DEF SliceRec, NilSlice
    <2>4. h' \in [Handles -> SliceRec] /\ \A y \in Handles : h'[y] = IF y = x THEN NilSlice ELSE h[y]
      BY <1>2, <2>3 DEF SInv, TypeOK, SliceRec
    <2>5. CountExact' /\ count' \in [Buffers -> Nat]
      <3>1. \A y \in Handles : h'[y].ref = IF y = x THEN Nil ELSE h[y].ref
        BY <2>3, <2>4
      <3>2. QED  BY <2>2, <3>1, Recount DEF SInv
    <2>6. /\ buf' \in [Buffers -> [state : {"unused", "live", "freed"}, cap : Nat]]
          /\ \A c \in Buffers : c # b => buf'[c] = buf[c]
      BY <1>1, <1>2 DEF SInv, TypeOK, Sound, SliceRec
    <2>7. TypeOK'
      BY <2>4, <2>5, <2>6 DEF SInv, TypeOK, SliceRec
    <2>8. AllSound'
      <3>1. SUFFICES ASSUME NEW y \in Handles PROVE Sound(h[y])'
        BY DEF AllSound
      <3>2. CASE y = x
        BY <2>4, <3>2 DEF Sound, NilSlice
      <3>3. CASE y # x
        <4>1. h'[y] = h[y] /\ h[y] \in SliceRec /\ Sound(h[y]) /\ h[y].ref # b
          BY <2>1, <2>4, <3>3, HandleType DEF SInv, AllSound
        <4>2. h[y].ref # Nil => buf'[h[y].ref] = buf[h[y].ref]
          BY <4>1, <2>6 DEF SliceRec
        <4>3. h[y].alloc # Nil => buf'[h[y].alloc] = buf[h[y].alloc]
          BY <4>1, <2>6 DEF SliceRec, Sound
        <4>4. QED  BY <4>1, <4>2, <4>3 DEF Sound
      <3>4. QED  BY <3>2, <3>3
    <2>9. GoneOK'
      <3>1. SUFFICES ASSUME NEW c \in Buffers, buf'[c].state # "live" PROVE count'[c] = 0
        BY DEF GoneOK
      <3>2. c # b => count[c] = 0
        BY <2>6, <3>1 DEF SInv, GoneOK
      <3>3. QED  BY <1>2, <2>1, <3>2 DEF SInv, TypeOK
    <2>10. QED  BY <2>3, <2>4, <2>5, <2>7, <2>8, <2>9 DEF SInv
  <1>3. CASE /\ h' = [h EXCEPT ![x].alloc = Nil, ![x].len = 0, ![x].cap = 0]
             /\ UNCHANGED <<count, buf>>
    <2> DEFINE n == [s EXCEPT !.alloc = Nil, !.len = 0, !.cap = 0]
    <2>1. n \in SliceRec /\ n.ref = s.ref /\ n.alloc = Nil /\ n.len = 0 /\ n.cap = 0
      BY <1>1 DEF SliceRec
    <2>2. h' = [h EXCEPT ![x] = n]
      BY <1>3
    <2>3. Sound(n)
      BY <1>1, <2>1 DEF Sound
    <2>4. count' = Recounted(x, n.ref)
      BY <1>3, <2>1 DEF Recounted, SInv, TypeOK
    <2>5. SInv'
      <3> HIDE DEF n
      <3> QED  BY <1>3, <2>1, <2>2, <2>3, <2>4, SetHandle
    <2>6. QED  BY <2>1, <2>2, <2>5 DEF SInv, TypeOK
  <1>4. QED  BY <1>2, <1>3 DEF Dealloc

-----------------------------------------------------------------------------
(* One lemma per action.                                                   *)

LEMMA InitIInv == ASSUME Init PROVE IInv
  <1>1. TypeOK
    BY DEF Init, TypeOK, NilSlice, NoPend
  <1>2. CountExact
    <2>1. \A b \in Buffers : Counted(b) = {}
      BY NilApart DEF Init, NilSlice, Counted
    <2>2. QED  BY <2>1, FS_EmptySet DEF Init, CountExact
  <1>3. AllSound /\ GoneOK /\ PendOK
    BY DEF Init, AllSound, Sound, GoneOK, PendOK, NilSlice, NoPend
  <1>4. QED  BY <1>1, <1>2, <1>3 DEF IInv, SInv

\* A step of t that leaves the slices of running releases alone.
LEMMA PendKept ==
  ASSUME PendOK, UNCHANGED pend,
         \A t \in Threads : pend[t].dst # Nil => h'[pend[t].dst].alloc = Nil
  PROVE  PendOK'
  BY DEF PendOK, HandlesOf

\* No release is in the slices of a thread that is in none.
LEMMA ReadyFree ==
  ASSUME PendOK, NEW t \in Threads, Ready(t), NEW x \in HandlesOf(t)
  PROVE  x \in Handles /\ \A u \in Threads : pend[u].dst # Nil => pend[u].dst # x
  <1>1. pend[t].dst = Nil
    BY DEF Ready, NoPend
  <1>2. QED  BY <1>1, OwnHandles DEF PendOK

LEMMA NilSliceSound == NilSlice \in SliceRec /\ Sound(NilSlice) /\ NilSlice.ref = Nil
                       /\ NilSlice.alloc = Nil
  BY DEF NilSlice, SliceRec, Sound

LEMMA PendType ==
  ASSUME TypeOK, UNCHANGED pend
  PROVE  pend' \in [Threads -> [dst : Handles \union {Nil}, src : Handles \union {Nil}]]
  BY DEF TypeOK

\* A counted copy into a slice of a thread that is in no release.
LEMMA ShareIInv ==
  ASSUME IInv, NEW u \in Threads, Ready(u), NEW y \in HandlesOf(u), h[y] = NilSlice,
         NEW s \in SliceRec, Sound(s), Share(y, s)
  PROVE  IInv'
  <1>1. y \in Handles /\ \A t \in Threads : pend[t].dst # Nil => pend[t].dst # y
    BY ReadyFree DEF IInv
  <1>2. h' = [h EXCEPT ![y] = s] /\ buf' = buf /\ UNCHANGED pend
    BY DEF Share
  <1>3. count' = Recounted(y, s.ref)
    <2>1. h[y].ref = Nil /\ count \in [Buffers -> Nat] /\ s.ref \in Buffers \union {Nil}
      BY DEF NilSlice, IInv, SInv, TypeOK, SliceRec
    <2>2. count' = IF s.ref = Nil THEN count ELSE [count EXCEPT ![s.ref] = @ + 1]
      BY DEF Share
    <2>3. \A c \in Buffers :
             count'[c] = count[c] - (IF h[y].ref = c THEN 1 ELSE 0) + (IF s.ref = c THEN 1 ELSE 0)
      BY <2>1, <2>2, NilApart
    <2>4. count' = [c \in Buffers |-> count'[c]]
      BY <2>1, <2>2
    <2>5. QED  BY <2>3, <2>4 DEF Recounted
  <1>4. SInv'
    BY <1>1, <1>2, <1>3, SetHandle, PendType DEF IInv, SInv
  <1>5. PendOK'
    <2>1. \A x \in Handles : x # y => h'[x] = h[x]
      BY <1>2 DEF IInv, SInv, TypeOK
    <2>2. \A t \in Threads : pend[t].dst # Nil =>
             pend[t].dst \in Handles /\ h[pend[t].dst].alloc = Nil
      BY OwnHandles DEF IInv, PendOK
    <2>3. QED  BY <1>1, <1>2, <2>1, <2>2, PendKept DEF IInv
  <1>6. QED  BY <1>4, <1>5 DEF IInv

LEMMA AllocIInv ==
  ASSUME IInv, NEW u \in Threads, Ready(u), NEW y \in HandlesOf(u), h[y] = NilSlice,
         NEW b \in Buffers, NEW len \in Nat, NEW cap \in Nat, len <= cap,
         AllocNew(y, b, len, cap), UNCHANGED pend
  PROVE  IInv'
  <1>1. y \in Handles /\ \A t \in Threads : pend[t].dst # Nil => pend[t].dst # y
    BY ReadyFree DEF IInv
  <1>2. SInv'
    BY <1>1, AllocHandle DEF IInv
  <1>3. \A x \in Handles : x # y => h'[x] = h[x]
    BY DEF AllocNew, IInv, SInv, TypeOK
  <1>4. \A t \in Threads : pend[t].dst # Nil =>
           pend[t].dst \in Handles /\ h[pend[t].dst].alloc = Nil
    BY OwnHandles DEF IInv, PendOK
  <1>5. PendOK'
    BY <1>1, <1>3, <1>4, PendKept DEF IInv
  <1>6. QED  BY <1>2, <1>5 DEF IInv

LEMMA MakeIInv ==
  ASSUME IInv, NEW t \in Threads, NEW x \in HandlesOf(t), NEW b \in Buffers,
         NEW len \in 1 .. MaxLen, Make(t, x, b, len)
  PROVE  IInv'
  <1>1. len \in Nat /\ len <= len
    BY ConstantAssumption
  <1>2. QED  BY <1>1, AllocIInv DEF Make

LEMMA CopyIInv ==
  ASSUME IInv, NEW t \in Threads, NEW x \in HandlesOf(t), NEW y \in Handles, Copy(t, x, y)
  PROVE  IInv'
  <1>1. h[x] \in SliceRec /\ Sound(h[x])
    BY OwnHandles, HandleType DEF IInv, SInv, AllSound
  <1>2. PICK u \in Threads : y \in HandlesOf(u) /\ Ready(u)
    BY DEF Copy
  <1>3. h[y] = NilSlice /\ Share(y, h[x])
    BY DEF Copy
  <1>4. QED  BY <1>1, <1>2, <1>3, ShareIInv

LEMMA SlicingIInv ==
  ASSUME IInv, NEW t \in Threads, NEW x \in HandlesOf(t), NEW y \in HandlesOf(t), Slicing(t, x, y)
  PROVE  IInv'
  <1>1. h[x] \in SliceRec /\ Sound(h[x])
    BY OwnHandles, HandleType DEF IInv, SInv, AllSound
  <1>0. PICK end \in 0 .. h[x].len :
            \E start \in 0 .. end : Share(y, SubSlice(h[x], start, end))
    BY DEF Slicing
  <1>2. PICK start \in 0 .. end : Share(y, SubSlice(h[x], start, end))
    BY <1>0
  <1> DEFINE s == SubSlice(h[x], start, end)
  <1>3. h[x].start \in Nat /\ h[x].len \in Nat /\ h[x].cap \in Nat /\ h[x].len <= h[x].cap
    BY <1>1 DEF Slicing, IsNil, SliceRec, Sound
  <1>4. start \in Nat /\ end \in Nat /\ start <= end /\ end <= h[x].len
    BY <1>2, <1>3
  <1>5. /\ s \in SliceRec /\ s.ref = h[x].ref /\ s.alloc = h[x].alloc
        /\ s.start = h[x].start + start /\ s.len = end - start /\ s.cap = h[x].cap - start
    <2>1. h[x].start + start \in Nat /\ end - start \in Nat /\ h[x].cap - start \in Nat
      BY <1>3, <1>4
    <2> DEFINE q == h[x].start + start
               l == end - start
               c == h[x].cap - start
    <2>2. s = [h[x] EXCEPT !.start = q, !.len = l, !.cap = c]
      BY DEF SubSlice
    <2>3. q \in Nat /\ l \in Nat /\ c \in Nat
      BY <2>1
    <2> HIDE DEF q, l, c
    <2>4. /\ s \in SliceRec /\ s.ref = h[x].ref /\ s.alloc = h[x].alloc
          /\ s.start = q /\ s.len = l /\ s.cap = c
      BY <1>1, <2>2, <2>3 DEF SliceRec
    <2>5. QED  BY <2>4 DEF q, l, c
  <1>6. Sound(s)
    <2>1. s.len <= s.cap
      BY <1>3, <1>4, <1>5
    <2>2. s.cap > 0 => h[x].cap > 0 /\ s.start + s.cap = h[x].start + h[x].cap
      BY <1>3, <1>4, <1>5
    <2>3. s.start \in Nat
      BY <1>3, <1>4, <1>5
    <2>4. QED  BY <1>1, <1>5, <2>1, <2>2, <2>3 DEF Sound
  <1>7. h[y] = NilSlice /\ Ready(t)
    BY DEF Slicing
  <1> HIDE DEF s
  <1>8. Share(y, s)
    BY <1>2 DEF s
  <1>9. QED  BY <1>5, <1>6, <1>7, <1>8, ShareIInv

LEMMA AppendIInv ==
  ASSUME IInv, NEW t \in Threads, NEW x \in HandlesOf(t), NEW y \in HandlesOf(t),
         NEW b \in Buffers, Append(t, x, y, b)
  PROVE  IInv'
  <1>1. h[x] \in SliceRec /\ Sound(h[x]) /\ h[x].len \in Nat
    BY OwnHandles, HandleType DEF IInv, SInv, AllSound, SliceRec
  <1>2. h[y] = NilSlice /\ Ready(t)
    BY DEF Append
  <1>3. CASE h[x].len + 1 <= h[x].cap /\ Share(y, [h[x] EXCEPT !.len = @ + 1])
    <2> DEFINE s == [h[x] EXCEPT !.len = @ + 1]
    <2>1. /\ s \in SliceRec /\ s.ref = h[x].ref /\ s.alloc = h[x].alloc
          /\ s.start = h[x].start /\ s.len = h[x].len + 1 /\ s.cap = h[x].cap
      BY <1>1 DEF SliceRec
    <2>2. Sound(s)
      BY <1>1, <1>3, <2>1 DEF Sound
    <2> HIDE DEF s
    <2>3. Share(y, s)
      BY <1>3 DEF s
    <2>4. QED  BY <1>2, <2>1, <2>2, <2>3, ShareIInv
  <1>4. CASE AllocNew(y, b, h[x].len + 1, 2 * (h[x].len + 1)) /\ UNCHANGED pend
    <2>1. h[x].len + 1 \in Nat /\ 2 * (h[x].len + 1) \in Nat /\ h[x].len + 1 <= 2 * (h[x].len + 1)
      BY <1>1
    <2>2. QED  BY <1>2, <1>4, <2>1, AllocIInv
  <1>5. QED  BY <1>3, <1>4 DEF Append

LEMMA AssignNilIInv ==
  ASSUME IInv, NEW t \in Threads, NEW x \in HandlesOf(t), AssignNil(t, x) PROVE IInv'
  <1>1. x \in Handles /\ \A u \in Threads : pend[u].dst # Nil => pend[u].dst # x
    BY ReadyFree DEF IInv, AssignNil
  <1>2. Dealloc(x) /\ UNCHANGED pend
    BY DEF AssignNil
  <1>3. SInv' /\ \A y \in Handles : y # x => h'[y] = h[y]
    BY <1>1, <1>2, DeallocHandle, PendType DEF IInv, SInv
  <1>4. \A u \in Threads : pend[u].dst # Nil =>
           pend[u].dst \in Handles /\ h[pend[u].dst].alloc = Nil
    BY OwnHandles DEF IInv, PendOK
  <1>5. PendOK'
    BY <1>1, <1>2, <1>3, <1>4, PendKept DEF IInv
  <1>6. QED  BY <1>3, <1>5 DEF IInv

LEMMA AssignSameIInv ==
  ASSUME IInv, NEW t \in Threads, NEW x \in HandlesOf(t), NEW y \in HandlesOf(t),
         AssignSame(t, x, y)
  PROVE  IInv'
  <1> DEFINE s == [h[x] EXCEPT !.start = h[y].start, !.len = h[y].len, !.cap = h[y].cap]
  <1>1. x \in Handles /\ y \in Handles
        /\ \A u \in Threads : pend[u].dst # Nil => pend[u].dst # x
    BY OwnHandles, ReadyFree DEF IInv, AssignSame
  <1>2. /\ h[x] \in SliceRec /\ Sound(h[x]) /\ h[y] \in SliceRec /\ Sound(h[y])
        /\ h[x].alloc # Nil /\ h[x].alloc = h[y].alloc
    BY <1>1, HandleType DEF IInv, SInv, AllSound, AssignSame
  <1>3. /\ s \in SliceRec /\ s.ref = h[x].ref /\ s.alloc = h[x].alloc
        /\ s.start = h[y].start /\ s.len = h[y].len /\ s.cap = h[y].cap
    BY <1>2 DEF SliceRec
  <1>4. h' = [h EXCEPT ![x] = s] /\ UNCHANGED <<count, buf, pend>>
    BY DEF AssignSame
  <1> HIDE DEF s
  <1>5. Sound(s)
    BY <1>2, <1>3 DEF Sound
  <1>6. count' = Recounted(x, s.ref)
    <2>1. count \in [Buffers -> Nat] /\ count' = count
      BY <1>4 DEF IInv, SInv, TypeOK
    <2>2. \A c \in Buffers :
             count'[c] = count[c] - (IF h[x].ref = c THEN 1 ELSE 0) + (IF s.ref = c THEN 1 ELSE 0)
      BY <1>3, <2>1
    <2>3. count' = [c \in Buffers |-> count'[c]]
      BY <2>1
    <2>4. QED  BY <2>2, <2>3 DEF Recounted
  <1>7. SInv'
    BY <1>1, <1>3, <1>4, <1>5, <1>6, SetHandle, PendType DEF IInv, SInv
  <1>8. \A z \in Handles : z # x => h'[z] = h[z]
    BY <1>4 DEF IInv, SInv, TypeOK
  <1>9. \A u \in Threads : pend[u].dst # Nil =>
           pend[u].dst \in Handles /\ h[pend[u].dst].alloc = Nil
    BY OwnHandles DEF IInv, PendOK
  <1>10. PendOK'
    BY <1>1, <1>4, <1>8, <1>9, PendKept DEF IInv
  <1>11. QED  BY <1>7, <1>10 DEF IInv

\* The first step of a release: of an assignment (src is set) or of a scope.
LEMMA StartIInv ==
  ASSUME IInv, NEW t \in Threads, Ready(t), NEW x \in HandlesOf(t), Dealloc(x),
         NEW y \in HandlesOf(t) \union {Nil},
         pend' = [pend EXCEPT ![t] = [dst |-> x, src |-> y]]
  PROVE  IInv'
  <1>1. x \in Handles /\ x # Nil /\ y \in Handles \union {Nil}
        /\ \A u \in Threads : pend[u].dst # Nil => pend[u].dst # x
    BY OwnHandles, NilApart, ReadyFree DEF IInv
  <1>2. pend \in [Threads -> [dst : Handles \union {Nil}, src : Handles \union {Nil}]]
    BY DEF IInv, SInv, TypeOK
  <1>3. pend' \in [Threads -> [dst : Handles \union {Nil}, src : Handles \union {Nil}]]
    BY <1>1, <1>2
  <1>4. SInv' /\ h'[x].alloc = Nil /\ \A z \in Handles : z # x => h'[z] = h[z]
    BY <1>1, <1>3, DeallocHandle DEF IInv
  <1>5. ASSUME NEW u \in Threads
        PROVE  /\ pend'[u].dst # Nil => pend'[u].dst \in HandlesOf(u) /\ h'[pend'[u].dst].alloc = Nil
               /\ pend'[u].src # Nil => pend'[u].dst # Nil /\ pend'[u].src \in HandlesOf(u)
    <2>1. CASE u = t
      <3>1. pend'[u].dst = x /\ pend'[u].src = y
        BY <1>2, <2>1
      <3>2. QED  BY <1>1, <1>4, <2>1, <3>1
    <2>2. CASE u # t
      <3>1. pend'[u] = pend[u]
        BY <1>2, <2>2
      <3>2. /\ pend[u].dst # Nil => pend[u].dst \in HandlesOf(u) /\ h[pend[u].dst].alloc = Nil
            /\ pend[u].src # Nil => pend[u].dst # Nil /\ pend[u].src \in HandlesOf(u)
        BY DEF IInv, PendOK
      <3>3. pend[u].dst # Nil => h'[pend[u].dst] = h[pend[u].dst]
        BY <1>1, <1>4, <3>2, OwnHandles
      <3>4. QED  BY <3>1, <3>2, <3>3
    <2>3. QED  BY <2>1, <2>2
  <1>6. PendOK'
    BY <1>5 DEF PendOK, HandlesOf
  <1>7. QED  BY <1>4, <1>6 DEF IInv

LEMMA AssignStartIInv ==
  ASSUME IInv, NEW t \in Threads, NEW x \in HandlesOf(t), NEW y \in HandlesOf(t),
         AssignStart(t, x, y)
  PROVE  IInv'
  BY StartIInv DEF AssignStart

LEMMA LeaveIInv ==
  ASSUME IInv, NEW t \in Threads, NEW x \in HandlesOf(t), Leave(t, x) PROVE IInv'
  BY StartIInv DEF Leave

\* The second step: slice x drops its reference and takes the value s.
LEMMA FinishIInv ==
  ASSUME IInv, NEW t \in Threads, pend[t].dst # Nil,
         NEW s \in SliceRec, Sound(s),
         h' = [h EXCEPT ![pend[t].dst] = s],
         count' = IF s.ref = Nil THEN Dropped(pend[t].dst)
                  ELSE [Dropped(pend[t].dst) EXCEPT ![s.ref] = @ + 1],
         pend' = [pend EXCEPT ![t] = NoPend],
         UNCHANGED buf
  PROVE  IInv'
  <1> DEFINE x == pend[t].dst
  <1>1. x \in HandlesOf(t) /\ x \in Handles
    BY OwnHandles DEF IInv, PendOK
  <1>2. pend \in [Threads -> [dst : Handles \union {Nil}, src : Handles \union {Nil}]]
        /\ NoPend \in [dst : Handles \union {Nil}, src : Handles \union {Nil}]
    BY DEF IInv, SInv, TypeOK, NoPend
  <1>3. pend' \in [Threads -> [dst : Handles \union {Nil}, src : Handles \union {Nil}]]
    BY <1>2
  <1>4. count' = Recounted(x, s.ref)
    <2>1. /\ count \in [Buffers -> Nat]
          /\ s.ref \in Buffers \union {Nil} /\ h[x].ref \in Buffers \union {Nil}
      BY <1>1, HandleType DEF IInv, SInv, TypeOK, SliceRec
    <2>2. Dropped(x) = IF h[x].ref = Nil THEN count ELSE [count EXCEPT ![h[x].ref] = @ - 1]
      BY DEF Dropped
    <2>3. /\ Dropped(x) = [c \in Buffers |-> Dropped(x)[c]]
          /\ \A c \in Buffers : Dropped(x)[c] = count[c] - (IF h[x].ref = c THEN 1 ELSE 0)
      <3> DEFINE r == h[x].ref
                 d == Dropped(x)
      <3> HIDE DEF r, d
      <3>1. count \in [Buffers -> Nat] /\ r \in Buffers \union {Nil}
        BY <2>1 DEF r
      <3>2. d = IF r = Nil THEN count ELSE [count EXCEPT ![r] = @ - 1]
        BY <2>2 DEF r, d
      <3>3. d = [c \in Buffers |-> d[c]]
        BY <3>1, <3>2
      <3>4. \A c \in Buffers : d[c] = count[c] - (IF r = c THEN 1 ELSE 0)
        BY <3>1, <3>2, NilApart
      <3>5. QED  BY <3>3, <3>4 DEF r, d
    <2>4. \A c \in Buffers :
             count'[c] = count[c] - (IF h[x].ref = c THEN 1 ELSE 0) + (IF s.ref = c THEN 1 ELSE 0)
      BY <2>1, <2>3, NilApart
    <2>5. count' = [c \in Buffers |-> count'[c]]
      BY <2>3
    <2>6. QED  BY <2>4, <2>5 DEF Recounted
  <1>5. SInv'
    <2>1. h' = [h EXCEPT ![x] = s] /\ buf' = buf
      OBVIOUS
    <2> HIDE DEF x
    <2>2. QED  BY <1>1, <1>3, <1>4, <2>1, SetHandle DEF IInv
  <1>6. ASSUME NEW u \in Threads
        PROVE  /\ pend'[u].dst # Nil => pend'[u].dst \in HandlesOf(u) /\ h'[pend'[u].dst].alloc = Nil
               /\ pend'[u].src # Nil => pend'[u].dst # Nil /\ pend'[u].src \in HandlesOf(u)
    <2>1. CASE u = t
      <3>1. pend'[u].dst = Nil /\ pend'[u].src = Nil
        BY <1>2, <2>1 DEF NoPend
      <3>2. QED  BY <3>1
    <2>2. CASE u # t
      <3>1. pend'[u] = pend[u]
        BY <1>2, <2>2
      <3>2. /\ pend[u].dst # Nil => pend[u].dst \in HandlesOf(u) /\ h[pend[u].dst].alloc = Nil
            /\ pend[u].src # Nil => pend[u].dst # Nil /\ pend[u].src \in HandlesOf(u)
        BY DEF IInv, PendOK
      <3>3. pend[u].dst # Nil => pend[u].dst # x /\ pend[u].dst \in Handles
        BY <1>1, <2>2, <3>2, OwnHandles
      <3>4. \A z \in Handles : z # x => h'[z] = h[z]
        BY <1>1 DEF IInv, SInv, TypeOK
      <3>5. pend[u].dst # Nil => h'[pend[u].dst] = h[pend[u].dst]
        BY <3>3, <3>4
      <3>6. QED  BY <3>1, <3>2, <3>5
    <2>3. QED  BY <2>1, <2>2
  <1>7. PendOK'
    BY <1>6 DEF PendOK, HandlesOf
  <1>8. QED  BY <1>5, <1>7 DEF IInv

LEMMA AssignFinishIInv ==
  ASSUME IInv, NEW t \in Threads, AssignFinish(t) PROVE IInv'
  <1> DEFINE x == pend[t].dst
             y == pend[t].src
  <1>1. y # Nil /\ x # Nil /\ y \in HandlesOf(t) /\ y \in Handles /\ x \in HandlesOf(t)
    BY OwnHandles DEF AssignFinish, IInv, PendOK
  <1>2. h[y] \in SliceRec /\ Sound(h[y])
    BY <1>1, HandleType DEF IInv, SInv, AllSound
  <1>3. pend' = [pend EXCEPT ![t] = NoPend] /\ UNCHANGED buf
    BY DEF AssignFinish
  <1>4. CASE ~IsNil(h[y])
    BY <1>1, <1>2, <1>3, <1>4, FinishIInv DEF AssignFinish
  <1>5. CASE IsNil(h[y])
    <2>1. UNCHANGED <<h, count, buf>>
      BY <1>3, <1>5 DEF AssignFinish
    <2>2. pend \in [Threads -> [dst : Handles \union {Nil}, src : Handles \union {Nil}]]
          /\ NoPend \in [dst : Handles \union {Nil}, src : Handles \union {Nil}]
          /\ NoPend.dst = Nil /\ NoPend.src = Nil
      BY DEF IInv, SInv, TypeOK, NoPend
    <2>3. TypeOK'
      BY <1>3, <2>1, <2>2 DEF IInv, SInv, TypeOK
    <2>4. (CountExact /\ AllSound /\ GoneOK)'
      BY <2>1 DEF IInv, SInv, CountExact, Counted, AllSound, Sound, GoneOK
    <2>5. PendOK'
      BY <1>3, <2>1, <2>2 DEF IInv, PendOK, HandlesOf
    <2>6. QED  BY <2>3, <2>4, <2>5 DEF IInv, SInv
  <1>6. QED  BY <1>4, <1>5

LEMMA LeaveFinishIInv ==
  ASSUME IInv, NEW t \in Threads, LeaveFinish(t) PROVE IInv'
  BY NilSliceSound, FinishIInv DEF LeaveFinish

LEMMA NextIInv == ASSUME IInv, [Next]_vars PROVE IInv'
  <1>1. CASE Next
    <2>1. ASSUME NEW t \in Threads, NEW x \in HandlesOf(t), NEW b \in Buffers,
                 NEW len \in 1 .. MaxLen, Make(t, x, b, len)
          PROVE  IInv'
      BY <2>1, MakeIInv
    <2>2. ASSUME NEW t \in Threads, NEW x \in HandlesOf(t), NEW y \in Handles, Copy(t, x, y)
          PROVE  IInv'
      BY <2>2, CopyIInv
    <2>3. ASSUME NEW t \in Threads, NEW x \in HandlesOf(t), NEW y \in HandlesOf(t), Slicing(t, x, y)
          PROVE  IInv'
      BY <2>3, SlicingIInv
    <2>4. ASSUME NEW t \in Threads, NEW x \in HandlesOf(t), NEW y \in HandlesOf(t),
                 NEW b \in Buffers, Append(t, x, y, b)
          PROVE  IInv'
      BY <2>4, AppendIInv
    <2>5. ASSUME NEW t \in Threads, NEW x \in HandlesOf(t), AssignNil(t, x) PROVE IInv'
      BY <2>5, AssignNilIInv
    <2>6. ASSUME NEW t \in Threads, NEW x \in HandlesOf(t), NEW y \in HandlesOf(t), AssignSame(t, x, y)
          PROVE  IInv'
      BY <2>6, AssignSameIInv
    <2>7. ASSUME NEW t \in Threads, NEW x \in HandlesOf(t), NEW y \in HandlesOf(t), AssignStart(t, x, y)
          PROVE  IInv'
      BY <2>7, AssignStartIInv
    <2>8. ASSUME NEW t \in Threads, AssignFinish(t) PROVE IInv'
      BY <2>8, AssignFinishIInv
    <2>9. ASSUME NEW t \in Threads, NEW x \in HandlesOf(t), Leave(t, x) PROVE IInv'
      BY <2>9, LeaveIInv
    <2>10. ASSUME NEW t \in Threads, LeaveFinish(t) PROVE IInv'
      BY <2>10, LeaveFinishIInv
    <2>11. QED
      BY <1>1, <2>1, <2>2, <2>3, <2>4, <2>5, <2>6, <2>7, <2>8, <2>9, <2>10 DEF Next
  <1>2. CASE UNCHANGED vars
    BY <1>2 DEF vars, IInv, SInv, TypeOK, CountExact, Counted, AllSound, Sound, GoneOK,
                PendOK, HandlesOf
  <1>3. QED  BY <1>1, <1>2

-----------------------------------------------------------------------------
(* The theorems.                                                           *)

\* What is known of the slices after any number of steps.
THEOREM Invariance == Spec => []IInv
  <1>1. Init => IInv  BY InitIInv
  <1>2. IInv /\ [Next]_vars => IInv'  BY NextIInv
  <1>3. QED  BY <1>1, <1>2, PTL DEF Spec

\* The counter of a buffer is the number of slices that hold a reference to
\* it, in every interleaving of copies, assignments and ends of scopes.
THEOREM CountExactHolds == Spec => []CountExact
  <1>1. IInv => CountExact  BY DEF IInv, SInv
  <1>2. QED  BY <1>1, Invariance, PTL

\* No slice points to a freed buffer.
THEOREM NoDanglingHolds == Spec => []NoDangling
  <1>1. IInv => NoDangling
    BY DEF IInv, SInv, AllSound, Sound, NoDangling, Live
  <1>2. QED  BY <1>1, Invariance, PTL

\* What indexing may touch lies inside a live buffer.
THEOREM WindowInBufferHolds == Spec => []WindowInBuffer
  <1>1. IInv => WindowInBuffer
    BY DEF IInv, SInv, AllSound, Sound, WindowInBuffer, Live
  <1>2. QED  BY <1>1, Invariance, PTL

-----------------------------------------------------------------------------
(* What becomes of a buffer whose last reference goes.                     *)

FreedStep ==
    \A b \in Buffers : count[b] > 0 /\ count'[b] = 0 =>
        (buf'[b].state = "freed" <=> \E x \in Counted(b) : h[x].alloc = b)

LEMMA CountedLive ==
  ASSUME SInv, NEW b \in Buffers, count[b] > 0 PROVE buf[b].state = "live"
  BY DEF SInv, GoneOK, TypeOK

\* Counters that only grow.
LEMMA NoneGone ==
  ASSUME \A b \in Buffers : count[b] > 0 => count'[b] # 0
  PROVE  FreedStep
  BY DEF FreedStep

LEMMA ShareGrows ==
  ASSUME IInv, NEW y \in Handles, NEW s \in SliceRec, Share(y, s) PROVE FreedStep
  <1>1. count \in [Buffers -> Nat] /\ s.ref \in Buffers \union {Nil}
        /\ count' = IF s.ref = Nil THEN count ELSE [count EXCEPT ![s.ref] = @ + 1]
    BY DEF IInv, SInv, TypeOK, SliceRec, Share
  <1>2. \A b \in Buffers : count[b] > 0 => count'[b] # 0
    BY <1>1
  <1>3. QED  BY <1>2, NoneGone

LEMMA AllocGrows ==
  ASSUME IInv, NEW y \in Handles, NEW b \in Buffers, NEW len, NEW cap, AllocNew(y, b, len, cap)
  PROVE  FreedStep
  <1>1. \A c \in Buffers : count[c] > 0 => count'[c] # 0
    BY DEF IInv, SInv, TypeOK, AllocNew
  <1>2. QED  BY <1>1, NoneGone

LEMMA DeallocFrees ==
  ASSUME IInv, NEW x \in Handles, Dealloc(x) PROVE FreedStep
  <1>1. h[x] \in SliceRec /\ Sound(h[x]) /\ count \in [Buffers -> Nat]
    BY HandleType DEF IInv, SInv, AllSound, TypeOK
  <1>2. CASE /\ h[x].ref # Nil /\ count[h[x].ref] = 1
             /\ count' = [count EXCEPT ![h[x].ref] = 0]
             /\ buf' = IF h[x].alloc = Nil THEN buf ELSE [buf EXCEPT ![h[x].alloc].state = "freed"]
    <2> DEFINE r == h[x].ref
    <2>1. r \in Buffers /\ \A y \in Handles : h[y].ref = r => y = x
      BY <1>2, CountedOnce DEF IInv, SInv
    <2>2. Counted(r) = {x}
      BY <2>1 DEF Counted
    <2>3. buf'[r].state = "freed" <=> h[x].alloc = r
      <3>1. CASE h[x].alloc = Nil
        <4>1. buf'[r].state = "live"
          BY <1>2, <2>1, <3>1, CountedLive DEF IInv
        <4>2. QED  BY <2>1, <3>1, <4>1, NilApart
      <3>2. CASE h[x].alloc # Nil
        <4>1. h[x].alloc = r
          BY <1>1, <3>2 DEF Sound
        <4>2. buf'[r].state = "freed"
          BY <1>2, <2>1, <3>2, <4>1 DEF IInv, SInv, TypeOK
        <4>3. QED  BY <4>1, <4>2
      <3>3. QED  BY <3>1, <3>2
    <2>4. \A b \in Buffers : b # r => count'[b] = count[b]
      BY <1>1, <1>2
    <2>5. \A b \in Buffers : count[b] > 0 /\ count'[b] = 0 => b = r
      BY <1>1, <2>4
    <2> HIDE DEF r
    <2>6. QED  BY <2>2, <2>3, <2>5 DEF FreedStep
  <1>3. CASE UNCHANGED count
    BY <1>1, <1>3, NoneGone
  <1>4. QED  BY <1>2, <1>3 DEF Dealloc

\* The second step of a release keeps every buffer: the slice has given it up.
LEMMA FinishKeeps ==
  ASSUME IInv, NEW x \in Handles, h[x].alloc = Nil, UNCHANGED buf,
         \A b \in Buffers : b # h[x].ref => count'[b] >= count[b],
         h[x].ref # Nil => count'[h[x].ref] >= count[h[x].ref] - 1
  PROVE  FreedStep
  <1>1. SUFFICES ASSUME NEW b \in Buffers, count[b] > 0, count'[b] = 0
                 PROVE  /\ buf'[b].state # "freed"
                        /\ ~ \E y \in Counted(b) : h[y].alloc = b
    BY DEF FreedStep
  <1>2. count[b] \in Nat /\ buf[b].state = "live"
    BY <1>1, CountedLive DEF IInv, SInv, TypeOK
  <1>3. h[x].ref = b /\ b # Nil
    BY <1>1, <1>2, NilApart
  <1>4. count[b] = 1
    BY <1>1, <1>2, <1>3
  <1>5. \A y \in Handles : h[y].ref = b => y = x
    BY <1>3, <1>4, CountedOnce DEF IInv, SInv
  <1>6. QED  BY <1>2, <1>3, <1>5 DEF Counted

LEMMA FinishCounts ==
  ASSUME IInv, NEW t \in Threads, pend[t].dst # Nil, NEW r \in Buffers \union {Nil},
         count' = IF r = Nil THEN Dropped(pend[t].dst) ELSE [Dropped(pend[t].dst) EXCEPT ![r] = @ + 1],
         UNCHANGED buf
  PROVE  FreedStep
  <1> DEFINE x == pend[t].dst
             q == h[x].ref
             d == Dropped(x)
  <1>1. x \in Handles /\ h[x].alloc = Nil
    BY OwnHandles DEF IInv, PendOK
  <1>2. count \in [Buffers -> Nat] /\ q \in Buffers \union {Nil}
    BY <1>1, HandleType DEF IInv, SInv, TypeOK, SliceRec
  <1>3. /\ d = IF q = Nil THEN count ELSE [count EXCEPT ![q] = @ - 1]
        /\ count' = IF r = Nil THEN d ELSE [d EXCEPT ![r] = @ + 1]
    BY DEF Dropped
  <1>4. /\ \A b \in Buffers : b # q => count'[b] >= count[b]
        /\ q # Nil => count'[q] >= count[q] - 1
    <2> HIDE DEF q, d
    <2>1. \A b \in Buffers : d[b] \in Int /\ d[b] = count[b] - (IF q = b THEN 1 ELSE 0)
      BY <1>2, <1>3, NilApart
    <2>2. \A b \in Buffers : count'[b] = d[b] + (IF r = b THEN 1 ELSE 0)
      <3>1. DOMAIN d = Buffers
        BY <1>2, <1>3
      <3>2. QED  BY <1>3, <2>1, <3>1, NilApart
    <2>3. QED  BY <1>2, <2>1, <2>2
  <1>5. QED  BY <1>1, <1>4, FinishKeeps

\* The last reference to a buffer frees it, unless the slice that had it was
\* set to nil before, or gave the buffer up together with another one.
THEOREM FreedWithLastHolds == Spec => FreedWithLast
  <1>1. ASSUME IInv, [Next]_vars PROVE [FreedStep]_vars
    <2>1. ASSUME NEW t \in Threads, NEW x \in HandlesOf(t), NEW b \in Buffers,
                 NEW len \in 1 .. MaxLen, Make(t, x, b, len)
          PROVE  FreedStep
      BY <1>1, <2>1, OwnHandles, AllocGrows DEF Make
    <2>2. ASSUME NEW t \in Threads, NEW x \in HandlesOf(t), NEW y \in Handles, Copy(t, x, y)
          PROVE  FreedStep
      BY <1>1, <2>2, OwnHandles, HandleType, ShareGrows DEF Copy, IInv, SInv
    <2>3. ASSUME NEW t \in Threads, NEW x \in HandlesOf(t), NEW y \in HandlesOf(t), Slicing(t, x, y)
          PROVE  FreedStep
      <3>1. PICK end \in 0 .. h[x].len :
               \E start \in 0 .. end : Share(y, SubSlice(h[x], start, end))
        BY <2>3 DEF Slicing
      <3>2. PICK start \in 0 .. end : Share(y, SubSlice(h[x], start, end))
        BY <3>1
      <3>3. h[x] \in SliceRec
        BY <1>1, OwnHandles, HandleType DEF IInv, SInv
      <3>4. count \in [Buffers -> Nat] /\ SubSlice(h[x], start, end).ref \in Buffers \union {Nil}
        BY <1>1, <3>3 DEF IInv, SInv, TypeOK, SliceRec, SubSlice
      <3>5. \A b \in Buffers : count[b] > 0 => count'[b] # 0
        BY <3>2, <3>4 DEF Share
      <3>6. QED  BY <3>5, NoneGone
    <2>4. ASSUME NEW t \in Threads, NEW x \in HandlesOf(t), NEW y \in HandlesOf(t),
                 NEW b \in Buffers, Append(t, x, y, b)
          PROVE  FreedStep
      <3>1. h[x] \in SliceRec /\ y \in Handles
        BY <1>1, OwnHandles, HandleType DEF IInv, SInv
      <3>2. CASE Share(y, [h[x] EXCEPT !.len = @ + 1])
        <4>1. count \in [Buffers -> Nat] /\ [h[x] EXCEPT !.len = @ + 1].ref \in Buffers \union {Nil}
          BY <1>1, <3>1 DEF IInv, SInv, TypeOK, SliceRec
        <4>2. \A c \in Buffers : count[c] > 0 => count'[c] # 0
          BY <3>2, <4>1 DEF Share
        <4>3. QED  BY <4>2, NoneGone
      <3>3. CASE AllocNew(y, b, h[x].len + 1, 2 * (h[x].len + 1))
        BY <1>1, <3>1, <3>3, AllocGrows
      <3>4. QED  BY <2>4, <3>2, <3>3 DEF Append
    <2>5. ASSUME NEW t \in Threads, NEW x \in HandlesOf(t), Dealloc(x) PROVE FreedStep
      BY <1>1, <2>5, OwnHandles, DeallocFrees
    <2>6. ASSUME NEW t \in Threads, NEW x \in HandlesOf(t), NEW y \in HandlesOf(t), AssignSame(t, x, y)
          PROVE  FreedStep
      BY <2>6, NoneGone DEF AssignSame
    <2>7. ASSUME NEW t \in Threads, AssignFinish(t) PROVE FreedStep
      <3> DEFINE y == pend[t].src
      <3>1. pend[t].dst # Nil /\ y \in Handles
        BY <1>1, <2>7, OwnHandles DEF AssignFinish, IInv, PendOK
      <3>2. h[y].ref \in Buffers \union {Nil}
        BY <1>1, <3>1, HandleType DEF IInv, SInv, SliceRec
      <3>3. CASE IsNil(h[y])
        BY <2>7, <3>3, NoneGone DEF AssignFinish
      <3>4. CASE ~IsNil(h[y])
        BY <1>1, <2>7, <3>1, <3>2, <3>4, FinishCounts DEF AssignFinish
      <3>5. QED  BY <3>3, <3>4
    <2>8. ASSUME NEW t \in Threads, LeaveFinish(t) PROVE FreedStep
      BY <1>1, <2>8, FinishCounts DEF LeaveFinish
    <2>9. CASE Next
      BY <2>9, <2>1, <2>2, <2>3, <2>4, <2>5, <2>6, <2>7, <2>8
      DEF Next, AssignNil, AssignStart, Leave
    <2>10. QED  BY <1>1, <2>9
  <1>2. QED  BY <1>1, Invariance, PTL DEF Spec, FreedWithLast, FreedStep
=============================================================================
