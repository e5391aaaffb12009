---------------------------- MODULE RefPtrProofs ----------------------------
(***************************************************************************)
(* For any finite numbers of threads, variables and cells: the counter of  *)
(* a cell is the number of pointers to it, no pointer dangles, assignments *)
(* store what their source denoted, and what is lost without being on a    *)
(* cycle is freed.                                                         *)
(***************************************************************************)
EXTENDS RefPtr, FiniteSetTheorems, TLAPS

\* The operation a thread is in owns its target slot, which is nil meanwhile.
PendOK ==
    /\ \A t \in Threads : pend[t].busy =>
          pend[t].dst \in RootsOf(t) \union Cells /\ at[pend[t].dst] = Nil
    /\ \A t \in Threads : ~pend[t].busy => pend[t].dying = Nil
    /\ \A t \in Threads, u \in Threads :
          pend[t].busy /\ pend[u].busy /\ t # u => pend[t].dst # pend[u].dst

\* Cells that are not allocated yet have no pointer to them and none in them.
UnusedOK == \A c \in Cells : cell[c] # "live" => count[c] = 0

IInv == TypeOK /\ CountExact /\ NoDangling /\ PendOK /\ UnusedOK

-----------------------------------------------------------------------------
(* Counting the pointers to a cell.                                        *)

LEMMA FiniteSlots == IsFiniteSet(Slots)
  <1>1. IsFiniteSet(Roots)
    BY ConstantAssumption, FS_Product DEF Roots
  <1>2. QED  BY <1>1, ConstantAssumption, FS_Union DEF Slots

LEMMA FinitePointers ==
  ASSUME NEW c PROVE IsFiniteSet(Pointers(c)) /\ Cardinality(Pointers(c)) \in Nat
  <1>1. Pointers(c) \subseteq Slots  BY DEF Pointers
  <1>2. QED  BY <1>1, FiniteSlots, FS_Subset, FS_CardinalityType

LEMMA NilNotCell ==
  /\ Nil \notin Cells /\ Nil \notin Slots
  /\ Cells \subseteq Slots /\ Roots \subseteq Slots
  /\ \A t \in Threads : RootsOf(t) \subseteq Slots
  /\ \A r \in Roots : r \notin Cells
  BY ConstantAssumption DEF Slots, Roots, RootsOf

\* Clearing a slot takes one off the counter of the cell it pointed to.
LEMMA ClearSlot ==
  ASSUME TypeOK, CountExact, NEW d \in Slots,
         at' = [at EXCEPT ![d] = Nil],
         count' = IF at[d] = Nil THEN count ELSE [count EXCEPT ![at[d]] = @ - 1]
  PROVE  CountExact' /\ count' \in [Cells -> Nat] /\ at' \in [Slots -> Cells \union {Nil}]
  <1>1. at' \in [Slots -> Cells \union {Nil}]
    BY DEF TypeOK
  <1>2. ASSUME NEW c \in Cells
        PROVE  count'[c] = Cardinality(Pointers(c)') /\ count'[c] \in Nat
    <2>1. count[c] = Cardinality(Pointers(c)) /\ IsFiniteSet(Pointers(c)) /\ count[c] \in Nat
      BY FinitePointers DEF CountExact
    <2>2. CASE at[d] = c
      <3>1. Pointers(c)' = Pointers(c) \ {d} /\ d \in Pointers(c)
        BY <2>2, NilNotCell DEF Pointers, TypeOK
      <3>2. count'[c] = count[c] - 1
        BY <2>2, NilNotCell DEF TypeOK
      <3>3. Cardinality(Pointers(c)') = count[c] - 1
        BY <2>1, <3>1, FS_RemoveElement
      <3>4. IsFiniteSet(Pointers(c)') /\ Cardinality(Pointers(c)') \in Nat
        BY <2>1, <3>1, FS_RemoveElement, FS_CardinalityType
      <3>5. QED  BY <3>2, <3>3, <3>4
    <2>3. CASE at[d] # c
      <3>1. Pointers(c)' = Pointers(c)
        BY <2>3, NilNotCell DEF Pointers, TypeOK
      <3>2. count'[c] = count[c]
        BY <2>3 DEF TypeOK
      <3>3. QED  BY <2>1, <3>1, <3>2
    <2>4. QED  BY <2>2, <2>3
  <1>3. count' \in [Cells -> Nat]
    <2>1. count' = [c \in Cells |-> count'[c]]
      BY DEF TypeOK
    <2>2. QED  BY <1>2, <2>1
  <1>4. QED  BY <1>1, <1>2, <1>3 DEF CountExact

\* Setting a nil slot adds one to the counter of the cell it now points to.
LEMMA SetSlot ==
  ASSUME TypeOK, CountExact, NEW d \in Slots, at[d] = Nil,
         NEW v \in Cells \union {Nil},
         at' = [at EXCEPT ![d] = v],
         count' = IF v = Nil THEN count ELSE [count EXCEPT ![v] = @ + 1]
  PROVE  CountExact' /\ count' \in [Cells -> Nat] /\ at' \in [Slots -> Cells \union {Nil}]
  <1>1. at' \in [Slots -> Cells \union {Nil}]
    BY DEF TypeOK
  <1>2. ASSUME NEW c \in Cells
        PROVE  count'[c] = Cardinality(Pointers(c)') /\ count'[c] \in Nat
    <2>1. count[c] = Cardinality(Pointers(c)) /\ IsFiniteSet(Pointers(c)) /\ count[c] \in Nat
      BY FinitePointers DEF CountExact
    <2>2. CASE v = c
      <3>1. Pointers(c)' = Pointers(c) \union {d} /\ d \notin Pointers(c)
        BY <2>2, NilNotCell DEF Pointers, TypeOK
      <3>2. count'[c] = count[c] + 1
        BY <2>2, NilNotCell DEF TypeOK
      <3>3. Cardinality(Pointers(c)') = count[c] + 1
        BY <2>1, <3>1, FS_AddElement, SMTT(20)
      <3>4. QED  BY <2>1, <3>2, <3>3
    <2>3. CASE v # c
      <3>1. Pointers(c)' = Pointers(c)
        BY <2>3, NilNotCell DEF Pointers, TypeOK
      <3>2. count'[c] = count[c]
        BY <2>3 DEF TypeOK
      <3>3. QED  BY <2>1, <3>1, <3>2
    <2>4. QED  BY <2>2, <2>3
  <1>3. count' \in [Cells -> Nat]
    <2>1. count' = [c \in Cells |-> count'[c]]
      BY DEF TypeOK
    <2>2. QED  BY <1>2, <2>1
  <1>4. QED  BY <1>1, <1>2, <1>3 DEF CountExact

\* A counter of one belongs to the only pointer there is.
LEMMA LastOwner ==
  ASSUME TypeOK, CountExact, NEW d \in Slots, at[d] # Nil, count[at[d]] = 1
  PROVE  \A s \in Slots : at[s] = at[d] => s = d
  <1>1. at[d] \in Cells  BY DEF TypeOK
  <1>2. Cardinality(Pointers(at[d])) = 1 /\ IsFiniteSet(Pointers(at[d]))
    BY <1>1, FinitePointers DEF CountExact
  <1>3. PICK x : Pointers(at[d]) = {x}
    BY <1>2, FS_Singleton
  <1>4. QED  BY <1>3 DEF Pointers

\* No pointer is a counter of zero.
LEMMA NoOwner ==
  ASSUME TypeOK, CountExact, NEW c \in Cells
  PROVE  count[c] = 0 <=> \A s \in Slots : at[s] # c
  <1>1. Cardinality(Pointers(c)) = 0 <=> Pointers(c) = {}
    BY FinitePointers, FS_EmptySet
  <1>2. QED  BY <1>1 DEF CountExact, Pointers

\* What a set of cells leads to is the smallest closed set around it.
LEMMA ReachSelf == \A R \in SUBSET Cells : R \subseteq Reach(R)
  BY DEF Reach

LEMMA ReachClosed ==
  ASSUME TypeOK, NEW R \in SUBSET Cells
  PROVE  Reach(R) \subseteq Cells /\ \A c \in Reach(R) : at[c] \in Reach(R) \union {Nil}
  <1>1. SUFFICES ASSUME NEW c \in Reach(R), at[c] # Nil PROVE at[c] \in Reach(R)
    BY DEF Reach
  <1>2. at[c] \in Cells
    BY <1>1, NilNotCell DEF TypeOK, Reach
  <1>3. ASSUME NEW S \in SUBSET Cells, R \subseteq S, Closed(S) PROVE at[c] \in S
    <2>1. c \in S
      BY <1>1, <1>3 DEF Reach
    <2>2. QED  BY <1>1, <1>3, <2>1 DEF Closed
  <1>4. QED  BY <1>2, <1>3 DEF Reach

\* The target of an assignment is not that of another thread's.
LEMMA TargetFree ==
  ASSUME IInv, NEW t \in Threads, NEW d \in Targets(t), ~pend[t].busy
  PROVE  /\ d \in RootsOf(t) \union Cells
         /\ \A u \in Threads : pend[u].busy => pend[u].dst # d
  <1>1. d \in RootsOf(t) \union Cells
    BY NilNotCell DEF Targets, Fields, IInv, TypeOK
  <1>2. ASSUME NEW u \in Threads, pend[u].busy, pend[u].dst = d PROVE FALSE
    <2>1. u # t  BY <1>2
    <2>2. d \in RootsOf(u) \union Cells
      BY <1>2 DEF IInv, PendOK
    <2>3. d \in Cells
      BY <1>1, <2>1, <2>2, NilNotCell DEF RootsOf
    <2>4. d \in Held(u)
      BY <1>2, <2>3 DEF Held
    <2>5. d \notin Reach(Held(u))
      BY <2>1, <2>3 DEF Targets, Exclusive
    <2>6. Held(u) \in SUBSET Cells
      BY DEF Held
    <2>7. QED  BY <2>4, <2>5, <2>6, ReachSelf
  <1>3. QED  BY <1>1, <1>2

-----------------------------------------------------------------------------
(* One lemma per action.                                                   *)

LEMMA InitIInv == ASSUME Init PROVE IInv
  <1>1. TypeOK
    BY DEF Init, TypeOK, Idle
  <1>2. CountExact
    <2>1. \A c \in Cells : Pointers(c) = {}
      BY NilNotCell DEF Init, Pointers
    <2>2. QED  BY <2>1, FS_EmptySet DEF Init, CountExact
  <1>3. NoDangling /\ PendOK /\ UnusedOK
    BY DEF Init, Idle, NoDangling, PendOK, UnusedOK
  <1>4. QED  BY <1>1, <1>2, <1>3 DEF IInv

LEMMA MakeIInv ==
  ASSUME IInv, NEW t \in Threads, NEW r \in Roots, Make(t, r) PROVE IInv'
  <1>1. PICK c \in Cells :
           /\ cell[c] = "unused"
           /\ cell' = [cell EXCEPT ![c] = "live"]
           /\ count' = [count EXCEPT ![c] = 1]
           /\ at' = [at EXCEPT ![r] = c]
    BY DEF Make
  <1>2. UNCHANGED <<pend, badRead>> /\ at[r] = Nil /\ ~pend[t].busy
        /\ r \in RootsOf(t) /\ r \in Slots /\ r \notin Cells
    BY NilNotCell DEF Make
  <1>3. count[c] = 0
    BY <1>1 DEF IInv, UnusedOK
  <1>4. c # Nil /\ \A s \in Slots : at[s] # c
    BY <1>3, NoOwner, NilNotCell DEF IInv
  <1>5. count' = IF c = Nil THEN count ELSE [count EXCEPT ![c] = @ + 1]
    BY <1>1, <1>3, <1>4 DEF IInv, TypeOK
  <1>6. CountExact' /\ count' \in [Cells -> Nat] /\ at' \in [Slots -> Cells \union {Nil}]
    BY <1>1, <1>2, <1>5, SetSlot DEF IInv
  <1>7. TypeOK'
    BY <1>1, <1>2, <1>6 DEF IInv, TypeOK
  <1>8. NoDangling'
    BY <1>1, <1>2, <1>4 DEF IInv, NoDangling, TypeOK
  <1>9. PendOK'
    <2>1. \A u \in Threads : pend[u].busy => pend[u].dst # r
      BY <1>2, NilNotCell DEF IInv, PendOK, RootsOf
    <2>2. QED  BY <1>1, <1>2, <2>1, NilNotCell DEF IInv, PendOK, TypeOK, RootsOf
  <1>10. UnusedOK'
    BY <1>1 DEF IInv, UnusedOK, TypeOK
  <1>11. QED  BY <1>6, <1>7, <1>8, <1>9, <1>10 DEF IInv

LEMMA CopyIInv ==
  ASSUME IInv, NEW t \in Threads, NEW s \in Slots, NEW r \in Roots, Copy(t, s, r)
  PROVE  IInv'
  <1> DEFINE v == at[s]
  <1>1. PICK u \in Threads : r \in RootsOf(u) /\ ~pend[u].busy
    BY DEF Copy
  <1>2. /\ v \in Cells /\ v # Nil /\ at[r] = Nil /\ r \in Slots /\ r \notin Cells
        /\ count' = [count EXCEPT ![v] = @ + 1]
        /\ at' = [at EXCEPT ![r] = v]
        /\ UNCHANGED <<cell, pend, badRead>>
    BY NilNotCell DEF Copy, IInv, TypeOK
  <1>3. CountExact' /\ count' \in [Cells -> Nat] /\ at' \in [Slots -> Cells \union {Nil}]
    BY <1>2, SetSlot DEF IInv
  <1>4. TypeOK'
    BY <1>2, <1>3 DEF IInv, TypeOK
  <1>5. NoDangling'
    BY <1>2 DEF IInv, NoDangling, TypeOK
  <1>6. PendOK'
    <2>1. \A w \in Threads : pend[w].busy => pend[w].dst # r
      BY <1>1, <1>2, NilNotCell DEF IInv, PendOK, RootsOf
    <2>2. QED  BY <1>2, <2>1, NilNotCell DEF IInv, PendOK, TypeOK, RootsOf
  <1>7. UnusedOK'
    <2>1. cell[v] = "live"
      BY <1>2 DEF IInv, NoDangling
    <2>2. QED  BY <1>2, <2>1 DEF IInv, UnusedOK, TypeOK
  <1>8. QED  BY <1>3, <1>4, <1>5, <1>6, <1>7 DEF IInv

\* The cell that dropping the pointer in slot d frees.
Dying(d) == IF at[d] # Nil /\ count[at[d]] = 1 THEN at[d] ELSE Nil

\* Dropping what slot d points to: the part of Assign and Free that both share.
LEMMA DropSlot ==
  ASSUME IInv, NEW d \in Slots,
         at' = [at EXCEPT ![d] = Nil],
         count' = IF at[d] = Nil THEN count ELSE [count EXCEPT ![at[d]] = @ - 1]
  PROVE  /\ CountExact' /\ count' \in [Cells -> Nat] /\ at' \in [Slots -> Cells \union {Nil}]
         /\ Dying(d) \in Cells \union {Nil}
         /\ Dying(d) # Nil => cell[Dying(d)] = "live" /\ \A u \in Threads : pend[u].dying # Dying(d)
         /\ \A s \in Slots : at'[s] # Nil => at'[s] = at[s] /\ at'[s] # Dying(d)
         /\ \A c \in Cells : count[c] = 0 => count'[c] = 0
  <1>1. CountExact' /\ count' \in [Cells -> Nat] /\ at' \in [Slots -> Cells \union {Nil}]
    BY ClearSlot DEF IInv
  <1>2. Dying(d) \in Cells \union {Nil}
    BY DEF IInv, TypeOK, Dying
  <1>3. Dying(d) # Nil => cell[Dying(d)] = "live" /\ \A u \in Threads : pend[u].dying # Dying(d)
    BY DEF IInv, NoDangling, Dying
  <1>4. \A s \in Slots : at'[s] # Nil => at'[s] = at[s] /\ s # d
    BY DEF IInv, TypeOK
  <1>5. \A s \in Slots : at'[s] # Nil => at'[s] # Dying(d)
    BY <1>4, LastOwner DEF IInv, Dying
  <1>6. \A c \in Cells : count[c] = 0 => count'[c] = 0
    <2>1. \A c \in Cells : count[c] = 0 => at[d] # c
      BY NoOwner DEF IInv
    <2>2. QED  BY <2>1 DEF IInv, TypeOK
  <1>7. QED  BY <1>1, <1>2, <1>3, <1>4, <1>5, <1>6

LEMMA AssignIInv ==
  ASSUME IInv, NEW t \in Threads, NEW d \in Slots, NEW s \in Slots \union {Nil},
         Assign(t, d, s)
  PROVE  IInv'
  <1> DEFINE dying == Dying(d)
             p == [busy |-> TRUE, dst |-> d, src |-> s, want |-> Value(s), dying |-> dying]
  <1>1. /\ ~pend[t].busy /\ d \in Targets(t)
        /\ pend' = [pend EXCEPT ![t] = p]
        /\ count' = IF at[d] = Nil THEN count ELSE [count EXCEPT ![at[d]] = @ - 1]
        /\ at' = [at EXCEPT ![d] = Nil]
        /\ UNCHANGED <<cell, badRead>>
    BY DEF Assign, Dying
  <1>2. /\ CountExact' /\ count' \in [Cells -> Nat] /\ at' \in [Slots -> Cells \union {Nil}]
        /\ dying \in Cells \union {Nil}
        /\ dying # Nil => cell[dying] = "live" /\ \A u \in Threads : pend[u].dying # dying
        /\ \A x \in Slots : at'[x] # Nil => at'[x] = at[x] /\ at'[x] # dying
        /\ \A c \in Cells : count[c] = 0 => count'[c] = 0
    BY <1>1, DropSlot
  <1>3. d \in RootsOf(t) \union Cells /\ \A u \in Threads : pend[u].busy => pend[u].dst # d
    BY <1>1, TargetFree
  <1>4. Value(s) \in Cells \union {Nil}
    BY DEF Value, IInv, TypeOK
  <1> HIDE DEF dying
  <1>5. TypeOK'
    BY <1>1, <1>2, <1>4 DEF IInv, TypeOK
  <1>6. \A u \in Threads : pend'[u] = IF u = t THEN p ELSE pend[u]
    BY <1>1 DEF IInv, TypeOK
  <1>7. NoDangling'
    <2>1. ASSUME NEW x \in Slots, at'[x] # Nil
          PROVE  cell'[at'[x]] = "live" /\ \A u \in Threads : pend'[u].dying # at'[x]
      BY <1>1, <1>2, <1>6, <2>1 DEF IInv, NoDangling
    <2>2. ASSUME NEW u \in Threads, pend'[u].dying # Nil
          PROVE  /\ cell'[pend'[u].dying] = "live"
                 /\ \A w \in Threads \ {u} : pend'[w].dying # pend'[u].dying
      BY <1>1, <1>2, <1>6, <2>2 DEF IInv, NoDangling
    <2>3. QED  BY <2>1, <2>2 DEF NoDangling
  <1>8. PendOK'
    <2>1. at'[d] = Nil
      BY <1>1 DEF IInv, TypeOK
    <2>2. \A u \in Threads : pend[u].busy => at'[pend[u].dst] = Nil
      BY <1>1, NilNotCell DEF IInv, PendOK, TypeOK
    <2>3. QED  BY <1>3, <1>6, <2>1, <2>2 DEF IInv, PendOK
  <1>9. UnusedOK'
    BY <1>1, <1>2 DEF IInv, UnusedOK
  <1>10. QED  BY <1>2, <1>5, <1>7, <1>8, <1>9 DEF IInv

LEMMA FreeIInv == ASSUME IInv, NEW t \in Threads, Free(t) PROVE IInv'
  <1> DEFINE c == pend[t].dying
             n == at[c]
             dying == Dying(c)
  <1>1. /\ c # Nil
        /\ cell' = [cell EXCEPT ![c] = "dead"]
        /\ at' = [at EXCEPT ![c] = Nil]
        /\ count' = IF n = Nil THEN count ELSE [count EXCEPT ![n] = @ - 1]
        /\ pend' = [pend EXCEPT ![t].dying = dying]
        /\ UNCHANGED badRead
    BY DEF Free, Dying
  <1>2. c \in Cells /\ c \in Slots /\ cell[c] = "live" /\ pend[t].busy
        /\ \A s \in Slots : at[s] # c
    BY <1>1, NilNotCell DEF IInv, TypeOK, NoDangling, PendOK
  <1>3. /\ CountExact' /\ count' \in [Cells -> Nat] /\ at' \in [Slots -> Cells \union {Nil}]
        /\ dying \in Cells \union {Nil}
        /\ dying # Nil => cell[dying] = "live" /\ \A u \in Threads : pend[u].dying # dying
        /\ \A x \in Slots : at'[x] # Nil => at'[x] = at[x] /\ at'[x] # dying
        /\ \A x \in Cells : count[x] = 0 => count'[x] = 0
    BY <1>1, <1>2, DropSlot
  <1>4. dying # c
    BY <1>1, <1>2 DEF Dying
  <1>5. count[c] = 0
    BY <1>2, NoOwner DEF IInv
  <1>6. \A u \in Threads : /\ pend'[u].dying = (IF u = t THEN dying ELSE pend[u].dying)
                           /\ pend'[u].busy = pend[u].busy
                           /\ pend'[u].dst = pend[u].dst
    BY <1>1 DEF IInv, TypeOK
  <1>7. \A u \in Threads \ {t} : pend[u].dying # c
    BY <1>1 DEF IInv, NoDangling
  <1>8. TypeOK'
    BY <1>1, <1>2, <1>3 DEF IInv, TypeOK
  <1> HIDE DEF dying
  <1>9. NoDangling'
    <2>1. ASSUME NEW x \in Slots, at'[x] # Nil
          PROVE  cell'[at'[x]] = "live" /\ \A u \in Threads : pend'[u].dying # at'[x]
      <3>1. at'[x] = at[x] /\ at[x] # c /\ at[x] \in Cells
        BY <1>2, <1>3, <2>1 DEF IInv, TypeOK
      <3>2. QED  BY <1>1, <1>3, <1>6, <2>1, <3>1 DEF IInv, NoDangling, TypeOK
    <2>2. ASSUME NEW u \in Threads, pend'[u].dying # Nil
          PROVE  /\ cell'[pend'[u].dying] = "live"
                 /\ \A w \in Threads \ {u} : pend'[w].dying # pend'[u].dying
      <3>1. pend'[u].dying # c
        BY <1>4, <1>6, <1>7
      <3>2. pend'[u].dying \in Cells /\ cell[pend'[u].dying] = "live"
        BY <1>3, <1>6, <2>2 DEF IInv, NoDangling, TypeOK
      <3>3. \A w \in Threads \ {u} : pend'[w].dying # pend'[u].dying
        BY <1>3, <1>6, <2>2 DEF IInv, NoDangling
      <3>4. QED  BY <1>1, <3>1, <3>2, <3>3 DEF IInv, TypeOK
    <2>3. QED  BY <2>1, <2>2 DEF NoDangling
  <1>10. PendOK'
    <2>1. \A u \in Threads : pend[u].busy => at'[pend[u].dst] = Nil
      BY <1>1, NilNotCell DEF IInv, PendOK, TypeOK
    <2>2. \A u \in Threads : ~pend[u].busy => u # t
      BY <1>2
    <2>3. QED  BY <1>6, <2>1, <2>2 DEF IInv, PendOK
  <1>11. UnusedOK'
    BY <1>1, <1>2, <1>3, <1>5 DEF IInv, UnusedOK, TypeOK
  <1>12. QED  BY <1>3, <1>8, <1>9, <1>10, <1>11 DEF IInv

LEMMA FinishIInv == ASSUME IInv, NEW t \in Threads, Finish(t) PROVE IInv'
  <1> DEFINE d == pend[t].dst
             v == Value(pend[t].src)
  <1>1. /\ pend[t].busy /\ pend[t].dying = Nil
        /\ badRead' \in BOOLEAN
        /\ at' = [at EXCEPT ![d] = v]
        /\ count' = IF v = Nil THEN count ELSE [count EXCEPT ![v] = @ + 1]
        /\ pend' = [pend EXCEPT ![t] = Idle]
        /\ UNCHANGED cell
    BY DEF Finish, IInv, TypeOK
  <1>2. d \in Slots /\ at[d] = Nil
    BY <1>1, NilNotCell DEF IInv, PendOK
  <1>3. v \in Cells \union {Nil} /\ (v # Nil => \E s \in Slots : at[s] = v)
    BY DEF IInv, TypeOK, Value
  <1>4. CountExact' /\ count' \in [Cells -> Nat] /\ at' \in [Slots -> Cells \union {Nil}]
    BY <1>1, <1>2, <1>3, SetSlot DEF IInv
  <1>5. TypeOK'
    BY <1>1, <1>4 DEF IInv, TypeOK, Idle
  <1>6. \A u \in Threads : pend'[u] = IF u = t THEN Idle ELSE pend[u]
    BY <1>1 DEF IInv, TypeOK
  <1>7. v # Nil => cell[v] = "live" /\ \A u \in Threads : pend[u].dying # v
    BY <1>3 DEF IInv, NoDangling
  <1> HIDE DEF v
  <1>8. NoDangling'
    <2>1. \A x \in Slots : at'[x] = (IF x = d THEN v ELSE at[x])
      BY <1>1 DEF IInv, TypeOK
    <2>2. \A u \in Threads : pend'[u].dying \in {pend[u].dying, Nil}
      BY <1>6 DEF Idle
    <2>3. QED  BY <1>1, <1>7, <2>1, <2>2 DEF IInv, NoDangling
  <1>9. PendOK'
    <2>1. \A u \in Threads : u # t /\ pend[u].busy => pend[u].dst # d
      BY <1>1 DEF IInv, PendOK
    <2>2. \A u \in Threads : u # t /\ pend[u].busy => at'[pend[u].dst] = Nil
      BY <1>1, <2>1, NilNotCell DEF IInv, PendOK, TypeOK
    <2>3. QED  BY <1>6, <2>2 DEF IInv, PendOK, Idle
  <1>10. UnusedOK'
    BY <1>1, <1>3, <1>7 DEF IInv, UnusedOK, TypeOK
  <1>11. QED  BY <1>4, <1>5, <1>8, <1>9, <1>10 DEF IInv

LEMMA NextIInv == ASSUME IInv, [Next]_vars PROVE IInv'
  <1>1. CASE UNCHANGED vars
    BY <1>1 DEF vars, IInv, TypeOK, CountExact, Pointers, NoDangling, PendOK, UnusedOK
  <1>2. CASE Next
    BY <1>2, MakeIInv, CopyIInv, AssignIInv, FreeIInv, FinishIInv DEF Next
  <1>3. QED  BY <1>1, <1>2

-----------------------------------------------------------------------------
\* The inductive invariant of the reference counts.
THEOREM Invariance == Spec => []IInv
  <1>1. Init => IInv  BY InitIInv
  <1>2. IInv /\ [Next]_vars => IInv'  BY NextIInv
  <1>3. QED  BY <1>1, <1>2, PTL DEF Spec

\* The counter of a cell is the number of pointers to it, for any number of
\* threads that copy, assign and drop them (Ptr of ptr.hpp).
THEOREM CountExactHolds == Spec => []CountExact
  <1>1. IInv => CountExact  BY DEF IInv
  <1>2. QED  BY <1>1, Invariance, PTL

\* No pointer leads to a freed cell and no cell is freed twice.
THEOREM NoDanglingHolds == Spec => []NoDangling
  <1>1. IInv => NoDangling  BY DEF IInv
  <1>2. QED  BY <1>1, Invariance, PTL

-----------------------------------------------------------------------------
(* Assignments store what their source denoted, if the source is not in    *)
(* the object that the destination holds.                                  *)

\* Only live cells have a pointer in them.
EmptyUnlessLive == \A c \in Cells : cell[c] # "live" => at[c] = Nil

\* The source still denotes what it did, and fields of the operation are in
\* cells that the thread holds on to by a variable.
Settled(t) ==
    /\ pend[t].src \in RootsOf(t) \union Cells \union {Nil}
    /\ Value(pend[t].src) = pend[t].want
    /\ pend[t].dst \in Cells => \E y \in RootsOf(t) : at[y] = pend[t].dst
    /\ pend[t].src \in Cells => \E y \in RootsOf(t) \ {pend[t].dst} : at[y] = pend[t].src

\* No other thread comes near a field while it is assigned.
Private(t) == pend[t].dst \in Cells => \A u \in Threads \ {t} : pend[t].dst \notin Reach(Held(u))

SInv == EmptyUnlessLive /\ \A t \in Threads : pend[t].busy => Settled(t) /\ Private(t)

\* A thread's own cells, and what they lead to.
LEMMA HeldClosed ==
  ASSUME TypeOK, NEW u \in Threads
  PROVE  /\ Held(u) \subseteq Reach(Held(u)) /\ Reach(Held(u)) \subseteq Cells
         /\ \A c \in Reach(Held(u)) : at[c] \in Reach(Held(u)) \union {Nil}
  <1>1. Held(u) \in SUBSET Cells
    BY DEF Held
  <1>2. QED  BY <1>1, ReachSelf, ReachClosed

\* A set that is closed after a step bounds what is reached then.
LEMMA StaysFar ==
  ASSUME NEW d \in Cells, NEW u \in Threads, NEW S \in SUBSET Cells, d \notin S,
         Held(u)' \subseteq S, \A c \in S : at'[c] \in S \union {Nil}
  PROVE  d \notin Reach(Held(u))'
  <1>1. Closed(S)'
    BY DEF Closed
  <1>2. QED  BY <1>1 DEF Reach

\* What leaves the slots of an operation alone leaves it settled.
LEMMA StaysSettled ==
  ASSUME NEW t \in Threads, Settled(t),
         pend'[t].dst = pend[t].dst, pend'[t].src = pend[t].src, pend'[t].want = pend[t].want,
         \A y \in RootsOf(t) : at'[y] = at[y],
         pend[t].src \in Cells => at'[pend[t].src] = at[pend[t].src]
  PROVE  Settled(t)'
  <1>1. Value(pend[t].src)' = Value(pend[t].src)
    BY DEF Settled, Value
  <1>2. QED  BY <1>1 DEF Settled

\* Variables belong to one thread.
LEMMA OwnRoots ==
  ASSUME NEW t \in Threads, NEW u \in Threads, t # u
  PROVE  \A x \in RootsOf(t), y \in RootsOf(u) : x # y
  BY DEF RootsOf

LEMMA RootsApart == \A t \in Threads : \A y \in RootsOf(t) : y \in Slots /\ y \notin Cells
  BY NilNotCell DEF Roots, RootsOf

\* A step that adds no field and gives no thread more than another holds.
LEMMA StaysPrivate ==
  ASSUME TypeOK, NEW t \in Threads, Private(t), pend'[t].dst = pend[t].dst,
         \A c \in Cells : at'[c] \in {at[c], Nil},
         \A u \in Threads \ {t} : \E w \in Threads \ {t} :
             Held(u)' \subseteq Reach(Held(u)) \union Reach(Held(w))
  PROVE  Private(t)'
  <1>1. SUFFICES ASSUME pend[t].dst \in Cells, NEW u \in Threads \ {t}
                 PROVE  pend[t].dst \notin Reach(Held(u))'
    BY DEF Private
  <1>2. PICK w \in Threads \ {t} : Held(u)' \subseteq Reach(Held(u)) \union Reach(Held(w))
    OBVIOUS
  <1> DEFINE S == Reach(Held(u)) \union Reach(Held(w))
  <1>3. S \in SUBSET Cells /\ \A c \in S : at[c] \in S \union {Nil}
    BY HeldClosed
  <1>4. pend[t].dst \notin S
    BY <1>1 DEF Private
  <1> HIDE DEF S
  <1>5. Held(u)' \subseteq S
    BY <1>2 DEF S
  <1>6. \A c \in S : at'[c] \in S \union {Nil}
    BY <1>3
  <1>7. QED  BY <1>1, <1>3, <1>4, <1>5, <1>6, StaysFar

LEMMA MakeSInv ==
  ASSUME IInv, SInv, NEW t \in Threads, NEW r \in Roots, Make(t, r)
  PROVE  SInv'
  <1>1. PICK c \in Cells :
           /\ cell[c] = "unused"
           /\ cell' = [cell EXCEPT ![c] = "live"]
           /\ at' = [at EXCEPT ![r] = c]
    BY DEF Make
  <1>2. /\ UNCHANGED pend /\ ~pend[t].busy /\ r \in RootsOf(t) /\ r \in Slots
        /\ \A x \in Slots : x # r => at'[x] = at[x]
        /\ \A x \in Cells : x # r /\ at'[x] = at[x]
    BY <1>1, NilNotCell DEF Make, IInv, TypeOK
  <1>3. TypeOK /\ at[c] = Nil
    BY <1>1 DEF IInv, SInv, EmptyUnlessLive
  <1>4. EmptyUnlessLive'
    BY <1>1, <1>2, <1>3 DEF SInv, EmptyUnlessLive, TypeOK
  <1>5. ASSUME NEW w \in Threads, pend[w].busy PROVE Settled(w)' /\ Private(w)'
    <2>1. w # t /\ \A y \in RootsOf(w) : at'[y] = at[y]
      BY <1>2, <1>5, OwnRoots, NilNotCell
    <2>2. Settled(w) /\ Private(w)
      BY <1>5 DEF SInv
    <2>3. Settled(w)'
      BY <1>2, <2>1, <2>2, StaysSettled
    <2>4. ASSUME pend[w].dst \in Cells, NEW u \in Threads \ {w}
          PROVE  pend[w].dst \notin Reach(Held(u))'
      <3> DEFINE S == Reach(Held(u)) \union {c}
      <3>1. S \in SUBSET Cells /\ \A x \in S : at'[x] \in S \union {Nil}
        BY <1>1, <1>2, <1>3, HeldClosed
      <3>2. Held(u)' \subseteq S
        <4>1. Held(u)' \subseteq Held(u) \union {c}
          BY <1>1, <1>2, NilNotCell DEF Held, IInv, TypeOK
        <4>2. QED  BY <1>3, <4>1, HeldClosed
      <3>3. pend[w].dst # c
        BY <1>1, <2>2, <2>4, NilNotCell DEF Settled, IInv, NoDangling
      <3>4. pend[w].dst \notin S
        BY <2>2, <2>4, <3>3 DEF Private
      <3> HIDE DEF S
      <3>5. QED  BY <2>4, <3>1, <3>2, <3>4, StaysFar
    <2>5. QED  BY <1>2, <2>3, <2>4 DEF Private
  <1>6. QED  BY <1>2, <1>4, <1>5 DEF SInv

LEMMA CopySInv ==
  ASSUME IInv, SInv, NEW t \in Threads, NEW s \in Slots, NEW r \in Roots, Copy(t, s, r)
  PROVE  SInv'
  <1>1. PICK u \in Threads : r \in RootsOf(u) /\ ~pend[u].busy
    BY DEF Copy
  <1>2. /\ UNCHANGED <<cell, pend>> /\ ~pend[t].busy /\ r \in Slots
        /\ at' = [at EXCEPT ![r] = at[s]]
        /\ s \in RootsOf(t) \union Fields(t, RootsOf(t)) /\ at[s] \in Cells
        /\ \A x \in Slots : x # r => at'[x] = at[x]
        /\ \A x \in Cells : x # r /\ at'[x] = at[x]
    BY NilNotCell DEF Copy, IInv, TypeOK
  <1>3. TypeOK
    BY DEF IInv
  <1>4. EmptyUnlessLive'
    BY <1>2 DEF SInv, EmptyUnlessLive
  <1>5. at[s] \in Reach(Held(t))
    <2>1. CASE s \in RootsOf(t)
      BY <1>2, <1>3, <2>1, HeldClosed DEF Held
    <2>2. CASE s \in Fields(t, RootsOf(t))
      <3>1. s \in Held(t)
        BY <1>2, <1>3, <2>2, NilNotCell DEF Fields, Held, TypeOK
      <3>2. QED  BY <1>2, <1>3, <3>1, HeldClosed, NilNotCell
    <2>3. QED  BY <1>2, <2>1, <2>2
  <1>6. \A w \in Threads : Held(w)' \subseteq Reach(Held(w)) \union Reach(Held(t))
    <2>1. \A w \in Threads : Held(w)' \subseteq Held(w) \union {at[s]}
      BY <1>2, NilNotCell DEF Held, IInv, TypeOK
    <2>2. QED  BY <1>3, <1>5, <2>1, HeldClosed
  <1>7. ASSUME NEW w \in Threads, pend[w].busy PROVE Settled(w)' /\ Private(w)'
    <2>1. w # t /\ w # u /\ \A y \in RootsOf(w) : at'[y] = at[y]
      BY <1>1, <1>2, <1>7, OwnRoots, NilNotCell
    <2>2. Settled(w) /\ Private(w)
      BY <1>7 DEF SInv
    <2>3. Settled(w)'
      BY <1>2, <2>1, <2>2, StaysSettled
    <2>4. Private(w)'
      BY <1>2, <1>3, <1>6, <2>1, <2>2, StaysPrivate
    <2>5. QED  BY <2>3, <2>4
  <1>8. QED  BY <1>2, <1>4, <1>7 DEF SInv

LEMMA AssignSInv ==
  ASSUME IInv, SInv, SelfAdvance = FALSE, NEW t \in Threads, NEW d \in Slots,
         NEW s \in Slots \union {Nil}, Assign(t, d, s)
  PROVE  SInv'
  <1>1. /\ ~pend[t].busy /\ d \in Targets(t) /\ s \in Sources(t, d)
        /\ at[d] # Nil => at[d] # Value(s)
        /\ at' = [at EXCEPT ![d] = Nil] /\ UNCHANGED cell
        /\ \A x \in Slots : at'[x] = IF x = d THEN Nil ELSE at[x]
    BY DEF Assign, IInv, TypeOK
  <1>2. /\ pend'[t].busy /\ pend'[t].dst = d /\ pend'[t].src = s /\ pend'[t].want = Value(s)
        /\ \A u \in Threads \ {t} : pend'[u] = pend[u]
    BY DEF Assign, IInv, TypeOK
  <1>3. TypeOK /\ d \in RootsOf(t) \union Cells
    BY <1>1, TargetFree DEF IInv
  <1>4. EmptyUnlessLive'
    BY <1>1, NilNotCell DEF SInv, EmptyUnlessLive
  <1>5. /\ d \in Cells => \E y \in RootsOf(t) : at[y] = d
        /\ s \in Cells => \E y \in RootsOf(t) \ {d} : at[y] = s
        /\ s \in RootsOf(t) \union Cells \union {Nil}
    BY <1>1, <1>3, NilNotCell DEF Targets, Sources, Fields, TypeOK, Roots, RootsOf
  <1>6. \A u \in Threads : Held(u)' \subseteq Held(u)
    <2>1. ASSUME NEW u \in Threads \ {t} PROVE Held(u)' \subseteq Held(u)
      BY <1>1, <1>2, NilNotCell DEF Held
    <2>2. Held(t)' \subseteq Held(t)
      BY <1>1, <1>2, <1>5, NilNotCell DEF Held
    <2>3. QED  BY <2>1, <2>2
  <1>7. \A u \in Threads : Held(u)' \subseteq Reach(Held(u))
    BY <1>3, <1>6, HeldClosed
  <1>8. ASSUME NEW w \in Threads \ {t}, pend[w].busy PROVE Settled(w)' /\ Private(w)'
    <2>1. Settled(w) /\ Private(w)
      BY <1>8 DEF SInv
    <2>2. \A y \in RootsOf(w) : at'[y] = at[y]
      <3>1. \A y \in RootsOf(w) : y \in Slots /\ y # d
        BY <1>3, OwnRoots, RootsApart
      <3>2. QED  BY <1>1, <3>1
    <2>3. pend[w].src \in Cells => pend[w].src # d
      <3>1. pend[w].src \in Cells => pend[w].src \in Reach(Held(w))
        BY <1>3, HeldClosed DEF Held
      <3>2. d \in Cells => d \notin Reach(Held(w))
        BY <1>1 DEF Targets, Exclusive
      <3>3. QED  BY <3>1, <3>2
    <2>4. Settled(w)'
      BY <1>1, <1>2, <2>1, <2>2, <2>3, NilNotCell, StaysSettled
    <2>5. Private(w)'
      BY <1>1, <1>2, <1>3, <1>7, <2>1, NilNotCell, StaysPrivate
    <2>6. QED  BY <2>4, <2>5
  <1>9. Settled(t)'
    <2>1. Value(s)' = Value(s)
      BY <1>1, NilNotCell DEF Value
    <2>2. \A y \in RootsOf(t) \ {d} : at'[y] = at[y]
      BY <1>1, RootsApart
    <2>3. d \in Cells => \E y \in RootsOf(t) : at'[y] = d
      BY <1>5, <2>2, RootsApart
    <2>4. s \in Cells => \E y \in RootsOf(t) \ {d} : at'[y] = s
      BY <1>5, <2>2
    <2>5. QED  BY <1>2, <1>5, <2>1, <2>3, <2>4 DEF Settled
  <1>10. Private(t)'
    <2>1. ASSUME d \in Cells, NEW u \in Threads \ {t} PROVE d \notin Reach(Held(u))'
      <3> DEFINE S == Reach(Held(u))
      <3>1. S \in SUBSET Cells /\ Held(u)' \subseteq S /\ \A c \in S : at'[c] \in S \union {Nil}
        BY <1>1, <1>3, <1>7, HeldClosed, NilNotCell
      <3>2. d \notin S
        BY <1>1, <2>1 DEF Targets, Exclusive
      <3> HIDE DEF S
      <3>3. QED  BY <2>1, <3>1, <3>2, StaysFar
    <2>2. QED  BY <1>2, <2>1 DEF Private
  <1>11. QED  BY <1>4, <1>2, <1>8, <1>9, <1>10 DEF SInv

LEMMA FreeSInv ==
  ASSUME IInv, SInv, NEW t \in Threads, Free(t)
  PROVE  SInv'
  <1> DEFINE c == pend[t].dying
  <1>1. /\ c \in Cells /\ c \in Slots /\ \A s \in Slots : at[s] # c
        /\ cell' = [cell EXCEPT ![c] = "dead"]
        /\ \A x \in Slots : at'[x] = IF x = c THEN Nil ELSE at[x]
    BY NilNotCell DEF Free, IInv, TypeOK, NoDangling
  <1>2. \A u \in Threads : /\ pend'[u].busy = pend[u].busy /\ pend'[u].dst = pend[u].dst
                           /\ pend'[u].src = pend[u].src /\ pend'[u].want = pend[u].want
    BY DEF Free, IInv, TypeOK
  <1> HIDE DEF c
  <1>3. TypeOK
    BY DEF IInv
  <1>4. EmptyUnlessLive'
    BY <1>1, NilNotCell DEF SInv, EmptyUnlessLive, IInv, TypeOK
  <1>5. \A u \in Threads : Held(u)' \subseteq Reach(Held(u))
    <2>1. \A u \in Threads : Held(u)' \subseteq Held(u)
      BY <1>1, <1>2, NilNotCell DEF Held
    <2>2. QED  BY <1>3, <2>1, HeldClosed
  <1>6. ASSUME NEW w \in Threads, pend[w].busy PROVE Settled(w)' /\ Private(w)'
    <2>1. Settled(w) /\ Private(w)
      BY <1>6 DEF SInv
    <2>2. \A y \in RootsOf(w) : at'[y] = at[y]
      BY <1>1, NilNotCell DEF Roots, RootsOf
    <2>3. pend[w].src \in Cells => pend[w].src # c
      BY <1>1, <2>1, NilNotCell DEF Settled
    <2>4. Settled(w)'
      BY <1>1, <1>2, <2>1, <2>2, <2>3, NilNotCell, StaysSettled
    <2>5. Private(w)'
      BY <1>1, <1>2, <1>3, <1>5, <2>1, NilNotCell, StaysPrivate
    <2>6. QED  BY <2>4, <2>5
  <1>7. QED  BY <1>2, <1>4, <1>6 DEF SInv

LEMMA FinishSInv ==
  ASSUME IInv, SInv, NEW t \in Threads, Finish(t)
  PROVE  SInv'
  <1> DEFINE d == pend[t].dst
             v == Value(pend[t].src)
  <1>1. /\ pend[t].busy /\ d \in RootsOf(t) \union Cells /\ d \in Slots /\ UNCHANGED cell
        /\ \A x \in Slots : at'[x] = IF x = d THEN v ELSE at[x]
        /\ ~pend'[t].busy /\ pend'[t].dst = Nil /\ pend'[t].src = Nil
        /\ \A u \in Threads \ {t} : pend'[u] = pend[u]
    BY NilNotCell DEF Finish, Idle, IInv, TypeOK, PendOK
  <1>2. TypeOK /\ Settled(t) /\ Private(t)
    BY <1>1 DEF IInv, SInv
  <1>3. v \in Reach(Held(t)) \union {Nil} /\ (d \in Cells => d \in Reach(Held(t)))
    <2>1. d \in Cells => d \in Held(t)
      BY DEF Held
    <2>2. v \in Held(t) \union Reach(Held(t)) \union {Nil}
      <3>1. CASE pend[t].src \in RootsOf(t)
        BY <1>2, <3>1, RootsApart, NilNotCell DEF Value, Held, TypeOK
      <3>2. CASE pend[t].src \in Cells
        <4>1. pend[t].src \in Held(t)
          BY <3>2 DEF Held
        <4>2. QED  BY <1>2, <3>2, <4>1, HeldClosed, NilNotCell DEF Value
      <3>3. CASE pend[t].src = Nil
        BY <3>3 DEF Value
      <3>4. QED  BY <1>2, <3>1, <3>2, <3>3 DEF Settled
    <2>3. QED  BY <1>2, <2>1, <2>2, HeldClosed
  <1>4. d \in Cells => cell[d] = "live"
    BY <1>2, RootsApart, NilNotCell DEF Settled, IInv, NoDangling
  <1> HIDE DEF v, d
  <1>5. EmptyUnlessLive'
    BY <1>1, <1>4, NilNotCell DEF SInv, EmptyUnlessLive
  <1>6. \A u \in Threads : Held(u)' \subseteq Reach(Held(u)) \union Reach(Held(t))
    <2>1. \A u \in Threads : Held(u)' \subseteq Held(u) \union ({v} \ {Nil})
      <3>1. ASSUME NEW u \in Threads PROVE Held(u)' \subseteq Held(u) \union ({v} \ {Nil})
        <4>1. \A y \in RootsOf(u) : at'[y] \in {at[y], v}
          BY <1>1, RootsApart
        <4>2. pend'[u].dst \in {pend[u].dst, Nil} /\ pend'[u].src \in {pend[u].src, Nil}
          BY <1>1
        <4>3. QED  BY <4>1, <4>2, NilNotCell DEF Held
      <3>2. QED  BY <3>1
    <2>2. QED  BY <1>2, <1>3, <2>1, HeldClosed
  <1>7. ASSUME NEW w \in Threads \ {t}, pend[w].busy PROVE Settled(w)' /\ Private(w)'
    <2>1. Settled(w) /\ Private(w)
      BY <1>7 DEF SInv
    <2>2. \A y \in RootsOf(w) : at'[y] = at[y]
      <3>1. \A y \in RootsOf(w) : y \in Slots /\ y # d
        BY <1>1, OwnRoots, RootsApart
      <3>2. QED  BY <1>1, <3>1
    <2>3. pend[w].src \in Cells => pend[w].src # d
      <3>1. pend[w].src \in Cells => pend[w].src \in Reach(Held(w))
        BY <1>2, HeldClosed DEF Held
      <3>2. d \in Cells => d \notin Reach(Held(w))
        BY <1>2 DEF Private, d
      <3>3. QED  BY <3>1, <3>2
    <2>4. Settled(w)'
      BY <1>1, <2>1, <2>2, <2>3, NilNotCell, StaysSettled
    <2>5. ASSUME pend[w].dst \in Cells, NEW u \in Threads \ {w}
          PROVE  pend[w].dst \notin Reach(Held(u))'
      <3> DEFINE S == Reach(Held(u)) \union Reach(Held(t))
      <3>1. S \in SUBSET Cells /\ \A c \in S : at[c] \in S \union {Nil}
        BY <1>2, HeldClosed
      <3>2. \A c \in S : at'[c] \in S \union {Nil}
        BY <1>1, <1>3, <3>1, NilNotCell
      <3>3. pend[w].dst \notin S
        BY <2>1, <2>5 DEF Private
      <3>4. Held(u)' \subseteq S
        BY <1>6
      <3> HIDE DEF S
      <3>5. QED  BY <2>5, <3>1, <3>2, <3>3, <3>4, StaysFar
    <2>6. Private(w)'
      BY <1>1, <2>5 DEF Private
    <2>7. QED  BY <2>4, <2>6
  <1>8. QED  BY <1>1, <1>5, <1>7 DEF SInv

\* The step of an assignment that ends.
LEMMA FinishTakesSource ==
  ASSUME IInv, SInv, ~badRead, NEW t \in Threads, Finish(t)
  PROVE  at'[pend[t].dst] = pend[t].want /\ ~badRead'
  <1>1. pend[t].busy /\ Settled(t)
    BY DEF Finish, SInv
  <1>2. pend[t].dst \in Slots
    BY <1>1, NilNotCell DEF IInv, PendOK
  <1>3. at'[pend[t].dst] = Value(pend[t].src)
    BY <1>2 DEF Finish, IInv, TypeOK
  <1>4. pend[t].src \in Cells => cell[pend[t].src] = "live"
    BY <1>1, RootsApart, NilNotCell DEF Settled, IInv, NoDangling
  <1>5. ~badRead'
    BY <1>4 DEF Finish
  <1>6. QED  BY <1>1, <1>3, <1>5 DEF Settled

\* If no assignment reads its source out of what its destination holds, each
\* one stores what its source denoted when it began, from memory that is still
\* there: however other threads copy, assign and drop pointers meanwhile
\* (operator= of ptr.hpp releases first and reads later).
THEOREM AssignTakesSourceHolds ==
  ASSUME SelfAdvance = FALSE
  PROVE  Spec => AssignTakesSource
  <1>1. Init => SInv /\ ~badRead
    <2>1. SUFFICES ASSUME Init PROVE SInv /\ ~badRead
      OBVIOUS
    <2>2. EmptyUnlessLive
      BY <2>1 DEF Init, EmptyUnlessLive, Slots
    <2>3. \A t \in Threads : ~pend[t].busy
      BY <2>1 DEF Init, Idle
    <2>4. QED  BY <2>1, <2>2, <2>3 DEF Init, SInv
  <1>2. IInv /\ SInv /\ ~badRead /\ [Next]_vars => SInv' /\ ~badRead'
    <2>1. SUFFICES ASSUME IInv, SInv, ~badRead, [Next]_vars PROVE SInv' /\ ~badRead'
      OBVIOUS
    <2>2. CASE UNCHANGED vars
      BY <2>1, <2>2 DEF vars, SInv, EmptyUnlessLive, Settled, Private, Value, Reach, Closed, Held
    <2>3. ASSUME NEW t \in Threads, NEW r \in Roots, Make(t, r) PROVE SInv' /\ ~badRead'
      BY <2>1, <2>3, MakeSInv DEF Make
    <2>4. ASSUME NEW t \in Threads, NEW s \in Slots, NEW r \in Roots, Copy(t, s, r)
          PROVE  SInv' /\ ~badRead'
      BY <2>1, <2>4, CopySInv DEF Copy
    <2>5. ASSUME NEW t \in Threads, NEW d \in Slots, NEW s \in Slots \union {Nil}, Assign(t, d, s)
          PROVE  SInv' /\ ~badRead'
      BY <2>1, <2>5, AssignSInv DEF Assign
    <2>6. ASSUME NEW t \in Threads, Free(t) PROVE SInv' /\ ~badRead'
      BY <2>1, <2>6, FreeSInv DEF Free
    <2>7. ASSUME NEW t \in Threads, Finish(t) PROVE SInv' /\ ~badRead'
      BY <2>1, <2>7, FinishSInv, FinishTakesSource
    <2>8. QED  BY <2>1, <2>2, <2>3, <2>4, <2>5, <2>6, <2>7 DEF Next
  <1>3. IInv /\ SInv /\ ~badRead /\ [Next]_vars =>
            [\A t \in Threads : (pend[t].busy /\ ~pend'[t].busy) =>
                at'[pend[t].dst] = pend[t].want /\ ~badRead']_vars
    <2>1. SUFFICES ASSUME IInv, SInv, ~badRead, Next, NEW t \in Threads, pend[t].busy, ~pend'[t].busy
                   PROVE  at'[pend[t].dst] = pend[t].want /\ ~badRead'
      BY DEF vars
    <2>2. Finish(t)
      <3>1. pend \in [Threads -> [busy : BOOLEAN, dying : Cells \union {Nil},
                                  dst : Slots \union {Nil}, src : Slots \union {Nil},
                                  want : Cells \union {Nil}]]
        BY <2>1 DEF IInv, TypeOK
      <3>2. ASSUME NEW u \in Threads, Free(u) PROVE pend'[t].busy = pend[t].busy
        BY <3>1, <3>2 DEF Free
      <3>3. ASSUME NEW u \in Threads, NEW d \in Slots, NEW s \in Slots \union {Nil}, Assign(u, d, s)
            PROVE  pend'[t].busy
        BY <2>1, <3>1, <3>3 DEF Assign
      <3>4. ASSUME NEW u \in Threads, u # t, Finish(u) PROVE pend'[t] = pend[t]
        BY <3>1, <3>4 DEF Finish
      <3>5. QED  BY <2>1, <3>2, <3>3, <3>4 DEF Next, Make, Copy
    <2>3. QED  BY <2>1, <2>2, FinishTakesSource
  <1>4. QED
    BY <1>1, <1>2, <1>3, Invariance, PTL DEF Spec, AssignTakesSource

-----------------------------------------------------------------------------
(* Everything unreachable is freed, unless it is on a cycle.               *)

\* A field that is being assigned is in a cell its thread has a variable for.
DstHeld ==
    \A t \in Threads : pend[t].busy /\ pend[t].dst \in Cells =>
        \E y \in RootsOf(t) : at[y] = pend[t].dst

\* A live cell without a pointer is one that some thread is about to free.
NoLeak ==
    \A c \in Cells : cell[c] = "live" /\ count[c] = 0 => \E t \in Threads : pend[t].dying = c

LInv == EmptyUnlessLive /\ DstHeld /\ NoLeak

LEMMA MakeLInv ==
  ASSUME IInv, LInv, NEW t \in Threads, NEW r \in Roots, Make(t, r) PROVE LInv'
  <1>1. PICK c \in Cells :
           /\ cell' = [cell EXCEPT ![c] = "live"]
           /\ count' = [count EXCEPT ![c] = 1]
           /\ at' = [at EXCEPT ![r] = c]
    BY DEF Make
  <1>2. pend' = pend /\ at[r] = Nil /\ r \in Slots /\ r \notin Cells
    BY NilNotCell DEF Make
  <1>3. \A s \in Slots : s # r => at'[s] = at[s]
    BY <1>1 DEF IInv, TypeOK
  <1>4. EmptyUnlessLive'
    BY <1>1, <1>2, <1>3, NilNotCell DEF LInv, EmptyUnlessLive, IInv, TypeOK
  <1>5. DstHeld'
    <2>1. \A u \in Threads : \A y \in RootsOf(u) : at[y] # Nil => at'[y] = at[y]
      BY <1>2, <1>3, NilNotCell
    <2>2. QED  BY <1>2, <2>1, NilNotCell DEF LInv, DstHeld
  <1>6. NoLeak'
    BY <1>1, <1>2 DEF LInv, NoLeak, IInv, TypeOK
  <1>7. QED  BY <1>4, <1>5, <1>6 DEF LInv

LEMMA CopyLInv ==
  ASSUME IInv, LInv, NEW t \in Threads, NEW s \in Slots, NEW r \in Roots, Copy(t, s, r)
  PROVE  LInv'
  <1>1. /\ at[s] \in Cells /\ at[r] = Nil /\ r \in Slots /\ r \notin Cells
        /\ count' = [count EXCEPT ![at[s]] = @ + 1]
        /\ at' = [at EXCEPT ![r] = at[s]]
        /\ UNCHANGED <<cell, pend>>
    BY NilNotCell DEF Copy, IInv, TypeOK
  <1>2. \A x \in Slots : x # r => at'[x] = at[x]
    BY <1>1 DEF IInv, TypeOK
  <1>3. EmptyUnlessLive'
    BY <1>1, <1>2, NilNotCell DEF LInv, EmptyUnlessLive
  <1>4. DstHeld'
    <2>1. \A u \in Threads : \A y \in RootsOf(u) : at[y] # Nil => at'[y] = at[y]
      BY <1>1, <1>2, NilNotCell
    <2>2. QED  BY <1>1, <2>1, NilNotCell DEF LInv, DstHeld
  <1>5. NoLeak'
    <2>1. \A c \in Cells : count'[c] = 0 => count[c] = 0
      BY <1>1 DEF IInv, TypeOK
    <2>2. QED  BY <1>1, <2>1 DEF LInv, NoLeak
  <1>6. QED  BY <1>3, <1>4, <1>5 DEF LInv

\* Dropping a pointer leaves no cell at zero but the one it frees.
LEMMA DropNoLeak ==
  ASSUME IInv, NEW d \in Slots,
         count' = IF at[d] = Nil THEN count ELSE [count EXCEPT ![at[d]] = @ - 1]
  PROVE  \A c \in Cells : count'[c] = 0 => count[c] = 0 \/ (c = Dying(d) /\ c # Nil)
  <1>1. SUFFICES ASSUME NEW c \in Cells, count'[c] = 0, count[c] # 0
                 PROVE  c = Dying(d)
    BY NilNotCell
  <1>2. at[d] = c /\ at[d] # Nil
    BY <1>1 DEF IInv, TypeOK
  <1>3. count[c] = 1
    BY <1>1, <1>2 DEF IInv, TypeOK
  <1>4. QED  BY <1>2, <1>3 DEF Dying

LEMMA AssignLInv ==
  ASSUME IInv, LInv, NEW t \in Threads, NEW d \in Slots, NEW s \in Slots \union {Nil},
         Assign(t, d, s)
  PROVE  LInv'
  <1> DEFINE p == [busy |-> TRUE, dst |-> d, src |-> s, want |-> Value(s), dying |-> Dying(d)]
  <1>1. /\ ~pend[t].busy /\ d \in Targets(t)
        /\ pend' = [pend EXCEPT ![t] = p]
        /\ count' = IF at[d] = Nil THEN count ELSE [count EXCEPT ![at[d]] = @ - 1]
        /\ at' = [at EXCEPT ![d] = Nil]
        /\ cell' = cell
    BY DEF Assign, Dying
  <1>2. \A x \in Slots : at'[x] = IF x = d THEN Nil ELSE at[x]
    BY <1>1 DEF IInv, TypeOK
  <1>3. \A u \in Threads : pend'[u] = IF u = t THEN p ELSE pend[u]
    BY <1>1 DEF IInv, TypeOK
  <1>4. EmptyUnlessLive'
    BY <1>1, <1>2, NilNotCell DEF LInv, EmptyUnlessLive
  <1>5. DstHeld'
    <2>1. d \in Cells => \E y \in RootsOf(t) : at'[y] = d
      <3>1. SUFFICES ASSUME d \in Cells PROVE \E y \in RootsOf(t) : at'[y] = d
        OBVIOUS
      <3>2. PICK y \in RootsOf(t) : at[y] = d
        BY <1>1, <3>1, RootsApart DEF Targets, Fields
      <3>3. QED  BY <1>2, <3>1, <3>2, RootsApart
    <2>2. ASSUME NEW u \in Threads, u # t, pend[u].busy, pend[u].dst \in Cells
          PROVE  \E y \in RootsOf(u) : at'[y] = pend[u].dst
      <3>1. PICK y \in RootsOf(u) : at[y] = pend[u].dst
        BY <2>2 DEF LInv, DstHeld
      <3>2. d \in RootsOf(t) \union Cells
        BY <1>1, TargetFree
      <3>3. y # d
        BY <2>2, <3>2, RootsApart DEF RootsOf
      <3>4. QED  BY <1>2, <3>1, <3>3, RootsApart
    <2>3. QED  BY <1>3, <2>1, <2>2 DEF DstHeld
  <1>6. NoLeak'
    <2>1. SUFFICES ASSUME NEW c \in Cells, cell[c] = "live", count'[c] = 0
                   PROVE  \E u \in Threads : pend'[u].dying = c
      BY <1>1 DEF NoLeak
    <2>2. CASE c = Dying(d)
      BY <1>3, <2>2
    <2>3. CASE count[c] = 0
      <3>1. PICK u \in Threads : pend[u].dying = c
        BY <2>1, <2>3 DEF LInv, NoLeak
      <3>2. u # t
        BY <1>1, <3>1, NilNotCell DEF IInv, PendOK
      <3>3. QED  BY <1>3, <3>1, <3>2
    <2>4. QED  BY <1>1, <2>1, <2>2, <2>3, DropNoLeak
  <1>7. QED  BY <1>4, <1>5, <1>6 DEF LInv

LEMMA FreeLInv == ASSUME IInv, LInv, NEW t \in Threads, Free(t) PROVE LInv'
  <1> DEFINE c == pend[t].dying
  <1>1. /\ c # Nil
        /\ cell' = [cell EXCEPT ![c] = "dead"]
        /\ at' = [at EXCEPT ![c] = Nil]
        /\ count' = IF at[c] = Nil THEN count ELSE [count EXCEPT ![at[c]] = @ - 1]
        /\ pend' = [pend EXCEPT ![t].dying = Dying(c)]
    BY DEF Free, Dying
  <1>2. c \in Cells /\ c \in Slots
    BY <1>1, NilNotCell DEF IInv, TypeOK
  <1>3. \A x \in Slots : at'[x] = IF x = c THEN Nil ELSE at[x]
    BY <1>1 DEF IInv, TypeOK
  <1>4. \A u \in Threads : /\ pend'[u].dying = (IF u = t THEN Dying(c) ELSE pend[u].dying)
                           /\ pend'[u].busy = pend[u].busy
                           /\ pend'[u].dst = pend[u].dst
    BY <1>1 DEF IInv, TypeOK
  <1>5. \A x \in Cells : cell'[x] = IF x = c THEN "dead" ELSE cell[x]
    BY <1>1 DEF IInv, TypeOK
  <1>6. EmptyUnlessLive'
    BY <1>3, <1>5, NilNotCell DEF LInv, EmptyUnlessLive
  <1>7. DstHeld'
    <2>1. \A u \in Threads : \A y \in RootsOf(u) : at'[y] = at[y]
      BY <1>2, <1>3, RootsApart
    <2>2. QED  BY <1>4, <2>1 DEF LInv, DstHeld
  <1>8. NoLeak'
    <2>1. SUFFICES ASSUME NEW x \in Cells, x # c, cell[x] = "live", count'[x] = 0
                   PROVE  \E u \in Threads : pend'[u].dying = x
      BY <1>5 DEF NoLeak
    <2>2. CASE x = Dying(c)
      BY <1>4, <2>2
    <2>3. CASE count[x] = 0
      <3>1. PICK u \in Threads : pend[u].dying = x
        BY <2>1, <2>3 DEF LInv, NoLeak
      <3>2. u # t
        BY <2>1, <3>1
      <3>3. QED  BY <1>4, <3>1, <3>2
    <2>4. QED  BY <1>1, <1>2, <2>1, <2>2, <2>3, DropNoLeak
  <1>9. QED  BY <1>6, <1>7, <1>8 DEF LInv

LEMMA FinishLInv == ASSUME IInv, LInv, NEW t \in Threads, Finish(t) PROVE LInv'
  <1> DEFINE d == pend[t].dst
             v == Value(pend[t].src)
  <1>1. /\ pend[t].busy /\ pend[t].dying = Nil
        /\ at' = [at EXCEPT ![d] = v]
        /\ count' = IF v = Nil THEN count ELSE [count EXCEPT ![v] = @ + 1]
        /\ pend' = [pend EXCEPT ![t] = Idle]
        /\ cell' = cell
    BY DEF Finish
  <1>2. d \in RootsOf(t) \union Cells /\ d \in Slots /\ at[d] = Nil
    BY <1>1, NilNotCell DEF IInv, PendOK
  <1>3. v \in Cells \union {Nil}
    BY DEF IInv, TypeOK, Value
  <1> HIDE DEF v
  <1>4. \A x \in Slots : at'[x] = IF x = d THEN v ELSE at[x]
    BY <1>1 DEF IInv, TypeOK
  <1>5. \A u \in Threads : pend'[u] = IF u = t THEN Idle ELSE pend[u]
    BY <1>1 DEF IInv, TypeOK
  <1>6. EmptyUnlessLive'
    <2>1. d \in Cells => cell[d] = "live"
      BY <1>1, RootsApart, NilNotCell DEF LInv, DstHeld, IInv, NoDangling
    <2>2. QED  BY <1>1, <1>4, <2>1, NilNotCell DEF LInv, EmptyUnlessLive
  <1>7. DstHeld'
    <2>1. ASSUME NEW u \in Threads, u # t, pend[u].busy, pend[u].dst \in Cells
          PROVE  \E y \in RootsOf(u) : at'[y] = pend[u].dst
      <3>1. PICK y \in RootsOf(u) : at[y] = pend[u].dst
        BY <2>1 DEF LInv, DstHeld
      <3>2. QED  BY <1>2, <1>4, <2>1, <3>1, RootsApart, NilNotCell
    <2>2. QED  BY <1>5, <2>1 DEF DstHeld, Idle
  <1>8. NoLeak'
    <2>1. \A c \in Cells : count'[c] = 0 => count[c] = 0
      BY <1>1, <1>3 DEF IInv, TypeOK
    <2>2. SUFFICES ASSUME NEW c \in Cells, cell[c] = "live", count'[c] = 0
                   PROVE  \E u \in Threads : pend'[u].dying = c
      BY <1>1 DEF NoLeak
    <2>3. PICK u \in Threads : pend[u].dying = c
      BY <2>1, <2>2 DEF LInv, NoLeak
    <2>4. u # t
      BY <1>1, <2>3, NilNotCell
    <2>5. QED  BY <1>5, <2>3, <2>4
  <1>9. QED  BY <1>6, <1>7, <1>8 DEF LInv

LEMMA LInvariance == Spec => []LInv
  <1>1. Init => LInv
    BY NilNotCell DEF Init, Idle, LInv, EmptyUnlessLive, DstHeld, NoLeak
  <1>2. IInv /\ LInv /\ [Next]_vars => LInv'
    <2>1. ASSUME LInv, UNCHANGED vars PROVE LInv'
      BY <2>1 DEF vars, LInv, EmptyUnlessLive, DstHeld, NoLeak
    <2>2. QED
      BY <2>1, MakeLInv, CopyLInv, AssignLInv, FreeLInv, FinishLInv DEF Next
  <1>3. QED  BY <1>1, <1>2, Invariance, PTL DEF Spec

\* The unreachable live cells that c does not lead to: each has a pointer to it
\* from another of them, so following the pointers backwards permutes them,
\* and c, one of them, has a pointer to one of them too: a contradiction.
LEMMA LostIsCyclic ==
  ASSUME IInv, LInv, \A t \in Threads : ~pend[t].busy,
         NEW c \in Cells, cell[c] = "live", c \notin Reach({at[r] : r \in Roots} \ {Nil})
  PROVE  OnCycle(c)
  <1> DEFINE R0 == {at[r] : r \in Roots} \ {Nil}
             next == {at[c]} \ {Nil}
             W == {x \in Cells : cell[x] = "live" /\ x \notin Reach(R0) /\ x \notin Reach(next)}
             f == [x \in W |-> CHOOSE s \in W : at[s] = x]
  <1>1. R0 \in SUBSET Cells /\ next \in SUBSET Cells
    <2>1. \A s \in Slots : at[s] # Nil => at[s] \in Cells
      BY DEF IInv, TypeOK
    <2>2. QED  BY <2>1, NilNotCell
  <1> HIDE DEF R0
  <1>2. SUFFICES ASSUME ~OnCycle(c) PROVE FALSE
    OBVIOUS
  <1>3. c \notin Reach(next)
    <2>1. CASE at[c] = Nil
      <3>1. next = {} /\ Closed({})
        BY <2>1 DEF Closed
      <3>2. QED  BY <3>1 DEF Reach
    <2>2. CASE at[c] # Nil
      <3>1. next = {at[c]}
        BY <2>2
      <3>2. QED  BY <1>2, <2>2, <3>1 DEF OnCycle
    <2>3. QED  BY <2>1, <2>2
  <1>4. c \in W
    BY <1>3 DEF R0
  <1>5. ASSUME NEW x \in W PROVE \E s \in W : at[s] = x
    <2>1. count[x] # 0
      BY NilNotCell DEF LInv, NoLeak, IInv, PendOK
    <2>2. PICK s \in Slots : at[s] = x
      BY <2>1, NoOwner DEF IInv
    <2>3. x # Nil
      BY NilNotCell
    <2>4. s \notin Roots
      <3>1. ASSUME s \in Roots PROVE x \in R0
        BY <2>2, <2>3, <3>1 DEF R0
      <3>2. QED  BY <1>1, <3>1, ReachSelf
    <2>5. s \in Cells /\ cell[s] = "live"
      BY <2>2, <2>3, <2>4 DEF Slots, LInv, EmptyUnlessLive
    <2>6. s \notin Reach(R0)
      BY <1>1, <2>2, <2>3, ReachClosed DEF IInv
    <2>7. s \notin Reach(next)
      <3> HIDE DEF next
      <3>1. QED  BY <1>1, <2>2, <2>3, ReachClosed DEF IInv
    <2>8. QED  BY <2>2, <2>5, <2>6, <2>7
  <1> HIDE DEF W
  <1>6. f \in [W -> W] /\ \A x \in W : at[f[x]] = x
    BY <1>5
  <1> HIDE DEF f
  <1>7. f \in Surjection(W, W)
    <2>1. W \subseteq Cells /\ IsFiniteSet(W)
      BY ConstantAssumption, FS_Subset DEF W
    <2>2. f \in Injection(W, W)
      <3>1. \A a \in W, b \in W : f[a] = f[b] => a = b
        BY <1>6
      <3>2. QED  BY <1>6, <3>1 DEF Injection, IsInjective
    <2>3. QED  BY <2>1, <2>2, FS_Injection
  <1>8. PICK x \in W : f[x] = c
    BY <1>4, <1>7 DEF Surjection
  <1>9. at[c] = x
    BY <1>6, <1>8
  <1>10. x \in next /\ x \notin Reach(next)
    BY <1>9, NilNotCell DEF W
  <1>11. QED  BY <1>1, <1>10, ReachSelf

\* Memory is reclaimed for any finite numbers of threads, variables and cells,
\* and any shape of the heap: once no operation is running, every cell that no
\* variable leads to is freed, if no pointers form a cycle.  With the counters
\* of ptr.hpp alone, and whatever SelfAdvance is.
THEOREM ReclaimedHolds == Spec => []Reclaimed
  <1>1. IInv /\ LInv => Reclaimed
    BY LostIsCyclic DEF Reclaimed
  <1>2. QED  BY <1>1, Invariance, LInvariance, PTL
=============================================================================
