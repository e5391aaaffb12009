------------------------------- MODULE RefPtr -------------------------------
(***************************************************************************)
(* jule::Ptr<T> (src/api/ptr.hpp), the reference-counted pointer behind    *)
(* every &T: threads that make, copy, assign and drop pointers to heap     *)
(* cells.  A cell stands for the allocation and its counter; it has one    *)
(* field of the same pointer type, so that destroying a cell drops a       *)
(* further reference.                                                      *)
(*                                                                         *)
(* alloc and ref of a Ptr are null together here: uncounted pointers are   *)
(* not modelled.  Each access to a counter is one action.                  *)
(***************************************************************************)
EXTENDS Integers, FiniteSets

CONSTANTS Threads, Vars,  \* every thread has the pointer variables Vars
          Cells,          \* heap cells, each allocated at most once
          Nil,
          SelfAdvance     \* the program contains assignments like x = x.next

Roots == Threads \X Vars
Slots == Roots \union Cells   \* a cell used as a slot is its pointer field

ASSUME ConstantAssumption ==
    /\ IsFiniteSet(Threads) /\ IsFiniteSet(Vars) /\ IsFiniteSet(Cells)
    /\ Roots \intersect Cells = {}
    /\ Nil \notin Slots
    /\ SelfAdvance \in BOOLEAN

VARIABLES
    at,     \* the cell a slot points to (Ptr.alloc), or Nil
    count,  \* the counter *Ptr.ref of a cell
    cell,   \* "unused", "live", "dead"
    pend,   \* the operator= or destructor a thread is in
    badRead \* a Ptr was read from a cell that is dead

vars == <<at, count, cell, pend, badRead>>

\* dying: the cell whose __free is running; dst, src: what is copied after it;
\* want: what src pointed to when the assignment began (history).
Idle == [busy |-> FALSE, dying |-> Nil, dst |-> Nil, src |-> Nil, want |-> Nil]

Init ==
    /\ at = [s \in Slots |-> Nil]
    /\ count = [c \in Cells |-> 0]
    /\ cell = [c \in Cells |-> "unused"]
    /\ pend = [t \in Threads |-> Idle]
    /\ badRead = FALSE

-----------------------------------------------------------------------------
(* What a program can name.                                                *)

RootsOf(t) == {t} \X Vars

\* Cells a set of cells leads to.
Closed(S) == \A c \in S : at[c] \in S \union {Nil}
Reach(R) == {c \in Cells : \A S \in SUBSET Cells : R \subseteq S /\ Closed(S) => c \in S}

Held(t) == ({at[r] : r \in RootsOf(t)} \union {pend[t].dst, pend[t].src}) \intersect Cells

\* Programs synchronize their accesses: a field is assigned only by a thread
\* that has its cell to itself.
Exclusive(t, s) == s \in Cells => \A u \in Threads \ {t} : s \notin Reach(Held(u))

Fields(t, roots) == {at[r] : r \in roots} \ {Nil}

Targets(t) == {s \in RootsOf(t) \union Fields(t, RootsOf(t)) : Exclusive(t, s)}

\* Nil stands for the nil literal, and for the end of a variable's life.
Sources(t, dst) ==
    {Nil} \union RootsOf(t)
          \union Fields(t, IF SelfAdvance THEN RootsOf(t) ELSE RootsOf(t) \ {dst})

Value(s) == IF s = Nil THEN Nil ELSE at[s]

-----------------------------------------------------------------------------
(* Ptr::make and the copy constructor.                                     *)

Make(t, r) ==
    /\ ~pend[t].busy
    /\ r \in RootsOf(t) /\ at[r] = Nil
    /\ \E c \in Cells :
          /\ cell[c] = "unused"
          /\ cell' = [cell EXCEPT ![c] = "live"]
          /\ count' = [count EXCEPT ![c] = 1]
          /\ at' = [at EXCEPT ![r] = c]
    /\ UNCHANGED <<pend, badRead>>

\* A new variable of this thread, or one captured by a `co` that starts
\* thread u: __get_copy.
Copy(t, s, r) ==
    /\ ~pend[t].busy
    /\ s \in RootsOf(t) \union Fields(t, RootsOf(t)) /\ at[s] # Nil
    /\ at[r] = Nil
    /\ \E u \in Threads : r \in RootsOf(u) /\ ~pend[u].busy
    /\ count' = [count EXCEPT ![at[s]] = @ + 1]
    /\ at' = [at EXCEPT ![r] = at[s]]
    /\ UNCHANGED <<cell, pend, badRead>>

-----------------------------------------------------------------------------
(* operator= and the destructor: dealloc, then __get_copy.                 *)

\* Wrong: the last reference is taken for one of several (the counter is
\* compared with its value after the decrement).
AssignKeepsLast(t, d, s) ==
    /\ ~pend[t].busy
    /\ d \in Targets(t) /\ s \in Sources(t, d)
    /\ at[d] # Nil => at[d] # Value(s)
    /\ pend' = [pend EXCEPT ![t] =
                  [busy |-> TRUE, dst |-> d, src |-> s, want |-> Value(s), dying |-> Nil]]
    /\ count' = IF at[d] = Nil THEN count ELSE [count EXCEPT ![at[d]] = @ - 1]
    /\ at' = [at EXCEPT ![d] = Nil]
    /\ UNCHANGED <<cell, badRead>>
\* Wrong: a cell is freed as soon as one of its last two owners drops it.
AssignFreesEarly(t, d, s) ==
    /\ ~pend[t].busy
    /\ d \in Targets(t) /\ s \in Sources(t, d)
    /\ at[d] # Nil => at[d] # Value(s)
    /\ pend' = [pend EXCEPT ![t] =
                  [busy |-> TRUE, dst |-> d, src |-> s, want |-> Value(s),
                   dying |-> IF at[d] # Nil /\ count[at[d]] <= 2 THEN at[d] ELSE Nil]]
    /\ count' = IF at[d] = Nil THEN count ELSE [count EXCEPT ![at[d]] = @ - 1]
    /\ at' = [at EXCEPT ![d] = Nil]
    /\ UNCHANGED <<cell, badRead>>

\* The self-assignment test, and the fetch_sub of dealloc; the thread that
\* gets 1 from it frees the cell.
Assign(t, d, s) ==
    /\ ~pend[t].busy
    /\ d \in Targets(t) /\ s \in Sources(t, d)
    /\ at[d] # Nil => at[d] # Value(s)
    /\ pend' = [pend EXCEPT ![t] =
                  [busy |-> TRUE, dst |-> d, src |-> s, want |-> Value(s),
                   dying |-> IF at[d] # Nil /\ count[at[d]] = 1 THEN at[d] ELSE Nil]]
    /\ count' = IF at[d] = Nil THEN count ELSE [count EXCEPT ![at[d]] = @ - 1]
    /\ at' = [at EXCEPT ![d] = Nil]
    /\ UNCHANGED <<cell, badRead>>

\* __free: the cell's destructor drops its own pointer, which may in turn be
\* the last one to the next cell.
Free(t) ==
    LET c == pend[t].dying
        n == at[c]
    IN  /\ c # Nil
        /\ cell' = [cell EXCEPT ![c] = "dead"]
        /\ at' = [at EXCEPT ![c] = Nil]
        /\ count' = IF n = Nil THEN count ELSE [count EXCEPT ![n] = @ - 1]
        /\ pend' = [pend EXCEPT ![t].dying = IF n # Nil /\ count[n] = 1 THEN n ELSE Nil]
        /\ UNCHANGED badRead

\* Wrong: the count is raised, the pointer is not stored.
FinishForgetsAlloc(t) ==
    LET v == Value(pend[t].src)
    IN  /\ pend[t].busy /\ pend[t].dying = Nil
        /\ count' = IF v = Nil THEN count ELSE [count EXCEPT ![v] = @ + 1]
        /\ pend' = [pend EXCEPT ![t] = Idle]
        /\ UNCHANGED <<at, cell, badRead>>

\* __get_copy(src): src is a reference to a slot, read only now.
Finish(t) ==
    LET s == pend[t].src
        v == Value(s)
    IN  /\ pend[t].busy /\ pend[t].dying = Nil
        /\ badRead' = (badRead \/ (s \in Cells /\ cell[s] = "dead"))
        /\ at' = [at EXCEPT ![pend[t].dst] = v]
        /\ count' = IF v = Nil THEN count ELSE [count EXCEPT ![v] = @ + 1]
        /\ pend' = [pend EXCEPT ![t] = Idle]
        /\ UNCHANGED cell

Next ==
    \/ \E t \in Threads, r \in Roots : Make(t, r)
    \/ \E t \in Threads, s \in Slots, r \in Roots : Copy(t, s, r)
    \/ \E t \in Threads, d \in Slots, s \in Slots \union {Nil} : Assign(t, d, s)
    \/ \E t \in Threads : Free(t)
    \/ \E t \in Threads : Finish(t)

Spec == Init /\ [][Next]_vars

-----------------------------------------------------------------------------
(* Properties.                                                             *)

Pointers(c) == {s \in Slots : at[s] = c}

TypeOK ==
    /\ at \in [Slots -> Cells \union {Nil}]
    /\ count \in [Cells -> Nat]
    /\ cell \in [Cells -> {"unused", "live", "dead"}]
    /\ pend \in [Threads -> [busy : BOOLEAN, dying : Cells \union {Nil},
                             dst : Slots \union {Nil}, src : Slots \union {Nil},
                             want : Cells \union {Nil}]]
    /\ badRead \in BOOLEAN

\* The counter of a cell is the number of pointers to it, in variables and in
\* fields, at every moment of every interleaving.
CountExact == \A c \in Cells : count[c] = Cardinality(Pointers(c))

\* No pointer leads to a cell that is freed or being freed, and no cell is
\* freed by two threads.
NoDangling ==
    /\ \A s \in Slots : at[s] # Nil =>
          cell[at[s]] = "live" /\ \A t \in Threads : pend[t].dying # at[s]
    /\ \A t \in Threads : pend[t].dying # Nil =>
          /\ cell[pend[t].dying] = "live"
          /\ \A u \in Threads \ {t} : pend[u].dying # pend[t].dying

\* Memory management is deterministic: once no operation is running, every
\* cell that no variable leads to is freed, unless it is on a cycle.
OnCycle(c) == at[c] # Nil /\ c \in Reach({at[c]})
Reclaimed ==
    ((\A t \in Threads : ~pend[t].busy) /\ (\A c \in Cells : ~OnCycle(c)))
    => \A c \in Cells : cell[c] = "live" =>
          c \in Reach({at[r] : r \in Roots} \ {Nil})

\* An assignment stores what its right side denoted when it was evaluated, and
\* reads it from memory that is still there.
AssignTakesSource ==
    [][\A t \in Threads : (pend[t].busy /\ ~pend'[t].busy) =>
          at'[pend[t].dst] = pend[t].want /\ ~badRead']_vars
=============================================================================
