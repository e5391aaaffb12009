------------------------------- MODULE Slice --------------------------------
(***************************************************************************)
(* jule::Slice<Item> (src/api/slice.hpp) and append (src/api/builtin.hpp): *)
(* slices of several threads over shared, reference-counted buffers.       *)
(*                                                                         *)
(* A slice handle holds the Ptr `data` (its ref and alloc are kept apart,  *)
(* dealloc sets only one of them), the window start `_slice`, the length   *)
(* and the capacity.  Items have no identity.  A release takes two steps,  *)
(* as in the code: Slice::dealloc loads the counter, and later the Ptr     *)
(* member drops its reference.                                             *)
(***************************************************************************)
EXTENDS Integers, FiniteSets

CONSTANTS Threads, Vars,  \* every thread has the slice variables Vars
          Buffers,        \* buffers, each allocated at most once
          Nil,
          MaxLen,         \* bound on the length a slice is made with or grows to
          NilAssign       \* the program contains x = nil

Handles == Threads \X Vars

ASSUME ConstantAssumption ==
    /\ IsFiniteSet(Threads) /\ IsFiniteSet(Vars) /\ IsFiniteSet(Buffers)
    /\ Nil \notin Buffers /\ Nil \notin Handles /\ Nil \notin Int
    /\ MaxLen \in Nat
    /\ NilAssign \in BOOLEAN

VARIABLES
    h,      \* the slices
    count,  \* the counters of the buffers; 0 once deleted
    buf,    \* [state, cap] of each buffer: "unused", "live", "freed"
    pend    \* per thread, the release whose second step is due

vars == <<h, count, buf, pend>>

\* Slice(): a nil slice, and a variable out of scope.
NilSlice == [ref |-> Nil, alloc |-> Nil, start |-> Nil, len |-> 0, cap |-> 0]

NoPend == [dst |-> Nil, src |-> Nil]

Init ==
    /\ h = [x \in Handles |-> NilSlice]
    /\ count = [b \in Buffers |-> 0]
    /\ buf = [b \in Buffers |-> [state |-> "unused", cap |-> 0]]
    /\ pend = [t \in Threads |-> NoPend]

HandlesOf(t) == {t} \X Vars
Ready(t) == pend[t] = NoPend
IsNil(s) == s.start = Nil

-----------------------------------------------------------------------------
(* Constructing a slice in a variable that holds none.                     *)

\* alloc_new into x, which becomes the only slice of buffer b.
AllocNew(x, b, len, cap) ==
    /\ buf[b].state = "unused"
    /\ buf' = [buf EXCEPT ![b] = [state |-> "live", cap |-> cap]]
    /\ count' = [count EXCEPT ![b] = 1]
    /\ h' = [h EXCEPT ![x] = [ref |-> b, alloc |-> b, start |-> 0, len |-> len, cap |-> cap]]

Make(t, x, b, len) ==
    /\ Ready(t)
    /\ h[x] = NilSlice
    /\ AllocNew(x, b, len, len)
    /\ UNCHANGED pend

\* Wrong: the capacity is not reduced by the start of the window.
SubSliceKeepsCap(s, start, end) ==
    [s EXCEPT !.start = s.start + start, !.len = end - start]

\* slice(start, end): a window of s, at most up to its length.
SubSlice(s, start, end) ==
    [s EXCEPT !.start = s.start + start, !.len = end - start, !.cap = s.cap - start]

\* The new slice takes a counted copy of data (Ptr's operator=).
Share(x, s) ==
    /\ h' = [h EXCEPT ![x] = s]
    /\ count' = IF s.ref = Nil THEN count ELSE [count EXCEPT ![s.ref] = @ + 1]
    /\ UNCHANGED <<buf, pend>>

\* The copy constructor: into a variable of this thread, or captured by the
\* `co` that starts thread u.  Nothing is copied from a nil slice.
Copy(t, x, y) ==
    /\ Ready(t)
    /\ ~IsNil(h[x]) /\ h[y] = NilSlice
    /\ \E u \in Threads : y \in HandlesOf(u) /\ Ready(u)
    /\ Share(y, h[x])

Slicing(t, x, y) ==
    /\ Ready(t)
    /\ ~IsNil(h[x]) /\ h[y] = NilSlice
    /\ \E end \in 0 .. h[x].len : \E start \in 0 .. end :
          Share(y, SubSlice(h[x], start, end))

\* append(x, item): in place if the capacity allows it, over whatever follows
\* in the shared buffer; else in a buffer of twice the new length.
Append(t, x, y, b) ==
    /\ Ready(t)
    /\ h[x].len < MaxLen
    /\ h[y] = NilSlice
    /\ \/ h[x].len + 1 <= h[x].cap /\ Share(y, [h[x] EXCEPT !.len = @ + 1])
       \/ /\ h[x].len + 1 > h[x].cap
          /\ AllocNew(y, b, h[x].len + 1, 2 * (h[x].len + 1))
          /\ UNCHANGED pend

-----------------------------------------------------------------------------
(* Releasing what a variable holds.                                        *)

\* Wrong: the buffer is freed although another slice holds it.
DeallocNoCheck(x) ==
    LET s == h[x]
    IN  \/ /\ s.ref # Nil
           /\ h' = [h EXCEPT ![x] = NilSlice]
           /\ count' = [count EXCEPT ![s.ref] = 0]
           /\ buf' = IF s.alloc = Nil THEN buf ELSE [buf EXCEPT ![s.alloc].state = "freed"]
        \/ /\ s.ref = Nil
           /\ h' = [h EXCEPT ![x].alloc = Nil, ![x].len = 0, ![x].cap = 0]
           /\ UNCHANGED <<count, buf>>

\* Wrong: the last owner deletes the counter only.
DeallocCounter(x) ==
    LET s == h[x]
    IN  \/ /\ s.ref # Nil /\ count[s.ref] = 1
           /\ h' = [h EXCEPT ![x] = NilSlice]
           /\ count' = [count EXCEPT ![s.ref] = 0]
           /\ UNCHANGED buf
        \/ /\ s.ref # Nil => count[s.ref] # 1
           /\ h' = [h EXCEPT ![x].alloc = Nil, ![x].len = 0, ![x].cap = 0]
           /\ UNCHANGED <<count, buf>>

\* Slice::dealloc.  The last owner frees counter and buffer; any other only
\* forgets the buffer and keeps its counted reference for the Ptr to drop.
Dealloc(x) ==
    LET s == h[x]
    IN  \/ /\ s.ref # Nil /\ count[s.ref] = 1
           /\ h' = [h EXCEPT ![x] = NilSlice]
           /\ count' = [count EXCEPT ![s.ref] = 0]
           /\ buf' = IF s.alloc = Nil THEN buf ELSE [buf EXCEPT ![s.alloc].state = "freed"]
        \/ /\ s.ref # Nil => count[s.ref] # 1
           /\ h' = [h EXCEPT ![x].alloc = Nil, ![x].len = 0, ![x].cap = 0]
           /\ UNCHANGED <<count, buf>>

\* x = nil: operator=(nullptr_t) is dealloc and nothing else.
AssignNil(t, x) ==
    /\ NilAssign
    /\ Ready(t)
    /\ Dealloc(x)
    /\ UNCHANGED pend

\* x = y with both over the same buffer: only the window changes.
AssignSame(t, x, y) ==
    /\ Ready(t)
    /\ h[x].alloc # Nil /\ h[x].alloc = h[y].alloc
    /\ h' = [h EXCEPT ![x].start = h[y].start, ![x].len = h[y].len, ![x].cap = h[y].cap]
    /\ UNCHANGED <<count, buf, pend>>

\* x = y otherwise, first step: dealloc.  (A nil y comes from AssignNil or
\* from a variable that was never set.)
AssignStart(t, x, y) ==
    /\ Ready(t)
    /\ x # y
    /\ ~(h[x].alloc # Nil /\ h[x].alloc = h[y].alloc)
    /\ Dealloc(x)
    /\ pend' = [pend EXCEPT ![t] = [dst |-> x, src |-> y]]

\* The end of x's scope, first step of ~Slice.
Leave(t, x) ==
    /\ Ready(t)
    /\ h[x] # NilSlice
    /\ Dealloc(x)
    /\ pend' = [pend EXCEPT ![t] = [dst |-> x, src |-> Nil]]

\* The drop of the reference that x still counts: Ptr::dealloc deletes the
\* counter with the last one, but x.alloc is null by now.
Dropped(x) == IF h[x].ref = Nil THEN count ELSE [count EXCEPT ![h[x].ref] = @ - 1]

\* x = y, second step: __get_copy returns at once for a nil y, and otherwise
\* drops the old reference and counts the new one.
AssignFinish(t) ==
    LET x == pend[t].dst
        y == pend[t].src
    IN  /\ y # Nil
        /\ IF IsNil(h[y])
           THEN UNCHANGED <<h, count>>
           ELSE /\ h' = [h EXCEPT ![x] = h[y]]
                /\ count' = IF h[y].ref = Nil THEN Dropped(x)
                            ELSE [Dropped(x) EXCEPT ![h[y].ref] = @ + 1]
        /\ pend' = [pend EXCEPT ![t] = NoPend]
        /\ UNCHANGED buf

\* Wrong: the destructor forgets the reference instead of dropping it.
LeaveFinishNoDrop(t) ==
    /\ pend[t].dst # Nil /\ pend[t].src = Nil
    /\ h' = [h EXCEPT ![pend[t].dst] = NilSlice]
    /\ pend' = [pend EXCEPT ![t] = NoPend]
    /\ UNCHANGED <<count, buf>>

\* ~Slice, second step: the destructor of the Ptr member.
LeaveFinish(t) ==
    /\ pend[t].dst # Nil /\ pend[t].src = Nil
    /\ h' = [h EXCEPT ![pend[t].dst] = NilSlice]
    /\ count' = Dropped(pend[t].dst)
    /\ pend' = [pend EXCEPT ![t] = NoPend]
    /\ UNCHANGED buf

Next ==
    \/ \E t \in Threads : \E x \in HandlesOf(t), b \in Buffers, len \in 1 .. MaxLen :
          Make(t, x, b, len)
    \/ \E t \in Threads : \E x \in HandlesOf(t), y \in Handles : Copy(t, x, y)
    \/ \E t \in Threads : \E x, y \in HandlesOf(t) : Slicing(t, x, y)
    \/ \E t \in Threads : \E x, y \in HandlesOf(t), b \in Buffers : Append(t, x, y, b)
    \/ \E t \in Threads : \E x \in HandlesOf(t) : AssignNil(t, x)
    \/ \E t \in Threads : \E x, y \in HandlesOf(t) : AssignSame(t, x, y)
    \/ \E t \in Threads : \E x, y \in HandlesOf(t) : AssignStart(t, x, y)
    \/ \E t \in Threads : AssignFinish(t)
    \/ \E t \in Threads : \E x \in HandlesOf(t) : Leave(t, x)
    \/ \E t \in Threads : LeaveFinish(t)

Spec == Init /\ [][Next]_vars

-----------------------------------------------------------------------------
(* Properties.                                                             *)

Counted(b) == {x \in Handles : h[x].ref = b}

TypeOK ==
    /\ h \in [Handles -> [ref : Buffers \union {Nil}, alloc : Buffers \union {Nil},
                          start : Nat \union {Nil}, len : Nat, cap : Nat]]
    /\ count \in [Buffers -> Nat]
    /\ buf \in [Buffers -> [state : {"unused", "live", "freed"}, cap : Nat]]
    /\ pend \in [Threads -> [dst : Handles \union {Nil}, src : Handles \union {Nil}]]

\* The counter of a buffer is the number of slices that hold a reference to
\* it, those included that have given up the buffer itself.
CountExact == \A b \in Buffers : count[b] = Cardinality(Counted(b))

\* What indexing a slice touches is inside a live buffer: whatever windows
\* were cut, appended to, shared between threads, assigned and released.
Live(s) == s.alloc # Nil /\ buf[s.alloc].state = "live"
WindowInBuffer ==
    \A x \in Handles : /\ h[x].len <= h[x].cap
                       /\ h[x].cap > 0 => Live(h[x]) /\ h[x].start + h[x].cap <= buf[h[x].alloc].cap

\* A buffer is not freed while a slice points to it.
NoDangling == \A x \in Handles : h[x].alloc # Nil => Live(h[x]) /\ h[x].ref = h[x].alloc

\* Memory management is deterministic ("Hands-free deterministic memory
\* management with reference-counting", README.md:33): a buffer whose counter
\* is gone is freed.
NoLeak == \A b \in Buffers : buf[b].state = "live" => count[b] > 0

\* What the code does keep: the buffer is freed with its last reference if the
\* slice that gives it up still points to it, and lost for ever if that slice
\* was set to nil, or was itself being released when another one was.
FreedWithLast ==
    [][\A b \in Buffers : count[b] > 0 /\ count'[b] = 0 =>
          (buf'[b].state = "freed" <=> \E x \in Counted(b) : h[x].alloc = b)]_vars
=============================================================================
