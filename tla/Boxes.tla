-------------------------------- MODULE Boxes --------------------------------
(***************************************************************************)
(* jule::Any (src/api/any.hpp), jule::Trait (src/api/trait.hpp) and the    *)
(* parts of jule::Ptr (src/api/ptr.hpp) they stand on: values and pointers *)
(* boxed in variables of dynamic type, assigned, swapped, compared and     *)
(* cast back, over a heap in which destroying a cell releases the box that *)
(* the cell holds in turn.  One thread; RefPtr has the interleavings.      *)
(*                                                                         *)
(* A cell is an object of one of Kinds with one field of type any.         *)
(***************************************************************************)
EXTENDS Integers, FiniteSets

CONSTANTS Ptrs, Anys, Traits,  \* variables of type &Node, any and of a trait
          Cells,               \* heap cells, each allocated at most once
          Node, List,          \* two structures; List cannot be compared
          Nil, Tmp,            \* nothing; the temporary of an expression
          SwapSame             \* the program swaps two equal pointers

Slots == Ptrs \union Anys \union Traits \union Cells \union {Tmp}

ASSUME ConstantAssumption ==
    /\ IsFiniteSet(Slots) /\ Nil \notin Slots
    /\ Ptrs \intersect (Anys \union Traits \union Cells) = {}
    /\ Anys \intersect (Traits \union Cells) = {} /\ Traits \intersect Cells = {}
    /\ Tmp \notin Ptrs \union Anys \union Traits \union Cells
    /\ Node # List /\ Nil \notin {Node, List}
    /\ SwapSame \in BOOLEAN

VARIABLES
    heap,  \* slot: what each variable and each field holds; count: the
           \* counters; kind: what was allocated in a cell; live: not deleted
    panic  \* the message the program ended with, or Nil

vars == <<heap, panic>>

\* alloc and ref of a Ptr (ref is null when not counted) and the type of a box.
Empty == [alloc |-> Nil, counted |-> FALSE, type |-> Nil]

Init ==
    /\ heap = [slot |-> [s \in Slots |-> Empty], count |-> [c \in Cells |-> 0],
               kind |-> [c \in Cells |-> Nil], live |-> {}]
    /\ panic = Nil

Alloc(s) == heap.slot[s].alloc

\* Ptr::operator==(nullptr_t), Any::operator==(nullptr_t): a box may have a
\* type and still be nil.
IsNil(s) == Alloc(s) = Nil

-----------------------------------------------------------------------------
(* Ptr: release, copy, assignment.                                         *)

\* dealloc of the Ptr, Any or Trait in slot s, and the slot whose release is
\* due with it: the field of the cell, if this was its last reference.
Drop(h, s) ==
    LET c == h.slot[s].alloc
        g == [h EXCEPT !.slot[s] = Empty]
    IN  IF ~h.slot[s].counted THEN <<g, Nil>>
        ELSE IF h.count[c] > 1 THEN <<[g EXCEPT !.count[c] = @ - 1], Nil>>
        ELSE <<[g EXCEPT !.count[c] = @ - 1, !.live = @ \ {c}], c>>

\* __free, all the way down.
Release(h, s) ==
    LET step[n \in 0 .. Cardinality(Cells) + 1] ==
            IF n = 0 THEN <<h, s>>
            ELSE LET before == step[n - 1]
                 IN  IF before[2] = Nil THEN before ELSE Drop(before[1], before[2])
    IN  step[Cardinality(Cells) + 1][1]

\* __get_copy into an empty slot; as<T>() differs in the type only.
Store(h, d, r) ==
    LET g == [h EXCEPT !.slot[d] = r]
    IN  IF r.counted THEN [g EXCEPT !.count[r.alloc] = @ + 1] ELSE g

\* Ptr::operator=
PtrAssign(h, d, s) ==
    IF h.slot[d].alloc # Nil /\ h.slot[d].alloc = h.slot[s].alloc THEN h
    ELSE LET g == Release(h, d) IN Store(g, d, g.slot[s])

\* Wrong: nothing is done when both boxes have the same type.
BoxAssignSameType(h, d, s) ==
    IF h.slot[d].type = h.slot[s].type THEN h
    ELSE LET g == Release(h, d) IN Store(g, d, g.slot[s])

\* Wrong: the source is read before the old value is released.
BoxAssignReadsFirst(h, d, s) == Store(Release(h, d), d, h.slot[s])

\* operator= of Any and of Trait: the source is read after the release.
BoxAssign(h, d, s) == LET g == Release(h, d) IN Store(g, d, g.slot[s])

Assign(h, d, s) == IF d \in Ptrs THEN PtrAssign(h, d, s) ELSE BoxAssign(h, d, s)

\* d = r, where r is a temporary of the same type that dies with the statement.
AssignTemp(h, d, r) == Release(Assign(Store(h, Tmp, r), d, Tmp), Tmp)

-----------------------------------------------------------------------------
(* Statements.                                                             *)

Running == panic = Nil

NodePtr == [kind |-> Node, ptr |-> TRUE]
Value(k) == [kind |-> k, ptr |-> FALSE]

Sort(s) == IF s \in Ptrs THEN Ptrs ELSE IF s \in Traits THEN Traits ELSE Anys \union Cells

\* jule::panic leaves through std::exit: no local is destroyed.
Panic(message) ==
    /\ panic' = message
    /\ heap' = [slot |-> [s \in Slots |-> Empty], count |-> [c \in Cells |-> 0],
                kind |-> [c \in Cells |-> Nil], live |-> {}]

Becomes(h) == heap' = h /\ UNCHANGED panic

\* must_ok: what an operation through slot s does unless s is nil.
Through(s, h) == IF IsNil(s) THEN Panic("invalid memory address or nil pointer deference")
                 ELSE Becomes(h)

\* A new cell of kind k, its field a copy of slot s; r is its first reference.
New(c, k, s) ==
    LET g == [heap EXCEPT !.kind[c] = k, !.live = @ \union {c}] IN BoxAssign(g, c, s)
First(c, type) == [alloc |-> c, counted |-> TRUE, type |-> type]
Unused(c) == heap.kind[c] = Nil

\* The first reference is made with the count at one: it moves into d.
MoveInto(h, d, r) ==
    LET g == [h EXCEPT !.slot[Tmp] = r, !.count[r.alloc] = 1]
    IN  Release(Assign(g, d, Tmp), Tmp)

\* p = new(Node, {next: a}): Ptr::make(instance).
NewPtr(p, a, c) == Unused(c) /\ Becomes(MoveInto(New(c, Node, a), p, First(c, Nil)))

\* b = *p: the value of Node is copied into a cell of its own.
BoxValue(b, p, c) ==
    /\ Unused(c)
    /\ Through(p, MoveInto(New(c, Node, Alloc(p)), b, First(c, Value(Node))))

\* b = List{}, b = new(List)
BoxList(b, c, ptr) ==
    /\ Unused(c)
    /\ Becomes(MoveInto(New(c, List, Tmp), b, First(c, [kind |-> List, ptr |-> ptr])))

\* b = p: the box shares the cell.  A nil pointer makes a nil box with a type.
BoxPtr(b, p) == Becomes(AssignTemp(heap, b, [heap.slot[p] EXCEPT !.type = NodePtr]))

\* ptr_equal; operator== of Ptr and of Trait.
Same(x, y) == Alloc(x) = Alloc(y)

\* Wrong: a value and a pointer are told apart by the structure only.
TypeIsKind(s, type) == ~IsNil(s) /\ heap.slot[s].type.kind = type.kind

\* type_is of Trait; the comparison of the type of an Any.
TypeIs(s, type) == heap.slot[s].type = type

\* The checks of cast and cast_ptr.
Cast(s, type, h) ==
    IF IsNil(s) \/ TypeIs(s, type) THEN Through(s, h) ELSE Panic("incompatible type")

\* p = b.(&Node)
CastPtr(p, b) == Cast(b, NodePtr, AssignTemp(heap, p, [heap.slot[b] EXCEPT !.type = Nil]))

\* a = b.(Node).next: cast copies the value, whose field is read.
CastValue(a, b) == Cast(b, Value(Node), AssignTemp(heap, a, heap.slot[Alloc(b)]))

\* x = y for two variables of one type, p.next = a, p.next = q.next, and
\* a = p.next.  A method called on a trait gets the cell itself (safe_ptr),
\* of a value too: declared with mut self it writes the field for all the
\* copies of the box.
Let(x, y) == Sort(x) = Sort(y) /\ Becomes(Assign(heap, x, y))
SetField(p, a) == Through(p, BoxAssign(heap, Alloc(p), a))
GetField(a, p) == Through(p, BoxAssign(heap, a, Alloc(p)))
CopyField(p, q) == IF IsNil(p) THEN Through(p, heap) ELSE Through(q, BoxAssign(heap, Alloc(p), Alloc(q)))

\* x = nil, and the end of the scope of x.
Clear(x) == Becomes(Release(heap, x))

\* Slice::swap and Array::swap of two items: std::swap.  The move constructor
\* of Ptr leaves a pointer that is not counted; Any and Trait are copied.
SwapPtr(h, x, y) ==
    LET g == [h EXCEPT !.slot[Tmp] = h.slot[x], !.slot[x].counted = FALSE]
    IN  Release(Assign(Assign(g, x, y), y, Tmp), Tmp)

SwapBox(h, x, y) ==
    Release(BoxAssign(BoxAssign(Store(h, Tmp, h.slot[x]), x, y), y, Tmp), Tmp)

Swap(x, y) ==
    /\ Sort(x) = Sort(y)
    /\ x \in Ptrs => SwapSame \/ IsNil(x) \/ ~Same(x, y)
    /\ Becomes(IF x \in Ptrs THEN SwapPtr(heap, x, y) ELSE SwapBox(heap, x, y))

Statement ==
    \/ \E p \in Ptrs, a \in Anys, c \in Cells : NewPtr(p, a, c)
    \/ \E b \in Anys \union Traits, p \in Ptrs :
          BoxPtr(b, p) \/ CastPtr(p, b) \/ \E c \in Cells : BoxValue(b, p, c)
    \/ \E b \in Anys \union Traits, c \in Cells, ptr \in BOOLEAN : BoxList(b, c, ptr)
    \/ \E a \in Anys :
          \/ \E b \in Anys \union Traits : CastValue(a, b)
          \/ \E p \in Ptrs \union Traits : SetField(p, a) \/ GetField(a, p)
    \/ \E p \in Ptrs \union Traits, q \in Ptrs : CopyField(p, q)
    \/ \E x, y \in Slots \ (Cells \union {Tmp}) : Let(x, y) \/ Swap(x, y)
    \/ \E x \in Slots \ Cells : Clear(x)

Next == Running /\ Statement

Spec == Init /\ [][Next]_vars

-----------------------------------------------------------------------------
(* Comparison of two values of type any.                                   *)

\* Wrong: boxed pointers are compared by what they point to.
AnyEqDeep(x, y) ==
    LET eq[n \in 0 .. Cardinality(Cells)] == [v \in Slots |-> [w \in Slots |->
            IF ~IsNil(v) /\ Same(v, w) THEN "equal"
            ELSE IF IsNil(v) \/ IsNil(w) \/ ~TypeIs(v, heap.slot[w].type)
                 THEN IF IsNil(v) /\ IsNil(w) THEN "equal" ELSE "different"
            ELSE IF n = 0 THEN "endless" ELSE eq[n - 1][Alloc(v)][Alloc(w)]]]
    IN  eq[Cardinality(Cells)][x][y]

\* operator== of Any.  The function `eq` of a type compares addresses for a
\* pointer, the fields for Node, and is null for List.
AnyEq(x, y) ==
    LET eq[n \in 0 .. Cardinality(Cells)] == [v \in Slots |-> [w \in Slots |->
            IF ~IsNil(v) /\ Same(v, w) THEN "equal"
            ELSE IF IsNil(v) \/ IsNil(w) \/ ~TypeIs(v, heap.slot[w].type)
                 THEN IF IsNil(v) /\ IsNil(w) THEN "equal" ELSE "different"
            ELSE IF heap.slot[v].type.ptr THEN "different"
            ELSE IF TypeIs(v, Value(List)) THEN "crash"
            ELSE IF n = 0 THEN "endless" ELSE eq[n - 1][Alloc(v)][Alloc(w)]]]
    IN  eq[Cardinality(Cells)][x][y]

-----------------------------------------------------------------------------
(* Properties.                                                             *)

Types == [kind : {Node, List}, ptr : BOOLEAN]
Holders(c) == {s \in Slots : Alloc(s) = c}

TypeOK ==
    /\ heap.slot \in [Slots -> [alloc : Cells \union {Nil}, counted : BOOLEAN, type : Types \union {Nil}]]
    /\ heap.count \in [Cells -> Nat]
    /\ heap.kind \in [Cells -> {Node, List, Nil}]
    /\ heap.live \subseteq Cells
    /\ heap.slot[Tmp] = Empty

\* The counter of a cell is the number of variables and fields that hold it,
\* and the cell lives as long as there is one: no pointer is left without a
\* share in the object it points to, whatever was boxed, cast and swapped.
CountExact ==
    \A c \in Cells : /\ heap.count[c] = Cardinality(Holders(c))
                     /\ c \in heap.live <=> heap.count[c] > 0

\* No variable and no field of a live object points to a deleted object.
NoDangling ==
    \A s \in Slots : ~IsNil(s) /\ (s \in Cells => s \in heap.live) => Alloc(s) \in heap.live

\* The cells that variables lead to through any number of fields, and those
\* that lead to themselves.
Closed(C) == \A c \in C : ~IsNil(c) => Alloc(c) \in C
Reached ==
    {c \in Cells : \A C \in SUBSET Cells :
        Closed(C) /\ (\A s \in Slots \ Cells : ~IsNil(s) => Alloc(s) \in C) => c \in C}
OnCycle(c) == ~IsNil(c) /\ \A C \in SUBSET Cells : Closed(C) /\ Alloc(c) \in C => c \in C

\* An object that nothing leads to is deleted at once, through every box on
\* the way, unless boxed pointers form a cycle.
Reclaimed == (\A c \in Cells : ~OnCycle(c)) => heap.live \subseteq Reached

\* What a variable of static type &Node, and the type of a box, say of an
\* object is what was allocated there.
TypeSafe ==
    /\ \A p \in Ptrs : ~IsNil(p) => heap.kind[Alloc(p)] = Node
    /\ \A s \in Slots \ Ptrs : ~IsNil(s) => heap.slot[s].type.kind = heap.kind[Alloc(s)]

\* A value put in a box of type any never changes, although the copies of the
\* box share it: neither a cast, nor a comparison, nor a trait with a method
\* that writes gets hold of it.
ByValue(c) == \E s \in Anys \union Cells : Alloc(s) = c /\ ~heap.slot[s].type.ptr
ValuesFrozen ==
    [][\A c \in heap.live \intersect heap'.live :
          ByValue(c) => heap'.slot[c] = heap.slot[c]]_vars

\* An assignment stores what its source held before the statement, although
\* the release that comes first may delete any number of objects; but a box
\* assigned to itself, or a field to itself through two pointers, becomes nil.
AssignStoresSource ==
    \A d, s \in (Slots \ (Cells \union {Tmp})) \union ({Alloc(p) : p \in Ptrs \union Traits} \ {Nil}) :
        Sort(d) = Sort(s) =>
            Assign(heap, d, s).slot[d] = IF d = s /\ d \notin Ptrs THEN Empty ELSE heap.slot[s]

\* A swap exchanges two boxes and leaves every counter as it was, even for a
\* box swapped with itself or with its copy.
SwapExchanges ==
    \A T \in {Anys, Traits} : \A x, y \in T :
        SwapBox(heap, x, y) = [heap EXCEPT !.slot[x] = heap.slot[y], !.slot[y] = heap.slot[x]]

\* Comparing values of type any is an equivalence wherever it answers.  It
\* always ends, on cyclic data too, and it can crash only where a List by
\* value is compared, in both orders.
EqAgrees ==
    LET V == Anys \union heap.live
        E(x, y) == AnyEq(x, y)
    IN  \A x, y \in V :
            /\ E(x, x) = "equal"
            /\ E(x, y) = E(y, x) /\ E(x, y) # "endless"
            /\ E(x, y) = "crash" => \E s \in V : TypeIs(s, Value(List))
            /\ E(x, y) = "equal" => \A z \in V : E(y, z) = E(x, z)

\* Every pointer and every box leads to a live object of the type it says,
\* every share is counted, and what nothing leads to is gone: after any
\* sequence of boxing, casting, assigning, swapping and leaving.
MemorySafe == TypeOK /\ CountExact /\ NoDangling /\ TypeSafe /\ Reclaimed

\* Assigning and swapping boxes do to the memory what the statement says, with
\* the one exception of AssignStoresSource.
AssignsAndSwaps == AssignStoresSource /\ SwapExchanges
=============================================================================
