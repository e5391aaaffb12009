-------------------------------- MODULE Items --------------------------------
(***************************************************************************)
(* What slices and arrays hold: the items of jule::Slice (src/api/         *)
(* slice.hpp) and jule::Array (array.hpp), append and copy (builtin.hpp),  *)
(* clone (derive/clone.hpp), and the statement that the optimiser puts in  *)
(* the place of an append (src/julec/opt/scope.jule).                      *)
(*                                                                         *)
(* Slice has the counters of the buffers.  Here a buffer goes as soon as   *)
(* no variable refers to it.                                               *)
(***************************************************************************)
EXTENDS Integers, FiniteSetsExt, SequencesExt

CONSTANTS Vars,     \* variables of type []T
          Values,   \* values of T
          Tmp,      \* the temporary of an expression
          Junk,     \* what uninitialised memory holds
          Emptied,  \* an empty map, which a moved one leaves, or a nil box
          N,        \* the length of the array
          MaxLen,   \* bound on the length of a slice,
          MaxCap,   \* and on the capacity of one that grows
          NotRunning

ASSUME ConstantAssumption ==
    /\ IsFiniteSet(Vars) /\ Tmp \notin Vars
    /\ {Junk, Emptied} \intersect Values = {} /\ Junk # Emptied
    /\ N \in Nat /\ MaxLen \in Nat /\ MaxCap \in Nat

Slices == Vars \union {Tmp}

\* The types T: std::copy is a memmove of trivial ones; a map can be moved; to
\* move a value of any other type is to copy it.  A box, of type any or of a
\* trait, becomes nil when it is assigned to itself.
Kinds == {"trivial", "class", "map", "box"}

\* One buffer for each slice, and one that a statement allocates.
Buffers == 1 .. Cardinality(Slices) + 1

VARIABLES
    mem,   \* kind: that of T; buf: the items of each buffer; h: the slices;
           \* arr: one array
    panic  \* the statement that the program ended in, or NotRunning

vars == <<mem, panic>>

\* Slice(): no buffer.
NilSlice == [buf |-> 0, start |-> 0, len |-> 0, cap |-> 0]
IsNil(s) == s.buf = 0

Init ==
    /\ \E v \in Values, kind \in Kinds :
          mem = [kind |-> kind, buf |-> [b \in Buffers |-> <<>>],
                 h |-> [x \in Slices |-> NilSlice], arr |-> [i \in 1 .. N |-> v]]
    /\ panic = NotRunning

Items(m, s) == IF IsNil(s) THEN <<>> ELSE SubSeq(m.buf[s.buf], s.start + 1, s.start + s.len)

-----------------------------------------------------------------------------
(* The operations.  A result is the memory and the slice returned.         *)

Result(m, s) == [m |-> m, s |-> s]

\* The memory with a buffer written anew, and with a slice assigned.
Write(m, b, items) == [m EXCEPT !.buf[b] = items]
Hold(m, x, s) == [m EXCEPT !.h[x] = s]

\* The allocator: any buffer that is not in use.
Fresh(m) == CHOOSE b \in Buffers : \A x \in Slices : m.h[x].buf # b

\* alloc_new(len, cap), with the items that are stored next.
AllocNew(m, items, len, cap) ==
    LET b == Fresh(m)
    IN  Result(Write(m, b, [i \in 1 .. cap |-> IF i <= Len(items) THEN items[i] ELSE Junk]),
               [buf |-> b, start |-> 0, len |-> len, cap |-> cap])

\* alloc(len, cap, def)
Alloc(m, len, cap, def) == AllocNew(m, [i \in 1 .. len |-> def], len, cap)
AllocFails(len, cap) == len < 0 \/ cap < 0 \/ len > cap

\* Slice::make: the empty literal is nil.
Make(m, items) ==
    IF items = <<>> THEN Result(m, NilSlice) ELSE AllocNew(m, items, Len(items), Len(items))

\* Wrong: the bound is the capacity.
OutOfRangeByCap(start, end, s) == start < 0 \/ end < 0 \/ start > end \/ end > s.cap

\* The test of Slice::slice(start, end).
OutOfRange(start, end, s) == start < 0 \/ end < 0 \/ start > end \/ end > s.len
SliceFails(start, end, s) == (start # 0 /\ end # 0 /\ IsNil(s)) \/ OutOfRange(start, end, s)

Cut(s, start, end) ==
    [s EXCEPT !.start = @ + start, !.len = end - start, !.cap = @ - start]

\* Array::slice copies.
ArrayFails(start, end) == start < 0 \/ end < 0 \/ start > end \/ end > N
ArraySlice(m, start, end) ==
    IF start = end THEN Result(m, NilSlice)
    ELSE AllocNew(m, SubSeq(m.arr, start + 1, end), end - start, end - start)

\* std::copy to where the items are assigns each of them to itself.
EachToItself(m, src, dst, at) == m.kind = "box" /\ src.buf = dst.buf /\ src.start = at

\* Wrong: copied from the last item to the first.
StdCopyBackward(m, src, n, dst, at) ==
    LET from == src.start
        gap == from - at
        old == m.buf[dst.buf]
    IN  Write(m, dst.buf, [k \in DOMAIN old |->
            IF k <= at \/ k > at + n THEN old[k]
            ELSE IF EachToItself(m, src, dst, at) THEN Emptied
            ELSE IF m.kind = "trivial" \/ src.buf # dst.buf \/ gap <= 0 \/ gap >= n
                 THEN m.buf[src.buf][from + k - at]
            ELSE m.buf[src.buf][from + n - ((n - (k - at)) % gap)]])

\* std::copy of the first n items of src to the index `at` of the buffer of
\* dst.  It is a memmove for a trivial T, and item by item, from the first on,
\* otherwise: towards a later part of what is copied, it repeats the items
\* that lie before that part.
StdCopy(m, src, n, dst, at) ==
    LET from == src.start
        gap == at - from
        old == m.buf[dst.buf]
    IN  Write(m, dst.buf, [k \in DOMAIN old |->
            IF k <= at \/ k > at + n THEN old[k]
            ELSE IF EachToItself(m, src, dst, at) THEN Emptied
            ELSE IF m.kind = "trivial" \/ src.buf # dst.buf \/ gap <= 0 \/ gap >= n
                 THEN m.buf[src.buf][from + k - at]
            ELSE m.buf[src.buf][from + ((k - at - 1) % gap) + 1]])

\* copy(dest, src)
Copy(m, dest, src) ==
    IF dest.len = 0 \/ src.len = 0 THEN m
    ELSE StdCopy(m, src, Min({dest.len, src.len}), dest, dest.start)

\* Wrong: the length is not set.
AllocForAppendNoLen(m, s, n) ==
    IF s.len + n > s.cap THEN AllocNew(m, Items(m, s), 0, 2 * (s.len + n)) ELSE Result(m, s)

\* std::move of the items of s out of their buffer, which other slices may
\* share.
MovedOut(m, s) ==
    IF m.kind # "map" \/ IsNil(s) THEN m
    ELSE Write(m, s.buf, [i \in DOMAIN m.buf[s.buf] |->
             IF s.start < i /\ i <= s.start + s.len THEN Emptied ELSE m.buf[s.buf][i]])

\* alloc_for_append
AllocForAppend(m, s, n) ==
    IF s.len + n > s.cap
    THEN AllocNew(MovedOut(m, s), Items(m, s), s.len, 2 * (s.len + n))
    ELSE Result(m, s)

\* append(s, more...)
AppendSlice(m, s, more) ==
    IF more.len = 0 THEN Result(m, s)
    ELSE LET r == AllocForAppend(m, s, more.len)
         IN  Result(StdCopy(r.m, more, more.len, r.s, r.s.start + r.s.len),
                    [r.s EXCEPT !.len = @ + more.len])

\* Wrong: the item is written where the last one is.
PushUnsafeLow(m, s, v) ==
    Result(Write(m, s.buf, [m.buf[s.buf] EXCEPT ![s.start + s.len] = v]), [s EXCEPT !.len = @ + 1])

\* __push
PushUnsafe(m, s, v) ==
    Result(Write(m, s.buf, [m.buf[s.buf] EXCEPT ![s.start + s.len + 1] = v]),
           [s EXCEPT !.len = @ + 1])

\* push
Push(m, s, v) ==
    IF s.len = s.cap THEN AllocNew(MovedOut(m, s), Append(Items(m, s), v), s.len + 1, 2 * (s.len + 1))
    ELSE PushUnsafe(m, s, v)

\* clone of a slice and its items: a nil slice gives one that is not nil.
Clone(m, s) == AllocNew(m, Items(m, s), s.len, s.len)

-----------------------------------------------------------------------------
(* Statements.                                                             *)

\* at of a slice and of an array; operator[] is at.
AtFails(s, i) == IsNil(s) \/ i < 0 \/ s.len <= i
Index(s, i) == s.start + i + 1

\* The expressions of the items that an append names: a value, an item of a
\* slice, and one that depends on the length of a slice.
Literals == [get : {"value"}, value : Values]
Exprs ==
    Literals
    \union [get : {"item"}, of : Vars, at : 0 .. MaxLen - 1]
    \union {e \in [get : {"len"}, of : Vars, none : Values, some : Values] : e.none # e.some}

ExprFails(m, e) == e.get = "item" /\ AtFails(m.h[e.of], e.at)
Eval(m, e) ==
    IF e.get = "value" THEN e.value
    ELSE IF e.get = "item" THEN m.buf[m.h[e.of].buf][Index(m.h[e.of], e.at)]
    ELSE IF m.h[e.of].len = 0 THEN e.none ELSE e.some

\* One of them, or one behind a value.
Named == {<<e>> : e \in Exprs} \union (Literals \X Exprs)

\* append(y, es...): the items are in a slice of their own.
AppendNamed(m, y, es) ==
    LET t == Make(m, [k \in 1 .. Len(es) |-> Eval(m, es[k])])
    IN  AppendSlice(Hold(t.m, Tmp, t.s), m.h[y], t.s)
AppendFails(m, es) == \E k \in 1 .. Len(es) : ExprFails(m, es[k])

\* What optimizeAssign makes of it: y is assigned first, and every expression
\* is evaluated after the items of y have moved and those before it are pushed.
PushStart(m, y, es) ==
    LET r == AllocForAppend(m, m.h[y], Len(es)) IN Hold(r.m, y, r.s)
PushExpr(m, y, e) ==
    LET r == PushUnsafe(m, m.h[y], Eval(m, e)) IN Hold(r.m, y, r.s)
PushedTo(m, y, es) ==
    LET one == PushExpr(PushStart(m, y, es), y, es[1])
    IN  IF Len(es) = 1 THEN one ELSE PushExpr(one, y, es[2])
PushFails(m, y, es) ==
    LET start == PushStart(m, y, es)
    IN  \/ ExprFails(start, es[1])
        \/ Len(es) = 2 /\ ExprFails(PushExpr(start, y, es[1]), es[2])

\* Buffers that nothing refers to go, and what no slice reaches is forgotten:
\* NoJunk would show a statement that makes it visible again.
Sweep(m) ==
    LET Seen(b, i) == \E x \in Slices :
            m.h[x].buf = b /\ m.h[x].start < i /\ i <= m.h[x].start + m.h[x].len
    IN  [m EXCEPT !.buf = [b \in Buffers |->
            IF \E x \in Slices : m.h[x].buf = b
            THEN [i \in DOMAIN m.buf[b] |-> IF Seen(b, i) THEN m.buf[b][i] ELSE Junk]
            ELSE <<>>]]

\* x = r; the temporaries end.
Store(x, r) == Sweep(Hold(Hold(r.m, x, r.s), Tmp, NilSlice))

Panic(statement) ==
    /\ panic' = statement
    /\ mem' = [mem EXCEPT !.buf = [b \in Buffers |-> <<>>], !.h = [x \in Slices |-> NilSlice]]

Becomes(m) == mem' = m /\ UNCHANGED panic
H(x) == mem.h[x]
Room(s, n) == s.len + n <= MaxLen /\ (s.len + n > s.cap => 2 * (s.len + n) <= MaxCap)

MakeSlice(x, len, cap, v) ==
    IF AllocFails(len, cap) THEN Panic("make") ELSE Becomes(Store(x, Alloc(mem, len, cap, v)))
Literal(x, items) == Becomes(Store(x, Make(mem, items)))
Slicing(x, y, start, end) ==
    IF SliceFails(start, end, H(y)) THEN Panic("slicing")
    ELSE Becomes(Store(x, Result(mem, Cut(H(y), start, end))))
ArraySlicing(x, start, end) ==
    IF ArrayFails(start, end) THEN Panic("slicing")
    ELSE Becomes(Store(x, ArraySlice(mem, start, end)))

\* x = append(y, z...), x = append(y, es...)
AppendTo(x, y, z) ==
    Room(H(y), H(z).len) /\ Becomes(Store(x, AppendSlice(mem, H(y), H(z))))
AppendItems(x, y, es) ==
    /\ Room(H(y), Len(es))
    /\ IF AppendFails(mem, es) THEN Panic("indexing")
       ELSE Becomes(Store(x, AppendNamed(mem, y, es)))

\* The latter with optimisation: x, which may be another variable, is not
\* looked at.
PushItems(y, es) ==
    /\ Room(H(y), Len(es))
    /\ IF PushFails(mem, y, es) THEN Panic("indexing") ELSE Becomes(Sweep(PushedTo(mem, y, es)))

\* What the C++ code of the runtime does with one item more.
PushGrow(x, v) == Room(H(x), 1) /\ Becomes(Store(x, Push(mem, H(x), v)))

CopyTo(x, y) == Becomes(Copy(mem, H(x), H(y)))

SetItem(x, i, v) ==
    IF AtFails(H(x), i) THEN Panic("indexing")
    ELSE Becomes(Write(mem, H(x).buf, [mem.buf[H(x).buf] EXCEPT ![Index(H(x), i)] = v]))
SwapItems(x, i, j) ==
    LET old == mem.buf[H(x).buf]
        a == Index(H(x), i)
        b == Index(H(x), j)
    IN  IF AtFails(H(x), i) \/ AtFails(H(x), j) THEN Panic("swapping")
        ELSE Becomes(Write(mem, H(x).buf, [old EXCEPT ![a] = old[b], ![b] = old[a]]))
SetArray(i, v) ==
    IF i < 0 \/ N <= i THEN Panic("indexing")
    ELSE Becomes([mem EXCEPT !.arr[i + 1] = v])
SwapArray(i, j) ==
    IF {i, j} \subseteq 0 .. N - 1
    THEN Becomes([mem EXCEPT !.arr =
                     [mem.arr EXCEPT ![i + 1] = mem.arr[j + 1], ![j + 1] = mem.arr[i + 1]]])
    ELSE Panic("swapping")
FillArray(v) == Becomes([mem EXCEPT !.arr = [i \in 1 .. N |-> v]])
FromLiteral(items) == Becomes([mem EXCEPT !.arr = items])

CloneTo(x, y) == Becomes(Store(x, Clone(mem, H(y))))
Let(x, y) == ~IsNil(H(y)) /\ Becomes(Store(x, Result(mem, H(y))))
Leave(x) == Becomes(Store(x, Result(mem, NilSlice)))

Bounds == -1 .. MaxLen
Statement ==
    \/ \E x \in Vars, v \in Values :
          \/ \E len, cap \in Bounds : MakeSlice(x, len, cap, v)
          \/ Literal(x, <<v>>) \/ PushGrow(x, v)
          \/ \E i \in Bounds : SetItem(x, i, v)
    \/ \E y \in Vars, es \in Named : PushItems(y, es) \/ \E x \in Vars : AppendItems(x, y, es)
    \/ \E x, y \in Vars :
          \/ Let(x, y) \/ CloneTo(x, y) \/ CopyTo(x, y)
          \/ \E i, j \in Bounds : Slicing(x, y, i, j)
          \/ \E z \in Vars : AppendTo(x, y, z)
    \/ \E x \in Vars, i, j \in Bounds : ArraySlicing(x, i, j) \/ SwapItems(x, i, j)
    \/ \E x \in Vars : Literal(x, <<>>) \/ Leave(x)
    \/ \E i, j \in -1 .. N : SwapArray(i, j) \/ \E v \in Values : SetArray(i, v) \/ FillArray(v)
    \/ \E items \in [1 .. N -> Values] : FromLiteral(items)

Next == panic = NotRunning /\ Statement

Spec == Init /\ [][Next]_vars

-----------------------------------------------------------------------------
(* Properties.                                                             *)

Stored == IF mem.kind \in {"map", "box"} THEN Values \union {Emptied} ELSE Values
TypeOK ==
    /\ mem.kind \in Kinds
    /\ \A b \in Buffers : \A i \in DOMAIN mem.buf[b] : mem.buf[b][i] \in Stored \union {Junk}
    /\ mem.arr \in [1 .. N -> Values]
    /\ \A x \in Slices : mem.h[x].buf \in {0} \union Buffers
    /\ mem.h[Tmp] = NilSlice

\* The capacity of a slice is what is left of its buffer, and its length is
\* within it, after any number of cuts, appends and pushes.
WindowsInBuffer ==
    \A x \in Vars : LET s == H(x)
                    IN  IF IsNil(s) THEN s = NilSlice
                        ELSE /\ s.start + s.cap = Len(mem.buf[s.buf])
                             /\ s.start >= 0 /\ 0 <= s.len /\ s.len <= s.cap

\* A program never sees uninitialised memory, although appends, clones and
\* slices of arrays allocate it.
NoJunk == \A x \in Vars : \A i \in 1 .. H(x).len : Items(mem, H(x))[i] \in Stored

\* The later part of a slice in which an earlier part of it is copied.
Overlap(to, at, src, n) == to.buf = src.buf /\ src.start < at /\ at < src.start + n

\* The items of s as another sees them that x has lost to a larger buffer.
Grows(y, z) == y.len + z.len > y.cap
Shown(s, x, lost) ==
    LET items == Items(mem, s)
    IN  [i \in DOMAIN items |->
            IF lost /\ s.buf = x.buf /\ s.start + i \in x.start + 1 .. x.start + x.len
            THEN Emptied ELSE items[i]]

\* The items of s as they are after std::copy has read n of them to the index
\* `at` of the buffer of `to`: boxes that it found in their place are nil.
Copied(items, s, to, at) ==
    [i \in DOMAIN items |-> IF EachToItself(mem, s, to, at) THEN Emptied ELSE items[i]]

\* append gives the items of both slices.  The exceptions: items of a type that
\* is not trivial, appended to a part of the slice they are from, in place;
\* maps of the slice itself, appended to it when it grows, which are empty; and
\* boxes appended in place to what lies before them, which become nil.
AppendConcatenates ==
    \A x, y \in Vars :
        LET r == AppendSlice(mem, H(x), H(y))
            lost == mem.kind = "map" /\ Grows(H(x), H(y))
            end == H(x).start + H(x).len
            more == IF Grows(H(x), H(y)) THEN Shown(H(y), H(x), lost)
                    ELSE Copied(Items(mem, H(y)), H(y), H(x), end)
        IN  \/ Items(r.m, r.s) = Items(mem, H(x)) \o more
            \/ /\ mem.kind # "trivial" /\ ~Grows(H(x), H(y))
               /\ Overlap(H(x), end, H(y), H(y).len)

\* append in place changes no item that lies before the end of the slice
\* appended to, in any slice.  When it moves to a buffer of its own, it shares
\* it with no slice, and other slices see the items they saw, but if they are
\* maps: they are then empty.
AppendSpares ==
    \A x, y, w \in Vars :
        LET r == AppendSlice(mem, H(x), H(y))
            end == H(x).start + H(x).len
            seen == Items(r.m, H(w))
        IN  /\ Len(seen) = H(w).len
            /\ \A i \in 1 .. Len(seen) : ~Grows(H(x), H(y)) =>
                  (seen[i] # Items(mem, H(w))[i] => H(w).buf = H(x).buf /\ H(w).start + i > end)
            /\ Grows(H(x), H(y)) => /\ seen = Shown(H(w), H(x), mem.kind = "map")
                                    /\ r.s.buf # H(w).buf

\* copy stores what the source held when it began, also where both overlap,
\* and touches nothing else.  The exceptions: an overlap of items that are not
\* trivial, and boxes copied to where they are, which become nil.
CopyTakesSource ==
    \A x, y \in Vars :
        LET n == Min({H(x).len, H(y).len})
            m == Copy(mem, H(x), H(y))
        IN  n > 0 => \/ /\ SubSeq(Items(m, H(x)), 1, n) = Copied(SubSeq(Items(mem, H(y)), 1, n), H(y), H(x), H(x).start)
                        /\ SubSeq(Items(m, H(x)), n + 1, H(x).len) = SubSeq(Items(mem, H(x)), n + 1, H(x).len)
                     \/ mem.kind # "trivial" /\ Overlap(H(x), H(x).start, H(y), n)

\* What a program can tell of its memory.
Looks(m) == [x \in Vars |-> [items |-> Items(m, m.h[x]), cap |-> m.h[x].cap,
                             with |-> {w \in Vars : m.h[w].buf = m.h[x].buf}]]

\* What es[k] reads is another when it is evaluated late: the length of y, or
\* an item that es[1] was pushed to, or a map that has moved from under another
\* slice to the larger buffer of y.
Late(y, es, k) ==
    LET e == es[k]
        at == Index(H(e.of), e.at)
        end == H(y).start + H(y).len
        grows == H(y).len + Len(es) > H(y).cap
    IN  \/ k = 2 /\ e.get = "len" /\ e.of = y
        \/ /\ e.get = "item" /\ H(e.of).buf = H(y).buf
           /\ \/ k = 2 /\ at = end + 1 /\ (e.of = y \/ ~grows)
              \/ mem.kind = "map" /\ grows /\ e.of # y /\ at \in H(y).start + 1 .. end

\* Slice::push, and the statement that the optimiser puts in the place of
\* x = append(y, es...), leave the memory as the append does, in place and
\* when they grow, or fail where it fails, if no expression comes late and the
\* target is the slice appended to; never if it is another.
PushIsAppend ==
    \A y \in Vars :
        /\ \A es \in Named : H(y).len + Len(es) <= MaxLen =>
              LET push == Looks(Sweep(PushedTo(mem, y, es)))
                  plain(x) == Looks(Store(x, AppendNamed(mem, y, es)))
              IN  /\ (\A k \in 1 .. Len(es) : ~Late(y, es, k)) =>
                        /\ PushFails(mem, y, es) <=> AppendFails(mem, es)
                        /\ ~AppendFails(mem, es) => push = plain(y)
                  /\ ~PushFails(mem, y, es) /\ ~AppendFails(mem, es) =>
                        \A x \in Vars \ {y} : push # plain(x)
        /\ \A x \in Vars, v \in Values :
              Looks(Store(x, Push(mem, H(y), v))) =
              Looks(Store(x, AppendNamed(mem, y, <<[get |-> "value", value |-> v]>>)))

\* A clone has the items of its source and shares no buffer.
CloneApart ==
    \A x, w \in Vars :
        LET r == Clone(mem, H(x))
        IN  Items(r.m, r.s) = Items(mem, H(x)) /\ r.s.buf # H(w).buf /\ Items(r.m, H(w)) = Items(mem, H(w))

\* Every slice is a window of initialised items in its buffer.
WindowsSound == TypeOK /\ WindowsInBuffer /\ NoJunk

\* append is concatenation, and changes nothing that another slice sees but
\* what lies behind the end of the slice appended to.
Appends == AppendConcatenates /\ AppendSpares

\* copy and clone store what the source held, and leave the rest alone.
Copies == CopyTakesSource /\ CloneApart
=============================================================================
