-------------------------------- MODULE Maps ---------------------------------
(***************************************************************************)
(* Maps of src/api/map.hpp: a hash table behind a value.  Keys are found   *)
(* by equality, so that one that is not equal to itself (NaN) can be added *)
(* again and again and never found.  A loop over a map (scope.jule of      *)
(* src/julec/obj/cxx) walks a copy, or, with --opt-copy, the map itself.   *)
(*                                                                         *)
(* A table is a sequence: the order in which its iterators go.             *)
(***************************************************************************)
EXTENDS Integers, SequencesExt

CONSTANTS MapVars, \* variables of a map type
          Keys, NaN,
          Vals, Zero,
          MaxSize, \* for each variable, the bound on its length
          None

ASSUME MapsAssumption ==
    /\ NaN \in Keys /\ Zero \in Vals /\ None \notin MapVars
    /\ MaxSize \in [MapVars -> Nat]

VARIABLES
    map,   \* the tables
    loop   \* the loop being run

mapsVars == <<map, loop>>

\* over: the map; live: not a copy; walk: the keys of the copy; at: the entry the iterator
\* is at, 0 at the end, -1 if it has been freed.  seen and start: how often
\* each key was visited, and should be; added: the loop runs over a map that
\* its body adds to (history).
NoLoop == [over |-> None, live |-> FALSE, walk |-> <<>>, at |-> 0,
           seen |-> <<>>, start |-> <<>>, added |-> FALSE]

MapsInit ==
    /\ map = [v \in MapVars |-> <<>>]
    /\ loop = NoLoop

Entry(k, x) == [key |-> k, val |-> x]

\* unordered_map::find: the entry with that key, if there is one.
Find(t, k) == {i \in DOMAIN t : t[i].key = k /\ k # NaN}

\* How often a key is in a sequence of keys.
Count(t, k) == Cardinality({i \in DOMAIN t : t[i] = k})
Counts(t) == [k \in Keys |-> Count(t, k)]

\* The orders in which n entries can be linked.
Orders(n) == {p \in [1 .. n -> 1 .. n] : IsInjective(p)}

\* Whether the loop walks v itself.
Walks(v) == loop.over = v /\ loop.live

\* Entry i of v is freed; the entries behind it move up.
Erase(v, i) ==
    /\ map' = [map EXCEPT ![v] = RemoveAt(@, i)]
    /\ loop' = IF ~Walks(v) \/ loop.at < i THEN loop
               ELSE [loop EXCEPT !.at = IF @ = i THEN -1 ELSE @ - 1]

\* A new entry goes anywhere, and a table that grows links all of them anew.
Insert(v, k, x) ==
    LET t == Append(map[v], Entry(k, x))
    IN  /\ Len(map[v]) < MaxSize[v]
        /\ \E p \in Orders(Len(t)) :
              /\ map' = [map EXCEPT ![v] = [i \in DOMAIN t |-> t[p[i]]]]
              /\ loop' =
                    IF ~Walks(v) THEN loop
                    ELSE [loop EXCEPT !.added = TRUE, !.seen = <<>>, !.start = <<>>,
                             !.at = IF @ \in DOMAIN p THEN CHOOSE i \in DOMAIN p : p[i] = @ ELSE @]

\* A table is replaced: its entries are freed.
Replace(v, t) ==
    /\ Len(t) <= MaxSize[v]
    /\ map' = [map EXCEPT ![v] = t]
    /\ loop' = IF Walks(v) THEN [loop EXCEPT !.at = -1, !.added = TRUE, !.seen = <<>>, !.start = <<>>]
               ELSE loop

-----------------------------------------------------------------------------
(* Operations of map.hpp.                                                  *)

\* Wrong: the last entry with a key counts.
MapLiteralLast(v, k, x, y) ==
    Replace(v, IF k = NaN THEN <<Entry(k, x), Entry(k, y)>> ELSE <<Entry(k, y)>>)

\* {k: x, k: y}, Map(initializer_list): insert keeps the entry it finds.  Other
\* literals are this and a series of Set.
MapLiteral(v, k, x, y) ==
    Replace(v, IF k = NaN THEN <<Entry(k, x), Entry(k, y)>> ELSE <<Entry(k, x)>>)

\* A copy, or clone(m): the same entries, linked in the same order.
Assign(v, w) == v # w /\ Replace(v, map[w])

\* val, ok = m[k]: what is left in the two variables, val being old before.
LookUp(t, k, old) ==
    [ok |-> Find(t, k) # {},
     val |-> IF Find(t, k) = {} THEN old ELSE t[CHOOSE i \in Find(t, k) : TRUE].val]

\* operator[] makes an entry of a key it does not find, even to read it.
Read(v, k) == Find(map[v], k) = {} /\ Insert(v, k, Zero)

Set(v, k, x) ==
    \/ Find(map[v], k) = {} /\ Insert(v, k, x)
    \/ \E i \in Find(map[v], k) : map' = [map EXCEPT ![v][i].val = x] /\ UNCHANGED loop

Delete(v, k) ==
    \/ Find(map[v], k) = {} /\ UNCHANGED <<map, loop>>
    \/ \E i \in Find(map[v], k) : Erase(v, i)

Clear(v) ==
    /\ map' = [map EXCEPT ![v] = <<>>]
    /\ loop' = IF Walks(v) THEN [loop EXCEPT !.at = -1] ELSE loop

\* Wrong: maps::Equal without the comparison of the lengths.
EqualKeys(s, t) ==
    \A i \in DOMAIN s : \E j \in Find(t, s[i].key) : t[j].val = s[i].val

\* maps::Equal
Equal(s, t) ==
    /\ Len(s) = Len(t)
    /\ \A i \in DOMAIN s : \E j \in Find(t, s[i].key) : t[j].val = s[i].val

-----------------------------------------------------------------------------
(* for k, x in m { ... }: all operations may be run in the body.           *)

KeysOf(t) == [i \in DOMAIN t |-> t[i].key]
Walked == IF loop.live THEN KeysOf(map[loop.over]) ELSE loop.walk

\* Loop l once its iterator is at entry i of keys t: the key is visited.
Visit(l, t, i) ==
    IF i \notin DOMAIN t THEN [l EXCEPT !.at = 0]
    ELSE IF l.added THEN [l EXCEPT !.at = i]
    ELSE [l EXCEPT !.at = i, !.seen[t[i]] = @ + 1]

Loop(v, live) ==
    [over |-> v, live |-> live, walk |-> IF live THEN <<>> ELSE KeysOf(map[v]), at |-> 0,
     seen |-> [k \in Keys |-> 0], start |-> Counts(KeysOf(map[v])), added |-> FALSE]

\* iterHead: &m with the flag, if m is an lvalue; else a copy.
Begin(v, live) ==
    /\ loop = NoLoop
    /\ loop' = Visit(Loop(v, live), KeysOf(map[v]), 1)
    /\ UNCHANGED map

\* Wrong: the label before ++it is behind it, and it is advanced twice.
AdvanceTwice ==
    /\ loop.over # None /\ loop.at > 0
    /\ loop' = Visit(loop, Walked, loop.at + 2)
    /\ UNCHANGED map

\* ++it, at the end of the body or after continue.
Advance ==
    /\ loop.over # None /\ loop.at > 0
    /\ loop' = Visit(loop, Walked, loop.at + 1)
    /\ UNCHANGED map

\* The end, or break, return and goto before it.  Advancing an iterator that
\* was freed is the end of what can be said.
Finish == loop.over # None /\ loop' = NoLoop /\ UNCHANGED map

\* What is run outside of a loop or in the body of one.
Operation ==
    \/ \E v \in MapVars, k \in Keys, x, y \in Vals : MapLiteral(v, k, x, y)
    \/ \E v, w \in MapVars : Assign(v, w)
    \/ \E v \in MapVars, k \in Keys : Read(v, k) \/ Delete(v, k)
    \/ \E v \in MapVars, k \in Keys, x \in Vals : Set(v, k, x)
    \/ \E v \in MapVars : Clear(v)

MapsNext ==
    \/ (loop = NoLoop \/ loop.at # 0) /\ Operation
    \/ \E v \in MapVars, live \in BOOLEAN : Begin(v, live)
    \/ Advance \/ Finish

MapsSpec == MapsInit /\ [][MapsNext]_mapsVars

-----------------------------------------------------------------------------
(* Properties.                                                             *)

\* At most one entry for a key that is equal to itself.
TableOK ==
    /\ \A v \in MapVars : /\ Len(map[v]) <= MaxSize[v]
                       /\ \A k \in Keys \ {NaN} : Count(KeysOf(map[v]), k) <= 1
    /\ loop.at \in -1 .. Len(IF loop.over = None THEN <<>> ELSE Walked)

\* The function that a table stands for.
Content(t) ==
    [k \in {t[i].key : i \in DOMAIN t} \ {NaN} |-> t[CHOOSE i \in DOMAIN t : t[i].key = k].val]

With(f, k, x) == IF k = NaN THEN f ELSE [j \in DOMAIN f \union {k} |-> IF j = k THEN x ELSE f[j]]

\* What the operations say they make of the function of v.
MakesOf(v) ==
    LET f == Content(map[v])
        Is(h) == Content(map'[v]) = h /\ \A w \in MapVars \ {v} : map'[w] = map[w]
    IN  /\ \A k \in Keys, x \in Vals : Set(v, k, x) => Is(With(f, k, x))
        /\ \A k \in Keys : /\ Read(v, k) => Is(With(f, k, Zero))
                          /\ Delete(v, k) => Is(Restrict(f, DOMAIN f \ {k}))
        /\ Clear(v) => Is(<<>>)
        /\ \A w \in MapVars : Assign(v, w) => Is(Content(map[w]))
        /\ \A k \in Keys, x, y \in Vals : MapLiteral(v, k, x, y) => Is(With(<<>>, k, x))

\* Every operation does to that function what it says, in and out of loops and
\* whatever order the entries are in, and nothing to another map.
AsFunctions == [][\A v \in MapVars : map'[v] # map[v] => MakesOf(v)]_map

\* A lookup finds what that function has at the key, and leaves the variable
\* for the value alone if that is nothing.
LookUpAgrees ==
    \A v \in MapVars, k \in Keys, old \in Vals :
        LET f == Content(map[v])
        IN  LookUp(map[v], k, old) =
                [ok |-> k \in DOMAIN f, val |-> IF k \in DOMAIN f THEN f[k] ELSE old]

\* maps::Equal is equality of these functions, and false if NaN is a key.
EqualMeansSame ==
    \A v, w \in MapVars :
        Equal(map[v], map[w]) <=> /\ Content(map[v]) = Content(map[w])
                                  /\ NaN \notin Range(KeysOf(map[v]) \o KeysOf(map[w]))

\* A loop visits the keys that were there when it began, none more often than
\* it was there, and at its end it has visited all that are left.  This holds
\* of a loop over the map itself too, unless its body adds a key.
LoopVisits ==
    loop.over # None /\ ~loop.added =>
        /\ \A k \in Keys : loop.seen[k] <= loop.start[k]
        /\ loop.at = 0 => \A k \in Keys : Count(Walked, k) <= loop.seen[k]

\* A loop over a copy is not disturbed by its body: it visits exactly the keys
\* of the map as it was, and its iterator is never freed.
CopyUntouched ==
    loop.over # None /\ ~loop.live => /\ loop.at # -1 /\ ~loop.added
                                      /\ loop.at = 0 => loop.seen = loop.start

\* What reads of maps say, lookups and comparisons, is true of the functions
\* that the maps stand for, and no map has two entries for one key.
ReadsAgree == TableOK /\ LookUpAgrees /\ EqualMeansSame

\* Loops visit what they should: over a copy exactly the keys of the map as it
\* was, over the map itself that too as long as its body adds none.
LoopsVisit == LoopVisits /\ CopyUntouched
=============================================================================
