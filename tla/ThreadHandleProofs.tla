------------------------- MODULE ThreadHandleProofs --------------------------
(***************************************************************************)
(* For any numbers of callers, values and native threads: while no two     *)
(* calls overlap on one value, the counter of a native thread is the       *)
(* number of values that hold a reference to it, through every overlap of  *)
(* calls on different values; and a program whose calls do not overlap on  *)
(* one native thread, that assigns to no last value of an active one, and  *)
(* whose routines do not wait for themselves is never terminated by its    *)
(* use of Thread.                                                          *)
(***************************************************************************)
EXTENDS ThreadHandle, FiniteSetTheorems, TLAPS

OpRec == [at : Steps, val : Values \union {Nil}, dtor : BOOLEAN, obj : Natives \union {Nil}]
States == {"unused", "joinable", "joined", "detached", "deleted"}
Gone == {"unused", "deleted"}

\* A caller in a call has a value, and no other has one.
OpOK == \A p \in Callers : IF op[p].at = "idle" THEN op[p] = Idle ELSE op[p].val \in Values

TInv == TypeOK /\ OpOK /\ (clashed => raced)

\* The native thread that a value holds a reference to, and the one whose
\* object it keeps alive; a function, and the values that it maps to n.
Held == [v \in Values |-> IF v \in Leaving({"forget", "free"}) THEN Nil ELSE handle[v]]
Kept == [v \in Values |-> IF v \in Leaving({"forget"}) THEN Nil ELSE handle[v]]
Users(h, n) == {v \in Values : h[v] = n}

Counts == \A n \in Natives : count[n] = Cardinality(Users(Held, n))
Lives == \A n \in Natives : native[n] \in Gone <=> Users(Kept, n) = {}

\* No two calls are under way on one value.
Apart ==
    \A p, q \in Callers : p # q /\ op[p].at # "idle" /\ op[q].at # "idle" =>
        op[p].val # op[q].val

\* The native thread that a call has loaded is still that of its value; the
\* one call that deletes it has taken the last reference.
Loaded(p) ==
    op[p].at \in {"joining", "subtract", "forget", "free"} =>
        /\ op[p].obj = handle[op[p].val] /\ op[p].obj # Nil
        /\ native[op[p].obj] # "unused"
        /\ op[p].at = "free" => count[op[p].obj] = 0
OneDeletes ==
    \A p, q \in Callers : p # q /\ op[p].at = "free" /\ op[q].at = "free" => op[p].obj # op[q].obj

Exact == Counts /\ Lives /\ Apart /\ OneDeletes /\ \A p \in Callers : Loaded(p)

CInv == TInv /\ (~clashed => Exact)

\* No two calls are under way on one native thread.
Alone ==
    \A p, q \in Callers : p # q /\ op[p].at # "idle" /\ op[q].at # "idle" =>
        /\ op[p].val # op[q].val
        /\ handle[op[p].val] # Nil => handle[op[p].val] # handle[op[q].val]

\* What a caller has found of its native thread is still so.
Tested(p) ==
    /\ op[p].at \in {"join", "joining", "detaching", "unique", "release"} => Active(op[p].val)
    /\ op[p].at \in {"drop", "subtract"} /\ Active(op[p].val) => count[handle[op[p].val]] # 1
    /\ op[p].at = "free" => ~Active(op[p].val)

\* The program keeps to what the type promises for.
Tame == ~OverwritesActive /\ ~SelfWaits
Orderly == ~raced /\ Tame
Undisturbed == Orderly /\ ~crashed => Alone /\ \A p \in Callers : Tested(p)

SafeInv == (Tame => SafeWithoutRaces) /\ JoinedHasFinished /\ Undisturbed
IInv == CInv /\ SafeInv

-----------------------------------------------------------------------------
(* Counting the values that hold a native thread.                          *)

LEMMA NilApart == Nil \notin Natives /\ Nil \notin Values
  BY ConstantAssumption

LEMMA UsersCount ==
  ASSUME NEW h, NEW n
  PROVE  /\ IsFiniteSet(Users(h, n)) /\ Cardinality(Users(h, n)) \in 0 .. Wrap - 1
         /\ Cardinality(Users(h, n)) = 0 <=> Users(h, n) = {}
  <1>1. Users(h, n) \subseteq Values  BY DEF Users
  <1>2. IsFiniteSet(Users(h, n)) /\ Cardinality(Users(h, n)) <= Cardinality(Values)
    BY <1>1, ConstantAssumption, FS_Subset
  <1>3. Cardinality(Users(h, n)) \in Nat /\ Cardinality(Values) \in Nat
    BY <1>2, ConstantAssumption, FS_CardinalityType
  <1>4. Cardinality(Users(h, n)) = 0 <=> Users(h, n) = {}
    BY <1>2, FS_EmptySet
  <1>5. QED  BY <1>2, <1>3, <1>4, ConstantAssumption

\* How many values are mapped to n when h becomes g, which differs from it at
\* v alone: no counter wraps.
Recounted(h, g, v, n) ==
    Cardinality(Users(g, n)) =
        IF h[v] = n /\ g[v] # n THEN Minus(Cardinality(Users(h, n)))
        ELSE IF h[v] # n /\ g[v] = n THEN Plus(Cardinality(Users(h, n)))
        ELSE Cardinality(Users(h, n))

LEMMA Recount ==
  ASSUME NEW h, NEW g, NEW v \in Values, \A w \in Values : w # v => g[w] = h[w], NEW n
  PROVE  Recounted(h, g, v, n)
  <1> DEFINE c == Cardinality(Users(h, n))
             d == Cardinality(Users(g, n))
  <1>1. c \in 0 .. Wrap - 1 /\ d \in 0 .. Wrap - 1
        /\ IsFiniteSet(Users(h, n)) /\ IsFiniteSet(Users(g, n)) /\ Wrap \in Nat
    BY UsersCount, ConstantAssumption
  <1>2. CASE h[v] = n /\ g[v] # n
    <2> DEFINE S == Users(g, n)
    <2>1. IsFiniteSet(S) /\ v \notin S /\ Users(h, n) = S \union {v}
      BY <1>1, <1>2 DEF Users
    <2> HIDE DEF S
    <2>2. Cardinality(S \union {v}) = Cardinality(S) + 1
      BY <2>1, FS_AddElement
    <2>3. c = d + 1
      BY <2>1, <2>2 DEF S
    <2>4. QED  BY <1>1, <1>2, <2>3 DEF Minus, Recounted
  <1>3. CASE h[v] # n /\ g[v] = n
    <2> DEFINE S == Users(h, n)
    <2>1. IsFiniteSet(S) /\ v \notin S /\ Users(g, n) = S \union {v}
      BY <1>1, <1>3 DEF Users
    <2> HIDE DEF S
    <2>2. Cardinality(S \union {v}) = Cardinality(S) + 1
      BY <2>1, FS_AddElement
    <2>3. d = c + 1
      BY <2>1, <2>2 DEF S
    <2>4. QED  BY <1>1, <1>3, <2>3 DEF Plus, Recounted
  <1>4. CASE h[v] = n <=> g[v] = n
    <2>1. Users(g, n) = Users(h, n)
      BY <1>4 DEF Users
    <2>2. QED  BY <1>4, <2>1 DEF Recounted
  <1>5. QED  BY <1>2, <1>3, <1>4

LEMMA Functions ==
  ASSUME TypeOK
  PROVE  /\ Held \in [Values -> Natives \union {Nil}] /\ Kept \in [Values -> Natives \union {Nil}]
         /\ \A v \in Values : Held[v] # Nil => Kept[v] = Held[v]
  <1>1. \A v \in Values : v \in Leaving({"forget"}) => v \in Leaving({"forget", "free"})
    BY DEF Leaving
  <1>2. handle \in [Values -> Natives \union {Nil}]
    BY DEF TypeOK
  <1>3. QED  BY <1>1, <1>2 DEF Held, Kept

\* One more and one less stay within the width.
LEMMA Widths ==
  ASSUME NEW k \in 0 .. Wrap - 1
  PROVE  Plus(k) \in 0 .. Wrap - 1 /\ Minus(k) \in 0 .. Wrap - 1
  BY ConstantAssumption DEF Plus, Minus

LEMMA CountExactFollows == ASSUME CInv PROVE CountExact
  <1>1. ASSUME ~clashed, NEW n \in Natives
        PROVE  /\ count[n] = Cardinality(Denoting(n) \ Leaving({"forget", "free"}))
               /\ native[n] \in Gone <=> Denoting(n) \subseteq Leaving({"forget"})
    <2>1. Users(Held, n) = Denoting(n) \ Leaving({"forget", "free"})
      BY NilApart DEF Users, Held, Denoting
    <2>2. Users(Kept, n) = {} <=> Denoting(n) \subseteq Leaving({"forget"})
      BY NilApart DEF Users, Kept, Denoting
    <2>3. QED  BY <1>1, <2>1, <2>2 DEF CInv, Exact, Counts, Lives
  <1>2. QED  BY <1>1 DEF CountExact, Gone

-----------------------------------------------------------------------------
(* A step of one call: p goes on to the step `to`.                         *)

Moved(p, to) ==
    /\ op' \in [Callers -> OpRec] /\ OpOK'
    /\ op'[p].at = to
    /\ op'[p].val = IF to = "idle" THEN Nil ELSE op[p].val
    /\ \A q \in Callers : q # p => op'[q] = op[q]

LEMMA GotoOp ==
  ASSUME TypeOK, OpOK, NEW p \in Callers, NEW to \in Steps, op[p].at # "idle", Goto(p, to)
  PROVE  Moved(p, to) /\ (to # "idle" => op'[p].obj = op[p].obj)
  <1>1. op \in [Callers -> OpRec] /\ op[p] \in OpRec /\ op[p].val \in Values
    BY DEF TypeOK, OpRec, OpOK
  <1>2. CASE to = "idle"
    <2>1. op' = [op EXCEPT ![p] = Idle]
      BY <1>2 DEF Goto
    <2>2. Idle \in OpRec /\ Idle.at = "idle" /\ Idle.val = Nil
      BY DEF Idle, OpRec, Steps
    <2>3. op' \in [Callers -> OpRec] /\ op'[p] = Idle /\ \A q \in Callers : q # p => op'[q] = op[q]
      BY <1>1, <2>1, <2>2
    <2>4. QED  BY <1>2, <2>2, <2>3 DEF OpOK, Moved
  <1>3. CASE to # "idle"
    <2> DEFINE o == [op[p] EXCEPT !.at = to]
    <2>1. o \in OpRec /\ o.at = to /\ o.val = op[p].val /\ o.obj = op[p].obj
      BY <1>1 DEF OpRec
    <2>2. op' = [op EXCEPT ![p] = o]
      BY <1>3 DEF Goto
    <2> HIDE DEF o
    <2>3. op' \in [Callers -> OpRec] /\ op'[p] = o /\ \A q \in Callers : q # p => op'[q] = op[q]
      BY <1>1, <2>1, <2>2
    <2>4. QED  BY <1>1, <1>3, <2>1, <2>3 DEF OpOK, Moved
  <1>4. QED  BY <1>2, <1>3

\* The same for a step that also loads native thread n.
LEMMA LoadOp ==
  ASSUME TypeOK, OpOK, NEW p \in Callers, NEW to \in Steps \ {"idle"}, op[p].at # "idle",
         NEW n \in Natives, op' = [op EXCEPT ![p] = [op[p] EXCEPT !.at = to, !.obj = n]]
  PROVE  Moved(p, to) /\ op'[p].obj = n
  <1>1. op \in [Callers -> OpRec] /\ op[p] \in OpRec /\ op[p].val \in Values
    BY DEF TypeOK, OpRec, OpOK
  <1> DEFINE o == [op[p] EXCEPT !.at = to, !.obj = n]
  <1>2. o \in OpRec /\ o.at = to /\ o.val = op[p].val /\ o.obj = n
    BY <1>1 DEF OpRec
  <1>3. op' = [op EXCEPT ![p] = o]
    OBVIOUS
  <1> HIDE DEF o
  <1>4. op' \in [Callers -> OpRec] /\ op'[p] = o /\ \A q \in Callers : q # p => op'[q] = op[q]
    BY <1>1, <1>2, <1>3
  <1>5. QED  BY <1>1, <1>2, <1>4 DEF OpOK, Moved

\* Who is about to clear a value: its one call, if any.
LEMMA LeavingNow ==
  ASSUME TInv, Apart, NEW p \in Callers, op[p].at # "idle", NEW S \in SUBSET (Steps \ {"idle"})
  PROVE  op[p].val \in Leaving(S) <=> op[p].at \in S
  BY DEF Apart, Leaving

LEMMA LeavingMoved ==
  ASSUME TInv, Apart, NEW p \in Callers, op[p].at # "idle", NEW to \in Steps, Moved(p, to),
         NEW S \in SUBSET (Steps \ {"idle"}), NEW x \in Values
  PROVE  x \in Leaving(S)' <=> IF x = op[p].val THEN to \in S ELSE x \in Leaving(S)
  <1>1. op[p].val \in Values
    BY DEF TInv, OpOK
  <1>2. x \in Leaving(S)' <=> \E q \in Callers : op'[q].at \in S /\ op'[q].val = x
    BY DEF Leaving
  <1>3. x \in Leaving(S) <=> \E q \in Callers : op[q].at \in S /\ op[q].val = x
    BY DEF Leaving
  <1>4. \A q \in Callers : q # p => op'[q] = op[q]
    BY DEF Moved
  <1>5. op'[p].at = to /\ op'[p].val = IF to = "idle" THEN Nil ELSE op[p].val
    BY DEF Moved
  <1>6. CASE x = op[p].val
    <2>1. \A q \in Callers : q # p /\ op[q].at \in S => op[q].val # x
      BY <1>6 DEF Apart
    <2>2. QED  BY <1>2, <1>4, <1>5, <1>6, <2>1
  <1>7. CASE x # op[p].val
    BY <1>2, <1>3, <1>4, <1>5, <1>7, NilApart
  <1>8. QED  BY <1>6, <1>7

LEMMA ApartMoved ==
  ASSUME Apart, NEW p \in Callers, op[p].at # "idle", NEW to \in Steps, Moved(p, to)
  PROVE  Apart'
  BY DEF Apart, Moved

LEMMA StepNames == {"wait", "join", "joining", "detach", "detaching", "dispose", "unique", "release",
                    "drop", "subtract", "forget", "free", "idle"} = Steps
  BY DEF Steps

\* A step that takes and gives up no reference: it may tell that a native
\* thread is joined or detached.
LEMMA ExactMove ==
  ASSUME TInv, Exact, NEW p \in Callers, NEW to \in Steps, Moved(p, to),
         op[p].at \notin {"idle", "subtract", "forget", "free"}, to \notin {"forget", "free"},
         UNCHANGED <<handle, count>>,
         \A n \in Natives : (native'[n] \in Gone <=> native[n] \in Gone)
                            /\ (native[n] # "unused" => native'[n] # "unused"),
         to \in {"joining", "subtract"} =>
             /\ op'[p].obj = handle[op[p].val] /\ op'[p].obj \in Natives
             /\ native[op'[p].obj] # "unused"
  PROVE  Exact'
  <1>1. \A x \in Values : /\ x \in Leaving({"forget", "free"})' <=> x \in Leaving({"forget", "free"})
                          /\ x \in Leaving({"forget"})' <=> x \in Leaving({"forget"})
    <2>1. {"forget", "free"} \in SUBSET (Steps \ {"idle"}) /\ {"forget"} \in SUBSET (Steps \ {"idle"})
      BY DEF Steps
    <2>2. QED  BY <2>1, LeavingMoved, LeavingNow DEF Exact
  <1>2. Held' = Held /\ Kept' = Kept
    BY <1>1 DEF Held, Kept
  <1>3. (Counts /\ Lives)'
    BY <1>2 DEF Exact, Counts, Lives, Users
  <1>4. Apart'
    BY ApartMoved DEF Exact
  <1>5. OneDeletes'
    BY DEF Moved, Exact, OneDeletes
  <1>6. ASSUME NEW q \in Callers PROVE Loaded(q)'
    <2>1. CASE q = p
      BY <2>1, NilApart DEF Moved, Loaded
    <2>2. CASE q # p
      <3>1. Loaded(q) /\ op'[q] = op[q]
        BY <2>2 DEF Exact, Moved
      <3>2. op[q].obj \in Natives \union {Nil}
        BY DEF TInv, TypeOK
      <3>3. QED  BY <3>1, <3>2 DEF Loaded
    <2>3. QED  BY <2>1, <2>2
  <1>7. QED  BY <1>3, <1>4, <1>5, <1>6 DEF Exact

\* A value that no call uses comes to denote r: it holds r and keeps it alive.
LEMMA ValueTaken ==
  ASSUME TInv, NEW v \in Values, Unused(v), NEW r \in Natives \union {Nil},
         handle' = [handle EXCEPT ![v] = r], UNCHANGED op
  PROVE  Held' = [Held EXCEPT ![v] = r] /\ Kept' = [Kept EXCEPT ![v] = r]
         /\ Held[v] = handle[v] /\ Kept[v] = handle[v]
  <1>1. \A S : Leaving(S)' = Leaving(S) /\ v \notin Leaving(S)
    BY DEF Leaving, Unused
  <1>2. handle \in [Values -> Natives \union {Nil}]
    BY DEF TInv, TypeOK
  <1>3. Held' = [x \in Values |-> IF x \in Leaving({"forget", "free"}) THEN Nil ELSE handle'[x]]
        /\ Kept' = [x \in Values |-> IF x \in Leaving({"forget"}) THEN Nil ELSE handle'[x]]
    BY <1>1 DEF Held, Kept
  <1>4. QED  BY <1>1, <1>2, <1>3 DEF Held, Kept

\* The calls under way have no part in that.
LEMMA LoadedStays ==
  ASSUME TInv, Exact, NEW v \in Values, Unused(v), NEW r \in Natives \union {Nil},
         handle' = [handle EXCEPT ![v] = r], UNCHANGED op,
         \A n \in Natives : /\ native[n] # "unused" => native'[n] # "unused"
                            /\ count[n] = 0 /\ native[n] # "unused" => count'[n] = 0
  PROVE  Apart' /\ OneDeletes' /\ \A p \in Callers : Loaded(p)'
  <1>1. Apart' /\ OneDeletes'
    BY DEF Exact, Apart, OneDeletes
  <1>2. ASSUME NEW p \in Callers PROVE Loaded(p)'
    <2>1. CASE op[p].at = "idle"
      BY <2>1 DEF Loaded
    <2>2. CASE op[p].at # "idle"
      <3>1. Loaded(p) /\ op[p].val \in Values /\ op[p].val # v /\ op[p].obj \in Natives \union {Nil}
        BY <2>2 DEF Exact, TInv, OpOK, TypeOK, Unused
      <3>2. handle'[op[p].val] = handle[op[p].val]
        BY <3>1 DEF TInv, TypeOK
      <3>3. QED  BY <3>1, <3>2 DEF Loaded
    <2>3. QED  BY <2>1, <2>2
  <1>3. QED  BY <1>1, <1>2

\* A native thread that a value denotes which no call is about to clear is
\* there, and counted.
LEMMA Denoted ==
  ASSUME TInv, Exact, NEW v \in Values, handle[v] # Nil
  PROVE  /\ handle[v] \in Natives
         /\ v \notin Leaving({"forget"}) => native[handle[v]] \notin Gone
         /\ v \notin Leaving({"forget", "free"}) => count[handle[v]] # 0
  <1>1. handle[v] \in Natives
    BY DEF TInv, TypeOK
  <1>2. v \notin Leaving({"forget"}) => v \in Users(Kept, handle[v])
    BY DEF Users, Kept
  <1>3. v \notin Leaving({"forget", "free"}) => v \in Users(Held, handle[v])
    BY DEF Users, Held
  <1>4. QED  BY <1>1, <1>2, <1>3, UsersCount DEF Exact, Lives, Counts

\* One that is not there is not counted.
LEMMA NotThere ==
  ASSUME TypeOK, Counts, Lives, NEW n \in Natives, native[n] \in Gone
  PROVE  count[n] = 0
  <1>1. Users(Held, n) \subseteq Users(Kept, n)
    BY Functions, NilApart DEF Users
  <1>2. QED  BY <1>1, UsersCount DEF Counts, Lives

-----------------------------------------------------------------------------
(* The calls that use a native thread alone.                               *)

\* A step of p that changes no native thread leaves what the others found.
LEMMA CallStep ==
  ASSUME IInv, NEW p \in Callers, NEW to \in Steps, op[p].at # "idle", ~crashed, Moved(p, to),
         UNCHANGED <<handle, native, running, raced, clashed, crashed>>,
         \A n \in Natives : n # handle[op[p].val] => count'[n] = count[n],
         Orderly => /\ to \in {"join", "joining", "detaching", "unique", "release"} => Active(op[p].val)
                    /\ to \in {"drop", "subtract"} /\ Active(op[p].val) => count'[handle[op[p].val]] # 1
                    /\ to = "free" => ~Active(op[p].val)
  PROVE  SafeInv'
  <1>1. /\ op'[p].at = to /\ (to # "idle" => op'[p].val = op[p].val)
        /\ \A q \in Callers : q # p => op'[q] = op[q]
    BY DEF Moved
  <1>2. ((Tame => SafeWithoutRaces) /\ JoinedHasFinished)'
    BY DEF IInv, SafeInv, SafeWithoutRaces, JoinedHasFinished, Tame
  <1>3. ASSUME Orderly PROVE (Alone /\ \A q \in Callers : Tested(q))'
    <2>1. Alone /\ \A q \in Callers : Tested(q)
      BY <1>3 DEF IInv, SafeInv, Undisturbed, Orderly
    <2>2. Alone'
      BY <1>1, <2>1 DEF Alone
    <2>3. ASSUME NEW q \in Callers PROVE Tested(q)'
      <3>1. CASE q = p
        <4>1. to # "idle" => (Active(op[p].val))' = Active(op[p].val)
          BY <1>1 DEF Active
        <4>2. QED  BY <1>1, <1>3, <3>1, <4>1 DEF Tested, Active
      <3>2. CASE q # p /\ op[q].at # "idle"
        <4>1. op[q].val \in Values /\ (Active(op[q].val) => handle[op[q].val] # handle[op[p].val])
          BY <2>1, <3>2 DEF IInv, CInv, TInv, OpOK, Alone, Active
        <4>2. Active(op[q].val) => handle[op[q].val] \in Natives
          BY <4>1 DEF Active, IInv, CInv, TInv, TypeOK
        <4>3. QED  BY <1>1, <2>1, <3>2, <4>1, <4>2 DEF Tested, Active
      <3>3. CASE q # p /\ op[q].at = "idle"
        BY <1>1, <3>3 DEF Tested
      <3>4. QED  BY <3>1, <3>2, <3>3
    <2>4. QED  BY <2>2, <2>3
  <1>4. Undisturbed'
    BY <1>3 DEF Undisturbed, Orderly, Tame
  <1>5. QED  BY <1>2, <1>4 DEF SafeInv

LEMMA ExactStays ==
  ASSUME Exact, UNCHANGED <<handle, count, native, op>> PROVE Exact'
  <1>1. Held' = Held /\ Kept' = Kept
    BY DEF Held, Kept, Leaving
  <1>2. (Counts /\ Lives)'
    BY <1>1 DEF Exact, Counts, Lives, Users
  <1>3. (Apart /\ OneDeletes /\ \A p \in Callers : Loaded(p))'
    BY DEF Exact, Apart, OneDeletes, Loaded
  <1>4. QED  BY <1>2, <1>3 DEF Exact

LEMMA CrashStep ==
  ASSUME IInv, Crash, ~Orderly PROVE IInv'
  <1>1. TInv'
    BY DEF Crash, IInv, CInv, TInv, TypeOK, OpOK
  <1>2. (~clashed => Exact)'
    BY ExactStays DEF Crash, IInv, CInv
  <1>3. SafeInv'
    BY DEF Crash, IInv, SafeInv, SafeWithoutRaces, JoinedHasFinished, Undisturbed, Orderly, Tame,
           CInv, TInv, TypeOK
  <1>4. QED  BY <1>1, <1>2, <1>3 DEF IInv, CInv

\* A value that no call uses comes to denote r, at the cost of what it denoted
\* before; the calls under way have no part in it.
LEMMA ValueStep ==
  ASSUME IInv, NEW v \in Values, Unused(v), NEW r \in Natives \union {Nil},
         handle' = [handle EXCEPT ![v] = r], UNCHANGED op,
         Orderly' => /\ Orderly
                     /\ \A q \in Callers : op[q].at # "idle" =>
                         LET n == handle[op[q].val]
                         IN  n # Nil => /\ native'[n] = native[n]
                                        /\ count[n] # 1 => count'[n] # 1
  PROVE  Orderly' /\ ~crashed => (Alone /\ \A p \in Callers : Tested(p))'
  <1>1. SUFFICES ASSUME Orderly', ~crashed PROVE (Alone /\ \A p \in Callers : Tested(p))'
    OBVIOUS
  <1>2. Alone /\ \A p \in Callers : Tested(p)
    BY <1>1 DEF IInv, SafeInv, Undisturbed, Orderly
  <1>3. \A q \in Callers : op[q].at # "idle" => op[q].val \in Values /\ op[q].val # v
    BY DEF IInv, CInv, TInv, OpOK, Unused
  <1>4. \A q \in Callers : op[q].at # "idle" => handle'[op[q].val] = handle[op[q].val]
    BY <1>3 DEF IInv, CInv, TInv, TypeOK
  <1>5. Alone'
    BY <1>2, <1>4 DEF Alone
  <1>6. ASSUME NEW q \in Callers PROVE Tested(q)'
    <2>1. CASE op[q].at = "idle"
      BY <2>1 DEF Tested
    <2>2. CASE op[q].at # "idle"
      <3> DEFINE n == handle[op[q].val]
      <3>1. handle'[op[q].val] = n
        BY <1>4, <2>2
      <3>2. Tested(q)
        BY <1>2
      <3>3. n # Nil => native'[n] = native[n] /\ (count[n] # 1 => count'[n] # 1)
        BY <1>1, <2>2
      <3> HIDE DEF n
      <3>4. (Active(op[q].val))' <=> n # Nil /\ native'[n] = "joinable"
        BY <3>1 DEF Active
      <3>5. Active(op[q].val) <=> n # Nil /\ native[n] = "joinable"
        BY DEF Active, n
      <3>6. (Active(op[q].val))' <=> Active(op[q].val)
        BY <3>3, <3>4, <3>5
      <3>7. op[q].at \in {"drop", "subtract"} /\ Active(op[q].val) => count'[n] # 1
        BY <3>2, <3>3, <3>5 DEF Tested, n
      <3>8. QED  BY <3>1, <3>2, <3>6, <3>7 DEF Tested
    <2>3. QED  BY <2>1, <2>2
  <1>7. QED  BY <1>5, <1>6

-----------------------------------------------------------------------------
(* One lemma per action.                                                   *)

LEMMA InitIInv == ASSUME Init PROVE IInv
  <1>1. Wrap \in Nat /\ Wrap > 0
    BY ConstantAssumption, FS_CardinalityType
  <1>2. Idle \in OpRec
    BY DEF Idle, OpRec, Steps
  <1>3. TypeOK
    <2>1. count \in [Natives -> 0 .. Wrap - 1]
      BY <1>1 DEF Init
    <2>2. op \in [Callers -> OpRec]
      BY <1>2 DEF Init
    <2>3. QED  BY <2>1, <2>2 DEF Init, TypeOK, OpRec
  <1>4. OpOK
    BY DEF Init, OpOK, Idle
  <1>5. \A n \in Natives : Users(Held, n) = {} /\ Users(Kept, n) = {}
    BY NilApart DEF Init, Users, Held, Kept
  <1>6. Counts /\ Lives
    BY <1>5, UsersCount DEF Init, Counts, Lives, Gone
  <1>7. Apart /\ OneDeletes /\ \A p \in Callers : Loaded(p)
    BY DEF Init, Apart, OneDeletes, Loaded, Idle
  <1>8. SafeInv
    BY DEF Init, SafeInv, SafeWithoutRaces, JoinedHasFinished, Undisturbed, Alone, Tested, Idle
  <1>9. QED  BY <1>3, <1>4, <1>6, <1>7, <1>8 DEF IInv, CInv, TInv, Exact, Init

LEMMA SpawnIInv ==
  ASSUME IInv, NEW p \in Callers, NEW v \in Values, NEW n \in Natives, Spawn(p, v, n)
  PROVE  IInv'
  <1>1. /\ handle[v] = Nil /\ native[n] = "unused" /\ ~crashed /\ Unused(v)
        /\ handle' = [handle EXCEPT ![v] = n] /\ UNCHANGED <<op, raced, clashed, crashed>>
        /\ native' = [native EXCEPT ![n] = "joinable"] /\ running' = running \union {n}
        /\ count' = [count EXCEPT ![n] = 1]
    BY DEF Spawn, Free
  <1>2. /\ TypeOK /\ OpOK /\ count \in [Natives -> 0 .. Wrap - 1] /\ native \in [Natives -> States]
        /\ handle \in [Values -> Natives \union {Nil}]
    BY DEF IInv, CInv, TInv, TypeOK, States
  <1>3. Wrap \in Nat /\ Wrap > 1
    <2>1. Values # {} /\ Cardinality(Values) \in Nat /\ (Cardinality(Values) = 0 <=> Values = {})
      BY ConstantAssumption, FS_CardinalityType, FS_EmptySet
    <2>2. QED  BY <2>1, ConstantAssumption
  <1>4. TInv'
    <2>1. count' \in [Natives -> 0 .. Wrap - 1]
      BY <1>1, <1>2, <1>3
    <2>2. native' \in [Natives -> States] /\ handle' \in [Values -> Natives \union {Nil}]
      BY <1>1, <1>2 DEF States
    <2>3. QED  BY <1>1, <2>1, <2>2 DEF IInv, CInv, TInv, TypeOK, OpOK, States
  <1>5. ASSUME ~clashed PROVE Exact'
    <2>1. Exact /\ TInv
      BY <1>5 DEF IInv, CInv
    <2>2. /\ Held' = [Held EXCEPT ![v] = n] /\ Kept' = [Kept EXCEPT ![v] = n]
          /\ Held[v] = Nil /\ Kept[v] = Nil
          /\ Held \in [Values -> Natives \union {Nil}] /\ Kept \in [Values -> Natives \union {Nil}]
      BY <1>1, <1>2, <2>1, ValueTaken, Functions
    <2>3. count[n] = 0
      BY <1>1, <1>2, <2>1, NotThere DEF Exact, Gone
    <2>4. Counts'
      <3> DEFINE g == Held'
      <3>1. SUFFICES ASSUME NEW m \in Natives PROVE count'[m] = Cardinality(Users(g, m))
        BY DEF Counts, Users
      <3>2. count[m] = Cardinality(Users(Held, m))
        BY <2>1 DEF Exact, Counts
      <3>3. g[v] = n /\ \A w \in Values : w # v => g[w] = Held[w]
        BY <2>2
      <3> HIDE DEF g
      <3>4. Recounted(Held, g, v, m)
        BY <3>3, Recount
      <3>5. CASE m = n
        <4>1. Cardinality(Users(g, n)) = Plus(0)
          BY <2>2, <2>3, <3>2, <3>3, <3>4, <3>5, NilApart DEF Recounted
        <4>2. Plus(0) = 1
          BY <1>3 DEF Plus
        <4>3. QED  BY <1>1, <1>2, <3>5, <4>1, <4>2
      <3>6. CASE m # n
        BY <1>1, <1>2, <2>2, <3>2, <3>3, <3>4, <3>6, NilApart DEF Recounted
      <3>7. QED  BY <3>5, <3>6
    <2>5. Lives'
      <3>1. SUFFICES ASSUME NEW m \in Natives PROVE native'[m] \in Gone <=> Users(Kept', m) = {}
        BY DEF Lives, Users
      <3>2. native[m] \in Gone <=> Users(Kept, m) = {}
        BY <2>1 DEF Exact, Lives
      <3>3. CASE m = n
        <4>1. v \in Users(Kept', n)
          BY <2>2 DEF Users
        <4>2. QED  BY <1>1, <1>2, <3>3, <4>1 DEF Gone
      <3>4. CASE m # n
        <4>1. Users(Kept', m) = Users(Kept, m)
          BY <2>2, <3>4, NilApart DEF Users
        <4>2. QED  BY <1>1, <1>2, <3>2, <3>4, <4>1
      <3>5. QED  BY <3>3, <3>4
    <2>6. \A m \in Natives : /\ native[m] # "unused" => native'[m] # "unused"
                             /\ count[m] = 0 /\ native[m] # "unused" => count'[m] = 0
      BY <1>1, <1>2
    <2>7. Apart' /\ OneDeletes' /\ \A q \in Callers : Loaded(q)'
      BY <1>1, <2>1, <2>6, LoadedStays
    <2>8. QED  BY <2>4, <2>5, <2>7 DEF Exact
  <1>6. Undisturbed'
    <2>1. ASSUME Orderly', NEW q \in Callers, op[q].at # "idle", handle[op[q].val] # Nil
          PROVE  handle[op[q].val] # n /\ handle[op[q].val] \in Natives
      <3>1. ~clashed /\ Exact /\ TInv /\ op[q].val \in Values /\ Loaded(q)
        BY <1>1, <2>1 DEF Orderly, IInv, CInv, TInv, OpOK, Exact
      <3>2. CASE op[q].at = "forget"
        BY <1>1, <2>1, <3>1, <3>2, Denoted DEF Loaded
      <3>3. CASE op[q].at # "forget"
        <4>1. op[q].val \notin Leaving({"forget"})
          <5>1. {"forget"} \in SUBSET (Steps \ {"idle"})
            BY DEF Steps
          <5>2. QED  BY <2>1, <3>1, <3>3, <5>1, LeavingNow DEF Exact
        <4>2. QED  BY <1>1, <2>1, <3>1, <4>1, Denoted DEF Gone
      <3>4. QED  BY <3>2, <3>3
    <2>2. Orderly' => Orderly
      BY <1>1 DEF Orderly, Tame
    <2>3. \A m \in Natives : m # n => native'[m] = native[m] /\ count'[m] = count[m]
      BY <1>1, <1>2
    <2>4. Orderly' /\ ~crashed => (Alone /\ \A q \in Callers : Tested(q))'
      BY <1>1, <2>1, <2>2, <2>3, ValueStep
    <2>5. QED  BY <1>1, <2>4 DEF Undisturbed
  <1>7. ((Tame => SafeWithoutRaces) /\ JoinedHasFinished)'
    BY <1>1, <1>2 DEF IInv, SafeInv, SafeWithoutRaces, JoinedHasFinished, Tame
  <1>8. QED  BY <1>1, <1>4, <1>5, <1>6, <1>7 DEF IInv, CInv, SafeInv

LEMMA AssignIInv ==
  ASSUME IInv, NEW p \in Callers, NEW v \in Values, NEW w \in Values,
         Assign(p, v, w)
  PROVE  IInv'
  <1> DEFINE old == handle[v]
             new == handle[w]
             last == old # Nil /\ count[old] = 1
  <1>1. /\ ~crashed /\ Unused(v) /\ Unused(w) /\ old # new
        /\ (last /\ Active(v) => OverwritesActive)
        /\ handle' = [handle EXCEPT ![v] = new]
        /\ native' = IF last THEN [native EXCEPT ![old] = "deleted"] ELSE native
        /\ crashed' = (last /\ Active(v))
        /\ raced' = (raced \/ Overlaps(v))
        /\ UNCHANGED <<running, op, clashed>>
    BY DEF Assign, Free
  <1>2. count' = [n \in Natives |-> IF n = old THEN Minus(count[n])
                                    ELSE IF n = new THEN Plus(count[n]) ELSE count[n]]
    BY DEF Assign
  <1>3. /\ TypeOK /\ OpOK /\ TInv /\ count \in [Natives -> 0 .. Wrap - 1] /\ native \in [Natives -> States]
        /\ handle \in [Values -> Natives \union {Nil}]
        /\ old \in Natives \union {Nil} /\ new \in Natives \union {Nil}
    BY DEF IInv, CInv, TInv, TypeOK, States
  <1> HIDE DEF old, new, last
  <1>4. TInv'
    <2>1. count' \in [Natives -> 0 .. Wrap - 1]
      BY <1>2, <1>3, Widths
    <2>2. native' \in [Natives -> States] /\ handle' \in [Values -> Natives \union {Nil}]
      BY <1>1, <1>3 DEF States
    <2>3. raced' \in BOOLEAN /\ crashed' \in BOOLEAN /\ (clashed => raced)'
      BY <1>1, <1>3 DEF TInv
    <2>4. QED  BY <1>1, <1>3, <2>1, <2>2, <2>3 DEF TInv, TypeOK, OpOK, States
  <1>5. ASSUME ~clashed
        PROVE  /\ Exact
               /\ old # Nil => count[old] # 0 /\ native[old] \notin Gone
               /\ new # Nil => count[new] # 0 /\ native[new] \notin Gone
    <2>1. Exact
      BY <1>5 DEF IInv, CInv
    <2>2. \A S : v \notin Leaving(S) /\ w \notin Leaving(S)
      BY <1>1 DEF Leaving, Unused
    <2>3. QED  BY <1>3, <2>1, <2>2, Denoted DEF old, new
  <1>6. ASSUME ~clashed PROVE Exact'
    <2>1. /\ Held' = [Held EXCEPT ![v] = new] /\ Kept' = [Kept EXCEPT ![v] = new]
          /\ Held[v] = old /\ Kept[v] = old
          /\ Held \in [Values -> Natives \union {Nil}] /\ Kept \in [Values -> Natives \union {Nil}]
      BY <1>1, <1>3, ValueTaken, Functions DEF old
    <2>2. Counts'
      <3> DEFINE g == Held'
      <3>1. SUFFICES ASSUME NEW m \in Natives PROVE count'[m] = Cardinality(Users(g, m))
        BY DEF Counts, Users
      <3>2. count[m] = Cardinality(Users(Held, m))
        BY <1>5, <1>6 DEF Exact, Counts
      <3>3. g[v] = new /\ \A x \in Values : x # v => g[x] = Held[x]
        BY <2>1
      <3> HIDE DEF g
      <3>4. Recounted(Held, g, v, m)
        BY <3>3, Recount
      <3>5. QED  BY <1>1, <1>2, <2>1, <3>2, <3>3, <3>4 DEF Recounted
    <2>3. Lives'
      <3>1. SUFFICES ASSUME NEW m \in Natives PROVE native'[m] \in Gone <=> Users(Kept', m) = {}
        BY DEF Lives, Users
      <3>2. native[m] \in Gone <=> Users(Kept, m) = {}
        BY <1>5, <1>6 DEF Exact, Lives
      <3>3. CASE m = old
        <4>1. m # Nil /\ native'[m] = IF count[m] = 1 THEN "deleted" ELSE native[m]
          BY <1>1, <1>3, <3>3, NilApart DEF last
        <4>2. native[m] \notin Gone
          BY <1>5, <1>6, <3>3, <4>1
        <4>3. Users(Kept', m) = Users(Kept, m) \ {v} /\ v \in Users(Kept, m) /\ v \in Users(Held, m)
          BY <1>1, <2>1, <3>3 DEF Users
        <4>4. CASE count[m] = 1
          <5>1. ASSUME NEW x \in Users(Kept, m), x # v PROVE FALSE
            <6>1. x \in Values /\ Kept[x] = m
              BY DEF Users
            <6>2. CASE Held[x] = m
              <7>1. v \in Users(Held, m) /\ x \in Users(Held, m)
                BY <4>3, <6>1, <6>2 DEF Users
              <7>2. Cardinality(Users(Held, m)) = 1
                BY <1>5, <1>6, <4>4 DEF Exact, Counts
              <7>3. QED  BY <5>1, <7>1, <7>2, UsersCount, FS_Singleton
            <6>3. CASE Held[x] # m
              <7>1. x \in Leaving({"free"}) /\ handle[x] = m
                BY <4>1, <6>1, <6>3 DEF Held, Kept, Leaving
              <7>2. PICK q \in Callers : op[q].at = "free" /\ op[q].val = x
                BY <7>1 DEF Leaving
              <7>3. Loaded(q)
                BY <1>5, <1>6 DEF Exact
              <7>4. QED  BY <4>4, <7>1, <7>2, <7>3 DEF Loaded
            <6>4. QED  BY <6>2, <6>3
          <5>2. QED  BY <4>1, <4>3, <4>4, <5>1 DEF Gone
        <4>5. CASE count[m] # 1
          <5>1. Users(Held, m) # {v}
            BY <1>5, <1>6, <4>5, FS_Singleton DEF Exact, Counts
          <5>2. PICK x \in Users(Held, m) : x # v
            BY <4>3, <5>1
          <5>3. x \in Users(Kept, m)
            BY <1>3, <4>1, <5>2, Functions DEF Users
          <5>4. QED  BY <4>1, <4>2, <4>3, <4>5, <5>2, <5>3
        <4>6. QED  BY <4>4, <4>5
      <3>4. CASE m = new
        <4>1. v \in Users(Kept', m)
          BY <2>1, <3>4 DEF Users
        <4>2. native[m] \notin Gone /\ native'[m] = native[m]
          BY <1>1, <1>3, <1>5, <1>6, <3>4, NilApart
        <4>3. QED  BY <4>1, <4>2
      <3>5. CASE m # old /\ m # new
        <4>1. Users(Kept', m) = Users(Kept, m)
          BY <2>1, <3>5 DEF Users
        <4>2. native'[m] = native[m]
          BY <1>1, <1>3, <3>5
        <4>3. QED  BY <3>2, <4>1, <4>2
      <3>6. QED  BY <3>3, <3>4, <3>5
    <2>4. \A m \in Natives : /\ native[m] # "unused" => native'[m] # "unused"
                             /\ count[m] = 0 /\ native[m] # "unused" => count'[m] = 0
      BY <1>1, <1>2, <1>3, <1>5, <1>6, NilApart
    <2>5. Apart' /\ OneDeletes' /\ \A q \in Callers : Loaded(q)'
      BY <1>1, <1>3, <1>5, <1>6, <2>4, LoadedStays
    <2>6. QED  BY <2>2, <2>3, <2>5 DEF Exact
  <1>7. Undisturbed'
    <2>1. ASSUME Orderly', NEW q \in Callers, op[q].at # "idle", handle[op[q].val] # Nil
          PROVE  LET n == handle[op[q].val]
                 IN  native'[n] = native[n] /\ (count[n] # 1 => count'[n] # 1)
      <3> DEFINE n == handle[op[q].val]
      <3>0. ~clashed
        BY <1>1, <1>3, <2>1 DEF Orderly, TInv
      <3>1. op[q].val \in Values /\ op[q] # Idle /\ ~clashed
        BY <1>3, <2>1, <3>0 DEF OpOK, Idle
      <3>2. n \in Natives
        BY <1>3, <2>1, <3>1
      <3>3. n # old
        BY <1>1, <2>1, <3>1 DEF Overlaps, old, Orderly
      <3> HIDE DEF n
      <3>4. native'[n] = native[n]
        BY <1>1, <1>3, <3>2, <3>3
      <3>5. count[n] # 1 => count'[n] # 1
        <4>1. n = new => count[n] # 0
          BY <1>5, <3>1, <3>2, NilApart
        <4>2. count[n] \in 0 .. Wrap - 1 /\ Wrap \in Nat
          BY <1>3, <3>2, ConstantAssumption
        <4>3. count[n] # 0 => Plus(count[n]) # 1
          BY <4>2 DEF Plus
        <4>4. QED  BY <1>2, <3>2, <3>3, <4>1, <4>3
      <3>6. QED  BY <3>4, <3>5 DEF n
    <2>2. Orderly' => Orderly
      BY <1>1 DEF Orderly, Tame
    <2>3. Orderly' /\ ~crashed => (Alone /\ \A q \in Callers : Tested(q))'
      BY <1>1, <1>3, <2>1, <2>2, ValueStep
    <2>4. QED  BY <1>1, <2>3 DEF Undisturbed
  <1>8. ((Tame => SafeWithoutRaces) /\ JoinedHasFinished)'
    BY <1>1, <1>3 DEF IInv, SafeInv, SafeWithoutRaces, JoinedHasFinished, Tame
  <1>9. QED  BY <1>1, <1>4, <1>6, <1>7, <1>8 DEF IInv, CInv, SafeInv

LEMMA FinishIInv ==
  ASSUME IInv, NEW n \in Natives, Finish(n) PROVE IInv'
  <1>1. UNCHANGED <<handle, count, native, op, raced, clashed, crashed>> /\ running' = running \ {n}
    BY DEF Finish
  <1>2. CInv'
    BY <1>1, ExactStays DEF IInv, CInv, TInv, TypeOK, OpOK
  <1>3. SafeInv'
    BY <1>1 DEF IInv, SafeInv, SafeWithoutRaces, JoinedHasFinished, Undisturbed, Orderly, Tame,
                Alone, Tested, Active
  <1>4. QED  BY <1>2, <1>3 DEF IInv

LEMMA CallIInv ==
  ASSUME IInv, NEW p \in Callers, NEW v \in Values, NEW first \in {"wait", "detach", "dispose"},
         Call(p, v, first)
  PROVE  IInv'
  <1> DEFINE o == [Idle EXCEPT !.at = first, !.val = v, !.dtor = (first = "dispose")]
  <1>1. /\ op' = [op EXCEPT ![p] = o] /\ op[p] = Idle /\ ~crashed
        /\ raced' = (raced \/ Overlaps(v) \/ ~Unused(v))
        /\ clashed' = (clashed \/ ~Unused(v))
        /\ UNCHANGED <<handle, count, native, running, crashed>>
    BY DEF Call, Free
  <1>2. o \in OpRec /\ o.at = first /\ o.val = v
    BY DEF Idle, OpRec, Steps
  <1>3. op \in [Callers -> OpRec]
    BY DEF IInv, CInv, TInv, TypeOK, OpRec
  <1> HIDE DEF o
  <1>4. op' \in [Callers -> OpRec] /\ op'[p] = o /\ \A q \in Callers : q # p => op'[q] = op[q]
    BY <1>1, <1>2, <1>3
  <1>5. TInv'
    <2>1. TypeOK'
      BY <1>1, <1>4 DEF IInv, CInv, TInv, TypeOK, OpRec
    <2>2. OpOK'
      BY <1>2, <1>4 DEF IInv, CInv, TInv, OpOK
    <2>3. QED  BY <1>1, <2>1, <2>2 DEF IInv, CInv, TInv
  <1>6. ASSUME ~clashed' PROVE Exact'
    <2>1. Exact /\ Unused(v)
      BY <1>1, <1>6 DEF IInv, CInv
    <2>2. \A S : S \subseteq {"forget", "free"} => Leaving(S)' = Leaving(S)
      BY <1>1, <1>2, <1>4 DEF Leaving, Idle
    <2>3. Held' = Held /\ Kept' = Kept
      BY <1>1, <2>2 DEF Held, Kept
    <2>4. (Counts /\ Lives)'
      BY <1>1, <2>1, <2>3 DEF Exact, Counts, Lives, Users
    <2>5. Apart'
      BY <1>2, <1>4, <2>1 DEF Exact, Apart, Unused
    <2>6. OneDeletes'
      BY <1>2, <1>4, <2>1 DEF Exact, OneDeletes
    <2>7. ASSUME NEW q \in Callers PROVE Loaded(q)'
      BY <1>1, <1>2, <1>4, <2>1 DEF Exact, Loaded
    <2>8. QED  BY <2>4, <2>5, <2>6, <2>7 DEF Exact
  <1>7. ASSUME Orderly' PROVE (Alone /\ \A q \in Callers : Tested(q))'
    <2>1. Orderly /\ Unused(v) /\ ~Overlaps(v)
      BY <1>1, <1>7 DEF Orderly, Tame
    <2>2. Alone /\ \A q \in Callers : Tested(q)
      BY <1>1, <2>1 DEF IInv, SafeInv, Undisturbed, Orderly
    <2>3. \A q \in Callers : op[q].at # "idle" =>
             op[q].val # v /\ (handle[v] # Nil => handle[op[q].val] # handle[v])
      BY <2>1 DEF Unused, Overlaps, Idle
    <2>4. Alone'
      BY <1>1, <1>2, <1>4, <2>2, <2>3 DEF Alone
    <2>5. ASSUME NEW q \in Callers PROVE Tested(q)'
      <3>1. CASE q = p
        BY <1>2, <1>4, <3>1 DEF Tested
      <3>2. CASE q # p
        BY <1>1, <1>4, <2>2, <3>2 DEF Tested, Active
      <3>3. QED  BY <3>1, <3>2
    <2>6. QED  BY <2>4, <2>5
  <1>8. SafeInv'
    BY <1>1, <1>7 DEF IInv, SafeInv, SafeWithoutRaces, JoinedHasFinished, Undisturbed, Orderly, Tame
  <1>9. QED  BY <1>5, <1>6, <1>8 DEF IInv, CInv

\* A step of p that changes op alone and takes or gives up no reference.
LEMMA OpStep ==
  ASSUME IInv, NEW p \in Callers, NEW to \in Steps, Moved(p, to), ~crashed,
         op[p].at \notin {"idle", "subtract", "forget", "free"}, to \notin {"forget", "free"},
         UNCHANGED <<handle, count, native, running, raced, clashed, crashed>>,
         to \in {"joining", "subtract"} => op'[p].obj = handle[op[p].val] /\ op'[p].obj \in Natives,
         Orderly => /\ to \in {"join", "joining", "detaching", "unique", "release"} => Active(op[p].val)
                    /\ to \in {"drop", "subtract"} /\ Active(op[p].val) => count[handle[op[p].val]] # 1
  PROVE  IInv'
  <1>1. TInv'
    BY DEF IInv, CInv, TInv, Moved, TypeOK, OpRec
  <1>2. ASSUME ~clashed PROVE Exact'
    <2>1. TInv /\ Exact /\ op[p].val \in Values
      BY <1>2 DEF IInv, CInv, TInv, OpOK
    <2>2. ASSUME to \in {"joining", "subtract"} PROVE native[op'[p].obj] # "unused"
      <3>1. {"forget"} \in SUBSET (Steps \ {"idle"})
        BY DEF Steps
      <3>2. op[p].val \notin Leaving({"forget"})
        BY <2>1, <3>1, LeavingNow DEF Exact
      <3>3. handle[op[p].val] # Nil
        BY <2>2, NilApart
      <3>4. QED  BY <2>1, <2>2, <3>2, <3>3, Denoted DEF Gone
    <2>3. QED  BY <2>1, <2>2, ExactMove
  <1>3. SafeInv'
    BY CallStep
  <1>4. QED  BY <1>1, <1>2, <1>3 DEF IInv, CInv

LEMMA CheckIInv == ASSUME IInv, NEW p \in Callers, Check(p) PROVE IInv'
  <1>1. UNCHANGED <<handle, count, native, running, raced, clashed, crashed>>
    BY DEF Check
  <1> DEFINE next == IF op[p].at = "wait" THEN "join"
                     ELSE IF op[p].at = "detach" THEN "detaching" ELSE "unique"
             to == IF Active(op[p].val) THEN next ELSE IF op[p].at = "dispose" THEN "drop" ELSE "idle"
  <1>2. op[p].at \in {"wait", "detach", "dispose"} /\ ~crashed /\ Goto(p, to)
    BY DEF Check, At
  <1>3. /\ to \in Steps /\ to \notin {"joining", "subtract", "forget", "free"}
        /\ to \in {"join", "detaching", "unique", "release"} => Active(op[p].val)
        /\ to = "drop" => ~Active(op[p].val)
    BY <1>2, StepNames
  <1> HIDE DEF to
  <1>4. Moved(p, to)
    BY <1>2, <1>3, GotoOp DEF IInv, CInv, TInv
  <1>5. QED  BY <1>1, <1>2, <1>3, <1>4, OpStep

LEMMA IsUniqueIInv == ASSUME IInv, NEW p \in Callers, IsUnique(p) PROVE IInv'
  <1> DEFINE n == handle[op[p].val]
             to == IF n # Nil /\ count[n] = 1 THEN "release" ELSE "drop"
  <1>1. UNCHANGED <<handle, count, native, running, raced, clashed, crashed>> /\ ~crashed
        /\ op[p].at = "unique" /\ Goto(p, to)
    BY DEF IsUnique, At
  <1>2. Orderly => Active(op[p].val)
    BY <1>1 DEF IInv, SafeInv, Undisturbed, Tested
  <1>3. to \in Steps /\ to \in {"release", "drop"}
        /\ (to = "drop" /\ Active(op[p].val) => count[handle[op[p].val]] # 1)
    BY StepNames DEF Active
  <1> HIDE DEF to
  <1>4. Moved(p, to)
    BY <1>1, <1>3, GotoOp DEF IInv, CInv, TInv
  <1>5. QED  BY <1>1, <1>2, <1>3, <1>4, OpStep

\* A caller that finds its thread no longer joinable, or that meets another
\* one which joins it, was not alone.
LEMMA NotAlone ==
  ASSUME IInv, NEW p \in Callers, ~crashed, op[p].at \in {"join", "joining", "detaching", "release"},
         \/ ~Active(op[p].val)
         \/ op[p].at # "joining" /\ Joining(handle[op[p].val])
  PROVE  ~Orderly
  <1>1. SUFFICES ASSUME Orderly PROVE FALSE
    OBVIOUS
  <1>2. Alone /\ Active(op[p].val)
    BY <1>1 DEF IInv, SafeInv, Undisturbed, Tested
  <1>3. PICK q \in Callers : op[q].at = "joining" /\ op[p].at # "joining"
                             /\ op[q].obj = handle[op[p].val]
    BY <1>2 DEF Joining
  <1>4. Loaded(q)
    BY <1>1 DEF IInv, CInv, TInv, Exact, Orderly
  <1>5. handle[op[p].val] # Nil /\ handle[op[q].val] = handle[op[p].val]
    BY <1>2, <1>3, <1>4 DEF Active, Loaded
  <1>6. QED  BY <1>2, <1>3, <1>5 DEF Alone

LEMMA JoinIInv == ASSUME IInv, NEW p \in Callers, Join(p) PROVE IInv'
  <1> DEFINE v == op[p].val
  <1>1. op[p].at = "join" /\ ~crashed
    BY DEF Join, At
  <1>2. CASE /\ Active(v)
             /\ op' = [op EXCEPT ![p].at = "joining", ![p].obj = handle[v]]
             /\ UNCHANGED <<handle, count, native, running, raced, clashed, crashed>>
    <2>1. handle[v] \in Natives
      BY <1>1, <1>2 DEF Active, IInv, CInv, TInv, TypeOK, OpOK
    <2>2. Moved(p, "joining") /\ op'[p].obj = handle[v]
      <3>1. op' = [op EXCEPT ![p] = [op[p] EXCEPT !.at = "joining", !.obj = handle[v]]]
        BY <1>2
      <3>2. "joining" \in Steps \ {"idle"}
        BY DEF Steps
      <3>3. QED  BY <1>1, <2>1, <3>1, <3>2, LoadOp DEF IInv, CInv, TInv
    <2>3. QED  BY <1>1, <1>2, <2>1, <2>2, StepNames, OpStep
  <1>3. CASE /\ ~Active(v) \/ Joining(handle[v]) \/ (SelfWaits /\ handle[v] \in running)
             /\ Crash
    <2>1. ~Orderly
      BY <1>1, <1>3, NotAlone DEF Orderly, Tame
    <2>2. QED  BY <1>3, <2>1, CrashStep
  <1>4. QED  BY <1>2, <1>3 DEF Join

LEMMA DropIInv == ASSUME IInv, NEW p \in Callers, Drop(p) PROVE IInv'
  <1> DEFINE n == handle[op[p].val]
  <1>1. /\ op[p].at = "drop" /\ ~crashed
        /\ UNCHANGED <<handle, count, native, running, raced, clashed, crashed>>
    BY DEF Drop, At
  <1>2. CASE n = Nil
    <2>1. Goto(p, "idle")
      BY <1>2 DEF Drop, Goto
    <2>2. Moved(p, "idle")
      BY <1>1, <2>1, StepNames, GotoOp DEF IInv, CInv, TInv
    <2>3. QED  BY <1>1, <2>2, StepNames, OpStep
  <1>3. CASE n # Nil
    <2>1. n \in Natives
      BY <1>1, <1>3 DEF IInv, CInv, TInv, TypeOK, OpOK
    <2>2. Moved(p, "subtract") /\ op'[p].obj = n
      <3>1. op' = [op EXCEPT ![p] = [op[p] EXCEPT !.at = "subtract", !.obj = n]]
        BY <1>3 DEF Drop
      <3>2. "subtract" \in Steps \ {"idle"}
        BY DEF Steps
      <3>3. QED  BY <1>1, <2>1, <3>1, <3>2, LoadOp DEF IInv, CInv, TInv
    <2>3. Orderly /\ Active(op[p].val) => count[n] # 1
      BY <1>1 DEF IInv, SafeInv, Undisturbed, Tested
    <2>4. QED  BY <1>1, <2>1, <2>2, <2>3, StepNames, OpStep
  <1>4. QED  BY <1>2, <1>3

\* The native thread of p's value ends as s, and p goes on to the drop.
LEMMA NativeStep ==
  ASSUME IInv, NEW p \in Callers, NEW s \in {"joined", "detached"}, NEW n \in Natives,
         ~crashed, op[p].at \in {"joining", "detaching", "release"},
         s = "joined" => n \notin running,
         ~clashed => n = handle[op[p].val],
         native' = [native EXCEPT ![n] = s],
         Goto(p, "drop"),
         UNCHANGED <<handle, count, running, raced, clashed, crashed>>
  PROVE  IInv'
  <1>1. Moved(p, "drop")
    BY StepNames, GotoOp DEF IInv, CInv, TInv
  <1>2. native \in [Natives -> States] /\ op[p].val \in Values
    BY DEF IInv, CInv, TInv, TypeOK, OpOK, States
  <1>3. native' \in [Natives -> States] /\ native'[n] = s
        /\ \A m \in Natives : m # n => native'[m] = native[m]
    BY <1>2 DEF States
  <1>4. TInv'
    BY <1>1, <1>3 DEF IInv, CInv, TInv, TypeOK, Moved, OpRec, States
  <1>5. ASSUME ~clashed PROVE Exact'
    <2>1. TInv /\ Exact
      BY <1>5 DEF IInv, CInv
    <2>2. op[p].val \notin Leaving({"forget"})
      <3>1. {"forget"} \in SUBSET (Steps \ {"idle"})
        BY DEF Steps
      <3>2. QED  BY <2>1, <3>1, LeavingNow DEF Exact
    <2>3. native[n] \notin Gone
      BY <1>2, <1>5, <2>1, <2>2, NilApart, Denoted
    <2>4. \A m \in Natives : (native'[m] \in Gone <=> native[m] \in Gone)
                             /\ (native[m] # "unused" => native'[m] # "unused")
      BY <1>3, <2>3 DEF Gone
    <2>5. QED  BY <1>1, <2>1, <2>4, StepNames, ExactMove
  <1>6. ((Tame => SafeWithoutRaces) /\ JoinedHasFinished)'
    BY <1>3 DEF IInv, SafeInv, SafeWithoutRaces, JoinedHasFinished, Tame
  <1>7. ASSUME Orderly PROVE (Alone /\ \A q \in Callers : Tested(q))'
    <2>1. Alone /\ (\A q \in Callers : Tested(q)) /\ n = handle[op[p].val]
      BY <1>7 DEF IInv, SafeInv, Undisturbed, Orderly, CInv, TInv
    <2>2. op'[p].at = "drop" /\ op'[p].val = op[p].val /\ \A q \in Callers : q # p => op'[q] = op[q]
      BY <1>1 DEF Moved
    <2>3. Alone'
      BY <2>1, <2>2 DEF Alone
    <2>4. ASSUME NEW q \in Callers PROVE Tested(q)'
      <3>1. CASE q = p
        <4>1. (~Active(op[p].val))'
          BY <1>3, <2>1, <2>2 DEF Active
        <4>2. QED  BY <2>2, <3>1, <4>1 DEF Tested
      <3>2. CASE q # p /\ op[q].at # "idle"
        <4>1. handle[op[q].val] # n /\ op[q].val \in Values
          BY <2>1, <3>2, NilApart DEF Alone, IInv, CInv, TInv, OpOK
        <4>2. handle[op[q].val] \in Natives \union {Nil}
          BY <4>1 DEF IInv, CInv, TInv, TypeOK
        <4>3. handle[op[q].val] # Nil => native'[handle[op[q].val]] = native[handle[op[q].val]]
          BY <1>3, <4>1, <4>2
        <4>4. Active(op[q].val)' <=> Active(op[q].val)
          BY <2>2, <3>2, <4>3 DEF Active
        <4>5. QED  BY <2>1, <2>2, <3>2, <4>4 DEF Tested
      <3>3. CASE q # p /\ op[q].at = "idle"
        BY <2>2, <3>3 DEF Tested
      <3>4. QED  BY <3>1, <3>2, <3>3
    <2>5. QED  BY <2>3, <2>4
  <1>8. QED  BY <1>4, <1>5, <1>6, <1>7 DEF IInv, CInv, SafeInv, Undisturbed, Orderly, Tame

LEMMA JoinedIInv == ASSUME IInv, NEW p \in Callers, Joined(p) PROVE IInv'
  <1> DEFINE n == op[p].obj
  <1>1. op[p].at = "joining" /\ ~crashed
    BY DEF Joined, At
  <1>2. ~clashed => n = handle[op[p].val] /\ n \in Natives
    BY <1>1 DEF IInv, CInv, TInv, Exact, Loaded, TypeOK, OpOK
  <1>3. CASE native[n] = "deleted" /\ Crash
    <2>1. Orderly => ~Active(op[p].val)
      BY <1>2, <1>3 DEF Active, Orderly, IInv, CInv, TInv
    <2>2. QED  BY <1>1, <1>3, <2>1, NotAlone, CrashStep
  <1>4. CASE /\ n \notin running
             /\ native' = IF native[n] = "deleted" THEN native ELSE [native EXCEPT ![n] = "joined"]
             /\ Goto(p, "drop")
             /\ UNCHANGED <<handle, count, running, raced, clashed, crashed>>
    <2>1. CASE native[n] # "deleted" /\ n \in Natives
      BY <1>1, <1>2, <1>4, <2>1, NativeStep
    <2>2. CASE native[n] = "deleted" \/ n \notin Natives
      <3>1. UNCHANGED native
        BY <1>4, <2>2 DEF IInv, CInv, TInv, TypeOK
      <3>2. Moved(p, "drop")
        BY <1>1, <1>4, StepNames, GotoOp DEF IInv, CInv, TInv
      <3>3. ~Orderly
        <4>1. SUFFICES ASSUME Orderly PROVE FALSE
          OBVIOUS
        <4>2. Active(op[p].val) /\ ~clashed
          BY <1>1, <4>1 DEF Orderly, IInv, CInv, TInv, SafeInv, Undisturbed, Tested
        <4>3. QED  BY <1>2, <2>2, <4>2 DEF Active
      <3>4. QED  BY <1>1, <1>4, <3>1, <3>2, <3>3, StepNames, OpStep
    <2>3. QED  BY <2>1, <2>2
  <1>5. QED  BY <1>3, <1>4 DEF Joined

LEMMA DoDetachIInv == ASSUME IInv, NEW p \in Callers, DoDetach(p) PROVE IInv'
  <1> DEFINE v == op[p].val
  <1>1. op[p].at \in {"detaching", "release"} /\ ~crashed
    BY DEF DoDetach, At
  <1>2. CASE /\ Active(v)
             /\ native' = [native EXCEPT ![handle[v]] = "detached"]
             /\ Goto(p, "drop")
             /\ UNCHANGED <<handle, count, running, raced, clashed, crashed>>
    <2>1. handle[v] \in Natives
      BY <1>1, <1>2 DEF Active, IInv, CInv, TInv, TypeOK, OpOK
    <2>2. QED  BY <1>1, <1>2, <2>1, NativeStep
  <1>3. CASE (~Active(v) \/ Joining(handle[v])) /\ Crash
    BY <1>1, <1>3, NotAlone, CrashStep
  <1>4. QED  BY <1>2, <1>3 DEF DoDetach

\* A step in which p gives up its reference, or clears its value: Held and Kept
\* change at that value alone.
LEMMA Leaves ==
  ASSUME TInv, Apart, NEW p \in Callers, op[p].at # "idle", NEW to \in Steps, Moved(p, to),
         handle' = [handle EXCEPT ![op[p].val] = IF to = "idle" THEN Nil ELSE @]
  PROVE  /\ \A w \in Values : w # op[p].val => Held'[w] = Held[w] /\ Kept'[w] = Kept[w]
         /\ Held'[op[p].val] = IF to \in {"idle", "forget", "free"} THEN Nil ELSE handle[op[p].val]
         /\ Kept'[op[p].val] = IF to \in {"idle", "forget"} THEN Nil ELSE handle[op[p].val]
         /\ Held[op[p].val] = IF op[p].at \in {"forget", "free"} THEN Nil ELSE handle[op[p].val]
         /\ Kept[op[p].val] = IF op[p].at \in {"forget"} THEN Nil ELSE handle[op[p].val]
  <1> DEFINE v == op[p].val
             F == {"forget", "free"}
             G == {"forget"}
  <1>1. F \in SUBSET (Steps \ {"idle"}) /\ G \in SUBSET (Steps \ {"idle"})
    BY DEF Steps
  <1>2. v \in Values /\ handle \in [Values -> Natives \union {Nil}]
    BY DEF TInv, TypeOK, OpOK
  <1>3. \A w \in Values : handle'[w] = IF w = v /\ to = "idle" THEN Nil ELSE handle[w]
    BY <1>2
  <1>4. \A w \in Values : /\ w \in Leaving(F)' <=> IF w = v THEN to \in F ELSE w \in Leaving(F)
                          /\ w \in Leaving(G)' <=> IF w = v THEN to \in G ELSE w \in Leaving(G)
    BY <1>1, LeavingMoved
  <1>5. (v \in Leaving(F) <=> op[p].at \in F) /\ (v \in Leaving(G) <=> op[p].at \in G)
    BY <1>1, LeavingNow
  <1>6. \A w \in Values : /\ Held'[w] = IF w \in Leaving(F)' THEN Nil ELSE handle'[w]
                          /\ Kept'[w] = IF w \in Leaving(G)' THEN Nil ELSE handle'[w]
                          /\ Held[w] = IF w \in Leaving(F) THEN Nil ELSE handle[w]
                          /\ Kept[w] = IF w \in Leaving(G) THEN Nil ELSE handle[w]
    BY DEF Held, Kept
  <1> HIDE DEF v, F, G
  <1>7. \A w \in Values : w # v => Held'[w] = Held[w] /\ Kept'[w] = Kept[w]
    BY <1>3, <1>4, <1>6
  <1>8. QED  BY <1>2, <1>3, <1>4, <1>5, <1>6, <1>7 DEF v, F, G

LEMMA SubtractExact ==
  ASSUME TInv, Exact, NEW p \in Callers, op[p].at = "subtract",
         NEW n, n = op[p].obj, NEW to, to = (IF count[n] = 1 THEN "free" ELSE "forget"),
         Moved(p, to), op'[p].obj = n,
         count' = [count EXCEPT ![n] = Minus(@)], UNCHANGED <<handle, native>>
  PROVE  Exact'
  <1> DEFINE v == op[p].val
  <1>1. n = handle[v] /\ n # Nil /\ n \in Natives /\ native[n] # "unused" /\ v \in Values
    BY DEF Exact, Loaded, TInv, TypeOK, OpOK
  <1>2. to \in {"free", "forget"} /\ to \in Steps /\ op[p].at # "idle"
        /\ count \in [Natives -> 0 .. Wrap - 1] /\ handle \in [Values -> Natives \union {Nil}]
    BY StepNames DEF TInv, TypeOK
  <1>3. /\ \A w \in Values : w # v => Held'[w] = Held[w] /\ Kept'[w] = Kept[w]
        /\ Held'[v] = Nil /\ Kept'[v] = IF to = "forget" THEN Nil ELSE n
        /\ Held[v] = n /\ Kept[v] = n
    <2>1. handle' = [handle EXCEPT ![op[p].val] = IF to = "idle" THEN Nil ELSE @]
      BY <1>2
    <2>2. QED  BY <1>1, <1>2, <2>1, Leaves DEF Exact
  <1>4. count[n] # 0
    <2>1. v \in Users(Held, n)
      BY <1>1, <1>3 DEF Users
    <2>2. QED  BY <1>1, <2>1, UsersCount DEF Exact, Counts
  <1>5. Counts'
    <2> DEFINE g == Held'
    <2>1. SUFFICES ASSUME NEW m \in Natives PROVE count'[m] = Cardinality(Users(g, m))
      BY DEF Counts, Users
    <2>2. count[m] = Cardinality(Users(Held, m))
      BY DEF Exact, Counts
    <2>3. g[v] = Nil /\ \A x \in Values : x # v => g[x] = Held[x]
      BY <1>3
    <2> HIDE DEF g
    <2>4. Recounted(Held, g, v, m)
      BY <1>1, <2>3, Recount
    <2>5. QED  BY <1>1, <1>2, <1>3, <2>2, <2>3, <2>4, NilApart DEF Recounted
  <1>6. Lives'
    <2>1. SUFFICES ASSUME NEW m \in Natives PROVE Users(Kept', m) = {} <=> Users(Kept, m) = {}
      BY DEF Exact, Lives, Users
    <2>2. CASE m = n /\ to = "forget"
      <3>1. Users(Held, n) # {v} /\ Users(Held, n) # {}
        BY <1>1, <1>4, <2>2, FS_Singleton, UsersCount DEF Exact, Counts
      <3>2. PICK x \in Users(Held, n) : x # v
        BY <3>1
      <3>3. x \in Values /\ Kept[x] = n /\ Kept'[x] = n
        BY <1>1, <1>3, <3>2, Functions DEF Users, TInv
      <3>4. QED  BY <2>2, <3>3 DEF Users
    <2>3. CASE m # n \/ to # "forget"
      BY <1>2, <1>3, <2>3, NilApart DEF Users
    <2>4. QED  BY <2>2, <2>3
  <1>7. Apart'
    BY <1>2, ApartMoved DEF Exact
  <1>8. \A q \in Callers : op[q].at = "free" => op[q].obj # n
    BY <1>1, <1>4 DEF Exact, Loaded
  <1>9. OneDeletes'
    BY <1>8 DEF Moved, Exact, OneDeletes
  <1>10. ASSUME NEW q \in Callers PROVE Loaded(q)'
    <2>1. CASE q = p
      <3>1. to = "free" => count'[n] = 0
        <4>1. Minus(1) = 0
          BY DEF Minus
        <4>2. QED  BY <1>1, <1>2, <4>1
      <3>2. QED  BY <1>1, <1>2, <2>1, <3>1 DEF Moved, Loaded
    <2>2. CASE q # p
      <3>1. Loaded(q) /\ op'[q] = op[q] /\ op[q].obj \in Natives \union {Nil}
        BY <2>2 DEF Exact, Moved, TInv, TypeOK
      <3>2. op[q].obj # n => count'[op[q].obj] = count[op[q].obj]
        BY <1>1, <1>2, <3>1
      <3>3. QED  BY <1>8, <3>1, <3>2 DEF Loaded
    <2>3. QED  BY <2>1, <2>2
  <1>11. QED  BY <1>5, <1>6, <1>7, <1>9, <1>10 DEF Exact

LEMMA SubtractIInv == ASSUME IInv, NEW p \in Callers, Subtract(p) PROVE IInv'
  <1>1. op[p].at = "subtract" /\ ~crashed
    BY DEF Subtract, At
  <1>2. PICK n \in Found(p) :
          \/ n = Nil /\ Crash
          \/ /\ n # Nil
             /\ count' = [count EXCEPT ![n] = Minus(@)]
             /\ Goto(p, IF count[n] = 1 THEN "free" ELSE "forget")
             /\ UNCHANGED <<handle, native, running, raced, clashed, crashed>>
    BY DEF Subtract
  <1>3. n \in {op[p].obj, handle[op[p].val]} /\ op[p].val \in Values
    BY <1>1 DEF Found, IInv, CInv, TInv, OpOK
  <1>4. ~clashed => n = op[p].obj /\ n = handle[op[p].val] /\ n # Nil
    BY <1>1, <1>3 DEF IInv, CInv, Exact, Loaded
  <1>5. CASE n = Nil /\ Crash
    <2>1. ~Orderly
      BY <1>4, <1>5 DEF Orderly, IInv, CInv, TInv
    <2>2. QED  BY <1>5, <2>1, CrashStep
  <1>6. CASE n # Nil /\ ~(n = Nil /\ Crash)
    <2> DEFINE to == IF count[n] = 1 THEN "free" ELSE "forget"
    <2>1. /\ count' = [count EXCEPT ![n] = Minus(@)] /\ Goto(p, to)
          /\ UNCHANGED <<handle, native, running, raced, clashed, crashed>>
      BY <1>2, <1>6
    <2>2. to \in Steps /\ to \in {"free", "forget"} /\ (to = "free" <=> count[n] = 1)
      BY StepNames
    <2> HIDE DEF to
    <2>3. Moved(p, to) /\ op'[p].obj = op[p].obj
      BY <1>1, <2>1, <2>2, GotoOp DEF IInv, CInv, TInv
    <2>4. n \in Natives /\ count \in [Natives -> 0 .. Wrap - 1]
      BY <1>3, <1>6 DEF IInv, CInv, TInv, TypeOK
    <2>5. count' \in [Natives -> 0 .. Wrap - 1]
      BY <2>1, <2>4, Widths
    <2>6. TInv'
      BY <2>1, <2>3, <2>5 DEF IInv, CInv, TInv, Moved, TypeOK, OpRec
    <2>7. ASSUME ~clashed PROVE Exact'
      <3>1. to = IF count[n] = 1 THEN "free" ELSE "forget"
        BY <2>2
      <3>2. QED  BY <1>1, <1>4, <2>1, <2>3, <2>7, <3>1, SubtractExact DEF IInv, CInv
    <2>8. SafeInv'
      <3>1. Orderly => ~clashed /\ Tested(p)
        BY <1>1 DEF IInv, CInv, TInv, SafeInv, Undisturbed, Orderly
      <3>2. \A m \in Natives : m # n => count'[m] = count[m]
        BY <2>1, <2>4
      <3>3. Orderly => (to = "free" => ~Active(op[p].val))
        BY <1>1, <1>4, <2>2, <3>1 DEF Tested
      <3>4. CASE n = handle[op[p].val]
        BY <1>1, <2>1, <2>2, <2>3, <3>2, <3>3, <3>4, CallStep
      <3>5. CASE n # handle[op[p].val]
        <4>1. raced \/ ~Tame
          BY <1>4, <3>1, <3>5 DEF Orderly
        <4>2. QED  BY <2>1, <4>1 DEF IInv, SafeInv, SafeWithoutRaces, JoinedHasFinished, Undisturbed,
                                     Orderly, Tame
      <3>6. QED  BY <3>4, <3>5
    <2>9. QED  BY <2>1, <2>6, <2>7, <2>8 DEF IInv, CInv
  <1>7. QED  BY <1>5, <1>6, <1>2

\* The value of p is cleared and the call ends: no reference is given up, but
\* the native thread n that it kept alive, if any, is deleted.
LEMMA ClearedExact ==
  ASSUME TInv, Exact, NEW p \in Callers, op[p].at \in {"forget", "free"}, Moved(p, "idle"),
         handle' = [handle EXCEPT ![op[p].val] = Nil], UNCHANGED count,
         native' = IF op[p].at = "free" THEN [native EXCEPT ![op[p].obj] = "deleted"] ELSE native
  PROVE  Exact'
  <1> DEFINE v == op[p].val
             n == op[p].obj
  <1>1. /\ n = handle[v] /\ n # Nil /\ n \in Natives /\ native[n] # "unused" /\ v \in Values
        /\ op[p].at = "free" => count[n] = 0
        /\ handle \in [Values -> Natives \union {Nil}] /\ native \in [Natives -> States]
    BY DEF Exact, Loaded, TInv, TypeOK, OpOK, States
  <1>2. /\ \A w \in Values : w # v => Held'[w] = Held[w] /\ Kept'[w] = Kept[w]
        /\ Held'[v] = Nil /\ Kept'[v] = Nil
        /\ Held[v] = Nil /\ Kept[v] = IF op[p].at = "forget" THEN Nil ELSE n
    <2>1. handle' = [handle EXCEPT ![op[p].val] = IF "idle" = "idle" THEN Nil ELSE @]
      OBVIOUS
    <2>2. QED  BY <1>1, <2>1, StepNames, Leaves DEF Exact
  <1>3. Counts'
    <2>1. \A m \in Natives : Users(Held', m) = Users(Held, m)
      BY <1>1, <1>2, NilApart DEF Users
    <2>2. QED  BY <2>1 DEF Exact, Counts, Users
  <1>4. \A q \in Callers : q # p /\ op[q].at = "free" /\ op[p].at = "free" => op[q].obj # n
    BY DEF Exact, OneDeletes
  <1>5. Lives'
    <2>1. SUFFICES ASSUME NEW m \in Natives PROVE native'[m] \in Gone <=> Users(Kept', m) = {}
      BY DEF Lives, Users
    <2>2. native[m] \in Gone <=> Users(Kept, m) = {}
      BY DEF Exact, Lives
    <2>3. CASE m = n /\ op[p].at = "free"
      <3>1. native'[m] = "deleted"
        BY <1>1, <2>3
      <3>2. ASSUME NEW x \in Values, Kept'[x] = m PROVE FALSE
        <4>1. x # v /\ Kept[x] = m
          BY <1>1, <1>2, <2>3, <3>2
        <4>2. Held[x] # m
          <5>1. Users(Held, m) = {}
            BY <1>1, <2>3, UsersCount DEF Exact, Counts
          <5>2. QED  BY <5>1 DEF Users
        <4>3. x \in Leaving({"free"}) /\ handle[x] = m
          BY <1>1, <2>3, <4>1, <4>2 DEF Held, Kept, Leaving
        <4>4. PICK q \in Callers : op[q].at = "free" /\ op[q].val = x
          BY <4>3 DEF Leaving
        <4>5. Loaded(q) /\ q # p
          BY <4>1, <4>4 DEF Exact
        <4>6. QED  BY <1>4, <2>3, <4>3, <4>4, <4>5 DEF Loaded
      <3>3. QED  BY <3>1, <3>2 DEF Users, Gone
    <2>4. CASE m # n \/ op[p].at = "forget"
      <3>1. native'[m] = native[m]
        BY <1>1, <2>4
      <3>2. Users(Kept', m) = Users(Kept, m)
        BY <1>1, <1>2, <2>4, NilApart DEF Users
      <3>3. QED  BY <2>2, <3>1, <3>2
    <2>5. QED  BY <2>3, <2>4
  <1>6. Apart' /\ OneDeletes'
    BY ApartMoved, StepNames DEF Moved, Exact, OneDeletes
  <1>7. ASSUME NEW q \in Callers PROVE Loaded(q)'
    <2>1. CASE q = p
      BY <2>1 DEF Moved, Loaded
    <2>2. CASE q # p /\ op[q].at # "idle"
      <3>1. /\ Loaded(q) /\ op'[q] = op[q] /\ op[q].obj \in Natives \union {Nil}
            /\ op[q].val # v /\ op[q].val \in Values
        BY <2>2 DEF Exact, Apart, Moved, TInv, TypeOK, OpOK
      <3>2. handle'[op[q].val] = handle[op[q].val]
        BY <1>1, <3>1
      <3>3. \A m \in Natives : native[m] # "unused" => native'[m] # "unused"
        BY <1>1
      <3>4. QED  BY <3>1, <3>2, <3>3 DEF Loaded
    <2>3. CASE q # p /\ op[q].at = "idle"
      BY <2>3 DEF Moved, Loaded
    <2>4. QED  BY <2>1, <2>2, <2>3
  <1>8. QED  BY <1>3, <1>5, <1>6, <1>7 DEF Exact

\* Other calls, on other native threads, do not notice.
LEMMA ClearedSafe ==
  ASSUME IInv, NEW p \in Callers, op[p].at # "idle", ~crashed, Moved(p, "idle"),
         handle' = [handle EXCEPT ![op[p].val] = Nil],
         UNCHANGED <<count, running, raced>>,
         crashed' => ~Orderly,
         \A m \in Natives : native'[m] \in {native[m], "deleted"},
         Orderly => \A m \in Natives : m # handle[op[p].val] => native'[m] = native[m]
  PROVE  SafeInv'
  <1> DEFINE v == op[p].val
  <1>1. op'[p].at = "idle" /\ \A q \in Callers : q # p => op'[q] = op[q]
    BY DEF Moved
  <1>2. JoinedHasFinished'
    BY DEF IInv, SafeInv, JoinedHasFinished
  <1>3. (Tame => SafeWithoutRaces)'
    BY DEF SafeWithoutRaces, Orderly, Tame
  <1>4. ASSUME Orderly PROVE (Alone /\ \A q \in Callers : Tested(q))'
    <2>1. Alone /\ \A q \in Callers : Tested(q)
      BY <1>4 DEF IInv, SafeInv, Undisturbed, Orderly
    <2>2. ASSUME NEW q \in Callers, q # p, op[q].at # "idle"
          PROVE  /\ op[q].val \in Values /\ op[q].val # v
                 /\ handle'[op[q].val] = handle[op[q].val]
                 /\ handle[op[q].val] # Nil => handle[op[q].val] # handle[v] /\ handle[op[q].val] \in Natives
      <3>1. op[q].val \in Values /\ op[q].val # v
        BY <2>1, <2>2 DEF IInv, CInv, TInv, OpOK, Alone
      <3>2. handle[op[q].val] # Nil => handle[op[q].val] # handle[v]
        BY <2>1, <2>2 DEF Alone
      <3>3. handle \in [Values -> Natives \union {Nil}]
        BY DEF IInv, CInv, TInv, TypeOK
      <3>4. QED  BY <3>1, <3>2, <3>3
    <2>3. Alone'
      BY <1>1, <2>1, <2>2 DEF Alone
    <2>4. ASSUME NEW q \in Callers PROVE Tested(q)'
      <3>1. CASE q = p \/ op[q].at = "idle"
        BY <1>1, <3>1 DEF Tested
      <3>2. CASE q # p /\ op[q].at # "idle"
        <4>1. op'[q] = op[q] /\ (Active(op[q].val)' <=> Active(op[q].val))
          BY <1>1, <1>4, <2>2, <3>2 DEF Active
        <4>2. QED  BY <2>1, <2>2, <3>2, <4>1 DEF Tested
      <3>3. QED  BY <3>1, <3>2
    <2>5. QED  BY <2>3, <2>4
  <1>5. QED  BY <1>2, <1>3, <1>4 DEF SafeInv, Undisturbed, Orderly, Tame

LEMMA ForgetIInv == ASSUME IInv, NEW p \in Callers, Forget(p) PROVE IInv'
  <1>1. /\ op[p].at = "forget" /\ ~crashed /\ Goto(p, "idle")
        /\ handle' = [handle EXCEPT ![op[p].val] = Nil]
        /\ UNCHANGED <<count, native, running, raced, clashed, crashed>>
    BY DEF Forget, At
  <1>2. Moved(p, "idle")
    BY <1>1, StepNames, GotoOp DEF IInv, CInv, TInv
  <1>3. TInv'
    BY <1>1, <1>2 DEF IInv, CInv, TInv, TypeOK, Moved, OpRec
  <1>4. ~clashed => Exact'
    BY <1>1, <1>2, ClearedExact DEF IInv, CInv
  <1>5. SafeInv'
    BY <1>1, <1>2, ClearedSafe
  <1>6. QED  BY <1>1, <1>3, <1>4, <1>5 DEF IInv, CInv

LEMMA DeleteIInv == ASSUME IInv, NEW p \in Callers, Delete(p) PROVE IInv'
  <1>1. /\ op[p].at = "free" /\ ~crashed /\ Goto(p, "idle")
        /\ handle' = [handle EXCEPT ![op[p].val] = Nil]
        /\ UNCHANGED <<count, running, raced, clashed>>
    BY DEF Delete, At
  <1>2. PICK n \in Found(p) :
          /\ native' = IF n = Nil THEN native ELSE [native EXCEPT ![n] = "deleted"]
          /\ crashed' = (n # Nil /\ native[n] = "joinable")
    BY DEF Delete
  <1>3. /\ Moved(p, "idle") /\ native \in [Natives -> States]
        /\ handle \in [Values -> Natives \union {Nil}] /\ op[p].val \in Values
    BY <1>1, StepNames, GotoOp DEF IInv, CInv, TInv, TypeOK, OpOK, States
  <1>4. ~clashed => n = op[p].obj /\ n = handle[op[p].val] /\ n # Nil /\ Exact
    BY <1>1, <1>2 DEF Found, IInv, CInv, Exact, Loaded
  <1>5. n \in Natives \union {Nil}
    BY <1>1, <1>2, <1>3 DEF Found, IInv, CInv, TInv, TypeOK
  <1>6. native' \in [Natives -> States] /\ crashed' \in BOOLEAN
        /\ \A m \in Natives : /\ native'[m] \in {native[m], "deleted"}
                              /\ m # n => native'[m] = native[m]
    BY <1>2, <1>3, <1>5 DEF States
  <1>7. TInv'
    BY <1>1, <1>3, <1>6 DEF IInv, CInv, TInv, TypeOK, Moved, OpRec, States
  <1>8. ASSUME ~clashed PROVE Exact'
    BY <1>1, <1>2, <1>3, <1>4, <1>8, ClearedExact DEF IInv, CInv
  <1>9. Orderly => ~clashed
    BY DEF Orderly, IInv, CInv, TInv
  <1>10. crashed' => ~Orderly
    <2>1. Orderly => ~Active(op[p].val)
      BY <1>1 DEF IInv, SafeInv, Undisturbed, Tested
    <2>2. QED  BY <1>2, <1>4, <1>9, <2>1 DEF Active
  <1>11. SafeInv'
    BY <1>1, <1>3, <1>4, <1>6, <1>9, <1>10, ClearedSafe
  <1>12. QED  BY <1>1, <1>7, <1>8, <1>11 DEF IInv, CInv

\* Only calls that overlap on one value leave it dangling.
LEMMA DanglingIInv == ASSUME IInv, NEW v \in Values, Dangling(v) PROVE IInv'
  <1>1. /\ ~crashed /\ handle[v] # Nil /\ native[handle[v]] = "deleted" /\ Crash
        /\ Unused(v) \/ \E p \in Callers : op[p].val = v /\ op[p].at # "forget"
    BY DEF Dangling
  <1>2. ASSUME ~clashed PROVE FALSE
    <2>1. TInv /\ Exact
      BY <1>2 DEF IInv, CInv
    <2>2. PICK q \in Callers : op[q].at = "forget" /\ op[q].val = v
      BY <1>1, <2>1, Denoted DEF Gone, Leaving
    <2>3. PICK p \in Callers : op[p].val = v /\ op[p].at # "forget"
      BY <1>1, <2>2 DEF Unused
    <2>4. op[p].at = "idle"
      BY <2>1, <2>2, <2>3 DEF Exact, Apart
    <2>5. op[p].val = Nil
      BY <2>1, <2>4 DEF TInv, OpOK, Idle
    <2>6. QED  BY <2>3, <2>5, NilApart
  <1>3. ~Orderly
    BY <1>2 DEF Orderly, IInv, CInv, TInv
  <1>4. QED  BY <1>1, <1>3, CrashStep

LEMMA NextIInv == ASSUME IInv, [Next]_vars PROVE IInv'
  <1>1. ASSUME NEW p \in Callers, CallerStep(p) PROVE IInv'
    BY <1>1, CheckIInv, IsUniqueIInv, JoinIInv, JoinedIInv, DoDetachIInv, DropIInv, SubtractIInv,
       ForgetIInv, DeleteIInv DEF CallerStep
  <1>2. CASE Next
    BY <1>1, <1>2, SpawnIInv, AssignIInv, FinishIInv, CallIInv, DanglingIInv DEF Next
  <1>3. CASE UNCHANGED vars
    <2>1. UNCHANGED <<handle, count, native, running, op, raced, clashed, crashed>>
      BY <1>3 DEF vars
    <2>2. CInv'
      BY <2>1, ExactStays DEF IInv, CInv, TInv, TypeOK, OpOK
    <2>3. SafeInv'
      BY <2>1 DEF IInv, SafeInv, SafeWithoutRaces, JoinedHasFinished, Undisturbed, Orderly, Tame,
                  Alone, Tested, Active
    <2>4. QED  BY <2>2, <2>3 DEF IInv
  <1>4. QED  BY <1>2, <1>3

-----------------------------------------------------------------------------
(* The theorems.                                                           *)

\* What is known of the values and the calls after any number of steps.
THEOREM Invariance == Spec => []IInv
  <1>1. Init => IInv  BY InitIInv
  <1>2. IInv /\ [Next]_vars => IInv'  BY NextIInv
  <1>3. QED  BY <1>1, <1>2, PTL DEF Spec

\* Until two calls overlap on one value, the counter of a native thread is the
\* number of values that denote it and have not given up their reference, and
\* the object is there exactly as long as one keeps it: whatever calls on
\* different values overlap, at any of their accesses.
THEOREM CountExactHolds == Spec => []CountExact
  <1>1. IInv => CountExact  BY CountExactFollows DEF IInv
  <1>2. QED  BY <1>1, Invariance, PTL

\* A program whose calls do not overlap on one native thread, that does not
\* assign to the last value of an active one, and whose routines do not wait
\* for themselves is never terminated; and a thread that is joined has
\* finished.
THEOREM UsedInTurnHolds == ASSUME ~OverwritesActive, ~SelfWaits PROVE Spec => []UsedInTurn
  <1>1. IInv => UsedInTurn  BY DEF IInv, SafeInv, Tame, UsedInTurn
  <1>2. QED  BY <1>1, Invariance, PTL
=============================================================================
