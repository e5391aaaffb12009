---------------------------- MODULE ThreadHandle -----------------------------
(***************************************************************************)
(* std::thread::Thread (src/std/thread/thread.jule, thread.hpp): values    *)
(* that share a native std::thread through a reference-counted handle.     *)
(*                                                                         *)
(* Callers spawn, copy, assign, Wait, Detach and destroy Thread values,    *)
(* several of which may denote one native thread, and several callers may  *)
(* use one value.  Every access to the native thread, to the counter or to *)
(* the handle itself is one step.  Calls that overlap on a native thread   *)
(* are recorded in raced, those that overlap on one value in clashed.      *)
(***************************************************************************)
EXTENDS Integers, FiniteSets

CONSTANTS Callers,          \* threads of the program that use Thread values
          Values,           \* variables of type Thread
          Natives,          \* native threads, each started at most once
          Nil,
          Wrap,             \* counters are modulo Wrap (2^64 in the code)
          OverwritesActive, \* TRUE: a program may assign to the only Thread
                            \* value of an active thread
          SelfWaits         \* TRUE: a routine may wait for its own thread

ASSUME ConstantAssumption ==
    /\ IsFiniteSet(Values)
    /\ Nil \notin Natives /\ Nil \notin Values
    /\ Wrap \in Nat /\ Cardinality(Values) < Wrap
    /\ OverwritesActive \in BOOLEAN /\ SelfWaits \in BOOLEAN

VARIABLES
    handle,   \* the native thread a value denotes: handle._thread
    count,    \* the reference counters
    native,   \* "unused", "joinable", "joined", "detached", "deleted"
    running,  \* native threads whose routine has not returned
    op,       \* the call each caller is in: its next step, its value, whether
              \* it is the destructor of that value, and the native thread
              \* that it joins or drops
    raced,    \* two calls have overlapped on one native thread
    clashed,  \* two calls have overlapped on one value
    crashed   \* std::terminate was called, or a null or deleted object used

vars == <<handle, count, native, running, op, raced, clashed, crashed>>

\* Steps of Wait ("wait", "join", "joining"), Detach ("detach", "detaching"),
\* Dispose ("dispose", "unique", "release"), and of the drop that ends them
\* all: test, subtraction, and clearing of the handle or deletion.
Steps == {"wait", "join", "joining", "detach", "detaching", "dispose", "unique",
          "release", "drop", "subtract", "forget", "free", "idle"}
Idle == [at |-> "idle", val |-> Nil, dtor |-> FALSE, obj |-> Nil]

Init ==
    /\ handle = [v \in Values |-> Nil]
    /\ count = [n \in Natives |-> 0]
    /\ native = [n \in Natives |-> "unused"]
    /\ running = {}
    /\ op = [p \in Callers |-> Idle]
    /\ raced = FALSE /\ clashed = FALSE
    /\ crashed = FALSE

Free(p) == ~crashed /\ op[p] = Idle
Unused(v) == \A p \in Callers : op[p].val # v

\* thread() != nil && joinable(), for the value v.
Active(v) == handle[v] # Nil /\ native[handle[v]] = "joinable"

\* Step `from` of caller p on its value, with native thread n.
At(p, from) == ~crashed /\ op[p].at = from
Goto(p, to) == op' = [op EXCEPT ![p] = IF to = "idle" THEN Idle ELSE [@ EXCEPT !.at = to]]
Crash == /\ crashed' = TRUE
         /\ UNCHANGED <<handle, count, native, running, op, raced, clashed>>

\* fetch_add of one and of minus one.
Plus(k) == IF k = Wrap - 1 THEN 0 ELSE k + 1
Minus(k) == IF k = 0 THEN Wrap - 1 ELSE k - 1

\* Another call is under way on the native thread of v.
Overlaps(v) == /\ handle[v] # Nil
               /\ \E q \in Callers : op[q] # Idle /\ handle[op[q].val] = handle[v]

-----------------------------------------------------------------------------
(* Making values.                                                          *)

Spawn(p, v, n) ==
    /\ Free(p) /\ Unused(v)
    /\ handle[v] = Nil
    /\ native[n] = "unused"
    /\ native' = [native EXCEPT ![n] = "joinable"]
    /\ running' = running \union {n}
    /\ handle' = [handle EXCEPT ![v] = n]
    /\ count' = [count EXCEPT ![n] = 1]
    /\ UNCHANGED <<op, raced, clashed, crashed>>

\* v = w, and the copy of w into a fresh v: operator= of the handle is that of
\* Ptr, which drops the old native thread without Dispose and counts the new.
Assign(p, v, w) ==
    LET old == handle[v]
        new == handle[w]
        last == old # Nil /\ count[old] = 1
    IN  /\ Free(p) /\ Unused(v) /\ Unused(w)
        /\ old # new
        /\ last /\ Active(v) => OverwritesActive
        /\ handle' = [handle EXCEPT ![v] = new]
        /\ count' = [n \in Natives |-> IF n = old THEN Minus(count[n])
                                       ELSE IF n = new THEN Plus(count[n]) ELSE count[n]]
        /\ native' = IF last THEN [native EXCEPT ![old] = "deleted"] ELSE native
        /\ crashed' = (last /\ Active(v))
        /\ raced' = (raced \/ Overlaps(v))
        /\ UNCHANGED <<running, op, clashed>>

\* A routine returns.
Finish(n) ==
    /\ ~crashed
    /\ n \in running
    /\ running' = running \ {n}
    /\ UNCHANGED <<handle, count, native, op, raced, clashed, crashed>>

-----------------------------------------------------------------------------
(* The calls.                                                              *)

\* Wait, Detach, or the destructor of v; a value is destroyed by its last
\* user, and never used again.
Call(p, v, first) ==
    /\ Free(p)
    /\ first = "dispose" => handle[v] # Nil /\ Unused(v)
    /\ \A q \in Callers : op[q].val = v => ~op[q].dtor
    /\ op' = [op EXCEPT ![p] = [Idle EXCEPT !.at = first, !.val = v, !.dtor = (first = "dispose")]]
    /\ raced' = (raced \/ Overlaps(v) \/ ~Unused(v))
    /\ clashed' = (clashed \/ ~Unused(v))
    /\ UNCHANGED <<handle, count, native, running, crashed>>

\* The test of Active that each method starts with.  Wait and Detach panic if
\* it fails, an outcome the caller sees: the call ends.  Dispose goes on to
\* ask for the counter, or drops.
Check(p) ==
    LET v == op[p].val IN
    /\ \/ At(p, "wait") /\ Goto(p, IF Active(v) THEN "join" ELSE "idle")
       \/ At(p, "detach") /\ Goto(p, IF Active(v) THEN "detaching" ELSE "idle")
       \/ At(p, "dispose") /\ Goto(p, IF Active(v) THEN "unique" ELSE "drop")
    /\ UNCHANGED <<handle, count, native, running, raced, clashed, crashed>>

\* Wrong: the value does not count itself.
IsUniqueOffByOne(p) ==
    /\ At(p, "unique")
    /\ Goto(p, IF count[handle[op[p].val]] = 0 THEN "release" ELSE "drop")
    /\ UNCHANGED <<handle, count, native, running, raced, clashed, crashed>>

\* ref_count() == 1; the counter of a null handle is 0.
IsUnique(p) ==
    LET n == handle[op[p].val] IN
    /\ At(p, "unique")
    /\ Goto(p, IF n # Nil /\ count[n] = 1 THEN "release" ELSE "drop")
    /\ UNCHANGED <<handle, count, native, running, raced, clashed, crashed>>

\* A caller is inside join() of native thread n.
Joining(n) == \E q \in Callers : op[q].at = "joining" /\ op[q].obj = n

\* join() of a thread that is not joinable throws, and so does that of a
\* thread by its own routine; of one that is being joined it is undefined: it
\* throws, or both callers wait.
Join(p) ==
    LET v == op[p].val IN
    /\ At(p, "join")
    /\ \/ /\ Active(v)
          /\ op' = [op EXCEPT ![p].at = "joining", ![p].obj = handle[v]]
          /\ UNCHANGED <<handle, count, native, running, raced, clashed, crashed>>
       \/ /\ ~Active(v) \/ Joining(handle[v]) \/ (SelfWaits /\ handle[v] \in running)
          /\ Crash

\* join() returns once the routine has; the object may be gone by then.
Joined(p) ==
    LET n == op[p].obj IN
    /\ At(p, "joining")
    /\ \/ native[n] = "deleted" /\ Crash
       \/ /\ n \notin running
          /\ native' = IF native[n] = "deleted" THEN native ELSE [native EXCEPT ![n] = "joined"]
          /\ Goto(p, "drop")
          /\ UNCHANGED <<handle, count, running, raced, clashed, crashed>>

\* detach(), of Detach or of Dispose; it throws if the thread is not joinable,
\* and is undefined while another caller joins.
DoDetach(p) ==
    LET v == op[p].val IN
    /\ At(p, "detaching") \/ At(p, "release")
    /\ \/ /\ Active(v)
          /\ native' = [native EXCEPT ![handle[v]] = "detached"]
          /\ Goto(p, "drop")
          /\ UNCHANGED <<handle, count, running, raced, clashed, crashed>>
       \/ (~Active(v) \/ Joining(handle[v])) /\ Crash

-----------------------------------------------------------------------------
(* handle.drop(): Ptr::dealloc.                                            *)

\* A null counter is not decremented.
Drop(p) ==
    LET n == handle[op[p].val] IN
    /\ At(p, "drop")
    /\ op' = [op EXCEPT ![p] = IF n = Nil THEN Idle ELSE [@ EXCEPT !.at = "subtract", !.obj = n]]
    /\ UNCHANGED <<handle, count, native, running, raced, clashed, crashed>>

\* The pointers that a later access of the same call may find: the one it has
\* tested, or null if another call has cleared it since.
Found(p) == {op[p].obj, handle[op[p].val]}

\* Wrong: the last reference is told by the value after the subtraction.
SubtractTestsAfter(p) ==
    /\ At(p, "subtract")
    /\ \E n \in Found(p) :
          \/ n = Nil /\ Crash
          \/ /\ n # Nil
             /\ count' = [count EXCEPT ![n] = Minus(@)]
             /\ Goto(p, IF count'[n] = 1 THEN "free" ELSE "forget")
             /\ UNCHANGED <<handle, native, running, raced, clashed, crashed>>

\* drop_ref: fetch_sub, which tells whether this was the last reference.
Subtract(p) ==
    /\ At(p, "subtract")
    /\ \E n \in Found(p) :
          \/ n = Nil /\ Crash
          \/ /\ n # Nil
             /\ count' = [count EXCEPT ![n] = Minus(@)]
             /\ Goto(p, IF count[n] = 1 THEN "free" ELSE "forget")
             /\ UNCHANGED <<handle, native, running, raced, clashed, crashed>>

Forget(p) ==
    /\ At(p, "forget")
    /\ handle' = [handle EXCEPT ![op[p].val] = Nil]
    /\ Goto(p, "idle")
    /\ UNCHANGED <<count, native, running, raced, clashed, crashed>>

\* __free: the destructor of a std::thread that is joinable terminates the
\* process; nothing is deleted if another call has cleared the pointers.
Delete(p) ==
    /\ At(p, "free")
    /\ \E n \in Found(p) :
          /\ native' = IF n = Nil THEN native ELSE [native EXCEPT ![n] = "deleted"]
          /\ crashed' = (n # Nil /\ native[n] = "joinable")
    /\ handle' = [handle EXCEPT ![op[p].val] = Nil]
    /\ Goto(p, "idle")
    /\ UNCHANGED <<count, running, raced, clashed>>

\* What is done through a value whose native thread was deleted is undefined;
\* the one call that does nothing more through it only clears it.
Dangling(v) ==
    /\ ~crashed
    /\ handle[v] # Nil /\ native[handle[v]] = "deleted"
    /\ Unused(v) \/ \E p \in Callers : op[p].val = v /\ op[p].at # "forget"
    /\ Crash

CallerStep(p) ==
    \/ Check(p) \/ IsUnique(p) \/ Join(p) \/ Joined(p) \/ DoDetach(p)
    \/ Drop(p) \/ Subtract(p) \/ Forget(p) \/ Delete(p)

Next ==
    \/ \E p \in Callers, v \in Values, n \in Natives : Spawn(p, v, n)
    \/ \E p \in Callers, v, w \in Values : Assign(p, v, w)
    \/ \E n \in Natives : Finish(n)
    \/ \E p \in Callers, v \in Values, first \in {"wait", "detach", "dispose"} :
          Call(p, v, first)
    \/ \E p \in Callers : CallerStep(p)
    \/ \E v \in Values : Dangling(v)

Spec == Init /\ [][Next]_vars

-----------------------------------------------------------------------------
(* Properties.                                                             *)

TypeOK ==
    /\ handle \in [Values -> Natives \union {Nil}]
    /\ count \in [Natives -> 0 .. Wrap - 1]
    /\ native \in [Natives -> {"unused", "joinable", "joined", "detached", "deleted"}]
    /\ running \subseteq Natives
    /\ op \in [Callers -> [at : Steps, val : Values \union {Nil}, dtor : BOOLEAN,
                       obj : Natives \union {Nil}]]
    /\ raced \in BOOLEAN /\ clashed \in BOOLEAN /\ crashed \in BOOLEAN

Denoting(n) == {v \in Values : handle[v] = n}

\* Values that a call is about to clear, having given up their reference.
Leaving(steps) == {op[p].val : p \in {q \in Callers : op[q].at \in steps}}

\* The counter of a native thread is the number of values that denote it and
\* have not given up their reference, and the object lives exactly as long as
\* one does that is not merely about to be cleared: through any overlap of
\* Wait, Detach and Dispose of different values ("provides memory safety with
\* reference counting", thread.jule).  Two calls on one value lose a reference.
CountExact ==
    ~clashed =>
        \A n \in Natives :
            /\ count[n] = Cardinality(Denoting(n) \ Leaving({"forget", "free"}))
            /\ native[n] \in {"unused", "deleted"} <=> Denoting(n) \subseteq Leaving({"forget"})

\* The process is never terminated by the use of Thread ("It automatically
\* detaches when destroyed", thread.jule).
NeverTerminates == ~crashed

\* What the code does keep: programs whose calls do not overlap on one native
\* thread are never terminated, however values are copied, waited for,
\* detached and destroyed by several callers.
SafeWithoutRaces == crashed => raced

\* A thread that is joined has finished.
JoinedHasFinished == \A n \in Natives : native[n] = "joined" => n \notin running

\* Used by one call at a time, Thread keeps its promises: the process goes on,
\* and a join is the end of the routine.
UsedInTurn == SafeWithoutRaces /\ JoinedHasFinished
=============================================================================
