-------------------------------- MODULE Calls --------------------------------
(***************************************************************************)
(* What a call runs into on its way back: deferred blocks (src/api/        *)
(* defer.hpp), named results, exceptionals (exceptional.hpp), function     *)
(* values (fn.hpp), divisions (misc.hpp) and panics (panic.hpp), in the    *)
(* C++ that scope.jule and expr.jule of src/julec/obj/cxx generate for     *)
(* blocks, returns, errors and calls.                                      *)
(*                                                                         *)
(* A thread is a stack of frames: functions, blocks, and deferred blocks   *)
(* while they run.  Leaving a frame runs its deferred blocks one by one;   *)
(* each may call functions and defer blocks of its own.                    *)
(***************************************************************************)
EXTENDS Integers, FiniteSets, SequencesExt

CONSTANTS Threads, Main,  \* the thread of main, and those started by `co`
          Blocks,         \* deferred blocks, each met at most once
          Setters,        \* those that assign the named result
          MaxDepth,       \* for each thread, the bound on its stack
          Smallest        \* the smallest integer

ASSUME ConstantAssumption ==
    /\ Main \in Threads /\ IsFiniteSet(Threads) /\ IsFiniteSet(Blocks)
    /\ Setters \subseteq Blocks
    /\ MaxDepth \in [Threads -> Nat \ {0}] /\ Smallest \in Int

VARIABLES
    stack,  \* the frames of each thread, innermost last; empty: not running
    met,    \* the deferred blocks in the order they were met, with the thread
    ran,    \* those that were begun, in that order
    seen,   \* what this step gave a caller, if it returned to one
    ended   \* "no", "exit", "panic", "trap"

vars == <<stack, met, ran, seen, ended>>

\* how: how the frame is being left; exc, handler: the function can fail, and
\* the call is followed by an else block; res: the named result, "old" until it
\* is returned or a deferred block sets it; out: what return made of it; want:
\* what it was then (history).
Frame(kind, exc, handler) ==
    [kind |-> kind, exc |-> exc, handler |-> handler, defers |-> <<>>, how |-> "running",
     res |-> "old", out |-> "nothing", want |-> "nothing"]

Nothing == [exc |-> FALSE, how |-> "running", want |-> "nothing", got |-> "nothing"]

Init ==
    /\ stack = [t \in Threads |-> IF t = Main THEN <<Frame("function", FALSE, FALSE)>> ELSE <<>>]
    /\ met = <<>> /\ ran = <<>>
    /\ seen = Nothing
    /\ ended = "no"

Top(t) == Last(stack[t])
Runs(t) == ended = "no" /\ stack[t] # <<>> /\ Top(t).how = "running"
Leaves(t) == ended = "no" /\ stack[t] # <<>> /\ Top(t).how # "running"

Push(t, frame) == stack' = [stack EXCEPT ![t] = Append(@, frame)]
SetTop(t, frame) == stack' = [stack EXCEPT ![t] = Append(Front(@), frame)]

\* std::exit: no thread runs on, no local is destroyed; the model forgets them.
Stop(why) ==
    /\ ended' = why
    /\ stack' = [t \in Threads |-> <<>>] /\ met' = <<>> /\ ran' = <<>>
    /\ seen' = Nothing

\* The frame of the function that frame number i of thread t belongs to.
Owner(t, i) ==
    CHOOSE k \in 1 .. i : /\ stack[t][k].kind = "function"
                          /\ \A j \in k + 1 .. i : stack[t][j].kind # "function"
Here(t) == Owner(t, Len(stack[t]))

\* In a deferred block, return and error are refused by the type checker.
CanLeave(t) == \A j \in Here(t) .. Len(stack[t]) : stack[t][j].kind # "deferred"

-----------------------------------------------------------------------------
(* Statements.                                                             *)

Enter(t) ==
    /\ Runs(t) /\ Len(stack[t]) < MaxDepth[t]
    /\ Push(t, Frame("block", FALSE, FALSE))
    /\ seen' = Nothing /\ UNCHANGED <<met, ran, ended>>

Call(t, exc, handler) ==
    /\ Runs(t) /\ Len(stack[t]) < MaxDepth[t]
    /\ handler => exc
    /\ Push(t, Frame("function", exc, handler))
    /\ seen' = Nothing /\ UNCHANGED <<met, ran, ended>>

\* Fn::call of a nil function value; an explicit panic; a division by zero.
CallNil(t) == Runs(t) /\ Stop("panic")

\* div and mod: zero is tested for, the quotient that does not fit is not.
Divide(t, x, d) ==
    /\ Runs(t)
    /\ \/ d = 0 /\ Stop("panic")
       \/ d = -1 /\ x = Smallest /\ Stop("trap")

\* co f(): a detached thread.
Co(t, u) ==
    /\ Runs(t) /\ stack[u] = <<>> /\ u # Main
    /\ Push(u, Frame("function", FALSE, FALSE))
    /\ seen' = Nothing /\ UNCHANGED <<met, ran, ended>>

\* __JULE_DEFER: an object in the innermost block, destroyed with it.
Defer(t, b) ==
    /\ Runs(t) /\ \A i \in DOMAIN met : met[i].block # b
    /\ SetTop(t, [Top(t) EXCEPT !.defers = Append(@, b)])
    /\ met' = Append(met, [block |-> b, thread |-> t])
    /\ seen' = Nothing /\ UNCHANGED <<ran, ended>>

\* The end of a block or of a deferred block.
End(t) ==
    /\ Runs(t) /\ Top(t).kind # "function"
    /\ SetTop(t, [Top(t) EXCEPT !.how = "end"])
    /\ seen' = Nothing /\ UNCHANGED <<met, ran, ended>>

\* The named result after a `ret` with an expression, and after one without.
setResult(f, expr) == IF expr THEN "given" ELSE f.res

\* What `return` keeps of a named result: Exceptional has a copy; without it
\* the compiler may build the variable in the place of the result.
Out(f, res) == IF f.exc THEN {res} ELSE {res, "variable"}

\* What leaving function k makes of the stack: every frame above is left too.
Unwound(s, k, how, res, out) ==
    [i \in DOMAIN s |->
        IF i < k THEN s[i]
        ELSE IF i > k THEN [s[i] EXCEPT !.how = how]
        ELSE [s[i] EXCEPT !.how = how, !.res = res, !.out = out, !.want = res]]

\* All frames up to the function are left, the innermost first.
Leave(t, how, res, out) ==
    /\ Runs(t) /\ CanLeave(t)
    /\ stack' = [stack EXCEPT ![t] = Unwound(@, Here(t), how, res, out)]
    /\ seen' = Nothing /\ UNCHANGED <<met, ran, ended>>

\* ret: the named result is assigned first, then made the result of the call.
Return(t, expr) ==
    /\ Runs(t)
    /\ LET f == stack[t][Here(t)]
           res == setResult(f, expr)
       IN  \E out \in Out(f, res) : Leave(t, "return", res, out)

\* error(e): "nil" for a nil pointer, which makes a box that is nil.
Raise(t, nil) ==
    /\ Runs(t) /\ stack[t][Here(t)].exc
    /\ Leave(t, IF nil THEN "nil" ELSE "error", stack[t][Here(t)].res, "nothing")

-----------------------------------------------------------------------------
(* The way back.                                                           *)

\* Deferred block b of the innermost frame begins, the frame keeps the rest; b
\* may set the named result of function k.
Begun(s, k, b, rest) ==
    Append([i \in DOMAIN s |->
               [s[i] EXCEPT !.defers = IF i = Len(s) THEN rest ELSE @,
                            !.res = IF i = k /\ b \in Setters THEN "new" ELSE @]],
           Frame("deferred", FALSE, FALSE))

\* Wrong: the blocks of a scope run in the order they were met.
RunDeferredFirst(t) ==
    /\ Leaves(t) /\ Top(t).defers # <<>>
    /\ LET b == Head(Top(t).defers)
       IN  /\ ran' = Append(ran, b)
           /\ stack' = [stack EXCEPT ![t] = Begun(@, Here(t), b, Tail(Top(t).defers))]
    /\ seen' = Nothing /\ UNCHANGED <<met, ended>>

\* ~DeferBase: the last block first; the objects of C++ are destroyed in the
\* opposite order.
RunDeferred(t) ==
    /\ Leaves(t) /\ Top(t).defers # <<>>
    /\ LET b == Last(Top(t).defers)
       IN  /\ ran' = Append(ran, b)
           /\ stack' = [stack EXCEPT ![t] = Begun(@, Here(t), b, Front(Top(t).defers))]
    /\ seen' = Nothing /\ UNCHANGED <<met, ended>>

\* Wrong: what a block has deferred is left behind with it.
PopBlockEarly(t) ==
    /\ Leaves(t) /\ Top(t).kind # "function"
    /\ stack' = [stack EXCEPT ![t] = Front(@)]
    /\ seen' = Nothing /\ UNCHANGED <<met, ran, ended>>

\* A block, or a deferred block, is done.
PopBlock(t) ==
    /\ Leaves(t) /\ Top(t).defers = <<>> /\ Top(t).kind # "function"
    /\ stack' = [stack EXCEPT ![t] = Front(@)]
    /\ seen' = Nothing /\ UNCHANGED <<met, ran, ended>>

\* Wrong: a failed call without an else block is taken for one that returned.
OkAlways(f) == f.how # "error" \/ ~f.handler

\* Exceptional::ok: the error is nil.
Ok(f) == f.how # "error"

\* What the caller takes: the result of a function that raised a nil error was
\* never set.
Got(f) ==
    IF f.out = "nothing" THEN "unset" ELSE IF f.out = "variable" THEN f.res ELSE f.out

\* Back in the caller, which asks except.ok().
PopFunction(t) ==
    LET f == Top(t)
        rest == Front(stack[t])
    IN  /\ Leaves(t) /\ f.defers = <<>> /\ f.kind = "function"
        /\ \/ /\ ~Ok(f) /\ ~f.handler
              /\ Stop("panic")
           \/ /\ ~Ok(f) /\ f.handler
              /\ stack' = [stack EXCEPT ![t] = Append(rest, Frame("block", FALSE, FALSE))]
              /\ seen' = Nothing /\ UNCHANGED <<met, ran, ended>>
           \/ /\ Ok(f)
              /\ stack' = [stack EXCEPT ![t] = rest]
              /\ seen' = [exc |-> f.exc, how |-> f.how, want |-> f.want, got |-> Got(f)]
              /\ ended' = IF t = Main /\ rest = <<>> THEN "exit" ELSE ended
              /\ UNCHANGED <<met, ran>>

Next ==
    \/ \E t \in Threads :
          \/ Enter(t) \/ CallNil(t) \/ End(t)
          \/ RunDeferred(t) \/ PopBlock(t) \/ PopFunction(t)
    \/ \E t \in Threads, exc, handler \in BOOLEAN : Call(t, exc, handler)
    \/ \E t \in Threads, x \in Smallest .. 0, d \in -1 .. 0 : Divide(t, x, d)
    \/ \E t, u \in Threads : Co(t, u)
    \/ \E t \in Threads, b \in Blocks : Defer(t, b)
    \/ \E t \in Threads, expr \in BOOLEAN : Return(t, expr)
    \/ \E t \in Threads, nil \in BOOLEAN : Raise(t, nil)

Spec == Init /\ [][Next]_vars

-----------------------------------------------------------------------------
(* Properties.                                                             *)

Pending(t) == UNION {Range(stack[t][i].defers) : i \in DOMAIN stack[t]}
MetBy(t) == {met[i].block : i \in {j \in DOMAIN met : met[j].thread = t}}

TypeOK ==
    /\ \A t \in Threads : /\ Len(stack[t]) <= MaxDepth[t] + Cardinality(Blocks)
                          /\ stack[t] # <<>> => Head(stack[t]).kind = "function"
    /\ Range(ran) \subseteq Blocks
    /\ seen.got \in {"unset", "old", "given", "new"} \/ seen = Nothing
    /\ ended \in {"no", "exit", "panic", "trap"}

\* A deferred block runs exactly once, however its scope is left: until then
\* it waits in a frame of the thread that met it.  So at the exit of the
\* program those of main have run; those of other threads, and after a panic
\* those of main too, may never run.
DeferredOnce ==
    /\ IsInjective(ran)
    /\ \A t \in Threads : /\ Pending(t) \intersect Range(ran) = {}
                          /\ MetBy(t) = Pending(t) \union (MetBy(t) \intersect Range(ran))

\* The deferred blocks of a thread run in the opposite order of that in which
\* it met them, over scopes and over functions, whatever the blocks defer in
\* turn.
RunsInReverse ==
    [][\A b \in Range(ran') \ Range(ran) : \A i, j \in DOMAIN met :
          (met[i].block = b /\ met[j].thread = met[i].thread /\ j > i)
              => met[j].block \in Range(ran)]_vars

\* A caller takes from an exceptional what the named result was at `ret`, and
\* from other functions that or what a deferred block made of it.  It takes a
\* result that was never set if the error is a nil pointer, and only then.
ResultTaken ==
    /\ seen.got \in {seen.want, "new", "unset"}
    /\ seen.exc /\ seen.how = "return" => seen.got = seen.want
    /\ seen.got = "unset" <=> seen.how = "nil"

\* No call goes on as if it had succeeded after an error that is not nil.
NoSilentFailure == seen.how # "error"

\* What a caller goes on with is the outcome of the call: the result that was
\* returned, and never a result where there was an error.
OutcomeTaken == TypeOK /\ ResultTaken /\ NoSilentFailure
=============================================================================
