----------------------------- MODULE WaitGroup ------------------------------
(***************************************************************************)
(* std::sync::WaitGroup (src/std/sync/waitgroup.jule) under its usual      *)
(* client: a main thread adds the task count, starts the tasks with `co`,  *)
(* and waits; every task calls Done once; further threads may Wait too.    *)
(*                                                                         *)
(* Each access to one of the two atomics is one action.  The accesses are  *)
(* sequentially consistent here although the code asks for Relaxed: every  *)
(* behaviour of the model is a behaviour of the code.                      *)
(***************************************************************************)
EXTENDS Integers, FiniteSets

CONSTANTS Tasks,     \* jobs started with `co`, each calls Done once
          Waiters,   \* threads that call Wait once; Main is one of them
          Main,      \* the thread that calls Add and starts the tasks
          Strays,    \* threads that call Done without a matching Add
          BatchAdd,  \* TRUE: one Add(n) before the first `co` (header doc)
                     \* FALSE: Add(1) before each `co` (tests/concurrency)
          Modulus    \* 2^w for the width w of the AtomicU32 counters

ASSUME ClientAssumption ==
    /\ IsFiniteSet(Tasks) /\ Tasks # {}
    /\ IsFiniteSet(Waiters) /\ Main \in Waiters
    /\ IsFiniteSet(Strays)
    /\ Tasks \intersect Waiters = {}
    /\ Strays \intersect (Tasks \union Waiters) = {}
    /\ BatchAdd \in BOOLEAN

ASSUME ModulusAssumption ==
    /\ Modulus \in Nat
    /\ Cardinality(Tasks) < Modulus
    /\ Cardinality(Waiters) < Modulus

Thread == Tasks \union Waiters \union Strays

VARIABLES
    taskN,     \* WaitGroup.taskN
    waitN,     \* WaitGroup.waitN
    pc,        \* where each thread is
    spawned,   \* tasks main has started
    seen,      \* nWaiters, the local of the clearing loop in Add
    panicked   \* panic() was called: the process has exited

vars == <<taskN, waitN, pc, spawned, seen, panicked>>

PC == {"add", "spawn",                        \* main, before it waits
       "idle", "run",                         \* a task, before it calls Done
       "clear", "cas",                        \* in the clearing loop of Add
       "start", "register", "spin",           \* in Wait
       "end"}

Init ==
    /\ taskN = 0
    /\ waitN = 0
    /\ pc = [t \in Thread |-> IF t = Main THEN "add"
                              ELSE IF t \in Waiters THEN "start"
                              ELSE IF t \in Strays THEN "run" ELSE "idle"]
    /\ spawned = {}
    /\ seen = [t \in Thread |-> 0]
    /\ panicked = FALSE

\* A step of thread t; nobody moves after a panic.
Goto(t, from, to) == /\ ~panicked
                     /\ pc[t] = from
                     /\ pc' = [pc EXCEPT ![t] = to]

-----------------------------------------------------------------------------
(* Add and Done.                                                           *)

\* Deliberately wrong variants of AddFetch, for mutation testing: a count of
\* zero already panics; the waiters are released one task too early.
AddFetchPanicsAtZero(t, from, delta, to) ==
    /\ taskN' = (taskN + delta) % Modulus
    /\ panicked' = (taskN + delta <= 0)
    /\ Goto(t, from, IF taskN + delta = 0 THEN "clear" ELSE to)
    /\ UNCHANGED <<waitN, seen>>
AddFetchNoPanic(t, from, delta, to) ==
    /\ taskN' = (taskN + delta) % Modulus
    /\ Goto(t, from, IF taskN + delta = 0 THEN "clear" ELSE to)
    /\ UNCHANGED <<waitN, seen, panicked>>
AddFetchClearsEarly(t, from, delta, to) ==
    /\ taskN' = (taskN + delta) % Modulus
    /\ panicked' = (taskN + delta < 0)
    /\ Goto(t, from, IF taskN + delta <= 1 /\ delta < 0 THEN "clear" ELSE to)
    /\ UNCHANGED <<waitN, seen>>

\* The fetch_add of Add and what follows it up to the next atomic access:
\* the panic, the early return (to `to`), or the entry of the clearing loop.
\* oldTask is a 64-bit int, so nTask is the unwrapped sum.
AddFetch(t, from, delta, to) ==
    LET nTask == taskN + delta IN
    /\ taskN' = (taskN + delta) % Modulus
    /\ panicked' = (nTask < 0)
    /\ Goto(t, from, IF nTask = 0 THEN "clear" ELSE to)
    /\ UNCHANGED <<waitN, seen>>

\* nWaiters = waitN.Load(); nothing to clear: Add returns.
ClearLoad(t) ==
    /\ Goto(t, "clear", IF waitN = 0 THEN "end" ELSE "cas")
    /\ seen' = [seen EXCEPT ![t] = waitN]
    /\ UNCHANGED <<taskN, waitN, spawned, panicked>>

\* Wrong: the counter is not cleared.
ClearCasKeepsOne(t) ==
    /\ Goto(t, "cas", IF waitN = seen[t] THEN "end" ELSE "clear")
    /\ waitN' = IF waitN = seen[t] THEN 1 ELSE waitN
    /\ UNCHANGED <<taskN, spawned, seen, panicked>>

\* waitN.CompareSwap(nWaiters, 0): done, or around the loop again.
ClearCas(t) ==
    /\ Goto(t, "cas", IF waitN = seen[t] THEN "end" ELSE "clear")
    /\ waitN' = IF waitN = seen[t] THEN 0 ELSE waitN
    /\ UNCHANGED <<taskN, spawned, seen, panicked>>

Done(t) == AddFetch(t, "run", -1, "end") /\ UNCHANGED spawned

-----------------------------------------------------------------------------
(* The main thread.                                                        *)

MainAdd ==
    /\ AddFetch(Main, "add", IF BatchAdd THEN Cardinality(Tasks) ELSE 1, "spawn")
    /\ UNCHANGED spawned

\* `co task(&wg)`: starts one task, then adds, starts or waits.
MainSpawn(t) ==
    /\ ~panicked
    /\ t \in Tasks \ spawned
    /\ pc[Main] = "spawn"
    /\ spawned' = spawned \union {t}
    /\ pc' = [pc EXCEPT ![t] = "run",
                        ![Main] = IF spawned \union {t} = Tasks THEN "start"
                                  ELSE IF BatchAdd THEN "spawn" ELSE "add"]
    /\ UNCHANGED <<taskN, waitN, seen, panicked>>

-----------------------------------------------------------------------------
(* Wait.                                                                   *)

\* Wrong: looks at the waiters instead of the tasks.
WaitLoadOfWaiters(w) ==
    /\ pc[Main] \notin {"add", "spawn"}
    /\ Goto(w, "start", IF waitN = 0 THEN "end" ELSE "register")
    /\ UNCHANGED <<taskN, waitN, spawned, seen, panicked>>

\* The first load of Wait.  The other waiters call it once main is set up.
WaitLoad(w) ==
    /\ pc[Main] \notin {"add", "spawn"}
    /\ Goto(w, "start", IF taskN = 0 THEN "end" ELSE "register")
    /\ UNCHANGED <<taskN, waitN, spawned, seen, panicked>>

WaitRegister(w) ==
    /\ Goto(w, "register", "spin")
    /\ waitN' = (waitN + 1) % Modulus
    /\ UNCHANGED <<taskN, spawned, seen, panicked>>

\* The load of the spin loop that ends it; the others change nothing.
WaitSpin(w) ==
    /\ waitN = 0
    /\ Goto(w, "spin", "end")
    /\ UNCHANGED <<taskN, waitN, spawned, seen, panicked>>

-----------------------------------------------------------------------------
MainStep == MainAdd \/ \E t \in Tasks : MainSpawn(t)
TaskStep(t) == Done(t) \/ ClearLoad(t) \/ ClearCas(t)
WaitStep(w) == WaitLoad(w) \/ WaitRegister(w) \/ WaitSpin(w)

Next ==
    \/ MainStep
    \/ \E t \in Tasks \union Strays : TaskStep(t)
    \/ \E w \in Waiters : WaitStep(w)

Spec == Init /\ [][Next]_vars

\* The operating system runs every thread of a live process, and tasks end;
\* a stray call of Done need not happen.
Fairness ==
    /\ WF_vars(MainStep)
    /\ \A t \in Tasks : WF_vars(TaskStep(t))
    /\ \A s \in Strays : WF_vars(ClearLoad(s) \/ ClearCas(s))
    /\ \A w \in Waiters : WF_vars(WaitStep(w))

FairSpec == Spec /\ Fairness

-----------------------------------------------------------------------------
(* Properties.                                                             *)

TypeOK ==
    /\ taskN \in 0 .. Modulus - 1
    /\ waitN \in 0 .. Modulus - 1
    /\ pc \in [Thread -> PC]
    /\ spawned \subseteq Tasks
    /\ seen \in [Thread -> 0 .. Modulus - 1]
    /\ panicked \in BOOLEAN

\* Tasks, and all callers, whose Done took effect.
Finished == {t \in Tasks : pc[t] \in {"clear", "cas", "end"}}
StrayDone == {s \in Strays : pc[s] # "run"}
Completed == Finished \union StrayDone
Returned == {w \in Waiters : pc[w] = "end"}

\* Wait returns only when Done has been called once for every task, whatever
\* the interleaving of the clearing loop of the last Done with the
\* registration of the waiters ("Blocks until all tasks are done (task count
\* becomes zero)", waitgroup.jule).
NoEarlyReturn == Returned # {} => Cardinality(Completed) >= Cardinality(Tasks)

\* Add panics exactly when more Done calls than added tasks have taken effect:
\* never in a program that keeps to the protocol, at once in one that does not
\* ("Panics if task count reaches below zero", waitgroup.jule).
Added == IF BatchAdd THEN IF pc[Main] = "add" THEN 0 ELSE Cardinality(Tasks)
         ELSE Cardinality(spawned) + (IF pc[Main] = "spawn" THEN 1 ELSE 0)
PanicExact == panicked <=> Cardinality(Completed) > Added

\* The clearing loop of Add terminates although waiters keep changing waitN
\* between its load and its compare-and-swap.
AddReturns == \A t \in Tasks : pc[t] \in {"clear", "cas"} ~> (pc[t] = "end" \/ panicked)

\* Every call of Wait returns once the tasks are done (they all finish under
\* Fairness): waiters that have seen a non-zero task count included.
WaitReturns == \A w \in Waiters : pc[w] = "register" ~> pc[w] = "end"

\* The part of WaitReturns that the code does keep: if all waiters are in the
\* spin loop before the last task finishes, they are all released.
RegisteredReturns ==
    (taskN # 0 /\ \A w \in Waiters : pc[w] = "spin") ~> (Returned = Waiters \/ panicked)

\* The calls of Add return, and those of Wait that were registered in time.
CallsReturn == AddReturns /\ RegisteredReturns

\* The WaitGroup implements the abstract join.
Join == INSTANCE JoinSpec WITH
            Callers <- Tasks \union Strays,
            Enough <- {D \in SUBSET (Tasks \union Strays) : Cardinality(D) >= Cardinality(Tasks)},
            finished <- Completed, returned <- Returned
JoinSpecHolds == Join!JSpec
=============================================================================
