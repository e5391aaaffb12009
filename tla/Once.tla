-------------------------------- MODULE Once --------------------------------
(***************************************************************************)
(* std::sync::Once (src/std/sync/once.jule) called by several threads, any *)
(* number of times each.  The mutex is the std::mutex that                 *)
(* src/std/sync/mutex.jule wraps.                                          *)
(*                                                                         *)
(* Steps interleave; what MemoryOrder.Relaxed leaves open is modelled      *)
(* where it shows: a thread is ordered after the writes of f only if it    *)
(* ran f or a lock of the mutex handed them over (seesF).                  *)
(***************************************************************************)
EXTENDS Integers

CONSTANTS Threads,    \* threads that call Do
          Reentrant,  \* threads whose f calls Do on the same Once again
          NoThread    \* no owner

ASSUME ThreadAssumption ==
    /\ Reentrant \subseteq Threads
    /\ NoThread \notin Threads

VARIABLES
    done,      \* Once.done
    holder,    \* owner of Once.m, or NoThread
    place,     \* where each thread is in Do
    nested,    \* threads that are in a Do called from f
    action,    \* "new", "running", "finished": the call of f
    published, \* the last unlock of m came after f
    seesF      \* threads that are ordered after the writes of f

doVars == <<done, holder, place, nested, action, published, seesF>>

Places == {"out", "load", "lock", "check", "f", "fEnd", "store", "unlock"}

DoInit ==
    /\ done = 0
    /\ holder = NoThread
    /\ place = [t \in Threads |-> "out"]
    /\ nested = {}
    /\ action = "new"
    /\ published = FALSE
    /\ seesF = {}

Move(t, from, to) == place[t] = from /\ place' = [place EXCEPT ![t] = to]

\* Do returns: to the rest of f, or out of the outermost call.
Return(t, from) ==
    /\ Move(t, from, IF t \in nested THEN "fEnd" ELSE "out")
    /\ nested' = nested \ {t}

-----------------------------------------------------------------------------
Call(t) ==
    /\ Move(t, "out", "load")
    /\ UNCHANGED <<done, holder, nested, action, published, seesF>>

\* The relaxed load of Do, when the flag is set: Do returns.
FastPath(t) ==
    /\ done = 1
    /\ Return(t, "load")
    /\ UNCHANGED <<done, holder, action, published, seesF>>

\* ... and when it is not: doSlow goes for the mutex.
SlowPath(t) ==
    /\ done = 0
    /\ Move(t, "load", "lock")
    /\ UNCHANGED <<done, holder, nested, action, published, seesF>>

\* m.Lock(): orders the thread after the previous unlock.  A std::mutex is
\* not granted to the thread that holds it.
Lock(t) ==
    /\ holder = NoThread
    /\ Move(t, "lock", "check")
    /\ holder' = t
    /\ seesF' = IF published THEN seesF \union {t} ELSE seesF
    /\ UNCHANGED <<done, nested, action, published>>

\* Wrong: done is not read again, f runs for every thread that waited.
CheckNothing(t) ==
    /\ Move(t, "check", "f")
    /\ action' = "running"
    /\ UNCHANGED <<done, holder, nested, published, seesF>>
\* Wrong: the flag is stored before f is called.
CheckStoresFirst(t) ==
    /\ Move(t, "check", IF done = 0 THEN "f" ELSE "unlock")
    /\ done' = 1
    /\ action' = IF done = 0 THEN "running" ELSE action
    /\ UNCHANGED <<holder, nested, published, seesF>>

\* The second look at done, under the mutex; the first caller enters f.
Check(t) ==
    /\ Move(t, "check", IF done = 0 THEN "f" ELSE "unlock")
    /\ action' = IF done = 0 THEN "running" ELSE action
    /\ UNCHANGED <<done, holder, nested, published, seesF>>

\* f calls Do again.
CallFromF(t) ==
    /\ t \in Reentrant
    /\ Move(t, "f", "load")
    /\ nested' = nested \union {t}
    /\ UNCHANGED <<done, holder, action, published, seesF>>

\* f returns.
FReturns(t) ==
    /\ \/ t \notin Reentrant /\ Move(t, "f", "store")
       \/ Move(t, "fEnd", "store")
    /\ action' = "finished"
    /\ seesF' = seesF \union {t}
    /\ UNCHANGED <<done, holder, nested, published>>

Store(t) ==
    /\ Move(t, "store", "unlock")
    /\ done' = 1
    /\ UNCHANGED <<holder, nested, action, published, seesF>>

\* Wrong: Do returns and the mutex stays locked.
UnlockForgotten(t) ==
    /\ Return(t, "unlock")
    /\ published' = (action = "finished")
    /\ UNCHANGED <<done, holder, action, seesF>>

\* m.Unlock(), and Do returns.
Unlock(t) ==
    /\ Return(t, "unlock")
    /\ holder' = NoThread
    /\ published' = (action = "finished")
    /\ UNCHANGED <<done, action, seesF>>

InDo(t) == \/ FastPath(t) \/ SlowPath(t) \/ Lock(t) \/ Check(t)
           \/ CallFromF(t) \/ FReturns(t) \/ Store(t) \/ Unlock(t)

DoNext == \E t \in Threads : Call(t) \/ InDo(t)

DoSpec == DoInit /\ [][DoNext]_doVars

\* Threads run, f terminates, and a mutex that stays free is granted; nobody
\* is forced to call Do.
DoFairSpec == DoSpec /\ \A t \in Threads : WF_doVars(InDo(t))

-----------------------------------------------------------------------------
(* Properties.                                                             *)

DoTypeOK ==
    /\ done \in {0, 1}
    /\ holder \in Threads \union {NoThread}
    /\ place \in [Threads -> Places]
    /\ nested \subseteq Reentrant
    /\ action \in {"new", "running", "finished"}
    /\ published \in BOOLEAN
    /\ seesF \subseteq Threads

\* Only the first call invokes f, and no call of Do returns before f has
\* finished, however calls race on the flag and the mutex.
Contract == INSTANCE OnceSpec WITH inDo <- {t \in Threads : place[t] # "out"}
OnceSpecHolds == Contract!OSpec

\* "if f causes do to be called, it will deadlock" (once.jule:73): from then on
\* f does not finish, the mutex is never released and no first call gets out.
ReentryDeadlocks ==
    [][nested # {} => /\ nested \subseteq nested'
                      /\ UNCHANGED <<holder, action, done>>]_doVars

\* Every call of Do returns if f does: nobody is left behind at the mutex.
DoReturns == \A t \in Threads : place[t] = "load" ~> (place[t] = "out" \/ nested # {})

\* When Do returns, what f wrote is visible to the caller ("do guarantees that
\* when it returns, f has finished", once.jule:85).
FVisible ==
    [][\A t \in Threads : place[t] # "out" /\ place'[t] = "out" => t \in seesF']_doVars
=============================================================================
