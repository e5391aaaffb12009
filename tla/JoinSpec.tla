------------------------------ MODULE JoinSpec ------------------------------
(***************************************************************************)
(* What std::sync::WaitGroup promises to the program that uses it          *)
(* (std/sync/waitgroup.jule: "Blocks until all tasks are done"): calls of  *)
(* Done take effect one by one, and a waiter leaves only when there have   *)
(* been as many as tasks.  Nothing is said about how they meet.            *)
(***************************************************************************)
CONSTANTS Callers,  \* threads that call Done, once each
          Enough,   \* the sets of callers that are as many as the tasks
          Waiters   \* threads that call Wait

VARIABLES finished, \* callers whose Done took effect
          returned  \* waiters whose Wait returned

jvars == <<finished, returned>>

JInit == finished = {} /\ returned = {}

Finish(t) == /\ t \notin finished
             /\ finished' = finished \union {t}
             /\ UNCHANGED returned

Return(w) == /\ finished \in Enough
             /\ w \notin returned
             /\ returned' = returned \union {w}
             /\ UNCHANGED finished

JNext == \/ \E t \in Callers : Finish(t)
         \/ \E w \in Waiters : Return(w)

JSpec == JInit /\ [][JNext]_jvars
=============================================================================
