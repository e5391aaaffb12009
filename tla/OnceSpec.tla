------------------------------ MODULE OnceSpec ------------------------------
(***************************************************************************)
(* What std::sync::Once promises (std/sync/once.jule): the action runs at  *)
(* most once, and a call of Do that returns, returns after it finished.    *)
(***************************************************************************)
CONSTANT Threads

VARIABLES action,  \* "new", "running", "finished": the function given to Do
          inDo     \* threads whose current call of Do has not returned

ovars == <<action, inDo>>

OInit == action = "new" /\ inDo = {}

OCall(t) == t \notin inDo /\ inDo' = inDo \union {t} /\ UNCHANGED action

OStart(t) == /\ t \in inDo
             /\ action = "new" /\ action' = "running"
             /\ UNCHANGED inDo

OFinish(t) == /\ t \in inDo
              /\ action = "running" /\ action' = "finished"
              /\ UNCHANGED inDo

OReturn(t) == /\ t \in inDo
              /\ action = "finished"
              /\ inDo' = inDo \ {t}
              /\ UNCHANGED action

ONext == \E t \in Threads : OCall(t) \/ OStart(t) \/ OFinish(t) \/ OReturn(t)

OSpec == OInit /\ [][ONext]_ovars
=============================================================================
