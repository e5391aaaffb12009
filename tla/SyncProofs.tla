----------------------------- MODULE SyncProofs -----------------------------
(***************************************************************************)
(* WaitGroup, for every number of tasks, waiters and stray calls of Done,  *)
(* and however the tasks are added: the counters keep their meaning and    *)
(* Add panics exactly when Done outnumbers the added tasks.  Used as its   *)
(* header says (one Add before the tasks start), it never lets Wait return *)
(* before as many calls of Done as there are tasks, and implements         *)
(* JoinSpec.                                                               *)
(*                                                                         *)
(* Once, for any set of threads, reentrant ones included: it implements    *)
(* OnceSpec, and a Do called from f blocks for ever.                       *)
(***************************************************************************)
EXTENDS WaitGroup, Once, FiniteSetTheorems, TLAPS

-----------------------------------------------------------------------------
(* WaitGroup: the inductive invariant.                                     *)

\* The usage of the header; with an Add per task Wait can return early.
Usage == BatchAdd = TRUE

Callers  == Tasks \union Strays
CallerPC == {"idle", "run", "clear", "cas", "end"}
WaiterPC == {"add", "spawn", "start", "register", "spin", "end"}

\* Waiters whose registration may be in waitN.
Registered == {w \in Waiters : pc[w] \in {"spin", "end"}}

\* As many calls of Done have taken effect as there are tasks.
AllDone == Cardinality(Completed) >= Cardinality(Tasks)

\* The pieces of the inductive invariant.
PcOK ==
    /\ pc \in [Thread -> PC]
    /\ \A t \in Tasks : pc[t] \in CallerPC /\ (t \in spawned <=> pc[t] # "idle")
    /\ \A s \in Strays : pc[s] \in CallerPC \ {"idle"}
    /\ \A w \in Waiters : pc[w] \in WaiterPC
    /\ \A w \in Waiters \ {Main} : pc[w] \notin {"add", "spawn"}
    /\ spawned \subseteq Tasks
    /\ pc[Main] \in {"add", "spawn"} => spawned # Tasks
    /\ seen \in [Thread -> 0 .. Modulus - 1]

\* taskN counts the added tasks without a Done; Add panics below zero.
Counted ==
    /\ taskN \in 0 .. Modulus - 1
    /\ panicked \in BOOLEAN
    /\ ~panicked => taskN + Cardinality(Completed) = Added
    /\ panicked => Cardinality(Completed) > Added

WaitCount == waitN \in Nat /\ waitN <= Cardinality(Registered)

\* Whoever clears, has been cleared or has returned proves the tasks done.
ClearedIsDone ==
    /\ \A c \in Callers : pc[c] \in {"clear", "cas"} => AllDone
    /\ \A w \in Waiters : pc[w] = "spin" /\ waitN = 0 => AllDone
    /\ \A w \in Waiters : pc[w] = "end" => AllDone

WaitGroupInv ==
    /\ PcOK
    /\ Counted
    /\ WaitCount
    /\ BatchAdd => ClearedIsDone

-----------------------------------------------------------------------------
(* Counting.                                                               *)

\* Reducing a small number modulo 2^w changes nothing; what is reduced fits.
LEMMA ModSmall == \A x \in Nat : x < Modulus => x % Modulus = x
  BY ModulusAssumption
LEMMA ModFits == \A x \in Int : x % Modulus \in 0 .. Modulus - 1
  BY ModulusAssumption, FS_CardinalityType, ClientAssumption

\* Main and the other callers are threads of different kinds.
LEMMA Kinds ==
    /\ Main \in Thread /\ Main \notin Callers
    /\ \A c \in Callers : c \in Thread /\ c \notin Waiters
    /\ \A w \in Waiters : w \in Thread /\ w \notin Callers
  BY ClientAssumption DEF Callers, Thread

\* The sets that are counted are finite; there is a task.
LEMMA Finite ==
    /\ Cardinality(Tasks) \in Nat /\ Cardinality(Tasks) # 0
    /\ Cardinality(Waiters) \in Nat
    /\ \A S : S \subseteq Callers => IsFiniteSet(S) /\ Cardinality(S) \in Nat
    /\ \A S : S \subseteq Tasks =>
          /\ IsFiniteSet(S) /\ Cardinality(S) \in Nat
          /\ Cardinality(S) <= Cardinality(Tasks)
          /\ S # Tasks => Cardinality(S) < Cardinality(Tasks)
    /\ \A S : S \subseteq Waiters => /\ IsFiniteSet(S) /\ Cardinality(S) \in Nat
                                     /\ Cardinality(S) <= Cardinality(Waiters)
  <1>1. IsFiniteSet(Callers)
    BY ClientAssumption, FS_Union DEF Callers
  <1>2. QED
    BY <1>1, ClientAssumption, FS_Subset, FS_CardinalityType, FS_EmptySet

\* The calls of Done that took effect, by the place of their caller.
LEMMA CompletedIs ==
  ASSUME PcOK
  PROVE  /\ Completed = {c \in Callers : pc[c] \in {"clear", "cas", "end"}}
         /\ Completed \subseteq Callers
         /\ IsFiniteSet(Completed) /\ Cardinality(Completed) \in Nat
  <1>1. Completed = {c \in Callers : pc[c] \in {"clear", "cas", "end"}}
    BY ClientAssumption DEF PcOK, Completed, Finished, StrayDone, Callers, CallerPC
  <1>2. QED  BY <1>1, Finite

\* Main never adds more than there are tasks.
LEMMA AddedIs ==
  ASSUME PcOK
  PROVE  /\ Added \in Nat /\ Added <= Cardinality(Tasks)
         /\ Usage => Added = (IF pc[Main] = "add" THEN 0 ELSE Cardinality(Tasks))
  <1>1. /\ Cardinality(spawned) \in Nat /\ Cardinality(spawned) <= Cardinality(Tasks)
        /\ pc[Main] = "spawn" => Cardinality(spawned) < Cardinality(Tasks)
    BY Finite DEF PcOK
  <1>2. QED  BY <1>1, Finite DEF Added, Usage

\* Registered waiters are no more than all of them.
LEMMA RegisteredIs ==
    /\ IsFiniteSet(Registered) /\ Cardinality(Registered) \in Nat
    /\ Cardinality(Registered) <= Cardinality(Waiters)
  <1>1. Registered \subseteq Waiters  BY DEF Registered
  <1>2. QED  BY <1>1, Finite

-----------------------------------------------------------------------------
(* Every step preserves the invariant.                                     *)

LEMMA InitWaitGroupInv == ASSUME Init PROVE WaitGroupInv
  <1>1. PcOK
    BY ClientAssumption, ModulusAssumption, Finite
    DEF Init, PcOK, Thread, PC, CallerPC, WaiterPC
  <1>2. Completed = {} /\ Added = 0
    <2>1. Completed = {}
      BY <1>1, CompletedIs, Kinds, ClientAssumption DEF Init, Callers
    <2>2. spawned = {} /\ pc[Main] = "add"
      BY Kinds DEF Init
    <2>3. QED  BY <2>1, <2>2, FS_EmptySet DEF Added
  <1>3. Counted
    <2>1. Cardinality(Completed) = 0
      BY <1>2, FS_EmptySet
    <2>2. 0 \in 0 .. Modulus - 1
      BY ModulusAssumption, Finite
    <2>3. taskN = 0 /\ panicked = FALSE  BY DEF Init
    <2>4. taskN + Cardinality(Completed) = Added
      BY <1>2, <2>1, <2>3
    <2>5. QED  BY <2>2, <2>3, <2>4 DEF Counted
  <1>4. WaitCount
    BY RegisteredIs DEF Init, WaitCount
  <1>5. ClearedIsDone
    BY Kinds, ClientAssumption DEF Init, ClearedIsDone, Thread, Callers
  <1>6. QED  BY <1>1, <1>3, <1>4, <1>5 DEF WaitGroupInv

\* Where the counters and the callers stay, it is only the waiters that matter.
LEMMA SameCount ==
  ASSUME WaitGroupInv, PcOK', Completed' = Completed, Added' = Added,
         UNCHANGED <<taskN, panicked>>
  PROVE  Counted' /\ (AllDone' <=> AllDone)
  BY DEF WaitGroupInv, Counted, AllDone

\* Main adds all tasks or one, which cannot bring the count to zero.
LEMMA MainAddKeeps == ASSUME WaitGroupInv, MainAdd PROVE WaitGroupInv'
  <1> DEFINE n == IF BatchAdd THEN Cardinality(Tasks) ELSE 1
  <1>1. /\ pc[Main] = "add" /\ panicked = FALSE
        /\ taskN' = (taskN + n) % Modulus
        /\ panicked' = (taskN + n < 0)
        /\ pc' = [pc EXCEPT ![Main] = IF taskN + n = 0 THEN "clear" ELSE "spawn"]
        /\ UNCHANGED <<waitN, seen, spawned>>
    BY DEF MainAdd, AddFetch, Goto, WaitGroupInv, Counted
  <1>2. n \in Nat \ {0}
    BY Finite
  <1>3. spawned # Tasks /\ Cardinality(spawned) \in Nat
        /\ Cardinality(spawned) + 1 <= Cardinality(Tasks)
    BY <1>1, Finite DEF WaitGroupInv, PcOK
  <1>4. /\ taskN + Cardinality(Completed) = Added /\ taskN \in Nat
        /\ Cardinality(Completed) \in Nat
    BY <1>1, CompletedIs, ModulusAssumption DEF WaitGroupInv, Counted
  <1>5. Added + n <= Cardinality(Tasks)
    BY <1>1, <1>3, Finite, ClientAssumption DEF Added
  <1>6. /\ taskN + n \in Nat /\ taskN + n # 0 /\ taskN + n < Modulus
        /\ taskN + n + Cardinality(Completed) = Added + n
    <2> HIDE DEF n
    <2>1. Added \in Nat  BY AddedIs DEF WaitGroupInv
    <2>2. QED  BY <1>2, <1>4, <1>5, <2>1, Finite, ModulusAssumption
  <1>7. taskN' = taskN + n
    BY <1>1, <1>6, ModSmall
  <1>8. panicked' = FALSE
    <2>1. (taskN + n < 0) = FALSE  BY <1>6
    <2>2. QED  BY <1>1, <2>1, Zenon
  <1>9. pc' = [pc EXCEPT ![Main] = "spawn"]
    BY <1>1, <1>6
  <1>10. PcOK'
    BY <1>1, <1>3, <1>9, Kinds, ClientAssumption
    DEF WaitGroupInv, PcOK, PC, WaiterPC, Callers
  <1>11. Completed' = Completed
    BY <1>9, Kinds, ClientAssumption DEF WaitGroupInv, PcOK, Completed, Finished, StrayDone, Callers
  <1>12. Added' = Added + n
    BY <1>1, <1>3, <1>9, Kinds, Finite, ClientAssumption DEF Added, WaitGroupInv, PcOK
  <1>13. Counted'
    <2> HIDE DEF n
    <2>1. taskN' \in 0 .. Modulus - 1
      BY <1>6, <1>7, ModulusAssumption
    <2>2. taskN' + Cardinality(Completed') = Added'
      BY <1>6, <1>7, <1>11, <1>12
    <2>3. QED  BY <1>8, <2>1, <2>2 DEF Counted
  <1>14. Registered' = Registered
    BY <1>1, <1>9, Kinds DEF WaitGroupInv, PcOK, Registered
  <1>15. WaitCount'
    BY <1>1, <1>14 DEF WaitGroupInv, WaitCount
  <1>16. BatchAdd' => ClearedIsDone'
    BY <1>1, <1>9, <1>11, Kinds DEF WaitGroupInv, PcOK, ClearedIsDone, AllDone
  <1>17. QED  BY <1>10, <1>13, <1>15, <1>16 DEF WaitGroupInv

LEMMA MainSpawnKeeps ==
  ASSUME WaitGroupInv, NEW t \in Tasks, MainSpawn(t) PROVE WaitGroupInv'
  <1>1. /\ pc[Main] = "spawn" /\ t \notin spawned
        /\ spawned' = spawned \union {t}
        /\ UNCHANGED <<taskN, waitN, seen, panicked>>
    BY DEF MainSpawn
  <1>2. PICK to \in {"start", "spawn", "add"} :
           /\ pc' = [pc EXCEPT ![t] = "run", ![Main] = to]
           /\ to = "start" <=> spawned' = Tasks
           /\ BatchAdd => to # "add"
           /\ ~BatchAdd => to # "spawn"
    <2>1. pc' = [pc EXCEPT ![t] = "run",
                           ![Main] = IF spawned' = Tasks THEN "start"
                                     ELSE IF BatchAdd THEN "spawn" ELSE "add"]
      BY <1>1 DEF MainSpawn
    <2>2. QED  BY <2>1
  <1>3. t # Main /\ pc[t] = "idle" /\ t \in Thread /\ t \in Callers /\ t \notin Strays
    BY <1>1, Kinds, ClientAssumption DEF WaitGroupInv, PcOK, CallerPC, Callers
  <1>4. PcOK'
    BY <1>1, <1>2, <1>3, Kinds, ClientAssumption
    DEF WaitGroupInv, PcOK, PC, CallerPC, WaiterPC, Callers
  <1>5. Completed' = Completed /\ Registered' = Registered
    BY <1>1, <1>2, <1>3, Kinds, ClientAssumption
    DEF WaitGroupInv, PcOK, Completed, Finished, StrayDone, Registered, Callers
  <1>6. Added' = Added
    <2>1. Cardinality(spawned') = Cardinality(spawned) + 1 /\ Cardinality(spawned) \in Nat
      BY <1>1, Finite, FS_AddElement DEF WaitGroupInv, PcOK
    <2>2. pc'[Main] = to
      BY <1>2, Kinds DEF WaitGroupInv, PcOK
    <2>3. QED  BY <1>1, <1>2, <2>1, <2>2 DEF Added
  <1>7. Counted' /\ (AllDone' <=> AllDone)
    BY <1>1, <1>4, <1>5, <1>6, SameCount
  <1>8. WaitCount'
    BY <1>1, <1>5 DEF WaitGroupInv, WaitCount
  <1>9. BatchAdd' => ClearedIsDone'
    BY <1>1, <1>2, <1>3, <1>7, Kinds DEF WaitGroupInv, PcOK, ClearedIsDone
  <1>10. QED  BY <1>4, <1>7, <1>8, <1>9 DEF WaitGroupInv

\* A Done takes one off the count, or panics when there is none to take.
LEMMA DoneStep ==
  ASSUME WaitGroupInv, NEW c \in Callers, Done(c)
  PROVE  \E to \in {"clear", "end"} :
           /\ pc[c] = "run" /\ pc' = [pc EXCEPT ![c] = to]
           /\ c \notin Completed /\ Completed' = Completed \union {c}
           /\ Added' = Added
           /\ Cardinality(Completed') = Cardinality(Completed) + 1
           /\ UNCHANGED <<waitN, seen, spawned>>
           /\ Counted'
           /\ to = "clear" => /\ Cardinality(Completed') = Added
                              /\ Added # 0
  <1>1. /\ pc[c] = "run" /\ panicked = FALSE
        /\ taskN' = (taskN + -1) % Modulus
        /\ panicked' = (taskN + -1 < 0)
        /\ pc' = [pc EXCEPT ![c] = IF taskN + -1 = 0 THEN "clear" ELSE "end"]
        /\ UNCHANGED <<waitN, seen, spawned>>
    BY DEF Done, AddFetch, Goto, WaitGroupInv, Counted
  <1>2. /\ taskN \in Nat /\ taskN < Modulus
        /\ Cardinality(Completed) \in Nat /\ Added \in Nat
        /\ taskN + Cardinality(Completed) = Added
    BY <1>1, CompletedIs, AddedIs, ModulusAssumption DEF WaitGroupInv, Counted
  <1>3. PICK to \in {"clear", "end"} :
           pc' = [pc EXCEPT ![c] = to] /\ (to = "clear" <=> taskN = 1)
    <2>1. taskN + -1 = 0 <=> taskN = 1  BY <1>2
    <2>2. QED  BY <1>1, <2>1, Zenon
  <1>4. c \notin Completed /\ Completed' = Completed \union {c}
    BY <1>1, <1>3, Kinds DEF WaitGroupInv, PcOK, Completed, Finished, StrayDone, Callers
  <1>5. Cardinality(Completed') = Cardinality(Completed) + 1
    BY <1>4, CompletedIs, FS_AddElement DEF WaitGroupInv
  <1>6. Added' = Added
    BY <1>1, <1>3, Kinds DEF WaitGroupInv, PcOK, Added
  <1>7. taskN' \in 0 .. Modulus - 1 /\ panicked' \in BOOLEAN
    BY <1>1, <1>2, ModFits
  <1>8. CASE taskN = 0
    <2>1. panicked' = TRUE
      <3>1. (taskN + -1 < 0) = TRUE  BY <1>8
      <3>2. QED  BY <1>1, <3>1, Zenon
    <2>2. Cardinality(Completed') > Added'
      BY <1>2, <1>5, <1>6, <1>8
    <2>3. Counted'  BY <1>7, <2>1, <2>2 DEF Counted
    <2>4. to # "clear"  BY <1>3, <1>8
    <2>5. QED  BY <1>1, <1>3, <1>4, <1>5, <1>6, <2>3, <2>4
  <1>9. CASE taskN # 0
    <2>1. panicked' = FALSE
      <3>1. (taskN + -1 < 0) = FALSE  BY <1>2, <1>9
      <3>2. QED  BY <1>1, <3>1, Zenon
    <2>2. taskN' = taskN - 1
      <3>1. taskN + -1 \in Nat /\ taskN + -1 < Modulus /\ taskN + -1 = taskN - 1
        BY <1>2, <1>9, ModulusAssumption
      <3>2. QED  BY <1>1, <3>1, ModSmall
    <2>3. taskN' + Cardinality(Completed') = Added'
      BY <1>2, <1>5, <1>6, <2>2
    <2>4. Counted'  BY <1>7, <2>1, <2>3 DEF Counted
    <2>5. to = "clear" => Cardinality(Completed') = Added /\ Added # 0
      BY <1>2, <1>3, <1>5
    <2>6. QED  BY <1>1, <1>3, <1>4, <1>5, <1>6, <2>4, <2>5
  <1>10. QED  BY <1>8, <1>9

LEMMA DoneKeeps ==
  ASSUME WaitGroupInv, NEW c \in Callers, Done(c) PROVE WaitGroupInv'
  <1>1. PICK to \in {"clear", "end"} :
           /\ pc[c] = "run" /\ pc' = [pc EXCEPT ![c] = to]
           /\ c \notin Completed /\ Completed' = Completed \union {c}
           /\ Added' = Added
           /\ Cardinality(Completed') = Cardinality(Completed) + 1
           /\ UNCHANGED <<waitN, seen, spawned>>
           /\ Counted'
           /\ to = "clear" => /\ Cardinality(Completed') = Added
                              /\ Added # 0
    BY DoneStep
  <1>2. PcOK'
    BY <1>1, Kinds, ClientAssumption DEF WaitGroupInv, PcOK, PC, CallerPC, WaiterPC, Callers
  <1>3. \A w \in Waiters : pc'[w] = pc[w]
    BY <1>1, Kinds DEF WaitGroupInv, PcOK
  <1>4. WaitCount'
    BY <1>1, <1>3 DEF WaitGroupInv, WaitCount, Registered
  <1>5. AllDone => AllDone'
    BY <1>1, CompletedIs, Finite DEF WaitGroupInv, AllDone
  <1>6. ASSUME BatchAdd PROVE to = "clear" => AllDone'
    <2>1. Usage  BY <1>6, ClientAssumption DEF Usage
    <2>2. QED  BY <1>1, <2>1, AddedIs, Finite DEF WaitGroupInv, AllDone
  <1>7. BatchAdd' => ClearedIsDone'
    <2>1. SUFFICES ASSUME BatchAdd PROVE ClearedIsDone'
      OBVIOUS
    <2>2. \A d \in Callers : pc'[d] \in {"clear", "cas"} => AllDone'
      BY <1>1, <1>5, <1>6, <2>1, Kinds DEF WaitGroupInv, PcOK, ClearedIsDone
    <2>3. QED  BY <1>1, <1>3, <1>5, <2>1, <2>2 DEF WaitGroupInv, ClearedIsDone
  <1>8. QED  BY <1>1, <1>2, <1>4, <1>7 DEF WaitGroupInv

\* The clearing loop takes waitN to zero only after the tasks are done.
LEMMA ClearKeeps ==
  ASSUME WaitGroupInv, NEW c \in Callers, ClearLoad(c) \/ ClearCas(c) PROVE WaitGroupInv'
  <1>1. pc[c] \in {"clear", "cas"}
    BY DEF ClearLoad, ClearCas, Goto
  <1>2. PICK to \in {"clear", "cas", "end"} : pc' = [pc EXCEPT ![c] = to]
    BY DEF ClearLoad, ClearCas, Goto
  <1>3. UNCHANGED <<taskN, spawned, panicked>> /\ waitN' \in {0, waitN}
    BY DEF ClearLoad, ClearCas
  <1>4. waitN \in 0 .. Modulus - 1
    BY RegisteredIs, Finite, ModulusAssumption DEF WaitGroupInv, WaitCount
  <1>5. seen' \in [Thread -> 0 .. Modulus - 1]
    BY <1>4 DEF ClearLoad, ClearCas, WaitGroupInv, PcOK
  <1>6. PcOK'
    BY <1>1, <1>2, <1>3, <1>5, Kinds, ClientAssumption
    DEF WaitGroupInv, PcOK, PC, CallerPC, WaiterPC, Callers
  <1>7. Completed' = Completed /\ Registered' = Registered
    BY <1>1, <1>2, Kinds DEF WaitGroupInv, PcOK, Completed, Finished, StrayDone, Registered, Callers
  <1>8. Added' = Added
    BY <1>2, <1>3, Kinds DEF WaitGroupInv, PcOK, Added
  <1>9. Counted' /\ (AllDone' <=> AllDone)
    BY <1>3, <1>6, <1>7, <1>8, SameCount
  <1>10. WaitCount'
    BY <1>3, <1>7, RegisteredIs DEF WaitGroupInv, WaitCount
  <1>11. BatchAdd' => ClearedIsDone'
    BY <1>1, <1>9 DEF WaitGroupInv, ClearedIsDone
  <1>12. QED  BY <1>6, <1>9, <1>10, <1>11 DEF WaitGroupInv

\* What every step of Wait leaves alone.
LEMMA WaitFrame ==
  ASSUME WaitGroupInv, NEW w \in Waiters, NEW to \in {"end", "register", "spin"},
         pc[w] \in {"start", "register", "spin"}, pc' = [pc EXCEPT ![w] = to],
         UNCHANGED <<taskN, spawned, seen, panicked>>
  PROVE  /\ PcOK' /\ Counted' /\ (AllDone' <=> AllDone)
         /\ Completed' = Completed
         /\ \A v \in Waiters : pc'[v] = IF v = w THEN to ELSE pc[v]
         /\ \A c \in Callers : pc'[c] = pc[c]
  <1>1. /\ \A v \in Waiters : pc'[v] = IF v = w THEN to ELSE pc[v]
        /\ \A c \in Callers : pc'[c] = pc[c]
    BY Kinds DEF WaitGroupInv, PcOK
  <1>2. PcOK'
    BY Kinds, ClientAssumption DEF WaitGroupInv, PcOK, PC, CallerPC, WaiterPC, Callers
  <1>3. Completed' = Completed
    BY <1>1 DEF Completed, Finished, StrayDone, Callers
  <1>4. Added' = Added
    BY <1>1, ClientAssumption DEF Added
  <1>5. QED  BY <1>1, <1>2, <1>3, <1>4, SameCount

\* A waiter that reads zero leaves: with one Add up front all tasks are done.
LEMMA WaitLoadKeeps ==
  ASSUME WaitGroupInv, NEW w \in Waiters, WaitLoad(w) PROVE WaitGroupInv'
  <1>1. /\ pc[w] = "start" /\ pc[Main] # "add" /\ panicked = FALSE
        /\ UNCHANGED <<taskN, waitN, spawned, seen, panicked>>
    BY DEF WaitLoad, Goto, WaitGroupInv, Counted
  <1>2. PICK to \in {"end", "register"} :
           pc' = [pc EXCEPT ![w] = to] /\ (to = "end" <=> taskN = 0)
    BY DEF WaitLoad, Goto
  <1>3. /\ PcOK' /\ Counted' /\ (AllDone' <=> AllDone)
        /\ \A v \in Waiters : pc'[v] = IF v = w THEN to ELSE pc[v]
        /\ \A c \in Callers : pc'[c] = pc[c]
    <2>1. to \in {"end", "register", "spin"}  OBVIOUS
    <2>2. QED  BY <1>1, <1>2, <2>1, WaitFrame
  <1>4. WaitCount'
    <2>1. Registered \subseteq Registered' /\ Registered' \subseteq Waiters
      BY <1>1, <1>3 DEF Registered
    <2>2. Cardinality(Registered) <= Cardinality(Registered') /\ Cardinality(Registered') \in Nat
      BY <2>1, Finite, FS_Subset
    <2>3. QED  BY <1>1, <2>2, RegisteredIs DEF WaitGroupInv, WaitCount
  <1>5. ASSUME BatchAdd, taskN = 0 PROVE AllDone
    <2>1. Usage  BY <1>5, ClientAssumption DEF Usage
    <2>2. Added = Cardinality(Tasks)
      BY <1>1, <2>1, AddedIs DEF WaitGroupInv
    <2>3. QED
      BY <1>1, <1>5, <2>2, CompletedIs, Finite DEF WaitGroupInv, Counted, AllDone
  <1>6. BatchAdd' => ClearedIsDone'
    BY <1>1, <1>2, <1>3, <1>5 DEF WaitGroupInv, ClearedIsDone
  <1>7. QED  BY <1>3, <1>4, <1>6 DEF WaitGroupInv

\* The registration never wraps waitN to zero: each waiter registers once.
LEMMA WaitRegisterKeeps ==
  ASSUME WaitGroupInv, NEW w \in Waiters, WaitRegister(w) PROVE WaitGroupInv'
  <1>1. /\ pc[w] = "register" /\ pc' = [pc EXCEPT ![w] = "spin"]
        /\ waitN' = (waitN + 1) % Modulus
        /\ UNCHANGED <<taskN, spawned, seen, panicked>>
    BY DEF WaitRegister, Goto
  <1>2. /\ PcOK' /\ Counted' /\ (AllDone' <=> AllDone)
        /\ \A v \in Waiters : pc'[v] = IF v = w THEN "spin" ELSE pc[v]
        /\ \A c \in Callers : pc'[c] = pc[c]
    BY <1>1, WaitFrame
  <1>3. w \notin Registered /\ Registered' = Registered \union {w}
    BY <1>1, <1>2 DEF Registered
  <1>4. Cardinality(Registered') = Cardinality(Registered) + 1
    BY <1>3, RegisteredIs, FS_AddElement
  <1>5. Cardinality(Registered') <= Cardinality(Waiters)
    <2>1. Registered' \subseteq Waiters  BY DEF Registered
    <2>2. QED  BY <2>1, Finite
  <1>6. waitN + 1 \in Nat /\ waitN + 1 < Modulus
    BY <1>4, <1>5, RegisteredIs, Finite, ModulusAssumption DEF WaitGroupInv, WaitCount
  <1>7. waitN' = waitN + 1 /\ waitN' # 0
    <2>1. waitN' = waitN + 1  BY <1>1, <1>6, ModSmall
    <2>2. QED  BY <2>1, <1>6 DEF WaitGroupInv, WaitCount
  <1>8. WaitCount'
    BY <1>4, <1>7, RegisteredIs DEF WaitGroupInv, WaitCount
  <1>9. BatchAdd' => ClearedIsDone'
    BY <1>2, <1>7 DEF WaitGroupInv, ClearedIsDone
  <1>10. QED  BY <1>2, <1>8, <1>9 DEF WaitGroupInv

LEMMA WaitSpinKeeps ==
  ASSUME WaitGroupInv, NEW w \in Waiters, WaitSpin(w) PROVE WaitGroupInv'
  <1>1. /\ pc[w] = "spin" /\ waitN = 0 /\ pc' = [pc EXCEPT ![w] = "end"]
        /\ UNCHANGED <<taskN, waitN, spawned, seen, panicked>>
    BY DEF WaitSpin, Goto
  <1>2. /\ PcOK' /\ Counted' /\ (AllDone' <=> AllDone)
        /\ \A v \in Waiters : pc'[v] = IF v = w THEN "end" ELSE pc[v]
        /\ \A c \in Callers : pc'[c] = pc[c]
    BY <1>1, WaitFrame
  <1>3. Registered' = Registered
    BY <1>1, <1>2 DEF Registered
  <1>4. WaitCount'
    BY <1>1, <1>3 DEF WaitGroupInv, WaitCount
  <1>5. BatchAdd' => ClearedIsDone'
    BY <1>1, <1>2 DEF WaitGroupInv, ClearedIsDone
  <1>6. QED  BY <1>2, <1>4, <1>5 DEF WaitGroupInv

LEMMA StutterKeeps == ASSUME WaitGroupInv, UNCHANGED vars PROVE WaitGroupInv'
  BY DEF WaitGroupInv, PcOK, Counted, WaitCount, ClearedIsDone, vars, AllDone, Added,
         Completed, Finished, StrayDone, Registered

LEMMA NextWaitGroupInv == ASSUME WaitGroupInv, [Next]_vars PROVE WaitGroupInv'
  <1>1. CASE MainAdd  BY <1>1, MainAddKeeps
  <1>2. ASSUME NEW t \in Tasks, MainSpawn(t) PROVE WaitGroupInv'  BY <1>2, MainSpawnKeeps
  <1>3. ASSUME NEW c \in Callers, Done(c) PROVE WaitGroupInv'  BY <1>3, DoneKeeps
  <1>4. ASSUME NEW c \in Callers, ClearLoad(c) \/ ClearCas(c) PROVE WaitGroupInv'
    BY <1>4, ClearKeeps
  <1>5. ASSUME NEW w \in Waiters, WaitLoad(w) PROVE WaitGroupInv'  BY <1>5, WaitLoadKeeps
  <1>6. ASSUME NEW w \in Waiters, WaitRegister(w) PROVE WaitGroupInv'
    BY <1>6, WaitRegisterKeeps
  <1>7. ASSUME NEW w \in Waiters, WaitSpin(w) PROVE WaitGroupInv'  BY <1>7, WaitSpinKeeps
  <1>8. CASE UNCHANGED vars  BY <1>8, StutterKeeps
  <1>9. QED
    BY <1>1, <1>2, <1>3, <1>4, <1>5, <1>6, <1>7, <1>8
    DEF Next, MainStep, TaskStep, WaitStep, Callers

-----------------------------------------------------------------------------
(* The theorems.                                                           *)

\* The inductive invariant holds: the counters mean what their names say,
\* however the tasks are added and whoever else calls Done.
THEOREM WaitGroupInvariance == Spec => []WaitGroupInv
  <1>1. WaitGroupInv /\ [Next]_vars => WaitGroupInv'  BY NextWaitGroupInv
  <1>2. QED  BY <1>1, InitWaitGroupInv, PTL DEF Spec

\* The counters stay in their 2^w values and every thread in its code.
THEOREM WaitGroupTypeCorrect == Spec => []TypeOK
  <1>1. WaitGroupInv => TypeOK
    BY RegisteredIs, Finite, ModulusAssumption
    DEF WaitGroupInv, PcOK, Counted, WaitCount, TypeOK
  <1>2. QED  BY <1>1, WaitGroupInvariance, PTL

\* Whatever the clients do, Add panics exactly when more calls of Done than
\* added tasks have taken effect (Add of waitgroup.jule).
THEOREM PanicExactHolds == Spec => []PanicExact
  <1>1. WaitGroupInv => PanicExact
    <2>1. SUFFICES ASSUME WaitGroupInv PROVE panicked <=> Cardinality(Completed) > Added
      BY DEF PanicExact
    <2>2. taskN \in Nat /\ Cardinality(Completed) \in Nat /\ Added \in Nat
      BY <2>1, CompletedIs, AddedIs, ModulusAssumption DEF WaitGroupInv, Counted
    <2>3. ~panicked => ~(Cardinality(Completed) > Added)
      BY <2>1, <2>2 DEF WaitGroupInv, Counted
    <2>4. panicked => Cardinality(Completed) > Added
      BY <2>1 DEF WaitGroupInv, Counted
    <2>5. QED  BY <2>3, <2>4
  <1>2. QED  BY <1>1, WaitGroupInvariance, PTL

\* No interleaving of any number of tasks, waiters and stray calls of Done lets
\* a Wait return before Done was called as often as there are tasks (Add and
\* Wait of waitgroup.jule, one Add up front).
THEOREM NoEarlyReturnHolds == ASSUME Usage PROVE Spec => []NoEarlyReturn
  <1>1. WaitGroupInv => NoEarlyReturn
    BY DEF Usage, WaitGroupInv, ClearedIsDone, AllDone, NoEarlyReturn, Returned
  <1>2. QED  BY <1>1, WaitGroupInvariance, PTL

\* The WaitGroup implements the join: each of its steps is a call of Done taking
\* effect, a waiter leaving after enough of them, or invisible.
THEOREM WaitGroupImplements == ASSUME Usage PROVE Spec => JoinSpecHolds
  <1>1. Init => Join!JInit
    <2>1. SUFFICES ASSUME Init PROVE Completed = {} /\ Returned = {}
      BY DEF Join!JInit
    <2>2. /\ \A t \in Tasks : pc[t] = "idle"
          /\ \A s \in Strays : pc[s] = "run"
          /\ \A w \in Waiters : pc[w] \in {"add", "start"}
      BY <2>1, Kinds, ClientAssumption DEF Init, Callers
    <2>3. QED  BY <2>2 DEF Completed, Finished, StrayDone, Returned
  <1>2. ASSUME WaitGroupInv, [Next]_vars PROVE [Join!JNext]_(Join!jvars)
    <2> USE DEF Join!jvars
    <2>1. ASSUME MainAdd \/ (\E t \in Tasks : MainSpawn(t))
          PROVE  Completed' = Completed /\ Returned' = Returned
      BY <1>2, <2>1, Kinds, ClientAssumption
      DEF WaitGroupInv, PcOK, Completed, Finished, StrayDone, Returned, Callers,
          MainAdd, MainSpawn, AddFetch, Goto, WaiterPC, CallerPC
    <2>2. ASSUME NEW c \in Callers, Done(c)
          PROVE  Join!Finish(c)
      <3>1. PICK to \in {"clear", "end"} :
               /\ pc' = [pc EXCEPT ![c] = to]
               /\ c \notin Completed /\ Completed' = Completed \union {c}
        BY <1>2, <2>2, DoneStep
      <3>2. Returned' = Returned
        BY <1>2, <3>1, Kinds DEF WaitGroupInv, PcOK, Returned
      <3>3. QED  BY <3>1, <3>2 DEF Join!Finish
    <2>3. ASSUME NEW c \in Callers, ClearLoad(c) \/ ClearCas(c)
          PROVE  Completed' = Completed /\ Returned' = Returned
      <3>1. PICK to \in {"clear", "cas", "end"} :
               pc[c] \in {"clear", "cas"} /\ pc' = [pc EXCEPT ![c] = to]
        BY <2>3 DEF ClearLoad, ClearCas, Goto
      <3>2. QED
        BY <1>2, <3>1, Kinds
        DEF WaitGroupInv, PcOK, Completed, Finished, StrayDone, Returned, Callers
    <2>4. ASSUME NEW w \in Waiters, WaitStep(w)
          PROVE  Join!Return(w) \/ (Completed' = Completed /\ Returned' = Returned)
      <3>1. PICK to \in {"end", "register", "spin"} :
               /\ pc[w] \in {"start", "register", "spin"}
               /\ pc' = [pc EXCEPT ![w] = to]
               /\ UNCHANGED <<taskN, spawned, seen, panicked>>
        BY <2>4 DEF WaitStep, WaitLoad, WaitRegister, WaitSpin, Goto
      <3>2. /\ Completed' = Completed
            /\ \A v \in Waiters : pc'[v] = IF v = w THEN to ELSE pc[v]
        BY <1>2, <3>1, WaitFrame
      <3>3. CASE to = "end"
        <4>1. w \notin Returned /\ Returned' = Returned \union {w}
          BY <3>1, <3>2, <3>3 DEF Returned
        <4>2. WaitGroupInv'  BY <1>2, NextWaitGroupInv
        <4>3. AllDone'
          BY <3>2, <3>3, <4>2 DEF WaitGroupInv, ClearedIsDone, Usage
        <4>4. Cardinality(Completed) >= Cardinality(Tasks)
          BY <3>2, <4>3 DEF AllDone
        <4>5. Completed \in SUBSET (Tasks \union Strays)
          BY <1>2, CompletedIs DEF WaitGroupInv, Callers
        <4>6. Completed \in {D \in SUBSET (Tasks \union Strays) :
                                Cardinality(D) >= Cardinality(Tasks)}
          BY <4>4, <4>5
        <4>7. QED  BY <3>2, <4>1, <4>6 DEF Join!Return
      <3>4. CASE to # "end"
        BY <3>1, <3>2, <3>4 DEF Returned
      <3>5. QED  BY <3>3, <3>4
    <2>5. ASSUME UNCHANGED vars PROVE Completed' = Completed /\ Returned' = Returned
      BY <2>5 DEF vars, Completed, Finished, StrayDone, Returned
    <2>6. QED
      BY <1>2, <2>1, <2>2, <2>3, <2>4, <2>5
      DEF Next, MainStep, TaskStep, Callers, Join!JNext
  <1>3. QED  BY <1>1, <1>2, WaitGroupInvariance, PTL DEF Spec, JoinSpecHolds, Join!JSpec

-----------------------------------------------------------------------------
(* Once: the inductive invariant.                                          *)

\* Threads between Lock and Unlock, a nested call notwithstanding.
Holds(t) == place[t] \in {"check", "f", "fEnd", "store", "unlock"} \/ t \in nested

\* What a thread knows of the flag and of f from where it stands.
Knows(t) ==
    /\ place[t] = "check"  => (done = 0 => action = "new")
    /\ place[t] = "f"      => done = 0 /\ action = "running"
    /\ place[t] # "fEnd"
    /\ place[t] = "store"  => done = 0 /\ action = "finished"
    /\ place[t] = "unlock" => done = 1
    /\ t \in nested     => place[t] \in {"load", "lock"} /\ done = 0 /\ action = "running"

OnceInv ==
    /\ DoTypeOK
    /\ \A t \in Threads : Holds(t) <=> holder = t
    /\ \A t \in Threads : Knows(t)
    /\ done = 1 => action = "finished"
    /\ holder = NoThread /\ done = 0 => action = "new"

LEMMA InitOnceInv == DoInit => OnceInv
  <1> SUFFICES ASSUME DoInit PROVE OnceInv  OBVIOUS
  <1>1. DoTypeOK
    BY DEF DoInit, DoTypeOK, Places
  <1>2. \A t \in Threads : ~Holds(t) /\ holder # t /\ Knows(t)
    BY ThreadAssumption DEF DoInit, Holds, Knows
  <1>3. QED  BY <1>1, <1>2 DEF OnceInv, DoInit

\* A thread that does not own the mutex changes nothing the owner relies on.
LEMMA OutsideStep ==
  ASSUME OnceInv, NEW t \in Threads,
         Call(t) \/ FastPath(t) \/ SlowPath(t)
  PROVE  OnceInv'
  <1> USE ThreadAssumption
  <1>1. t \notin nested \/ SlowPath(t)
    BY DEF OnceInv, Knows, Call, FastPath, SlowPath, Move, Return
  <1>2. nested' = nested
    BY <1>1 DEF Call, FastPath, SlowPath, Return, OnceInv, DoTypeOK
  <1>3. UNCHANGED <<done, holder, action, published, seesF>>
    BY DEF Call, FastPath, SlowPath
  <1>4. PICK to \in {"load", "lock", "out"} : place' = [place EXCEPT ![t] = to]
    BY <1>1 DEF Call, FastPath, SlowPath, Move, Return
  <1>5. place[t] \in {"out", "load"} /\ (t \in nested => to = "lock")
    BY <1>1, <1>4 DEF Call, FastPath, SlowPath, Move, Return, OnceInv, DoTypeOK, Knows
  <1>6. DoTypeOK'
    BY <1>2, <1>3, <1>4 DEF OnceInv, DoTypeOK, Places
  <1>7. \A u \in Threads : (Holds(u) <=> holder = u)' /\ Knows(u)'
    BY <1>2, <1>3, <1>4, <1>5 DEF OnceInv, DoTypeOK, Holds, Knows
  <1>8. QED  BY <1>3, <1>6, <1>7 DEF OnceInv

LEMMA LockStep == ASSUME OnceInv, NEW t \in Threads, Lock(t) PROVE OnceInv'
  <1> USE ThreadAssumption
  <1>1. /\ place[t] = "lock" /\ holder = NoThread /\ holder' = t
        /\ place' = [place EXCEPT ![t] = "check"]
        /\ UNCHANGED <<done, nested, action, published>>
        /\ seesF' \subseteq Threads
    BY DEF Lock, Move, OnceInv, DoTypeOK
  <1>2. \A u \in Threads : ~Holds(u)
    BY <1>1 DEF OnceInv
  <1>3. \A u \in Threads : (Holds(u) <=> holder = u)' /\ Knows(u)'
    BY <1>1, <1>2 DEF OnceInv, DoTypeOK, Holds, Knows
  <1>4. DoTypeOK'
    BY <1>1 DEF OnceInv, DoTypeOK, Places
  <1>5. (done = 1 => action = "finished")' /\ (holder = NoThread /\ done = 0 => action = "new")'
    BY <1>1 DEF OnceInv
  <1>6. QED  BY <1>3, <1>4, <1>5 DEF OnceInv

\* Under the mutex only its owner moves.
LEMMA InsideStep ==
  ASSUME OnceInv, NEW t \in Threads,
         Check(t) \/ CallFromF(t) \/ FReturns(t) \/ Store(t)
  PROVE  OnceInv'
  <1> USE ThreadAssumption
  <1>1. t \notin nested /\ Holds(t) /\ holder = t
    BY DEF OnceInv, Holds, Knows, Check, CallFromF, FReturns, Store, Move
  <1>2. \A u \in Threads \ {t} : ~Holds(u)
    BY <1>1 DEF OnceInv
  <1>3. DoTypeOK' /\ holder' = holder
    BY DEF OnceInv, DoTypeOK, Places, Check, CallFromF, FReturns, Store, Move
  <1>4. \A u \in Threads \ {t} :
           ~Holds(u)' /\ place'[u] = place[u] /\ (u \in nested <=> u \in nested')
    BY <1>2 DEF OnceInv, DoTypeOK, Holds, Check, CallFromF, FReturns, Store, Move
  <1>5. Holds(t)' /\ Knows(t)'
    BY <1>1 DEF OnceInv, DoTypeOK, Holds, Knows, Check, CallFromF, FReturns, Store, Move
  <1>6. \A u \in Threads \ {t} : Knows(u)'
    BY <1>2, <1>4 DEF OnceInv, Knows, Holds
  <1>7. done' = 1 => action' = "finished"
    BY DEF OnceInv, Knows, DoTypeOK, Check, CallFromF, FReturns, Store, Move
  <1>8. QED  BY <1>1, <1>3, <1>4, <1>5, <1>6, <1>7 DEF OnceInv

LEMMA UnlockStep == ASSUME OnceInv, NEW t \in Threads, Unlock(t) PROVE OnceInv'
  <1> USE ThreadAssumption
  <1>1. place[t] = "unlock" /\ t \notin nested /\ holder = t /\ done = 1
    BY DEF Unlock, Return, Move, OnceInv, Knows, Holds
  <1>2. /\ place' = [place EXCEPT ![t] = "out"] /\ nested' = nested
        /\ holder' = NoThread /\ published' \in BOOLEAN
        /\ UNCHANGED <<done, action, seesF>>
    BY <1>1 DEF Unlock, Return, Move
  <1>3. \A u \in Threads \ {t} : ~Holds(u)
    BY <1>1 DEF OnceInv
  <1>4. \A u \in Threads : (Holds(u) <=> holder = u)' /\ Knows(u)'
    BY <1>1, <1>2, <1>3 DEF OnceInv, DoTypeOK, Holds, Knows
  <1>5. QED  BY <1>1, <1>2, <1>4 DEF OnceInv, DoTypeOK, Places

LEMMA NextOnceInv == OnceInv /\ [DoNext]_doVars => OnceInv'
  <1> SUFFICES ASSUME OnceInv, [DoNext]_doVars PROVE OnceInv'  OBVIOUS
  <1>1. CASE UNCHANGED doVars
    BY <1>1 DEF doVars, OnceInv, DoTypeOK, Holds, Knows
  <1>2. ASSUME NEW t \in Threads, Call(t) \/ InDo(t) PROVE OnceInv'
    BY <1>2, OutsideStep, LockStep, InsideStep, UnlockStep DEF InDo
  <1>3. QED  BY <1>1, <1>2 DEF DoNext

-----------------------------------------------------------------------------
\* The mutex has one owner, and the flag is set only after f finished.
THEOREM OnceInvariance == DoSpec => []OnceInv
  BY InitOnceInv, NextOnceInv, PTL DEF DoSpec

\* Once keeps its type.
THEOREM OnceTypeCorrect == DoSpec => []DoTypeOK
  <1>1. OnceInv => DoTypeOK  BY DEF OnceInv
  <1>2. QED  BY <1>1, OnceInvariance, PTL

\* f runs at most once and no Do returns before f has finished (Do and doSlow
\* of once.jule), for any number of threads calling Do any number of times.
THEOREM OnceImplements == DoSpec => OnceSpecHolds
  <1> USE ThreadAssumption
  <1> DEFINE In == {t \in Threads : place[t] # "out"}
  <1>1. DoInit => Contract!OInit
    BY DEF DoInit, Contract!OInit
  <1>2. ASSUME OnceInv, [DoNext]_doVars PROVE [Contract!ONext]_(Contract!ovars)
    <2> USE DEF Contract!ovars
    <2>1. CASE UNCHANGED doVars  BY <2>1 DEF doVars
    <2>2. ASSUME NEW t \in Threads, Call(t)
          PROVE  [Contract!ONext]_(Contract!ovars)
      <3>1. t \notin In /\ In' = In \union {t} /\ action' = action
        BY <1>2, <2>2 DEF Call, Move, OnceInv, DoTypeOK
      <3>2. QED  BY <3>1 DEF Contract!ONext, Contract!OCall
    <2>3. ASSUME NEW t \in Threads, FastPath(t) \/ Unlock(t)
          PROVE  [Contract!ONext]_(Contract!ovars)
      <3>1. done = 1 /\ t \notin nested /\ action = "finished"
        BY <1>2, <2>3 DEF FastPath, Unlock, Return, Move, OnceInv, Knows
      <3>2. t \in In /\ In' = In \ {t} /\ action' = action
        BY <1>2, <2>3, <3>1 DEF FastPath, Unlock, Return, Move, OnceInv, DoTypeOK
      <3>3. QED  BY <3>1, <3>2 DEF Contract!ONext, Contract!OReturn
    <2>4. ASSUME NEW t \in Threads, SlowPath(t) \/ Lock(t) \/ CallFromF(t) \/ Store(t)
          PROVE  [Contract!ONext]_(Contract!ovars)
      <3>1. In' = In /\ action' = action
        BY <1>2, <2>4 DEF SlowPath, Lock, CallFromF, Store, Move, OnceInv, DoTypeOK
      <3>2. QED  BY <3>1
    <2>5. ASSUME NEW t \in Threads, Check(t)
          PROVE  [Contract!ONext]_(Contract!ovars)
      <3>1. t \in In /\ In' = In
        BY <1>2, <2>5 DEF Check, Move, OnceInv, DoTypeOK
      <3>2. \/ action' = action
            \/ action = "new" /\ action' = "running"
        BY <1>2, <2>5 DEF Check, Move, OnceInv, Knows
      <3>3. QED  BY <3>1, <3>2 DEF Contract!ONext, Contract!OStart
    <2>6. ASSUME NEW t \in Threads, FReturns(t)
          PROVE  [Contract!ONext]_(Contract!ovars)
      <3>1. t \in In /\ In' = In
        BY <1>2, <2>6 DEF FReturns, Move, OnceInv, DoTypeOK
      <3>2. action = "running" /\ action' = "finished"
        BY <1>2, <2>6 DEF FReturns, Move, OnceInv, Knows
      <3>3. QED  BY <3>1, <3>2 DEF Contract!ONext, Contract!OFinish
    <2>7. QED
      BY <1>2, <2>1, <2>2, <2>3, <2>4, <2>5, <2>6 DEF DoNext, InDo
  <1>3. QED  BY <1>1, <1>2, OnceInvariance, PTL DEF DoSpec, OnceSpecHolds, Contract!OSpec

\* A Do called from f never gets on, and keeps the mutex for ever: the
\* deadlock that the comment of Do announces.
THEOREM ReentryDeadlocksHolds == DoSpec => ReentryDeadlocks
  <1>1. ASSUME OnceInv, [DoNext]_doVars, nested # {}
        PROVE  nested \subseteq nested' /\ UNCHANGED <<holder, action, done>>
    <2> USE ThreadAssumption
    <2>1. PICK n \in Threads :
             n \in nested /\ holder = n /\ done = 0 /\ place[n] \in {"load", "lock"}
      BY <1>1 DEF OnceInv, DoTypeOK, Holds, Knows
    <2>2. \A u \in Threads : Holds(u) => u = n
      BY <1>1, <2>1 DEF OnceInv
    <2>3. CASE UNCHANGED doVars  BY <2>3 DEF doVars
    <2>4. ASSUME NEW t \in Threads, Call(t) \/ InDo(t)
          PROVE  nested \subseteq nested' /\ UNCHANGED <<holder, action, done>>
      <3>1. Call(t) \/ SlowPath(t)
        BY <2>1, <2>2, <2>4 DEF InDo, FastPath, Lock, Check, CallFromF, FReturns, Store,
           Unlock, Return, Move, Holds
      <3>2. QED  BY <3>1 DEF Call, SlowPath
    <2>5. QED  BY <1>1, <2>3, <2>4 DEF DoNext
  <1>2. QED  BY <1>1, OnceInvariance, PTL DEF DoSpec, ReentryDeadlocks
=============================================================================
