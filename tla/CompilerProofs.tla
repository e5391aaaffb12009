---------------------------- MODULE CompilerProofs -----------------------------
(***************************************************************************)
(* The type checker (TypeOrder), for every number of structures and        *)
(* aliases, every reference between them and every order in which they are *)
(* checked: what it records has no cycle, a rejected package has one, and  *)
(* orderCommon orders the structures as Ordered says.                      *)
(*                                                                         *)
(* The optimiser (DeadDefines), for every program: what is marked is what  *)
(* is needed, and what the sweep leaves.                                   *)
(***************************************************************************)
EXTENDS TypeOrder, DeadDefines, SequenceTheorems, TLAPS

Relations == SUBSET (Decls \X Decls)

-----------------------------------------------------------------------------
(* TypeOrder.  Reachability, in any set of references.                     *)

\* What is reachable in no step.
LEMMA ReachesItself == ASSUME NEW R, NEW x PROVE Reaches(R, x, x)
  BY DEF Reaches

\* One reference more at the end.
LEMMA ReachesNext ==
  ASSUME NEW R, NEW x \in Decls, NEW y \in Decls, NEW z \in Decls,
         Reaches(R, x, y), <<y, z>> \in R
  PROVE  Reaches(R, x, z)
  BY DEF Reaches, ClosedUnder

\* What reaches another declaration does so through one it refers to.
LEMMA ReachesThrough ==
  ASSUME NEW R, NEW x \in Decls, NEW o \in Decls, Reaches(R, x, o), x # o
  PROVE  \E y \in Decls : <<x, y>> \in R /\ Reaches(R, y, o)
  <1> SUFFICES ASSUME \A y \in Decls : <<x, y>> \in R => ~Reaches(R, y, o)
               PROVE  FALSE
    OBVIOUS
  <1> DEFINE T == {x} \union {z \in Decls : ~Reaches(R, z, o)}
  <1>1. T \in SUBSET Decls /\ x \in T
    OBVIOUS
  <1>2. o \notin T
    BY ReachesItself
  <1>3. ASSUME NEW z \in T, NEW y \in Decls, <<z, y>> \in R PROVE y \in T
    <2>1. CASE z = x
      BY <1>3, <2>1
    <2>2. CASE z # x
      <3>1. PICK C \in SUBSET Decls : z \in C /\ ClosedUnder(R, C) /\ o \notin C
        BY <1>3, <2>2 DEF Reaches
      <3>2. y \in C
        BY <1>3, <3>1 DEF ClosedUnder
      <3>3. ~Reaches(R, y, o)
        BY <3>1, <3>2 DEF Reaches
      <3>4. QED  BY <3>3
    <2>3. QED  BY <2>1, <2>2
  <1>4. ClosedUnder(R, T)
    BY <1>3 DEF ClosedUnder
  <1>5. QED
    BY <1>1, <1>2, <1>4 DEF Reaches

-----------------------------------------------------------------------------
(* Recording a reference.                                                  *)

\* Fewer references have no more cycles.
LEMMA AcyclicSubset ==
  ASSUME NEW R, NEW Q, R \subseteq Q, Acyclic(Q) PROVE Acyclic(R)
  BY DEF Acyclic

\* checkIllegalCycles lets pass only references that close no cycle.
LEMMA PassedIsAcyclic ==
  ASSUME NEW R \in Relations, Acyclic(R),
         NEW o \in Decls, NEW d \in Decls, ~Reaches(R, d, o)
  PROVE  Acyclic(R \union {<<o, d>>})
  <1> SUFFICES ASSUME NEW S \in SUBSET Decls, S # {}
               PROVE  \E x \in S : \A y \in S : <<x, y>> \notin R \union {<<o, d>>}
    BY DEF Acyclic
  <1>1. CASE d \notin S
    <2>1. PICK x \in S : \A y \in S : <<x, y>> \notin R
      BY DEF Acyclic
    <2>2. \A y \in S : <<x, y>> # <<o, d>>
      BY <1>1
    <2>3. QED  BY <2>1, <2>2
  <1>2. CASE d \in S
    <2>1. PICK T \in SUBSET Decls : d \in T /\ ClosedUnder(R, T) /\ o \notin T
      BY DEF Reaches
    <2>2. S \intersect T \in SUBSET Decls /\ S \intersect T # {}
      BY <1>2, <2>1
    <2>3. PICK x \in S \intersect T : \A y \in S \intersect T : <<x, y>> \notin R
      BY <2>2 DEF Acyclic
    <2>4. \A y \in S : <<x, y>> \notin R
      BY <2>1, <2>3 DEF ClosedUnder
    <2>5. \A y \in S : <<x, y>> # <<o, d>>
      BY <2>1, <2>3
    <2>6. QED  BY <2>3, <2>4, <2>5
  <1>3. QED  BY <1>1, <1>2

\* The reference at which it reports an error closes one.
LEMMA ReportedIsCycle ==
  ASSUME NEW R \in Relations, NEW o \in Decls, NEW d \in Decls, Reaches(R, d, o)
  PROVE  ~Acyclic(R \union {<<o, d>>})
  <1> DEFINE S == {x \in Decls : Reaches(R, d, x) /\ Reaches(R, x, o)}
  <1>1. S \in SUBSET Decls /\ d \in S /\ o \in S
    BY ReachesItself
  <1>2. ASSUME NEW x \in S PROVE \E y \in S : <<x, y>> \in R \union {<<o, d>>}
    <2>1. CASE x = o
      BY <1>1, <2>1
    <2>2. CASE x # o
      <3>1. PICK y \in Decls : <<x, y>> \in R /\ Reaches(R, y, o)
        BY <1>2, <2>2, ReachesThrough
      <3>2. Reaches(R, d, y)
        BY <1>2, <3>1, ReachesNext
      <3>3. QED  BY <3>1, <3>2
    <2>3. QED  BY <2>1, <2>2
  <1>3. QED
    BY <1>1, <1>2 DEF Acyclic

-----------------------------------------------------------------------------
(* The inductive invariant.                                                *)

Frames == [def : Decls, done : BOOLEAN]

StackOK == stack \in Seq(Frames)
RefsOK == /\ refs \in Relations
          /\ depends \in Relations
          /\ depends \subseteq refs

IInv == StackOK /\ RefsOK /\ DependsAcyclic /\ RejectsOnlyCycles

LEMMA InitIInv == Init => IInv
  <1> SUFFICES ASSUME Init PROVE IInv  OBVIOUS
  <1>1. StackOK /\ RefsOK
    BY DEF Init, StackOK, RefsOK, Relations
  <1>2. DependsAcyclic
    BY DEF Init, DependsAcyclic, Acyclic
  <1>3. RejectsOnlyCycles
    BY DEF Init, RejectsOnlyCycles
  <1>4. QED  BY <1>1, <1>2, <1>3 DEF IInv

\* The declaration under check, and the stack once it has a reference more.
LEMMA OwnerOK ==
  ASSUME StackOK, stack # << >>
  PROVE  Owner \in Decls /\ Consumed \in Seq(Frames)
  <1>1. Len(stack) \in 1 .. Len(stack)
    BY EmptySeq DEF StackOK
  <1>2. stack[Len(stack)] \in Frames
    BY <1>1, ElementOfSeq DEF StackOK
  <1>3. Owner \in Decls
    BY <1>2 DEF Owner, Last, Frames
  <1> DEFINE done == [stack[Len(stack)] EXCEPT !.done = TRUE]
  <1>4. done \in Frames
    BY <1>2 DEF Frames
  <1>5. [stack EXCEPT ![Len(stack)] = done] \in Seq(Frames)
    <2> HIDE DEF done
    <2>1. QED  BY <1>1, <1>4, ExceptSeq DEF StackOK
  <1>6. QED  BY <1>3, <1>5 DEF Consumed, StackOK

LEMMA EnterOK ==
  ASSUME NEW d \in Decls, NEW st \in Seq(Frames), Enter(d, st)
  PROVE  StackOK'
  <1>1. Frame(d) \in Frames
    BY DEF Frame, Frames
  <1>2. Append(st, Frame(d)) \in Seq(Frames)
    BY <1>1, AppendProperties
  <1>3. QED  BY <1>2 DEF Enter, StackOK

LEMMA ReferIInv == ASSUME IInv, NEW d \in Decls, Refer(d) PROVE IInv'
  <1> DEFINE o == Owner
  <1>1. o \in Decls /\ Consumed \in Seq(Frames)
    BY OwnerOK DEF IInv, Refer, Checking
  <1>2. refs' = refs \union {<<o, d>>} /\ refs' \in Relations
    BY <1>1 DEF Refer, IInv, RefsOK, Relations
  <1>3. CASE IllegalCycle(o, d) /\ phase' = "rejected" /\ UNCHANGED <<depends, stack, begun>>
    <2>1. ~Acyclic(depends \union {<<o, d>>})
      BY <1>1, <1>3, ReportedIsCycle DEF IInv, RefsOK, IllegalCycle
    <2>2. depends \union {<<o, d>>} \subseteq refs'
      BY <1>2 DEF IInv, RefsOK
    <2>3. ~Acyclic(refs')
      BY <2>1, <2>2, AcyclicSubset
    <2>4. QED
      BY <1>2, <1>3, <2>3 DEF IInv, StackOK, RefsOK, DependsAcyclic, RejectsOnlyCycles
  <1>4. CASE /\ ~IllegalCycle(o, d)
             /\ depends' = depends \union Recorded(o, d)
             /\ Enter(d, Consumed)
             /\ UNCHANGED phase
    <2>1. Acyclic(depends \union {<<o, d>>})
      BY <1>1, <1>4, PassedIsAcyclic DEF IInv, RefsOK, DependsAcyclic, IllegalCycle
    <2>2. depends' \subseteq depends \union {<<o, d>>}
      BY <1>4 DEF Recorded
    <2>3. DependsAcyclic'
      BY <2>1, <2>2, AcyclicSubset DEF DependsAcyclic
    <2>4. RefsOK'
      BY <1>1, <1>2, <2>2 DEF IInv, RefsOK, Relations
    <2>5. StackOK'
      BY <1>1, <1>4, EnterOK
    <2>6. RejectsOnlyCycles'
      BY <1>4 DEF RejectsOnlyCycles, Refer, Checking
    <2>7. QED  BY <2>3, <2>4, <2>5, <2>6 DEF IInv
  <1>5. QED  BY <1>3, <1>4 DEF Refer

LEMMA NextIInv == IInv /\ [Next]_vars => IInv'
  <1> SUFFICES ASSUME IInv, [Next]_vars PROVE IInv'  OBVIOUS
  <1>1. ASSUME NEW d \in Decls, Root(d) PROVE IInv'
    <2>1. StackOK'
      BY <1>1, EnterOK DEF Root, IInv, StackOK
    <2>2. QED
      BY <1>1, <2>1 DEF Root, IInv, RefsOK, DependsAcyclic, RejectsOnlyCycles
  <1>2. ASSUME NEW d \in Decls, Refer(d) PROVE IInv'
    BY <1>2, ReferIInv
  <1>3. ASSUME NEW d \in Decls, Mention(d) PROVE IInv'
    <2>1. Consumed \in Seq(Frames)
      BY <1>3, OwnerOK DEF IInv, Mention, Checking
    <2>2. StackOK'
      BY <1>3, <2>1, EnterOK DEF Mention
    <2>3. QED
      BY <1>3, <2>2 DEF Mention, IInv, RefsOK, DependsAcyclic, RejectsOnlyCycles
  <1>4. CASE Leave
    <2>1. StackOK'
      <3>1. stack \in Seq(Frames) /\ stack # << >> /\ Len(stack) \in Nat
        BY <1>4, LenProperties DEF Leave, IInv, StackOK
      <3>2. \A i \in 1 .. Len(stack) - 1 : stack[i] \in Frames
        BY <3>1, ElementOfSeq
      <3>3. SubSeq(stack, 1, Len(stack) - 1) \in Seq(Frames)
        BY <3>1, <3>2, SubSeqProperties
      <3>4. QED  BY <1>4, <3>3 DEF Leave, Front, StackOK
    <2>2. QED
      BY <1>4, <2>1 DEF Leave, IInv, RefsOK, DependsAcyclic, RejectsOnlyCycles
  <1>5. CASE StartOrder \/ OrderStep \/ OrderPass
    <2>1. UNCHANGED <<refs, depends, stack>> /\ phase' # "rejected"
      BY <1>5 DEF StartOrder, OrderStep, OrderPass
    <2>2. QED
      BY <2>1 DEF IInv, StackOK, RefsOK, DependsAcyclic, RejectsOnlyCycles
  <1>6. CASE UNCHANGED vars
    BY <1>6 DEF vars, IInv, StackOK, RefsOK, DependsAcyclic, RejectsOnlyCycles
  <1>7. QED
    BY <1>1, <1>2, <1>3, <1>4, <1>5, <1>6 DEF Next

\* The invariant of the walk: recorded references are references of the
\* package, they have no cycle, and a rejected package has one.
THEOREM Invariance == Spec => []IInv
  <1>1. QED  BY InitIInv, NextIInv, PTL DEF Spec

\* Whatever refers to what and in whatever order, Struct.Depends and
\* TypeAlias.Refers have no cycle, so that checkCrossCycle terminates.
THEOREM DependsAcyclicHolds == Spec => []DependsAcyclic
  <1>1. IInv => DependsAcyclic  BY DEF IInv
  <1>2. QED  BY <1>1, Invariance, PTL

\* checkIllegalCycles reports no cycle in a package that has none.
THEOREM RejectsOnlyCyclesHolds == Spec => []RejectsOnlyCycles
  <1>1. IInv => RejectsOnlyCycles  BY DEF IInv
  <1>2. QED  BY <1>1, Invariance, PTL

-----------------------------------------------------------------------------
(* Ordering.  A pass of orderCommon carries the first structure that has a *)
(* dependency in the list to the end of what is not ordered yet, and keeps *)
(* the order of all others.                                                *)

M == Len(ord.kept)

\* The structure has a dependency in the list.
Dep(d) == \E e \in ToSet(ord.kept) : <<d, e>> \in depends

\* The fields of a list in work.
OrdRecords == [kept : Seq(Structures), s : Seq(Structures), n : Nat, k : Nat, swapped : BOOLEAN]

LEMMA OrdRecord ==
  ASSUME NEW r, NEW c \in Seq(Structures), NEW s \in Seq(Structures), NEW n \in Nat, NEW k \in Nat,
         NEW b \in BOOLEAN, r = [kept |-> c, s |-> s, n |-> n, k |-> k, swapped |-> b]
  PROVE  r \in OrdRecords
  BY DEF OrdRecords

OrdTypeOK ==
    /\ ord \in OrdRecords
    /\ Len(ord.s) = M /\ M > 0
    /\ ToSet(ord.s) = ToSet(ord.kept)
    /\ ord.n + 1 <= M /\ 1 <= ord.k /\ ord.k <= ord.n + 1

\* What lies behind has its place: it depends on something, and is smaller than
\* all in front of it that do.
TailOK ==
    \A i \in 1 .. M : ord.n + 2 <= i =>
        /\ Dep(ord.s[i])
        /\ \A j \in 1 .. M : j < i /\ Dep(ord.s[j]) => ord.s[i] < ord.s[j]

\* The rest is in the order of declaration, but for the structure carried.
HeadOK ==
    \A i \in 1 .. M, j \in 1 .. M :
        i < j /\ j <= ord.n + 1 /\ (ord.swapped => ord.k # i /\ ord.k # j) => ord.s[i] < ord.s[j]

\* What is carried is the first to depend on something; before there is
\* one, nothing passed does.
CarryOK ==
    /\ ord.swapped => /\ ord.k > 1
                      /\ Dep(ord.s[ord.k])
                      /\ \A i \in 1 .. M : i <= ord.n + 1 /\ i # ord.k /\ Dep(ord.s[i])
                                              => ord.s[ord.k] < ord.s[i]
    /\ ~ord.swapped => \A i \in 1 .. M : i < ord.k => ~Dep(ord.s[i])

DoneOK == phase = "done" => ord.k = ord.n + 1 /\ ~ord.swapped

OInv == phase \in {"order", "done"} => OrdTypeOK /\ TailOK /\ HeadOK /\ CarryOK /\ DoneOK

\* isCommonOrdered looks for a dependency in the list as it is now.
LEMMA CommonOrdered ==
  ASSUME OrdTypeOK, NEW d PROVE IsCommonOrdered(ord.s, d) <=> ~Dep(d)
  BY DEF OrdTypeOK, IsCommonOrdered, Dep, OrdRecords

\* What the list holds, position by position.
LEMMA Places ==
  ASSUME OrdTypeOK
  PROVE  /\ M \in Nat
         /\ DOMAIN ord.s = 1 .. M
         /\ \A i \in 1 .. M : ord.s[i] \in Int
  <1>1. ord.s \in Seq(Structures) /\ M \in Nat /\ Len(ord.s) = M
    BY LenProperties DEF OrdTypeOK, M, OrdRecords
  <1>2. DOMAIN ord.s = 1 .. M /\ \A i \in 1 .. M : ord.s[i] \in Structures
    BY <1>1
  <1>3. QED  BY <1>1, <1>2 DEF Structures

LEMMA StartOInv == ASSUME StartOrder PROVE OInv'
  <1>1. PICK s \in Lists :
           ord' = [kept |-> s, s |-> s, n |-> Len(s) - 1, k |-> 1, swapped |-> FALSE]
    BY DEF StartOrder
  <1>2. PICK m \in Structures : s \in [1 .. m -> Structures]
    BY DEF Lists
  <1>3. s \in Seq(Structures) /\ Len(s) = m /\ m \in Nat \ {0}
    <2>1. m \in Nat \ {0}
      BY ConstantAssumption DEF Structures
    <2>2. s \in Seq(Structures)
      BY <1>2, <2>1, IsASeq
    <2>3. QED  BY <1>2, <2>1, <2>2, LenProperties
  <1>4. \A i \in 1 .. m, j \in 1 .. m : i < j => s[i] < s[j]
    BY <1>2 DEF Lists
  <1>5. OrdTypeOK' /\ M' = m
    BY <1>1, <1>3 DEF OrdTypeOK, M, OrdRecords
  <1>6. TailOK' /\ HeadOK' /\ CarryOK'
    BY <1>1, <1>3, <1>4, <1>5 DEF TailOK, HeadOK, CarryOK
  <1>7. phase' = "order"
    BY DEF StartOrder
  <1>8. QED  BY <1>5, <1>6, <1>7 DEF OInv, DoneOK

\* Swapping loses nothing.
LEMMA SwappedKeeps ==
  ASSUME NEW s \in Seq(Structures), NEW k \in Nat, 1 <= k, k + 1 <= Len(s)
  PROVE  /\ Swapped(s, k) \in Seq(Structures) /\ Len(Swapped(s, k)) = Len(s)
         /\ \A i \in 1 .. Len(s) :
               Swapped(s, k)[i] = IF i = k THEN s[k + 1] ELSE IF i = k + 1 THEN s[k] ELSE s[i]
         /\ ToSet(Swapped(s, k)) = ToSet(s)
  <1> DEFINE w == Swapped(s, k)
  <1>1. Len(s) \in Nat /\ DOMAIN s = 1 .. Len(s) /\ \A i \in 1 .. Len(s) : s[i] \in Structures
    BY LenProperties, ElementOfSeq
  <1>2. DOMAIN w = 1 .. Len(s)
    BY <1>1 DEF Swapped
  <1>3. \A i \in 1 .. Len(s) : w[i] = IF i = k THEN s[k + 1] ELSE IF i = k + 1 THEN s[k] ELSE s[i]
    BY <1>1 DEF Swapped
  <1>4. w \in [1 .. Len(s) -> Structures]
    BY <1>1 DEF Swapped
  <1> HIDE DEF w
  <1>5. w \in Seq(Structures) /\ Len(w) = Len(s)
    BY <1>1, <1>4
  <1>6. ToSet(w) = ToSet(s)
    <2>1. \A i \in 1 .. Len(s) : \E j \in 1 .. Len(s) : w[i] = s[j]
      BY <1>1, <1>3
    <2>2. \A i \in 1 .. Len(s) : \E j \in 1 .. Len(s) : s[i] = w[j]
      <3>1. SUFFICES ASSUME NEW i \in 1 .. Len(s) PROVE \E j \in 1 .. Len(s) : s[i] = w[j]
        OBVIOUS
      <3>2. CASE i = k
        BY <1>1, <1>3, <3>2
      <3>3. CASE i = k + 1
        BY <1>1, <1>3, <3>3
      <3>4. CASE i # k /\ i # k + 1
        BY <1>1, <1>3, <3>4
      <3>5. QED  BY <3>2, <3>3, <3>4
    <2>3. ToSet(w) = {w[i] : i \in 1 .. Len(s)} /\ ToSet(s) = {s[i] : i \in 1 .. Len(s)}
      BY <1>1, <1>2 DEF ToSet
    <2>4. QED  BY <2>1, <2>2, <2>3
  <1>7. QED  BY <1>3, <1>5, <1>6 DEF w

LEMMA StepOInv == ASSUME OInv, OrderStep PROVE OInv'
  <1>1. /\ phase = "order" /\ phase' = "order" /\ depends' = depends
        /\ OrdTypeOK /\ TailOK /\ HeadOK /\ CarryOK /\ ord.k <= ord.n
    BY DEF OInv, OrderStep
  <1>2. /\ ord.n \in Nat /\ ord.k \in Nat /\ M \in Nat /\ ord.swapped \in BOOLEAN
        /\ \A i \in 1 .. M : ord.s[i] \in Int
        /\ ord.k \in 1 .. M /\ ord.k + 1 \in 1 .. M
    BY <1>1, Places DEF OrdTypeOK, OrdRecords
  <1>3. CASE IsCommonOrdered(ord.s, ord.s[ord.k])
    <2>1. ~Dep(ord.s[ord.k])
      BY <1>1, <1>3, CommonOrdered
    <2>2. ord' = [ord EXCEPT !.k = @ + 1]
      BY <1>3 DEF OrderStep
    <2>3. /\ ord'.kept = ord.kept /\ ord'.s = ord.s /\ ord'.n = ord.n
          /\ ord'.k = ord.k + 1 /\ ord'.swapped = ord.swapped /\ ~ord.swapped
      BY <1>1, <2>1, <2>2 DEF OrdTypeOK, CarryOK, OrdRecords
    <2>4. M' = M /\ \A d : Dep(d)' <=> Dep(d)
      BY <1>1, <2>3 DEF M, Dep
    <2>5. OrdTypeOK'
      BY <1>1, <1>2, <2>2, <2>3, <2>4 DEF OrdTypeOK, OrdRecords
    <2>6. TailOK'
      BY <1>1, <2>3, <2>4 DEF TailOK
    <2>7. HeadOK'
      BY <1>1, <2>3, <2>4 DEF HeadOK
    <2>8. CarryOK'
      BY <1>1, <1>2, <2>1, <2>3, <2>4 DEF CarryOK
    <2>9. QED  BY <1>1, <2>5, <2>6, <2>7, <2>8 DEF OInv, DoneOK
  <1>4. CASE ~IsCommonOrdered(ord.s, ord.s[ord.k])
    <2> DEFINE k == ord.k
    <2>1. Dep(ord.s[k])
      BY <1>1, <1>4, CommonOrdered
    <2>2. ord' = [ord EXCEPT !.s = Swapped(@, k), !.k = @ + 1, !.swapped = TRUE]
      BY <1>4 DEF OrderStep
    <2>3. /\ ord'.kept = ord.kept /\ ord'.s = Swapped(ord.s, k) /\ ord'.n = ord.n
          /\ ord'.k = k + 1 /\ ord'.swapped = TRUE
      BY <1>1, <2>2 DEF OrdTypeOK, OrdRecords
    <2>4. M' = M /\ \A d : Dep(d)' <=> Dep(d)
      BY <1>1, <2>3 DEF M, Dep
    <2>5. /\ ord'.s \in Seq(Structures) /\ Len(ord'.s) = M /\ ToSet(ord'.s) = ToSet(ord.s)
          /\ \A i \in 1 .. M : ord'.s[i] = IF i = k THEN ord.s[k + 1]
                                           ELSE IF i = k + 1 THEN ord.s[k] ELSE ord.s[i]
      <3>1. /\ ord.s \in Seq(Structures) /\ Len(ord.s) = M
            /\ k \in Nat /\ 1 <= k /\ k + 1 <= Len(ord.s)
        BY <1>1, <1>2 DEF OrdTypeOK, OrdRecords
      <3>2. QED  BY <2>3, <3>1, SwappedKeeps
    <2>12. /\ k \in Nat /\ ord.n \in Nat /\ M \in Nat /\ 1 <= k
           /\ k + 1 <= ord.n + 1 /\ ord.n + 1 <= M
      BY <1>1, <1>2 DEF OrdTypeOK
    <2>6. OrdTypeOK'
      <3>1. ord' = [kept |-> ord.kept, s |-> ord'.s, n |-> ord.n, k |-> k + 1, swapped |-> TRUE]
        BY <1>1, <2>2, <2>3 DEF OrdTypeOK, OrdRecords
      <3>2. ord.kept \in Seq(Structures) /\ k + 1 \in Nat
        BY <1>1, <1>2 DEF OrdTypeOK, OrdRecords
      <3>3. ord' \in OrdRecords
        BY <1>2, <2>5, <3>1, <3>2, OrdRecord
      <3>4. QED  BY <1>1, <1>2, <2>3, <2>4, <2>5, <3>3 DEF OrdTypeOK, OrdRecords
    <2>7. \A i \in 1 .. M : i <= ord.n + 1 /\ i # k /\ Dep(ord.s[i]) => ord.s[k] < ord.s[i]
      BY <1>1, <1>2, <2>1 DEF CarryOK, HeadOK
    <2>8. TailOK'
      <3>1. SUFFICES ASSUME NEW i \in 1 .. M, ord.n + 2 <= i
                     PROVE  /\ Dep(ord'.s[i])
                            /\ \A j \in 1 .. M : j < i /\ Dep(ord'.s[j]) => ord'.s[i] < ord'.s[j]
        BY <2>3, <2>4 DEF TailOK
      <3>5. k \in 1 .. M /\ k + 1 \in 1 .. M /\ k < i /\ k + 1 < i /\ i # k /\ i # k + 1
        BY <2>12, <3>1
      <3>2. ord'.s[i] = ord.s[i]
        BY <2>5, <3>5
      <3>3. ASSUME NEW j \in 1 .. M, j < i, Dep(ord'.s[j]) PROVE ord'.s[i] < ord'.s[j]
        <4>1. \E l \in 1 .. M : l < i /\ ord.s[l] = ord'.s[j]
          <5>1. CASE j = k
            BY <2>5, <3>5, <5>1
          <5>2. CASE j = k + 1
            BY <2>5, <3>5, <5>2
          <5>3. CASE j # k /\ j # k + 1
            BY <2>5, <3>3, <5>3
          <5>4. QED  BY <5>1, <5>2, <5>3
        <4>2. QED  BY <1>1, <3>1, <3>2, <3>3, <4>1 DEF TailOK
      <3>4. QED  BY <1>1, <3>1, <3>2, <3>3 DEF TailOK
    <2>9. HeadOK'
      <3>1. SUFFICES ASSUME NEW i \in 1 .. M, NEW j \in 1 .. M,
                            i < j, j <= ord.n + 1, k + 1 # i, k + 1 # j
                     PROVE  ord'.s[i] < ord'.s[j]
        BY <2>3, <2>4 DEF HeadOK
      <3> DEFINE old(x) == IF x = k THEN k + 1 ELSE x
      <3>2. ord'.s[i] = ord.s[old(i)] /\ ord'.s[j] = ord.s[old(j)]
        BY <2>5, <3>1
      <3>3. old(i) \in 1 .. M /\ old(j) \in 1 .. M /\ old(i) < old(j) /\ old(j) <= ord.n + 1
            /\ old(i) # k /\ old(j) # k
        BY <1>1, <1>2, <3>1
      <3> HIDE DEF old
      <3>4. QED  BY <1>1, <3>2, <3>3 DEF HeadOK
    <2>10. CarryOK'
      <3>1. Dep(ord'.s[k + 1]) /\ ord'.s[k + 1] = ord.s[k]
        BY <1>2, <2>1, <2>5
      <3>2. ASSUME NEW i \in 1 .. M, i <= ord.n + 1, i # k + 1, Dep(ord'.s[i])
            PROVE  ord.s[k] < ord'.s[i]
        <4>1. \E l \in 1 .. M : l <= ord.n + 1 /\ l # k /\ ord'.s[i] = ord.s[l]
          <5>1. CASE i = k
            BY <2>5, <2>12, <5>1
          <5>2. CASE i # k
            BY <2>5, <3>2, <5>2
          <5>3. QED  BY <5>1, <5>2
        <4>2. QED  BY <2>7, <3>2, <4>1
      <3>3. k + 1 > 1
        BY <1>1, <1>2 DEF OrdTypeOK
      <3>4. QED  BY <2>3, <2>4, <3>1, <3>2, <3>3 DEF CarryOK
    <2>11. QED  BY <1>1, <2>6, <2>8, <2>9, <2>10 DEF OInv, DoneOK
  <1>5. QED  BY <1>3, <1>4

LEMMA PassOInv == ASSUME OInv, OrderPass PROVE OInv'
  <1>1. /\ phase = "order" /\ depends' = depends
        /\ OrdTypeOK /\ TailOK /\ HeadOK /\ CarryOK /\ ord.k > ord.n
    BY DEF OInv, OrderPass
  <1>2. /\ ord.n \in Nat /\ ord.k = ord.n + 1 /\ M \in Nat /\ ord.swapped \in BOOLEAN
        /\ \A i \in 1 .. M : ord.s[i] \in Int
    BY <1>1, Places DEF OrdTypeOK, OrdRecords
  <1>3. CASE ord.swapped /\ ord.n > 0
    <2>1. ord' = [ord EXCEPT !.n = @ - 1, !.k = 1, !.swapped = FALSE] /\ phase' = "order"
      BY <1>1, <1>3 DEF OrderPass
    <2>2. /\ ord'.kept = ord.kept /\ ord'.s = ord.s /\ ord'.n = ord.n - 1
          /\ ord'.k = 1 /\ ord'.swapped = FALSE
      BY <1>1, <2>1 DEF OrdTypeOK, OrdRecords
    <2>3. M' = M /\ \A d : Dep(d)' <=> Dep(d)
      BY <1>1, <2>2 DEF M, Dep
    <2>4. OrdTypeOK'
      <3>1. ord' = [kept |-> ord.kept, s |-> ord.s, n |-> ord.n - 1, k |-> 1, swapped |-> FALSE]
        BY <1>1, <2>1 DEF OrdTypeOK, OrdRecords
      <3>2. ord.kept \in Seq(Structures) /\ ord.s \in Seq(Structures) /\ ord.n - 1 \in Nat
        BY <1>1, <1>2, <1>3 DEF OrdTypeOK, OrdRecords
      <3>3. ord' \in OrdRecords
        BY <3>1, <3>2, OrdRecord
      <3>4. QED  BY <1>1, <1>2, <1>3, <2>2, <2>3, <3>3 DEF OrdTypeOK, OrdRecords
    <2>5. TailOK'
      BY <1>1, <1>2, <1>3, <2>2, <2>3 DEF TailOK, CarryOK
    <2>6. HeadOK'
      BY <1>1, <1>2, <1>3, <2>2, <2>3 DEF HeadOK
    <2>7. CarryOK'
      BY <2>2, <2>3 DEF CarryOK
    <2>8. QED  BY <2>1, <2>4, <2>5, <2>6, <2>7 DEF OInv, DoneOK
  <1>4. CASE ~(ord.swapped /\ ord.n > 0)
    <2>1. phase' = "done" /\ ord' = ord
      BY <1>1, <1>4 DEF OrderPass
    <2>2. ~ord.swapped
      <3>1. ord.swapped => ord.n > 0
        BY <1>1, <1>2 DEF CarryOK
      <3>2. QED  BY <1>4, <3>1
    <2>3. QED
      BY <1>1, <1>2, <2>1, <2>2 DEF OInv, DoneOK, OrdTypeOK, TailOK, HeadOK, CarryOK, M, Dep, OrdRecords
  <1>5. QED  BY <1>3, <1>4

LEMMA OrderInvariance == Spec => []OInv
  <1>1. Init => OInv
    BY DEF Init, OInv
  <1>2. OInv /\ [Next]_vars => OInv'
    <2>1. SUFFICES ASSUME OInv, [Next]_vars PROVE OInv'
      OBVIOUS
    <2>2. CASE UNCHANGED vars
      BY <2>1, <2>2 DEF vars, OInv, DoneOK, OrdTypeOK, TailOK, HeadOK, CarryOK, M, Dep, OrdRecords
    <2>3. CASE (\E d \in Decls : Root(d) \/ Refer(d) \/ Mention(d)) \/ Leave
      <3>1. phase' \in {"check", "rejected"}
        BY <2>3 DEF Root, Refer, Mention, Leave, Checking
      <3>2. QED  BY <3>1 DEF OInv
    <2>4. QED  BY <2>1, <2>2, <2>3, StartOInv, StepOInv, PassOInv DEF Next
  <1>3. QED  BY <1>1, <1>2, PTL DEF Spec

\* For every package, orderCommon emits every structure once, first those that
\* depend on no other one of the list, in their order, then the rest in reverse;
\* this puts dependencies first if no structure with a dependency is itself one.
THEOREM OrderedHolds == Spec => []Ordered
  <1>1. OInv => Ordered
    <2>1. SUFFICES ASSUME OInv, phase = "done" PROVE Ordered
      BY DEF Ordered, OrderedAs, ShallowOrdered
    <2>2. OrdTypeOK /\ TailOK /\ HeadOK /\ CarryOK /\ ~ord.swapped /\ ord.k = ord.n + 1
      BY <2>1 DEF OInv, DoneOK
    <2>3. /\ DOMAIN ord.s = 1 .. M /\ M \in Nat /\ ord.n \in Nat
          /\ \A i \in 1 .. M : ord.s[i] \in Int
      BY <2>2, Places DEF OrdTypeOK, OrdRecords
    <2>4. ASSUME NEW i \in 1 .. M, NEW j \in 1 .. M, i < j
          PROVE  IF ~Dep(ord.s[i]) THEN ~Dep(ord.s[j]) => ord.s[i] < ord.s[j]
                 ELSE Dep(ord.s[j]) /\ ord.s[i] > ord.s[j]
      <3>1. CASE Dep(ord.s[i])
        <4>1. ord.n + 2 <= j
          <5>1. ~(i < ord.k)
            BY <2>2, <3>1 DEF CarryOK
          <5>2. QED  BY <2>2, <2>3, <2>4, <5>1
        <4>2. QED  BY <2>2, <2>3, <2>4, <3>1, <4>1 DEF TailOK
      <3>2. CASE ~Dep(ord.s[i]) /\ ~Dep(ord.s[j])
        <4>1. j <= ord.n + 1
          BY <2>2, <2>3, <2>4, <3>2 DEF TailOK
        <4>2. QED  BY <2>2, <2>4, <3>2, <4>1 DEF HeadOK
      <3>3. QED  BY <3>1, <3>2
    <2>5. OrderedAs
      BY <2>2, <2>3, <2>4, CommonOrdered DEF OrderedAs, OrdTypeOK, M, OrdRecords
    <2>6. ShallowOrdered
      <3>1. SUFFICES ASSUME \A d, e, f \in ToSet(ord.s) : ~(<<d, e>> \in depends /\ <<e, f>> \in depends),
                            NEW i \in 1 .. M, NEW j \in 1 .. M, i < j,
                            <<ord.s[i], ord.s[j]>> \in depends
                     PROVE  FALSE
        BY <2>3 DEF ShallowOrdered
      <3>2. ord.s[i] \in ToSet(ord.s) /\ ord.s[j] \in ToSet(ord.s)
        BY <2>3 DEF ToSet
      <3>3. Dep(ord.s[i])
        BY <2>2, <3>1, <3>2 DEF Dep, OrdTypeOK, OrdRecords
      <3>4. Dep(ord.s[j])
        BY <2>4, <3>1, <3>3
      <3>5. PICK f \in ToSet(ord.s) : <<ord.s[j], f>> \in depends
        BY <2>2, <3>4 DEF Dep, OrdTypeOK, OrdRecords
      <3>6. QED  BY <3>1, <3>2, <3>5
    <2>7. QED  BY <2>5, <2>6 DEF Ordered
  <1>2. QED  BY <1>1, OrderInvariance, PTL

-----------------------------------------------------------------------------
(* DeadDefines.  Sequences of tasks as sets.                               *)

DefsOf(Q) == {q.def : q \in Q}

\* An item is listed.
LEMMA ListsItem ==
    ASSUME NEW a \in Seq(Task), NEW i \in 1 .. Len(a)
    PROVE  a[i] \in ToSet(a)
BY DEF ToSet

\* What a concatenation lists.
LEMMA ListsBoth ==
    ASSUME NEW a \in Seq(Task), NEW b \in Seq(Task)
    PROVE  a \o b \in Seq(Task) /\ ToSet(a \o b) = ToSet(a) \union ToSet(b)
<1>1. a \o b \in Seq(Task) /\ Len(a \o b) = Len(a) + Len(b)
    OBVIOUS
<1>2. \A i \in 1 .. Len(a) : (a \o b)[i] = a[i]
    OBVIOUS
<1>3. \A i \in 1 .. Len(b) : (a \o b)[Len(a) + i] = b[i]
    OBVIOUS
<1>4. ToSet(a \o b) \subseteq ToSet(a) \union ToSet(b)
  <2>1. SUFFICES ASSUME NEW i \in 1 .. Len(a \o b)
                 PROVE  (a \o b)[i] \in ToSet(a) \union ToSet(b)
      BY <1>1 DEF ToSet
  <2>2. CASE i <= Len(a)
      BY <1>2, <2>2 DEF ToSet
  <2>3. CASE i > Len(a)
    <3>1. i - Len(a) \in 1 .. Len(b) /\ i = Len(a) + (i - Len(a))
        BY <1>1, <2>3
    <3>2. QED
        BY <1>3, <3>1 DEF ToSet
  <2>4. QED
      BY <2>2, <2>3
<1>5. ToSet(a) \subseteq ToSet(a \o b)
    BY <1>1, <1>2 DEF ToSet
<1>6. ToSet(b) \subseteq ToSet(a \o b)
  <2>1. SUFFICES ASSUME NEW i \in 1 .. Len(b)
                 PROVE  b[i] \in ToSet(a \o b)
      BY SMTT(20) DEF ToSet
  <2>2. Len(a) + i \in 1 .. Len(a \o b)
      BY <1>1
  <2>3. QED
      BY <1>1, <1>3, <2>2 DEF ToSet
<1>7. QED
    BY <1>1, <1>4, <1>5, <1>6

\* The first task and the others.
LEMMA ListsHead ==
    ASSUME NEW a \in Seq(Task), a # << >>
    PROVE  /\ Head(a) \in Task /\ Tail(a) \in Seq(Task)
           /\ ToSet(a) = {Head(a)} \union ToSet(Tail(a))
<1>1. /\ Head(a) \in Task /\ Tail(a) \in Seq(Task)
      /\ Head(a) = a[1] /\ Len(Tail(a)) = Len(a) - 1 /\ Len(a) >= 1
    OBVIOUS
<1>2. \A i \in 1 .. Len(Tail(a)) : Tail(a)[i] = a[i + 1]
    OBVIOUS
<1>3. ToSet(a) \subseteq {Head(a)} \union ToSet(Tail(a))
  <2>1. SUFFICES ASSUME NEW i \in 1 .. Len(a)
                 PROVE  a[i] \in {Head(a)} \union ToSet(Tail(a))
      BY DEF ToSet
  <2>2. CASE i = 1
    <3>1. a[i] = Head(a)
        BY <1>1, <2>2
    <3>2. QED
        BY <3>1
  <2>3. CASE i > 1
    <3>1. i - 1 \in 1 .. Len(Tail(a)) /\ i = (i - 1) + 1
        BY <1>1, <2>3
    <3>2. a[i] = Tail(a)[i - 1]
        BY <1>2, <3>1
    <3>3. Tail(a)[i - 1] \in ToSet(Tail(a))
        BY <1>1, <3>1, ListsItem
    <3>4. QED
        BY <3>2, <3>3
  <2>4. QED
      BY <2>2, <2>3
<1>4. {Head(a)} \union ToSet(Tail(a)) \subseteq ToSet(a)
  <2>1. Head(a) \in ToSet(a)
      BY <1>1 DEF ToSet
  <2>2. SUFFICES ASSUME NEW i \in 1 .. Len(Tail(a))
                 PROVE  Tail(a)[i] \in ToSet(a)
      BY <1>1, <2>1 DEF ToSet
  <2>3. i + 1 \in 1 .. Len(a)
      BY <1>1
  <2>4. QED
      BY <1>2, <2>3 DEF ToSet
<1>5. QED
    BY <1>1, <1>3, <1>4

\* One task for each definition.
LEMMA ListsTasks ==
    ASSUME NEW kind \in {"ref", "method", "mark"}, NEW ds \in Seq(Defs)
    PROVE  /\ Tasks(kind, ds) \in Seq(Task)
           /\ ToSet(Tasks(kind, ds)) = {[task |-> kind, def |-> d] : d \in ToSet(ds)}
           /\ DefsOf(ToSet(Tasks(kind, ds))) = ToSet(ds)
<1>1. DOMAIN ds = 1 .. Len(ds) /\ Len(ds) \in Nat /\ \A i \in 1 .. Len(ds) : ds[i] \in Defs
    OBVIOUS
<1>2. Tasks(kind, ds) \in [1 .. Len(ds) -> Task]
    BY <1>1 DEF Tasks, Task
<1>3. Tasks(kind, ds) \in Seq(Task)
    BY <1>1, <1>2
<1>4. ToSet(Tasks(kind, ds)) = {[task |-> kind, def |-> d] : d \in ToSet(ds)}
    BY <1>1 DEF Tasks, ToSet
<1>5. DefsOf(ToSet(Tasks(kind, ds))) = ToSet(ds)
  <2>1. \A d : [task |-> kind, def |-> d].def = d
      OBVIOUS
  <2>2. DefsOf({[task |-> kind, def |-> d] : d \in ToSet(ds)}) \subseteq ToSet(ds)
      BY <2>1 DEF DefsOf
  <2>3. ASSUME NEW d \in ToSet(ds)
        PROVE  d \in DefsOf({[task |-> kind, def |-> e] : e \in ToSet(ds)})
    <3>1. [task |-> kind, def |-> d] \in {[task |-> kind, def |-> e] : e \in ToSet(ds)}
        OBVIOUS
    <3>2. [task |-> kind, def |-> d].def \in DefsOf({[task |-> kind, def |-> e] : e \in ToSet(ds)})
        BY <3>1 DEF DefsOf
    <3>3. QED
        BY <2>1, <3>2
  <2>4. QED
      BY <1>4, <2>2, <2>3
<1>6. QED
    BY <1>3, <1>4, <1>5

\* A ReferenceStack holds definitions.
LEMMA StacksTyped ==
    ASSUME NEW d \in Defs
    PROVE  ReferenceStacks(d) \subseteq Seq(Defs)
<1>1. SUFFICES ASSUME NEW rs \in ReferenceStacks(d) PROVE rs \in Seq(Defs)
    OBVIOUS
<1>2. PICK n \in 0 .. MaxRefs[d] : rs \in [1 .. n -> MayRefer[d]]
    BY DEF ReferenceStacks, BoundedSeq, SeqOf
<1>3. n \in Nat /\ MayRefer[d] \subseteq Defs
    BY <1>2, ProgramAssumption
<1>4. rs \in [1 .. n -> Defs]
    BY <1>2, <1>3
<1>5. QED
    BY <1>3, <1>4

-----------------------------------------------------------------------------
(* Marking.                                                                *)

\* What is marked or will be.
Listed(a) == DefsOf(ToSet(a))
Have == live \union Listed(agenda)

Unread == \A d \in Defs \ live : refers[d] = << >>

\* What a live definition needs is live or listed.
Pending ==
    /\ ToSet(Roots) \subseteq Have
    /\ \A d \in live : ToSet(refers[d]) \subseteq Have
    /\ \A g \in live \intersect Fns : Receiver[g] \in live \union {None}
    /\ \A t \in live \intersect Traits : ToSet(MethodsOf[t]) \subseteq Have
    /\ \A s \in (live \intersect Structs) \ byMethod : ToSet(MethodsOf[s]) \subseteq Have

\* What is marked without a look at its receiver needs none.
Callable(q, L) == q.task # "ref" => q.def \in Fns /\ Receiver[q.def] \in L \union {None}
Marked == \A q \in ToSet(agenda) : Callable(q, live)

\* Nothing is listed in vain.
Needed == \A S \in SUBSET Defs : Closed(S) => Have \subseteq S

MInv == DeadTypeOK /\ Unread /\ Pending /\ Marked /\ Needed

\* Every definition that is listed is one of the program.
LEMMA ListedTyped ==
    ASSUME NEW a \in Seq(Task)
    PROVE  ToSet(a) \subseteq Task /\ Listed(a) \subseteq Defs
<1>1. ToSet(a) \subseteq Task
    BY DEF ToSet
<1>2. \A q \in Task : q.def \in Defs
    BY DEF Task
<1>3. QED
    BY <1>1, <1>2 DEF Listed, DefsOf

\* The definition at hand, and the rest of the list.
LEMMA ListedHead ==
    ASSUME NEW a \in Seq(Task), a # << >>
    PROVE  /\ Head(a) \in Task /\ Tail(a) \in Seq(Task)
           /\ ToSet(a) = {Head(a)} \union ToSet(Tail(a))
           /\ Listed(a) = {Head(a).def} \union Listed(Tail(a))
<1>1. /\ Head(a) \in Task /\ Tail(a) \in Seq(Task)
      /\ ToSet(a) = {Head(a)} \union ToSet(Tail(a))
    BY ListsHead
<1>2. QED
    BY <1>1 DEF Listed, DefsOf

\* A concatenation lists what its parts do.
LEMMA ListedBoth ==
    ASSUME NEW a \in Seq(Task), NEW b \in Seq(Task)
    PROVE  /\ a \o b \in Seq(Task) /\ ToSet(a \o b) = ToSet(a) \union ToSet(b)
           /\ Listed(a \o b) = Listed(a) \union Listed(b)
<1>1. a \o b \in Seq(Task) /\ ToSet(a \o b) = ToSet(a) \union ToSet(b)
    BY ListsBoth
<1>2. QED
    BY <1>1 DEF Listed, DefsOf

\* Nothing is listed by an empty list.
LEMMA ListedNone == ToSet(<< >>) = {} /\ Listed(<< >>) = {} /\ << >> \in Seq(Task)
    BY DEF Listed, DefsOf, ToSet

\* pushLive and the references: d needs nothing that is not live, listed, or
\* about to be, and d and what follows it were needed.
LEMMA PushKeeps ==
    ASSUME MInv, agenda # << >>, NEW d \in Defs \ Traits, NEW after \in Seq(Task),
           Push(d, after),
           byMethod \subseteq byMethod', byMethod' \subseteq byMethod \union ({d} \intersect Structs),
           d \in Fns => Receiver[d] \in live \union {None},
           d \in Structs => d \notin live,
           d \in Structs => d \in byMethod' \/ ToSet(MethodsOf[d]) \subseteq Listed(after),
           Def \in {d} \union Listed(after),
           \A q \in ToSet(after) : Callable(q, live \union {d}),
           \A S \in SUBSET Defs : Closed(S)' /\ Have \subseteq S => {d} \union Listed(after) \subseteq S
    PROVE  MInv'
<1>1. PICK rs \in IF d \in live THEN {refers[d]} ELSE ReferenceStacks(d) :
          /\ refers' = [refers EXCEPT ![d] = rs]
          /\ agenda' = Tasks("ref", rs) \o after \o Tail(agenda)
    BY DEF Push
<1>2. rs \in Seq(Defs) /\ (d \in live => rs = refers[d])
    BY <1>1, StacksTyped DEF MInv, DeadTypeOK
<1>3. /\ refers' \in [Defs -> Seq(Defs)] /\ refers'[d] = rs
      /\ \A e \in Defs \ {d} : refers'[e] = refers[e]
    BY <1>1, <1>2 DEF MInv, DeadTypeOK
<1>4. live' = live \union {d} /\ UNCHANGED <<file, left, implemented>>
    BY DEF Push
<1>5. /\ Head(agenda) \in Task /\ Tail(agenda) \in Seq(Task)
      /\ ToSet(agenda) = {Head(agenda)} \union ToSet(Tail(agenda))
      /\ Listed(agenda) = {Def} \union Listed(Tail(agenda))
    BY ListedHead DEF MInv, DeadTypeOK, Def
<1>6. /\ agenda' \in Seq(Task)
      /\ ToSet(agenda') = ToSet(Tasks("ref", rs)) \union ToSet(after) \union ToSet(Tail(agenda))
      /\ Listed(agenda') = ToSet(rs) \union Listed(after) \union Listed(Tail(agenda))
  <2>1. Tasks("ref", rs) \in Seq(Task) /\ Listed(Tasks("ref", rs)) = ToSet(rs)
      BY <1>2, ListsTasks DEF Listed
  <2>2. /\ after \o Tail(agenda) \in Seq(Task)
        /\ ToSet(after \o Tail(agenda)) = ToSet(after) \union ToSet(Tail(agenda))
        /\ Listed(after \o Tail(agenda)) = Listed(after) \union Listed(Tail(agenda))
      BY <1>5, ListedBoth
  <2>3. agenda' = Tasks("ref", rs) \o (after \o Tail(agenda))
      BY <1>1, <1>5, <2>1, SMTT(20)
  <2>4. /\ agenda' \in Seq(Task)
        /\ ToSet(agenda') = ToSet(Tasks("ref", rs)) \union ToSet(after \o Tail(agenda))
        /\ Listed(agenda') = Listed(Tasks("ref", rs)) \union Listed(after \o Tail(agenda))
      BY <2>1, <2>2, <2>3, ListedBoth
  <2>5. QED
      BY <2>1, <2>2, <2>4
<1>7. \A q \in ToSet(Tasks("ref", rs)) : q.task = "ref"
    BY <1>2, ListsTasks
<1>8. Have' = live \union {d} \union ToSet(rs) \union Listed(after) \union Listed(Tail(agenda))
    BY <1>4, <1>6 DEF Have
<1>9. Have \subseteq Have'
    BY <1>5, <1>8 DEF Have
<1>10. \A e \in Defs : ToSet(refers[e]) \subseteq ToSet(refers'[e])
  <2>1. CASE d \in live
      BY <1>2, <1>3, <2>1
  <2>2. CASE d \notin live
    <3>1. ToSet(refers[d]) = {}
        BY <2>2, ListedNone DEF MInv, Unread
    <3>2. QED
        BY <1>3, <3>1
  <2>3. QED
      BY <2>1, <2>2
<1>11. DeadTypeOK'
    BY <1>3, <1>4, <1>6 DEF MInv, DeadTypeOK
<1>12. Unread'
    BY <1>3, <1>4 DEF MInv, Unread
<1>13. Pending'
  <2>1. ToSet(Roots) \subseteq Have'
      BY <1>9 DEF MInv, Pending
  <2>2. \A e \in live' : ToSet(refers'[e]) \subseteq Have'
      BY <1>3, <1>4, <1>8, <1>9 DEF MInv, Pending, DeadTypeOK
  <2>3. \A g \in live' \intersect Fns : Receiver[g] \in live' \union {None}
      BY <1>4 DEF MInv, Pending
  <2>4. \A t \in live' \intersect Traits : ToSet(MethodsOf[t]) \subseteq Have'
      BY <1>4, <1>9 DEF MInv, Pending
  <2>5. \A s \in (live' \intersect Structs) \ byMethod' : ToSet(MethodsOf[s]) \subseteq Have'
      BY <1>4, <1>8, <1>9 DEF MInv, Pending
  <2>6. QED
      BY <2>1, <2>2, <2>3, <2>4, <2>5 DEF Pending
<1>14. Marked'
  <2>1. ASSUME NEW q \in ToSet(agenda') PROVE Callable(q, live')
    <3>1. CASE q \in ToSet(Tasks("ref", rs))
        BY <1>7, <3>1 DEF Callable
    <3>2. CASE q \in ToSet(after)
        BY <1>4, <3>2
    <3>3. CASE q \in ToSet(Tail(agenda))
        BY <1>4, <1>5, <3>3 DEF MInv, Marked, Callable
    <3>4. QED
        BY <1>6, <2>1, <3>1, <3>2, <3>3
  <2>2. QED
      BY <2>1 DEF Marked
<1>15. Needed'
  <2>1. SUFFICES ASSUME NEW S \in SUBSET Defs, Closed(S)'
                 PROVE  Have' \subseteq S
      BY DEF Needed
  <2>2. Closed(S)
    <3>1. \A e \in S : ToSet(refers[e]) \subseteq S
        BY <1>10, <2>1 DEF Closed
    <3>2. (S \intersect Structs \intersect live) \ byMethod
              \subseteq (S \intersect Structs \intersect live') \ byMethod'
      <4>1. ASSUME NEW s \in Structs, s \in live, s \notin byMethod
            PROVE  s \in live' /\ s \notin byMethod'
        <5>1. s = d => FALSE
            BY <4>1
        <5>2. QED
            BY <1>4, <4>1, <5>1
      <4>2. QED
          BY <4>1
    <3>3. QED
        BY <2>1, <3>1, <3>2 DEF Closed
  <2>3. Have \subseteq S
      BY <2>2 DEF MInv, Needed
  <2>4. {d} \union Listed(after) \subseteq S
      BY <2>1, <2>3
  <2>5. ToSet(rs) \subseteq S
      BY <1>3, <2>1, <2>4 DEF Closed
  <2>6. Listed(Tail(agenda)) \subseteq S
      BY <1>5, <2>3 DEF Have
  <2>7. QED
      BY <1>8, <2>3, <2>4, <2>5, <2>6 DEF Have
<1>16. QED
    BY <1>11, <1>12, <1>13, <1>14, <1>15 DEF MInv

\* The definitions of a program.
LEMMA MethodsTyped ==
    /\ \A o \in Owners : MethodsOf[o] \in Seq(Defs) /\ ToSet(MethodsOf[o]) \subseteq Fns
    /\ \A g \in Fns : Receiver[g] \in Structs \union {None}
    /\ Roots \in Seq(Defs) /\ ToSet(Roots) \subseteq Fns
    /\ \A g \in ToSet(Roots) : Receiver[g] = None
<1>1. \A ds \in Seq(Fns) : ds \in Seq(Defs) /\ ToSet(ds) \subseteq Fns
  <2>1. SUFFICES ASSUME NEW ds \in Seq(Fns)
                 PROVE  ds \in Seq(Defs) /\ ToSet(ds) \subseteq Fns
      OBVIOUS
  <2>2. ds \in [1 .. Len(ds) -> Fns] /\ Len(ds) \in Nat
      OBVIOUS
  <2>3. ds \in [1 .. Len(ds) -> Defs]
      BY <2>2 DEF Defs
  <2>4. ToSet(ds) \subseteq Fns
      BY <2>2 DEF ToSet
  <2>5. QED
      BY <2>2, <2>3, <2>4
<1>2. \A o \in Owners : MethodsOf[o] \in Seq(Fns)
    BY MethodsAssumption
<1>3. \A g \in Fns : Receiver[g] \in Structs \union {None}
    BY MethodsAssumption
<1>4. Roots \in Seq(Fns) /\ \A g \in ToSet(Roots) : Receiver[g] = None
    BY ProgramAssumption DEF ToSet
<1>5. QED
    BY <1>1, <1>2, <1>3, <1>4

\* The loop over the methods of a structure or a trait.
LEMMA MethodTasks ==
    ASSUME NEW o \in Owners
    PROVE  /\ Tasks("method", MethodsOf[o]) \in Seq(Task)
           /\ Listed(Tasks("method", MethodsOf[o])) = ToSet(MethodsOf[o])
           /\ \A q \in ToSet(Tasks("method", MethodsOf[o])) : Callable(q, IF o \in Structs THEN {o} ELSE {})
<1>1. MethodsOf[o] \in Seq(Defs) /\ ToSet(MethodsOf[o]) \subseteq Fns
    BY MethodsTyped
<1>2. /\ Tasks("method", MethodsOf[o]) \in Seq(Task)
      /\ ToSet(Tasks("method", MethodsOf[o])) = {[task |-> "method", def |-> d] : d \in ToSet(MethodsOf[o])}
      /\ Listed(Tasks("method", MethodsOf[o])) = ToSet(MethodsOf[o])
    BY <1>1, ListsTasks DEF Listed
<1>3. ASSUME NEW m \in ToSet(MethodsOf[o])
      PROVE  Receiver[m] \in (IF o \in Structs THEN {o} ELSE {}) \union {None}
    BY <1>3, MethodsAssumption DEF Owners
<1>4. QED
    BY <1>1, <1>2, <1>3 DEF Callable

\* At the start, everything that is listed is a root.
LEMMA InitMarks == DeadInit => MInv
<1> SUFFICES ASSUME DeadInit PROVE MInv
    OBVIOUS
<1>1. Roots \in Seq(Defs) /\ ToSet(Roots) \subseteq Fns /\ \A g \in ToSet(Roots) : Receiver[g] = None
    BY MethodsTyped
<1>2. /\ agenda \in Seq(Task) /\ Listed(agenda) = ToSet(Roots)
      /\ ToSet(agenda) = {[task |-> "mark", def |-> d] : d \in ToSet(Roots)}
    BY <1>1, ListsTasks DEF DeadInit, Listed
<1>3. DeadTypeOK
    BY <1>2, MethodsAssumption DEF DeadInit, DeadTypeOK
<1>4. Unread
    BY DEF DeadInit, Unread
<1>5. Pending
    BY <1>2 DEF DeadInit, Pending, Have
<1>6. Marked
    BY <1>1, <1>2 DEF Marked, Callable
<1>7. Needed
    BY <1>2 DEF DeadInit, Needed, Have, Closed
<1>8. QED
    BY <1>3, <1>4, <1>5, <1>6, <1>7 DEF MInv

\* A live definition is dropped from the list.
LEMMA SkipKeeps == MInv /\ Skip => MInv'
<1> SUFFICES ASSUME MInv, Skip PROVE MInv'
    OBVIOUS
<1>1. /\ agenda # << >> /\ Def \in live /\ agenda' = Tail(agenda)
      /\ UNCHANGED <<live, refers, byMethod, file, left, implemented>>
    BY DEF Skip, Now
<1>2. /\ Head(agenda) \in Task /\ agenda' \in Seq(Task)
      /\ ToSet(agenda) = {Head(agenda)} \union ToSet(agenda')
      /\ Listed(agenda) = {Def} \union Listed(agenda')
    BY <1>1, ListedHead DEF MInv, DeadTypeOK, Def
<1>3. Have' = Have
    BY <1>1, <1>2 DEF Have
<1>4. DeadTypeOK' /\ Unread'
    BY <1>1, <1>2 DEF MInv, DeadTypeOK, Unread
<1>5. Pending'
    BY <1>1, <1>3 DEF MInv, Pending
<1>6. Marked'
    BY <1>1, <1>2 DEF MInv, Marked, Callable
<1>7. Needed'
    BY <1>1, <1>3 DEF MInv, Needed, Closed
<1>8. QED
    BY <1>4, <1>5, <1>6, <1>7 DEF MInv

\* The definition at hand is listed.
LEMMA DefTyped == MInv /\ agenda # << >> => Def \in Defs /\ Def \in Have /\ Callable(Head(agenda), live)
<1>1. ASSUME MInv, agenda # << >>
      PROVE  Head(agenda) \in Task /\ Head(agenda) \in ToSet(agenda) /\ Def \in Listed(agenda)
    BY <1>1, ListedHead DEF MInv, DeadTypeOK, Def
<1>2. QED
    BY <1>1 DEF MInv, Task, Def, Have, Marked

\* A structure is marked and lists its methods.
LEMMA MarkStructKeeps == MInv /\ MarkStruct => MInv'
<1> SUFFICES ASSUME MInv, MarkStruct PROVE MInv'
    OBVIOUS
<1>1. /\ agenda # << >> /\ Def \in Structs \ live /\ Push(Def, Tasks("method", MethodsOf[Def]))
      /\ byMethod' = byMethod
    BY DEF MarkStruct, Now
<1>2. Def \in Defs /\ Def \notin Traits /\ Def \notin Fns /\ Def \in Owners /\ Def \in Have
    BY <1>1, DefTyped, DefsAssumption DEF Defs, Owners
<1>3. /\ Tasks("method", MethodsOf[Def]) \in Seq(Task)
      /\ Listed(Tasks("method", MethodsOf[Def])) = ToSet(MethodsOf[Def])
      /\ \A q \in ToSet(Tasks("method", MethodsOf[Def])) : Callable(q, live \union {Def})
    BY <1>1, <1>2, MethodTasks DEF Callable
<1>4. Def \notin byMethod' /\ live' = live \union {Def}
    BY <1>1 DEF MInv, DeadTypeOK, Push
<1>5. \A S \in SUBSET Defs : Closed(S)' /\ Have \subseteq S => ToSet(MethodsOf[Def]) \subseteq S
    BY <1>1, <1>2, <1>4 DEF Closed
<1>6. QED
    BY <1>1, <1>2, <1>3, <1>5, PushKeeps

\* A variable needs what it refers to.
LEMMA MarkVarKeeps == MInv /\ MarkVar => MInv'
<1> SUFFICES ASSUME MInv, MarkVar PROVE MInv'
    OBVIOUS
<1>1. agenda # << >> /\ Def \in Vars \ live /\ Push(Def, << >>) /\ byMethod' = byMethod
    BY DEF MarkVar, Now
<1>2. Def \in Defs \ Traits /\ Def \notin Fns /\ Def \notin Structs /\ Def \in Have
    BY <1>1, DefTyped, DefsAssumption DEF Defs, Owners
<1>3. QED
    BY <1>1, <1>2, ListedNone, PushKeeps

\* A function is marked when its receiver is live or it has none.
LEMMA MarkFnKeeps == MInv /\ MarkFn => MInv'
<1> SUFFICES ASSUME MInv, MarkFn PROVE MInv'
    OBVIOUS
<1>1. agenda # << >> /\ Push(Def, << >>) /\ byMethod' = byMethod
    BY DEF MarkFn, Now
<1>2. Def \in Fns /\ Receiver[Def] \in live \union {None}
  <2>1. CASE Now("ref") /\ Def \in Fns \ live /\ ~Receives(Def)
      BY <2>1 DEF Receives
  <2>2. CASE Now("method") \/ Now("mark")
      BY <1>1, <2>2, DefTyped DEF Now, Callable, Def
  <2>3. QED
      BY <2>1, <2>2 DEF MarkFn
<1>3. Def \in Defs \ Traits /\ Def \notin Structs /\ Def \in Have
    BY <1>1, <1>2, DefTyped, DefsAssumption DEF Owners
<1>4. QED
    BY <1>1, <1>2, <1>3, ListedNone, PushKeeps

\* A structure is marked for one of its methods, which is still listed.
LEMMA MarkOwnerKeeps == MInv /\ MarkOwner => MInv'
<1> SUFFICES ASSUME MInv, MarkOwner PROVE MInv'
    OBVIOUS
<1> DEFINE s == Receiver[Def]
<1>1. /\ agenda # << >> /\ Def \in Fns \ live /\ s # None /\ s \notin live
      /\ Push(s, Tasks("mark", <<Def>>)) /\ byMethod' = byMethod \union {s}
    BY DEF MarkOwner, Now, Receives
<1>2. s \in Structs /\ s \in Defs \ Traits /\ s \notin Fns /\ Def \in Defs /\ Def \in Have
    BY <1>1, DefTyped, MethodsTyped, DefsAssumption DEF Defs, Owners
<1>3. /\ Tasks("mark", <<Def>>) \in Seq(Task) /\ Listed(Tasks("mark", <<Def>>)) = {Def}
      /\ \A q \in ToSet(Tasks("mark", <<Def>>)) : q.def = Def
  <2>1. <<Def>> \in Seq(Defs) /\ ToSet(<<Def>>) = {Def}
      BY <1>2 DEF ToSet
  <2>2. /\ Tasks("mark", <<Def>>) \in Seq(Task) /\ Listed(Tasks("mark", <<Def>>)) = ToSet(<<Def>>)
        /\ ToSet(Tasks("mark", <<Def>>)) = {[task |-> "mark", def |-> d] : d \in ToSet(<<Def>>)}
      BY <2>1, ListsTasks DEF Listed
  <2>3. \A q \in {[task |-> "mark", def |-> d] : d \in ToSet(<<Def>>)} : q.def = Def
      BY <2>1
  <2>4. QED
      BY <2>1, <2>2, <2>3
<1>4. \A q \in ToSet(Tasks("mark", <<Def>>)) : Callable(q, live \union {s})
    BY <1>1, <1>3 DEF Callable
<1>5. \A S \in SUBSET Defs : Closed(S)' /\ Have \subseteq S => {s} \union {Def} \subseteq S
  <2>1. SUFFICES ASSUME NEW S \in SUBSET Defs, Closed(S)', Have \subseteq S PROVE s \in S /\ Def \in S
      OBVIOUS
  <2>2. Def \in S \intersect Fns
      BY <1>1, <1>2, <2>1
  <2>3. s \in S \union {None}
      BY <2>1, <2>2 DEF Closed
  <2>4. QED
      BY <1>1, <2>2, <2>3
<1>6. s \in byMethod' /\ byMethod \subseteq byMethod' /\ byMethod' \subseteq byMethod \union ({s} \intersect Structs)
    BY <1>1, <1>2
<1> HIDE DEF s
<1>7. QED
    BY <1>1, <1>2, <1>3, <1>4, <1>5, <1>6, PushKeeps

\* A trait lists its methods.
LEMMA MarkTraitKeeps == MInv /\ MarkTrait => MInv'
<1> SUFFICES ASSUME MInv, MarkTrait PROVE MInv'
    OBVIOUS
<1> DEFINE after == Tasks("method", MethodsOf[Def])
<1>1. /\ agenda # << >> /\ Def \in Traits \ live /\ live' = live \union {Def}
      /\ agenda' = after \o Tail(agenda)
      /\ UNCHANGED <<refers, byMethod, file, left, implemented>>
    BY DEF MarkTrait, Now
<1>2. Def \in Defs /\ Def \notin Structs /\ Def \notin Fns /\ Def \in Owners /\ Def \in Have
    BY <1>1, DefTyped, DefsAssumption DEF Defs, Owners
<1>3. /\ after \in Seq(Task) /\ Listed(after) = ToSet(MethodsOf[Def])
      /\ \A q \in ToSet(after) : Callable(q, live)
    BY <1>2, MethodTasks DEF Callable
<1> HIDE DEF after
<1>4. /\ Head(agenda) \in Task /\ Tail(agenda) \in Seq(Task)
      /\ ToSet(agenda) = {Head(agenda)} \union ToSet(Tail(agenda))
      /\ Listed(agenda) = {Def} \union Listed(Tail(agenda))
    BY <1>1, ListedHead DEF MInv, DeadTypeOK, Def
<1>5. /\ agenda' \in Seq(Task) /\ ToSet(agenda') = ToSet(after) \union ToSet(Tail(agenda))
      /\ Listed(agenda') = ToSet(MethodsOf[Def]) \union Listed(Tail(agenda))
    BY <1>1, <1>3, <1>4, ListedBoth
<1>6. Have' = Have \union ToSet(MethodsOf[Def])
    BY <1>1, <1>4, <1>5 DEF Have
<1>7. refers[Def] = << >>
    BY <1>1, <1>2 DEF MInv, Unread
<1>8. DeadTypeOK'
    BY <1>1, <1>2, <1>5 DEF MInv, DeadTypeOK
<1>9. Unread'
    BY <1>1 DEF MInv, Unread
<1>10. Pending'
    BY <1>1, <1>2, <1>6, <1>7, ListedNone DEF MInv, Pending
<1>11. Marked'
  <2>1. ASSUME NEW q \in ToSet(agenda') PROVE Callable(q, live')
    <3>1. CASE q \in ToSet(after)
        BY <1>1, <1>3, <3>1 DEF Callable
    <3>2. CASE q \in ToSet(Tail(agenda))
        BY <1>1, <1>4, <3>2 DEF MInv, Marked, Callable
    <3>3. QED
        BY <1>5, <2>1, <3>1, <3>2
  <2>2. QED
      BY <2>1 DEF Marked
<1>12. Needed'
  <2>1. SUFFICES ASSUME NEW S \in SUBSET Defs, Closed(S)'
                 PROVE  Have' \subseteq S
      BY DEF Needed
  <2>2. Closed(S)
      BY <1>1, <2>1 DEF Closed
  <2>3. Have \subseteq S
      BY <2>2 DEF MInv, Needed
  <2>4. ToSet(MethodsOf[Def]) \subseteq S
      BY <1>1, <1>2, <2>1, <2>3 DEF Closed
  <2>5. QED
      BY <1>6, <2>3, <2>4
<1>13. QED
    BY <1>8, <1>9, <1>10, <1>11, <1>12 DEF MInv

-----------------------------------------------------------------------------
(* Removing.                                                               *)

\* Nothing is removed before the marking ends.
SweepOrdered == file \in 1 .. Len(Files) + 1 /\ (agenda # << >> => file = 1)

\* What the files swept so far left.
FilesLeft == left = {d \in Defs : \A i \in 1 .. file - 1 : d \in Files[i] => Kept(d)}

\* A list of a trait loses only what is removed; what a sweep leaves in it is
\* removed by later files only.
ListsLeft ==
    /\ \A t \in Traits : Implements[t] \intersect left \subseteq implemented[t]
    /\ \A t \in Traits \intersect live : \A i \in 1 .. file - 1 : t \in Files[i] =>
          \A s \in implemented[t] : \A j \in 1 .. i : s \in Files[j] => Kept(s)

RInv == SweepOrdered /\ FilesLeft /\ ListsLeft

DeadInv == MInv /\ RInv

\* No file is swept while there is something to mark.
LEMMA MarkingSweepsNothing ==
    ASSUME RInv, agenda # << >>, UNCHANGED <<file, left, implemented>>
    PROVE  RInv'
<1>1. file = 1 /\ file' = 1 /\ left' = left /\ implemented' = implemented
    BY DEF RInv, SweepOrdered
<1>2. 1 .. file - 1 = {} /\ 1 .. file' - 1 = {}
    BY <1>1
<1>3. SweepOrdered'
    BY <1>1 DEF RInv, SweepOrdered
<1>4. FilesLeft'
    BY <1>1, <1>2 DEF RInv, FilesLeft
<1>5. ListsLeft'
    BY <1>1, <1>2 DEF RInv, ListsLeft
<1>6. QED
    BY <1>3, <1>4, <1>5 DEF RInv

\* Removing marks nothing.
LEMMA RemoveKeepsMarks == MInv /\ RemoveDeadsFile => MInv'
<1> SUFFICES ASSUME MInv, RemoveDeadsFile PROVE MInv'
    OBVIOUS
<1>1. UNCHANGED <<agenda, live, refers, byMethod>> /\ file' = file + 1
      /\ left' = {d \in left : d \in Files[file] => Kept(d)}
      /\ implemented' = [t \in Traits |->
            IF t \in Files[file] /\ t \in live THEN implemented[t] \intersect left' ELSE implemented[t]]
    BY DEF RemoveDeadsFile
<1>2. DeadTypeOK'
  <2>1. implemented' \in [Traits -> SUBSET Structs]
      BY <1>1 DEF MInv, DeadTypeOK
  <2>2. QED
      BY <1>1, <2>1 DEF MInv, DeadTypeOK
<1>3. Have' = Have
    BY <1>1 DEF Have, Listed
<1>4. Unread' /\ Pending' /\ Marked' /\ Needed'
    BY <1>1, <1>3 DEF MInv, Unread, Pending, Marked, Needed, Closed
<1>5. QED
    BY <1>2, <1>4 DEF MInv

\* A file is swept.
LEMMA RemoveSweeps == DeadInv /\ RemoveDeadsFile => RInv'
<1> SUFFICES ASSUME DeadInv, RemoveDeadsFile PROVE RInv'
    OBVIOUS
<1>1. agenda = << >> /\ agenda' = agenda /\ live' = live /\ file <= Len(Files) /\ file' = file + 1
    BY DEF RemoveDeadsFile
<1>2. file \in 1 .. Len(Files) /\ Len(Files) \in Nat
    BY <1>1, ProgramAssumption DEF DeadInv, RInv, SweepOrdered
<1>3. 1 .. file' - 1 = (1 .. file - 1) \union {file}
    BY <1>1, <1>2
<1>4. left' = {d \in left : d \in Files[file] => Kept(d)} /\ \A d : Kept(d)' <=> Kept(d)
    BY DEF RemoveDeadsFile, Kept
<1>5. \A t \in Traits : implemented'[t] =
          IF t \in Files[file] /\ t \in live THEN implemented[t] \intersect left' ELSE implemented[t]
    BY DEF RemoveDeadsFile
<1>6. SweepOrdered'
    BY <1>1, <1>2 DEF SweepOrdered
<1>7. FilesLeft'
  <2>1. left = {d \in Defs : \A i \in 1 .. file - 1 : d \in Files[i] => Kept(d)}
      BY DEF DeadInv, RInv, FilesLeft
  <2>2. left' = {d \in Defs : \A i \in 1 .. file' - 1 : d \in Files[i] => Kept(d)}
      BY <1>3, <1>4, <2>1
  <2>3. QED
      BY <1>4, <2>2 DEF FilesLeft
<1>8. ListsLeft'
  <2>1. ASSUME NEW t \in Traits
        PROVE  Implements[t] \intersect left' \subseteq implemented'[t]
      BY <1>4, <1>5 DEF DeadInv, RInv, ListsLeft
  <2>2. ASSUME NEW t \in Traits \intersect live, NEW i \in 1 .. file' - 1, t \in Files[i],
               NEW s \in implemented'[t], NEW j \in 1 .. i, s \in Files[j]
        PROVE  Kept(s)
    <3>1. s \in implemented[t]
        BY <1>5, <2>2
    <3>2. CASE i \in 1 .. file - 1
        BY <2>2, <3>1, <3>2 DEF DeadInv, RInv, ListsLeft
    <3>3. CASE i = file
      <4>1. s \in left'
          BY <1>5, <2>2, <3>3
      <4>2. j \in 1 .. file' - 1
          BY <1>1, <1>2, <2>2, <3>3
      <4>3. QED
          BY <1>4, <1>7, <2>2, <4>1, <4>2 DEF FilesLeft
    <3>4. QED
        BY <1>3, <2>2, <3>2, <3>3
  <2>3. QED
      BY <1>1, <1>4, <2>1, <2>2 DEF ListsLeft
<1>9. QED
    BY <1>6, <1>7, <1>8 DEF RInv

-----------------------------------------------------------------------------
(* The theorems about DeadDefines.                                         *)

\* The invariant, for every program: what is marked or listed is what the
\* roots need, and the files swept have lost what is not.
THEOREM DeadInvariance == DeadSpec => []DeadInv
<1>1. DeadInit => DeadInv
  <2>1. DeadInit => RInv
    <3>1. SUFFICES ASSUME DeadInit PROVE RInv
        OBVIOUS
    <3>2. file = 1 /\ Len(Files) \in Nat /\ 1 .. file - 1 = {}
        BY <3>1, ProgramAssumption DEF DeadInit
    <3>3. SweepOrdered
        BY <3>2 DEF SweepOrdered
    <3>4. FilesLeft
        BY <3>1, <3>2 DEF FilesLeft, DeadInit
    <3>5. ListsLeft
        BY <3>1, <3>2 DEF ListsLeft, DeadInit
    <3>6. QED
        BY <3>3, <3>4, <3>5 DEF RInv
  <2>2. QED
      BY <2>1, InitMarks DEF DeadInv
<1>2. DeadInv /\ [DeadNext]_deadVars => DeadInv'
  <2>1. SUFFICES ASSUME DeadInv, [DeadNext]_deadVars PROVE DeadInv'
      OBVIOUS
  <2>2. CASE Skip
      BY <2>1, <2>2, SkipKeeps, MarkingSweepsNothing DEF DeadInv, Skip, Now
  <2>3. CASE MarkTrait
      BY <2>1, <2>3, MarkTraitKeeps, MarkingSweepsNothing DEF DeadInv, MarkTrait, Now
  <2>4. CASE MarkStruct
      BY <2>1, <2>4, MarkStructKeeps, MarkingSweepsNothing DEF DeadInv, MarkStruct, Now, Push
  <2>5. CASE MarkVar
      BY <2>1, <2>5, MarkVarKeeps, MarkingSweepsNothing DEF DeadInv, MarkVar, Now, Push
  <2>6. CASE MarkOwner
      BY <2>1, <2>6, MarkOwnerKeeps, MarkingSweepsNothing DEF DeadInv, MarkOwner, Now, Push
  <2>7. CASE MarkFn
      BY <2>1, <2>7, MarkFnKeeps, MarkingSweepsNothing DEF DeadInv, MarkFn, Now, Push
  <2>8. CASE RemoveDeadsFile
      BY <2>1, <2>8, RemoveKeepsMarks, RemoveSweeps DEF DeadInv
  <2>9. CASE UNCHANGED deadVars
    <3>1. MInv'
        BY <2>1, <2>9 DEF deadVars, DeadInv, MInv, DeadTypeOK, Unread, Pending, Marked, Needed, Closed, Have, Listed
    <3>2. RInv'
        BY <2>1, <2>9 DEF deadVars, DeadInv, RInv, SweepOrdered, FilesLeft, ListsLeft, Kept
    <3>3. QED
        BY <3>1, <3>2 DEF DeadInv
  <2>10. QED
      BY <2>1, <2>2, <2>3, <2>4, <2>5, <2>6, <2>7, <2>8, <2>9 DEF DeadNext
<1>3. QED
    BY <1>1, <1>2, PTL DEF DeadSpec

\* The values of the variables.
THEOREM DeadTypeCorrect == DeadSpec => []DeadTypeOK
<1>1. DeadInv => DeadTypeOK
    BY DEF DeadInv, MInv
<1>2. QED
    BY <1>1, DeadInvariance, PTL

\* When the walk is over, what is marked is the smallest closed set.
LEMMA MarkedExactly == DeadInv => MarkExact
<1> SUFFICES ASSUME DeadInv, agenda = << >> PROVE /\ Closed(live)
                                              /\ \A S \in SUBSET live : Closed(S) => S = live
    BY DEF MarkExact
<1>1. Have = live
    BY ListedNone DEF Have
<1>2. Closed(live)
    BY <1>1 DEF DeadInv, MInv, Pending, Closed
<1>3. live \subseteq Defs
    BY DEF DeadInv, MInv, DeadTypeOK
<1>4. QED
    BY <1>1, <1>2, <1>3 DEF DeadInv, MInv, Needed

\* For every program and every reading of its references, marking is exact:
\* what is needed is live, and what is live is needed (define.jule:43-131).
THEOREM MarkExactHolds == DeadSpec => []MarkExact
    BY DeadInvariance, MarkedExactly, PTL

\* When the sweep is over, it has left what it should.
LEMMA SweptSoundly == DeadInv => SweepSound
<1> SUFFICES ASSUME DeadInv, Done PROVE SweepSound
    BY DEF SweepSound
<1>1. Len(Files) \in Nat /\ Len(Files) >= 1 /\ DOMAIN Files = 1 .. Len(Files)
      /\ \A i \in 1 .. Len(Files) : Files[i] \subseteq Defs
    BY ProgramAssumption
<1>2. file = Len(Files) + 1 /\ agenda = << >>
    BY <1>1 DEF DeadInv, RInv, SweepOrdered, Done
<1>3. 1 .. file - 1 = DOMAIN Files
    BY <1>1, <1>2
<1>4. left = {d \in Defs : \A i \in DOMAIN Files : d \in Files[i] => Kept(d)}
    BY <1>3 DEF DeadInv, RInv, FilesLeft
<1>5. Closed(live) /\ live \subseteq Defs
    BY <1>2, MarkedExactly DEF MarkExact, DeadInv, MInv, DeadTypeOK
<1>6. Swept \subseteq Defs /\ \A d \in Swept : \E i \in DOMAIN Files : d \in Files[i]
    BY <1>1 DEF Swept
<1>7. live \subseteq left
    BY <1>4, <1>5 DEF Kept
<1>8. \A d \in Swept \ Structs : d \in left <=> d \in live
    BY <1>4, <1>6, <1>7 DEF Kept
<1>9. ASSUME NEW s \in Swept \intersect Structs, s \in left, s \notin live
      PROVE  \E m \in ToSet(MethodsOf[s]) : m \in live /\ Receiver[m] = None
  <2>1. PICK m \in ToSet(MethodsOf[s]) : m \in live
      BY <1>4, <1>6, <1>9 DEF Kept
  <2>2. m \in Fns /\ Receiver[m] \in {s, None}
      BY MethodsAssumption, MethodsTyped DEF Owners
  <2>3. Receiver[m] \in live \union {None}
      BY <1>5, <2>1, <2>2 DEF Closed
  <2>4. QED
      BY <1>9, <2>1, <2>2, <2>3
<1>10. \A d \in left \intersect live : ToSet(refers[d]) \subseteq left
    BY <1>5, <1>7 DEF Closed
<1>11. ASSUME NEW t \in Swept \intersect Traits \intersect live
       PROVE  /\ Implements[t] \intersect left \subseteq implemented[t]
              /\ \A s \in implemented[t] \ left :
                    \E i, j \in DOMAIN Files : i < j /\ t \in Files[i] /\ s \in Files[j]
              /\ \A s \in (implemented[t] \intersect live) \ byMethod :
                    ToSet(MethodsOf[s]) \subseteq left
  <2>1. Implements[t] \intersect left \subseteq implemented[t]
      BY DEF DeadInv, RInv, ListsLeft
  <2>2. ASSUME NEW s \in implemented[t] \ left
        PROVE  \E i, j \in DOMAIN Files : i < j /\ t \in Files[i] /\ s \in Files[j]
    <3>1. PICK i \in DOMAIN Files : t \in Files[i]
        BY <1>6
    <3>2. s \in Defs
        BY DEF DeadInv, MInv, DeadTypeOK, Defs, Owners
    <3>3. PICK j \in DOMAIN Files : s \in Files[j] /\ ~Kept(s)
        BY <1>4, <2>2, <3>2
    <3>4. j \notin 1 .. i
        BY <1>3, <2>2, <3>1, <3>3 DEF DeadInv, RInv, ListsLeft
    <3>5. i < j
        BY <1>1, <3>4
    <3>6. QED
        BY <3>1, <3>3, <3>5
  <2>3. ASSUME NEW s \in (implemented[t] \intersect live) \ byMethod
        PROVE  ToSet(MethodsOf[s]) \subseteq left
    <3>1. s \in Structs
        BY DEF DeadInv, MInv, DeadTypeOK
    <3>2. QED
        BY <1>5, <1>7, <3>1 DEF Closed
  <2>4. QED
      BY <2>1, <2>2, <2>3
<1>12. QED
    BY <1>7, <1>8, <1>9, <1>10, <1>11 DEF SweepSound

\* For every program: what the sweep leaves is live, or a structure that a
\* static method keeps, and what is live is left with all that it needs; the
\* lists of traits hold everything left that implements them
\* (define.jule:141-268).
THEOREM SweepSoundHolds == DeadSpec => []SweepSound
    BY DeadInvariance, SweptSoundly, PTL
=============================================================================
