------------------------------ MODULE TypeOrder ------------------------------
(***************************************************************************)
(* How the compiler checks the structures and type aliases of a package    *)
(* for illegal cycles (std/jule/sema/type.jule, sema.jule) and orders the  *)
(* structures it accepts for C++ (src/julec/obj/order.jule).               *)
(*                                                                         *)
(* The checker walks depth first: a declaration is checked as soon as one  *)
(* under check refers to it.  What a declaration refers to is chosen when  *)
(* the walk gets there.  A program with an error is rejected.              *)
(***************************************************************************)
EXTENDS Integers, Sequences, SequencesExt

CONSTANTS NStructs,  \* the structures are 1 .. NStructs, in declaration order
          Aliases    \* the type aliases

Structures == 1 .. NStructs
Decls == Structures \union Aliases

ASSUME ConstantAssumption ==
    /\ NStructs \in Nat \ {0}
    /\ Structures \intersect Aliases = {}

VARIABLES
    phase,    \* "check", "rejected", "order", "done"
    refs,     \* the plain references of the program met so far
    mentions, \* the aliases that stand for a pointer to, a slice of, ... a
              \* structure, with that structure
    depends,  \* those recorded: Struct.Depends and TypeAlias.Refers
    stack,    \* the declarations under check, innermost last
    begun,    \* structures with a checked instance
    built,    \* aliases whose kind is built
    ord       \* orderCommon: the slice s and the locals n, k, swapped; kept: the
              \* slice as it was (history)

vars == <<phase, refs, mentions, depends, stack, begun, built, ord>>

NoOrd == [kept |-> << >>, s |-> << >>, n |-> 0, k |-> 0, swapped |-> FALSE]

Init ==
    /\ phase = "check"
    /\ refs = {} /\ mentions = {} /\ depends = {}
    /\ stack = << >>
    /\ begun = {} /\ built = {}
    /\ ord = NoOrd

-----------------------------------------------------------------------------
(* Reachability.                                                           *)

ClosedUnder(R, S) == \A x \in S, y \in Decls : <<x, y>> \in R => y \in S
Reaches(R, x, y) == \A S \in SUBSET Decls : x \in S /\ ClosedUnder(R, S) => y \in S

\* No set of declarations in which each refers to another of the set.
Acyclic(R) ==
    \A S \in SUBSET Decls : S # {} => \E x \in S : \A y \in S : <<x, y>> \notin R

-----------------------------------------------------------------------------
(* Checking.                                                               *)

Frame(d) == [def |-> d, done |-> FALSE]
Owner == Last(stack).def

\* The innermost alias has its one reference; a structure may have more.  (An
\* alias of a function, a tuple or a map can have several; that is left out.)
Consumed == IF Owner \in Aliases THEN [stack EXCEPT ![Len(stack)].done = TRUE] ELSE stack

\* What follows a reference to d: an alias without a kind is built, a
\* structure without an instance gets one and is checked.
Enter(d, st) ==
    /\ stack' = IF d \in begun \union built THEN st ELSE Append(st, Frame(d))
    /\ begun' = IF d \in Structures THEN begun \union {d} ELSE begun

\* The next declaration of the package: all aliases, then the structures.
Root(d) ==
    /\ phase = "check" /\ stack = << >>
    /\ d \notin begun \union built
    /\ d \in Structures => Aliases \subseteq built
    /\ Enter(d, stack)
    /\ UNCHANGED <<phase, refs, mentions, depends, built, ord>>

\* Wrong: only a direct reference back to the owner is found.
IllegalCycleDirect(owner, d) == owner = d \/ <<d, owner>> \in depends

\* Wrong: what the owner already refers to is taken for a cycle.
IllegalCycleSwapped(owner, d) == Reaches(depends, owner, d)

\* checkIllegalCycles: the owner itself, or checkCrossCycle finds it below d.
IllegalCycle(owner, d) == Reaches(depends, d, owner)

\* checkIllegalCycles records a reference, but that of a structure only to a
\* structure: Struct.Depends has no room for an alias.
Recorded(owner, d) == IF owner \in Structures /\ d \in Aliases THEN {} ELSE {<<owner, d>>}

\* The references of the innermost declaration are still being checked; an
\* alias has one, the same each time it is built.
Checking(others) ==
    /\ phase = "check" /\ stack # << >>
    /\ Owner \in Aliases => /\ ~Last(stack).done
                            /\ \A y \in Decls : <<Owner, y>> \notin others

\* A plain reference to a structure, or any reference to an alias.
Refer(d) ==
    /\ Checking(mentions \union {e \in refs : e[2] # d})
    /\ Owner \in Structures => <<Owner, d>> \notin refs
    /\ refs' = refs \union {<<Owner, d>>}
    /\ \/ /\ IllegalCycle(Owner, d)
          /\ phase' = "rejected"
          /\ UNCHANGED <<depends, stack, begun>>
       \/ /\ ~IllegalCycle(Owner, d)
          /\ depends' = depends \union Recorded(Owner, d)
          /\ Enter(d, Consumed)
          /\ UNCHANGED phase
    /\ UNCHANGED <<mentions, built, ord>>

\* A reference to structure d under a pointer, a slice, an array, even one by
\* value, ... (notPlain), or in a method of a structure: d is checked, and
\* nothing recorded.
Mention(d) ==
    /\ d \in Structures
    /\ Checking(refs \union {e \in mentions : e[2] # d})
    /\ Owner \in Structures => d \notin begun
    /\ mentions' = IF Owner \in Aliases THEN mentions \union {<<Owner, d>>} ELSE mentions
    /\ Enter(d, Consumed)
    /\ UNCHANGED <<phase, refs, depends, built, ord>>

\* The innermost declaration has no further reference.  The kind of an alias
\* that has referred to a declaration (or to a built-in type) is built.
Leave ==
    /\ phase = "check" /\ stack # << >>
    /\ Owner \in Aliases => Last(stack).done \/ \A y \in Decls : <<Owner, y>> \notin refs \union mentions
    /\ stack' = Front(stack)
    /\ built' = IF Owner \in Aliases THEN built \union {Owner} ELSE built
    /\ UNCHANGED <<phase, refs, mentions, depends, begun, ord>>

-----------------------------------------------------------------------------
(* Ordering.                                                               *)

\* The lists of structures in the order of their declaration.
Lists ==
    {s \in UNION {[1 .. m -> Structures] : m \in Structures} :
        \A i, j \in DOMAIN s : i < j => s[i] < s[j]}

\* IR.Order on the structures that dead code elimination left: any of them, for
\* one that is left for a static method loses those that its fields refer to
\* (SweepSound of DeadDefines).
StartOrder ==
    /\ phase = "check" /\ stack = << >>
    /\ Decls = begun \union built
    /\ phase' = "order"
    /\ \E s \in Lists :
          ord' = [kept |-> s, s |-> s, n |-> Len(s) - 1, k |-> 1, swapped |-> FALSE]
    /\ UNCHANGED <<refs, mentions, depends, stack, begun, built>>

\* isCommonOrdered: none of the dependencies of t is anywhere in s.
IsCommonOrdered(s, t) == \A d \in ToSet(s) : <<t, d>> \notin depends

Swapped(s, k) == [s EXCEPT ![k] = s[k + 1], ![k + 1] = s[k]]

\* One iteration of the inner loop (positions from 1).
OrderStep ==
    /\ phase = "order" /\ ord.k <= ord.n
    /\ ord' = IF IsCommonOrdered(ord.s, ord.s[ord.k]) THEN [ord EXCEPT !.k = @ + 1]
              ELSE [ord EXCEPT !.s = Swapped(@, ord.k), !.k = @ + 1, !.swapped = TRUE]
    /\ UNCHANGED <<phase, refs, mentions, depends, stack, begun, built>>

\* Wrong: the first pass is the last.
OrderPassOnce ==
    /\ phase = "order" /\ ord.k > ord.n
    /\ phase' = "done"
    /\ UNCHANGED <<refs, mentions, depends, stack, begun, built, ord>>

\* Wrong: another pass whatever happened.
OrderPassForEver ==
    /\ phase = "order" /\ ord.k > ord.n
    /\ ord' = [ord EXCEPT !.n = IF @ > 0 THEN @ - 1 ELSE @, !.k = 1, !.swapped = FALSE]
    /\ UNCHANGED <<phase, refs, mentions, depends, stack, begun, built>>

\* The end of a pass; len(s) passes at most.
OrderPass ==
    /\ phase = "order" /\ ord.k > ord.n
    /\ IF ord.swapped /\ ord.n > 0
       THEN /\ ord' = [ord EXCEPT !.n = @ - 1, !.k = 1, !.swapped = FALSE]
            /\ UNCHANGED phase
       ELSE /\ phase' = "done"
            /\ UNCHANGED ord
    /\ UNCHANGED <<refs, mentions, depends, stack, begun, built>>

Next ==
    \/ \E d \in Decls : Root(d) \/ Refer(d) \/ Mention(d)
    \/ Leave
    \/ StartOrder \/ OrderStep \/ OrderPass

Spec == Init /\ [][Next]_vars

\* The compiler is one thread that runs until it is done.
FairSpec == Spec /\ WF_vars(Next)

-----------------------------------------------------------------------------
(* Properties.                                                             *)

TypeOK ==
    /\ phase \in {"check", "rejected", "order", "done"}
    /\ refs \subseteq Decls \X Decls
    /\ mentions \subseteq Aliases \X Structures
    /\ depends \subseteq Decls \X Decls
    /\ stack \in Seq([def : Decls, done : BOOLEAN])
    /\ begun \subseteq Structures /\ built \subseteq Aliases
    /\ ord \in [kept : Lists \union {<< >>}, s : Seq(Structures), n : Int, k : Nat, swapped : BOOLEAN]

\* What has been recorded has no cycle, in whatever order declarations are
\* checked: checkCrossCycle never recurses for ever.  A structure that is part
\* of itself is therefore found where each step of its cycle is recorded, which
\* leaves out two: the reference of a structure to an alias, and a field that
\* is an array by value, which buildArr treats like a pointer (Mention).
DependsAcyclic == Acyclic(depends)

\* Only a program with a cycle of references is rejected.
RejectsOnlyCycles == phase = "rejected" => ~Acyclic(refs)

\* "Struct's dependencies always comes first itself." (order.jule)
DependenciesFirst ==
    phase = "done" =>
        \A i, j \in DOMAIN ord.s : i < j => <<ord.s[i], ord.s[j]>> \notin depends

\* What orderCommon computes of the list it gets, and loses nothing of: the
\* structures without a dependency in the list in their order, and then the
\* others in reverse.
OrderedAs ==
    phase = "done" =>
        /\ Len(ord.s) = Len(ord.kept) /\ ToSet(ord.s) = ToSet(ord.kept)
        /\ \A i, j \in DOMAIN ord.s : i < j =>
              IF IsCommonOrdered(ord.s, ord.s[i])
              THEN IsCommonOrdered(ord.s, ord.s[j]) => ord.s[i] < ord.s[j]
              ELSE ~IsCommonOrdered(ord.s, ord.s[j]) /\ ord.s[i] > ord.s[j]

\* It puts dependencies first if no structure with a dependency is itself one.
ShallowOrdered ==
    (phase = "done" /\ \A d, e, f \in ToSet(ord.s) : ~(<<d, e>> \in depends /\ <<e, f>> \in depends))
    => \A i, j \in DOMAIN ord.s : i < j => <<ord.s[i], ord.s[j]>> \notin depends

\* The compiler comes to an end on every package.
Ends == <>(phase \in {"rejected", "done"})

\* What orderCommon gives for every package, and that it puts dependencies
\* first where no structure with a dependency is itself one.
Ordered == OrderedAs /\ ShallowOrdered
=============================================================================
