----------------------------- MODULE DeadDefines -----------------------------
(***************************************************************************)
(* How the optimiser finds the definitions that a program uses and removes *)
(* the rest (src/julec/opt/deadcode/define.jule).                          *)
(*                                                                         *)
(* A definition is a function, a global variable, a structure or a trait,  *)
(* each with one instance.  What it refers to (its ReferenceStack, written *)
(* by the type checker) is chosen when the walk reads it.  The recursion   *)
(* of setReferencesAsLive is its agenda: what is left to do, in order.     *)
(***************************************************************************)
EXTENDS Integers, SequencesExt

CONSTANTS Fns, Vars, Structs, Traits, \* the definitions
          MethodsOf, \* the methods of a structure or a trait, a sequence
          Receiver,  \* the structure whose values a function is called on,
          None,      \* or this one, for static methods too
          Implements,\* the structures that implement a trait
          Roots,     \* initialisers and tests, and main at the end
          Files,     \* the definitions of each file, main package last
          MayRefer,  \* what a definition may refer to
          MaxRefs    \* and a bound on how often

Owners == Structs \union Traits
Defs == Fns \union Vars \union Owners

ASSUME DefsAssumption ==
    /\ Fns \intersect (Vars \union Owners) = {}
    /\ Vars \intersect Owners = {} /\ Structs \intersect Traits = {}
    /\ None \notin Defs

ASSUME MethodsAssumption ==
    /\ MethodsOf \in [Owners -> Seq(Fns)]
    /\ Receiver \in [Fns -> Structs \union {None}]
    /\ \A s \in Structs : \A m \in ToSet(MethodsOf[s]) : Receiver[m] \in {s, None}
    /\ \A t \in Traits : \A m \in ToSet(MethodsOf[t]) : Receiver[m] = None
    /\ Implements \in [Traits -> SUBSET Structs]

ASSUME ProgramAssumption ==
    /\ Roots \in Seq(Fns) /\ \A i \in DOMAIN Roots : Receiver[Roots[i]] = None
    /\ Files \in Seq(SUBSET Defs) /\ Files # << >>
    /\ MayRefer \in [Defs -> SUBSET Defs] /\ MaxRefs \in [Defs -> Nat]

VARIABLES
    agenda,      \* what setReferencesAsLive and its callers have still to do
    live,        \* the table of live definitions
    refers,      \* the references of the definitions that were read
    byMethod,    \* history: the structures first met through a method
    file,        \* the next file to remove definitions from
    left,        \* the definitions that are not removed
    implemented  \* Trait.Implemented

deadVars == <<agenda, live, refers, byMethod, file, left, implemented>>

\* "ref": an item of a ReferenceStack; "method": one of the loop over the
\* methods of a structure or a trait; "mark": what follows, whatever is live.
Task == [task : {"ref", "method", "mark"}, def : Defs]
Tasks(kind, ds) == [i \in DOMAIN ds |-> [task |-> kind, def |-> ds[i]]]

DeadInit ==
    /\ agenda = Tasks("mark", Roots)
    /\ live = {} /\ refers = [d \in Defs |-> << >>] /\ byMethod = {}
    /\ file = 1 /\ left = Defs /\ implemented = Implements

-----------------------------------------------------------------------------
(* Marking.                                                                *)

\* A ReferenceStack: nothing is pushed twice.
ReferenceStacks(d) ==
    {rs \in BoundedSeq(MayRefer[d], MaxRefs[d]) : \A i, j \in DOMAIN rs : rs[i] = rs[j] => i = j}

Now(kind) == agenda # << >> /\ Head(agenda).task = kind
Def == Head(agenda).def

\* pushLive, and then setReferencesAsLive of its references.
Push(d, after) ==
    /\ live' = live \union {d}
    /\ \E rs \in IF d \in live THEN {refers[d]} ELSE ReferenceStacks(d) :
          /\ refers' = [refers EXCEPT ![d] = rs]
          /\ agenda' = Tasks("ref", rs) \o after \o Tail(agenda)
    /\ UNCHANGED <<file, left, implemented>>

\* Already live.
Skip ==
    /\ Now("ref") \/ Now("method")
    /\ Def \in live
    /\ agenda' = Tail(agenda)
    /\ UNCHANGED <<live, refers, byMethod, file, left, implemented>>

MarkTrait ==
    /\ Now("ref") /\ Def \in Traits \ live
    /\ live' = live \union {Def}
    /\ agenda' = Tasks("method", MethodsOf[Def]) \o Tail(agenda)
    /\ UNCHANGED <<refers, byMethod, file, left, implemented>>

MarkStruct ==
    /\ Now("ref") /\ Def \in Structs \ live
    /\ Push(Def, Tasks("method", MethodsOf[Def]))
    /\ UNCHANGED byMethod

MarkVar ==
    /\ Now("ref") /\ Def \in Vars \ live
    /\ Push(Def, << >>)
    /\ UNCHANGED byMethod

Receives(f) == Receiver[f] # None /\ Receiver[f] \notin live

\* Wrong: the method itself is forgotten.
MarkOwnerOnly ==
    /\ Now("ref") /\ Def \in Fns \ live /\ Receives(Def)
    /\ Push(Receiver[Def], << >>)
    /\ byMethod' = byMethod \union {Receiver[Def]}

\* A method before its structure: the structure, without its other methods,
\* and then the method, which may be live by then.
MarkOwner ==
    /\ Now("ref") /\ Def \in Fns \ live /\ Receives(Def)
    /\ Push(Receiver[Def], Tasks("mark", <<Def>>))
    /\ byMethod' = byMethod \union {Receiver[Def]}

\* Wrong: the function is not marked before its references are read.
MarkFnLate ==
    /\ \/ Now("ref") /\ Def \in Fns \ live /\ ~Receives(Def)
       \/ Now("method") /\ Def \notin live
       \/ Now("mark")
    /\ \E rs \in ReferenceStacks(Def) : agenda' = Tasks("ref", rs) \o Tail(agenda)
    /\ UNCHANGED <<live, refers, byMethod, file, left, implemented>>

MarkFn ==
    /\ \/ Now("ref") /\ Def \in Fns \ live /\ ~Receives(Def)
       \/ Now("method") /\ Def \notin live
       \/ Now("mark")
    /\ Push(Def, << >>)
    /\ UNCHANGED byMethod

-----------------------------------------------------------------------------
(* Removing.                                                               *)

\* removeDeadFns and removeDeadStructs: a structure with a method left stays.
Kept(d) ==
    \/ d \in live
    \/ d \in Structs /\ \E m \in ToSet(MethodsOf[d]) : m \in live

\* Wrong: traits come before structures.
RemoveTraitsFirst ==
    /\ agenda = << >> /\ file <= Len(Files)
    /\ left' = {d \in left : d \in Files[file] => Kept(d)}
    /\ implemented' = [t \in Traits |->
          IF t \in Files[file] /\ t \in live THEN implemented[t] \intersect left ELSE implemented[t]]
    /\ file' = file + 1
    /\ UNCHANGED <<agenda, live, refers, byMethod>>

\* removeDeadsFile: functions, structures, and then traits, each with the
\* structures that implement it and have an instance at this time.
RemoveDeadsFile ==
    /\ agenda = << >> /\ file <= Len(Files)
    /\ left' = {d \in left : d \in Files[file] => Kept(d)}
    /\ implemented' = [t \in Traits |->
          IF t \in Files[file] /\ t \in live THEN implemented[t] \intersect left' ELSE implemented[t]]
    /\ file' = file + 1
    /\ UNCHANGED <<agenda, live, refers, byMethod>>

DeadNext ==
    \/ Skip \/ MarkTrait \/ MarkStruct \/ MarkVar \/ MarkOwner \/ MarkFn
    \/ RemoveDeadsFile

DeadSpec == DeadInit /\ [][DeadNext]_deadVars

\* The compiler is one thread that runs until it is done.
DeadFairSpec == DeadSpec /\ WF_deadVars(DeadNext)

-----------------------------------------------------------------------------
(* Properties.                                                             *)

DeadTypeOK ==
    /\ agenda \in Seq(Task)
    /\ live \subseteq Defs /\ byMethod \subseteq live \intersect Structs
    /\ refers \in [Defs -> Seq(Defs)]
    /\ file \in Nat /\ left \subseteq Defs /\ implemented \in [Traits -> SUBSET Structs]

\* With a definition in S, everything that it needs is in S: what it refers to,
\* the structure that a method is called on, the methods of a trait, and those
\* of a live structure that was not first met through one of them.
Closed(S) ==
    /\ ToSet(Roots) \subseteq S
    /\ \A d \in S : ToSet(refers[d]) \subseteq S
    /\ \A f \in S \intersect Fns : Receiver[f] \in S \union {None}
    /\ \A t \in S \intersect Traits : ToSet(MethodsOf[t]) \subseteq S
    /\ \A s \in (S \intersect Structs \intersect live) \ byMethod : ToSet(MethodsOf[s]) \subseteq S

\* What is marked is closed, and nothing is marked in vain: no smaller set is
\* closed.
MarkExact ==
    agenda = << >> =>
        /\ Closed(live)
        /\ \A S \in SUBSET live : Closed(S) => S = live

Done == file > Len(Files)

\* What is left when every file has been swept.  Functions, variables and traits
\* are left exactly if they are live; so are structures, but for one of which
\* only a static method is: what its fields refer to may have been removed.
\* A trait that is left lists every structure left that implements it, and
\* removed ones only from later files; and a structure that was not first met
\* through a method has every method that the trait calls.
Swept == UNION {Files[i] : i \in DOMAIN Files}
SweepSound ==
    Done =>
        /\ \A d \in Swept \ Structs : d \in left <=> d \in live
        /\ \A s \in Swept \intersect Structs :
              s \in left /\ s \notin live =>
                  \E m \in ToSet(MethodsOf[s]) : m \in live /\ Receiver[m] = None
        /\ live \subseteq left
        /\ \A d \in left \intersect live : ToSet(refers[d]) \subseteq left
        /\ \A t \in Swept \intersect Traits \intersect live :
              /\ Implements[t] \intersect left \subseteq implemented[t]
              /\ \A s \in implemented[t] \ left :
                    \E i, j \in DOMAIN Files : i < j /\ t \in Files[i] /\ s \in Files[j]
              /\ \A s \in (implemented[t] \intersect live) \ byMethod :
                    ToSet(MethodsOf[s]) \subseteq left

\* Marking ends on every program, also where definitions refer to each other,
\* and then so does the sweep.
Terminates == <>Done
=============================================================================
