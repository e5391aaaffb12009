--------------------------- MODULE MC_DeadDefines ----------------------------
(* A program for DeadDefines of two files: a trait and a structure that     *)
(* implements it, with a second and a static method; then another such      *)
(* structure, a variable, a function and main.                              *)
EXTENDS DeadDefines

CONSTANTS main, f, v, S, Sget, Sset, Snew, R, Rget, T, Tget

MCMethodsOf == [d \in {S, R, T} |->
    CASE d = S -> <<Sget, Sset, Snew>> [] d = R -> <<Rget>> [] d = T -> <<Tget>>]
MCReceiver == [d \in Fns |->
    CASE d \in {Sget, Sset} -> S [] d = Rget -> R [] OTHER -> None]
MCImplements == [d \in {T} |-> {S, R}]
MCRoots == <<main>>
MCFiles == <<{T, S, Sget, Sset, Snew}, {R, Rget, v, f, main}>>

\* Types are what fields refer to; bodies and variables have enough to choose
\* from for every kind of reference and for cycles of calls.
MCMayRefer == [d \in Defs |->
    CASE d = main -> {f, v, S, Sget, Snew, T}
      [] d = f    -> {R, Rget, f}
      [] d = v    -> {S}
      [] d = S    -> {R, T}
      [] d = Sget -> {Sset, v}
      [] d = Sset -> {Sget, R}
      [] d = Snew -> {f}
      [] d = R    -> {S, T}
      [] d = Rget -> {T}
      [] d = Tget -> {R}
      [] d = T    -> {}]
MCMaxRefs == [d \in Defs |-> CASE d = main -> 2 [] d = T -> 0 [] OTHER -> 1]
=============================================================================
