\* Two structures, one trait, a variable and seven functions.
SPECIFICATION DeadFairSpec
CONSTANTS
    main = main
    f = f
    v = v
    S = S
    Sget = Sget
    Sset = Sset
    Snew = Snew
    R = R
    Rget = Rget
    T = T
    Tget = Tget
    None = None
    Fns = {main, f, Sget, Sset, Snew, Rget, Tget}
    Vars = {v}
    Structs = {S, R}
    Traits = {T}
    MethodsOf <- MCMethodsOf
    Receiver <- MCReceiver
    Implements <- MCImplements
    Roots <- MCRoots
    Files <- MCFiles
    MayRefer <- MCMayRefer
    MaxRefs <- MCMaxRefs
INVARIANTS MarkExact SweepSound
PROPERTIES Terminates
CHECK_DEADLOCK FALSE
