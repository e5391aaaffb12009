SPECIFICATION FairSpec
CONSTANTS
    NStructs = 3
    Aliases = {a1}
INVARIANTS DependsAcyclic RejectsOnlyCycles Ordered
PROPERTIES Ends
CHECK_DEADLOCK FALSE
