SPECIFICATION Spec
CONSTANTS
    Callers = {p1, p2, p3}
    Values = {v1, v2, v3}
    Natives = {n1, n2}
    Nil = Nil
    Wrap = 4
    OverwritesActive = FALSE
    SelfWaits = FALSE
SYMMETRY Symmetry
INVARIANTS CountExact UsedInTurn
CHECK_DEADLOCK FALSE
