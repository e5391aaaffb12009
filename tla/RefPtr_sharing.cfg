SPECIFICATION Spec
CONSTANTS
    Threads = {t1, t2}
    Vars = {x, y}
    Cells = {c1, c2, c3}
    Nil = Nil
    SelfAdvance = FALSE
SYMMETRY Symmetry
INVARIANTS CountExact NoDangling Reclaimed
PROPERTIES AssignTakesSource
CHECK_DEADLOCK FALSE
