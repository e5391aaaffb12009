SPECIFICATION Spec
CONSTANTS
    Threads = {t1, t2}
    Vars = {x, y}
    Buffers = {b1, b2}
    Nil = Nil
    MaxLen = 2
    NilAssign = TRUE
SYMMETRY Symmetry
INVARIANTS CountExact NoDangling WindowInBuffer
PROPERTIES FreedWithLast
CHECK_DEADLOCK FALSE
