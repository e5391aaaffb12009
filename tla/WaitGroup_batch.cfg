SPECIFICATION FairSpec
CONSTANTS
    Tasks = {t1, t2, t3}
    Waiters = {m, w1, w2}
    Strays = {s1}
    Main = m
    BatchAdd = TRUE
    Modulus = 8
INVARIANTS NoEarlyReturn PanicExact
PROPERTIES JoinSpecHolds CallsReturn
CHECK_DEADLOCK FALSE
