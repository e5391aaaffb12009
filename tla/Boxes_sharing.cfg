\* Two pointers, two values of type any and one of a trait over three objects.
SPECIFICATION Spec
CONSTANTS
    Ptrs = {p1, p2}
    Anys = {a1, a2}
    Traits = {t1}
    Cells = {c1, c2, c3}
    Node = Node
    List = List
    Nil = Nil
    Tmp = Tmp
    SwapSame = FALSE
SYMMETRY Symmetric
INVARIANTS MemorySafe AssignsAndSwaps EqAgrees
PROPERTIES ValuesFrozen
CHECK_DEADLOCK FALSE
