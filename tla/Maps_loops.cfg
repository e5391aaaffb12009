\* A map of up to three entries and one of up to one; two keys and NaN.
SPECIFICATION MapsSpec
CONSTANTS
    m = m
    n = n
    MapVars = {m, n}
    NaN = NaN
    Keys = {k1, k2, NaN}
    Zero = Zero
    Vals = {Zero, x}
    MaxSize <- Lengths
    None = None
SYMMETRY Symmetric
INVARIANTS ReadsAgree LoopsVisit
PROPERTIES AsFunctions
CHECK_DEADLOCK FALSE
