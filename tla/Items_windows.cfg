\* Two slices of up to two items, in buffers of up to four, and an array of one.
SPECIFICATION Spec
CONSTANTS
    Vars = {x, y}
    Tmp = Tmp
    Values = {u, v}
    Junk = Junk
    Emptied = Emptied
    N = 1
    MaxLen = 2
    MaxCap = 4
    NotRunning = NotRunning
SYMMETRY Symmetric
INVARIANTS WindowsSound Appends Copies 
CHECK_DEADLOCK FALSE
