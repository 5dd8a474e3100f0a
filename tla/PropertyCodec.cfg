CONSTANTS
    Value = {zero, a}
    Key = {k1, k2}
    Fill = zero
    Bad = bad
    Absent = absent
    Huge = huge
    Largest = a
    MaxLen = 2
    MaxItems = 2
SPECIFICATION Spec
INVARIANTS TypeOK LoopInv ReadBack
PROPERTIES NothingRemoved RefinesStore CallEnds
