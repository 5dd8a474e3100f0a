CONSTANTS
    Value = {0, 1, 2}
    Key = {alice, bob}
    Fill = 0
    Bad = bad
    Absent = absent
    Var = {x, y}
    Nil = nil
    MaxItems = 2
SPECIFICATION Spec
SYMMETRY Symmetry
INVARIANTS TypeOK
PROPERTIES OwnKeyDecides NothingIsRevoked
