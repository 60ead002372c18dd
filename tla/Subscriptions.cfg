SPECIFICATION MCSpec
CONSTANTS
    p1 = p1
    p2 = p2
    Policies = {p1, p2}
    Values = {a, b}
    First = a
    Err = Err
    Nil = Nil
    MaxEvents = 3
PROPERTY
    CatchesUp
