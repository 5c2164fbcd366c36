SPECIFICATION Spec
CONSTANTS
    Arrays = {A, B}
    Cells = {c1, c2, c3, c4}
    x = x  y = y
    Words = {x, y}
    Trap = trap
    Comment = comment
    Null = null
    Files <- Listings
    OwnScripts = TRUE
INVARIANTS TypeOK  CountExact TrapIsSet ConcatEnds
PROPERTIES ImplementsLists
CHECK_DEADLOCK FALSE
SYMMETRY AnyArray
