SPECIFICATION Spec
CONSTANTS
    name = name  bins = bins  count = count
    Names = {bins, count}
    Kind <- Types
    Words = {x, y}
    Functions = {f, g}
    Envs = {e1, e2}
    MaxDepth = 2
    MaxCaptures = 1
    Null = null
INVARIANTS TypeOK OneOwner FirstCallWorks
PROPERTIES ImplementsClosures
CHECK_DEADLOCK FALSE
SYMMETRY Alike
