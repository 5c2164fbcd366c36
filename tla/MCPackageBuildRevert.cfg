SPECIFICATION Spec
CONSTANTS
    Forward = {}
    Reverse = {r1}
    Fuzzy = {}
    Files = {lib}
    Etc = {}
    Libs = {lib}
    Caps = {}
    ABQA = {TRUE}
    ABSPLITDBG = FALSE
    ABSTAGE2 = FALSE
    ABPATCHLAX = FALSE
    MaxRuns = 2
INVARIANT TreeMatchesPatches
