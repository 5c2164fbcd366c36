SPECIFICATION Spec
CONSTANTS
    Forward = {}
    Reverse = {}
    Fuzzy = {}
    Files = {lib, so}
    Etc = {}
    Libs = {lib, so}
    Caps = {v3}
    ABQA = {TRUE}
    ABSPLITDBG = FALSE
    ABSTAGE2 = FALSE
    ABPATCHLAX = FALSE
    MaxRuns = 2
INVARIANT PackageIsFresh
