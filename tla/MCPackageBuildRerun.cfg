SPECIFICATION Spec
CONSTANTS
    Forward = {f1, f2}
    Reverse = {r1}
    Fuzzy = {r1}
    Files = {etc1, lib}
    Etc = {etc1}
    Libs = {lib}
    Caps = {v3, v4}
    ABQA = {TRUE, FALSE}
    ABSPLITDBG = FALSE
    ABSTAGE2 = FALSE
    ABPATCHLAX = FALSE
    MaxRuns = 2
INVARIANTS TypeOK TreeMatchesPatches OnlySubtargetsAreStale   ArchiveComplete ConffilesOfOwnRun
SYMMETRY Alike
