SPECIFICATION Spec
CONSTANTS
    Types = {"self", "autotools", "autosetup", "cmake", "cmakeninja", "meson", "waf", "qtproj", "perl",
             "dune", "gomod", "pep517", "rust", "python", "ruby", "npm", "dummy"}
    Caps = {v3}
    Shadow = {TRUE, FALSE}
    MaxRuns = 2
INVARIANTS TypeOK   RunsWhereConfigured OwnObjects
