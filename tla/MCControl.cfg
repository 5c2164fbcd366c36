SPECIFICATION Spec
CONSTANTS
    lib = lib  pkg = pkg
    Packages = {lib, pkg}
    PKGNAME = pkg
    Nameless = nameless
    Versions = {1, 2}
    Defines <- SomeFields
INVARIANTS RelationsMeant 
CHECK_DEADLOCK FALSE
