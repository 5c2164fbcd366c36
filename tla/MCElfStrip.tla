------------------------------ MODULE MCElfStrip ------------------------------
(* Small instances of ElfStrip: which paths are hard links of one inode,    *)
(* what they are called and what the files are.                             *)
EXTENDS ElfStrip, TLC

CONSTANTS p1, p2, p3, i1, i2, i3, n1, n2, n3, id1, id2, id3

Linked  == [type |-> "Linked", debug |-> TRUE, short |-> TRUE]
Bare    == [type |-> "Linked", debug |-> FALSE, short |-> FALSE]
Plain(t) == [type |-> t, debug |-> FALSE, short |-> FALSE]

OwnPaths  == {p1, p2, p3}
OwnNameOf == p1 :> n1 @@ p2 :> n2 @@ p3 :> n3

\* Three files of their own; the third has no build-id.
OwnInodes    == {i1, i2, i3}
OwnInodeOf   == p1 :> i1 @@ p2 :> i2 @@ p3 :> i3
OwnBuildIdOf == i1 :> id1 @@ i2 :> id2 @@ i3 :> NoBuildId
OwnFiles == { i1 :> Linked @@ i2 :> f @@ i3 :> g :
                f \in {Linked, Plain("Relocatable"), Plain("LLVM_IR")},
                g \in {Linked, Bare, Plain("Static"), Plain("Invalid")} }

\* Two hard links of one inode, and another file.
LinkInodes    == {i1, i2}
LinkInodeOf   == p1 :> i1 @@ p2 :> i1 @@ p3 :> i2
LinkBuildIdOf == i1 :> id1 @@ i2 :> id2
LinkFiles     == { i1 :> Linked @@ i2 :> Linked }
=============================================================================
