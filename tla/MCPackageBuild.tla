--------------------------- MODULE MCPackageBuild ---------------------------
(***************************************************************************)
(* Small instances of PackageBuild.  Nothing tells two subtargets, or two   *)
(* configuration files, apart.                                             *)
(***************************************************************************)
EXTENDS PackageBuild, TLC

Alike == Permutations(Caps) \cup Permutations(Etc)
=============================================================================
