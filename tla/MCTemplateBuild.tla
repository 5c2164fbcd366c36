--------------------------- MODULE MCTemplateBuild ---------------------------
(***************************************************************************)
(* Small instances of TemplateBuild: one HWCAPS subtarget is enough for    *)
(* the objects and directories of two targets to meet.                     *)
(***************************************************************************)
EXTENDS TemplateBuild
=============================================================================
