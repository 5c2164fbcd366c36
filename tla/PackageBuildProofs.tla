------------------------- MODULE PackageBuildProofs -------------------------
(***************************************************************************)
(* Proofs about PackageBuild, for any patches, files, switches and number  *)
(* of runs.                                                                *)
(***************************************************************************)
EXTENDS PackageBuild, TLAPS

USE BuildAssumption DEF BuildAssumption

\* The order of the scripts, stage by stage.
LEMMA Order ==
  /\ Stages = {"qa_pre", "cleanup", "setup", "patch", "build", "hwcaps", "filters",
               "overrides", "licenses", "conffiles", "scriptlets", "qa_post", "pack",
               "debug", "install", "archive"}
  /\ After["qa_pre"] = "cleanup" /\ After["cleanup"] = "setup" /\ After["setup"] = "patch"
  /\ After["patch"] = "build" /\ After["build"] = "hwcaps" /\ After["hwcaps"] = "filters"
  /\ After["filters"] = "overrides" /\ After["overrides"] = "licenses"
  /\ After["licenses"] = "conffiles" /\ After["conffiles"] = "scriptlets"
  /\ After["scriptlets"] = "qa_post" /\ After["qa_post"] = "pack"
  /\ After["pack"] = "debug" /\ After["debug"] = "install"
  /\ After["install"] = "archive" /\ After["archive"] = "idle"
BY DEF After, Stages

\* Overwriting files keeps a directory a set of entries.
LEMMA WriteType ==
  ASSUME NEW S \in SUBSET Entries, NEW I \in SUBSET Items, NEW r \in Runs
  PROVE  Write(S, I, r) \in SUBSET Entries
BY DEF Write, Entries

\* The libraries of a subtarget have names of their own in the package.
LEMMA HarvestType ==
  ASSUME NEW c \in Caps, dist[c] \subseteq Libs \X Runs
  PROVE  Harvested(c) \in SUBSET Entries
BY DEF Harvested, Entries, Items

-----------------------------------------------------------------------------
(* Types.                                                                  *)

\* PKGDIR names a subtarget's directory during the subtargets' builds only, and such a
\* directory receives nothing but that subtarget's libraries.
DirInv ==
  /\ \A c \in Caps : dist[c] \subseteq Libs \X Runs
  /\ pc = "harvest" => PKGDIR \in Caps
  /\ pc \notin {"hwcaps", "harvest", "idle"} => PKGDIR = "abdist"

\* Every step of a run, of its death and of its maintainer keeps the types.
LEMMA TypeStep == TypeOK /\ DirInv /\ [Next]_vars => TypeOK'
<1> SUFFICES ASSUME TypeOK, DirInv, [Next]_vars PROVE TypeOK'
  OBVIOUS
<1> USE DEF TypeOK, source, build, config, shell, outside, Runs, Patches, Die, Proceed
<1> USE Order
<1>1. CASE StartRun
  BY <1>1 DEF StartRun
<1>2. CASE RemoveLog
  BY <1>2 DEF RemoveLog
<1>3. CASE UnpackAgain
  BY <1>3 DEF UnpackAgain, Pristine, Unbuilt, Written
<1>4. CASE Stop
  BY <1>4 DEF Stop
<1>5. CASE QaPre
  BY <1>5 DEF QaPre, Qa, QaScripts
<1>6. CASE Cleanup
  BY <1>6 DEF Cleanup
<1>7. CASE Setup
  BY <1>7 DEF Setup, Quiet
<1>8. CASE PatchSkip
  BY <1>8 DEF PatchSkip
<1>9. CASE PatchBegin
  BY <1>9 DEF PatchBegin
<1>10. CASE TouchMark
  BY <1>10 DEF TouchMark
<1>11. ASSUME NEW p \in Forward, ab_apply_patches(p) PROVE TypeOK'
  BY <1>11 DEF ab_apply_patches, Patched, PatchFails
<1>12. ASSUME NEW p \in Reverse, ab_reverse_patches(p) PROVE TypeOK'
  BY <1>12 DEF ab_reverse_patches, Patched, PatchFails
<1>13. CASE Build
  <2>1. PICK F \in SUBSET Files :
          /\ dist' = [dist EXCEPT ![PKGDIR] = Write(@, F, run)]
          /\ exists' = IF F = {} THEN exists ELSE exists \cup {"abdist"}
    BY <1>13 DEF Build
  <2>2. Write(dist[PKGDIR], F, run) \in SUBSET Entries
    BY <1>13, <2>1, WriteType DEF Build, Items
  <2>3. dist' \in [{"abdist"} \cup Caps -> SUBSET Entries]
    BY <2>1, <2>2
  <2> QED BY <1>13, <2>1, <2>3 DEF Build
<1>14. ASSUME NEW c \in Caps, HwcapsBuild(c) PROVE TypeOK'
  <2>1. PICK F \in SUBSET Libs : dist' = [dist EXCEPT ![c] = Write(@, F, run)]
    BY <1>14 DEF HwcapsBuild
  <2>2. Write(dist[c], F, run) \in SUBSET Entries
    BY <1>14, <2>1, WriteType DEF HwcapsBuild, Items
  <2>3. dist' \in [{"abdist"} \cup Caps -> SUBSET Entries]
    BY <2>1, <2>2
  <2> QED BY <1>14, <2>3 DEF HwcapsBuild
<1>15. CASE HwcapsHarvest
  <2>1. Harvested(PKGDIR) \in SUBSET Entries
    BY <1>15, HarvestType DEF HwcapsHarvest, DirInv
  <2>2. dist' \in [{"abdist"} \cup Caps -> SUBSET Entries]
    <3>1. dist' = dist \/ dist' = [dist EXCEPT !["abdist"] = @ \cup Harvested(PKGDIR)]
      BY <1>15 DEF HwcapsHarvest
    <3>2. dist["abdist"] \cup Harvested(PKGDIR) \in SUBSET Entries
      BY <2>1
    <3> HIDE DEF TypeOK
    <3>3. dist \in [{"abdist"} \cup Caps -> SUBSET Entries]
      BY DEF TypeOK
    <3> QED BY <3>1, <3>2, <3>3
  <2> QED BY <1>15, <2>2 DEF HwcapsHarvest
<1>16. CASE HwcapsDone
  BY <1>16 DEF HwcapsDone
<1>17. CASE Filters
  BY <1>17 DEF Filters, Write, Names, Items, Entries
<1>18. CASE Overrides
  <2>1. PICK F \in SUBSET Files : dist' = [dist EXCEPT ![PKGDIR] = Write(@, F, run)]
    BY <1>18 DEF Overrides
  <2>2. Write(dist[PKGDIR], F, run) \in SUBSET Entries
    BY <1>18, <2>1, WriteType DEF Overrides, Items
  <2>3. dist' \in [{"abdist"} \cup Caps -> SUBSET Entries]
    BY <2>1, <2>2
  <2> QED BY <1>18, <2>3 DEF Overrides
<1>19. CASE Licenses
  BY <1>19 DEF Licenses, Quiet
<1>20. CASE Conffiles
  <2> DEFINE etc == Names(dist[PKGDIR]) \cap Etc
  <2>1. etc \in SUBSET Etc
    OBVIOUS
  <2> HIDE DEF etc
  <2>2. \/ UNCHANGED <<conf, confBy, exists>>
        \/ conf' = etc /\ confBy' = run /\ exists' = exists \cup {"conffiles"}
    BY <1>20 DEF Conffiles, etc
  <2>3. conf' \subseteq Etc /\ confBy' \in 0..MaxRuns
        /\ exists' \subseteq {".patch", "abdist", "conffiles"}
    BY <1>20, <2>1, <2>2 DEF Conffiles
  <2> QED BY <1>20, <2>3 DEF Conffiles
<1>21. CASE Scriptlets
  BY <1>21 DEF Scriptlets
<1>22. CASE QaPost
  BY <1>22 DEF QaPost, Qa, QaScripts
<1>23. CASE pm_build_package
  <2> DEFINE d == [kind |-> "main", run |-> run, entries |-> dist[PKGDIR],
                   conf |-> IF ListsConffiles THEN conf ELSE {},
                   confBy |-> IF ListsConffiles THEN confBy ELSE run, scripts |-> scripts]
  <2>1. d \in Deb
    <3>1. pc = "pack" /\ run \in Runs
      BY <1>23 DEF pm_build_package
    <3>2. (IF ListsConffiles THEN confBy ELSE run) \in 0..MaxRuns
      OBVIOUS
    <3>3. (IF ListsConffiles THEN conf ELSE {}) \subseteq Etc
      OBVIOUS
    <3>4. dist[PKGDIR] \subseteq Entries /\ scripts \subseteq Runs
      OBVIOUS
    <3> HIDE DEF TypeOK
    <3> QED BY <3>1, <3>2, <3>3, <3>4 DEF Deb
  <2>2. \/ pc' = "idle" /\ pkgs' = pkgs
        \/ pc' = "debug" /\ pkgs' = pkgs \cup {d}
    BY <1>23 DEF pm_build_package
  <2> HIDE DEF d
  <2>3. pkgs' \subseteq Deb
    BY <2>1, <2>2
  <2> QED BY <1>23, <2>2, <2>3 DEF pm_build_package
<1>24. CASE PackDebug
  BY <1>24 DEF PackDebug, Deb
<1>25. ASSUME NEW d \in pkgs, pm_install_all(d) PROVE TypeOK'
  BY <1>25 DEF pm_install_all
<1>26. CASE InstallDone
  BY <1>26 DEF InstallDone
<1>27. CASE Archive
  BY <1>27 DEF Archive
<1>28. CASE UNCHANGED vars
  BY <1>28 DEF vars
<1> QED BY <1>1, <1>2, <1>3, <1>4, <1>5, <1>6, <1>7, <1>8, <1>9, <1>10, <1>11, <1>12, <1>13, <1>14, <1>15, <1>16, <1>17, <1>18, <1>19, <1>20, <1>21, <1>22, <1>23, <1>24, <1>25, <1>26, <1>27, <1>28 DEF Next, Run

\* Every step keeps the subtargets' directories apart.
LEMMA DirStep == TypeOK /\ DirInv /\ [Next]_vars => DirInv'
<1> SUFFICES ASSUME TypeOK, DirInv, [Next]_vars PROVE DirInv'
  OBVIOUS
<1> USE DEF TypeOK, DirInv, source, build, config, shell, outside, Die, Proceed
<1> USE Order
<1>1. CASE StartRun
  BY <1>1 DEF StartRun
<1>2. CASE RemoveLog
  BY <1>2 DEF RemoveLog
<1>3. CASE UnpackAgain
  BY <1>3 DEF UnpackAgain, Unbuilt
<1>4. CASE Stop
  BY <1>4 DEF Stop
<1>5. CASE QaPre
  BY <1>5 DEF QaPre, Qa
<1>6. CASE Cleanup
  BY <1>6 DEF Cleanup
<1>7. CASE Setup
  BY <1>7 DEF Setup, Quiet
<1>8. CASE PatchSkip
  BY <1>8 DEF PatchSkip
<1>9. CASE PatchBegin
  BY <1>9 DEF PatchBegin
<1>10. CASE TouchMark
  BY <1>10 DEF TouchMark
<1>11. ASSUME NEW p \in Forward, ab_apply_patches(p) PROVE DirInv'
  BY <1>11 DEF ab_apply_patches, Patched, PatchFails
<1>12. ASSUME NEW p \in Reverse, ab_reverse_patches(p) PROVE DirInv'
  BY <1>12 DEF ab_reverse_patches, Patched, PatchFails
<1>13. CASE Build
  BY <1>13 DEF Build
<1>14. ASSUME NEW c \in Caps, HwcapsBuild(c) PROVE DirInv'
  BY <1>14 DEF HwcapsBuild, Write
<1>15. CASE HwcapsHarvest
  BY <1>15 DEF HwcapsHarvest
<1>16. CASE HwcapsDone
  BY <1>16 DEF HwcapsDone
<1>17. CASE Filters
  BY <1>17 DEF Filters
<1>18. CASE Overrides
  BY <1>18 DEF Overrides
<1>19. CASE Licenses
  BY <1>19 DEF Licenses, Quiet
<1>20. CASE Conffiles
  BY <1>20 DEF Conffiles
<1>21. CASE Scriptlets
  BY <1>21 DEF Scriptlets
<1>22. CASE QaPost
  BY <1>22 DEF QaPost, Qa
<1>23. CASE pm_build_package
  BY <1>23 DEF pm_build_package
<1>24. CASE PackDebug
  BY <1>24 DEF PackDebug
<1>25. ASSUME NEW d \in pkgs, pm_install_all(d) PROVE DirInv'
  BY <1>25 DEF pm_install_all
<1>26. CASE InstallDone
  BY <1>26 DEF InstallDone
<1>27. CASE Archive
  BY <1>27 DEF Archive
<1>28. CASE UNCHANGED vars
  BY <1>28 DEF vars
<1> QED BY <1>1, <1>2, <1>3, <1>4, <1>5, <1>6, <1>7, <1>8, <1>9, <1>10, <1>11, <1>12, <1>13, <1>14, <1>15, <1>16, <1>17, <1>18, <1>19, <1>20, <1>21, <1>22, <1>23, <1>24, <1>25, <1>26, <1>27, <1>28 DEF Next, Run

\* Both hold in every reachable state.
LEMMA Typed == Spec => [](TypeOK /\ DirInv)
<1>1. Init => TypeOK /\ DirInv
  BY DEF Init, TypeOK, DirInv, Patches, Pristine, Unbuilt, Written, Runs
<1> QED BY <1>1, TypeStep, DirStep, PTL DEF Spec

\* Whatever is on the disk and in the shell's variables has the type the scripts give it.
THEOREM TypeCorrect == Spec => []TypeOK
BY Typed, PTL

-----------------------------------------------------------------------------
(* The QA gate.                                                            *)

Packages == pkgs \cup installed \cup archive

\* The run that reports an error dies before it packs, and its number is not used again.
GateInv ==
  /\ NoBuildOverErrors
  /\ QaGate
  /\ \A d \in Packages : d.run <= run
  /\ pc \notin {"pack", "debug", "install", "archive", "idle"} =>
        \A d \in Packages : d.run # run
  /\ \A r \in errs : r <= run
  /\ pc # "idle" => run \notin errs

\* Every step keeps the gate.
LEMMA GateStep == TypeOK /\ TypeOK' /\ GateInv /\ [Next]_vars => GateInv'
<1> SUFFICES ASSUME TypeOK, TypeOK', GateInv, [Next]_vars PROVE GateInv'
  OBVIOUS
<1> USE DEF GateInv, NoBuildOverErrors, QaGate, Packages
<1> USE DEF source, build, config, shell, outside, Die, Proceed
<1> USE Order
<1>0. /\ run \in Nat /\ run' \in Nat
      /\ \A d \in Packages : d.run \in Nat
      /\ \A r \in errs : r \in Nat
  BY DEF TypeOK, Deb, Runs
<1> USE <1>0
<1>1. CASE StartRun
  BY <1>1 DEF StartRun
<1>2. CASE RemoveLog
  BY <1>2 DEF RemoveLog
<1>3. CASE UnpackAgain
  BY <1>3 DEF UnpackAgain
<1>4. CASE Stop
  BY <1>4 DEF Stop
<1>5. CASE QaPre
  BY <1>5 DEF QaPre, Qa, QaScripts
<1>6. CASE Cleanup
  BY <1>6 DEF Cleanup
<1>7. CASE Setup
  BY <1>7 DEF Setup, Quiet
<1>8. CASE PatchSkip
  BY <1>8 DEF PatchSkip
<1>9. CASE PatchBegin
  BY <1>9 DEF PatchBegin
<1>10. CASE TouchMark
  BY <1>10 DEF TouchMark
<1>11. ASSUME NEW p \in Forward, ab_apply_patches(p) PROVE GateInv'
  BY <1>11 DEF ab_apply_patches, Patched, PatchFails
<1>12. ASSUME NEW p \in Reverse, ab_reverse_patches(p) PROVE GateInv'
  BY <1>12 DEF ab_reverse_patches, Patched, PatchFails
<1>13. CASE Build
  BY <1>13 DEF Build
<1>14. ASSUME NEW c \in Caps, HwcapsBuild(c) PROVE GateInv'
  BY <1>14 DEF HwcapsBuild
<1>15. CASE HwcapsHarvest
  BY <1>15 DEF HwcapsHarvest
<1>16. CASE HwcapsDone
  BY <1>16 DEF HwcapsDone
<1>17. CASE Filters
  BY <1>17 DEF Filters
<1>18. CASE Overrides
  BY <1>18 DEF Overrides
<1>19. CASE Licenses
  BY <1>19 DEF Licenses, Quiet
<1>20. CASE Conffiles
  BY <1>20 DEF Conffiles
<1>21. CASE Scriptlets
  BY <1>21 DEF Scriptlets
<1>22. CASE QaPost
  BY <1>22 DEF QaPost, Qa, QaScripts
<1>23. CASE pm_build_package
  BY <1>23 DEF pm_build_package
<1>24. CASE PackDebug
  BY <1>24 DEF PackDebug
<1>25. ASSUME NEW d \in pkgs, pm_install_all(d) PROVE GateInv'
  BY <1>25 DEF pm_install_all
<1>26. CASE InstallDone
  BY <1>26 DEF InstallDone
<1>27. CASE Archive
  BY <1>27 DEF Archive
<1>28. CASE UNCHANGED vars
  BY <1>28 DEF vars
<1> QED BY <1>1, <1>2, <1>3, <1>4, <1>5, <1>6, <1>7, <1>8, <1>9, <1>10, <1>11, <1>12, <1>13, <1>14, <1>15, <1>16, <1>17, <1>18, <1>19, <1>20, <1>21, <1>22, <1>23, <1>24, <1>25, <1>26, <1>27, <1>28 DEF Next, Run

\* The gate is there in every reachable state.
LEMMA Gated == Spec => []GateInv
<1>1. Init => GateInv
  BY DEF Init, GateInv, NoBuildOverErrors, QaGate, Packages
<1>2. TypeOK /\ TypeOK' /\ GateInv /\ [Next]_vars => GateInv'
  BY GateStep
<1> QED BY <1>1, <1>2, Typed, PTL DEF Spec

\* A package of a run that reported a QA error is never packed, installed or archived.
THEOREM QaErrorsStopPackages == Spec => []QaGate
BY Gated, PTL DEF GateInv

\* No stage after the first works while abqaerr.log has anything in it.
THEOREM OldErrorsStopRuns == Spec => []NoBuildOverErrors
BY Gated, PTL DEF GateInv

-----------------------------------------------------------------------------
(* Patches.                                                                *)

\* A tree whose marker is missing is pristine as far as reverse patches go, unless every
\* forward patch is in; then 40-patch.sh dies on the first of them.
PatchInv ==
  /\ ".patch" \in exists => \A p \in Patches : tree[p] = Goal(p)
  /\ pc = "patching" => ".patch" \notin exists
  /\ pc \in AfterPatch => ".patch" \in exists \/ Patches = {}
  /\ ".patch" \notin exists =>
        \/ \A p \in Reverse : tree[p] = "in"
        \/ \A p \in Forward : tree[p] = "in"
  /\ pc = "patching" =>
        /\ \A p \in Patches \ todo : tree[p] = Goal(p)
        /\ Forward \ todo # {} => \A p \in Reverse \cap todo : tree[p] = "in"

ForwardFirst == Forward # {} \/ Reverse = {}

\* With a forward patch among them, every step keeps the tree's patches in order.
LEMMA PatchStep ==
  ASSUME ForwardFirst
  PROVE  TypeOK /\ PatchInv /\ [Next]_vars => PatchInv'
<1> SUFFICES ASSUME TypeOK, PatchInv, [Next]_vars PROVE PatchInv'
  OBVIOUS
<1> USE DEF PatchInv, AfterPatch
<1> USE DEF source, build, config, shell, outside, Die, Proceed
<1> USE Order
<1>1. CASE StartRun
  BY <1>1 DEF StartRun
<1>2. CASE RemoveLog
  BY <1>2 DEF RemoveLog
<1>3. CASE UnpackAgain
  BY <1>3 DEF UnpackAgain, Pristine, Patches, Written, Goal
<1>4. CASE Stop
  BY <1>4 DEF Stop
<1>5. CASE QaPre
  BY <1>5 DEF QaPre, Qa
<1>6. CASE Cleanup
  BY <1>6 DEF Cleanup
<1>7. CASE Setup
  BY <1>7 DEF Setup, Quiet
<1>8. CASE PatchSkip
  BY <1>8 DEF PatchSkip
<1>9. CASE PatchBegin
  BY <1>9 DEF PatchBegin, Patches
<1>10. CASE TouchMark
  BY <1>10 DEF TouchMark
<1>11. ASSUME NEW p \in Forward, ab_apply_patches(p) PROVE PatchInv'
  <2> USE DEF Goal, Patches
  <2>1. p \notin Reverse /\ tree \in [Patches -> {"in", "out", "half"}]
    BY DEF TypeOK
  <2>2. CASE tree[p] = "out" /\ Patched(p, "in")
    <3>1. \A q \in Reverse : tree[q] = "in" /\ tree'[q] = "in"
      BY <1>11, <2>1, <2>2 DEF ab_apply_patches, Patched
    <3>2. \A q \in Patches \ todo' : tree'[q] = Goal(q)
      BY <1>11, <2>1, <2>2 DEF ab_apply_patches, Patched
    <3> QED BY <1>11, <2>2, <3>1, <3>2 DEF ab_apply_patches, Patched
  <2>3. CASE PatchFails(p)
    <3>1. \/ \A q \in Reverse : tree'[q] = "in"
          \/ \A q \in Forward : tree'[q] = "in"
      BY <1>11, <2>1, <2>3 DEF ab_apply_patches, PatchFails
    <3> QED BY <1>11, <2>3, <3>1 DEF ab_apply_patches, PatchFails
  <2> QED BY <1>11, <2>2, <2>3 DEF ab_apply_patches
<1>12. ASSUME NEW p \in Reverse, ab_reverse_patches(p) PROVE PatchInv'
  <2> USE DEF Goal, Patches
  <2>1. p \notin Forward /\ tree \in [Patches -> {"in", "out", "half"}]
    BY DEF TypeOK
  <2>2. /\ \A q \in Forward : tree[q] = "in"
        /\ \A q \in Reverse \cap todo : tree[q] = "in"
    BY <1>12 DEF ab_reverse_patches, ForwardFirst
  <2>3. CASE Patched(p, "out")
    <3>1. \A q \in Forward : tree'[q] = "in"
      BY <2>1, <2>2, <2>3 DEF Patched
    <3>2. \A q \in Patches \ todo' : tree'[q] = Goal(q)
      <4>1. \A q \in Patches \ todo : tree[q] = Goal(q)
        BY <1>12 DEF ab_reverse_patches
      <4>2. p \in Patches /\ Goal(p) = "out"
        BY <2>1
      <4>3. tree'[p] = "out" /\ \A q \in Patches \ {p} : tree'[q] = tree[q]
        BY <2>1, <2>3 DEF Patched
      <4>4. todo' = todo \ {p}
        BY <2>3 DEF Patched
      <4> HIDE DEF Goal, Patches
      <4> QED BY <4>1, <4>2, <4>3, <4>4
    <3>3. \A q \in Reverse \cap todo' : tree'[q] = "in"
      BY <2>1, <2>2, <2>3 DEF Patched
    <3> QED BY <1>12, <2>3, <3>1, <3>2, <3>3 DEF ab_reverse_patches, Patched
  <2>4. CASE PatchFails(p)
    <3>1. \A q \in Forward : tree'[q] = "in"
      BY <2>1, <2>2, <2>4 DEF PatchFails
    <3> QED BY <1>12, <2>4, <3>1 DEF ab_reverse_patches, PatchFails
  <2> QED BY <1>12, <2>2, <2>3, <2>4 DEF ab_reverse_patches
<1>13. CASE Build
  BY <1>13 DEF Build
<1>14. ASSUME NEW c \in Caps, HwcapsBuild(c) PROVE PatchInv'
  BY <1>14 DEF HwcapsBuild
<1>15. CASE HwcapsHarvest
  BY <1>15 DEF HwcapsHarvest
<1>16. CASE HwcapsDone
  BY <1>16 DEF HwcapsDone
<1>17. CASE Filters
  BY <1>17 DEF Filters
<1>18. CASE Overrides
  BY <1>18 DEF Overrides
<1>19. CASE Licenses
  BY <1>19 DEF Licenses, Quiet
<1>20. CASE Conffiles
  BY <1>20 DEF Conffiles
<1>21. CASE Scriptlets
  BY <1>21 DEF Scriptlets
<1>22. CASE QaPost
  BY <1>22 DEF QaPost, Qa
<1>23. CASE pm_build_package
  BY <1>23 DEF pm_build_package
<1>24. CASE PackDebug
  BY <1>24 DEF PackDebug
<1>25. ASSUME NEW d \in pkgs, pm_install_all(d) PROVE PatchInv'
  BY <1>25 DEF pm_install_all
<1>26. CASE InstallDone
  BY <1>26 DEF InstallDone
<1>27. CASE Archive
  BY <1>27 DEF Archive
<1>28. CASE UNCHANGED vars
  BY <1>28 DEF vars
<1> QED BY <1>1, <1>2, <1>3, <1>4, <1>5, <1>6, <1>7, <1>8, <1>9, <1>10, <1>11, <1>12, <1>13, <1>14, <1>15, <1>16, <1>17, <1>18, <1>19, <1>20, <1>21, <1>22, <1>23, <1>24, <1>25, <1>26, <1>27, <1>28 DEF Next, Run

\* The template runs on a tree that has each of its patches exactly once, however often
\* 40-patch.sh was cut short, if one of them is a forward patch.
THEOREM PatchesExactlyOnce ==
  ASSUME ForwardFirst
  PROVE  Spec => []TreeMatchesPatches
<1>1. Init => PatchInv
  BY DEF Init, PatchInv, Pristine, Patches, Written, AfterPatch, Goal, Stages, After
<1>2. TypeOK /\ PatchInv /\ [Next]_vars => PatchInv'
  BY PatchStep
<1>3. PatchInv => TreeMatchesPatches
  BY DEF PatchInv, TreeMatchesPatches
<1> QED BY <1>1, <1>2, <1>3, Typed, PTL DEF Spec

-----------------------------------------------------------------------------
(* Freshness.                                                              *)

\* The files of S that the package itself owns, not a subtarget, are of run r.
WrittenBy(S, r) == \A e \in S : e[1] \notin Caps \X Libs => e[2] = r
Fresh(d) == WrittenBy(d.entries, d.run) /\ d.scripts \subseteq {d.run}

\* Past 11-cleanup.sh, everything that can reach a package was written by this run.
FreshInv ==
  /\ pc \notin {"idle", "qa_pre", "cleanup"} =>
        WrittenBy(dist["abdist"], run) /\ WrittenBy(symdir, run) /\ scripts \subseteq {run}
  /\ \A d \in Packages : Fresh(d)

\* Every step keeps what an earlier run left out of the packages.
LEMMA FreshStep == TypeOK /\ DirInv /\ FreshInv /\ [Next]_vars => FreshInv'
<1> SUFFICES ASSUME TypeOK, DirInv, FreshInv, [Next]_vars PROVE FreshInv'
  OBVIOUS
<1>0. dist \in [{"abdist"} \cup Caps -> SUBSET Entries] /\ "abdist" \notin Caps
  BY BuildAssumption DEF TypeOK
<1> USE <1>0 DEF FreshInv, WrittenBy, Fresh, Packages
<1> USE DEF source, build, config, shell, outside, Die, Proceed
<1> USE Order
<1>1. CASE StartRun
  BY <1>1 DEF StartRun
<1>2. CASE RemoveLog
  BY <1>2 DEF RemoveLog
<1>3. CASE UnpackAgain
  BY <1>3 DEF UnpackAgain
<1>4. CASE Stop
  BY <1>4 DEF Stop
<1>5. CASE QaPre
  BY <1>5 DEF QaPre, Qa
<1>6. CASE Cleanup
  BY <1>6 DEF Cleanup
<1>7. CASE Setup
  BY <1>7 DEF Setup, Quiet
<1>8. CASE PatchSkip
  BY <1>8 DEF PatchSkip
<1>9. CASE PatchBegin
  BY <1>9 DEF PatchBegin
<1>10. CASE TouchMark
  BY <1>10 DEF TouchMark
<1>11. ASSUME NEW p \in Forward, ab_apply_patches(p) PROVE FreshInv'
  BY <1>11 DEF ab_apply_patches, Patched, PatchFails
<1>12. ASSUME NEW p \in Reverse, ab_reverse_patches(p) PROVE FreshInv'
  BY <1>12 DEF ab_reverse_patches, Patched, PatchFails
<1>13. CASE Build
  BY <1>13 DEF Build, Write
<1>14. ASSUME NEW c \in Caps, HwcapsBuild(c) PROVE FreshInv'
  BY <1>14 DEF HwcapsBuild
<1>15. CASE HwcapsHarvest
  <2>1. CASE dist[PKGDIR] = {}
    BY <1>15, <2>1 DEF HwcapsHarvest
  <2>2. CASE dist[PKGDIR] # {}
    <3>1. /\ pc = "harvest" /\ pc' = "hwcaps"
          /\ dist'["abdist"] = dist["abdist"] \cup Harvested(PKGDIR)
      BY <1>15, <2>2 DEF HwcapsHarvest
    <3>2. PKGDIR \in Caps
      BY <3>1 DEF DirInv
    <3>3. \A e \in Harvested(PKGDIR) : e[1] \in Caps \X Libs
      BY <3>2 DEF DirInv, Harvested
    <3> QED BY <1>15, <3>1, <3>3 DEF HwcapsHarvest
  <2> QED BY <2>1, <2>2
<1>16. CASE HwcapsDone
  BY <1>16 DEF HwcapsDone
<1>17. CASE Filters
  BY <1>17 DEF Filters, Write
<1>18. CASE Overrides
  BY <1>18 DEF Overrides, Write
<1>19. CASE Licenses
  BY <1>19 DEF Licenses, Quiet
<1>20. CASE Conffiles
  BY <1>20 DEF Conffiles
<1>21. CASE Scriptlets
  BY <1>21 DEF Scriptlets
<1>22. CASE QaPost
  BY <1>22 DEF QaPost, Qa
<1>23. CASE pm_build_package
  <2>1. pc = "pack" /\ PKGDIR = "abdist"
    BY <1>23 DEF pm_build_package, DirInv
  <2> QED BY <1>23, <2>1 DEF pm_build_package
<1>24. CASE PackDebug
  BY <1>24 DEF PackDebug
<1>25. ASSUME NEW d \in pkgs, pm_install_all(d) PROVE FreshInv'
  BY <1>25 DEF pm_install_all
<1>26. CASE InstallDone
  BY <1>26 DEF InstallDone
<1>27. CASE Archive
  BY <1>27 DEF Archive
<1>28. CASE UNCHANGED vars
  BY <1>28 DEF vars
<1> QED BY <1>1, <1>2, <1>3, <1>4, <1>5, <1>6, <1>7, <1>8, <1>9, <1>10, <1>11, <1>12, <1>13, <1>14, <1>15, <1>16, <1>17, <1>18, <1>19, <1>20, <1>21, <1>22, <1>23, <1>24, <1>25, <1>26, <1>27, <1>28 DEF Next, Run

\* With any subtargets and any number of runs, the package's own files, its symbols and
\* its scriptlets are those of the run that packed them.
THEOREM OnlyThisRunsFiles == Spec => []OnlySubtargetsAreStale
<1>1. Init => FreshInv
  BY DEF Init, FreshInv, Packages
<1>2. TypeOK /\ DirInv /\ FreshInv /\ [Next]_vars => FreshInv'
  BY FreshStep
<1>3. FreshInv => OnlySubtargetsAreStale
  BY DEF FreshInv, OnlySubtargetsAreStale, Packages, Fresh, WrittenBy
<1> QED BY <1>1, <1>2, <1>3, Typed, PTL DEF Spec

\* Without subtargets nothing in a package is older than the run that packed it: what
\* 11-cleanup.sh says of old build output is true of all but abdist-hwcaps-<cap>.
THEOREM FreshWithoutSubtargets == ASSUME Caps = {} PROVE Spec => []PackageIsFresh
<1>1. OnlySubtargetsAreStale => PackageIsFresh
  BY DEF OnlySubtargetsAreStale, PackageIsFresh, Tags
<1> QED
  BY <1>1, OnlyThisRunsFiles, PTL

-----------------------------------------------------------------------------
(* The archive.                                                            *)

\* The directory, or package, S has a library of subtarget c.
Has(S, c) == \E f \in Libs : <<c, f>> \in Names(S)

\* Dropping or writing files of the package's own does not touch a subtarget's libraries.
LEMMA HasKept ==
  ASSUME NEW S, NEW D \in SUBSET Files, NEW c \in Caps, Has(S, c)
  PROVE  Has({e \in S : e[1] \notin D}, c)
<1>1. PICK f \in Libs : <<c, f>> \in Names(S)
  BY DEF Has
<1>2. PICK e \in S : e[1] = <<c, f>>
  BY <1>1 DEF Names
<1>3. <<c, f>> \notin D
  BY <1>1
<1> QED BY <1>1, <1>2, <1>3 DEF Has, Names

LEMMA HasMore ==
  ASSUME NEW S, NEW T, S \subseteq T, NEW c \in Caps, Has(S, c)
  PROVE  Has(T, c)
BY DEF Has, Names

\* A subtarget with any library at all has one in the package once it is harvested.
LEMMA HasHarvested ==
  ASSUME NEW c \in Caps, dist[c] \subseteq Libs \X Runs, dist[c] # {}
  PROVE  Has(Harvested(c), c)
<1>1. PICK e \in dist[c] : e[1] \in Libs
  OBVIOUS
<1>2. <<<<c, e[1]>>, e[2]>> \in Harvested(c)
  BY <1>1 DEF Harvested
<1>3. <<c, e[1]>> \in Names(Harvested(c))
  BY <1>2 DEF Names
<1> QED BY <1>1, <1>3 DEF Has

\* The run's own packages, the symbols it has put aside, and the subtargets that are in
\* the package's directory already, stage by stage.
ArchiveInv ==
  /\ archive \subseteq installed
  /\ \A d \in pkgs : d.run = run
  /\ pc = "archive" => pkgs \subseteq installed
  /\ \A r \in split : r <= run
  /\ pc \in {"qa_pre", "cleanup", "setup", "patch", "patching", "build", "hwcaps",
            "harvest", "filters"} => run \notin split
  /\ pc \in {"overrides", "licenses", "conffiles", "scriptlets", "qa_post", "pack", "debug"}
        /\ run \in split => symdir # {}
  /\ pc \in {"install", "archive"} /\ run \in split => \E e \in pkgs : e.kind = "dbg"
  /\ \A d \in archive : d.run \in split => \E e \in archive : e.kind = "dbg" /\ e.run = d.run
  /\ pc \in {"qa_pre", "cleanup", "setup", "patch", "patching", "build"} => caps = Caps
  /\ pc \in {"hwcaps", "harvest"} =>
        \A c \in Caps \ caps : (pc = "harvest" /\ c = PKGDIR) \/ Has(dist["abdist"], c)
  /\ pc \in {"filters", "overrides", "licenses", "conffiles", "scriptlets", "qa_post", "pack"} =>
        \A c \in Caps : Has(dist["abdist"], c)
  /\ \A d \in pkgs \cup archive : d.kind = "main" => \A c \in Caps : Has(d.entries, c)

\* Every step keeps what the archive is owed.
LEMMA ArchiveStep ==
  TypeOK /\ DirInv /\ GateInv /\ ArchiveInv /\ [Next]_vars => ArchiveInv'
<1> SUFFICES ASSUME TypeOK, DirInv, GateInv, ArchiveInv, [Next]_vars PROVE ArchiveInv'
  OBVIOUS
<1>0. /\ run \in Nat
      /\ \A r \in split : r \in Nat
      /\ \A d \in archive : d.run \in Nat
      /\ dist \in [{"abdist"} \cup Caps -> SUBSET Entries] /\ "abdist" \notin Caps
  BY DEF TypeOK, Deb, Runs
<1> USE <1>0 DEF ArchiveInv
<1> USE DEF source, build, config, shell, outside, Die, Proceed
<1> USE Order
<1>1. CASE StartRun
  BY <1>1 DEF StartRun
<1>2. CASE RemoveLog
  BY <1>2 DEF RemoveLog
<1>3. CASE UnpackAgain
  BY <1>3 DEF UnpackAgain
<1>4. CASE Stop
  BY <1>4 DEF Stop
<1>5. CASE QaPre
  BY <1>5 DEF QaPre, Qa, QaScripts
<1>6. CASE Cleanup
  BY <1>6 DEF Cleanup
<1>7. CASE Setup
  BY <1>7 DEF Setup, Quiet
<1>8. CASE PatchSkip
  BY <1>8 DEF PatchSkip
<1>9. CASE PatchBegin
  BY <1>9 DEF PatchBegin
<1>10. CASE TouchMark
  BY <1>10 DEF TouchMark
<1>11. ASSUME NEW p \in Forward, ab_apply_patches(p) PROVE ArchiveInv'
  BY <1>11 DEF ab_apply_patches, Patched, PatchFails
<1>12. ASSUME NEW p \in Reverse, ab_reverse_patches(p) PROVE ArchiveInv'
  BY <1>12 DEF ab_reverse_patches, Patched, PatchFails
<1>13. CASE Build
  BY <1>13 DEF Build, Write, Names
<1>14. ASSUME NEW c \in Caps, HwcapsBuild(c) PROVE ArchiveInv'
  BY <1>14 DEF HwcapsBuild, Write, Names
<1>15. CASE HwcapsHarvest
  <2>1. CASE dist[PKGDIR] = {}
    BY <1>15, <2>1 DEF HwcapsHarvest
  <2>2. CASE dist[PKGDIR] # {}
    <3>1. PKGDIR \in Caps /\ dist[PKGDIR] \subseteq Libs \X Runs
      BY <1>15 DEF HwcapsHarvest, DirInv
    <3>2. dist'["abdist"] = dist["abdist"] \cup Harvested(PKGDIR)
      BY <1>15, <2>2 DEF HwcapsHarvest
    <3>3. \A c \in Caps \ caps : Has(dist'["abdist"], c)
      <4>1. Has(Harvested(PKGDIR), PKGDIR)
        BY <2>2, <3>1, HasHarvested
      <4>2. ASSUME NEW c \in Caps \ caps PROVE Has(dist'["abdist"], c)
        BY <1>15, <3>2, <4>1, HasMore DEF HwcapsHarvest
      <4> QED BY <4>2
    <3> QED BY <1>15, <2>2, <3>3 DEF HwcapsHarvest
  <2> QED BY <2>1, <2>2
<1>16. CASE HwcapsDone
  BY <1>16 DEF HwcapsDone
<1>17. CASE Filters
  <2>1. pc = "filters" /\ pc' = "overrides" /\ PKGDIR = "abdist"
    BY <1>17 DEF Filters, DirInv
  <2>2. PICK D \in SUBSET Files : dist' = [dist EXCEPT ![PKGDIR] = {e \in @ : e[1] \notin D}]
    BY <1>17 DEF Filters
  <2>3. \A c \in Caps : Has(dist'["abdist"], c)
    BY <2>1, <2>2, HasKept
  <2>4. PICK S \in SUBSET (Files \cap Names(dist[PKGDIR])) :
          /\ symdir' = Write(symdir, S, run)
          /\ split'  = IF S = {} THEN split ELSE split \cup {run}
    BY <1>17 DEF Filters
  <2>5. (run \in split' => symdir' # {}) /\ split' \subseteq split \cup {run}
    <3>1. CASE S = {}
      BY <2>1, <2>4, <3>1
    <3>2. CASE S # {}
      <4>1. PICK f \in S : TRUE
        BY <3>2
      <4>2. <<f, run>> \in symdir'
        BY <2>4, <4>1 DEF Write
      <4> QED BY <2>4, <4>2
    <3> QED BY <3>1, <3>2
  <2>6. \A d \in archive : d.run # run
    BY <2>1 DEF GateInv, Packages
  <2> QED BY <1>17, <2>1, <2>3, <2>5, <2>6 DEF Filters
<1>18. CASE Overrides
  <2>1. pc = "overrides" /\ pc' = "licenses" /\ PKGDIR = "abdist"
    BY <1>18 DEF Overrides, DirInv
  <2>2. PICK F \in SUBSET Files : dist' = [dist EXCEPT ![PKGDIR] = Write(@, F, run)]
    BY <1>18 DEF Overrides
  <2>3. {e \in dist["abdist"] : e[1] \notin F} \subseteq dist'["abdist"]
    BY <2>1, <2>2 DEF Write
  <2>4. \A c \in Caps : Has(dist'["abdist"], c)
    <3>1. ASSUME NEW c \in Caps PROVE Has({e \in dist["abdist"] : e[1] \notin F}, c)
      <4>1. Has(dist["abdist"], c)
        BY <2>1
      <4> HIDE DEF ArchiveInv
      <4> QED BY <4>1, HasKept
    <3> QED BY <2>3, <3>1, HasMore
  <2> QED BY <1>18, <2>1, <2>4 DEF Overrides
<1>19. CASE Licenses
  BY <1>19 DEF Licenses, Quiet
<1>20. CASE Conffiles
  BY <1>20 DEF Conffiles
<1>21. CASE Scriptlets
  BY <1>21 DEF Scriptlets
<1>22. CASE QaPost
  BY <1>22 DEF QaPost, Qa, QaScripts
<1>23. CASE pm_build_package
  <2>1. pc = "pack" /\ PKGDIR = "abdist"
    BY <1>23 DEF pm_build_package, DirInv
  <2> DEFINE m == [kind |-> "main", run |-> run, entries |-> dist[PKGDIR],
                   conf |-> IF ListsConffiles THEN conf ELSE {},
                   confBy |-> IF ListsConffiles THEN confBy ELSE run, scripts |-> scripts]
  <2>a. \/ pc' = "idle" /\ pkgs' = pkgs
        \/ pc' = "debug" /\ pkgs' = pkgs \cup {m}
    BY <1>23, <2>1 DEF pm_build_package
  <2>b. m.run = run /\ m.entries = dist["abdist"]
    BY <2>1
  <2> HIDE DEF m
  <2>2. \/ pc' = "idle" /\ pkgs' = pkgs
        \/ /\ pc' = "debug"
           /\ \E d \in pkgs' : /\ pkgs' = pkgs \cup {d}
                               /\ d.run = run /\ d.entries = dist["abdist"]
    BY <2>a, <2>b
  <2>3. \A d \in pkgs' : d.run = run
    BY <2>2
  <2>4. \A d \in pkgs' : d.kind = "main" => \A c \in Caps : Has(d.entries, c)
    BY <2>1, <2>2
  <2> QED BY <1>23, <2>1, <2>2, <2>3, <2>4 DEF pm_build_package
<1>24. CASE PackDebug
  <2>1. pc = "debug"
    BY <1>24 DEF PackDebug
  <2>2. CASE symdir # {}
    <3>1. PICK d \in pkgs' : /\ pkgs' = pkgs \cup {d}
                             /\ d.run = run /\ d.kind = "dbg"
      <4> DEFINE m == [kind |-> "dbg", run |-> run, entries |-> symdir,
                       conf |-> {}, confBy |-> 0, scripts |-> {}]
      <4>1. pkgs' = pkgs \cup {m}
        BY <1>24, <2>2 DEF PackDebug
      <4>2. m.run = run /\ m.kind = "dbg"
        OBVIOUS
      <4> HIDE DEF m
      <4> QED BY <4>1, <4>2
    <3> QED BY <1>24, <2>1, <2>2, <3>1 DEF PackDebug
  <2>3. CASE symdir = {}
    BY <1>24, <2>1, <2>3 DEF PackDebug
  <2> QED BY <2>2, <2>3
<1>25. ASSUME NEW d \in pkgs, pm_install_all(d) PROVE ArchiveInv'
  BY <1>25 DEF pm_install_all
<1>26. CASE InstallDone
  BY <1>26 DEF InstallDone
<1>27. CASE Archive
  BY <1>27 DEF Archive
<1>28. CASE UNCHANGED vars
  BY <1>28 DEF vars
<1> QED BY <1>1, <1>2, <1>3, <1>4, <1>5, <1>6, <1>7, <1>8, <1>9, <1>10, <1>11, <1>12, <1>13, <1>14, <1>15, <1>16, <1>17, <1>18, <1>19, <1>20, <1>21, <1>22, <1>23, <1>24, <1>25, <1>26, <1>27, <1>28 DEF Next, Run

\* Whatever runs came before, what reaches the archive has been installed, has libraries of
\* every subtarget, and comes with the symbols its run split off.
THEOREM OnlyWholePackages == Spec => []ArchiveComplete
<1>1. Init => ArchiveInv
  BY DEF Init, ArchiveInv
<1>2. TypeOK /\ DirInv /\ GateInv /\ ArchiveInv /\ [Next]_vars => ArchiveInv'
  BY ArchiveStep
<1>3. ArchiveInv => ArchiveComplete
  BY DEF ArchiveInv, ArchiveComplete, Has
<1> QED BY <1>1, <1>2, <1>3, Typed, Gated, PTL DEF Spec

-----------------------------------------------------------------------------
(* Configuration files.                                                    *)

\* The list of a package agrees with its files, if the run that packed it wrote the list.
Agrees(d) ==
  d.kind = "main" =>
      IF ABSTAGE2 THEN d.conf = {} ELSE d.confBy = d.run => d.conf = Names(d.entries) \cap Etc

\* Before 61-conffiles.sh the list is nobody's or an older run's; after it, a list of this
\* run's is what abdist has in /etc, and no list means that it has nothing there.
ConfInv ==
  /\ confBy <= run
  /\ pc \in {"qa_pre", "cleanup", "setup", "patch", "patching", "build", "hwcaps", "harvest",
            "filters", "overrides", "licenses", "conffiles"} => confBy # run
  /\ pc \in {"scriptlets", "qa_post", "pack"} /\ ~ABSTAGE2 =>
        IF "conffiles" \in exists
          THEN confBy = run => conf = Names(dist["abdist"]) \cap Etc
          ELSE Names(dist["abdist"]) \cap Etc = {}
  /\ \A d \in pkgs \cup installed : Agrees(d)

\* Every step keeps list and files together.
LEMMA ConfStep == TypeOK /\ DirInv /\ ConfInv /\ [Next]_vars => ConfInv'
<1> SUFFICES ASSUME TypeOK, DirInv, ConfInv, [Next]_vars PROVE ConfInv'
  OBVIOUS
<1>0. run \in Nat /\ confBy \in Nat
  BY DEF TypeOK, Runs
<1> USE <1>0 DEF ConfInv, Agrees
<1> USE DEF source, build, config, shell, outside, Die, Proceed
<1> USE Order
<1>1. CASE StartRun
  BY <1>1 DEF StartRun
<1>2. CASE RemoveLog
  BY <1>2 DEF RemoveLog
<1>3. CASE UnpackAgain
  BY <1>3 DEF UnpackAgain
<1>4. CASE Stop
  BY <1>4 DEF Stop
<1>5. CASE QaPre
  BY <1>5 DEF QaPre, Qa, QaScripts
<1>6. CASE Cleanup
  BY <1>6 DEF Cleanup
<1>7. CASE Setup
  BY <1>7 DEF Setup, Quiet
<1>8. CASE PatchSkip
  BY <1>8 DEF PatchSkip
<1>9. CASE PatchBegin
  BY <1>9 DEF PatchBegin
<1>10. CASE TouchMark
  BY <1>10 DEF TouchMark
<1>11. ASSUME NEW p \in Forward, ab_apply_patches(p) PROVE ConfInv'
  BY <1>11 DEF ab_apply_patches, Patched, PatchFails
<1>12. ASSUME NEW p \in Reverse, ab_reverse_patches(p) PROVE ConfInv'
  BY <1>12 DEF ab_reverse_patches, Patched, PatchFails
<1>13. CASE Build
  BY <1>13 DEF Build, Write, Names
<1>14. ASSUME NEW c \in Caps, HwcapsBuild(c) PROVE ConfInv'
  BY <1>14 DEF HwcapsBuild, Write, Names
<1>15. CASE HwcapsHarvest
  BY <1>15 DEF HwcapsHarvest, Harvested, Names
<1>16. CASE HwcapsDone
  BY <1>16 DEF HwcapsDone
<1>17. CASE Filters
  BY <1>17 DEF Filters, Write, Names
<1>18. CASE Overrides
  BY <1>18 DEF Overrides, Write, Names
<1>19. CASE Licenses
  BY <1>19 DEF Licenses, Quiet
<1>20. CASE Conffiles
  <2>1. pc = "conffiles" /\ pc' = "scriptlets" /\ PKGDIR = "abdist"
    BY <1>20 DEF Conffiles, DirInv
  <2> DEFINE etc == Names(dist[PKGDIR]) \cap Etc
  <2>2. \/ ~ABSTAGE2 /\ conf' = etc /\ confBy' = run /\ exists' = exists \cup {"conffiles"}
        \/ /\ ABSTAGE2 \/ "conffiles" \in exists \/ etc = {}
           /\ UNCHANGED <<conf, confBy, exists>>
    BY <1>20 DEF Conffiles
  <2>3. etc = Names(dist["abdist"]) \cap Etc
    BY <2>1
  <2> HIDE DEF etc
  <2>4. dist' = dist /\ run' = run /\ pkgs' = pkgs /\ installed' = installed
    BY <1>20 DEF Conffiles
  <2>5. confBy # run
    BY <2>1
  <2> QED BY <2>1, <2>2, <2>3, <2>4, <2>5
<1>21. CASE Scriptlets
  BY <1>21 DEF Scriptlets
<1>22. CASE QaPost
  BY <1>22 DEF QaPost, Qa, QaScripts
<1>23. CASE pm_build_package
  <2>1. pc = "pack" /\ PKGDIR = "abdist"
    BY <1>23 DEF pm_build_package, DirInv
  <2> DEFINE m == [kind |-> "main", run |-> run, entries |-> dist[PKGDIR],
                   conf |-> IF ListsConffiles THEN conf ELSE {},
                   confBy |-> IF ListsConffiles THEN confBy ELSE run, scripts |-> scripts]
  <2>2. \/ pc' = "idle" /\ pkgs' = pkgs
        \/ pc' = "debug" /\ pkgs' = pkgs \cup {m}
    BY <1>23, <2>1 DEF pm_build_package
  <2>3. Agrees(m)
    BY <2>1 DEF ListsConffiles
  <2> HIDE DEF m
  <2> QED BY <1>23, <2>1, <2>2, <2>3 DEF pm_build_package
<1>24. CASE PackDebug
  BY <1>24 DEF PackDebug
<1>25. ASSUME NEW d \in pkgs, pm_install_all(d) PROVE ConfInv'
  BY <1>25 DEF pm_install_all
<1>26. CASE InstallDone
  BY <1>26 DEF InstallDone
<1>27. CASE Archive
  BY <1>27 DEF Archive
<1>28. CASE UNCHANGED vars
  BY <1>28 DEF vars
<1> QED BY <1>1, <1>2, <1>3, <1>4, <1>5, <1>6, <1>7, <1>8, <1>9, <1>10, <1>11, <1>12, <1>13, <1>14, <1>15, <1>16, <1>17, <1>18, <1>19, <1>20, <1>21, <1>22, <1>23, <1>24, <1>25, <1>26, <1>27, <1>28 DEF Next, Run

\* Over any number of runs, a list of configuration files that a run generates is that of
\* the files it packs.
THEOREM ListsMatchFiles == Spec => []ConffilesOfOwnRun
<1>1. Init => ConfInv
  BY DEF Init, ConfInv
<1>2. TypeOK /\ DirInv /\ ConfInv /\ [Next]_vars => ConfInv'
  BY ConfStep
<1>3. ConfInv => ConffilesOfOwnRun
  BY DEF ConfInv, ConffilesOfOwnRun, Agrees
<1> QED BY <1>1, <1>2, <1>3, Typed, PTL DEF Spec
=============================================================================
