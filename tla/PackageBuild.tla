---------------------------- MODULE PackageBuild ----------------------------
(***************************************************************************)
(* One source directory through any number of runs of autobuild.  A run    *)
(* sources proc/*.sh in order; it may die anywhere (abdie from the ERR     *)
(* trap, an explicit abdie, or a killed process) and be started again in   *)
(* the same directory, so what counts is what the disk keeps:              *)
(*                                                                         *)
(*   tree      how each patch stands in the unpacked source                *)
(*   exists    the marker .patch, abdist and autobuild/conffiles           *)
(*   dist      abdist and every abdist-hwcaps-<cap>                        *)
(*   symdir    abdist-dbg             scripts   abscripts                  *)
(*   conf      autobuild/conffiles and the run that wrote it               *)
(*   qalog     the runs whose reports abqaerr.log still holds              *)
(*                                                                         *)
(* The shell's variables (PKGDIR, AB_PACKAGES, the loops) die with a run.  *)
(* A file is an entry <<name, run>>: the run is the one that wrote it.     *)
(***************************************************************************)
EXTENDS Integers, FiniteSets

CONSTANTS
    Forward, Reverse,   \* autobuild/patches: *.{patch,diff} and *.r{patch,diff}
    Fuzzy,              \* the patches that only apply with fuzz
    Files, Etc, Libs,   \* what a build can install; the part in /etc; libraries
    Caps,               \* HWCAPS subtargets, {} when AB_HWCAPS_ACTIVE is off
    ABQA,               \* the values ABQA takes from run to run
    ABSPLITDBG, ABSTAGE2, ABPATCHLAX,
    MaxRuns             \* bound on the number of runs

Patches == Forward \cup Reverse
Runs    == 1..MaxRuns

ASSUME BuildAssumption ==
    /\ MaxRuns \in Nat \ {0}
    /\ Forward \cap Reverse = {}
    /\ Fuzzy \subseteq Patches
    /\ Etc \subseteq Files /\ Libs \subseteq Files
    /\ "abdist" \notin Caps
    /\ Files \cap (Caps \X Libs) = {}
    /\ ABQA \cup {ABSPLITDBG, ABSTAGE2, ABPATCHLAX} \subseteq BOOLEAN

Items   == Files \cup (Caps \X Libs)      \* a subtarget's libraries have a place of their own
Entries == Items \X Runs
Deb == [kind : {"main", "dbg"}, run : Runs, entries : SUBSET Entries,
        conf : SUBSET Etc, confBy : 0..MaxRuns, scripts : SUBSET Runs]

VARIABLES tree, exists, dist, symdir, scripts, conf, confBy, qalog,   \* disk
          run, pc, abqa, todo, caps, PKGDIR, pkgs,                    \* shell
          installed, archive,                                         \* outside
          errs, split                                                 \* history

source  == <<tree, exists>>
build   == <<dist, symdir, scripts>>
config  == <<conf, confBy>>
shell   == <<abqa, todo, caps, PKGDIR>>
outside == <<installed, archive>>
vars == <<source, build, config, qalog, run, pc, shell, pkgs, outside, errs, split>>

\* Mistake: the conffiles are listed before the overrides are deployed.
ConffilesEarly == [qa_pre |-> "cleanup", cleanup |-> "setup", setup |-> "patch",
          patch |-> "build", build |-> "hwcaps", hwcaps |-> "filters",
          filters |-> "conffiles", conffiles |-> "overrides", overrides |-> "licenses",
          licenses |-> "scriptlets", scriptlets |-> "qa_post", qa_post |-> "pack",
          pack |-> "debug", debug |-> "install", install |-> "archive", archive |-> "idle"]

(***************************************************************************)
(* The loader sorts proc/ by name: the successor of each modelled script.  *)
(***************************************************************************)
After == [qa_pre |-> "cleanup", cleanup |-> "setup", setup |-> "patch",
          patch |-> "build", build |-> "hwcaps", hwcaps |-> "filters",
          filters |-> "overrides", overrides |-> "licenses",
          licenses |-> "conffiles", conffiles |-> "scriptlets",
          scriptlets |-> "qa_post", qa_post |-> "pack", pack |-> "debug",
          debug |-> "install", install |-> "archive", archive |-> "idle"]
Stages == DOMAIN After

Names(S)        == {e[1] : e \in S}
Tags(S)         == {e[2] : e \in S}
Write(S, I, r)  == {e \in S : e[1] \notin I} \cup (I \X {r})
Proceed(stage)  == pc = stage /\ pc' = After[stage]
Die             == pc' = "idle"

\* Where a patch is once it has been applied, or reverted.
Goal(p)  == IF p \in Forward THEN "in" ELSE "out"
Pristine == [p \in Patches |-> IF p \in Forward THEN "out" ELSE "in"]

Unbuilt  == [d \in {"abdist"} \cup Caps |-> {}]

\* A maintainer may have written autobuild/conffiles beforehand.
Written(c) == IF c = {} THEN {{}, {"conffiles"}} ELSE {{"conffiles"}}

Init ==
    /\ tree = Pristine /\ dist = Unbuilt
    /\ symdir = {} /\ scripts = {} /\ qalog = {}
    /\ confBy = 0 /\ conf \in SUBSET Etc /\ exists \in Written(conf)
    /\ run = 0 /\ pc = "idle"
    /\ abqa \in ABQA /\ todo = {} /\ caps = {} /\ PKGDIR = "abdist" /\ pkgs = {}
    /\ installed = {} /\ archive = {}
    /\ errs = {} /\ split = {}

(***************************************************************************)
(* Between runs: start one, remove the log as its message asks, or unpack  *)
(* the source afresh.                                                      *)
(***************************************************************************)
StartRun ==
    /\ pc = "idle" /\ run < MaxRuns
    /\ pc' = "qa_pre" /\ run' = run + 1
    /\ abqa' \in ABQA
    /\ todo' = {} /\ caps' = Caps /\ PKGDIR' = "abdist" /\ pkgs' = {}
    /\ UNCHANGED <<source, build, config, qalog, outside, errs, split>>

RemoveLog ==
    /\ pc = "idle" /\ qalog # {} /\ qalog' = {}
    /\ UNCHANGED <<source, build, config, run, pc, shell, pkgs, outside, errs, split>>

UnpackAgain ==
    /\ pc = "idle"
    /\ tree' = Pristine /\ dist' = Unbuilt
    /\ symdir' = {} /\ scripts' = {} /\ qalog' = {}
    /\ confBy' = 0 /\ conf' \in SUBSET Etc /\ exists' \in Written(conf')
    /\ UNCHANGED <<run, pc, shell, pkgs, outside, errs, split>>

\* A command fails under errexit, a script calls abdie, or the process is killed.
Stop ==
    /\ pc # "idle" /\ Die
    /\ UNCHANGED <<source, build, config, qalog, run, shell, pkgs, outside, errs, split>>

-----------------------------------------------------------------------------
QaScripts ==
    \E bad \in IF abqa THEN BOOLEAN ELSE {FALSE} :
        /\ qalog' = IF bad THEN qalog \cup {run} ELSE qalog
        /\ errs'  = IF bad THEN errs \cup {run} ELSE errs

\* Mistakes: the log is checked before the scripts run; or inside the "if bool ABQA".
QaCheckFirst(stage) ==
    /\ pc = stage /\ QaScripts
    /\ IF qalog # {} THEN Die ELSE Proceed(stage)
    /\ UNCHANGED <<source, build, config, run, shell, pkgs, outside, split>>
QaCheckInside(stage) ==
    /\ pc = stage /\ QaScripts
    /\ IF abqa /\ qalog' # {} THEN Die ELSE Proceed(stage)
    /\ UNCHANGED <<source, build, config, run, shell, pkgs, outside, split>>

\* The QA scripts of one directory, and the check of the log after them.
Qa(stage) ==
    /\ pc = stage /\ QaScripts
    /\ IF qalog' # {} THEN Die ELSE Proceed(stage)
    /\ UNCHANGED <<source, build, config, run, shell, pkgs, outside, split>>

\* 10-qa-pre-build.sh and 75-qa-post-build.sh
QaPre  == Qa("qa_pre")
QaPost == Qa("qa_post")

\* Mistake: rm -rf forgets abdist.
CleanupKeepsDist ==
    /\ Proceed("cleanup")
    /\ symdir' = {} /\ scripts' = {}
    /\ UNCHANGED <<source, dist, config, qalog, run, shell, pkgs, outside, errs, split>>

\* 11-cleanup.sh: abdist, abdist-dbg and abscripts go (ab-dpkg and abspec are never read).
Cleanup ==
    /\ Proceed("cleanup")
    /\ dist' = [dist EXCEPT !["abdist"] = {}]
    /\ exists' = exists \ {"abdist"}
    /\ symdir' = {} /\ scripts' = {}
    /\ UNCHANGED <<tree, config, qalog, run, shell, pkgs, outside, errs, split>>

\* 11-pm-deps.sh .. 30-build-probe.sh and 53-spiral.sh, 60-licenses.sh: no state kept here.
Quiet(stage) ==
    /\ Proceed(stage)
    /\ UNCHANGED <<source, build, config, qalog, run, shell, pkgs, outside, errs, split>>
Setup    == Quiet("setup")
Licenses == Quiet("licenses")

(***************************************************************************)
(* 40-patch.sh.  patch(1) is external: with -N it refuses a patch that is  *)
(* already there; with -R -t and no -N it ignores -R when the patch is not *)
(* there and applies it.  A hunk that fails leaves the others behind.      *)
(***************************************************************************)
PatchSkip ==
    /\ ".patch" \in exists \/ Patches = {}
    /\ Proceed("patch")
    /\ UNCHANGED <<source, build, config, qalog, run, shell, pkgs, outside, errs, split>>

\* Mistake: the marker is written before the patches are applied.
MarkFirst ==
    /\ pc = "patch" /\ ".patch" \notin exists /\ Patches # {}
    /\ pc' = "patching" /\ todo' = Patches
    /\ exists' = exists \cup {".patch"}
    /\ UNCHANGED <<tree, build, config, qalog, run, abqa, caps, PKGDIR, pkgs, outside, errs, split>>

PatchBegin ==
    /\ pc = "patch" /\ ".patch" \notin exists /\ Patches # {}
    /\ pc' = "patching" /\ todo' = Patches
    /\ UNCHANGED <<source, build, config, qalog, run, abqa, caps, PKGDIR, pkgs, outside, errs, split>>

Patched(p, state) ==
    /\ tree' = [tree EXCEPT ![p] = state]
    /\ todo' = todo \ {p}
    /\ UNCHANGED pc

PatchFails(p) ==
    /\ \/ UNCHANGED tree
       \/ tree[p] # Goal(p) /\ tree' = [tree EXCEPT ![p] = "half"]
    /\ Die /\ UNCHANGED todo

\* -F0 unless ABPATCHLAX
ab_apply_patches(p) ==
    /\ pc = "patching" /\ p \in todo \cap Forward
    /\ \/ tree[p] = "out" /\ (p \in Fuzzy => ABPATCHLAX) /\ Patched(p, "in")
       \/ PatchFails(p)
    /\ UNCHANGED <<exists, build, config, qalog, run, abqa, caps, PKGDIR, pkgs, outside, errs, split>>

\* The option -F0 is appended to PATCHFLAGS; the command uses RPATCHFLAGS.
ab_reverse_patches(p) ==
    /\ pc = "patching" /\ todo \cap Forward = {} /\ p \in todo
    /\ \/ tree[p] = "in" /\ Patched(p, "out")
       \/ tree[p] = "out" /\ Patched(p, "in")
       \/ PatchFails(p)
    /\ UNCHANGED <<exists, build, config, qalog, run, abqa, caps, PKGDIR, pkgs, outside, errs, split>>

TouchMark ==
    /\ pc = "patching" /\ todo = {}
    /\ exists' = exists \cup {".patch"}
    /\ pc' = After["patch"]
    /\ UNCHANGED <<tree, build, config, qalog, run, shell, pkgs, outside, errs, split>>

-----------------------------------------------------------------------------
\* 50-build-exec.sh: whatever the template installs, and the check that PKGDIR is there.
Build ==
    /\ pc = "build"
    /\ \E F \in SUBSET Files :
        /\ dist' = [dist EXCEPT ![PKGDIR] = Write(@, F, run)]
        /\ exists' = IF F = {} THEN exists ELSE exists \cup {"abdist"}
    /\ IF "abdist" \in exists' THEN Proceed("build") ELSE Die
    /\ UNCHANGED <<tree, symdir, scripts, config, qalog, run, shell, pkgs, outside, errs, split>>

(***************************************************************************)
(* 51-build-hwcaps.sh, for a template: each subtarget is built into its    *)
(* own PKGDIR, and the libraries found there are copied into the package.  *)
(***************************************************************************)
HwcapsBuild(c) ==
    /\ pc = "hwcaps" /\ c \in caps
    /\ pc' = "harvest" /\ PKGDIR' = c /\ caps' = caps \ {c}
    /\ \E F \in SUBSET Libs : dist' = [dist EXCEPT ![c] = Write(@, F, run)]
    /\ UNCHANGED <<source, symdir, scripts, config, qalog, run, abqa, todo, pkgs, outside, errs, split>>

Harvested(c) == {<<<<c, e[1]>>, e[2]>> : e \in dist[c]}

\* No library at all is fatal.
HwcapsHarvest ==
    /\ pc = "harvest"
    /\ IF dist[PKGDIR] = {}
         THEN Die /\ UNCHANGED dist
         ELSE pc' = "hwcaps" /\ dist' = [dist EXCEPT !["abdist"] = @ \cup Harvested(PKGDIR)]
    /\ UNCHANGED <<source, symdir, scripts, config, qalog, run, shell, pkgs, outside, errs, split>>

HwcapsDone ==
    /\ caps = {}
    /\ Proceed("hwcaps")
    /\ PKGDIR' = "abdist"
    /\ UNCHANGED <<source, build, config, qalog, run, abqa, todo, caps, pkgs, outside, errs, split>>

\* 51-filters.sh: files are dropped, and symbols may be put aside in SYMDIR.
Filters ==
    /\ Proceed("filters")
    /\ \E D \in SUBSET Files :
        dist' = [dist EXCEPT ![PKGDIR] = {e \in @ : e[1] \notin D}]
    /\ \E S \in SUBSET (Files \cap Names(dist[PKGDIR])) :
        /\ symdir' = Write(symdir, S, run)
        /\ split'  = IF S = {} THEN split ELSE split \cup {run}
    /\ UNCHANGED <<source, scripts, config, qalog, run, shell, pkgs, outside, errs>>

\* 52-overrides.sh: cp autobuild/overrides over PKGDIR.
Overrides ==
    /\ Proceed("overrides")
    /\ \E F \in SUBSET Files : dist' = [dist EXCEPT ![PKGDIR] = Write(@, F, run)]
    /\ UNCHANGED <<source, symdir, scripts, config, qalog, run, shell, pkgs, outside, errs, split>>

\* 61-conffiles.sh: a list is generated only where none is, and then stays.
Conffiles ==
    /\ Proceed("conffiles")
    /\ LET etc == Names(dist[PKGDIR]) \cap Etc IN
        IF ~ABSTAGE2 /\ "conffiles" \notin exists /\ etc # {}
          THEN /\ conf' = etc /\ confBy' = run
               /\ exists' = exists \cup {"conffiles"}
          ELSE UNCHANGED <<config, exists>>
    /\ UNCHANGED <<tree, build, qalog, run, shell, pkgs, outside, errs, split>>

\* 70-scriptlets.sh: echo > truncates, >> appends.
Scriptlets ==
    /\ Proceed("scriptlets")
    /\ scripts' = {run}
    /\ UNCHANGED <<source, dist, symdir, config, qalog, run, shell, pkgs, outside, errs, split>>

(***************************************************************************)
(* 80-pm-pack-install.sh and pm/dpkg.sh.  dpkg-deb is external: it refuses *)
(* a package whose conffiles names a file the package does not have.       *)
(***************************************************************************)
ListsConffiles == ~ABSTAGE2 /\ "conffiles" \in exists

pm_build_package ==
    /\ pc = "pack"
    /\ IF ListsConffiles /\ ~(conf \subseteq Names(dist[PKGDIR]))
         THEN Die /\ UNCHANGED pkgs
         ELSE /\ Proceed("pack")
              /\ pkgs' = pkgs \cup {[kind |-> "main", run |-> run,
                    entries |-> dist[PKGDIR],
                    conf    |-> IF ListsConffiles THEN conf ELSE {},
                    confBy  |-> IF ListsConffiles THEN confBy ELSE run, scripts |-> scripts]}
    /\ UNCHANGED <<source, build, config, qalog, run, shell, outside, errs, split>>

\* Mistake: the symbols are only packed when ABSPLITDBG is set.
DebugOnlyIfAsked ==
    /\ pc = "debug"
    /\ \/ /\ symdir # {} /\ ABSPLITDBG
          /\ Proceed("debug")
          /\ pkgs' = pkgs \cup {[kind |-> "dbg", run |-> run, entries |-> symdir,
                                 conf |-> {}, confBy |-> 0, scripts |-> {}]}
       \/ /\ symdir = {} \/ ~ABSPLITDBG
          /\ UNCHANGED pkgs
          /\ IF ABSPLITDBG THEN Die ELSE Proceed("debug")
    /\ UNCHANGED <<source, build, config, qalog, run, shell, outside, errs, split>>

\* Mistake: the -dbg package does not carry its run's version.
DebugUnversioned ==
    /\ pc = "debug"
    /\ \/ /\ symdir # {}
          /\ Proceed("debug")
          /\ pkgs' = pkgs \cup {[kind |-> "dbg", run |-> 0, entries |-> symdir,
                                 conf |-> {}, confBy |-> 0, scripts |-> {}]}
       \/ /\ symdir = {} /\ UNCHANGED pkgs
          /\ IF ABSPLITDBG THEN Die ELSE Proceed("debug")
    /\ UNCHANGED <<source, build, config, qalog, run, shell, outside, errs, split>>

\* Symbols make a -dbg package whatever ABSPLITDBG says; none where it is set is fatal.
PackDebug ==
    /\ pc = "debug"
    /\ \/ /\ symdir # {}
          /\ Proceed("debug")
          /\ pkgs' = pkgs \cup {[kind |-> "dbg", run |-> run, entries |-> symdir,
                                 conf |-> {}, confBy |-> 0, scripts |-> {}]}
       \/ /\ symdir = {} /\ UNCHANGED pkgs
          /\ IF ABSPLITDBG THEN Die ELSE Proceed("debug")
    /\ UNCHANGED <<source, build, config, qalog, run, shell, outside, errs, split>>

\* dpkg -i one package at a time, in the order of AB_PACKAGES; abdie when it fails.
pm_install_all(d) ==
    /\ pc = "install" /\ d \in pkgs \ installed
    /\ d.kind = "dbg" => \A e \in pkgs : e.kind = "main" => e \in installed
    /\ installed' = installed \cup {d}
    /\ UNCHANGED <<source, build, config, qalog, run, pc, shell, pkgs, archive, errs, split>>

InstallDone ==
    /\ pkgs \subseteq installed
    /\ Proceed("install")
    /\ UNCHANGED <<source, build, config, qalog, run, shell, pkgs, outside, errs, split>>

\* 99-pm-archive.sh
Archive ==
    /\ Proceed("archive")
    /\ archive' = archive \cup pkgs
    /\ UNCHANGED <<source, build, config, qalog, run, shell, pkgs, installed, errs, split>>

-----------------------------------------------------------------------------
Run ==
    \/ QaPre \/ Cleanup \/ Setup
    \/ PatchSkip \/ PatchBegin \/ TouchMark
    \/ \E p \in Forward : ab_apply_patches(p)
    \/ \E p \in Reverse : ab_reverse_patches(p)
    \/ Build
    \/ \E c \in Caps : HwcapsBuild(c)
    \/ HwcapsHarvest \/ HwcapsDone
    \/ Filters \/ Overrides \/ Licenses \/ Conffiles \/ Scriptlets \/ QaPost
    \/ pm_build_package \/ PackDebug
    \/ \E d \in pkgs : pm_install_all(d)
    \/ InstallDone \/ Archive

Next == StartRun \/ RemoveLog \/ UnpackAgain \/ Stop \/ Run

Spec == Init /\ [][Next]_vars

-----------------------------------------------------------------------------
(***************************************************************************)
(* Properties.                                                             *)
(***************************************************************************)

TypeOK ==
    /\ tree \in [Patches -> {"in", "out", "half"}]
    /\ exists \subseteq {".patch", "abdist", "conffiles"}
    /\ dist \in [{"abdist"} \cup Caps -> SUBSET Entries]
    /\ symdir \subseteq Entries /\ scripts \subseteq Runs
    /\ conf \subseteq Etc /\ confBy \in 0..MaxRuns
    /\ qalog \subseteq Runs
    /\ run \in 0..MaxRuns /\ (pc # "idle" => run \in Runs)
    /\ pc \in Stages \cup {"patching", "harvest", "idle"} /\ abqa \in BOOLEAN
    /\ todo \subseteq Patches /\ caps \subseteq Caps
    /\ PKGDIR \in {"abdist"} \cup Caps
    /\ pkgs \subseteq Deb /\ installed \subseteq Deb /\ archive \subseteq Deb
    /\ errs \subseteq Runs /\ split \subseteq Runs

AfterPatch == ({"harvest"} \cup Stages) \ {"qa_pre", "cleanup", "setup", "patch"}

\* Every patch is applied, or reverted, exactly once before the template runs,
\* however often 40-patch.sh was cut short: .patch is touched last, and patch -N
\* refuses to go over a tree that is half done.
TreeMatchesPatches == pc \in AfterPatch => \A p \in Patches : tree[p] = Goal(p)

\* What is installed or archived was written by the run that packed it: nothing an
\* earlier run left in the directory gets in (11-cleanup.sh: "free of old build output").
PackageIsFresh ==
    \A d \in installed \cup archive :
        Tags(d.entries) \subseteq {d.run} /\ d.scripts \subseteq {d.run}

\* Whatever runs came before, were cut short or ran with other switches, only libraries of
\* the subtargets can be older than the run that packed them: the package's own files, the
\* symbols and the scriptlets never are.
OnlySubtargetsAreStale ==
    \A d \in installed \cup archive :
        /\ \A e \in d.entries : e[1] \notin Caps \X Libs => e[2] = d.run
        /\ d.scripts \subseteq {d.run}

\* No package of a run that reported a QA error is packed, installed or archived.
QaGate == \A d \in pkgs \cup installed \cup archive : d.run \notin errs

\* Once past the first check, a run builds with an empty abqaerr.log: an error of any
\* earlier run, even one with ABQA on, stops all later ones until the log is removed.
NoBuildOverErrors == pc \notin {"idle", "qa_pre"} => qalog = {}

\* What reaches the archive is whole: it was first accepted by dpkg -i, has libraries for
\* every subtarget, and the symbols a run split off its binaries are archived with them,
\* also where ABSPLITDBG is off.
ArchiveComplete ==
    /\ archive \subseteq installed
    /\ \A d \in archive :
        /\ d.run \in split => \E e \in archive : e.kind = "dbg" /\ e.run = d.run
        /\ d.kind = "main" => \A c \in Caps : \E f \in Libs : <<c, f>> \in Names(d.entries)

\* A package whose list of configuration files is the packing run's own, or that has none,
\* lists exactly the /etc files it contains: nothing between 61-conffiles.sh and dpkg-deb
\* changes /etc.
ConffilesOfOwnRun ==
    \A d \in installed : d.kind = "main" =>
        IF ABSTAGE2 THEN d.conf = {}
        ELSE d.confBy = d.run => d.conf = Names(d.entries) \cap Etc
=============================================================================
