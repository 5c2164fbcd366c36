---------------------------- MODULE TemplateBuild ----------------------------
(***************************************************************************)
(* The build templates (templates/*.sh) as 50-build-exec.sh and            *)
(* 51-build-hwcaps.sh call them: for the package itself and then for each  *)
(* HWCAPS subtarget, in one source directory that a run which died leaves  *)
(* to the next.                                                            *)
(*                                                                         *)
(* The phases are called as  build_<type>_install || abdie ; bash turns    *)
(* errexit and the ERR trap off in a function called that way, so only a   *)
(* command with an  || abdie  of its own ends the build when it fails;     *)
(* another one that fails is seen if it is the last of its function, whose *)
(* status it then is.  A file run by arch_loadfile_strict inside such a    *)
(* function is parsed anew by the builtin and keeps errexit.               *)
(*                                                                         *)
(* A template is a table of commands.  What a command works on is the      *)
(* current directory: what it was configured for, and for which target its *)
(* object files were compiled.                                             *)
(***************************************************************************)
EXTENDS Integers, Sequences

CONSTANTS
    Types,      \* the values of ABTYPE
    Caps,       \* HWCAPS subtargets, {} when AB_HWCAPS_ACTIVE is off
    Shadow,     \* the values of ABSHADOW, after ABSHADOW_CMAKE
    MaxRuns     \* bound on the number of runs

ASSUME TemplateAssumption ==
    /\ Types \subseteq {"self", "autotools", "autosetup", "cmake", "cmakeninja", "meson", "waf",
                      "qtproj", "perl", "dune", "gomod", "pep517", "rust", "python", "ruby",
                      "npm", "dummy"}
    /\ Shadow \subseteq BOOLEAN
    /\ Caps \cap {"main", "src", "abbuild", "tgz", "env"} = {}
    /\ MaxRuns \in Nat

VARIABLES
    ABTYPE, ABSHADOW,
    variant,       \* ABUSECMAKEBUILD; the backend wants a workaround; the crate is a program
    made, conf, obj, lib, packed,    \* what is there; packed: the targets whose PKGDIR is
    run, pc, target, caps, phase, at, ret, cwd, BLDDIR,   \* shell
    failed, fault, outcome           \* history of the run

chosen  == <<ABTYPE, ABSHADOW, variant>>
disk    == <<made, conf, obj, lib, packed>>
history == <<failed, fault, outcome>>
vars == <<chosen, disk, run, pc, target, caps, phase, at, ret, cwd, BLDDIR, history>>

Targets == {"main"} \cup Caps
Dirs    == {"src", "abbuild"} \cup Caps     \* abbuild-hwcaps-<cap>

\* Directories, npm's link, and what a delayed check captured when it was registered.
Things == Dirs \cup {"tgz", "env"}

-----------------------------------------------------------------------------
(***************************************************************************)
(* The templates.  Do: the command has an "|| abdie".  Try: it has not.    *)
(* "input" is a command that prepares what is compiled; "other" one that   *)
(* fetches, checks or tidies up.  "true" cannot fail and hides the status  *)
(* of what came before it: BUILD_READY and BUILD_FINAL, unless the package *)
(* defines them, "find -exec", and a list that ends in "|| true".          *)
(***************************************************************************)
Do(role)  == [role |-> role, guarded |-> TRUE]
Try(role) == [role |-> role, guarded |-> FALSE]

Roles == {"mkdir", "mkdir_p", "ln", "enter", "leave", "need_shadow", "restore",
          "mkdir_PKGDIR", "configure", "setup", "input", "compile", "install", "true", "other"}

\* Mistake: the directory is made as if it could not be there.
EnterOnce == IF ABSHADOW THEN <<Do("mkdir"), Do("enter")>> ELSE <<>>

Enter == IF ABSHADOW THEN <<Do("mkdir_p"), Do("enter")>> ELSE <<>>
Leave == IF ABSHADOW THEN <<Do("leave")>> ELSE <<>>
None  == <<>>

\* A strict file: every command in it is as good as guarded.
self == [configure |-> None, build |-> <<Do("compile"), Do("install"), Try("leave")>>,
         install |-> None]

autotools == [configure |-> <<Do("other")>> \o Enter \o <<Do("configure")>>,
              build |-> <<Do("compile")>>, install |-> <<Do("install")>> \o Leave]

autosetup == [configure |-> Enter \o <<Do("configure")>>,
              build |-> (IF ABSHADOW THEN <<Do("enter")>> ELSE None) \o <<Do("compile")>>,
              install |-> <<Do("install")>> \o Leave]

\* Mistake: nobody looks at the status of "make install".
cmakeUnguarded == [configure |-> Enter \o <<Do("configure")>>, build |-> <<Do("compile")>>,
                   install |-> <<Try("install")>> \o Leave]

cmake == [configure |-> Enter \o <<Do("configure")>>, build |-> <<Do("compile")>>,
          install |-> <<Do("install")>> \o Leave]

\* Without ABUSECMAKEBUILD, "ninja install" does both.
cmakeninja == [configure |-> Enter \o <<Do("configure")>>,
               build |-> IF variant THEN <<Do("compile")>> ELSE None,
               install |-> (IF variant THEN None ELSE <<Do("compile")>>)
                              \o <<Do("install")>> \o Leave]

\* "meson setup" configures BLDDIR from the source directory.
meson == [configure |-> <<Do("mkdir"), Do("setup")>>,
          build |-> <<Do("enter"), Do("compile")>>,
          install |-> <<Do("install"), Do("leave")>>]

waf    == [configure |-> <<Do("configure")>>, build |-> <<Do("compile")>>,
           install |-> <<Do("install")>>]
qtproj == [configure |-> <<Do("configure")>>, build |-> <<Do("compile")>>,
           install |-> <<Do("install")>>]
perl   == [configure |-> <<Do("configure")>>, build |-> <<Do("compile")>>,
           install |-> <<Do("install")>>]

\* The delayed check, a lambda, is called without  || abdie .  The documentation and the
\* manual pages are moved at the end.
dune == [check |-> <<Do("restore")>>, configure |-> None, build |-> <<Do("compile")>>,
         install |-> <<Try("mkdir_PKGDIR"), Do("install"), Try("install"), Try("install")>>]

gomod == [configure |-> <<Do("need_shadow"), Do("mkdir_p"), Do("enter"), Do("configure")>>,
          build |-> <<Try("mkdir_PKGDIR"), Do("compile"), Do("install"), Try("true")>>,
          install |-> None]

\* Two backends want a workaround: cp, find and mv put the source into a subdirectory.
pep517 == [configure |-> <<Try("other")>> \o
               IF variant
               THEN <<Try("input"), Try("input"), Try("input"), Try("other"), Try("leave")>>
               ELSE None,
           build |-> <<Do("compile")>>, install |-> <<Try("install"), Try("true")>>]

\* A crate that is no program is installed by "find -exec", and its libraries by a loop.
rust == [audit |-> <<Do("other")>>,
         configure |-> <<Try("other"), Do("other")>>,
         build |-> IF variant THEN <<Try("mkdir_PKGDIR"), Do("compile"), Do("install")>>
                   ELSE <<Try("mkdir_PKGDIR"), Do("compile"), Try("install"), Try("true")>>,
         install |-> <<Try("install"), Try("other"), Try("true")>>]

\* Once per interpreter; "( clean || abdie ) || true" cannot end the build.
python == [configure |-> None,
           build |-> <<Do("compile"), Do("install"), Try("other"), Try("true")>>,
           install |-> None]

ruby == [configure |-> None, build |-> <<Try("input"), Do("compile"), Do("install"), Do("other")>>,
         install |-> None]

npm == [audit |-> <<Do("other")>>, configure |-> None, build |-> <<Do("ln")>>,
        install |-> <<Do("install")>>]

dummy == [configure |-> None, build |-> <<Do("mkdir_PKGDIR")>>, install |-> None]

Templates ==
    [self |-> self, autotools |-> autotools, cmakeninja |-> cmakeninja, autosetup |-> autosetup,
     cmake |-> cmake, meson |-> meson, waf |-> waf, dune |-> dune, gomod |-> gomod,
     pep517 |-> pep517, perl |-> perl, rust |-> rust, python |-> python, qtproj |-> qtproj,
     ruby |-> ruby, npm |-> npm, dummy |-> dummy]
Recipe == Templates[ABTYPE]

\* autobuild/prepare and autobuild/beyond are strict files around the template.
Commands ==
    IF phase \in {"prepare", "beyond"} THEN <<Do("other")>>
    ELSE IF phase \in DOMAIN Recipe THEN Recipe[phase] ELSE None

Command == Commands[at]

After == [prepare |-> "check", check |-> "audit", audit |-> "configure", configure |-> "build",
          build |-> "install", install |-> "beyond"]

-----------------------------------------------------------------------------
Unconfigured == [d \in Dirs |-> "none"]
NoObjects    == [d \in Dirs |-> {}]
NoLibraries  == [t \in Targets |-> {}]

Init ==
    /\ ABTYPE \in Types /\ ABSHADOW \in Shadow
    /\ variant \in IF ABTYPE \in {"cmakeninja", "pep517", "rust"} THEN BOOLEAN ELSE {FALSE}
    /\ made = {} /\ packed = {}
    /\ conf = Unconfigured /\ obj = NoObjects /\ lib = NoLibraries
    /\ run = 0 /\ pc = "idle" /\ target = "main" /\ caps = {}
    /\ phase = "prepare" /\ at = 1 /\ ret = 0 /\ cwd = "src" /\ BLDDIR = "abbuild"
    /\ failed = {} /\ fault = FALSE /\ outcome = "none"

\* The templates are registered, their checks with them.  11-cleanup.sh removes abdist;
\* build directories and those of the subtargets stay.
StartRun ==
    /\ pc = "idle" /\ run < MaxRuns
    /\ run' = run + 1 /\ pc' = "build" /\ target' = "main" /\ caps' = Caps
    /\ phase' = "prepare" /\ at' = 1 /\ ret' = 0 /\ cwd' = "src" /\ BLDDIR' = "abbuild"
    /\ packed' = packed \ {"main"} /\ lib' = [lib EXCEPT !["main"] = {}]
    /\ failed' = {} /\ fault' = FALSE /\ outcome' = "none"
    /\ made' = made \cup {"env"}
    /\ UNCHANGED <<chosen, conf, obj>>

UnpackAgain ==
    /\ pc = "idle"
    /\ made' = {} /\ packed' = {}
    /\ conf' = Unconfigured /\ obj' = NoObjects /\ lib' = NoLibraries
    /\ UNCHANGED <<chosen, run, pc, target, caps, phase, at, ret, cwd, BLDDIR, history>>

Die == pc' = "idle" /\ outcome' = "died" /\ UNCHANGED <<target, caps, phase, at, ret, BLDDIR>>

Step(status) ==
    /\ at' = at + 1 /\ ret' = status
    /\ UNCHANGED <<pc, target, caps, phase, BLDDIR, outcome>>

\* What must be there, or not be there, for a command to work at all.
Works ==
    CASE Command.role = "mkdir" -> BLDDIR \notin made
      [] Command.role = "ln" -> "tgz" \notin made
      [] Command.role = "enter" -> BLDDIR \in made
      [] Command.role = "need_shadow" -> ABSHADOW
      [] Command.role = "restore" -> "env" \in made
      [] OTHER -> TRUE

\* Of the object files that are there, make takes all, some or none for up to date.
Compiled(d) == {{target}} \cup (IF obj[d] = {} THEN {} ELSE {obj[d], obj[d] \cup {target}})

Effect ==
    /\ made' = CASE Command.role \in {"mkdir", "mkdir_p"} -> made \cup {BLDDIR}
                 [] Command.role = "ln" -> made \cup {"tgz"}
                 [] Command.role = "restore" -> made \ {"env"}
                 [] OTHER -> made
    /\ conf' = CASE Command.role = "configure" -> [conf EXCEPT ![cwd] = target]
                 [] Command.role = "setup" -> [conf EXCEPT ![BLDDIR] = target]
                 [] OTHER -> conf
    /\ \E o \in Compiled(cwd) :
         obj' = IF Command.role = "compile" THEN [obj EXCEPT ![cwd] = o] ELSE obj
    /\ packed' = IF Command.role \in {"install", "mkdir_PKGDIR"} THEN packed \cup {target} ELSE packed
    /\ lib' = IF Command.role = "install" THEN [lib EXCEPT ![target] = obj[cwd]] ELSE lib
    /\ cwd' = CASE Command.role = "enter" -> BLDDIR
                [] Command.role = "leave" -> "src"
                [] OTHER -> cwd

Running == pc = "build" /\ at \in 1..Len(Commands)

Succeeds ==
    /\ Running /\ Works
    /\ Effect /\ Step(0)
    /\ UNCHANGED <<chosen, run, failed, fault>>

\* The command fails, with all of its effect or none.
Fails ==
    /\ Running /\ Works /\ Command.role \notin {"true", "need_shadow", "restore"}
    /\ Effect \/ UNCHANGED <<disk, cwd>>
    /\ failed' = failed \cup {Command.role} /\ fault' = TRUE
    /\ IF Command.guarded THEN Die ELSE Step(1)
    /\ UNCHANGED <<chosen, run>>

\* The process is killed, or a command of proc/ itself fails.
Stop ==
    /\ pc \in {"build", "next"} /\ Die /\ fault' = TRUE
    /\ UNCHANGED <<chosen, disk, run, cwd, failed>>

\* It fails for what an earlier step left or used up, or because the template asks for
\* ABSHADOW.
Refused ==
    /\ Running /\ ~Works
    /\ pc' = "idle"
    /\ outcome' = IF Command.role = "need_shadow" THEN "refused" ELSE "died"
    /\ UNCHANGED <<chosen, disk, run, target, caps, phase, at, ret, cwd, BLDDIR, failed, fault>>

Checked == IF target = "main" THEN "install" ELSE "beyond"

\* Mistake: a phase goes on at the number where the last one ended.
ReturnKeepsPlace ==
    /\ pc = "build" /\ at > Len(Commands) /\ phase # "beyond"
    /\ IF ret # 0 \/ (phase = Checked /\ target \notin packed)
         THEN Die /\ UNCHANGED cwd
         ELSE /\ phase' = After[phase] /\ ret' = 0
              /\ cwd' = IF phase \in {"prepare", "install"} THEN "src" ELSE cwd
              /\ UNCHANGED <<pc, target, caps, at, BLDDIR, outcome>>
    /\ UNCHANGED <<chosen, disk, run, failed, fault>>

\* Mistake: each phase starts in the source directory again.
ReturnToSource ==
    /\ pc = "build" /\ at > Len(Commands) /\ phase # "beyond"
    /\ IF ret # 0 \/ (phase = Checked /\ target \notin packed)
         THEN Die /\ UNCHANGED cwd
         ELSE /\ phase' = After[phase] /\ at' = 1 /\ ret' = 0
              /\ cwd' = "src"
              /\ UNCHANGED <<pc, target, caps, BLDDIR, outcome>>
    /\ UNCHANGED <<chosen, disk, run, failed, fault>>

\* The status of a phase is that of its last command; 50-build-exec.sh goes back to
\* SRCDIR after prepare and after install, and wants to see PKGDIR.
Return ==
    /\ pc = "build" /\ at > Len(Commands) /\ phase # "beyond"
    /\ IF ret # 0 \/ (phase = Checked /\ target \notin packed)
         THEN Die /\ UNCHANGED cwd
         ELSE /\ phase' = After[phase] /\ at' = 1 /\ ret' = 0
              /\ cwd' = IF phase \in {"prepare", "install"} THEN "src" ELSE cwd
              /\ UNCHANGED <<pc, target, caps, BLDDIR, outcome>>
    /\ UNCHANGED <<chosen, disk, run, failed, fault>>

\* For a subtarget, PKGDIR is wanted at the end, with libraries in it.
TargetDone ==
    /\ pc = "build" /\ phase = "beyond" /\ at > Len(Commands)
    /\ IF phase = Checked /\ target \notin packed THEN Die
       ELSE /\ IF phase = Checked /\ lib[target] = {}
                 THEN pc' = "idle" /\ outcome' = "refused"
                 ELSE pc' = "next" /\ UNCHANGED outcome
            /\ UNCHANGED <<target, caps, phase, at, ret, BLDDIR>>
    /\ UNCHANGED <<chosen, disk, run, cwd, failed, fault>>

\* Mistake: every subtarget is built in abbuild.
HwcapsShared(c) ==
    /\ pc = "next" /\ c \in caps /\ ABTYPE # "self"
    /\ pc' = "build" /\ target' = c /\ caps' = caps \ {c}
    /\ phase' = "prepare" /\ at' = 1 /\ ret' = 0 /\ cwd' = "src"
    /\ UNCHANGED <<chosen, disk, run, BLDDIR, history>>

\* 51-build-hwcaps.sh: a build directory of its own, or traces of configure removed.
Hwcaps(c) ==
    /\ pc = "next" /\ c \in caps /\ ABTYPE # "self"
    /\ pc' = "build" /\ target' = c /\ caps' = caps \ {c}
    /\ phase' = "prepare" /\ at' = 1 /\ ret' = 0 /\ cwd' = "src"
    /\ IF ABSHADOW THEN BLDDIR' = c /\ UNCHANGED conf
                   ELSE conf' = [conf EXCEPT !["src"] = "none"] /\ UNCHANGED BLDDIR
    /\ UNCHANGED <<chosen, made, obj, lib, packed, run, history>>

\* A package with a build script of its own needs one for the subtargets too.
HwcapsRefused ==
    /\ pc = "next" /\ caps # {} /\ ABTYPE = "self"
    /\ pc' = "idle" /\ outcome' = "refused"
    /\ UNCHANGED <<chosen, disk, run, target, caps, phase, at, ret, cwd, BLDDIR, failed, fault>>

BuildDone ==
    /\ pc = "next" /\ caps = {}
    /\ pc' = "idle" /\ outcome' = "ok"
    /\ UNCHANGED <<chosen, disk, run, target, caps, phase, at, ret, cwd, BLDDIR, failed, fault>>

Next ==
    \/ StartRun \/ UnpackAgain
    \/ Succeeds \/ Fails \/ Stop \/ Refused \/ Return \/ TargetDone
    \/ \E c \in Caps : Hwcaps(c)
    \/ HwcapsRefused \/ BuildDone

Spec == Init /\ [][Next]_vars

-----------------------------------------------------------------------------
(***************************************************************************)
(* Properties.                                                             *)
(***************************************************************************)

TypeOK ==
    /\ ABTYPE \in Types /\ ABSHADOW \in BOOLEAN /\ variant \in BOOLEAN
    /\ made \subseteq Things /\ packed \subseteq Targets
    /\ conf \in [Dirs -> Targets \cup {"none"}]
    /\ obj \in [Dirs -> SUBSET Targets] /\ lib \in [Targets -> SUBSET Targets]
    /\ run \in 0..MaxRuns /\ pc \in {"idle", "build", "next"}
    /\ target \in Targets /\ caps \subseteq Caps
    /\ phase \in DOMAIN After \cup {"beyond"}
    /\ at \in 1..(Len(Commands) + 1) /\ ret \in {0, 1}
    /\ cwd \in Dirs /\ BLDDIR \in Dirs
    /\ failed \subseteq Roles /\ fault \in BOOLEAN
    /\ outcome \in {"none", "ok", "died", "refused"}

Vital == {"configure", "setup", "input", "compile", "install"}

\* Templates with a command of that kind that has no abdie of its own and is not the last.
Unguarded == {"dune", "pep517", "ruby", "rust"}

\* A build ends well only if every command that configures, compiles or installs has
\* succeeded (50-build-exec.sh: "Install failed"), in all templates but those four.
NoSilentFailure == outcome = "ok" /\ ABTYPE \notin Unguarded => failed \cap Vital = {}

\* A run in which every tool works does not die of what an earlier run, or an earlier
\* target of the same run, left in the directory (11-cleanup.sh: "free of old build
\* output").  meson makes BLDDIR, and npm its link, only where there is none, and the check
\* of dune works for the first target only.
NoSpuriousDeath ==
    outcome = "died" /\ ABTYPE \notin {"meson", "npm"} /\ (ABTYPE = "dune" => Caps = {}) => fault

\* The current directory is handed from phase to phase: what compiles and installs runs
\* where this target was configured, also after a run that died elsewhere.
Configures == \E p \in DOMAIN Recipe : \E i \in DOMAIN Recipe[p] :
                  Recipe[p][i].role \in {"configure", "setup"}
RunsWhereConfigured ==
    Running /\ Configures /\ Command.role \in {"compile", "install"} => conf[cwd] = target

\* With shadow builds, the libraries of a subtarget are compiled for it, whatever
\* objects other targets and other runs have left.
Shadows == \E i \in DOMAIN Recipe.configure :
               Recipe.configure[i].role \in {"mkdir", "mkdir_p"}
OwnObjects ==
    outcome = "ok" /\ ABSHADOW /\ Shadows => \A t \in Targets : lib[t] \subseteq {t}
=============================================================================
