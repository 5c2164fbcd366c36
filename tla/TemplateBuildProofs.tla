------------------------ MODULE TemplateBuildProofs ------------------------
(***************************************************************************)
(* Proofs about TemplateBuild, for any set of templates, any HWCAPS        *)
(* subtargets and any number of runs.                                      *)
(***************************************************************************)
EXTENDS TemplateBuild, SequenceTheorems, TLAPS

USE TemplateAssumption DEF TemplateAssumption

Instructions == [role : Roles, guarded : BOOLEAN]

\* The commands that may not fail unseen: those that are not vital, or have an abdie.
Heeded == {c \in Instructions : c.role \in Vital => c.guarded}

\* A table whose phases are sequences of commands from the set C.
Table(t, C) == \A p \in DOMAIN t : t[p] \in Seq(C)

-----------------------------------------------------------------------------
(* The tables.                                                             *)

\* A command with an abdie is heeded; one without is, if it is not vital.
LEMMA MainCommands ==
  Do("configure") \in Heeded /\ Do("compile") \in Heeded /\ Do("install") \in Heeded
BY DEF Do, Heeded, Instructions, Roles, Vital

LEMMA MovingCommands ==
  /\ Do("mkdir_p") \in Heeded /\ Do("enter") \in Heeded /\ Do("leave") \in Heeded
  /\ Try("mkdir_PKGDIR") \in Heeded /\ Try("leave") \in Heeded
BY DEF Do, Try, Heeded, Instructions, Roles, Vital

LEMMA OtherCommands ==
  /\ Do("other") \in Heeded /\ Try("other") \in Heeded /\ Try("true") \in Heeded
BY DEF Do, Try, Heeded, Instructions, Roles, Vital

LEMMA RareCommands ==
  /\ Do("mkdir") \in Heeded /\ Do("setup") \in Heeded /\ Do("ln") \in Heeded
  /\ Do("mkdir_PKGDIR") \in Heeded /\ Do("need_shadow") \in Heeded
BY DEF Do, Heeded, Instructions, Roles, Vital

\* Without one, a command is at least a command.
LEMMA LooseCommands ==
  /\ Do("restore") \in Instructions
  /\ Try("input") \in Instructions /\ Try("install") \in Instructions
  /\ Try("true") \in Instructions /\ Try("other") \in Instructions
  /\ Try("leave") \in Instructions /\ Try("mkdir_PKGDIR") \in Instructions
  /\ Do("compile") \in Instructions /\ Do("install") \in Instructions
  /\ Do("other") \in Instructions
BY DEF Do, Try, Instructions, Roles

LEMMA HeededType == Heeded \subseteq Instructions
BY DEF Heeded


\* The phases the tables are made of.
LEMMA MainPhases ==
  /\ <<Do("configure")>> \in Seq(Heeded)
  /\ <<Do("compile")>> \in Seq(Heeded)
  /\ <<Do("install")>> \in Seq(Heeded)
BY MainCommands

LEMMA NoPhase == None \in Seq(Heeded)
BY DEF None

LEMMA Entering == Enter \in Seq(Heeded)
<1>1. CASE ABSHADOW
  <2>1. <<Do("mkdir_p"), Do("enter")>> \in Seq(Heeded)
    BY MovingCommands
  <2> QED
    BY <1>1, <2>1 DEF Enter
<1>2. CASE ~ABSHADOW
  BY <1>2, NoPhase DEF Enter, None
<1> QED
  BY <1>1, <1>2

LEMMA Leaving == Leave \in Seq(Heeded)
<1>1. CASE ABSHADOW
  <2>1. <<Do("leave")>> \in Seq(Heeded)
    BY MovingCommands
  <2> QED
    BY <1>1, <2>1 DEF Leave
<1>2. CASE ~ABSHADOW
  BY <1>2, NoPhase DEF Leave, None
<1> QED
  BY <1>1, <1>2

LEMMA Joined == ASSUME NEW C, NEW s \in Seq(C), NEW t \in Seq(C) PROVE s \o t \in Seq(C)
OBVIOUS

LEMMA ShadowPhases ==
  /\ Enter \o <<Do("configure")>> \in Seq(Heeded)
  /\ <<Do("install")>> \o Leave \in Seq(Heeded)
BY MainPhases, Entering, Leaving, Joined

\* A table of three or four such phases.
LEMMA ThreePhases ==
  ASSUME NEW C, NEW x \in Seq(C), NEW y \in Seq(C), NEW z \in Seq(C)
  PROVE  Table([configure |-> x, build |-> y, install |-> z], C)
BY DEF Table

LEMMA FourPhases ==
  ASSUME NEW C, NEW w \in Seq(C), NEW x \in Seq(C), NEW y \in Seq(C), NEW z \in Seq(C)
  PROVE  /\ Table([audit |-> w, configure |-> x, build |-> y, install |-> z], C)
         /\ Table([check |-> w, configure |-> x, build |-> y, install |-> z], C)
BY DEF Table

\* The templates that heed every vital command.
LEMMA StrictTables ==
  /\ Table(self, Heeded)
  /\ Table(autotools, Heeded)
  /\ Table(autosetup, Heeded)
  /\ Table(cmake, Heeded)
  /\ Table(cmakeninja, Heeded)
  /\ Table(meson, Heeded)
  /\ Table(waf, Heeded)
  /\ Table(qtproj, Heeded)
  /\ Table(perl, Heeded)
  /\ Table(gomod, Heeded)
  /\ Table(python, Heeded)
  /\ Table(npm, Heeded)
  /\ Table(dummy, Heeded)
<1>1. Table(self, Heeded)
  <2>1. <<Do("compile"), Do("install"), Try("leave")>> \in Seq(Heeded)
    BY MainCommands, MovingCommands
  <2> QED
    BY <2>1, NoPhase, ThreePhases DEF self
<1>2. Table(autotools, Heeded)
  <2>1. <<Do("other")>> \o Enter \o <<Do("configure")>> \in Seq(Heeded)
    <3>1. <<Do("other")>> \in Seq(Heeded)
      BY OtherCommands
    <3> QED
      BY <3>1, Entering, MainPhases, Joined
  <2> QED
    BY <2>1, MainPhases, ShadowPhases, ThreePhases DEF autotools
<1>3. Table(autosetup, Heeded)
  <2>1. (IF ABSHADOW THEN <<Do("enter")>> ELSE None) \o <<Do("compile")>> \in Seq(Heeded)
    <3>1. <<Do("enter")>> \in Seq(Heeded)
      BY MovingCommands
    <3>2. (IF ABSHADOW THEN <<Do("enter")>> ELSE None) \in Seq(Heeded)
      BY <3>1, NoPhase
    <3> QED
      BY <3>2, MainPhases, Joined
  <2> QED
    BY <2>1, ShadowPhases, ThreePhases DEF autosetup
<1>4. Table(cmake, Heeded)
  BY MainPhases, ShadowPhases, ThreePhases DEF cmake
<1>5. Table(cmakeninja, Heeded)
  <2>1. (IF variant THEN <<Do("compile")>> ELSE None) \in Seq(Heeded)
    BY NoPhase, MainPhases
  <2>2. (IF variant THEN None ELSE <<Do("compile")>>) \o <<Do("install")>> \o Leave \in Seq(Heeded)
    BY NoPhase, MainPhases, Leaving, Joined
  <2> QED
    BY <2>1, <2>2, ShadowPhases, ThreePhases DEF cmakeninja
<1>6. Table(meson, Heeded)
  <2>1. <<Do("mkdir"), Do("setup")>> \in Seq(Heeded)
    BY RareCommands
  <2>2. <<Do("enter"), Do("compile")>> \in Seq(Heeded)
    BY MainCommands, MovingCommands
  <2>3. <<Do("install"), Do("leave")>> \in Seq(Heeded)
    BY MainCommands, MovingCommands
  <2> QED
    BY <2>1, <2>2, <2>3, ThreePhases DEF meson
<1>7. Table(waf, Heeded)
  BY MainPhases, ThreePhases DEF waf
<1>8. Table(qtproj, Heeded)
  BY MainPhases, ThreePhases DEF qtproj
<1>9. Table(perl, Heeded)
  BY MainPhases, ThreePhases DEF perl
<1>10. Table(gomod, Heeded)
  <2>1. <<Do("need_shadow"), Do("mkdir_p"), Do("enter"), Do("configure")>> \in Seq(Heeded)
    BY RareCommands, MovingCommands, MainCommands
  <2>2. <<Try("mkdir_PKGDIR"), Do("compile"), Do("install"), Try("true")>> \in Seq(Heeded)
    BY MovingCommands, MainCommands, OtherCommands
  <2> QED
    BY <2>1, <2>2, NoPhase, ThreePhases DEF gomod
<1>11. Table(python, Heeded)
  <2>1. <<Do("compile"), Do("install"), Try("other"), Try("true")>> \in Seq(Heeded)
    BY MainCommands, OtherCommands
  <2> QED
    BY <2>1, NoPhase, ThreePhases DEF python
<1>12. Table(npm, Heeded)
  <2>1. <<Do("other")>> \in Seq(Heeded)
    BY OtherCommands
  <2>2. <<Do("ln")>> \in Seq(Heeded)
    BY RareCommands
  <2> QED
    BY <2>1, <2>2, NoPhase, MainPhases, FourPhases DEF npm
<1>13. Table(dummy, Heeded)
  <2>1. <<Do("mkdir_PKGDIR")>> \in Seq(Heeded)
    BY RareCommands
  <2> QED
    BY <2>1, NoPhase, ThreePhases DEF dummy
<1> QED
  BY <1>1, <1>2, <1>3, <1>4, <1>5, <1>6, <1>7, <1>8, <1>9, <1>10, <1>11, <1>12, <1>13

\* The four that do not.
LEMMA LooseTables ==
  /\ Table(dune, Instructions)
  /\ Table(pep517, Instructions)
  /\ Table(ruby, Instructions)
  /\ Table(rust, Instructions)
<1>1. Table(dune, Instructions)
  <2>1. <<Do("compile")>> \in Seq(Instructions)
    BY LooseCommands
  <2>2. <<Try("mkdir_PKGDIR"), Do("install"), Try("install"), Try("install")>> \in Seq(Instructions)
    BY LooseCommands
  <2>9. None \in Seq(Instructions)
    BY DEF None
  <2>3. <<Do("restore")>> \in Seq(Instructions)
    BY LooseCommands
  <2> QED
    BY <2>1, <2>2, <2>3, <2>9, FourPhases DEF dune
<1>2. Table(pep517, Instructions)
  <2>1. <<Try("other")>> \in Seq(Instructions)
    BY LooseCommands
  <2>2. (IF variant THEN <<Try("input"), Try("input"), Try("input"), Try("other"), Try("leave")>>
         ELSE None) \in Seq(Instructions)
    <3>1. <<Try("input"), Try("input"), Try("input"), Try("other"), Try("leave")>> \in Seq(Instructions)
      BY LooseCommands
    <3>2. None \in Seq(Instructions)
      BY LooseCommands DEF None
    <3> QED
      BY <3>1, <3>2
  <2>3. <<Do("compile")>> \in Seq(Instructions)
    BY LooseCommands
  <2>4. <<Try("install"), Try("true")>> \in Seq(Instructions)
    BY LooseCommands
  <2>5. <<Try("other")>> \o
        (IF variant THEN <<Try("input"), Try("input"), Try("input"), Try("other"), Try("leave")>>
         ELSE None) \in Seq(Instructions)
    BY <2>1, <2>2, Joined
  <2> QED
    BY <2>3, <2>4, <2>5, ThreePhases DEF pep517
<1>3. Table(ruby, Instructions)
  <2>1. <<Try("input"), Do("compile"), Do("install"), Do("other")>> \in Seq(Instructions)
    BY LooseCommands
  <2>9. None \in Seq(Instructions)
    BY DEF None
  <2> QED
    BY <2>1, <2>9, ThreePhases DEF ruby
<1>4. Table(rust, Instructions)
  <2>1. <<Do("other")>> \in Seq(Instructions)
    BY LooseCommands
  <2>2. <<Try("other"), Do("other")>> \in Seq(Instructions)
    BY LooseCommands
  <2>3. (IF variant THEN <<Try("mkdir_PKGDIR"), Do("compile"), Do("install")>>
         ELSE <<Try("mkdir_PKGDIR"), Do("compile"), Try("install"), Try("true")>>) \in Seq(Instructions)
    <3>1. <<Try("mkdir_PKGDIR"), Do("compile"), Do("install")>> \in Seq(Instructions)
      BY LooseCommands
    <3>2. <<Try("mkdir_PKGDIR"), Do("compile"), Try("install"), Try("true")>> \in Seq(Instructions)
      BY LooseCommands DEF None
    <3> QED
      BY <3>1, <3>2
  <2>4. <<Try("install"), Try("other"), Try("true")>> \in Seq(Instructions)
    BY LooseCommands
  <2> QED
    BY <2>1, <2>2, <2>3, <2>4, FourPhases DEF rust
<1> QED
  BY <1>1, <1>2, <1>3, <1>4

\* The table of the package's template.
LEMMA RecipeType ==
  ASSUME ABTYPE \in Types
  PROVE  /\ Table(Recipe, Instructions)
         /\ ABTYPE \notin Unguarded => Table(Recipe, Heeded)
<1>1. ASSUME NEW t, Table(t, Heeded) PROVE Table(t, Instructions)
  BY <1>1, HeededType DEF Table
<1>2. CASE ABTYPE = "self"
  <2>1. Recipe = self
    BY <1>2 DEF Recipe, Templates
  <2> QED
    BY <1>2, <1>1, <2>1, StrictTables, LooseTables DEF Unguarded
<1>3. CASE ABTYPE = "autotools"
  <2>1. Recipe = autotools
    BY <1>3 DEF Recipe, Templates
  <2> QED
    BY <1>3, <1>1, <2>1, StrictTables, LooseTables DEF Unguarded
<1>4. CASE ABTYPE = "autosetup"
  <2>1. Recipe = autosetup
    BY <1>4 DEF Recipe, Templates
  <2> QED
    BY <1>4, <1>1, <2>1, StrictTables, LooseTables DEF Unguarded
<1>5. CASE ABTYPE = "cmake"
  <2>1. Recipe = cmake
    BY <1>5 DEF Recipe, Templates
  <2> QED
    BY <1>5, <1>1, <2>1, StrictTables, LooseTables DEF Unguarded
<1>6. CASE ABTYPE = "cmakeninja"
  <2>1. Recipe = cmakeninja
    BY <1>6 DEF Recipe, Templates
  <2> QED
    BY <1>6, <1>1, <2>1, StrictTables, LooseTables DEF Unguarded
<1>7. CASE ABTYPE = "meson"
  <2>1. Recipe = meson
    BY <1>7 DEF Recipe, Templates
  <2> QED
    BY <1>7, <1>1, <2>1, StrictTables, LooseTables DEF Unguarded
<1>8. CASE ABTYPE = "waf"
  <2>1. Recipe = waf
    BY <1>8 DEF Recipe, Templates
  <2> QED
    BY <1>8, <1>1, <2>1, StrictTables, LooseTables DEF Unguarded
<1>9. CASE ABTYPE = "qtproj"
  <2>1. Recipe = qtproj
    BY <1>9 DEF Recipe, Templates
  <2> QED
    BY <1>9, <1>1, <2>1, StrictTables, LooseTables DEF Unguarded
<1>10. CASE ABTYPE = "perl"
  <2>1. Recipe = perl
    BY <1>10 DEF Recipe, Templates
  <2> QED
    BY <1>10, <1>1, <2>1, StrictTables, LooseTables DEF Unguarded
<1>11. CASE ABTYPE = "gomod"
  <2>1. Recipe = gomod
    BY <1>11 DEF Recipe, Templates
  <2> QED
    BY <1>11, <1>1, <2>1, StrictTables, LooseTables DEF Unguarded
<1>12. CASE ABTYPE = "python"
  <2>1. Recipe = python
    BY <1>12 DEF Recipe, Templates
  <2> QED
    BY <1>12, <1>1, <2>1, StrictTables, LooseTables DEF Unguarded
<1>13. CASE ABTYPE = "npm"
  <2>1. Recipe = npm
    BY <1>13 DEF Recipe, Templates
  <2> QED
    BY <1>13, <1>1, <2>1, StrictTables, LooseTables DEF Unguarded
<1>14. CASE ABTYPE = "dummy"
  <2>1. Recipe = dummy
    BY <1>14 DEF Recipe, Templates
  <2> QED
    BY <1>14, <1>1, <2>1, StrictTables, LooseTables DEF Unguarded
<1>15. CASE ABTYPE = "dune"
  <2>1. Recipe = dune
    BY <1>15 DEF Recipe, Templates
  <2> QED
    BY <1>15, <1>1, <2>1, StrictTables, LooseTables DEF Unguarded
<1>16. CASE ABTYPE = "pep517"
  <2>1. Recipe = pep517
    BY <1>16 DEF Recipe, Templates
  <2> QED
    BY <1>16, <1>1, <2>1, StrictTables, LooseTables DEF Unguarded
<1>17. CASE ABTYPE = "ruby"
  <2>1. Recipe = ruby
    BY <1>17 DEF Recipe, Templates
  <2> QED
    BY <1>17, <1>1, <2>1, StrictTables, LooseTables DEF Unguarded
<1>18. CASE ABTYPE = "rust"
  <2>1. Recipe = rust
    BY <1>18 DEF Recipe, Templates
  <2> QED
    BY <1>18, <1>1, <2>1, StrictTables, LooseTables DEF Unguarded
<1> QED
  BY <1>2, <1>3, <1>4, <1>5, <1>6, <1>7, <1>8, <1>9, <1>10, <1>11, <1>12, <1>13, <1>14, <1>15, <1>16, <1>17, <1>18

\* What the shell is executing is such a sequence.
LEMMA CommandsType ==
  ABTYPE \in Types =>
     /\ Commands \in Seq(Instructions)
     /\ ABTYPE \notin Unguarded => Commands \in Seq(Heeded)
<1> SUFFICES ASSUME ABTYPE \in Types
             PROVE  /\ Commands \in Seq(Instructions)
                    /\ ABTYPE \notin Unguarded => Commands \in Seq(Heeded)
  OBVIOUS
<1>1. CASE phase \in {"prepare", "beyond"}
  <2>1. Do("other") \in Heeded /\ Do("other") \in Instructions
    BY OtherCommands, HeededType
  <2> QED
    BY <1>1, <2>1 DEF Commands
<1>2. CASE phase \notin {"prepare", "beyond"} /\ phase \in DOMAIN Recipe
  <2>1. Commands = Recipe[phase]
    BY <1>2 DEF Commands
  <2> QED
    BY <1>2, <2>1, RecipeType DEF Table
<1>3. CASE phase \notin {"prepare", "beyond"} /\ phase \notin DOMAIN Recipe
  <2>1. Commands = <<>>
    BY <1>3 DEF Commands, None
  <2> QED
    BY <2>1
<1> QED
  BY <1>1, <1>2, <1>3

\* So is what it executes next.
LEMMA CommandsTypeNext == (ABTYPE \in Types => Commands \in Seq(Instructions))'
<1>1. ABTYPE \in Types => Commands \in Seq(Instructions)
  BY CommandsType
<1> QED
  BY <1>1, PTL

\* It depends on the package and the phase only.
LEMMA CommandsStay ==
  ASSUME UNCHANGED <<ABTYPE, ABSHADOW, variant, phase>>
  PROVE  Commands' = Commands
BY DEF Commands, Recipe, Templates, None, Enter, Leave, Do, Try, self, autotools, autosetup, cmake,
       cmakeninja, meson, waf, qtproj, perl, dune, gomod, pep517, rust, python, ruby, npm, dummy

\* The order of the phases.
LEMMA Order ==
  /\ DOMAIN After = {"prepare", "check", "audit", "configure", "build", "install"}
  /\ \A p \in DOMAIN After : After[p] \in DOMAIN After \cup {"beyond"}
BY DEF After

-----------------------------------------------------------------------------
(* Types.                                                                  *)

\* What a command does to the disk keeps its types, and leaves the shell in a directory.
LEMMA EffectType ==
  ASSUME TypeOK, Effect
  PROVE  /\ made' \subseteq Things /\ packed' \subseteq Targets
         /\ conf' \in [Dirs -> Targets \cup {"none"}]
         /\ obj' \in [Dirs -> SUBSET Targets] /\ lib' \in [Targets -> SUBSET Targets]
         /\ cwd' \in Dirs
<1> USE DEF TypeOK, Effect
<1>1. made' \subseteq Things
  <2>1. CASE Command.role \in {"mkdir", "mkdir_p"}
    BY <2>1 DEF Things
  <2>2. CASE Command.role = "ln"
    BY <2>2 DEF Things
  <2>3. CASE Command.role = "restore"
    BY <2>3 DEF Things
  <2>4. CASE Command.role \notin {"mkdir", "mkdir_p", "ln", "restore"}
    BY <2>4
  <2> QED
    BY <2>1, <2>2, <2>3, <2>4
<1>2. packed' \subseteq Targets
  OBVIOUS
<1>3. conf' \in [Dirs -> Targets \cup {"none"}]
  <2>1. CASE Command.role = "configure"
    BY <2>1
  <2>2. CASE Command.role = "setup"
    BY <2>2
  <2>3. CASE Command.role \notin {"configure", "setup"}
    BY <2>3
  <2> QED
    BY <2>1, <2>2, <2>3
<1>4. obj' \in [Dirs -> SUBSET Targets]
  <2>1. \A o \in Compiled(cwd) : o \in SUBSET Targets
    BY DEF Compiled
  <2> QED
    BY <2>1
<1>5. lib' \in [Targets -> SUBSET Targets]
  OBVIOUS
<1>6. cwd' \in Dirs
  BY DEF Dirs
<1> QED
  BY <1>1, <1>2, <1>3, <1>4, <1>5, <1>6

\* Every step of a run, of its death and between runs keeps the types.
LEMMA TypeStep == TypeOK /\ [Next]_vars => TypeOK'
<1> SUFFICES ASSUME TypeOK, [Next]_vars PROVE TypeOK'
  OBVIOUS
<1>a. Commands \in Seq(Instructions)
  BY CommandsType DEF TypeOK
<1>b. ABTYPE' = ABTYPE
  BY DEF Next, StartRun, UnpackAgain, Succeeds, Fails, Stop, Refused, Return, TargetDone,
         Hwcaps, HwcapsRefused, BuildDone, chosen, vars
<1>c. 1 \in 1..(Len(Commands') + 1)
  <2>1. Commands' \in Seq(Instructions)
    BY <1>b, CommandsTypeNext DEF TypeOK
  <2> QED
    BY <2>1
<1> USE DEF TypeOK, chosen, disk, history
<1>1. CASE StartRun
  <2>1. phase' \in DOMAIN After \cup {"beyond"} /\ at' \in 1..(Len(Commands') + 1)
    BY <1>1, <1>c, Order DEF StartRun
  <2>2. packed' \subseteq Targets /\ lib' \in [Targets -> SUBSET Targets]
    BY <1>1 DEF StartRun
  <2>3. target' \in Targets /\ cwd' \in Dirs /\ BLDDIR' \in Dirs
    BY <1>1 DEF StartRun, Targets, Dirs
  <2>4. run' \in 0..MaxRuns /\ caps' \subseteq Caps /\ failed' \subseteq Roles
    BY <1>1 DEF StartRun
  <2>5. UNCHANGED <<ABTYPE, ABSHADOW, variant, conf, obj>> /\ made' \subseteq Things
    BY <1>1 DEF StartRun, Things
  <2>6. /\ pc' \in {"idle", "build", "next"} /\ ret' \in {0, 1} /\ fault' \in BOOLEAN
        /\ outcome' \in {"none", "ok", "died", "refused"}
    BY <1>1 DEF StartRun
  <2> QED
    BY <2>1, <2>2, <2>3, <2>4, <2>5, <2>6
<1>2. CASE UnpackAgain
  <2>1. Commands' = Commands
    BY <1>2, CommandsStay DEF UnpackAgain
  <2> QED
    BY <1>2, <2>1 DEF UnpackAgain, Unconfigured, NoObjects, NoLibraries
<1>3. CASE Succeeds
  <2>1. Commands' = Commands
    BY <1>3, CommandsStay DEF Succeeds, Step
  <2>2. at' \in 1..(Len(Commands') + 1)
    BY <1>3, <1>a, <2>1 DEF Succeeds, Step, Running
  <2> QED
    BY <1>3, <2>2, EffectType DEF Succeeds, Step
<1>4. CASE Fails
  <2>1. Commands' = Commands
    BY <1>4, CommandsStay DEF Fails, Step, Die
  <2>2. at' \in 1..(Len(Commands') + 1)
    <3>1. CASE Command.guarded
      BY <1>4, <2>1, <3>1 DEF Fails, Die
    <3>2. CASE ~Command.guarded
      BY <1>4, <1>a, <2>1, <3>2 DEF Fails, Step, Running
    <3> QED
      BY <3>1, <3>2
  <2>3. Command.role \in Roles
    <3>1. at \in 1..Len(Commands)
      BY <1>4 DEF Fails, Running
    <3>2. Command \in Instructions
      BY <1>a, <3>1 DEF Command
    <3> QED
      BY <3>2 DEF Instructions
  <2>5. CASE Effect
    BY <1>4, <2>2, <2>3, <2>5, EffectType DEF Fails, Step, Die
  <2>6. CASE UNCHANGED <<disk, cwd>>
    BY <1>4, <2>2, <2>3, <2>6 DEF Fails, Step, Die
  <2> QED
    BY <1>4, <2>5, <2>6 DEF Fails
<1>5. CASE Stop
  <2>1. Commands' = Commands
    BY <1>5, CommandsStay DEF Stop, Die
  <2> QED
    BY <1>5, <2>1 DEF Stop, Die
<1>6. CASE Refused
  <2>1. Commands' = Commands
    BY <1>6, CommandsStay DEF Refused
  <2> QED
    BY <1>6, <2>1 DEF Refused
<1>7. CASE Return
  <2>1. CASE ret # 0 \/ (phase = Checked /\ target \notin packed)
    <3>1. Commands' = Commands
      BY <1>7, <2>1, CommandsStay DEF Return, Die
    <3> QED
      BY <1>7, <2>1, <3>1 DEF Return, Die
  <2>2. CASE ~(ret # 0 \/ (phase = Checked /\ target \notin packed))
    BY <1>7, <1>c, <2>2, Order DEF Return, Dirs
  <2> QED
    BY <2>1, <2>2
<1>8. CASE TargetDone
  <2>1. Commands' = Commands
    BY <1>8, CommandsStay DEF TargetDone, Die
  <2> QED
    BY <1>8, <2>1 DEF TargetDone, Die
<1>9. ASSUME NEW c \in Caps, Hwcaps(c) PROVE TypeOK'
  <2>1. phase' \in DOMAIN After \cup {"beyond"} /\ at' \in 1..(Len(Commands') + 1)
    BY <1>9, <1>c, Order DEF Hwcaps
  <2>2. BLDDIR' \in Dirs /\ conf' \in [Dirs -> Targets \cup {"none"}]
    BY <1>9 DEF Hwcaps, Dirs
  <2>3. target' \in Targets /\ cwd' \in Dirs
    BY <1>9 DEF Hwcaps, Targets, Dirs
  <2> QED
    BY <1>9, <2>1, <2>2, <2>3 DEF Hwcaps
<1>10. CASE HwcapsRefused
  <2>1. Commands' = Commands
    BY <1>10, CommandsStay DEF HwcapsRefused
  <2> QED
    BY <1>10, <2>1 DEF HwcapsRefused
<1>11. CASE BuildDone
  <2>1. Commands' = Commands
    BY <1>11, CommandsStay DEF BuildDone
  <2> QED
    BY <1>11, <2>1 DEF BuildDone
<1>12. CASE UNCHANGED vars
  <2>1. Commands' = Commands
    BY <1>12, CommandsStay DEF vars
  <2> QED
    BY <1>12, <2>1 DEF vars
<1> QED
  BY <1>1, <1>2, <1>3, <1>4, <1>5, <1>6, <1>7, <1>8, <1>9, <1>10, <1>11, <1>12 DEF Next

\* The current command is always one of the table or the end of it, whatever fails.
THEOREM TypeCorrect == Spec => []TypeOK
<1>1. Init => TypeOK
  <2> SUFFICES ASSUME Init PROVE TypeOK
    OBVIOUS
  <2>1. Commands \in Seq(Instructions)
    BY CommandsType DEF Init
  <2> QED
    <3>1. target \in Targets /\ cwd \in Dirs /\ BLDDIR \in Dirs
      BY DEF Init, Targets, Dirs
    <3>2. /\ conf \in [Dirs -> Targets \cup {"none"}]
          /\ obj \in [Dirs -> SUBSET Targets] /\ lib \in [Targets -> SUBSET Targets]
      BY DEF Init, Unconfigured, NoObjects, NoLibraries
    <3>3. phase \in DOMAIN After \cup {"beyond"} /\ at \in 1..(Len(Commands) + 1)
      BY <2>1, Order DEF Init
    <3>4. variant \in BOOLEAN /\ ABSHADOW \in BOOLEAN
      BY DEF Init
    <3>5. /\ made \subseteq Things /\ packed \subseteq Targets
          /\ run \in 0..MaxRuns /\ caps \subseteq Caps /\ failed \subseteq Roles
      BY DEF Init
    <3>6. /\ pc \in {"idle", "build", "next"} /\ ret \in {0, 1} /\ fault \in BOOLEAN
          /\ outcome \in {"none", "ok", "died", "refused"} /\ ABTYPE \in Types
      BY DEF Init
    <3> QED
      BY <3>1, <3>2, <3>3, <3>4, <3>5, <3>6 DEF TypeOK
<1> QED
  BY <1>1, TypeStep, PTL DEF Spec

-----------------------------------------------------------------------------
(* Failures.                                                               *)

\* A run that has an outcome is over; where every vital command has its abdie, a run in
\* which one failed has died.
HeedInv ==
  /\ pc # "idle" => outcome = "none"
  /\ ABTYPE \notin Unguarded => outcome = "died" \/ failed \cap Vital = {}

\* Only Fails adds a failure, and it kills the run unless the command is not vital.
LEMMA HeedStep == TypeOK /\ HeedInv /\ [Next]_vars => HeedInv'
<1> SUFFICES ASSUME TypeOK, HeedInv, [Next]_vars PROVE HeedInv'
  OBVIOUS
<1> USE DEF HeedInv, chosen, history
<1>1. CASE StartRun
  BY <1>1 DEF StartRun
<1>2. CASE UnpackAgain
  BY <1>2 DEF UnpackAgain
<1>3. CASE Succeeds
  BY <1>3 DEF Succeeds, Step, Running
<1>4. CASE Fails
  <2>1. CASE Command.guarded
    BY <1>4, <2>1 DEF Fails, Die
  <2>2. CASE ~Command.guarded
    <3>1. ABTYPE \notin Unguarded => Command.role \notin Vital
      BY <1>4, <2>2, CommandsType DEF Fails, Running, Command, Heeded, TypeOK
    <3> QED
      BY <1>4, <2>2, <3>1 DEF Fails, Step, Running
  <2> QED
    BY <2>1, <2>2
<1>5. CASE Stop
  BY <1>5 DEF Stop, Die
<1>6. CASE Refused
  BY <1>6 DEF Refused, Running
<1>7. CASE Return
  BY <1>7 DEF Return, Die
<1>8. CASE TargetDone
  BY <1>8 DEF TargetDone, Die
<1>9. ASSUME NEW c \in Caps, Hwcaps(c) PROVE HeedInv'
  BY <1>9 DEF Hwcaps
<1>10. CASE HwcapsRefused
  BY <1>10 DEF HwcapsRefused
<1>11. CASE BuildDone
  BY <1>11 DEF BuildDone
<1>12. CASE UNCHANGED vars
  BY <1>12 DEF vars
<1> QED
  BY <1>1, <1>2, <1>3, <1>4, <1>5, <1>6, <1>7, <1>8, <1>9, <1>10, <1>11, <1>12 DEF Next

\* In thirteen of the seventeen templates no failure of a command that configures,
\* compiles or installs ends in a package, although bash itself ignores it.
THEOREM FailuresAreSeen == Spec => []NoSilentFailure
<1>1. Init => HeedInv
  BY DEF Init, HeedInv, Vital
<1>2. HeedInv => NoSilentFailure
  BY DEF HeedInv, NoSilentFailure
<1> QED
  BY <1>1, <1>2, HeedStep, TypeCorrect, PTL DEF Spec
-----------------------------------------------------------------------------
(* Places.                                                                 *)

\* The templates that configure, and those of them that build in BLDDIR.
Configuring == {"autotools", "autosetup", "cmake", "cmakeninja", "meson", "waf", "qtproj",
                "perl", "gomod"}
Apart == \/ ABTYPE \in {"meson", "gomod"}
         \/ ABSHADOW /\ ABTYPE \in {"autotools", "autosetup", "cmake", "cmakeninja"}

\* What their phases look like.
ConfigureForms ==
  \/ ABTYPE = "meson" /\ Commands = <<Do("mkdir"), Do("setup")>>
  \/ ABTYPE # "meson" /\ Apart /\ Commands = <<Do("mkdir_p"), Do("enter"), Do("configure")>>
  \/ ABTYPE # "meson" /\ Apart
       /\ Commands = <<Do("other"), Do("mkdir_p"), Do("enter"), Do("configure")>>
  \/ ABTYPE # "meson" /\ Apart
       /\ Commands = <<Do("need_shadow"), Do("mkdir_p"), Do("enter"), Do("configure")>>
  \/ ABTYPE # "meson" /\ ~Apart /\ Commands = <<Do("configure")>>
  \/ ABTYPE # "meson" /\ ~Apart /\ Commands = <<Do("other"), Do("configure")>>

BuildForms ==
  \/ Apart /\ Commands = <<Do("enter"), Do("compile")>>
  \/ ABTYPE # "meson" /\ Commands = <<Do("compile")>>
  \/ ABTYPE # "meson" /\ Commands = <<>>
  \/ ABTYPE # "meson"
       /\ Commands = <<Try("mkdir_PKGDIR"), Do("compile"), Do("install"), Try("true")>>

InstallForms ==
  \/ ABTYPE = "gomod" /\ Commands = <<>>
  \/ Commands = <<Do("install")>>
  \/ Commands = <<Do("install"), Do("leave")>>
  \/ Commands = <<Do("compile"), Do("install")>>
  \/ Commands = <<Do("compile"), Do("install"), Do("leave")>>

\* A concatenation is known by its elements.
LEMMA ConcatenationIs ==
  ASSUME NEW S, NEW s \in Seq(S), NEW t \in Seq(S), NEW u \in Seq(S),
         Len(u) = Len(s) + Len(t),
         \A i \in 1..Len(s) : u[i] = s[i],
         \A i \in 1..Len(t) : u[Len(s) + i] = t[i]
  PROVE  s \o t = u
<1>0. Len(s) \in Nat /\ Len(t) \in Nat /\ Len(u) \in Nat
  OBVIOUS
<1>1. /\ s \o t \in Seq(S) /\ Len(s \o t) = Len(s) + Len(t)
      /\ \A i \in 1..(Len(s) + Len(t)) :
            (s \o t)[i] = IF i <= Len(s) THEN s[i] ELSE t[i - Len(s)]
  BY ConcatProperties
<1>2. ASSUME NEW i \in 1..Len(u) PROVE (s \o t)[i] = u[i]
  <2>1. CASE i <= Len(s)
    <3>1. (s \o t)[i] = s[i]
      BY <1>0, <1>1, <2>1
    <3> QED BY <1>0, <2>1, <3>1
  <2>2. CASE ~(i <= Len(s))
    <3>1. i - Len(s) \in 1..Len(t) /\ Len(s) + (i - Len(s)) = i
      BY <1>0, <2>2
    <3>2. (s \o t)[i] = t[i - Len(s)]
      BY <1>0, <1>1, <2>2
    <3>3. u[Len(s) + (i - Len(s))] = t[i - Len(s)]
      BY <3>1
    <3> QED BY <3>1, <3>2, <3>3
  <2> QED BY <2>1, <2>2
<1> QED BY <1>0, <1>1, <1>2, SeqEqual

\* Short sequences put together.
LEMMA LastJoined ==
  ASSUME NEW a, NEW b, NEW c, NEW d
  PROVE  <<a, b, c>> \o <<d>> = <<a, b, c, d>>
<1> DEFINE S == {a, b, c, d}
<1> DEFINE s == <<a, b, c>>  t == <<d>>  u == <<a, b, c, d>>
<1>1. s \in Seq(S) /\ Len(s) = 3 /\ s[1] = a /\ s[2] = b /\ s[3] = c
  OBVIOUS
<1>2. t \in Seq(S) /\ Len(t) = 1 /\ t[1] = d
  OBVIOUS
<1>3. u \in Seq(S) /\ Len(u) = 4 /\ u[1] = a /\ u[2] = b /\ u[3] = c /\ u[4] = d
  OBVIOUS
<1> HIDE DEF S, s, t, u
<1>4. \A i \in 1..Len(s) : u[i] = s[i]
  BY <1>1, <1>3
<1>5. \A i \in 1..Len(t) : u[Len(s) + i] = t[i]
  BY <1>1, <1>2, <1>3
<1>6. Len(u) = Len(s) + Len(t)
  BY <1>1, <1>2, <1>3
<1>7. s \in Seq(S) /\ t \in Seq(S) /\ u \in Seq(S)
  BY <1>1, <1>2, <1>3
<1>8. s \o t = u
  BY <1>4, <1>5, <1>6, <1>7, ConcatenationIs, Zenon
<1> QED BY <1>8 DEF s, t, u

LEMMA Concatenations ==
  ASSUME NEW a, NEW b, NEW c, NEW d
  PROVE  /\ <<a>> \o <<b>> = <<a, b>>
         /\ <<a, b>> \o <<c>> = <<a, b, c>>
         /\ <<a>> \o <<b, c>> = <<a, b, c>>
         /\ <<a, b, c>> \o <<d>> = <<a, b, c, d>>
         /\ <<>> \o <<a>> = <<a>> /\ <<a>> \o <<>> = <<a>>
         /\ <<>> \o <<a, b>> = <<a, b>> /\ <<a, b>> \o <<>> = <<a, b>>
<1> DEFINE S == {a, b, c, d}
<1>1. <<a>> \o <<b>> = <<a, b>>
  <2> DEFINE s == <<a>>  t == <<b>>  u == <<a, b>>
  <2>1. s \in Seq(S) /\ Len(s) = 1 /\ s[1] = a
    OBVIOUS
  <2>2. t \in Seq(S) /\ Len(t) = 1 /\ t[1] = b
    OBVIOUS
  <2>3. u \in Seq(S) /\ Len(u) = 2 /\ u[1] = a /\ u[2] = b
    OBVIOUS
  <2> HIDE DEF S, s, t, u
  <2>4. \A i \in 1..Len(s) : u[i] = s[i]
    BY <2>1, <2>3
  <2>5. \A i \in 1..Len(t) : u[Len(s) + i] = t[i]
    BY <2>1, <2>2, <2>3
  <2>6. Len(u) = Len(s) + Len(t)
    BY <2>1, <2>2, <2>3
  <2>7. s \in Seq(S) /\ t \in Seq(S) /\ u \in Seq(S)
    BY <2>1, <2>2, <2>3
  <2>8. s \o t = u
    BY <2>4, <2>5, <2>6, <2>7, ConcatenationIs, Zenon
  <2> QED BY <2>8 DEF s, t, u
<1>2. <<a, b>> \o <<c>> = <<a, b, c>>
  <2> DEFINE s == <<a, b>>  t == <<c>>  u == <<a, b, c>>
  <2>1. s \in Seq(S) /\ Len(s) = 2 /\ s[1] = a /\ s[2] = b
    OBVIOUS
  <2>2. t \in Seq(S) /\ Len(t) = 1 /\ t[1] = c
    OBVIOUS
  <2>3. u \in Seq(S) /\ Len(u) = 3 /\ u[1] = a /\ u[2] = b /\ u[3] = c
    OBVIOUS
  <2> HIDE DEF S, s, t, u
  <2>4. \A i \in 1..Len(s) : u[i] = s[i]
    BY <2>1, <2>3
  <2>5. \A i \in 1..Len(t) : u[Len(s) + i] = t[i]
    BY <2>1, <2>2, <2>3
  <2>6. Len(u) = Len(s) + Len(t)
    BY <2>1, <2>2, <2>3
  <2>7. s \in Seq(S) /\ t \in Seq(S) /\ u \in Seq(S)
    BY <2>1, <2>2, <2>3
  <2>8. s \o t = u
    BY <2>4, <2>5, <2>6, <2>7, ConcatenationIs, Zenon
  <2> QED BY <2>8 DEF s, t, u
<1>3. <<a>> \o <<b, c>> = <<a, b, c>>
  <2> DEFINE s == <<a>>  t == <<b, c>>  u == <<a, b, c>>
  <2>1. s \in Seq(S) /\ Len(s) = 1 /\ s[1] = a
    OBVIOUS
  <2>2. t \in Seq(S) /\ Len(t) = 2 /\ t[1] = b /\ t[2] = c
    OBVIOUS
  <2>3. u \in Seq(S) /\ Len(u) = 3 /\ u[1] = a /\ u[2] = b /\ u[3] = c
    OBVIOUS
  <2> HIDE DEF S, s, t, u
  <2>4. \A i \in 1..Len(s) : u[i] = s[i]
    BY <2>1, <2>3
  <2>5. \A i \in 1..Len(t) : u[Len(s) + i] = t[i]
    BY <2>1, <2>2, <2>3
  <2>6. Len(u) = Len(s) + Len(t)
    BY <2>1, <2>2, <2>3
  <2>7. s \in Seq(S) /\ t \in Seq(S) /\ u \in Seq(S)
    BY <2>1, <2>2, <2>3
  <2>8. s \o t = u
    BY <2>4, <2>5, <2>6, <2>7, ConcatenationIs, Zenon
  <2> QED BY <2>8 DEF s, t, u
<1>4. <<a, b, c>> \o <<d>> = <<a, b, c, d>>
  BY LastJoined, Zenon
<1>5. <<>> \o <<a>> = <<a>> /\ <<a>> \o <<>> = <<a>>
  BY ConcatEmptySeq, <<a>> \in Seq({a})
<1>6. <<>> \o <<a, b>> = <<a, b>> /\ <<a, b>> \o <<>> = <<a, b>>
  BY ConcatEmptySeq, <<a, b>> \in Seq({a, b})
<1> QED BY <1>1, <1>2, <1>3, <1>4, <1>5, <1>6

\* Those the templates are made of.
LEMMA Joints ==
  /\ <<Do("mkdir_p"), Do("enter")>> \o <<Do("configure")>> = <<Do("mkdir_p"), Do("enter"), Do("configure")>>
  /\ <<>> \o <<Do("configure")>> = <<Do("configure")>>
  /\ <<Do("other")>> \o <<Do("mkdir_p"), Do("enter")>> = <<Do("other"), Do("mkdir_p"), Do("enter")>>
  /\ <<Do("other"), Do("mkdir_p"), Do("enter")>> \o <<Do("configure")>> = <<Do("other"), Do("mkdir_p"), Do("enter"), Do("configure")>>
  /\ <<Do("other")>> \o <<>> = <<Do("other")>>
  /\ <<Do("other")>> \o <<Do("configure")>> = <<Do("other"), Do("configure")>>
  /\ <<Do("install")>> \o <<Do("leave")>> = <<Do("install"), Do("leave")>>
  /\ <<Do("install")>> \o <<>> = <<Do("install")>>
  /\ <<Do("compile")>> \o <<Do("install")>> = <<Do("compile"), Do("install")>>
  /\ <<>> \o <<Do("install")>> = <<Do("install")>>
  /\ <<Do("compile"), Do("install")>> \o <<Do("leave")>> = <<Do("compile"), Do("install"), Do("leave")>>
  /\ <<Do("compile"), Do("install")>> \o <<>> = <<Do("compile"), Do("install")>>
  /\ <<Do("enter")>> \o <<Do("compile")>> = <<Do("enter"), Do("compile")>>
  /\ <<>> \o <<Do("compile")>> = <<Do("compile")>>
<1>1. <<Do("mkdir_p"), Do("enter")>> \o <<Do("configure")>> = <<Do("mkdir_p"), Do("enter"), Do("configure")>>
  BY Concatenations, Zenon
<1>2. <<>> \o <<Do("configure")>> = <<Do("configure")>>
  BY Concatenations, Zenon
<1>3. <<Do("other")>> \o <<Do("mkdir_p"), Do("enter")>> = <<Do("other"), Do("mkdir_p"), Do("enter")>>
  BY Concatenations, Zenon
<1>4. <<Do("other"), Do("mkdir_p"), Do("enter")>> \o <<Do("configure")>> = <<Do("other"), Do("mkdir_p"), Do("enter"), Do("configure")>>
  BY LastJoined, Zenon
<1>5. <<Do("other")>> \o <<>> = <<Do("other")>>
  BY Concatenations, Zenon
<1>6. <<Do("other")>> \o <<Do("configure")>> = <<Do("other"), Do("configure")>>
  BY Concatenations, Zenon
<1>7. <<Do("install")>> \o <<Do("leave")>> = <<Do("install"), Do("leave")>>
  BY Concatenations, Zenon
<1>8. <<Do("install")>> \o <<>> = <<Do("install")>>
  BY Concatenations, Zenon
<1>9. <<Do("compile")>> \o <<Do("install")>> = <<Do("compile"), Do("install")>>
  BY Concatenations, Zenon
<1>10. <<>> \o <<Do("install")>> = <<Do("install")>>
  BY Concatenations, Zenon
<1>11. <<Do("compile"), Do("install")>> \o <<Do("leave")>> = <<Do("compile"), Do("install"), Do("leave")>>
  BY Concatenations, Zenon
<1>12. <<Do("compile"), Do("install")>> \o <<>> = <<Do("compile"), Do("install")>>
  BY Concatenations, Zenon
<1>13. <<Do("enter")>> \o <<Do("compile")>> = <<Do("enter"), Do("compile")>>
  BY Concatenations, Zenon
<1>14. <<>> \o <<Do("compile")>> = <<Do("compile")>>
  BY Concatenations, Zenon
<1> QED BY <1>1, <1>2, <1>3, <1>4, <1>5, <1>6, <1>7, <1>8, <1>9, <1>10, <1>11, <1>12, <1>13, <1>14

\* The phases of each template, with and without ABSHADOW.
LEMMA Forms ==
  ASSUME ABTYPE \in Configuring, ABSHADOW \in BOOLEAN, variant \in BOOLEAN
  PROVE  /\ phase = "configure" => ConfigureForms
         /\ phase = "build" => BuildForms
         /\ phase = "install" => InstallForms
         /\ phase \in {"prepare", "beyond"} => Commands = <<Do("other")>>
         /\ phase \in {"check", "audit"} => Commands = <<>>
<1>0. /\ Enter = IF ABSHADOW THEN <<Do("mkdir_p"), Do("enter")>> ELSE <<>>
      /\ Leave = IF ABSHADOW THEN <<Do("leave")>> ELSE <<>>
  BY DEF Enter, Leave
<1>1. phase \in {"prepare", "beyond"} => Commands = <<Do("other")>>
  BY DEF Commands
<1> USE <1>0, <1>1 DEF Configuring, Apart, ConfigureForms, BuildForms, InstallForms
<1>2. CASE ABTYPE = "autotools"
  <2>1. Recipe = autotools
    BY <1>2 DEF Recipe, Templates
  <2>2. Commands = IF phase \in {"prepare", "beyond"} THEN <<Do("other")>>
                   ELSE IF phase \in DOMAIN autotools THEN autotools[phase] ELSE <<>>
    BY <2>1 DEF Commands, None
  <2>3. autotools.configure = IF ABSHADOW
             THEN <<Do("other"), Do("mkdir_p"), Do("enter"), Do("configure")>>
             ELSE <<Do("other"), Do("configure")>>
    <3>1. autotools.configure = <<Do("other")>> \o Enter \o <<Do("configure")>>
      BY DEF autotools
    <3>2. CASE ABSHADOW
      BY <1>0, <3>1, <3>2, Joints
    <3>3. CASE ~ABSHADOW
      BY <1>0, <3>1, <3>3, Joints
    <3> QED BY <3>2, <3>3
  <2>4. autotools.install = IF ABSHADOW THEN <<Do("install"), Do("leave")>> ELSE <<Do("install")>>
    <3>1. autotools.install = <<Do("install")>> \o Leave
      BY DEF autotools
    <3>2. CASE ABSHADOW
      BY <1>0, <3>1, <3>2, Joints
    <3>3. CASE ~ABSHADOW
      BY <1>0, <3>1, <3>3, Joints
    <3> QED BY <3>2, <3>3
  <2>5. autotools.build = <<Do("compile")>>
    BY DEF autotools
  <2>6. DOMAIN autotools = {"configure", "build", "install"}
    BY DEF autotools
  <2> QED BY <1>2, <2>2, <2>3, <2>4, <2>5, <2>6
<1>3. CASE ABTYPE = "autosetup"
  <2>1. Recipe = autosetup
    BY <1>3 DEF Recipe, Templates
  <2>2. Commands = IF phase \in {"prepare", "beyond"} THEN <<Do("other")>>
                   ELSE IF phase \in DOMAIN autosetup THEN autosetup[phase] ELSE <<>>
    BY <2>1 DEF Commands, None
  <2>3. autosetup.configure = IF ABSHADOW
             THEN <<Do("mkdir_p"), Do("enter"), Do("configure")>>
             ELSE <<Do("configure")>>
    <3>1. autosetup.configure = Enter \o <<Do("configure")>>
      BY DEF autosetup
    <3>2. CASE ABSHADOW
      BY <1>0, <3>1, <3>2, Joints
    <3>3. CASE ~ABSHADOW
      BY <1>0, <3>1, <3>3, Joints
    <3> QED BY <3>2, <3>3
  <2>4. autosetup.install = IF ABSHADOW THEN <<Do("install"), Do("leave")>> ELSE <<Do("install")>>
    <3>1. autosetup.install = <<Do("install")>> \o Leave
      BY DEF autosetup
    <3>2. CASE ABSHADOW
      BY <1>0, <3>1, <3>2, Joints
    <3>3. CASE ~ABSHADOW
      BY <1>0, <3>1, <3>3, Joints
    <3> QED BY <3>2, <3>3
  <2>5. autosetup.build = IF ABSHADOW THEN <<Do("enter"), Do("compile")>> ELSE <<Do("compile")>>
    <3>1. autosetup.build = (IF ABSHADOW THEN <<Do("enter")>> ELSE <<>>) \o <<Do("compile")>>
      BY DEF autosetup, None
    <3> QED BY <3>1, Joints
  <2>6. DOMAIN autosetup = {"configure", "build", "install"}
    BY DEF autosetup
  <2> QED BY <1>3, <2>2, <2>3, <2>4, <2>5, <2>6
<1>4. CASE ABTYPE = "cmake"
  <2>1. Recipe = cmake
    BY <1>4 DEF Recipe, Templates
  <2>2. Commands = IF phase \in {"prepare", "beyond"} THEN <<Do("other")>>
                   ELSE IF phase \in DOMAIN cmake THEN cmake[phase] ELSE <<>>
    BY <2>1 DEF Commands, None
  <2>3. cmake.configure = IF ABSHADOW
             THEN <<Do("mkdir_p"), Do("enter"), Do("configure")>>
             ELSE <<Do("configure")>>
    <3>1. cmake.configure = Enter \o <<Do("configure")>>
      BY DEF cmake
    <3>2. CASE ABSHADOW
      BY <1>0, <3>1, <3>2, Joints
    <3>3. CASE ~ABSHADOW
      BY <1>0, <3>1, <3>3, Joints
    <3> QED BY <3>2, <3>3
  <2>4. cmake.install = IF ABSHADOW THEN <<Do("install"), Do("leave")>> ELSE <<Do("install")>>
    <3>1. cmake.install = <<Do("install")>> \o Leave
      BY DEF cmake
    <3>2. CASE ABSHADOW
      BY <1>0, <3>1, <3>2, Joints
    <3>3. CASE ~ABSHADOW
      BY <1>0, <3>1, <3>3, Joints
    <3> QED BY <3>2, <3>3
  <2>5. cmake.build = <<Do("compile")>>
    BY DEF cmake
  <2>6. DOMAIN cmake = {"configure", "build", "install"}
    BY DEF cmake
  <2> QED BY <1>4, <2>2, <2>3, <2>4, <2>5, <2>6
<1>5. CASE ABTYPE = "cmakeninja"
  <2>1. Recipe = cmakeninja
    BY <1>5 DEF Recipe, Templates
  <2>2. Commands = IF phase \in {"prepare", "beyond"} THEN <<Do("other")>>
                   ELSE IF phase \in DOMAIN cmakeninja THEN cmakeninja[phase] ELSE <<>>
    BY <2>1 DEF Commands, None
  <2>3. cmakeninja.configure = IF ABSHADOW
             THEN <<Do("mkdir_p"), Do("enter"), Do("configure")>>
             ELSE <<Do("configure")>>
    <3>1. cmakeninja.configure = Enter \o <<Do("configure")>>
      BY DEF cmakeninja
    <3>2. CASE ABSHADOW
      BY <1>0, <3>1, <3>2, Joints
    <3>3. CASE ~ABSHADOW
      BY <1>0, <3>1, <3>3, Joints
    <3> QED BY <3>2, <3>3
  <2>4. cmakeninja.install =
            IF variant THEN (IF ABSHADOW THEN <<Do("install"), Do("leave")>> ELSE <<Do("install")>>)
            ELSE (IF ABSHADOW THEN <<Do("compile"), Do("install"), Do("leave")>>
                              ELSE <<Do("compile"), Do("install")>>)
    <3>1. cmakeninja.install =
            (IF variant THEN <<>> ELSE <<Do("compile")>>) \o <<Do("install")>> \o Leave
      BY DEF cmakeninja, None
    <3>2. CASE ABSHADOW
      BY <1>0, <3>1, <3>2, Joints
    <3>3. CASE ~ABSHADOW
      BY <1>0, <3>1, <3>3, Joints
    <3> QED BY <3>2, <3>3
  <2>5. cmakeninja.build = IF variant THEN <<Do("compile")>> ELSE <<>>
    BY DEF cmakeninja, None
  <2>6. DOMAIN cmakeninja = {"configure", "build", "install"}
    BY DEF cmakeninja
  <2> QED BY <1>5, <2>2, <2>3, <2>4, <2>5, <2>6
<1>6. CASE ABTYPE = "meson"
  <2>1. Recipe = meson
    BY <1>6 DEF Recipe, Templates
  <2>2. Commands = IF phase \in {"prepare", "beyond"} THEN <<Do("other")>>
                   ELSE IF phase \in DOMAIN meson THEN meson[phase] ELSE <<>>
    BY <2>1 DEF Commands, None
  <2> QED BY <1>6, <2>2 DEF meson, None
<1>7. CASE ABTYPE = "waf"
  <2>1. Recipe = waf
    BY <1>7 DEF Recipe, Templates
  <2>2. Commands = IF phase \in {"prepare", "beyond"} THEN <<Do("other")>>
                   ELSE IF phase \in DOMAIN waf THEN waf[phase] ELSE <<>>
    BY <2>1 DEF Commands, None
  <2> QED BY <1>7, <2>2 DEF waf, None
<1>8. CASE ABTYPE = "qtproj"
  <2>1. Recipe = qtproj
    BY <1>8 DEF Recipe, Templates
  <2>2. Commands = IF phase \in {"prepare", "beyond"} THEN <<Do("other")>>
                   ELSE IF phase \in DOMAIN qtproj THEN qtproj[phase] ELSE <<>>
    BY <2>1 DEF Commands, None
  <2> QED BY <1>8, <2>2 DEF qtproj, None
<1>9. CASE ABTYPE = "perl"
  <2>1. Recipe = perl
    BY <1>9 DEF Recipe, Templates
  <2>2. Commands = IF phase \in {"prepare", "beyond"} THEN <<Do("other")>>
                   ELSE IF phase \in DOMAIN perl THEN perl[phase] ELSE <<>>
    BY <2>1 DEF Commands, None
  <2> QED BY <1>9, <2>2 DEF perl, None
<1>10. CASE ABTYPE = "gomod"
  <2>1. Recipe = gomod
    BY <1>10 DEF Recipe, Templates
  <2>2. Commands = IF phase \in {"prepare", "beyond"} THEN <<Do("other")>>
                   ELSE IF phase \in DOMAIN gomod THEN gomod[phase] ELSE <<>>
    BY <2>1 DEF Commands, None
  <2> QED BY <1>10, <2>2 DEF gomod, None
<1> QED BY <1>2, <1>3, <1>4, <1>5, <1>6, <1>7, <1>8, <1>9, <1>10
\* What the current command of such a phase can be.
LEMMA ConfigureCommand ==
  ASSUME ConfigureForms, at \in 1..Len(Commands)
  PROVE  /\ Command.guarded
         /\ Command.role \in {"other", "need_shadow", "mkdir", "mkdir_p", "enter",
                              "configure", "setup"}
         /\ Command.role = "configure" <=> at = Len(Commands) /\ ABTYPE # "meson"
         /\ Command.role = "setup" <=> at = Len(Commands) /\ ABTYPE = "meson"
         /\ Command.role = "enter" => Apart /\ at + 1 = Len(Commands)
         /\ Apart /\ ABTYPE # "meson" /\ at + 1 = Len(Commands) => Command.role = "enter"
<1>1. CASE Commands = <<Do("mkdir"), Do("setup")>>
  <2>1. Len(Commands) = 2 /\ at \in 1..2
    BY <1>1
  <2>2. /\ Commands[1] = [role |-> "mkdir", guarded |-> TRUE]
        /\ Commands[2] = [role |-> "setup", guarded |-> TRUE]
    BY <1>1 DEF Do
  <2> QED BY <1>1, <2>1, <2>2 DEF ConfigureForms, Command, Do
<1>2. CASE Commands = <<Do("mkdir_p"), Do("enter"), Do("configure")>>
  <2>1. Len(Commands) = 3 /\ at \in 1..3
    BY <1>2
  <2>2. /\ Commands[1] = [role |-> "mkdir_p", guarded |-> TRUE]
        /\ Commands[2] = [role |-> "enter", guarded |-> TRUE]
        /\ Commands[3] = [role |-> "configure", guarded |-> TRUE]
    BY <1>2 DEF Do
  <2> QED BY <1>2, <2>1, <2>2 DEF ConfigureForms, Command, Do
<1>3. CASE Commands = <<Do("other"), Do("mkdir_p"), Do("enter"), Do("configure")>>
  <2>1. Len(Commands) = 4 /\ at \in 1..4
    BY <1>3
  <2>2. /\ Commands[1] = [role |-> "other", guarded |-> TRUE]
        /\ Commands[2] = [role |-> "mkdir_p", guarded |-> TRUE]
        /\ Commands[3] = [role |-> "enter", guarded |-> TRUE]
        /\ Commands[4] = [role |-> "configure", guarded |-> TRUE]
    BY <1>3 DEF Do
  <2> QED BY <1>3, <2>1, <2>2 DEF ConfigureForms, Command, Do
<1>4. CASE Commands = <<Do("need_shadow"), Do("mkdir_p"), Do("enter"), Do("configure")>>
  <2>1. Len(Commands) = 4 /\ at \in 1..4
    BY <1>4
  <2>2. /\ Commands[1] = [role |-> "need_shadow", guarded |-> TRUE]
        /\ Commands[2] = [role |-> "mkdir_p", guarded |-> TRUE]
        /\ Commands[3] = [role |-> "enter", guarded |-> TRUE]
        /\ Commands[4] = [role |-> "configure", guarded |-> TRUE]
    BY <1>4 DEF Do
  <2> QED BY <1>4, <2>1, <2>2 DEF ConfigureForms, Command, Do
<1>5. CASE Commands = <<Do("configure")>>
  <2>1. Len(Commands) = 1 /\ at \in 1..1
    BY <1>5
  <2>2. /\ Commands[1] = [role |-> "configure", guarded |-> TRUE]
    BY <1>5 DEF Do
  <2> QED BY <1>5, <2>1, <2>2 DEF ConfigureForms, Command, Do
<1>6. CASE Commands = <<Do("other"), Do("configure")>>
  <2>1. Len(Commands) = 2 /\ at \in 1..2
    BY <1>6
  <2>2. /\ Commands[1] = [role |-> "other", guarded |-> TRUE]
        /\ Commands[2] = [role |-> "configure", guarded |-> TRUE]
    BY <1>6 DEF Do
  <2> QED BY <1>6, <2>1, <2>2 DEF ConfigureForms, Command, Do
<1> QED BY <1>1, <1>2, <1>3, <1>4, <1>5, <1>6 DEF ConfigureForms

LEMMA ConfigureLength ==
  ASSUME ConfigureForms
  PROVE  Len(Commands) \in Nat \ {0} /\ (Apart => Len(Commands) # 1)
BY DEF ConfigureForms

\* So is the next phase's.
LEMMA NextLength ==
  (ABTYPE \in Configuring /\ ABSHADOW \in BOOLEAN /\ variant \in BOOLEAN /\ phase = "configure"
     => Len(Commands) \in Nat \ {0} /\ (Apart => Len(Commands) # 1))'
<1>1. ABTYPE \in Configuring /\ ABSHADOW \in BOOLEAN /\ variant \in BOOLEAN /\ phase = "configure"
        => Len(Commands) \in Nat \ {0} /\ (Apart => Len(Commands) # 1)
  BY Forms, ConfigureLength
<1> QED BY <1>1, PTL

LEMMA BuildCommand ==
  ASSUME BuildForms, at \in 1..Len(Commands)
  PROVE  /\ Command.role \in {"enter", "compile", "mkdir_PKGDIR", "install", "true"}
         /\ Command.role = "enter" => Command.guarded /\ Apart /\ at = 1
         /\ ABTYPE = "meson" /\ at = 1 => Command.role = "enter"
BY DEF BuildForms, Command, Do, Try

LEMMA BuildLength ==
  ASSUME BuildForms
  PROVE  Len(Commands) \in Nat /\ (ABTYPE = "meson" => Len(Commands) = 2)
BY DEF BuildForms

LEMMA InstallCommand ==
  ASSUME InstallForms, at \in 1..Len(Commands)
  PROVE  /\ Command.role \in {"install", "compile", "leave"}
         /\ Command.role = "leave" => at = Len(Commands)
<1>1. CASE Commands = <<>>
  BY <1>1
<1>2. CASE Commands = <<Do("install")>>
  <2>1. Len(Commands) = 1 /\ at \in 1..1
    BY <1>2
  <2>2. /\ Commands[1] = [role |-> "install", guarded |-> TRUE]
    BY <1>2 DEF Do
  <2> QED BY <1>2, <2>1, <2>2 DEF Command
<1>3. CASE Commands = <<Do("install"), Do("leave")>>
  <2>1. Len(Commands) = 2 /\ at \in 1..2
    BY <1>3
  <2>2. /\ Commands[1] = [role |-> "install", guarded |-> TRUE]
        /\ Commands[2] = [role |-> "leave", guarded |-> TRUE]
    BY <1>3 DEF Do
  <2> QED BY <1>3, <2>1, <2>2 DEF Command
<1>4. CASE Commands = <<Do("compile"), Do("install")>>
  <2>1. Len(Commands) = 2 /\ at \in 1..2
    BY <1>4
  <2>2. /\ Commands[1] = [role |-> "compile", guarded |-> TRUE]
        /\ Commands[2] = [role |-> "install", guarded |-> TRUE]
    BY <1>4 DEF Do
  <2> QED BY <1>4, <2>1, <2>2 DEF Command
<1>5. CASE Commands = <<Do("compile"), Do("install"), Do("leave")>>
  <2>1. Len(Commands) = 3 /\ at \in 1..3
    BY <1>5
  <2>2. /\ Commands[1] = [role |-> "compile", guarded |-> TRUE]
        /\ Commands[2] = [role |-> "install", guarded |-> TRUE]
        /\ Commands[3] = [role |-> "leave", guarded |-> TRUE]
    BY <1>5 DEF Do
  <2> QED BY <1>5, <2>1, <2>2 DEF Command
<1> QED BY <1>1, <1>2, <1>3, <1>4, <1>5 DEF InstallForms

\* A step is a command that leaves the run going, the end of a phase, the start of a
\* target, or one after which nothing runs.
Advances ==
  /\ Running /\ pc' = "build"
  /\ Effect \/ (~Command.guarded /\ UNCHANGED <<disk, cwd>>)
  /\ ~fault' => ~fault /\ Effect /\ ret' = 0
  /\ at' = at + 1 /\ UNCHANGED <<chosen, target, caps, phase, BLDDIR>>

Turns ==
  /\ pc = "build" /\ pc' = "build" /\ at > Len(Commands) /\ phase # "beyond"
  /\ phase' = After[phase] /\ at' = 1
  /\ cwd' = IF phase \in {"prepare", "install"} THEN "src" ELSE cwd
  /\ ret' = 0 /\ UNCHANGED <<chosen, disk, target, caps, BLDDIR, fault>>

Begins ==
  /\ pc' = "build" /\ phase' = "prepare" /\ at' = 1 /\ ret' = 0 /\ cwd' = "src"
  /\ Caps = {} => "env" \in made'
  /\ UNCHANGED chosen

LEMMA StepForms ==
  ASSUME [Next]_vars
  PROVE  Advances \/ Turns \/ Begins \/ (pc' # "build" /\ UNCHANGED chosen) \/ UNCHANGED vars
<1> USE DEF Advances, Turns, Begins, chosen, disk, Die, Step, Running
<1>1. CASE Fails
  BY <1>1 DEF Fails
<1>2. CASE Return
  BY <1>2 DEF Return
<1>3. CASE ~Fails /\ ~Return
  BY <1>3 DEF Next, StartRun, UnpackAgain, Succeeds, Stop, Refused, TargetDone, Hwcaps,
          HwcapsRefused, BuildDone
<1> QED BY <1>1, <1>2, <1>3
\* Where a command that compiles or installs is meant to run, and from where in the
\* phases on the shell is there.
Workplace == IF Apart THEN BLDDIR ELSE "src"
InPlace ==
  \/ phase = "configure" /\ at >= Len(Commands) /\ ABTYPE # "meson"
  \/ phase = "build" /\ (ABTYPE = "meson" => at >= 2)
  \/ phase = "install" /\ at <= Len(Commands)
Configured == phase \in {"build", "install"} \/ (phase = "configure" /\ at > Len(Commands))

WhereInv ==
  pc = "build" /\ ABTYPE \in Configuring =>
     /\ phase \in {"prepare", "check", "audit"} => cwd = "src"
     /\ phase = "configure" /\ ~Apart => cwd = "src"
     /\ InPlace => cwd = Workplace
     /\ Configured => conf[Workplace] = target

\* The next command of a configuring template leaves it where it has to be.
LEMMA WhereAdvances ==
  ASSUME TypeOK, WhereInv, ABTYPE \in Configuring, Advances, Commands' = Commands
  PROVE  WhereInv'
<1> USE DEF WhereInv, InPlace, Configured, Workplace, chosen, disk
<1>1. /\ pc = "build" /\ at \in 1..Len(Commands) /\ at \in Nat /\ at' = at + 1
      /\ UNCHANGED <<ABTYPE, ABSHADOW, target, phase, BLDDIR>>
      /\ Effect \/ (~Command.guarded /\ UNCHANGED <<conf, cwd>>)
  BY DEF Advances, Running, TypeOK
<1>2. Apart' = Apart /\ Len(Commands') = Len(Commands)
  BY <1>1 DEF Apart
<1>3. BLDDIR \in Dirs /\ "src" \in Dirs /\ conf \in [Dirs -> Targets \cup {"none"}]
  BY DEF TypeOK, Dirs
<1>4. /\ cwd' = cwd \/ (Command.role = "enter" /\ cwd' = BLDDIR)
                   \/ (Command.role = "leave" /\ cwd' = "src")
      /\ conf' = conf \/ (Command.role = "configure" /\ conf' = [conf EXCEPT ![cwd] = target])
                     \/ (Command.role = "setup" /\ conf' = [conf EXCEPT ![BLDDIR] = target])
  BY <1>1 DEF Effect
<1>5. CASE phase = "configure"
  <2>1. ConfigureForms
    BY <1>5, Forms DEF TypeOK
  <2>2. Effect
    BY <1>1, <2>1, ConfigureCommand
  <2>3. /\ Command.role # "leave"
        /\ Command.role = "configure" => at = Len(Commands) /\ ABTYPE # "meson"
        /\ Command.role = "enter" => Apart
        /\ at = Len(Commands) => Command.role = IF ABTYPE = "meson" THEN "setup" ELSE "configure"
        /\ Apart /\ ABTYPE # "meson" /\ at + 1 = Len(Commands) => Command.role = "enter"
        /\ ABTYPE = "meson" => Apart
        /\ Len(Commands) \in Nat
    BY <1>1, <2>1, ConfigureCommand, ConfigureLength DEF Apart
  <2>4. /\ Command.role = "enter" => cwd' = BLDDIR
        /\ Command.role = "configure" => cwd' = cwd /\ conf' = [conf EXCEPT ![cwd] = target]
        /\ Command.role = "setup" => conf' = [conf EXCEPT ![BLDDIR] = target]
    BY <2>2 DEF Effect
  <2>5. ~Apart => cwd' = "src"
    BY <1>1, <1>4, <1>5, <2>3
  <2>6. at' >= Len(Commands) /\ ABTYPE # "meson" => cwd' = Workplace
    BY <1>1, <1>5, <2>3, <2>4, <2>5
  <2>7. at' > Len(Commands) => conf'[Workplace] = target
    BY <1>1, <1>3, <1>5, <2>3, <2>4
  <2> QED BY <1>1, <1>2, <1>5, <2>5, <2>6, <2>7
<1>6. CASE phase = "build"
  <2>1. BuildForms
    BY <1>6, Forms DEF TypeOK
  <2>2. Command.role = "enter" => Effect
    BY <1>1, <2>1, BuildCommand
  <2> QED BY <1>1, <1>2, <1>3, <1>4, <1>6, <2>1, <2>2, BuildCommand DEF Effect
<1>7. CASE phase = "install"
  <2>1. InstallForms
    BY <1>7, Forms DEF TypeOK
  <2> QED BY <1>1, <1>2, <1>3, <1>4, <1>7, <2>1, InstallCommand
<1>8. CASE phase \notin {"configure", "build", "install"}
  <2>1. Commands = <<Do("other")>> \/ Commands = <<>>
    BY <1>8, Forms, Order DEF TypeOK
  <2>2. Command.role = "other"
    BY <1>1, <2>1 DEF Command, Do
  <2> QED BY <1>1, <1>2, <1>4, <1>8, <2>2
<1> QED BY <1>5, <1>6, <1>7, <1>8

LEMMA WhereStep == TypeOK /\ WhereInv /\ [Next]_vars => WhereInv'
<1> SUFFICES ASSUME TypeOK, WhereInv, [Next]_vars PROVE WhereInv'
  OBVIOUS
<1>1. CASE Advances
  <2>1. Commands' = Commands
    BY <1>1, CommandsStay DEF Advances, chosen
  <2>2. CASE ABTYPE \in Configuring
    BY <1>1, <2>1, <2>2, WhereAdvances
  <2> QED BY <1>1, <2>2 DEF WhereInv, Advances, chosen
<1>2. CASE Turns
  <2> SUFFICES ASSUME ABTYPE \in Configuring PROVE WhereInv'
    BY <1>2 DEF WhereInv, Turns, chosen
  <2> USE DEF WhereInv, InPlace, Configured, Workplace, chosen, disk
  <2>1. /\ pc = "build" /\ at > Len(Commands) /\ phase' = After[phase] /\ at' = 1
        /\ cwd' = IF phase \in {"prepare", "install"} THEN "src" ELSE cwd
        /\ UNCHANGED <<ABTYPE, ABSHADOW, variant, conf, target, BLDDIR>>
    BY <1>2 DEF Turns
  <2>2. Apart' = Apart
    BY <2>1 DEF Apart
  <2>3. /\ After["prepare"] = "check" /\ After["check"] = "audit" /\ After["audit"] = "configure"
        /\ After["configure"] = "build" /\ After["build"] = "install"
        /\ After["install"] = "beyond"
    BY DEF After
  <2>4. phase \in {"prepare", "check", "audit", "configure", "build", "install"}
    BY <1>2, Order DEF TypeOK, Turns
  <2>5. phase' = "configure" =>
           Len(Commands') \in Nat \ {0} /\ (Apart' => Len(Commands') # 1)
    BY <2>1, NextLength DEF TypeOK
  <2>6. phase' = "configure" => (at' >= Len(Commands') => ~Apart') /\ ~(at' > Len(Commands'))
    <3>1. at' = 1
      BY <2>1
    <3>2. \A n \in Nat \ {0} : ~(1 > n) /\ (1 >= n => n = 1)
      OBVIOUS
    <3> HIDE DEF WhereInv, InPlace, Configured, Workplace
    <3> QED BY <2>5, <3>1, <3>2
  <2>7. phase = "build" => (ABTYPE = "meson" => at >= 2)
    BY <2>1, Forms, BuildLength DEF TypeOK
  <2>8. phase = "configure" => at >= Len(Commands) /\ at \in Nat
    BY <2>1, Forms, ConfigureLength DEF TypeOK
  <2> QED BY <2>1, <2>2, <2>3, <2>4, <2>6, <2>7, <2>8
<1>3. CASE Begins
  BY <1>3 DEF Begins, WhereInv, InPlace, Configured
<1>4. CASE pc' # "build"
  BY <1>4 DEF WhereInv
<1>5. CASE UNCHANGED vars
  <2>1. Commands' = Commands
    BY <1>5, CommandsStay DEF vars, chosen
  <2> QED BY <1>5, <2>1 DEF vars, chosen, disk, WhereInv, InPlace, Configured, Workplace, Apart
<1> QED BY <1>1, <1>2, <1>3, <1>4, <1>5, StepForms
-----------------------------------------------------------------------------
(* Which templates configure.                                              *)

\* The commands that neither configure nor need, make or enter a build directory, nor
\* anything else that may be there already or be used up.
Bland == {c \in Instructions : c.role \notin {"configure", "setup", "mkdir", "mkdir_p", "enter",
                                             "need_shadow", "ln", "restore"}}
Fragile == Bland \cup {Do("restore"), Do("ln")}

LEMMA BlandCommands ==
  /\ Do("compile") \in Bland /\ Do("install") \in Bland /\ Do("other") \in Bland
  /\ Do("mkdir_PKGDIR") \in Bland
  /\ Try("leave") \in Bland /\ Try("mkdir_PKGDIR") \in Bland /\ Try("install") \in Bland
  /\ Try("other") \in Bland /\ Try("true") \in Bland /\ Try("input") \in Bland
BY DEF Do, Try, Bland, Instructions, Roles

\* The other eight tables are made of those.
LEMMA BlandTables ==
  /\ Table(self, Bland) /\ Table(dune, Fragile) /\ Table(pep517, Bland) /\ Table(rust, Bland)
  /\ Table(python, Bland) /\ Table(ruby, Bland) /\ Table(npm, Fragile) /\ Table(dummy, Bland)
<1>0. None \in Seq(Bland) /\ None \in Seq(Fragile)
  BY DEF None
<1>a. Bland \subseteq Fragile /\ Do("restore") \in Fragile /\ Do("ln") \in Fragile
  BY DEF Fragile
<1>1. Table(self, Bland)
  <2>1. <<Do("compile"), Do("install"), Try("leave")>> \in Seq(Bland)
    BY BlandCommands
  <2> QED BY <1>0, <2>1, ThreePhases DEF self
<1>2. Table(dune, Fragile)
  <2>1. <<Do("restore")>> \in Seq(Fragile)
    BY <1>a, BlandCommands
  <2>2. <<Do("compile")>> \in Seq(Fragile)
    BY <1>a, BlandCommands
  <2>3. <<Try("mkdir_PKGDIR"), Do("install"), Try("install"), Try("install")>> \in Seq(Fragile)
    BY <1>a, BlandCommands
  <2> QED BY <1>0, <2>1, <2>2, <2>3, FourPhases DEF dune
<1>3. Table(python, Bland)
  <2>1. <<Do("compile"), Do("install"), Try("other"), Try("true")>> \in Seq(Bland)
    BY BlandCommands
  <2> QED BY <1>0, <2>1, ThreePhases DEF python
<1>4. Table(ruby, Bland)
  <2>1. <<Try("input"), Do("compile"), Do("install"), Do("other")>> \in Seq(Bland)
    BY BlandCommands
  <2> QED BY <1>0, <2>1, ThreePhases DEF ruby
<1>5. Table(npm, Fragile)
  <2>1. <<Do("other")>> \in Seq(Fragile)
    BY <1>a, BlandCommands
  <2>2. <<Do("ln")>> \in Seq(Fragile)
    BY <1>a, BlandCommands
  <2>3. <<Do("install")>> \in Seq(Fragile)
    BY <1>a, BlandCommands
  <2> QED BY <1>0, <2>1, <2>2, <2>3, FourPhases DEF npm
<1>6. Table(dummy, Bland)
  <2>1. <<Do("mkdir_PKGDIR")>> \in Seq(Bland)
    BY BlandCommands
  <2> QED BY <1>0, <2>1, ThreePhases DEF dummy
<1>7. Table(pep517, Bland)
  <2>1. <<Try("other")>> \in Seq(Bland)
    BY BlandCommands
  <2>2. <<Try("input"), Try("input"), Try("input"), Try("other"), Try("leave")>> \in Seq(Bland)
    BY BlandCommands
  <2>3. <<Do("compile")>> \in Seq(Bland) /\ <<Try("install"), Try("true")>> \in Seq(Bland)
    BY BlandCommands
  <2>4. <<Try("other")>> \o
        (IF variant THEN <<Try("input"), Try("input"), Try("input"), Try("other"), Try("leave")>>
         ELSE None) \in Seq(Bland)
    BY <1>0, <2>1, <2>2, Joined
  <2> QED BY <2>3, <2>4, ThreePhases DEF pep517
<1>8. Table(rust, Bland)
  <2>1. <<Do("other")>> \in Seq(Bland) /\ <<Try("other"), Do("other")>> \in Seq(Bland)
    BY BlandCommands
  <2>2. <<Try("mkdir_PKGDIR"), Do("compile"), Do("install")>> \in Seq(Bland)
    BY BlandCommands
  <2>3. <<Try("mkdir_PKGDIR"), Do("compile"), Try("install"), Try("true")>> \in Seq(Bland)
    BY BlandCommands
  <2>4. <<Try("install"), Try("other"), Try("true")>> \in Seq(Bland)
    BY BlandCommands
  <2> QED BY <2>1, <2>2, <2>3, <2>4, FourPhases DEF rust
<1> QED BY <1>1, <1>2, <1>3, <1>4, <1>5, <1>6, <1>7, <1>8

\* So what configures is one of the nine.
LEMMA OnlyThoseConfigure ==
  ASSUME ABTYPE \in Types, ABTYPE \notin Configuring
  PROVE  /\ Table(Recipe, Fragile)
         /\ ABTYPE \notin {"dune", "npm"} => Table(Recipe, Bland)
<1>a. ASSUME NEW t, Table(t, Bland) PROVE Table(t, Fragile)
  <2>1. Bland \subseteq Fragile
    BY DEF Fragile
  <2> QED BY <1>a, <2>1 DEF Table
<1>1. CASE ABTYPE = "self"
  BY <1>1, <1>a, BlandTables DEF Recipe, Templates
<1>2. CASE ABTYPE = "dune"
  BY <1>2, <1>a, BlandTables DEF Recipe, Templates
<1>3. CASE ABTYPE = "pep517"
  BY <1>3, <1>a, BlandTables DEF Recipe, Templates
<1>4. CASE ABTYPE = "rust"
  BY <1>4, <1>a, BlandTables DEF Recipe, Templates
<1>5. CASE ABTYPE = "python"
  BY <1>5, <1>a, BlandTables DEF Recipe, Templates
<1>6. CASE ABTYPE = "ruby"
  BY <1>6, <1>a, BlandTables DEF Recipe, Templates
<1>7. CASE ABTYPE = "npm"
  BY <1>7, <1>a, BlandTables DEF Recipe, Templates
<1>8. CASE ABTYPE = "dummy"
  BY <1>8, <1>a, BlandTables DEF Recipe, Templates
<1> QED BY <1>1, <1>2, <1>3, <1>4, <1>5, <1>6, <1>7, <1>8 DEF Configuring

LEMMA ConfiguresOnly == TypeOK /\ Configures => ABTYPE \in Configuring
<1> SUFFICES ASSUME TypeOK, Configures, ABTYPE \notin Configuring PROVE FALSE
  OBVIOUS
<1>1. PICK p \in DOMAIN Recipe : \E i \in DOMAIN Recipe[p] :
         Recipe[p][i].role \in {"configure", "setup"}
  BY DEF Configures
<1>2. Recipe[p] \in Seq(Fragile)
  BY OnlyThoseConfigure DEF TypeOK, Table
<1> QED BY <1>1, <1>2 DEF Fragile, Bland, Do

\* A command that compiles or installs comes where the shell is in place.
LEMMA WorkIsPlaced ==
  ASSUME TypeOK, Running, ABTYPE \in Configuring, Command.role \in {"compile", "install"}
  PROVE  InPlace /\ Configured
<1>1. at \in 1..Len(Commands) /\ at \in Nat
  BY DEF Running, TypeOK
<1>2. CASE phase = "configure"
  BY <1>1, <1>2, Forms, ConfigureCommand DEF TypeOK
<1>3. CASE phase = "build"
  BY <1>1, <1>3, Forms, BuildCommand DEF TypeOK, InPlace, Configured
<1>4. CASE phase = "install"
  BY <1>1, <1>4 DEF InPlace, Configured
<1>5. CASE phase \notin {"configure", "build", "install"}
  <2>1. Commands = <<Do("other")>> \/ Commands = <<>>
    BY <1>5, Forms, Order DEF TypeOK
  <2> QED BY <1>1, <2>1 DEF Command, Do
<1> QED BY <1>2, <1>3, <1>4, <1>5

\* Every state of a run keeps its place.
LEMMA Placed == Spec => [](TypeOK /\ WhereInv)
<1>1. Init => WhereInv
  BY DEF Init, WhereInv
<1> QED BY <1>1, WhereStep, TypeCorrect, PTL DEF Spec

\* What compiles and installs runs where this target was configured, for any subtargets,
\* with and without ABSHADOW, also after runs that died elsewhere.
THEOREM WorksWhereConfigured == Spec => []RunsWhereConfigured
<1>1. TypeOK /\ WhereInv => RunsWhereConfigured
  <2> SUFFICES ASSUME TypeOK, WhereInv, Running, Configures, Command.role \in {"compile", "install"}
               PROVE  conf[cwd] = target
    BY DEF RunsWhereConfigured
  <2>1. ABTYPE \in Configuring /\ InPlace /\ Configured /\ pc = "build"
    BY ConfiguresOnly, WorkIsPlaced DEF Running
  <2> QED BY <2>1 DEF WhereInv
<1> QED BY <1>1, Placed, PTL

-----------------------------------------------------------------------------
(* Objects.                                                                *)

DirOf(t) == IF t = "main" THEN "abbuild" ELSE t

\* With shadow builds each target has a directory of its own, and it holds objects of that
\* target only.
ObjectInv ==
  ABTYPE \in Configuring /\ ABSHADOW /\ Apart =>
     /\ \A t \in Targets : obj[DirOf(t)] \subseteq {t} /\ lib[t] \subseteq {t}
     /\ pc # "idle" => BLDDIR = DirOf(target)

\* A command adds objects to its own target's directory only.
LEMMA ObjectEffect ==
  ASSUME TypeOK, WhereInv, ObjectInv, ABTYPE \in Configuring, ABSHADOW, Apart, Running, Effect
  PROVE  \A t \in Targets : obj'[DirOf(t)] \subseteq {t} /\ lib'[t] \subseteq {t}
<1>0. /\ \A t \in Targets : DirOf(t) \in Dirs
      /\ \A t, u \in Targets : DirOf(t) = DirOf(u) => t = u
      /\ target \in Targets /\ obj \in [Dirs -> SUBSET Targets] /\ lib \in [Targets -> SUBSET Targets]
  BY DEF TypeOK, Targets, Dirs, DirOf
<1>1. \A t \in Targets : obj[DirOf(t)] \subseteq {t} /\ lib[t] \subseteq {t}
  BY DEF ObjectInv
<1>2. CASE Command.role \in {"compile", "install"}
  <2>1. cwd = DirOf(target)
    BY <1>2, WorkIsPlaced DEF WhereInv, Workplace, ObjectInv, Running
  <2>2. PICK o \in Compiled(cwd) :
          obj' = IF Command.role = "compile" THEN [obj EXCEPT ![cwd] = o] ELSE obj
    BY DEF Effect
  <2>3. o \subseteq {target}
    BY <1>0, <1>1, <2>1 DEF Compiled
  <2>4. lib' = IF Command.role = "install" THEN [lib EXCEPT ![target] = obj[cwd]] ELSE lib
    BY DEF Effect
  <2> QED BY <1>0, <1>1, <2>1, <2>2, <2>3, <2>4
<1>3. CASE Command.role \notin {"compile", "install"}
  BY <1>1, <1>3 DEF Effect
<1> QED BY <1>2, <1>3

LEMMA ObjectStep == TypeOK /\ WhereInv /\ ObjectInv /\ [Next]_vars => ObjectInv'
<1> SUFFICES ASSUME TypeOK, WhereInv, ObjectInv, [Next]_vars,
                    (ABTYPE \in Configuring /\ ABSHADOW /\ Apart)'
             PROVE  /\ \A t \in Targets : obj'[DirOf(t)] \subseteq {t} /\ lib'[t] \subseteq {t}
                    /\ pc' # "idle" => BLDDIR' = DirOf(target')
  BY DEF ObjectInv, DirOf, Targets
<1> USE DEF chosen, disk, history
<1>0. ABTYPE \in Configuring /\ ABSHADOW /\ Apart
  BY DEF Next, StartRun, UnpackAgain, Succeeds, Fails, Stop, Refused, Return, TargetDone,
         Hwcaps, HwcapsRefused, BuildDone, vars, Apart
<1>a. /\ \A t \in Targets : obj[DirOf(t)] \subseteq {t} /\ lib[t] \subseteq {t}
      /\ pc # "idle" => BLDDIR = DirOf(target)
      /\ lib \in [Targets -> SUBSET Targets]
      /\ \A t \in Targets : DirOf(t) \in Dirs
  BY <1>0 DEF ObjectInv, TypeOK, Targets, Dirs, DirOf
<1>1. CASE StartRun
  BY <1>1, <1>a DEF StartRun, DirOf
<1>2. CASE UnpackAgain
  BY <1>2, <1>a DEF UnpackAgain, NoObjects, NoLibraries
<1>3. CASE Succeeds
  BY <1>0, <1>3, <1>a, ObjectEffect DEF Succeeds, Step, Running
<1>4. CASE Fails
  BY <1>0, <1>4, <1>a, ObjectEffect DEF Fails, Step, Die, Running
<1>5. CASE Stop
  BY <1>5, <1>a DEF Stop, Die
<1>6. CASE Refused
  BY <1>6, <1>a DEF Refused
<1>7. CASE Return
  BY <1>7, <1>a DEF Return, Die
<1>8. CASE TargetDone
  BY <1>8, <1>a DEF TargetDone, Die
<1>9. ASSUME NEW c \in Caps, Hwcaps(c)
      PROVE  /\ \A t \in Targets : obj'[DirOf(t)] \subseteq {t} /\ lib'[t] \subseteq {t}
             /\ pc' # "idle" => BLDDIR' = DirOf(target')
  BY <1>0, <1>9, <1>a DEF Hwcaps, DirOf
<1>10. CASE HwcapsRefused
  BY <1>10, <1>a DEF HwcapsRefused
<1>11. CASE BuildDone
  BY <1>11, <1>a DEF BuildDone
<1>12. CASE UNCHANGED vars
  BY <1>12, <1>a DEF vars
<1> QED
  BY <1>1, <1>2, <1>3, <1>4, <1>5, <1>6, <1>7, <1>8, <1>9, <1>10, <1>11, <1>12 DEF Next

\* A template that makes a build directory, with ABSHADOW on, builds in it.
LEMMA ShadowsApart == TypeOK /\ ABSHADOW /\ Shadows => ABTYPE \in Configuring /\ Apart
<1> SUFFICES ASSUME TypeOK, ABSHADOW, Shadows PROVE ABTYPE \in Configuring /\ Apart
  OBVIOUS
<1>1. PICK i \in DOMAIN Recipe.configure : Recipe.configure[i].role \in {"mkdir", "mkdir_p"}
  BY DEF Shadows
<1>2. ABTYPE \in Configuring
  <2> SUFFICES ASSUME ABTYPE \notin Configuring PROVE FALSE
    OBVIOUS
  <2>1. Table(Recipe, Fragile) /\ "configure" \in DOMAIN Recipe
    BY OnlyThoseConfigure DEF TypeOK, Configuring, Recipe, Templates, self, dune, pep517, rust,
       python, ruby, npm, dummy
  <2>2. Recipe.configure \in Seq(Fragile)
    BY <2>1 DEF Table
  <2> QED BY <1>1, <2>2 DEF Fragile, Bland, Do
<1>3. ABTYPE \notin {"waf", "qtproj", "perl"}
  BY <1>1 DEF Recipe, Templates, waf, qtproj, perl, Do
<1> QED BY <1>2, <1>3 DEF Configuring, Apart

\* With shadow builds, no target is linked from objects of another one, whatever targets
\* and runs came before and wherever they died.
THEOREM TargetsHaveOwnObjects == Spec => []OwnObjects
<1>1. Init => ObjectInv
  BY DEF Init, ObjectInv, NoObjects, NoLibraries, Targets, Dirs, DirOf
<1>2. TypeOK /\ ObjectInv => OwnObjects
  BY ShadowsApart DEF ObjectInv, OwnObjects
<1> QED BY <1>1, <1>2, ObjectStep, Placed, PTL DEF Spec
-----------------------------------------------------------------------------
(* Deaths.                                                                 *)

\* The phase in which a template makes PKGDIR, and the commands that do.
PackPhase == IF ABTYPE \in {"self", "gomod", "rust", "python", "ruby", "dummy"}
             THEN "build" ELSE "install"
Packs(c) == c.role \in {"install", "mkdir_PKGDIR"}

LEMMA PackingCommand ==
  ASSUME TypeOK, phase = PackPhase
  PROVE  Len(Commands) \in Nat /\ \E i \in 1..Len(Commands) : Packs(Commands[i])
<1>0. phase \in {"build", "install"} /\ Len(Commands) \in Nat
  BY CommandsType DEF PackPhase, TypeOK
<1>1. CASE ABTYPE \in Configuring \ {"gomod"}
  <2>1. phase = "install" /\ InstallForms
    BY <1>1, Forms DEF PackPhase, TypeOK, Configuring
  <2>2. Commands # <<>>
    BY <1>1, <2>1 DEF InstallForms
  <2>3. /\ Commands = <<Do("install")>> => Packs(Commands[1]) /\ Len(Commands) = 1
        /\ Commands = <<Do("install"), Do("leave")>> => Packs(Commands[1]) /\ Len(Commands) = 2
        /\ Commands = <<Do("compile"), Do("install")>> => Packs(Commands[2]) /\ Len(Commands) = 2
        /\ Commands = <<Do("compile"), Do("install"), Do("leave")>>
              => Packs(Commands[2]) /\ Len(Commands) = 3
    BY DEF Packs, Do
  <2> QED BY <1>0, <2>1, <2>2, <2>3 DEF InstallForms
<1>2. CASE ABTYPE = "gomod"
  <2>1. phase = "build" /\ Commands = gomod.build
    BY <1>2 DEF PackPhase, Commands, Recipe, Templates, gomod
  <2>2. 1 \in 1..Len(Commands) /\ Packs(Commands[1])
    BY <2>1 DEF gomod, Do, Try, Packs
  <2> QED BY <1>0, <2>2
<1>3. CASE ABTYPE = "self"
  <2>1. phase = "build" /\ Commands = self.build
    BY <1>3 DEF PackPhase, Commands, Recipe, Templates, self
  <2>2. 2 \in 1..Len(Commands) /\ Packs(Commands[2])
    BY <2>1 DEF self, Do, Try, Packs
  <2> QED BY <1>0, <2>2
<1>4. CASE ABTYPE = "rust"
  <2>1. phase = "build" /\ Commands = rust.build
    BY <1>4 DEF PackPhase, Commands, Recipe, Templates, rust
  <2>2. 1 \in 1..Len(Commands) /\ Packs(Commands[1])
    BY <2>1 DEF rust, Do, Try, Packs
  <2> QED BY <1>0, <2>2
<1>5. CASE ABTYPE = "python"
  <2>1. phase = "build" /\ Commands = python.build
    BY <1>5 DEF PackPhase, Commands, Recipe, Templates, python
  <2>2. 2 \in 1..Len(Commands) /\ Packs(Commands[2])
    BY <2>1 DEF python, Do, Try, Packs
  <2> QED BY <1>0, <2>2
<1>6. CASE ABTYPE = "ruby"
  <2>1. phase = "build" /\ Commands = ruby.build
    BY <1>6 DEF PackPhase, Commands, Recipe, Templates, ruby
  <2>2. 3 \in 1..Len(Commands) /\ Packs(Commands[3])
    BY <2>1 DEF ruby, Do, Try, Packs
  <2> QED BY <1>0, <2>2
<1>7. CASE ABTYPE = "dummy"
  <2>1. phase = "build" /\ Commands = dummy.build
    BY <1>7 DEF PackPhase, Commands, Recipe, Templates, dummy
  <2>2. 1 \in 1..Len(Commands) /\ Packs(Commands[1])
    BY <2>1 DEF dummy, Do, Try, Packs
  <2> QED BY <1>0, <2>2
<1>8. CASE ABTYPE = "dune"
  <2>1. phase = "install" /\ Commands = dune.install
    BY <1>8 DEF PackPhase, Commands, Recipe, Templates, dune
  <2>2. 2 \in 1..Len(Commands) /\ Packs(Commands[2])
    BY <2>1 DEF dune, Do, Try, Packs
  <2> QED BY <1>0, <2>2
<1>9. CASE ABTYPE = "pep517"
  <2>1. phase = "install" /\ Commands = pep517.install
    BY <1>9 DEF PackPhase, Commands, Recipe, Templates, pep517
  <2>2. 1 \in 1..Len(Commands) /\ Packs(Commands[1])
    BY <2>1 DEF pep517, Do, Try, Packs
  <2> QED BY <1>0, <2>2
<1>10. CASE ABTYPE = "npm"
  <2>1. phase = "install" /\ Commands = npm.install
    BY <1>10 DEF PackPhase, Commands, Recipe, Templates, npm
  <2>2. 1 \in 1..Len(Commands) /\ Packs(Commands[1])
    BY <2>1 DEF npm, Do, Try, Packs
  <2> QED BY <1>0, <2>2
<1> QED BY <1>1, <1>2, <1>3, <1>4, <1>5, <1>6, <1>7, <1>8, <1>9, <1>10 DEF Configuring, TypeOK

\* Unless something has failed, the phase that makes PKGDIR has made it when it ends.
PackInv ==
  pc = "build" /\ ~fault =>
     /\ ret = 0
     /\ phase = PackPhase /\ (\E i \in 1..(at - 1) : Packs(Commands[i])) => target \in packed
     /\ phase = "beyond" \/ (phase = "install" /\ PackPhase = "build") => target \in packed

\* A template enters the build directory after it has made it; what the check of dune needs
\* is there until it is used.
MadeInv ==
  /\ pc = "build" /\ ABTYPE \in Configuring \ {"meson"} /\ Apart =>
       /\ phase = "configure" /\ at >= Len(Commands) - 1 => BLDDIR \in made
       /\ phase = "build" => BLDDIR \in made
  /\ pc = "build" /\ ABTYPE = "dune" /\ Caps = {}
        /\ (phase = "prepare" \/ (phase = "check" /\ at = 1)) => "env" \in made

Exempt == ABTYPE \in {"meson", "npm"} \/ (ABTYPE = "dune" /\ Caps # {})
DeathInv == PackInv /\ MadeInv /\ NoSpuriousDeath

\* The phase that makes PKGDIR is over only when it has been made.
LEMMA PackedAtEnd ==
  ASSUME TypeOK, PackInv, pc = "build", ~fault, at > Len(Commands),
         phase = "beyond" \/ phase = "install" \/ phase = PackPhase
  PROVE  target \in packed
<1>1. CASE phase = PackPhase
  <2>1. Len(Commands) \in Nat /\ at \in Nat /\ \E i \in 1..Len(Commands) : Packs(Commands[i])
    BY <1>1, PackingCommand DEF TypeOK
  <2>2. \E i \in 1..(at - 1) : Packs(Commands[i])
    BY <2>1
  <2> QED BY <1>1, <2>2 DEF PackInv
<1>2. CASE phase # PackPhase
  BY <1>2 DEF PackInv, PackPhase
<1> QED BY <1>1, <1>2

LEMMA PackStep == TypeOK /\ PackInv /\ [Next]_vars => PackInv'
<1> SUFFICES ASSUME TypeOK, PackInv, [Next]_vars PROVE PackInv'
  OBVIOUS
<1> USE DEF chosen, disk, history
<1>1. CASE Advances
  <2> SUFFICES ASSUME ~fault' PROVE PackInv'
    BY DEF PackInv
  <2>1. /\ pc = "build" /\ at \in 1..Len(Commands) /\ at \in Nat /\ at' = at + 1
        /\ UNCHANGED <<ABTYPE, target, phase>> /\ ret' = 0 /\ ~fault /\ Effect
    BY <1>1 DEF Advances, Running, TypeOK
  <2>2. Commands' = Commands /\ PackPhase' = PackPhase
    BY <1>1, CommandsStay DEF Advances, PackPhase
  <2>3. /\ target \in packed => target \in packed'
        /\ Packs(Command) => target \in packed'
    BY <2>1 DEF Effect, Packs
  <2>4. ASSUME phase = PackPhase, NEW i \in 1..at, Packs(Commands[i]) PROVE target \in packed'
    <3>1. CASE i = at
      BY <2>3, <2>4, <3>1 DEF Command
    <3>2. CASE i # at
      <4>1. i \in 1..(at - 1)
        BY <2>1, <2>4, <3>2
      <4> QED BY <2>1, <2>3, <2>4, <4>1 DEF PackInv
    <3> QED BY <3>1, <3>2
  <2>5. phase = "beyond" \/ (phase = "install" /\ PackPhase = "build") => target \in packed'
    BY <2>1, <2>3 DEF PackInv
  <2>6. \A i : i \in (1..(at - 1))' => i \in 1..at
    BY <2>1
  <2> QED BY <2>1, <2>2, <2>4, <2>5, <2>6 DEF PackInv, Packs
<1>2. CASE Turns
  <2> SUFFICES ASSUME ~fault' PROVE PackInv'
    BY DEF PackInv
  <2>1. /\ pc = "build" /\ at > Len(Commands) /\ phase # "beyond" /\ ~fault /\ ret' = 0
        /\ phase' = After[phase] /\ at' = 1 /\ UNCHANGED <<ABTYPE, target, packed>>
    BY <1>2 DEF Turns
  <2>2. PackPhase' = PackPhase
    BY <2>1 DEF PackPhase
  <2>3. (1..(at - 1))' = {}
    BY <2>1
  <2>4. phase' = "beyond" => phase = "install"
    BY <2>1 DEF After, TypeOK
  <2>5. phase' = "install" => phase = "build"
    BY <2>1 DEF After, TypeOK
  <2> QED BY <2>1, <2>2, <2>3, <2>4, <2>5, PackedAtEnd DEF PackInv
<1>3. CASE Begins
  <2>1. (1..(at - 1))' = {}
    BY <1>3 DEF Begins
  <2> QED BY <1>3, <2>1 DEF Begins, PackInv
<1>4. CASE pc' # "build"
  BY <1>4 DEF PackInv
<1>5. CASE UNCHANGED vars
  <2>1. Commands' = Commands
    BY <1>5, CommandsStay DEF vars
  <2> QED BY <1>5, <2>1 DEF vars, PackInv, PackPhase, Packs
<1> QED BY <1>1, <1>2, <1>3, <1>4, <1>5, StepForms

\* In a build directory of its own, a template makes it, enters it and configures.
LEMMA MakesThenEnters ==
  ASSUME ConfigureForms, Apart, ABTYPE # "meson"
  PROVE  /\ Len(Commands) \in Nat /\ Len(Commands) >= 3
         /\ Commands[Len(Commands) - 2] = Do("mkdir_p")
<1>1. CASE Commands = <<Do("mkdir_p"), Do("enter"), Do("configure")>>
  BY <1>1
<1>2. CASE Commands = <<Do("other"), Do("mkdir_p"), Do("enter"), Do("configure")>>
  BY <1>2
<1>3. CASE Commands = <<Do("need_shadow"), Do("mkdir_p"), Do("enter"), Do("configure")>>
  BY <1>3
<1> QED BY <1>1, <1>2, <1>3 DEF ConfigureForms

\* The same of the next state.
LEMMA MakesThenEntersNext ==
  (ABTYPE \in Configuring \ {"meson"} /\ ABSHADOW \in BOOLEAN /\ variant \in BOOLEAN
     /\ phase = "configure" /\ Apart => Len(Commands) \in Nat /\ Len(Commands) >= 3)'
<1>1. ABTYPE \in Configuring \ {"meson"} /\ ABSHADOW \in BOOLEAN /\ variant \in BOOLEAN
        /\ phase = "configure" /\ Apart => Len(Commands) \in Nat /\ Len(Commands) >= 3
  BY Forms, MakesThenEnters
<1> QED BY <1>1, PTL

LEMMA MadeStep == TypeOK /\ MadeInv /\ [Next]_vars => MadeInv'
<1> SUFFICES ASSUME TypeOK, MadeInv, [Next]_vars PROVE MadeInv'
  OBVIOUS
<1> USE DEF chosen, disk, history
<1>0. BLDDIR # "env"
  BY DEF TypeOK, Dirs
<1>1. CASE Advances
  <2>1. /\ pc = "build" /\ at \in 1..Len(Commands) /\ at \in Nat /\ at' = at + 1
        /\ UNCHANGED <<ABTYPE, ABSHADOW, phase, BLDDIR>>
        /\ Effect \/ (~Command.guarded /\ UNCHANGED made)
    BY <1>1 DEF Advances, Running, TypeOK
  <2>2. Commands' = Commands /\ Apart' = Apart
    BY <1>1, CommandsStay DEF Advances, Apart
  <2>3. BLDDIR \in made => BLDDIR \in made'
    BY <1>0, <2>1 DEF Effect
  <2>4. ASSUME ABTYPE \in Configuring \ {"meson"}, Apart, phase = "configure",
               at + 1 >= Len(Commands) - 1
        PROVE  BLDDIR \in made'
    <3>1. ConfigureForms /\ Len(Commands) \in Nat
      BY <2>4, Forms, MakesThenEnters DEF TypeOK
    <3>2. CASE at >= Len(Commands) - 1
      BY <2>1, <2>3, <2>4, <3>2 DEF MadeInv
    <3>3. CASE ~(at >= Len(Commands) - 1)
      <4>1. at = Len(Commands) - 2
        BY <2>1, <2>4, <3>1, <3>3
      <4>2. Command.role = "mkdir_p" /\ Command.guarded
        BY <2>4, <3>1, <4>1, MakesThenEnters DEF Command, Do
      <4> QED BY <2>1, <4>2 DEF Effect
    <3> QED BY <3>2, <3>3
  <2>5. ABTYPE \in Configuring \ {"meson"} /\ Apart /\ phase = "build" => BLDDIR \in made'
    BY <2>1, <2>3 DEF MadeInv
  <2>6. ASSUME ABTYPE = "dune", Caps = {}, phase = "prepare" PROVE "env" \in made'
    <3>1. Command = Do("other")
      BY <2>1, <2>6 DEF Command, Commands
    <3>2. "env" \in made
      BY <2>1, <2>6 DEF MadeInv
    <3> QED BY <2>1, <3>1, <3>2 DEF Effect, Do
  <2>7. at' # 1
    BY <2>1
  <2> QED BY <2>1, <2>2, <2>4, <2>5, <2>6, <2>7 DEF MadeInv
<1>2. CASE Turns
  <2>1. /\ pc = "build" /\ at > Len(Commands) /\ phase # "beyond"
        /\ phase' = After[phase] /\ at' = 1
        /\ UNCHANGED <<ABTYPE, ABSHADOW, variant, made, BLDDIR>>
    BY <1>2 DEF Turns
  <2>2. Apart' = Apart
    BY <2>1 DEF Apart
  <2>3. /\ phase' = "build" => phase = "configure"
        /\ phase' = "check" => phase = "prepare"
        /\ phase' # "prepare"
    BY <2>1 DEF After, TypeOK
  <2>4. ABTYPE' \in Configuring \ {"meson"} /\ Apart' /\ phase' = "configure"
          => ~(at' >= Len(Commands') - 1)
    BY <2>1, MakesThenEntersNext DEF TypeOK
  <2>5. ABTYPE \in Configuring \ {"meson"} /\ Apart /\ phase = "configure" => BLDDIR \in made
    <3> SUFFICES ASSUME ABTYPE \in Configuring \ {"meson"}, Apart, phase = "configure"
                 PROVE  BLDDIR \in made
      OBVIOUS
    <3>1. Len(Commands) \in Nat /\ at \in Nat
      BY Forms, MakesThenEnters DEF TypeOK
    <3> QED BY <2>1, <3>1 DEF MadeInv
  <2> QED BY <2>1, <2>2, <2>3, <2>4, <2>5 DEF MadeInv
<1>3. CASE Begins
  BY <1>3 DEF Begins, MadeInv
<1>4. CASE pc' # "build"
  BY <1>4 DEF MadeInv
<1>5. CASE UNCHANGED vars
  <2>1. Commands' = Commands
    BY <1>5, CommandsStay DEF vars
  <2> QED BY <1>5, <2>1 DEF vars, MadeInv, Apart
<1> QED BY <1>1, <1>2, <1>3, <1>4, <1>5, StepForms

\* A command that is not refused for want of ABSHADOW finds what it needs, and nothing in
\* its way.
LEMMA CommandsWork ==
  ASSUME TypeOK, MadeInv, Running, ~Exempt, Command.role # "need_shadow"
  PROVE  Works
<1>0. pc = "build" /\ at \in 1..Len(Commands) /\ at \in Nat /\ ABTYPE \in Types
  BY DEF Running, TypeOK
<1>1. CASE ABTYPE \in Configuring
  <2>0. ABTYPE # "meson"
    BY DEF Exempt
  <2>1. CASE phase = "configure"
    <3>1. ConfigureForms
      BY <1>1, <2>1, Forms DEF TypeOK
    <3>2. /\ Command.role \in {"other", "mkdir", "mkdir_p", "enter", "configure", "setup"}
          /\ Command.role = "enter" => Apart
      BY <1>0, <3>1, ConfigureCommand
    <3>3. Command.role # "mkdir"
      BY <1>0, <2>0, <3>1 DEF ConfigureForms, Command, Do
    <3>4. Command.role = "enter" => BLDDIR \in made
      <4> SUFFICES ASSUME Command.role = "enter" PROVE BLDDIR \in made
        OBVIOUS
      <4>1. Apart
        BY <3>2
      <4>2. Len(Commands) \in Nat /\ at = Len(Commands) - 1
        BY <1>0, <3>1, ConfigureCommand, ConfigureLength
      <4> QED BY <1>0, <1>1, <2>0, <2>1, <4>1, <4>2 DEF MadeInv
    <3> QED BY <3>2, <3>3, <3>4 DEF Works
  <2>2. CASE phase = "build"
    <3>1. /\ Command.role \in {"enter", "compile", "mkdir_PKGDIR", "install", "true"}
          /\ Command.role = "enter" => Apart
      BY <1>0, <1>1, <2>2, Forms, BuildCommand DEF TypeOK
    <3>2. Command.role = "enter" => BLDDIR \in made
      BY <1>0, <1>1, <2>0, <2>2, <3>1 DEF MadeInv
    <3> QED BY <3>1, <3>2 DEF Works
  <2>3. CASE phase = "install"
    <3>1. Command.role \in {"install", "compile", "leave"}
      BY <1>0, <1>1, <2>3, Forms, InstallCommand DEF TypeOK
    <3> QED BY <3>1 DEF Works
  <2>4. CASE phase \notin {"configure", "build", "install"}
    <3>1. Commands = <<Do("other")>> \/ Commands = <<>>
      BY <1>1, <2>4, Forms, Order DEF TypeOK
    <3>2. Command.role = "other"
      BY <1>0, <3>1 DEF Command, Do
    <3> QED BY <3>2 DEF Works
  <2> QED BY <2>1, <2>2, <2>3, <2>4
<1>2. CASE ABTYPE = "dune"
  <2>0. Caps = {} /\ Recipe = dune
    BY <1>2 DEF Exempt, Recipe, Templates
  <2>1. CASE phase = "check"
    <3>1. Commands = <<Do("restore")>>
      BY <2>0, <2>1 DEF Commands, dune
    <3>2. at = 1 /\ Command.role = "restore"
      BY <1>0, <3>1 DEF Command, Do
    <3>3. "env" \in made
      BY <1>0, <1>2, <2>0, <2>1, <3>2 DEF MadeInv
    <3> QED BY <3>2, <3>3 DEF Works
  <2>2. CASE phase # "check"
    <3>1. \/ Commands = <<Do("other")>> \/ Commands = <<Do("compile")>> \/ Commands = <<>>
          \/ Commands = <<Try("mkdir_PKGDIR"), Do("install"), Try("install"), Try("install")>>
      BY <2>0, <2>2, Order DEF Commands, dune, None, TypeOK
    <3>2. /\ Commands = <<Do("other")>> => Command.role = "other"
          /\ Commands = <<Do("compile")>> => Command.role = "compile"
      BY <1>0 DEF Command, Do
    <3>3. Commands = <<Try("mkdir_PKGDIR"), Do("install"), Try("install"), Try("install")>>
            => Command.role \in {"mkdir_PKGDIR", "install"}
      BY <1>0 DEF Command, Do, Try
    <3>4. Commands # <<>>
      BY <1>0
    <3> QED BY <3>1, <3>2, <3>3, <3>4 DEF Works
  <2> QED BY <2>1, <2>2
<1>3. CASE ABTYPE \notin Configuring /\ ABTYPE # "dune"
  <2>1. Table(Recipe, Bland)
    BY <1>0, <1>3, OnlyThoseConfigure DEF Exempt
  <2>2. Commands \in Seq(Bland)
    <3>1. Do("other") \in Bland
      BY BlandCommands
    <3>2. CASE phase \in {"prepare", "beyond"}
      BY <3>1, <3>2 DEF Commands
    <3>3. CASE phase \notin {"prepare", "beyond"} /\ phase \in DOMAIN Recipe
      BY <2>1, <3>3 DEF Commands, Table
    <3>4. CASE phase \notin {"prepare", "beyond"} /\ phase \notin DOMAIN Recipe
      BY <3>4 DEF Commands, None
    <3> QED BY <3>2, <3>3, <3>4
  <2>3. Command \in Bland
    BY <1>0, <2>2 DEF Command
  <2> QED BY <2>3 DEF Bland, Works
<1> QED BY <1>1, <1>2, <1>3

\* Only what fails ends a run.
LEMMA DeathStep == TypeOK /\ DeathInv /\ [Next]_vars => NoSpuriousDeath'
<1> SUFFICES ASSUME TypeOK, DeathInv, [Next]_vars PROVE NoSpuriousDeath'
  OBVIOUS
<1> USE DEF chosen, history, NoSpuriousDeath, DeathInv
<1>1. CASE StartRun
  BY <1>1 DEF StartRun
<1>2. CASE UnpackAgain
  BY <1>2 DEF UnpackAgain
<1>3. CASE Succeeds
  BY <1>3 DEF Succeeds, Step
<1>4. CASE Fails
  BY <1>4 DEF Fails
<1>5. CASE Stop
  BY <1>5 DEF Stop
<1>6. CASE Refused
  BY <1>6, CommandsWork DEF Refused, Exempt
<1>7. CASE Return
  <2>1. CASE ret # 0 \/ (phase = Checked /\ target \notin packed)
    <3>1. pc = "build" /\ at > Len(Commands) /\ phase # "beyond" /\ fault' = fault
      BY <1>7 DEF Return
    <3>2. fault
      BY <2>1, <3>1, PackedAtEnd DEF PackInv, Checked
    <3> QED BY <3>1, <3>2
  <2>2. CASE ~(ret # 0 \/ (phase = Checked /\ target \notin packed))
    BY <1>7, <2>2 DEF Return
  <2> QED BY <2>1, <2>2
<1>8. CASE TargetDone
  <2>1. CASE phase = Checked /\ target \notin packed
    <3>1. pc = "build" /\ phase = "beyond" /\ fault' = fault
      BY <1>8 DEF TargetDone
    <3>2. fault
      BY <2>1, <3>1 DEF PackInv
    <3> QED BY <3>1, <3>2
  <2>2. CASE ~(phase = Checked /\ target \notin packed)
    BY <1>8, <2>2 DEF TargetDone
  <2> QED BY <2>1, <2>2
<1>9. ASSUME NEW c \in Caps, Hwcaps(c) PROVE NoSpuriousDeath'
  BY <1>9 DEF Hwcaps
<1>10. CASE HwcapsRefused
  BY <1>10 DEF HwcapsRefused
<1>11. CASE BuildDone
  BY <1>11 DEF BuildDone
<1>12. CASE UNCHANGED vars
  BY <1>12 DEF vars
<1> QED
  BY <1>1, <1>2, <1>3, <1>4, <1>5, <1>6, <1>7, <1>8, <1>9, <1>10, <1>11, <1>12 DEF Next

\* A run in which nothing fails does not die, whatever earlier runs and targets have left:
\* in every template but meson and npm, and in dune without subtargets.
THEOREM OnlyFaultsKill == Spec => []NoSpuriousDeath
<1>1. Init => DeathInv
  BY DEF Init, DeathInv, PackInv, MadeInv, NoSpuriousDeath
<1>2. TypeOK /\ DeathInv /\ [Next]_vars => DeathInv'
  BY PackStep, MadeStep, DeathStep DEF DeathInv
<1>3. DeathInv => NoSpuriousDeath
  BY DEF DeathInv
<1> QED BY <1>1, <1>2, <1>3, TypeCorrect, PTL DEF Spec
=============================================================================
