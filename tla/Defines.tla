------------------------------- MODULE Defines -------------------------------
(***************************************************************************)
(* How one run of autobuild arrives at the variables a package is built    *)
(* with: the plugin's architecture variables (abnativefunctions.cpp) and   *)
(* proc/01-core-defines.sh, in which four layers write the same variables: *)
(*   lib/default-paths.sh and default-defines.sh,                          *)
(*   the package's defines file,                                           *)
(*   arch/<ABHOST>.sh and lib/default-flags.sh,                            *)
(*   the package's defines file once more.                                 *)
(* After each reading of a defines file, arch_loaddefines makes every      *)
(* exported NAME a reference to NAME__<ARCH> or NAME__<GROUP>, or a copy   *)
(* of it when it is an array: what is assigned to NAME from then on goes   *)
(* to the variable it refers to.  The file may set ABHOST (noarch,         *)
(* optenv32), so that the second reading may find another one.             *)
(*                                                                         *)
(* A variable's value is the sequence of the marks its assignments left: a *)
(* mark says which file wrote it, in which line and under which suffix,    *)
(* what $PREFIX was then, and whether `bool' takes the text for true.      *)
(***************************************************************************)
EXTENDS Naturals, Sequences, FiniteSets, SequencesExt

CONSTANTS
    Base,         \* the variables followed, without suffix
    Exported,     \* those of them in sets/exports.json
    Defaults,     \* Base -> "on", "off" or "unset" in lib/default-defines.sh
    Flags,        \* arrays lib/default-flags.sh assigns
    Native,       \* native_arch_name
    Groups,       \* architecture -> its groups, sorted (sets/arch_groups.json)
    ArchSets,     \* host -> variables its arch/<host>.sh assigns; its domain
                  \* is the set of hosts that have such a file
    Inputs        \* environments and source trees, see InputOK

None   == "none"       \* no such architecture
Plain  == "plain"      \* no suffix
Top    == "top"        \* the directory autobuild/ itself
Native32 == "optenv32"
NoArch == "noarch"

Arches   == DOMAIN Groups
GroupNames == UNION {ToSet(Groups[a]) : a \in Arches}
SuffixNames == {Plain} \cup Arches \cup GroupNames
Names    == Base \X SuffixNames
Hosts    == Arches \cup {Native32, NoArch}
Paths    == (Hosts \cup GroupNames \cup {Top}) \X BOOLEAN    \* TRUE: *.stage2
PrefixNames == {"/usr", "/opt/32"}
NoCompiler == <<None, FALSE>>
Stages   == {"unset", "on", "off", "odd"}    \* ABSTAGE2; odd: not a boolean word

Lib  == <<"lib", FALSE>>
Arch == <<"arch", FALSE>>
Mark == [by : Paths \cup {Lib, Arch}, line : Nat, as : SuffixNames, prefix : PrefixNames, on : BOOLEAN]
Value == [kind : {"unset", "scalar", "array"}, marks : Seq(Mark)]
Unset == [kind |-> "unset", marks |-> <<>>]

\* One assignment of a file: NAME=, NAME+=, and NAME__X=("${NAME[@]}" ...).
Assignment == [base : Base, as : SuffixNames, op : {"set", "append", "extend"},
               kind : {"scalar", "array"}, on : BOOLEAN]

\* ALLOW_ARCH: unset when no host is named; glob when it is a pattern.
Allow   == [glob : BOOLEAN, hosts : SUBSET Hosts]
NoAllow == [glob |-> FALSE, hosts |-> {}]

\* A variable has one type in a package: an array that is assigned through a
\* reference to a scalar would next be freed before it is copied.  Only an array
\* beside a NAME that has a default is let in; it is never taken.
OneType(tree) ==
    LET all == UNION {ToSet(tree[p].lines) : p \in DOMAIN tree}
    IN  /\ \A l \in all : l.base \in Flags => l.kind = "array"
        /\ \A l, m \in all : l.kind = "scalar" /\ m.kind = "array" /\ m.base = l.base =>
              m.as \notin {Plain, l.as} /\ Defaults[l.base] # "unset"

InputOK(i) ==
    /\ i.arch \in Arches \cup {None}            \* ARCH, environment or ab4cfg.sh
    /\ i.custom \in Arches \cup {None}          \* autobuild -a
    /\ i.stage \in Stages                       \* ABSTAGE2 in the environment
    /\ i.modifiers \in {"none", "malformed", "+stage2", "-stage2"}
    /\ {i.bootstrap, i.installed, i.multilib} \subseteq BOOLEAN
    /\ i.host \in Hosts \cup {None}             \* what its files set ABHOST to,
    /\ DOMAIN i.tree \subseteq Paths            \* and those that exist
    /\ \A p \in DOMAIN i.tree :
          /\ i.tree[p].lines \in Seq(Assignment)
          /\ i.tree[p].ABHOST \in {None, i.host}
          /\ i.tree[p].allow \in Allow
          /\ i.tree[p].fail \in SUBSET Hosts
          /\ i.tree[p].ok \in BOOLEAN           \* the status of its last command
    /\ OneType(i.tree)

ASSUME DefinesAssumption ==
    /\ {"ABSPLITDBG", "ABSTRIP", "AB_HWCAPS", "USECLANG", "PKGDEP"} \subseteq Base
    /\ Exported \subseteq Base /\ Flags \subseteq Base
    /\ Defaults \in [Base -> {"on", "off", "unset"}]
    /\ Native \in Arches /\ None \notin Arches
    /\ {Plain, Lib[1], Arch[1]} \cap (Arches \cup GroupNames) = {}
    /\ \A a \in Arches : Groups[a] \in Seq(GroupNames)
    /\ \A h \in DOMAIN ArchSets : \A b \in ArchSets[h] : b \in Base /\ Defaults[b] # "unset"
    /\ Defaults["ABSPLITDBG"] # "unset" /\ \A b \in Flags : Defaults[b] = "unset"
    /\ "ABSPLITDBG" \notin UNION {ArchSets[h] : h \in DOMAIN ArchSets}
    /\ \A i \in Inputs : InputOK(i)

VARIABLES
    input,                             \* what this run was given
    pc,
    ARCH, ABHOST, ABBUILD, ABSTAGE2, PREFIX, CC,
    shell,                             \* Names -> Value
    refs,                              \* what each NAME refers to; Plain: itself
    ALLOW_ARCH, FAIL_ARCH,
    files,                             \* history: the defines files sourced
    archHost                           \* history: the host whose arch file was

arches == <<ARCH, ABHOST, ABBUILD>>
guards == <<ALLOW_ARCH, FAIL_ARCH>>
vars   == <<input, pc, arches, ABSTAGE2, PREFIX, CC, shell, refs, guards, files, archHost>>

\* autobuild_bool gives 2 for a word it does not know.  arch_findfile_inner
\* takes that for true, `bool' for false.
NativeStage2 == ABSTAGE2 \in {"on", "odd"}
ShellStage2  == ABSTAGE2 = "on"

Cell(b)     == <<b, refs[b]>>           \* the variable that $NAME reads and NAME= writes
Plainly(b)  == shell[Cell(b)]
IsOn(value) == value.marks # <<>> /\ value.marks[Len(value.marks)].on
Bool(b)     == IsOn(Plainly(b))
Word(by, prefix, on) == [by |-> by, line |-> 0, as |-> Plain, prefix |-> prefix, on |-> on]
Scalar(by, prefix, on) == [kind |-> "scalar", marks |-> <<Word(by, prefix, on)>>]

Init ==
    /\ input \in Inputs
    /\ pc = "enable"
    /\ ARCH = input.arch /\ ABHOST = None /\ ABBUILD = None
    /\ ABSTAGE2 = input.stage
    /\ PREFIX = "/usr" /\ CC = NoCompiler
    /\ shell = [n \in Names |-> Unset] /\ refs = [b \in Base |-> Plain]
    /\ ALLOW_ARCH = NoAllow /\ FAIL_ARCH = {}
    /\ files = <<>> /\ archHost = None

Die == pc' = "dead"

-----------------------------------------------------------------------------
(* The plugin.                                                             *)

\* set_arch_variables: an ARCH that is already there comes first.
SetArchVariables(arch) ==
    LET this == IF ARCH # None THEN ARCH ELSE IF arch # None THEN arch ELSE Native
    IN  ARCH' = this /\ ABHOST' = this /\ ABBUILD' = this

\* enable -f: register_builtin_variables.
Enable ==
    /\ pc = "enable" /\ pc' = "arguments"
    /\ SetArchVariables(None)
    /\ UNCHANGED <<input, ABSTAGE2, PREFIX, CC, shell, refs, guards, files, archHost>>

\* autobuild [-a ARCH]: set_custom_arch calls set_arch_variables again.
Arguments ==
    /\ pc = "arguments" /\ pc' = "defaults"
    /\ IF input.custom # None THEN SetArchVariables(input.custom) ELSE UNCHANGED arches
    /\ UNCHANGED <<input, ABSTAGE2, PREFIX, CC, shell, refs, guards, files, archHost>>

-----------------------------------------------------------------------------
(* Finding and sourcing a defines file.                                    *)

\* ABHOST's directory, the groups of ARCH in order, autobuild/.
SearchOrder == <<ABHOST>> \o Groups[ARCH] \o <<Top>>

\* In a directory, stage 2 prefers defines.stage2.
FileIn(dir) ==
    LET exists == {s \in BOOLEAN : <<dir, s>> \in DOMAIN input.tree /\ (s => NativeStage2)}
    IN  IF exists = {} THEN {} ELSE {<<dir, TRUE \in exists>>}

\* {path}, or {} when no directory has the file.
Found ==
    LET hits == {i \in DOMAIN SearchOrder : FileIn(SearchOrder[i]) # {}}
    IN  IF hits = {} THEN {}
        ELSE FileIn(SearchOrder[Min(hits)])

Assigned(old, plain, a, mark) ==
    CASE a.op = "set"    -> [kind |-> a.kind, marks |-> <<mark>>]
      [] a.op = "append" -> [kind |-> IF old.kind = "unset" THEN a.kind ELSE old.kind,
                             marks |-> Append(old.marks, mark)]
      [] OTHER           -> [kind |-> a.kind, marks |-> Append(plain.marks, mark)]

\* The variable that an assignment writes, and the mark it leaves.
Target(a) == IF a.as = Plain THEN Cell(a.base) ELSE <<a.base, a.as>>
MarkOf(path, k, a) == [by |-> path, line |-> k, as |-> a.as, prefix |-> PREFIX, on |-> a.on]

\* Line k of the file at path is executed.
Line(sh, path, k) ==
    LET a == input.tree[path].lines[k]
    IN  [sh EXCEPT ![Target(a)] = Assigned(@, sh[Cell(a.base)], a, MarkOf(path, k, a))]

\* The shell after each line of a file, and at its end.
After(path) ==
    LET sh[k \in 0..Len(input.tree[path].lines)] ==
            IF k = 0 THEN shell ELSE Line(sh[k - 1], path, k)
    IN  sh
Sourced(path) == After(path)[Len(input.tree[path].lines)]

\* The names autobuild_get_variable_with_suffix tries: ARCH, then its groups.
Aliases == <<ARCH>> \o Groups[ARCH]

\* The first of the suffixes that has a variable; Plain when none has, or when
\* autobuild_copy_variable finds NAME of another type and leaves it alone.  A
\* second group that has one is reported as ambiguous; by then the first is
\* taken, and the run goes on.
Picked(sh, b, suffixes) ==
    LET hits == {i \in DOMAIN suffixes : sh[<<b, suffixes[i]>>] # Unset}
        first == suffixes[Min(hits)]
    IN  IF hits # {} /\ sh[Cell(b)].kind \in {"unset", sh[<<b, first>>].kind}
        THEN first ELSE Plain

\* Mistake: the groups are tried before the architecture.
LoadedVarGroupsFirst(sh, b) == Picked(sh, b, Groups[ARCH] \o <<ARCH>>)

\* arch_loadvar_inner, of the exported variables only.
LoadedVar(sh, b) == IF b \in Exported THEN Picked(sh, b, Aliases) ELSE Plain

Source(sh, b) == <<b, LoadedVar(sh, b)>>
Takes(sh, b, kind) == LoadedVar(sh, b) # Plain /\ sh[Source(sh, b)].kind = kind

\* autobuild_copy_variable: an array is copied, of a scalar `declare -n' makes
\* a reference.
Copied(sh) ==
    [n \in Names |-> IF n = Cell(n[1]) /\ Takes(sh, n[1], "array")
                     THEN sh[Source(sh, n[1])] ELSE sh[n]]
Referring(sh) ==
    [b \in Base |-> IF Takes(sh, b, "scalar") THEN LoadedVar(sh, b) ELSE refs[b]]

\* arch_loaddefines -2 defines || abdie
LoadDefines(next) ==
    \/ /\ Found = {}
       /\ Die
       /\ UNCHANGED <<input, arches, ABSTAGE2, PREFIX, CC, shell, refs, guards, files, archHost>>
    \/ \E path \in Found :
       LET file == input.tree[path] IN
       /\ ABHOST' = IF file.ABHOST = None THEN ABHOST ELSE file.ABHOST
       /\ ALLOW_ARCH' = IF file.allow = NoAllow THEN ALLOW_ARCH ELSE file.allow
       /\ FAIL_ARCH' = IF file.fail = {} THEN FAIL_ARCH ELSE file.fail
       /\ LET sh == Sourced(path) IN
          IF file.ok THEN shell' = Copied(sh) /\ refs' = Referring(sh) /\ pc' = next
                     ELSE shell' = sh /\ Die /\ UNCHANGED refs
       /\ files' = Append(files, path)
       /\ UNCHANGED <<input, ARCH, ABBUILD, ABSTAGE2, PREFIX, CC, archHost>>

-----------------------------------------------------------------------------
(* proc/01-core-defines.sh.                                                *)

\* Mistake: the stage 2 block is missing.
LoadDefaultsNoStage ==
    /\ pc = "defaults" /\ pc' = "modifiers"
    /\ PREFIX' = "/usr"
    /\ shell' = [n \in Names |->
          IF n[2] # Plain \/ Defaults[n[1]] = "unset" THEN shell[n]
          ELSE Scalar(Lib, "/usr", Defaults[n[1]] = "on")]
    /\ UNCHANGED <<input, arches, ABSTAGE2, CC, refs, guards, files, archHost>>

\* default-paths.sh, default-defines.sh with its stage 2 block, _common.sh.
LoadDefaults ==
    /\ pc = "defaults" /\ pc' = "modifiers"
    /\ PREFIX' = "/usr"
    /\ shell' = [n \in Names |->
          IF n[2] # Plain \/ Defaults[n[1]] = "unset" THEN shell[n]
          ELSE Scalar(Lib, "/usr", Defaults[n[1]] = "on" /\ ~(n[1] = "ABSPLITDBG" /\ ShellStage2))]
    /\ UNCHANGED <<input, arches, ABSTAGE2, CC, refs, guards, files, archHost>>

\* Mistake: ABSTAGE2 is given the name of the modifier.
ParseModifiersName ==
    /\ pc = "modifiers"
    /\ pc' = IF input.modifiers = "malformed" THEN "dead" ELSE "first"
    /\ ABSTAGE2' = IF input.modifiers = "+stage2" THEN "+stage2" ELSE ABSTAGE2
    /\ UNCHANGED <<input, arches, PREFIX, CC, shell, refs, guards, files, archHost>>

\* ab_parse_set_modifiers; a malformed list ends the run through the ERR trap.
ParseModifiers ==
    /\ pc = "modifiers"
    /\ pc' = IF input.modifiers = "malformed" THEN "dead" ELSE "first"
    /\ ABSTAGE2' = IF input.modifiers = "+stage2" THEN "on" ELSE ABSTAGE2
    /\ UNCHANGED <<input, arches, PREFIX, CC, shell, refs, guards, files, archHost>>

FirstDefines == pc = "first" /\ LoadDefines("compiler")

\* Mistake: optenv32 is given the compiler of the building architecture.
ChooseCompilerNative ==
    /\ pc = "compiler"
    /\ IF ABHOST \in {ABBUILD, Native32}
       THEN /\ pc' = "arch"
            /\ CC' = IF input.multilib THEN CC ELSE <<ABBUILD, Bool("USECLANG")>>
       ELSE /\ pc' = IF ABHOST = NoArch THEN "arch" ELSE "dead"
            /\ UNCHANGED CC
    /\ UNCHANGED <<input, arches, ABSTAGE2, PREFIX, shell, refs, guards, files, archHost>>

\* clang or gcc of the host; noarch has none, and nothing else is cross-built.
ChooseCompiler ==
    /\ pc = "compiler"
    /\ IF ABBUILD = ABHOST
       THEN /\ pc' = "arch"
            /\ CC' = IF input.multilib THEN CC ELSE <<ABHOST, Bool("USECLANG")>>
       ELSE IF ABHOST = Native32
       THEN pc' = "arch" /\ CC' = <<ABHOST, Bool("USECLANG")>>
       ELSE /\ pc' = IF ABHOST = NoArch THEN "arch" ELSE "dead"
            /\ UNCHANGED CC
    /\ UNCHANGED <<input, arches, ABSTAGE2, PREFIX, shell, refs, guards, files, archHost>>

PrefixOf(host) == IF host = Native32 THEN "/opt/32" ELSE "/usr"

\* Mistake: default-flags.sh is loaded before the architecture file.
FlagsBeforeArch(value) == [kind |-> "array", marks |-> <<Word(Lib, PREFIX, TRUE)>>]

\* Mistake: default-flags.sh appends to the arrays.
FlagsAppended(value) == [kind |-> "array",
                         marks |-> Append(value.marks, Word(Lib, PrefixOf(ABHOST), TRUE))]

\* default-flags.sh: an array that is assigned anew from the paths.
FlagsOf(value) == [kind |-> "array", marks |-> <<Word(Lib, PrefixOf(ABHOST), TRUE)>>]

\* arch/$ABHOST.sh, default-flags.sh, and the test of FAIL_ARCH and ALLOW_ARCH.
LoadArch ==
    /\ pc = "arch"
    /\ \/ /\ ABHOST \notin DOMAIN ArchSets
          /\ Die
          /\ UNCHANGED <<PREFIX, shell>>
       \/ /\ ABHOST \in DOMAIN ArchSets
          /\ PREFIX' = PrefixOf(ABHOST)
          /\ shell' = [n \in Names |->
                IF n # Cell(n[1]) THEN shell[n]
                ELSE IF n[1] \in Flags THEN FlagsOf(shell[n])
                ELSE IF n[1] \in ArchSets[ABHOST] THEN Scalar(Arch, PrefixOf(ABHOST), TRUE)
                ELSE shell[n]]
          /\ pc' = IF FAIL_ARCH # {} /\ ALLOW_ARCH # NoAllow THEN "dead" ELSE "second"
    /\ archHost' = ABHOST
    /\ UNCHANGED <<input, arches, ABSTAGE2, CC, refs, guards, files>>

SecondDefines == pc = "second" /\ LoadDefines("check")

\* [ "$ABBUILD" != $ALLOW_ARCH ]: inside [ ] a pattern is expanded as file
\* names, which leaves an ill-formed test, and that counts as false.
NotAllowed == ALLOW_ARCH # NoAllow /\ ~ALLOW_ARCH.glob /\ ABBUILD \notin ALLOW_ARCH.hosts

\* [[ $ABHOST != $FAIL_ARCH ]]
Fails == ABHOST \in FAIL_ARCH

Refused ==
    \/ NotAllowed \/ Fails
    \/ input.bootstrap /\ (~ShellStage2 \/ input.installed)

\* The rest of the script: refusals, then variables the situation overrules.
Check ==
    /\ pc = "check"
    /\ pc' = IF Refused THEN "dead" ELSE "ready"
    /\ LET noSplit == (~Bool("ABSTRIP") /\ Bool("ABSPLITDBG")) \/ ABHOST = NoArch
       IN  shell' = [n \in Names |->
              IF n = Cell("ABSPLITDBG") /\ noSplit THEN Scalar(Lib, PREFIX, FALSE)
              ELSE IF n = Cell("AB_HWCAPS") /\ ShellStage2 /\ Bool("AB_HWCAPS")
              THEN Scalar(Lib, PREFIX, FALSE)
              ELSE IF n = Cell("PKGDEP") /\ input.bootstrap THEN Scalar(Lib, PREFIX, FALSE)
              ELSE shell[n]]
    /\ UNCHANGED <<input, arches, ABSTAGE2, PREFIX, CC, refs, guards, files, archHost>>

Ended == pc \in {"ready", "dead"} /\ UNCHANGED vars

Next ==
    \/ Enable \/ Arguments \/ LoadDefaults \/ ParseModifiers \/ FirstDefines
    \/ ChooseCompiler \/ LoadArch \/ SecondDefines \/ Check \/ Ended

Spec == Init /\ [][Next]_vars

-----------------------------------------------------------------------------
(* What should hold.                                                       *)

\* Types, and that the stage stays one of the words `bool' and the plugin can meet.
TypeOK ==
    /\ pc \in {"enable", "arguments", "defaults", "modifiers", "first", "compiler",
               "arch", "second", "check", "ready", "dead"}
    /\ ARCH \in Arches \cup {None} /\ ABBUILD \in Arches \cup {None}
    /\ ABHOST \in Hosts \cup {None} /\ archHost \in Hosts \cup {None}
    /\ ABSTAGE2 \in Stages /\ PREFIX \in PrefixNames
    /\ CC \in (Hosts \cup {None}) \X BOOLEAN
    /\ shell \in [Names -> Value] /\ refs \in [Base -> SuffixNames]
    /\ ALLOW_ARCH \in Allow /\ FAIL_ARCH \subseteq Hosts
    /\ files \in Seq(Paths)

Ready == pc = "ready"
Latest(b) == Last(Plainly(b).marks)

\* What a file says of NAME__X (its lines that do), and whether that is its last
\* word on b.
Says(path, b, s) ==
    {k \in DOMAIN input.tree[path].lines :
        input.tree[path].lines[k].base = b /\ input.tree[path].lines[k].as = s}
SaysLast(path, b, s) == \E k \in Says(path, b, s) : \A j \in Says(path, b, Plain) : j < k

\* Every assignment to b has the type b already has.
WellTyped(b) ==
    \A p \in ToSet(files) : \A a \in ToSet(input.tree[p].lines) :
        a.base = b => a.kind = IF b \in Flags THEN "array" ELSE "scalar"

\* The variables that the end of the script may overrule.
Overruled == {"ABSPLITDBG", "AB_HWCAPS", "PKGDEP"}

\* The package has the last word on an exported variable, and says it with its
\* most specific name: NAME__ARCH before NAME__GROUP before NAME, whatever the
\* default, the architecture file and default-flags.sh made of it in between.
\* NAME is then the same variable as the specific one, and what that says is the
\* value if the file says it after NAME: the second reading assigns a NAME that
\* follows to the specific variable.
SpecificWins ==
    Ready => \A b \in Exported \ Overruled : WellTyped(b) =>
        LET special == {k \in DOMAIN Aliases :
                           \E p \in ToSet(files) : Says(p, b, Aliases[k]) # {}}
            best    == Aliases[Min(special)]
        IN  /\ special # {} => Plainly(b) = shell[<<b, best>>]
            /\ special # {} /\ SaysLast(files[2], b, best) => Latest(b).as = best
            /\ special = {} /\ Says(files[2], b, Plain) # {} =>
                  Latest(b).as = Plain /\ Latest(b).by = files[2]

\* No file appends to NAME__X itself, which nothing resets between the readings.
AppendsPlainly(b) ==
    \A p \in ToSet(files) : \A a \in ToSet(input.tree[p].lines) :
        a.base = b /\ a.op = "append" => a.as = Plain

\* What a defines file or default-flags.sh computed from $PREFIX is computed from
\* the paths of the final host, although the first reading of the defines file
\* saw those of default-paths.sh: all of an array of default-flags.sh, and the
\* last word of any other variable.
FinalPaths ==
    Ready => \A b \in Exported :
        LET marks == Plainly(b).marks
        IN  \A i \in DOMAIN marks :
               \/ b \in Flags /\ AppendsPlainly(b) /\ marks[i].by \in {Lib, files[2]}
               \/ i = Len(marks) /\ marks[i].by = files[2]
               => marks[i].prefix = PREFIX

\* A line of a defines file, which is sourced twice, adds once to the arrays that
\* default-flags.sh assigns between the two readings.
AppendedOnce ==
    Ready => \A b \in Flags : AppendsPlainly(b) =>
        LET marks == Plainly(b).marks
        IN  \A i, j \in DOMAIN marks :
               marks[i].by = marks[j].by /\ marks[i].line = marks[j].line => i = j

\* The compiler, the architecture file and the paths are those of the host the
\* run ends up with, although the second reading may find another file and
\* assign ABHOST again.
HostAgrees ==
    Ready =>
        /\ archHost = ABHOST
        /\ PREFIX = PrefixOf(ABHOST)
        /\ ABHOST \in {ARCH, Native32, NoArch}
        /\ CC # NoCompiler => CC[1] = ABHOST

\* In stage 2 no debug package is made unless the package insists; true of
\* ABSTAGE2, not of the modifier that replaces it, which comes too late.
SymbolsOffInStage2 ==
    Ready /\ ShellStage2 /\ input.modifiers # "+stage2" /\ Bool("ABSPLITDBG") =>
        Latest("ABSPLITDBG").by \in ToSet(files)
=============================================================================
