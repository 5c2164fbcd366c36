------------------------------- MODULE Control -------------------------------
(***************************************************************************)
(* Dependencies, from the defines file to apt and to the control file.     *)
(* 11-pm-deps.sh has the plugin translate them into a request; long after, *)
(* pm/dpkg.sh writes those of the package, and gives the required ones     *)
(* that name no version the one that is installed.  The plugin reads a     *)
(* dependency with an automaton that has no state for an error; the script *)
(* decides with a regular expression what the plugin gets to read.         *)
(***************************************************************************)
EXTENDS Naturals, Sequences

CONSTANTS
    Packages, PKGNAME,  \* PKGNAME is the one that is built
    Nameless,           \* what read makes of an empty line
    Versions,           \* numbers; 0 is the empty string
    Defines             \* fields that defines files may give

Required == {"PKGDEP", "PKGPRDEP"}
Fields == Required \cup {"BUILDDEP", "PKGRECOM"}

\* "name", "name_" or "name", operators and a version.
Item == {i \in [name : Packages, ops : Seq({"<", ">", "="}), ver : Versions \cup {0}, mark : BOOLEAN] :
            /\ i.ops = <<>> <=> i.ver = 0
            /\ i.mark => i.ops = <<>>}
Plain(p) == [name |-> p, ops |-> <<>>, ver |-> 0, mark |-> FALSE]

ASSUME ControlAssumption ==
    /\ PKGNAME \in Packages /\ Nameless \notin Packages /\ Versions \subseteq Nat \ {0}
    /\ \A c \in Defines : \A i \in UNION {c.items[f] : f \in Fields} : i \in Item

VARIABLES
    fields,     \* items of each field, and those with @AB_AUTO_SO_DEPS@
    only,       \* ABBUILDDEPONLY
    VER_NONE, VER_NONE_ALL,
    installed,  \* version of each package, 0 for none
    request,    \* what apt was asked for
    sodeps,     \* owners of the libraries that the ELF filter found
    elf,        \* whether it found any
    control,    \* relations of each field of the control file
    pc

vars == <<fields, only, VER_NONE, VER_NONE_ALL, installed, request, sodeps, elf, control, pc>>
given == <<fields, only, VER_NONE_ALL>>

Init ==
    /\ fields \in Defines
    /\ only \in BOOLEAN /\ VER_NONE \in {"0", "1", "yes"} /\ VER_NONE_ALL \in BOOLEAN
    /\ installed \in [Packages -> Versions \cup {0}]
    /\ request = {} /\ sodeps = {} /\ elf = FALSE
    /\ control = [f \in Fields |-> {}] /\ pc = "deps"

-----------------------------------------------------------------------------
(* autobuild_to_deb_version.  A name is read in state 0, a version in      *)
(* state 10; what comes elsewhere is dropped.                              *)

Opened(c) == CASE c = "<" -> 1 [] c = ">" -> 2 [] c = "=" -> 3

\* Mistake: "<=" is taken for "<".
ClosedWrong(state, c) ==
    CASE state = 1 /\ c \in {"<", "="} -> "<<"
      [] state = 2 /\ c = ">" -> ">>"
      [] state = 2 /\ c = "=" -> ">="
      [] state = 3 /\ c = "=" -> "="
      [] OTHER -> "none"

Closed(state, c) ==
    CASE state = 1 /\ c = "<" -> "<<"
      [] state = 1 /\ c = "=" -> "<="
      [] state = 2 /\ c = ">" -> ">>"
      [] state = 2 /\ c = "=" -> ">="
      [] state = 3 /\ c = "=" -> "="
      [] OTHER -> "none"

\* "v" stands for a version.
Read(s, c) ==
    IF c = "v" THEN [s EXCEPT !.kept = s.state = 10]
    ELSE IF s.state = 0 THEN [s EXCEPT !.state = Opened(c)]
    ELSE IF Closed(s.state, c) # "none" THEN [s EXCEPT !.state = 10, !.op = Closed(s.state, c)]
    ELSE s

Parsed(text) ==
    LET after[k \in 0..Len(text)] ==
          IF k = 0 THEN [state |-> 0, op |-> "none", kept |-> FALSE]
          ELSE Read(after[k - 1], text[k])
    IN  after[Len(text)]

\* A version that is not read, and one that is empty, leave "(>= )" behind.
Relation(n, text, v) ==
    LET s == Parsed(text) IN [name |-> n, op |-> s.op, ver |-> IF s.kept THEN v ELSE 0]

-----------------------------------------------------------------------------
(* 11-pm-deps.sh                                                           *)

\* abpm_dump_builddep_req.
Asked(i) == Relation(i.name, i.ops \o <<"v">>, i.ver)

Holds(v, r) ==
    /\ v # 0
    /\ CASE r.op = "none" -> TRUE
         [] r.op = "<<" -> v < r.ver
         [] r.op = "<=" -> v <= r.ver
         [] r.op = "=" -> v = r.ver
         [] r.op = ">=" -> v >= r.ver
         [] r.op = ">>" -> v > r.ver

\* Mistake: what must be there before the package is unpacked is not asked for.
WantedNoPre ==
    UNION {fields.items[f] : f \in IF only THEN {"BUILDDEP"} ELSE {"BUILDDEP", "PKGDEP"}}

Wanted == UNION {fields.items[f] : f \in IF only THEN {"BUILDDEP"} ELSE {"BUILDDEP"} \cup Required}

\* ab_bool and (( )) do not agree on  yes .
ShellTrue(x) == x \in {"1", "yes"}
Nonzero(x) == x = "1"

\* apt keeps or installs a version of each package that it was asked for.
Satisfied(asked) ==
    {i \in [Packages -> Versions \cup {0}] :
        \A p \in Packages :
            LET mine == {r \in asked : r.name = p}
            IN IF mine = {} THEN i[p] = installed[p] ELSE \A r \in mine : Holds(i[p], r)}

\* apt knows no package with an underscore at the end of its name.
Unknown == \E i \in Wanted : i.mark

pm_install_deps ==
    /\ pc = "deps"
    /\ IF only /\ ~ShellTrue(VER_NONE)
         THEN pc' = "dead" /\ UNCHANGED <<installed, request>>
         ELSE /\ request' = {Asked(i) : i \in Wanted}
              /\ IF Unknown \/ Satisfied(request') = {}
                   THEN pc' = "dead" /\ UNCHANGED installed
                   ELSE pc' = "filter" /\ installed' \in Satisfied(request')
    /\ UNCHANGED <<given, VER_NONE, sodeps, elf, control>>

\* Libraries may be of packages that are installed, or of nobody.
filter_elf ==
    /\ pc = "filter"
    /\ elf' \in BOOLEAN
    /\ sodeps' \in SUBSET {p \in Packages : installed[p] # 0} /\ (~elf' => sodeps' = {})
    /\ pc' = "PKGDEP"
    /\ UNCHANGED <<given, VER_NONE, installed, request, control>>

-----------------------------------------------------------------------------
(* dpkgctrl                                                                *)

\* The empty output of dpkg -S is read as one empty line.
AutoDeps == {Plain(p) : p \in IF sodeps = {} THEN {Nameless} ELSE sodeps}

\* [<>=]=
HasPair(ops) == \E k \in DOMAIN ops : k > 1 /\ ops[k] = "="

\* dpkg_getver is given the whole word, and knows names only.
Installed(i) == IF i.ops = <<>> /\ i.name \in Packages THEN installed[i.name] ELSE 0

\* A word that is written as it stands is no relation if it has operators.
Entry(f, i) ==
    IF VER_NONE_ALL THEN [name |-> f, op |-> "none", ver |-> 0]
    ELSE IF HasPair(i.ops) THEN Relation(i.name, i.ops \o <<"v">>, i.ver)
    ELSE IF Nonzero(VER_NONE) \/ i.mark
           THEN [name |-> i.name, op |-> IF i.ops = <<>> THEN "none" ELSE "raw", ver |-> i.ver]
    ELSE IF i.ops = <<>> THEN Relation(i.name, <<">", "=", "v">>, Installed(i))
    ELSE Relation(i.name, i.ops \o <<"v", ">", "=">>, i.ver)

Self(i) == i = Plain(PKGNAME)

After == [PKGDEP |-> "PKGPRDEP", PKGPRDEP |-> "optional", PKGRECOM |-> "done"]

dpkgfield(f) ==
    /\ pc = f
    /\ IF f \in fields.auto /\ ~elf
         THEN pc' = "dead" /\ UNCHANGED control
         ELSE LET all == fields.items[f] \cup IF f \in fields.auto THEN AutoDeps ELSE {}
              IN  /\ control' = [control EXCEPT ![f] = {Entry(f, i) : i \in {j \in all : ~Self(j)}}]
                  /\ pc' = After[f]
    /\ UNCHANGED <<given, VER_NONE, installed, request, sodeps, elf>>

\* "We don't autofill versions in optional fields."
OptionalFields ==
    /\ pc = "optional" /\ pc' = "PKGRECOM" /\ VER_NONE' = "1"
    /\ UNCHANGED <<given, installed, request, sodeps, elf, control>>

Next ==
    \/ pm_install_deps \/ filter_elf
    \/ \E f \in DOMAIN After : dpkgfield(f)
    \/ OptionalFields

Spec == Init /\ [][Next]_vars

-----------------------------------------------------------------------------
(* Properties.                                                             *)

\* Operators that a relation can be written with; the automaton takes a single one for
\* the start of another, and drops it or ends it with the >= that dpkgfield adds.
Pairs == {<<"<", "<">>, <<"<", "=">>, <<"=", "=">>, <<">", "=">>, <<">", ">">>}
Meaning(ops) ==
    CASE ops = <<"<", "<">> -> "<<" [] ops = <<"<", "=">> -> "<=" [] ops = <<"=", "=">> -> "="
      [] ops = <<">", "=">> -> ">=" [] ops = <<">", ">">> -> ">>"
Meant(i) == [name |-> i.name, op |-> Meaning(i.ops), ver |-> i.ver]
Sound(f) == \A i \in fields.items[f] : i.ops \in Pairs \cup {<<>>}

Written(f) ==
    CASE f = "PKGDEP" -> pc \in {"PKGPRDEP", "optional", "PKGRECOM", "done"}
      [] f = "PKGPRDEP" -> pc \in {"optional", "PKGRECOM", "done"}
      [] f = "PKGRECOM" -> pc = "done"
      [] f = "BUILDDEP" -> FALSE

\* A relation reaches apt and the control file as it was written, although << and >> pass
\* the regular expression unseen and reach the automaton with a second operator behind the
\* version.  Where VER_NONE holds these two are not translated at all.
RelationsMeant ==
    \A f \in Fields : \A i \in fields.items[f] :
        i.ops \in Pairs =>
            /\ request # {} /\ i \in Wanted => Meant(i) \in request
            /\ Written(f) /\ ~VER_NONE_ALL /\ (HasPair(i.ops) \/ ~Nonzero(VER_NONE)) =>
                  Meant(i) \in control[f]

\* Every required relation of the package has a version, and holds of what the package was
\* built with: 11-pm-deps.sh installs what dpkgfield will look up, and may leave it out only
\* with VER_NONE, which it says must be 1; "yes" passes its test and not that of dpkgfield.
\* The libraries of @AB_AUTO_SO_DEPS@ must have an owner.
DependsHold ==
    pc = "optional" /\ VER_NONE # "yes" /\ (elf => sodeps # {}) =>
        \A f \in Required : Sound(f) =>
            \A r \in control[f] : r.op \notin {"none", "raw"} =>
                /\ r.ver # 0
                /\ ~only => Holds(installed[r.name], r)
=============================================================================
