---------------------------- MODULE ControlProofs ----------------------------
(***************************************************************************)
(* For any packages, versions and defines files: a relation reaches apt    *)
(* and the control file as it was written, and the required ones hold of   *)
(* what the package was built with.                                        *)
(*                                                                         *)
(* DependsHold speaks of what is installed when the control file is        *)
(* written; that it holds needs that nothing was installed that apt was    *)
(* not asked for, that VER_NONE is still what it was when the packages     *)
(* were installed, and that each field was written by the same switches.   *)
(***************************************************************************)
EXTENDS Control, TLAPS

States == [state : {0, 1, 2, 3, 10}, op : {"none", "<<", "<=", "=", ">=", ">>"}, kept : BOOLEAN]
Start  == [state |-> 0, op |-> "none", kept |-> FALSE]
At(s, state, op) == s \in States /\ s.state = state /\ s.op = op

\* What apt was asked for is there, once it was.
Installs ==
    pc \notin {"deps", "dead"} =>
        /\ ~Unknown
        /\ \A i \in Wanted : Holds(installed[i.name], Asked(i))

\* Until the optional fields, the switch is the one pm_install_deps saw.
SwitchKept == pc \notin {"deps", "dead", "PKGRECOM", "done"} /\ only => ShellTrue(VER_NONE)

\* The owners of libraries are installed, and not looked for before.
Owners == (pc = "deps" => sodeps = {}) /\ \A p \in sodeps : installed[p] # 0

\* What DependsHold says of a field that is written.
FieldHolds(f) ==
    VER_NONE # "yes" /\ (elf => sodeps # {}) /\ Sound(f) =>
        \A r \in control[f] : r.op \notin {"none", "raw"} =>
            /\ r.ver # 0
            /\ ~only => Holds(installed[r.name], r)

Types ==
    /\ fields \in Defines /\ only \in BOOLEAN /\ VER_NONE_ALL \in BOOLEAN
    /\ VER_NONE \in {"0", "1", "yes"} /\ elf \in BOOLEAN
    /\ installed \in [Packages -> Versions \cup {0}]
    /\ sodeps \subseteq Packages
    /\ DOMAIN control = Fields

IInv ==
    /\ Types
    /\ request # {} => request = {Asked(i) : i \in Wanted}
    /\ Installs /\ SwitchKept /\ Owners
    /\ pc \in {"PKGPRDEP", "optional"} => FieldHolds("PKGDEP")
    /\ pc = "optional" => FieldHolds("PKGPRDEP")
    /\ RelationsMeant

-----------------------------------------------------------------------------
(* The automaton, on the words that dpkgfield and abpm_dump_builddep_req   *)
(* give it.                                                                *)

\* It reads a word character after character.
LEMMA ParsedIs ==
  ASSUME NEW text, NEW n \in 1..5, Len(text) = n
  PROVE  \E f : /\ f[0] = Start /\ Parsed(text) = f[n]
                /\ \A k \in 0..(n - 1) : f[k + 1] = Read(f[k], text[k + 1])
<1> DEFINE rec(f, k) == IF k = 0 THEN Start ELSE Read(f[k - 1], text[k])
           e1 == Read(Start, text[1])
           e2 == Read(e1, text[2])
           e3 == Read(e2, text[3])
           e4 == Read(e3, text[4])
           e5 == Read(e4, text[5])
           g == [k \in 0..n |-> IF k = 0 THEN Start ELSE IF k = 1 THEN e1 ELSE IF k = 2 THEN e2
                                ELSE IF k = 3 THEN e3 ELSE IF k = 4 THEN e4 ELSE e5]
           A == CHOOSE f : f = [k \in 0..n |-> rec(f, k)]
<1>1. \A k \in 0..n : g[k] = rec(g, k)
  <2> HIDE DEF e1, e2, e3, e4, e5
  <2> SUFFICES ASSUME NEW k \in 0..n PROVE g[k] = rec(g, k)
    OBVIOUS
  <2>1. CASE k = 0
    BY <2>1
  <2>2. CASE k = 1
    BY <2>2 DEF e1
  <2>3. CASE k = 2
    BY <2>3 DEF e2
  <2>4. CASE k = 3
    BY <2>4 DEF e3
  <2>5. CASE k = 4
    BY <2>5 DEF e4
  <2>6. CASE k = 5
    BY <2>6 DEF e5
  <2> QED BY <2>1, <2>2, <2>3, <2>4, <2>5, <2>6
<1>2. g = [k \in 0..n |-> rec(g, k)]
  <2> HIDE DEF rec
  <2> QED BY <1>1
<1>3. Parsed(text) = A[n]
  BY DEF Parsed, Start
<1> HIDE DEF rec, g, A
<1>4. A = [k \in 0..n |-> rec(A, k)]
  BY <1>2 DEF A
<1>5. \A k \in 0..n : A[k] = rec(A, k)
  BY <1>4
<1>6. A[0] = Start
  BY <1>5 DEF rec
<1>7. ASSUME NEW k \in 0..(n - 1) PROVE A[k + 1] = Read(A[k], text[k + 1])
  <2>1. k + 1 \in 0..n /\ k + 1 # 0 /\ (k + 1) - 1 = k
    OBVIOUS
  <2> QED BY <1>5, <2>1 DEF rec
<1> QED BY <1>3, <1>6, <1>7

LEMMA ReadVersion ==
  ASSUME NEW op, NEW s, At(s, 10, op) PROVE At(Read(s, "v"), 10, op) /\ Read(s, "v").kept
<1>1. Read(s, "v") = [s EXCEPT !.kept = TRUE]
  BY DEF At, Read
<1> QED BY <1>1 DEF At, States

LEMMA ReadTail ==
  ASSUME NEW op, NEW s, At(s, 10, op) PROVE Read(s, ">") = s /\ Read(s, "=") = s
<1>1. Closed(10, ">") = "none" /\ Closed(10, "=") = "none"
  BY DEF Closed
<1> QED BY <1>1 DEF At, Read

LEMMA ReadOpening ==
  ASSUME NEW a \in {"<", ">", "="} PROVE At(Read(Start, a), Opened(a), "none")
<1>1. Start \in States /\ Start.state = 0 /\ Start.op = "none"
  BY DEF Start, States
<1>2. Opened(a) \in {1, 2, 3}
  BY DEF Opened
<1>3. Read(Start, a) = [Start EXCEPT !.state = Opened(a)]
  BY <1>1 DEF Read
<1> QED BY <1>1, <1>2, <1>3 DEF At, States

LEMMA ReadClosing ==
  ASSUME NEW a \in {"<", ">", "="}, NEW b \in {"<", ">", "="}, Closed(Opened(a), b) # "none",
         NEW s, At(s, Opened(a), "none")
  PROVE  At(Read(s, b), 10, Closed(Opened(a), b))
<1>1. Opened(a) \in {1, 2, 3}
  BY DEF Opened
<1>2. Closed(Opened(a), b) \in {"none", "<<", "<=", "=", ">=", ">>"}
  BY DEF Closed
<1>3. Read(s, b) = [s EXCEPT !.state = 10, !.op = Closed(Opened(a), b)]
  BY <1>1 DEF At, Read
<1> QED BY <1>2, <1>3 DEF At, States

LEMMA ReadNothing == Read(Start, "v").op = "none" /\ ~Read(Start, "v").kept
<1>1. Start \in States /\ Start.state # 10 /\ Start.op = "none"
  BY DEF Start, States
<1>2. Read(Start, "v") = [Start EXCEPT !.kept = FALSE]
  BY <1>1 DEF Read
<1> QED BY <1>1, <1>2 DEF States

\* A pair of operators gives a relation, with the version behind it; what comes behind the
\* version is dropped.
LEMMA PairIsRead ==
  ASSUME NEW a \in {"<", ">", "="}, NEW b \in {"<", ">", "="}, Closed(Opened(a), b) # "none",
         NEW text, NEW n \in {3, 5}, Len(text) = n, text[1] = a, text[2] = b, text[3] = "v",
         n = 5 => text[4] = ">" /\ text[5] = "="
  PROVE  Parsed(text).op = Closed(Opened(a), b) /\ Parsed(text).kept
<1>1. PICK f : /\ f[0] = Start /\ Parsed(text) = f[n]
               /\ \A k \in 0..(n - 1) : f[k + 1] = Read(f[k], text[k + 1])
  <2>1. n \in 1..5
    OBVIOUS
  <2> QED BY <2>1, ParsedIs
<1>2. At(f[3], 10, Closed(Opened(a), b)) /\ f[3].kept
  <2>1. 0 \in 0..(n - 1) /\ 1 \in 0..(n - 1) /\ 2 \in 0..(n - 1)
    OBVIOUS
  <2>2. f[0 + 1] = Read(f[0], text[0 + 1]) /\ f[1 + 1] = Read(f[1], text[1 + 1]) /\ f[2 + 1] = Read(f[2], text[2 + 1])
    BY <1>1, <2>1
  <2>3. f[1] = Read(Start, a) /\ f[2] = Read(f[1], b) /\ f[3] = Read(f[2], "v")
    BY <1>1, <2>2
  <2>4. At(f[1], Opened(a), "none")
    BY <2>3, ReadOpening
  <2>5. At(f[2], 10, Closed(Opened(a), b))
    BY <2>3, <2>4, ReadClosing
  <2> QED BY <2>3, <2>5, ReadVersion
<1>3. f[n] = f[3]
  <2>1. CASE n = 3
    BY <2>1
  <2>2. CASE n = 5
    <3>1. 3 \in 0..(n - 1) /\ 4 \in 0..(n - 1)
      BY <2>2
    <3>2. f[3 + 1] = Read(f[3], text[3 + 1]) /\ f[4 + 1] = Read(f[4], text[4 + 1])
      BY <1>1, <3>1
    <3>3. f[4] = Read(f[3], ">") /\ f[5] = Read(f[4], "=")
      BY <2>2, <3>2
    <3>4. f[4] = f[3]
      BY <1>2, <3>3, ReadTail
    <3>5. f[5] = f[3]
      BY <1>2, <3>3, <3>4, ReadTail
    <3> QED BY <2>2, <3>5
  <2> QED BY <2>1, <2>2
<1> QED BY <1>1, <1>2, <1>3 DEF At

\* A pair of operators that a relation can be written with is read as it is meant, whether
\* the version is the last of it or the >= of dpkgfield comes behind.
LEMMA PairsAreRead ==
  ASSUME NEW ops \in Pairs
  PROVE  /\ Parsed(ops \o <<"v">>).op = Meaning(ops) /\ Parsed(ops \o <<"v">>).kept
         /\ Parsed(ops \o <<"v", ">", "=">>).op = Meaning(ops) /\ Parsed(ops \o <<"v", ">", "=">>).kept
<1>1. CASE ops = <<"<", "<">>
  <2>1. LET t == <<"<", "<">> \o <<"v">> IN Len(t) = 3 /\ t[1] = "<" /\ t[2] = "<" /\ t[3] = "v"
    OBVIOUS
  <2>2. LET t == <<"<", "<">> \o <<"v", ">", "=">>
        IN  Len(t) = 5 /\ t[1] = "<" /\ t[2] = "<" /\ t[3] = "v" /\ t[4] = ">" /\ t[5] = "="
    OBVIOUS
  <2>3. Closed(Opened("<"), "<") = "<<"
    BY DEF Opened, Closed
  <2>4. Meaning(ops) = "<<"
    BY <1>1 DEF Meaning
  <2> QED BY <1>1, <2>1, <2>2, <2>3, <2>4, PairIsRead
<1>2. CASE ops = <<"<", "=">>
  <2>1. LET t == <<"<", "=">> \o <<"v">> IN Len(t) = 3 /\ t[1] = "<" /\ t[2] = "=" /\ t[3] = "v"
    OBVIOUS
  <2>2. LET t == <<"<", "=">> \o <<"v", ">", "=">>
        IN  Len(t) = 5 /\ t[1] = "<" /\ t[2] = "=" /\ t[3] = "v" /\ t[4] = ">" /\ t[5] = "="
    OBVIOUS
  <2>3. Closed(Opened("<"), "=") = "<="
    BY DEF Opened, Closed
  <2>4. Meaning(ops) = "<="
    BY <1>2 DEF Meaning
  <2> QED BY <1>2, <2>1, <2>2, <2>3, <2>4, PairIsRead
<1>3. CASE ops = <<"=", "=">>
  <2>1. LET t == <<"=", "=">> \o <<"v">> IN Len(t) = 3 /\ t[1] = "=" /\ t[2] = "=" /\ t[3] = "v"
    OBVIOUS
  <2>2. LET t == <<"=", "=">> \o <<"v", ">", "=">>
        IN  Len(t) = 5 /\ t[1] = "=" /\ t[2] = "=" /\ t[3] = "v" /\ t[4] = ">" /\ t[5] = "="
    OBVIOUS
  <2>3. Closed(Opened("="), "=") = "="
    BY DEF Opened, Closed
  <2>4. Meaning(ops) = "="
    BY <1>3 DEF Meaning
  <2> QED BY <1>3, <2>1, <2>2, <2>3, <2>4, PairIsRead
<1>4. CASE ops = <<">", "=">>
  <2>1. LET t == <<">", "=">> \o <<"v">> IN Len(t) = 3 /\ t[1] = ">" /\ t[2] = "=" /\ t[3] = "v"
    OBVIOUS
  <2>2. LET t == <<">", "=">> \o <<"v", ">", "=">>
        IN  Len(t) = 5 /\ t[1] = ">" /\ t[2] = "=" /\ t[3] = "v" /\ t[4] = ">" /\ t[5] = "="
    OBVIOUS
  <2>3. Closed(Opened(">"), "=") = ">="
    BY DEF Opened, Closed
  <2>4. Meaning(ops) = ">="
    BY <1>4 DEF Meaning
  <2> QED BY <1>4, <2>1, <2>2, <2>3, <2>4, PairIsRead
<1>5. CASE ops = <<">", ">">>
  <2>1. LET t == <<">", ">">> \o <<"v">> IN Len(t) = 3 /\ t[1] = ">" /\ t[2] = ">" /\ t[3] = "v"
    OBVIOUS
  <2>2. LET t == <<">", ">">> \o <<"v", ">", "=">>
        IN  Len(t) = 5 /\ t[1] = ">" /\ t[2] = ">" /\ t[3] = "v" /\ t[4] = ">" /\ t[5] = "="
    OBVIOUS
  <2>3. Closed(Opened(">"), ">") = ">>"
    BY DEF Opened, Closed
  <2>4. Meaning(ops) = ">>"
    BY <1>5 DEF Meaning
  <2> QED BY <1>5, <2>1, <2>2, <2>3, <2>4, PairIsRead
<1> QED BY <1>1, <1>2, <1>3, <1>4, <1>5 DEF Pairs

\* A name alone is read as that, and the version dpkgfield adds to it with its operator.
LEMMA NamesAreRead ==
  /\ Parsed(<<>> \o <<"v">>).op = "none" /\ ~Parsed(<<>> \o <<"v">>).kept
  /\ Parsed(<<">", "=", "v">>).op = ">=" /\ Parsed(<<">", "=", "v">>).kept
<1>1. Parsed(<<>> \o <<"v">>).op = "none" /\ ~Parsed(<<>> \o <<"v">>).kept
  <2>1. PICK t : t = <<>> \o <<"v">>
    OBVIOUS
  <2>2. Len(t) = 1 /\ t[1] = "v"
    BY <2>1
  <2>3. PICK f : /\ f[0] = Start /\ Parsed(t) = f[1]
                 /\ \A k \in 0..(1 - 1) : f[k + 1] = Read(f[k], t[k + 1])
    <3>1. 1 \in 1..5
      OBVIOUS
    <3> QED BY <2>2, <3>1, ParsedIs
  <2>4. f[1] = Read(Start, "v")
    <3>1. 0 \in 0..(1 - 1) /\ 0 + 1 = 1
      OBVIOUS
    <3>2. f[0 + 1] = Read(f[0], t[0 + 1])
      BY <2>3, <3>1
    <3> QED BY <2>2, <2>3, <3>1, <3>2
  <2> QED BY <2>1, <2>3, <2>4, ReadNothing
<1>2. Parsed(<<">", "=", "v">>).op = ">=" /\ Parsed(<<">", "=", "v">>).kept
  <2>1. LET t == <<">", "=", "v">> IN Len(t) = 3 /\ t[1] = ">" /\ t[2] = "=" /\ t[3] = "v"
    OBVIOUS
  <2>2. Closed(Opened(">"), "=") = ">="
    BY DEF Opened, Closed
  <2>3. ">" \in {"<", ">", "="} /\ "=" \in {"<", ">", "="} /\ ">=" # "none" /\ 3 \in {3, 5} /\ 3 # 5
    OBVIOUS
  <2>4. PICK t : t = <<">", "=", "v">>
    OBVIOUS
  <2> QED BY <2>1, <2>2, <2>3, <2>4, PairIsRead
<1> QED BY <1>1, <1>2

-----------------------------------------------------------------------------
(* Relations and entries.                                                  *)

LEMMA RelationIs ==
  ASSUME NEW n, NEW text, NEW v
  PROVE  /\ Relation(n, text, v).name = n /\ Relation(n, text, v).op = Parsed(text).op
         /\ Parsed(text).kept => Relation(n, text, v).ver = v
         /\ Parsed(text).kept => Relation(n, text, v) = [name |-> n, op |-> Parsed(text).op, ver |-> v]
  BY DEF Relation

\* What is written with a pair of operators is translated to what is meant, on both ways.
LEMMA Translated ==
  ASSUME NEW i, i.ops \in Pairs
  PROVE  Asked(i) = Meant(i) /\ Relation(i.name, i.ops \o <<"v", ">", "=">>, i.ver) = Meant(i)
<1>1. Asked(i) = [name |-> i.name, op |-> Parsed(i.ops \o <<"v">>).op, ver |-> i.ver]
  BY PairsAreRead, RelationIs DEF Asked
<1>2. Relation(i.name, i.ops \o <<"v", ">", "=">>, i.ver)
        = [name |-> i.name, op |-> Parsed(i.ops \o <<"v", ">", "=">>).op, ver |-> i.ver]
  BY PairsAreRead, RelationIs
<1> QED BY <1>1, <1>2, PairsAreRead DEF Meant

LEMMA EntryMeant ==
  ASSUME NEW f, NEW i, i.ops \in Pairs, ~i.mark, ~VER_NONE_ALL, HasPair(i.ops) \/ ~Nonzero(VER_NONE)
  PROVE  Entry(f, i) = Meant(i)
<1>1. i.ops # <<>>
  BY DEF Pairs
<1>2. Relation(i.name, i.ops \o <<"v">>, i.ver) = Meant(i)
  BY Translated DEF Asked
<1> QED BY <1>1, <1>2, Translated DEF Entry

\* The items of a defines file.
LEMMA ItemsAre ==
  ASSUME Types, NEW f \in Fields, NEW i \in fields.items[f]
  PROVE  /\ i.name \in Packages /\ i.ver \in Versions \cup {0} /\ i.mark \in BOOLEAN
         /\ i.ops = <<>> <=> i.ver = 0
         /\ i.mark => i.ops = <<>>
<1>1. i \in UNION {fields.items[g] : g \in Fields}
  OBVIOUS
<1>2. i \in Item
  BY <1>1, ControlAssumption DEF Types
<1> QED BY <1>2 DEF Item

\* Versions that hold of what is installed.
LEMMA InstalledHolds ==
  ASSUME Types, NEW p \in Packages, installed[p] # 0, NEW r, r.op = ">=", r.ver = installed[p]
  PROVE  Holds(installed[p], r)
<1>1. installed[p] \in Nat
  BY ControlAssumption DEF Types
<1> QED BY <1>1 DEF Holds

\* The name alone, in a field that is written: nothing is asked of it but that it is there.
LEMMA NameHolds ==
  ASSUME Types, NEW f \in Fields, NEW i, i.ops = <<>>, i.name \in Packages, installed[i.name] # 0,
         NEW r, r = Entry(f, i), r.op \notin {"none", "raw"}
  PROVE  r.ver # 0 /\ Holds(installed[r.name], r)
<1>1. ~HasPair(i.ops)
  BY DEF HasPair
<1>2. r = Relation(i.name, <<">", "=", "v">>, installed[i.name])
  BY <1>1 DEF Entry, Installed
<1>3. r.name = i.name /\ r.op = ">=" /\ r.ver = installed[i.name]
  BY <1>2, RelationIs, NamesAreRead
<1> QED BY <1>3, InstalledHolds

LEMMA NameAsked == ASSUME NEW i, i.ops = <<>> PROVE Asked(i).op = "none"
  BY RelationIs, NamesAreRead DEF Asked

-----------------------------------------------------------------------------
(* The steps.                                                              *)

LEMMA InitHolds == Init => IInv
<1> SUFFICES ASSUME Init PROVE IInv
  OBVIOUS
<1>1. Types
  BY DEF Init, Types
<1>2. RelationsMeant
  BY DEF Init, RelationsMeant, Written, Fields, Required
<1> QED BY <1>1, <1>2 DEF Init, IInv, Installs, SwitchKept, Owners

\* apt installs what it is asked for, or the build ends.
LEMMA DepsStep == ASSUME IInv, pm_install_deps PROVE IInv'
<1>1. UNCHANGED <<fields, only, VER_NONE, VER_NONE_ALL, sodeps, elf, control>> /\ pc = "deps"
  BY DEF pm_install_deps, given
<1>2. Types'
  <2>1. installed' \in [Packages -> Versions \cup {0}]
    BY DEF IInv, Types, pm_install_deps, Satisfied
  <2> QED BY <1>1, <2>1 DEF IInv, Types
<1>3. Wanted' = Wanted /\ Unknown' = Unknown
  BY <1>1 DEF Wanted, Unknown
<1>4. request' = {} \/ request' = {Asked(i) : i \in Wanted}
  BY <1>1 DEF pm_install_deps, IInv
<1>5. pc' = "dead" \/ pc' = "filter"
  BY DEF pm_install_deps
<1>6. Installs'
  <2> SUFFICES ASSUME pc' = "filter" PROVE Installs'
    BY <1>5 DEF Installs
  <2>1. request' = {Asked(i) : i \in Wanted} /\ ~Unknown /\ installed' \in Satisfied(request')
    BY DEF pm_install_deps
  <2>2. ASSUME NEW i \in Wanted PROVE Holds(installed'[i.name], Asked(i))
    <3>1. i.name \in Packages
      <4>1. PICK f \in Fields : i \in fields.items[f]
        BY DEF Wanted, Fields, Required
      <4> QED BY <4>1, ItemsAre DEF IInv
    <3>2. Asked(i) \in {r \in request' : r.name = i.name}
      BY <2>1, RelationIs DEF Asked
    <3> QED BY <2>1, <3>1, <3>2 DEF Satisfied
  <2> QED BY <1>3, <2>1, <2>2 DEF Installs
<1>7. SwitchKept'
  BY <1>1, <1>5 DEF pm_install_deps, SwitchKept, ShellTrue
<1>8. Owners'
  BY <1>1 DEF IInv, Owners
<1>9. RelationsMeant'
  <2> SUFFICES ASSUME NEW f \in Fields, NEW i \in fields.items[f], i.ops \in Pairs
               PROVE  /\ request' # {} /\ i \in Wanted => Meant(i) \in request'
                      /\ ~Written(f)'
    BY <1>1, <1>3 DEF RelationsMeant
  <2>1. ~Written(f)'
    BY <1>5 DEF Written, Fields, Required
  <2>2. i \in Wanted => Asked(i) = Meant(i)
    BY Translated
  <2> QED BY <1>4, <2>1, <2>2
<1> QED BY <1>2, <1>3, <1>4, <1>5, <1>6, <1>7, <1>8, <1>9 DEF IInv

\* What a step that leaves the request and the packages alone keeps.
LEMMA Kept ==
  ASSUME IInv, UNCHANGED <<given, installed, request>>
  PROVE  /\ Wanted' = Wanted /\ Unknown' = Unknown
         /\ request' # {} => request' = {Asked(i) : i \in Wanted'}
         /\ pc \notin {"deps", "dead"} => Installs'
<1>1. Wanted' = Wanted /\ Unknown' = Unknown
  BY DEF Wanted, Unknown, given
<1> QED BY <1>1 DEF IInv, Installs, given

LEMMA FilterStep == ASSUME IInv, filter_elf PROVE IInv'
<1>1. /\ UNCHANGED <<fields, only, VER_NONE_ALL, VER_NONE, installed, request, control>>
      /\ pc = "filter" /\ pc' = "PKGDEP"
  BY DEF filter_elf, given
<1>2. Types' /\ Owners'
  BY <1>1 DEF IInv, Types, Owners, filter_elf
<1>3. SwitchKept'
  BY <1>1 DEF IInv, SwitchKept, ShellTrue
<1>4. RelationsMeant'
  BY <1>1 DEF IInv, RelationsMeant, Written, Wanted, Nonzero, Fields, Required
<1> QED BY <1>1, <1>2, <1>3, <1>4, Kept DEF IInv, given

LEMMA OptionalStep == ASSUME IInv, OptionalFields PROVE IInv'
<1>1. /\ UNCHANGED <<fields, only, VER_NONE_ALL, installed, request, sodeps, elf, control>>
      /\ pc = "optional" /\ pc' = "PKGRECOM" /\ VER_NONE' = "1"
  BY DEF OptionalFields, given
<1>2. Types' /\ Owners'
  BY <1>1 DEF IInv, Types, Owners
<1>3. RelationsMeant'
  BY <1>1 DEF IInv, RelationsMeant, Written, Wanted, Nonzero, Fields, Required
<1> QED BY <1>1, <1>2, <1>3, Kept DEF IInv, given, SwitchKept

\* A field is written from its items and the owners of the libraries.
LEMMA FieldIs ==
  ASSUME IInv, NEW f \in DOMAIN After, dpkgfield(f), pc' # "dead"
  PROVE  \E all : /\ fields.items[f] \subseteq all
                  /\ \A j \in all : j \in fields.items[f] \/ (f \in fields.auto /\ j \in AutoDeps)
                  /\ control'[f] = {Entry(f, i) : i \in {j \in all : ~Self(j)}}
                  /\ \A g \in Fields : g # f => control'[g] = control[g]
                  /\ DOMAIN control' = Fields
                  /\ f \in fields.auto => elf
                  /\ pc = f /\ pc' = After[f]
<1> DEFINE all == fields.items[f] \cup IF f \in fields.auto THEN AutoDeps ELSE {}
<1>1. f \in Fields
  BY DEF After, Fields, Required
<1>2. /\ control' = [control EXCEPT ![f] = {Entry(f, i) : i \in {j \in all : ~Self(j)}}]
      /\ ~(f \in fields.auto /\ ~elf) /\ pc = f /\ pc' = After[f] /\ elf \in BOOLEAN
  BY DEF dpkgfield, IInv, Types
<1>3. DOMAIN control = Fields
  BY DEF IInv, Types
<1>4. \A j \in all : j \in fields.items[f] \/ (f \in fields.auto /\ j \in AutoDeps)
  OBVIOUS
<1>5. fields.items[f] \subseteq all
  OBVIOUS
<1> HIDE DEF all
<1>6. /\ control'[f] = {Entry(f, i) : i \in {j \in all : ~Self(j)}}
      /\ \A g \in Fields : g # f => control'[g] = control[g]
      /\ DOMAIN control' = Fields
  BY <1>1, <1>2, <1>3
<1> QED BY <1>2, <1>4, <1>5, <1>6

\* Each required relation of a field that is written holds of what is installed.
LEMMA FieldHoldsOnce ==
  ASSUME IInv, NEW f \in Required, dpkgfield(f), pc' # "dead" PROVE FieldHolds(f)'
<1>1. f \in DOMAIN After /\ f \in Fields /\ UNCHANGED <<fields, only, VER_NONE, VER_NONE_ALL, installed, sodeps, elf>>
  BY DEF dpkgfield, given, After, Fields, Required
<1>2. PICK all : /\ \A j \in all : j \in fields.items[f] \/ (f \in fields.auto /\ j \in AutoDeps)
                 /\ control'[f] = {Entry(f, i) : i \in {j \in all : ~Self(j)}}
                 /\ f \in fields.auto => elf
                 /\ pc = f
  BY <1>1, FieldIs
<1>3. SUFFICES ASSUME VER_NONE # "yes", elf => sodeps # {}, Sound(f),
                      NEW r \in control'[f], r.op \notin {"none", "raw"}
               PROVE  r.ver # 0 /\ (~only => Holds(installed[r.name], r))
  BY <1>1 DEF FieldHolds, Sound
<1>4. PICK i \in all : r = Entry(f, i)
  BY <1>2
<1>5. Types /\ pc \notin {"deps", "dead", "PKGRECOM", "done"}
  BY <1>2 DEF IInv, Required
<1>6. only => VER_NONE = "1"
  BY <1>3, <1>5 DEF IInv, SwitchKept, ShellTrue
<1>7. CASE i \in fields.items[f]
  <2>1. /\ i.name \in Packages
        /\ i.ops = <<>> <=> i.ver = 0
        /\ i.ops \in Pairs \cup {<<>>}
    BY <1>1, <1>3, <1>5, <1>7, ItemsAre DEF Sound
  <2>2. ~only => Holds(installed[i.name], Asked(i))
    <3>1. ~only => i \in Wanted
      BY <1>7, <1>1 DEF Wanted
    <3> QED BY <1>5, <3>1 DEF IInv, Installs
  <2>3. CASE i.ops = <<>>
    <3>1. ~HasPair(i.ops)
      BY <2>3 DEF HasPair
    <3>2. ~Nonzero(VER_NONE)
      BY <1>3, <1>4, <2>3, <3>1 DEF Entry
    <3>3. ~only /\ installed[i.name] # 0
      BY <1>6, <2>2, <3>2 DEF Nonzero, Holds
    <3> QED BY <1>1, <1>3, <1>4, <1>5, <2>1, <2>3, <3>3, NameHolds
  <2>4. CASE i.ops \in Pairs
    <3>1. ~i.mark
      <4>1. i.ops # <<>>
        BY <2>4 DEF Pairs
      <4>2. i.mark => i.ops = <<>>
        BY <1>1, <1>5, <1>7, ItemsAre
      <4> QED BY <4>1, <4>2
    <3>2. ~VER_NONE_ALL /\ (HasPair(i.ops) \/ ~Nonzero(VER_NONE))
      <4>1. CASE VER_NONE_ALL
        BY <1>3, <1>4, <4>1 DEF Entry
      <4>2. CASE ~VER_NONE_ALL /\ ~HasPair(i.ops) /\ Nonzero(VER_NONE)
        BY <1>3, <1>4, <4>2 DEF Entry
      <4> QED BY <4>1, <4>2
    <3>3. r = Meant(i) /\ Asked(i) = Meant(i)
      BY <1>4, <2>4, <3>1, <3>2, EntryMeant, Translated
    <3>4. Meant(i).name = i.name /\ Meant(i).ver = i.ver /\ i.ver # 0
      BY <2>1, <2>4 DEF Meant, Pairs
    <3> QED BY <2>2, <3>3, <3>4
  <2> QED BY <2>1, <2>3, <2>4
<1>8. CASE f \in fields.auto /\ i \in AutoDeps
  <2>1. sodeps # {}
    BY <1>2, <1>3, <1>8
  <2>2. PICK p \in sodeps : i = Plain(p)
    BY <1>8, <2>1 DEF AutoDeps
  <2>3. p \in Packages /\ installed[p] # 0 /\ i.ops = <<>> /\ i.name = p
    BY <2>2, <1>5 DEF IInv, Types, Owners, Plain
  <2> QED BY <1>1, <1>3, <1>4, <1>5, <2>3, NameHolds
<1> QED BY <1>2, <1>7, <1>8

LEMMA FieldStep == ASSUME IInv, NEW f \in DOMAIN After, dpkgfield(f) PROVE IInv'
<1>1. /\ f \in Fields /\ UNCHANGED <<fields, only, VER_NONE, VER_NONE_ALL, installed, request, sodeps, elf>>
      /\ pc = f /\ f \in {"PKGDEP", "PKGPRDEP", "PKGRECOM"}
  BY DEF dpkgfield, given, After, Fields, Required
<1>2. Wanted' = Wanted /\ (request' # {} => request' = {Asked(i) : i \in Wanted'}) /\ Installs'
  BY <1>1, Kept DEF given
<1>3. CASE pc' = "dead"
  <2>1. control' = control
    BY <1>3, <1>1 DEF dpkgfield, After
  <2>2. Types' /\ Owners' /\ SwitchKept'
    BY <1>1, <1>3, <2>1 DEF IInv, Types, Owners, SwitchKept
  <2>3. RelationsMeant'
    BY <1>1, <1>2, <1>3, <2>1 DEF IInv, RelationsMeant, Written, Nonzero, Fields, Required
  <2> QED BY <1>2, <1>3, <2>2, <2>3 DEF IInv
<1>4. CASE pc' # "dead"
  <2>1. PICK all : /\ fields.items[f] \subseteq all
                   /\ control'[f] = {Entry(f, i) : i \in {j \in all : ~Self(j)}}
                   /\ \A g \in Fields : g # f => control'[g] = control[g]
                   /\ DOMAIN control' = Fields
                   /\ pc' = After[f]
    BY <1>4, FieldIs
  <2>2. /\ f = "PKGDEP" => pc' = "PKGPRDEP"
        /\ f = "PKGPRDEP" => pc' = "optional"
        /\ f = "PKGRECOM" => pc' = "done"
    BY <2>1 DEF After
  <2>3. Types' /\ Owners' /\ SwitchKept'
    BY <1>1, <2>1, <2>2 DEF IInv, Types, Owners, SwitchKept, ShellTrue
  <2>4. pc' \in {"PKGPRDEP", "optional"} => FieldHolds("PKGDEP")'
    <3>1. CASE f = "PKGDEP"
      BY <1>4, <3>1, FieldHoldsOnce DEF Required
    <3>2. CASE f = "PKGPRDEP"
      <4>1. control'["PKGDEP"] = control["PKGDEP"]
        BY <2>1, <3>2 DEF Fields, Required
      <4> QED BY <1>1, <3>2, <4>1 DEF IInv, FieldHolds, Sound
    <3> QED BY <1>1, <2>2, <3>1, <3>2
  <2>5. pc' = "optional" => FieldHolds("PKGPRDEP")'
    <3>1. CASE f = "PKGPRDEP"
      BY <1>4, <3>1, FieldHoldsOnce DEF Required
    <3> QED BY <1>1, <2>2, <3>1
  <2>6. RelationsMeant'
    <3> SUFFICES ASSUME NEW g \in Fields, NEW i \in fields.items[g], i.ops \in Pairs
                 PROVE  /\ request' # {} /\ i \in Wanted => Meant(i) \in request'
                        /\ Written(g)' /\ ~VER_NONE_ALL /\ (HasPair(i.ops) \/ ~Nonzero(VER_NONE)) =>
                              Meant(i) \in control'[g]
      BY <1>1, <1>2 DEF RelationsMeant
    <3>1. request' # {} /\ i \in Wanted => Meant(i) \in request'
      BY <1>1 DEF IInv, RelationsMeant
    <3>2. CASE g # f
      <4>1. Written(g)' => Written(g)
        BY <1>1, <2>2, <3>2 DEF Written, Fields, Required
      <4>2. control'[g] = control[g]
        BY <2>1, <3>2
      <4> QED BY <3>1, <4>1, <4>2 DEF IInv, RelationsMeant
    <3>3. CASE g = f /\ ~VER_NONE_ALL /\ (HasPair(i.ops) \/ ~Nonzero(VER_NONE))
      <4>1. ~i.mark /\ ~Self(i)
        <5>1. Types
          BY DEF IInv
        <5> QED BY <5>1, ItemsAre DEF Pairs, Self, Plain
      <4>2. Entry(f, i) = Meant(i)
        BY <3>3, <4>1, EntryMeant
      <4> QED BY <2>1, <3>1, <3>3, <4>1, <4>2
    <3> QED BY <3>1, <3>2, <3>3
  <2> QED BY <1>2, <2>3, <2>4, <2>5, <2>6 DEF IInv
<1> QED BY <1>3, <1>4

LEMMA Consequences == ASSUME IInv PROVE RelationsMeant /\ DependsHold
<1>1. pc = "optional" => FieldHolds("PKGDEP") /\ FieldHolds("PKGPRDEP")
  BY DEF IInv
<1>2. DependsHold
  BY <1>1 DEF DependsHold, FieldHolds, Required
<1> QED BY <1>2 DEF IInv

-----------------------------------------------------------------------------
(* The theorems.                                                           *)

\* The invariant: what apt was asked for is installed, the switch is the same, and the
\* fields that are written hold.
THEOREM ControlHolds == Spec => []IInv
<1>1. Init => IInv
  BY InitHolds
<1>2. IInv /\ [Next]_vars => IInv'
  <2> SUFFICES ASSUME IInv, [Next]_vars PROVE IInv'
    OBVIOUS
  <2>1. CASE UNCHANGED vars
    <3>1. UNCHANGED <<fields, only, VER_NONE, VER_NONE_ALL, installed, request, sodeps, elf, control, pc>>
      BY <2>1 DEF vars
    <3>2. Types' /\ Owners' /\ SwitchKept' /\ Wanted' = Wanted /\ Unknown' = Unknown
      BY <3>1 DEF IInv, Types, Owners, SwitchKept, Wanted, Unknown
    <3>3. Installs' /\ RelationsMeant' /\ (request' # {} => request' = {Asked(i) : i \in Wanted'})
      BY <3>1, <3>2 DEF IInv, Installs, RelationsMeant, Written, Nonzero
    <3>4. \A f \in Required : FieldHolds(f)' = FieldHolds(f)
      BY <3>1 DEF FieldHolds, Sound
    <3> QED BY <3>1, <3>2, <3>3, <3>4 DEF IInv, Required
  <2> QED BY <2>1, DepsStep, FilterStep, OptionalStep, FieldStep DEF Next
<1> QED BY <1>1, <1>2, PTL DEF Spec

\* Operators and versions survive the regular expression of dpkgfield (pm/dpkg.sh:69) and
\* the automaton of autobuild_to_deb_version (pm.cpp), for apt and for the control file.
THEOREM RelationsSurvive == Spec => []RelationsMeant
<1>1. IInv => RelationsMeant
  BY Consequences
<1> QED BY ControlHolds, <1>1, PTL

\* What dpkgfield fills in (pm/dpkg.sh:84) and what it copies holds of the packages that
\* pm_install_deps (11-pm-deps.sh:5) installed.
THEOREM DependenciesHold == Spec => []DependsHold
<1>1. IInv => DependsHold
  BY Consequences
<1> QED BY ControlHolds, <1>1, PTL
=============================================================================
